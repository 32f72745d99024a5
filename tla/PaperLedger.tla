---------------------------- MODULE PaperLedger ----------------------------
(***************************************************************************)
(* What the forward test promises of a deployment's paper book, as if each *)
(* signal were handled in one piece: a signal is filled at most once or    *)
(* rejected, fills alternate between an entry and the exit that closes it, *)
(* and after an exit the equity curve covers exactly the fills so far.     *)
(* ForwardPaper with one worker is shown to implement this module.         *)
(***************************************************************************)
EXTENDS Naturals, FiniteSets

CONSTANTS
    Signals       \* rows of signal_events

VARIABLES
    kind,         \* role and direction each signal asks for
    status,       \* where each signal stands; "absent" before it is recorded
    book,         \* the fills: [signal, role, direction, seq]
    curve         \* the fill sets that stored curves were computed from

ledgerVars == <<kind, status, book, curve>>

Kinds == [role : {"ENTRY", "EXIT"}, direction : {"LONG", "SHORT", "ANY"}]

Flat == Cardinality(book) % 2 = 0
Last == CHOOSE f \in book : f.seq = Cardinality(book)

Init ==
    /\ kind \in [Signals -> Kinds]
    /\ status = [s \in Signals |-> "absent"]
    /\ book = {}
    /\ curve = {}

Record(s, verdict) ==
    /\ status[s] = "absent"
    /\ status' = [status EXCEPT ![s] = verdict]
    /\ UNCHANGED <<kind, book, curve>>

Refuse(s) ==
    /\ status[s] = "PENDING"
    /\ status' = [status EXCEPT ![s] = "REJECTED"]
    /\ UNCHANGED <<kind, book, curve>>

Fill(s, direction) ==
    /\ status[s] = "PENDING"
    /\ status' = [status EXCEPT ![s] = "PROCESSED"]
    /\ book' = book \cup {[signal |-> s, role |-> kind[s].role, direction |-> direction,
                           seq |-> Cardinality(book) + 1]}
    /\ UNCHANGED kind

(* An entry opens a position when none is open; the curve has no new trade. *)
Enter(s) ==
    /\ kind[s].role = "ENTRY"
    /\ Flat
    /\ Fill(s, kind[s].direction)
    /\ UNCHANGED curve

(* An exit closes the open position, of its direction if it names one. *)
Exit(s) ==
    /\ kind[s].role = "EXIT"
    /\ ~Flat
    /\ kind[s].direction \in {"ANY", Last.direction}
    /\ Fill(s, Last.direction)
    /\ curve' = {book'}

Next == \E s \in Signals :
    \/ \E verdict \in {"PENDING", "REJECTED"} : Record(s, verdict)
    \/ Refuse(s)
    \/ Enter(s)
    \/ Exit(s)

Spec == Init /\ [][Next]_ledgerVars
=============================================================================
