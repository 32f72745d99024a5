----------------------------- MODULE EventFeed -----------------------------
(***************************************************************************)
(* What an event stream promises its reader, with no tickets, polls or     *)
(* cursors: only events that are published, only those meant for it, each  *)
(* one at most once and in the order of their ids.  SseFeed implements it. *)
(***************************************************************************)
EXTENDS Naturals, Sequences, SequencesExt

CONSTANTS
    Events,     \* event ids, naturals in the order in which they were made
    Streams     \* streams that may be opened

VARIABLES
    visible,    \* published events
    audience,   \* events meant for the reader of a stream
    stream      \* what was written to a stream

feedVars == <<visible, audience, stream>>

Init ==
    /\ visible \subseteq Events
    /\ audience \in [Streams -> SUBSET Events]
    /\ stream = [s \in Streams |-> << >>]

InOrder(events) == \A i, j \in DOMAIN events : i < j => events[i] < events[j]

Publish ==
    /\ visible \subseteq visible'
    /\ UNCHANGED <<audience, stream>>

(* A stream gets its reader before anything is written to it. *)
Open ==
    /\ \A s \in Streams : stream[s] # << >> => audience'[s] = audience[s]
    /\ UNCHANGED <<visible, stream>>

Write ==
    /\ \A s \in Streams :
          /\ IsPrefix(stream[s], stream'[s])
          /\ InOrder(stream'[s])
          /\ \A i \in (Len(stream[s]) + 1)..Len(stream'[s]) :
                stream'[s][i] \in visible \cap audience[s]
    /\ UNCHANGED <<visible, audience>>

Next == Publish \/ Open \/ Write

Spec == Init /\ [][Next]_feedVars
=============================================================================
