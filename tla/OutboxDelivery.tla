--------------------------- MODULE OutboxDelivery ---------------------------
(***************************************************************************)
(* What the transactional outbox promises its producers, with no relay, no *)
(* row status and no queue: a row committed with a business transaction is *)
(* handed to its queue or given up, and it is acknowledged only after it   *)
(* was handed over.  OutboxRelay is shown to implement this module.        *)
(***************************************************************************)
CONSTANTS
    Events,      \* outbox rows, named by their id
    Unrouted     \* rows whose event type has no queue

VARIABLES
    committed,   \* rows whose producing transaction committed
    delivered,   \* rows whose job the queue accepted at least once
    published,   \* rows acknowledged as PUBLISHED
    failed       \* rows given up as FAILED

deliveryVars == <<committed, delivered, published, failed>>

Init ==
    /\ committed = {}
    /\ delivered = {}
    /\ published = {}
    /\ failed = {}

Commit(e) ==
    /\ e \notin committed
    /\ committed' = committed \cup {e}
    /\ UNCHANGED <<delivered, published, failed>>

Deliver(e) ==
    /\ e \in committed \ Unrouted
    /\ delivered' = delivered \cup {e}
    /\ UNCHANGED <<committed, published, failed>>

(* Only rows that were handed over, or that nobody subscribes to. *)
Acknowledge(S) ==
    /\ S \subseteq committed
    /\ S \subseteq delivered \cup Unrouted
    /\ published' = published \cup S
    /\ failed' = failed \ S
    /\ UNCHANGED <<committed, delivered>>

(* A poison row is given up; an acknowledgement may already be recorded. *)
GiveUp(e) ==
    /\ e \in committed \ Unrouted
    /\ failed' = failed \cup {e}
    /\ published' = published \ {e}
    /\ UNCHANGED <<committed, delivered>>

Next ==
    \/ \E e \in Events : Commit(e) \/ Deliver(e) \/ GiveUp(e)
    \/ \E S \in SUBSET Events : Acknowledge(S)

Spec == Init /\ [][Next]_deliveryVars

(* A committed row is not left behind: it is acknowledged or given up. *)
Settled == \A e \in Events : e \in committed ~> e \in published \cup failed
=============================================================================
