-------------------------- MODULE OutboxRelay_proofs --------------------------
(***************************************************************************)
(* Proofs about OutboxRelay for any number of relays and rows, any batch   *)
(* size and any number of lost iterations.                                 *)
(***************************************************************************)
EXTENDS OutboxRelay, TLAPS

(***************************************************************************)
(* The inductive invariant.  A row in anybody's hands is committed, and a  *)
(* relay has it in one place; what a relay is about to acknowledge was     *)
(* delivered; a completed job stays completed until Redis drops it.        *)
(***************************************************************************)
HeldCommitted ==
    \A r \in Relays : \A e \in Held(r) : status[e] # "NONE"

HeldInOnePlace ==
    \A r \in Relays : /\ todo[r] \cap done[r] = {}
                      /\ failing[r] \notin todo[r] \cup done[r]

DoneDelivered ==
    \A r \in Relays : done[r] \ Unrouted \subseteq Delivered

FailingRouted == \A r \in Relays : failing[r] \notin Unrouted

HandledStaysCompleted ==
    \A e \in Events : handled[e] > 0 => e \in evicted \/ jobs[e] = "completed"

IInv ==
    /\ TypeOK
    /\ HeldCommitted
    /\ HeldInOnePlace
    /\ FreshRowHeldOnce
    /\ DoneDelivered
    /\ FailingRouted
    /\ NoLostEvent
    /\ HandledStaysCompleted
    /\ RerunOnlyAfterEviction

-----------------------------------------------------------------------------
LEMMA TypeInit == Init => TypeOK
  BY BoundsAssumption DEF Init, TypeOK, Statuses, JobStates

LEMMA TypeNext == TypeOK /\ [Next]_vars => TypeOK'
<1> SUFFICES ASSUME TypeOK, [Next]_vars PROVE TypeOK'
  OBVIOUS
<1> USE DEF TypeOK, Statuses, JobStates, rowVars, relayVars, jobVars
<1>1. ASSUME NEW e \in Events, CommitRow(e) PROVE TypeOK'
  BY <1>1, BoundsAssumption DEF CommitRow
<1>2. CASE Tick
  BY <1>2 DEF Tick
<1>3. ASSUME NEW r \in Relays, NEW batch \in SUBSET Events, claimPending(r, batch)
      PROVE TypeOK'
  BY <1>3 DEF claimPending
<1>4. ASSUME NEW r \in Relays, NEW e \in Events, Skip(r, e) PROVE TypeOK'
  BY <1>4 DEF Skip
<1>5. ASSUME NEW r \in Relays, NEW e \in Events, Publish(r, e) PROVE TypeOK'
  BY <1>5, BoundsAssumption DEF Publish, AddJob
<1>6. ASSUME NEW r \in Relays, NEW e \in Events, PublishThrows(r, e) PROVE TypeOK'
  <2>1. CASE AddJob(e)
    BY <1>6, <2>1, BoundsAssumption DEF PublishThrows, AddJob
  <2>2. CASE UNCHANGED jobVars
    BY <1>6, <2>2 DEF PublishThrows
  <2> QED BY <1>6, <2>1, <2>2 DEF PublishThrows
<1>7. ASSUME NEW r \in Relays, markFailed(r) PROVE TypeOK'
  BY <1>7 DEF markFailed
<1>8. ASSUME NEW r \in Relays, markPublished(r) PROVE TypeOK'
  BY <1>8 DEF markPublished
<1>9. ASSUME NEW r \in Relays, LoseIteration(r) PROVE TypeOK'
  BY <1>9 DEF LoseIteration
<1>10. CASE reclaimStale
  BY <1>10 DEF reclaimStale
<1>11. ASSUME NEW e \in Events, JobStep(e) \/ EvictJob(e) PROVE TypeOK'
  <2>1. CASE StartJob(e) \/ CompleteJob(e) \/ EvictJob(e)
    BY <2>1 DEF StartJob, CompleteJob, EvictJob
  <2>2. CASE FailAttempt(e)
    BY <2>2, BoundsAssumption DEF FailAttempt
  <2>3. CASE StallJob(e)
    BY <2>3, BoundsAssumption DEF StallJob
  <2> QED BY <1>11, <2>1, <2>2, <2>3 DEF JobStep
<1>12. CASE UNCHANGED vars
  BY <1>12 DEF vars
<1> QED
  BY <1>1, <1>2, <1>3, <1>4, <1>5, <1>6, <1>7, <1>8, <1>9, <1>10, <1>11, <1>12
     DEF Next, RelayStep

(* The status, type and dedup columns are well typed in every run. *)
THEOREM TypeCorrect == Spec => []TypeOK
  BY TypeInit, TypeNext, PTL DEF Spec

-----------------------------------------------------------------------------
LEMMA InvInit == Init => IInv
<1> SUFFICES ASSUME Init PROVE IInv
  OBVIOUS
<1>1. TypeOK
  BY TypeInit
<1>2. \A r \in Relays : Held(r) = {}
  BY NoEventAssumption DEF Init, Held
<1> QED
  BY <1>1, <1>2, NoEventAssumption, UnroutedAssumption
     DEF Init, IInv, HeldCommitted, HeldInOnePlace, FreshRowHeldOnce, DoneDelivered,
         FailingRouted,
         NoLostEvent, HandledStaysCompleted, RerunOnlyAfterEviction, Delivered

(* The queue never un-accepts a job, and only JobStep and EvictJob rerun it. *)
LEMMA DeliveredGrows ==
  ASSUME TypeOK, [Next]_vars
  PROVE  Delivered \subseteq Delivered'
<1> USE DEF TypeOK, Delivered
<1>1. ASSUME NEW e \in Events, AddJob(e) PROVE Delivered \subseteq Delivered'
  BY <1>1 DEF AddJob
<1>2. ASSUME UNCHANGED jobVars PROVE Delivered \subseteq Delivered'
  BY <1>2 DEF jobVars
<1>3. ASSUME NEW e \in Events, JobStep(e) \/ EvictJob(e)
      PROVE  Delivered \subseteq Delivered'
  BY <1>3 DEF JobStep, StartJob, CompleteJob, FailAttempt, StallJob, EvictJob, JobStates
<1> QED
  BY <1>1, <1>2, <1>3
     DEF Next, RelayStep, CommitRow, Tick, claimPending, Skip, Publish, PublishThrows,
         markFailed, markPublished, LoseIteration, reclaimStale, vars

LEMMA RerunNext ==
  ASSUME IInv, [Next]_vars
  PROVE  HandledStaysCompleted' /\ RerunOnlyAfterEviction'
<1> USE DEF IInv, TypeOK, HandledStaysCompleted, RerunOnlyAfterEviction
<1>1. ASSUME NEW e \in Events, AddJob(e)
      PROVE  HandledStaysCompleted' /\ RerunOnlyAfterEviction'
  BY <1>1 DEF AddJob
<1>2. ASSUME UNCHANGED jobVars
      PROVE  HandledStaysCompleted' /\ RerunOnlyAfterEviction'
  BY <1>2 DEF jobVars
<1>3. ASSUME NEW e \in Events, JobStep(e) \/ EvictJob(e)
      PROVE  HandledStaysCompleted' /\ RerunOnlyAfterEviction'
  BY <1>3 DEF JobStep, StartJob, CompleteJob, FailAttempt, StallJob, EvictJob, JobStates
<1> QED
  BY <1>1, <1>2, <1>3
     DEF Next, RelayStep, CommitRow, Tick, claimPending, Skip, Publish, PublishThrows,
         markFailed, markPublished, LoseIteration, reclaimStale, vars

LEMMA DeliveryNext ==
  ASSUME IInv, [Next]_vars
  PROVE  DoneDelivered' /\ NoLostEvent'
<1> USE DEF IInv, TypeOK, DoneDelivered, NoLostEvent, Statuses
<1>1. Delivered \subseteq Delivered'
  BY DeliveredGrows
<1>2. ASSUME UNCHANGED done,
             \A e \in Events : status'[e] = "PUBLISHED" => status[e] = "PUBLISHED"
      PROVE  DoneDelivered' /\ NoLostEvent'
  BY <1>1, <1>2
<1>3. ASSUME NEW r \in Relays, NEW e \in Events, Skip(r, e)
      PROVE  DoneDelivered' /\ NoLostEvent'
  BY <1>1, <1>3 DEF Skip, rowVars
<1>4. ASSUME NEW r \in Relays, NEW e \in Events, Publish(r, e)
      PROVE  DoneDelivered' /\ NoLostEvent'
  <2>1. e \in Delivered'
    BY <1>4 DEF Publish, AddJob, Delivered
  <2> QED BY <1>1, <1>4, <2>1 DEF Publish, rowVars
<1>5. ASSUME NEW r \in Relays, markPublished(r)
      PROVE  DoneDelivered' /\ NoLostEvent'
  BY <1>1, <1>5 DEF markPublished
<1>6. ASSUME NEW r \in Relays, LoseIteration(r)
      PROVE  DoneDelivered' /\ NoLostEvent'
  BY <1>1, <1>6 DEF LoseIteration, rowVars
<1>7. ASSUME NEW r \in Relays, NEW batch \in SUBSET Events, claimPending(r, batch)
      PROVE  DoneDelivered' /\ NoLostEvent'
  BY <1>2, <1>7 DEF claimPending
<1>8. ASSUME NEW r \in Relays, markFailed(r)
      PROVE  DoneDelivered' /\ NoLostEvent'
  BY <1>2, <1>8 DEF markFailed
<1>9. ASSUME reclaimStale PROVE DoneDelivered' /\ NoLostEvent'
  BY <1>2, <1>9 DEF reclaimStale, relayVars
<1>10. ASSUME NEW e \in Events, CommitRow(e) PROVE DoneDelivered' /\ NoLostEvent'
  BY <1>2, <1>10 DEF CommitRow, relayVars
<1>11. ASSUME UNCHANGED <<status, done>> PROVE DoneDelivered' /\ NoLostEvent'
  BY <1>2, <1>11
<1> QED
  BY <1>3, <1>4, <1>5, <1>6, <1>7, <1>8, <1>9, <1>10, <1>11
     DEF Next, RelayStep, Tick, PublishThrows, JobStep, StartJob, CompleteJob, FailAttempt,
         StallJob, EvictJob, vars, rowVars, relayVars

-----------------------------------------------------------------------------
Ownership == HeldCommitted /\ HeldInOnePlace /\ FreshRowHeldOnce

(* Taking rows out of hands, or stopping time and status, harms no claim. *)
LEMMA ReleaseKeepsOwnership ==
  ASSUME TypeOK, Ownership, UNCHANGED <<status, created, horizon>>,
         HeldInOnePlace',
         \A r \in Relays : Held(r)' \subseteq Held(r)
  PROVE  Ownership'
<1> USE DEF Ownership
<1>1. HeldCommitted'
  BY DEF HeldCommitted
<1>2. \A e \in Events : Stale(e)' <=> Stale(e)
  BY DEF Stale
<1>3. \A r \in Relays : Held(r) \subseteq Events
  BY DEF Held, TypeOK
<1>4. FreshRowHeldOnce'
  BY <1>2, <1>3 DEF FreshRowHeldOnce
<1> QED BY <1>1, <1>4

LEMMA ClaimKeepsOwnership ==
  ASSUME TypeOK, Ownership, NEW r \in Relays, NEW batch \in SUBSET Events,
         claimPending(r, batch)
  PROVE  Ownership'
<1> USE DEF TypeOK, Ownership, claimPending
<1>1. \A e \in batch : status[e] = "PENDING" /\ status'[e] = "PUBLISHING"
  BY DEF OldestPending, Pending
<1>2. Held(r)' = batch
  BY NoEventAssumption DEF Idle, Held
<1>3. \A s \in Relays \ {r} : Held(s)' = Held(s)
  BY DEF Held
<1>4. \A s \in Relays : Held(s) \subseteq Events
  BY DEF Held
<1>5. HeldCommitted'
  BY <1>1, <1>2, <1>3, <1>4 DEF HeldCommitted
<1>6. HeldInOnePlace'
  BY NoEventAssumption DEF HeldInOnePlace, Idle
<1>7. \A e \in batch : ~Stale(e) => \A s \in Relays : e \notin Held(s)
  BY <1>1 DEF FreshRowHeldOnce
<1>8. \A e \in Events : Stale(e)' <=> Stale(e)
  BY DEF Stale
<1>9. FreshRowHeldOnce'
  <2> SUFFICES ASSUME NEW s \in Relays, NEW e \in Held(s)', ~Stale(e)'
               PROVE  /\ status'[e] = "PUBLISHING"
                      /\ \A t \in Relays \ {s} : e \notin Held(t)'
    BY DEF FreshRowHeldOnce
  <2>1. CASE s = r
    BY <2>1, <1>1, <1>2, <1>3, <1>7, <1>8
  <2>2. CASE s # r
    <3>1. e \in Held(s) /\ ~Stale(e) /\ e \in Events
      BY <2>2, <1>3, <1>8, <1>4
    <3>2. e \notin batch /\ status[e] = "PUBLISHING"
      BY <3>1, <1>7 DEF FreshRowHeldOnce
    <3>3. \A t \in Relays \ {s} : e \notin Held(t)
      BY <3>1 DEF FreshRowHeldOnce
    <3> QED BY <3>1, <3>2, <3>3, <1>2, <1>3
  <2> QED BY <2>1, <2>2
<1> QED BY <1>5, <1>6, <1>9

LEMMA MarkKeepsOwnership ==
  ASSUME TypeOK, Ownership, NEW r \in Relays, markFailed(r) \/ markPublished(r)
  PROVE  Ownership'
<1> USE DEF TypeOK, Ownership, Statuses
<1> DEFINE Gone == Held(r) \ Held(r)'
<1>1. Held(r)' \subseteq Held(r) /\ \A s \in Relays \ {r} : Held(s)' = Held(s)
  BY NoEventAssumption DEF Held, markFailed, markPublished
<1>2. \A e \in Events : e \notin Gone => status'[e] = status[e]
  BY NoEventAssumption DEF Held, markFailed, markPublished, HeldInOnePlace
<1>3. \A e \in Events : status[e] # "NONE" => status'[e] # "NONE"
  BY DEF markFailed, markPublished
<1>4. HeldInOnePlace'
  BY NoEventAssumption DEF HeldInOnePlace, markFailed, markPublished
<1>5. \A s \in Relays : Held(s) \subseteq Events
  BY DEF Held
<1>6. HeldCommitted'
  BY <1>1, <1>3, <1>5 DEF HeldCommitted
<1>7. \A e \in Events : Stale(e)' <=> Stale(e)
  BY DEF Stale, markFailed, markPublished
<1>8. FreshRowHeldOnce'
  <2> SUFFICES ASSUME NEW s \in Relays, NEW e \in Held(s)', ~Stale(e)'
               PROVE  /\ status'[e] = "PUBLISHING"
                      /\ \A t \in Relays \ {s} : e \notin Held(t)'
    BY DEF FreshRowHeldOnce
  <2>1. e \in Held(s) /\ e \in Events /\ ~Stale(e)
    BY <1>1, <1>5, <1>7
  <2>2. status[e] = "PUBLISHING" /\ \A t \in Relays \ {s} : e \notin Held(t)
    BY <2>1 DEF FreshRowHeldOnce
  <2>3. e \notin Gone
    BY <2>2
  <2> QED BY <1>1, <1>2, <2>1, <2>2, <2>3
<1> QED BY <1>4, <1>6, <1>8

LEMMA OwnershipNext ==
  ASSUME IInv, [Next]_vars
  PROVE  Ownership'
<1> USE DEF IInv, TypeOK
<1>0. Ownership
  BY DEF Ownership
<1>1. ASSUME NEW e \in Events, CommitRow(e) PROVE Ownership'
  <2>1. \A r \in Relays : Held(r)' = Held(r) /\ e \notin Held(r)
    BY <1>1 DEF CommitRow, relayVars, Held, HeldCommitted
  <2>2. \A f \in Events \ {e} : status'[f] = status[f] /\ created'[f] = created[f]
    BY <1>1 DEF CommitRow
  <2>3. \A r \in Relays : Held(r) \subseteq Events
    BY DEF Held
  <2>4. HeldCommitted'
    BY <2>1, <2>2, <2>3 DEF HeldCommitted
  <2>5. HeldInOnePlace'
    BY <1>1 DEF HeldInOnePlace, CommitRow, relayVars
  <2>6. \A f \in Events \ {e} : Stale(f)' <=> Stale(f)
    BY <2>2, <1>1 DEF Stale, CommitRow
  <2>7. FreshRowHeldOnce'
    BY <2>1, <2>2, <2>3, <2>6 DEF FreshRowHeldOnce
  <2> QED BY <2>4, <2>5, <2>7 DEF Ownership
<1>2. CASE Tick
  <2>1. \A r \in Relays : Held(r)' = Held(r) /\ Held(r) \subseteq Events
    BY <1>2 DEF Tick, relayVars, Held
  <2>2. \A e \in Events : ~Stale(e)' => ~Stale(e)
    BY <1>2 DEF Tick, Stale
  <2> QED
    BY <1>2, <2>1, <2>2
       DEF Tick, relayVars, Ownership, HeldCommitted, HeldInOnePlace, FreshRowHeldOnce
<1>3. ASSUME NEW r \in Relays, NEW batch \in SUBSET Events, claimPending(r, batch)
      PROVE Ownership'
  BY <1>0, <1>3, ClaimKeepsOwnership
<1>4. ASSUME NEW r \in Relays, NEW e \in Events,
             Skip(r, e) \/ Publish(r, e) \/ PublishThrows(r, e)
      PROVE Ownership'
  <2>1. \A s \in Relays : Held(s)' \subseteq Held(s)
    BY <1>4, NoEventAssumption DEF Skip, Publish, PublishThrows, Held
  <2>2. HeldInOnePlace'
    BY <1>4, NoEventAssumption DEF Skip, Publish, PublishThrows, HeldInOnePlace
  <2>3. UNCHANGED <<status, created, horizon>>
    BY <1>4 DEF Skip, Publish, PublishThrows, rowVars
  <2> QED BY <1>0, <2>1, <2>2, <2>3, ReleaseKeepsOwnership
<1>5. ASSUME NEW r \in Relays, markFailed(r) \/ markPublished(r) PROVE Ownership'
  BY <1>0, <1>5, MarkKeepsOwnership
<1>6. ASSUME NEW r \in Relays, LoseIteration(r) PROVE Ownership'
  <2>1. \A s \in Relays : Held(s)' \subseteq Held(s)
    BY <1>6, NoEventAssumption DEF LoseIteration, Held
  <2>2. HeldInOnePlace'
    BY <1>6, NoEventAssumption DEF LoseIteration, HeldInOnePlace
  <2> QED BY <1>0, <1>6, <2>1, <2>2, ReleaseKeepsOwnership DEF LoseIteration, rowVars
<1>7. CASE reclaimStale
  <2>1. \A r \in Relays : Held(r)' = Held(r) /\ Held(r) \subseteq Events
    BY <1>7 DEF reclaimStale, relayVars, Held
  <2>2. \A e \in Events : /\ ~Stale(e)' <=> ~Stale(e)
                          /\ ~Stale(e) => status'[e] = status[e]
                          /\ status[e] # "NONE" => status'[e] # "NONE"
    BY <1>7 DEF reclaimStale, Reclaimable, Stale
  <2> QED
    BY <1>7, <2>1, <2>2
       DEF reclaimStale, relayVars, Ownership, HeldCommitted, HeldInOnePlace, FreshRowHeldOnce
<1>8. ASSUME UNCHANGED <<status, created, horizon, todo, done, failing>>
      PROVE Ownership'
  BY <1>0, <1>8, ReleaseKeepsOwnership DEF Held, HeldInOnePlace
<1> QED
  BY <1>1, <1>2, <1>3, <1>4, <1>5, <1>6, <1>7, <1>8
     DEF Next, RelayStep, JobStep, StartJob, CompleteJob, FailAttempt, StallJob, EvictJob,
         vars, rowVars, relayVars

LEMMA FailingRoutedNext ==
  ASSUME IInv, [Next]_vars
  PROVE  FailingRouted'
BY NoEventAssumption, UnroutedAssumption
   DEF IInv, TypeOK, FailingRouted, Next, RelayStep, CommitRow, Tick, claimPending, Skip,
       Publish, PublishThrows, markFailed, markPublished, LoseIteration, reclaimStale,
       JobStep, StartJob, CompleteJob, FailAttempt, StallJob, EvictJob, vars, relayVars

LEMMA InvNext == IInv /\ [Next]_vars => IInv'
  BY TypeNext, OwnershipNext, DeliveryNext, FailingRoutedNext, RerunNext DEF IInv, Ownership

THEOREM Invariance == Spec => []IInv
  BY InvInit, InvNext, PTL DEF Spec

(* NoLostEvent: whatever dies or races, PUBLISHED stands on an accepted job. *)
THEOREM PublishedWasDelivered == Spec => []NoLostEvent
<1>1. IInv => NoLostEvent
  BY DEF IInv
<1> QED BY <1>1, Invariance, PTL

(* FreshRowHeldOnce: relays share no row younger than the reclaim window. *)
THEOREM FreshRowsAreExclusive == Spec => []FreshRowHeldOnce
<1>1. IInv => FreshRowHeldOnce
  BY DEF IInv
<1> QED BY <1>1, Invariance, PTL

(* RerunOnlyAfterEviction: the job id collapses every other republication. *)
THEOREM RerunNeedsEviction == Spec => []RerunOnlyAfterEviction
<1>1. IInv => RerunOnlyAfterEviction
  BY DEF IInv
<1> QED BY <1>1, Invariance, PTL

(* A settled row that nobody holds is claimed by nobody. *)
LEMMA SettledStaysUnheld ==
  ASSUME IInv, [Next]_vars, NEW e \in Events, status[e] \in {"PUBLISHED", "FAILED"}, Unheld(e)
  PROVE  Unheld(e)'
<1> USE NoEventAssumption DEF IInv, TypeOK
<1>1. ASSUME NEW r \in Relays, NEW batch \in SUBSET Events, claimPending(r, batch)
      PROVE  Unheld(e)'
  <2>1. e \notin batch
    BY <1>1 DEF claimPending, OldestPending, Pending
  <2>2. \A s \in Relays \ {r} : Held(s)' = Held(s)
    BY <1>1 DEF claimPending, Held
  <2>3. Held(r)' = batch
    BY <1>1 DEF claimPending, Idle, Held
  <2> QED BY <2>1, <2>2, <2>3 DEF Unheld
<1>2. ASSUME \A r \in Relays : Held(r)' \subseteq Held(r) PROVE Unheld(e)'
  BY <1>2 DEF Unheld
<1>3. ASSUME NEW r \in Relays, NEW f \in Events, Skip(r, f) \/ Publish(r, f) \/ PublishThrows(r, f)
      PROVE  Unheld(e)'
  BY <1>2, <1>3 DEF Skip, Publish, PublishThrows, Held
<1>4. ASSUME NEW r \in Relays, markFailed(r) \/ markPublished(r) \/ LoseIteration(r)
      PROVE  Unheld(e)'
  BY <1>2, <1>4 DEF markFailed, markPublished, LoseIteration, Held
<1>5. ASSUME UNCHANGED <<todo, done, failing>> PROVE Unheld(e)'
  BY <1>2, <1>5 DEF Held
<1> QED
  BY <1>1, <1>3, <1>4, <1>5
     DEF Next, RelayStep, CommitRow, Tick, reclaimStale, JobStep, StartJob, CompleteJob,
         FailAttempt, StallJob, EvictJob, vars, relayVars

(* SettledForGood: no step of any relay or timer reopens a settled row, and *)
(* none writes to one that no relay holds.                                  *)
THEOREM SettledRowsStaySettled == Spec => SettledForGood
<1>1. ASSUME IInv, [Next]_vars, NEW e \in Events, status[e] \in {"PUBLISHED", "FAILED"}
      PROVE  status'[e] \in {"PUBLISHED", "FAILED"}
  BY <1>1
     DEF IInv, TypeOK, Next, RelayStep, CommitRow, Tick, claimPending, OldestPending,
         Pending, Skip, Publish, PublishThrows, markFailed, markPublished, LoseIteration,
         reclaimStale, Reclaimable, JobStep, StartJob, CompleteJob, FailAttempt, StallJob,
         EvictJob, vars, rowVars
<1>2. ASSUME IInv, [Next]_vars, NEW e \in Events, status[e] \in {"PUBLISHED", "FAILED"}, Unheld(e)
      PROVE  status'[e] = status[e]
  <2>1. ASSUME NEW r \in Relays, markFailed(r) \/ markPublished(r) PROVE status'[e] = status[e]
    BY <1>2, <2>1 DEF IInv, TypeOK, Unheld, Held, markFailed, markPublished
  <2> QED
    BY <1>2, <2>1
       DEF IInv, TypeOK, Next, RelayStep, CommitRow, Tick, claimPending, OldestPending,
           Pending, Skip, Publish, PublishThrows, LoseIteration, reclaimStale, Reclaimable,
           JobStep, StartJob, CompleteJob, FailAttempt, StallJob, EvictJob, vars, rowVars
<1>3. IInv /\ [Next]_vars
        => [\A e \in Events : status[e] \in {"PUBLISHED", "FAILED"} =>
               /\ status'[e] \in {"PUBLISHED", "FAILED"}
               /\ Unheld(e) => status'[e] = status[e] /\ Unheld(e)']_vars
  BY <1>1, <1>2, SettledStaysUnheld
<1> QED BY <1>3, Invariance, PTL DEF Spec, SettledForGood

-----------------------------------------------------------------------------
(* The relay implements OutboxDelivery: every step is one of its steps.    *)

LEMMA AddJobDelivers ==
  ASSUME TypeOK, NEW e \in Events, AddJob(e)
  PROVE  Delivered' = Delivered \cup {e}
BY DEF TypeOK, AddJob, Delivered

LEMMA JobsKeepDelivered ==
  ASSUME TypeOK, NEW e \in Events, JobStep(e) \/ EvictJob(e)
  PROVE  Delivered' = Delivered
BY DEF TypeOK, Delivered, JobStep, StartJob, CompleteJob, FailAttempt, StallJob, EvictJob

LEMMA PromiseInit == Init => Promise!Init
  BY DEF Init, Promise!Init, Delivered

LEMMA PromiseNext ==
  ASSUME IInv, [Next]_vars
  PROVE  [Promise!Next]_(Promise!deliveryVars)
<1> USE DEF IInv, TypeOK, Statuses, Promise!deliveryVars
<1>1. ASSUME NEW e \in Events, CommitRow(e) PROVE Promise!Commit(e)
  BY <1>1 DEF CommitRow, Promise!Commit, jobVars, Delivered
<1>2. ASSUME NEW r \in Relays, NEW e \in Events, Publish(r, e) PROVE Promise!Deliver(e)
  <2>1. status[e] # "NONE" /\ e \notin Unrouted
    BY <1>2 DEF Publish, HeldCommitted, Held
  <2>2. Delivered' = Delivered \cup {e} /\ UNCHANGED status
    BY <1>2, AddJobDelivers DEF Publish, rowVars
  <2> QED BY <2>1, <2>2 DEF Promise!Deliver
<1>3. ASSUME NEW r \in Relays, NEW e \in Events, PublishThrows(r, e)
      PROVE  Promise!Deliver(e) \/ UNCHANGED Promise!deliveryVars
  <2>1. status[e] # "NONE" /\ e \notin Unrouted /\ UNCHANGED status
    BY <1>3 DEF PublishThrows, HeldCommitted, Held, rowVars
  <2>2. CASE AddJob(e)
    BY <2>1, <2>2, AddJobDelivers DEF Promise!Deliver
  <2>3. CASE UNCHANGED jobVars
    BY <2>1, <2>3 DEF jobVars, Delivered
  <2> QED BY <1>3, <2>2, <2>3 DEF PublishThrows
<1>4. ASSUME NEW r \in Relays, NEW e \in Events, failing[r] = e, markFailed(r)
      PROVE  Promise!GiveUp(e)
  <2>1. status[e] # "NONE" /\ e \notin Unrouted
    BY <1>4 DEF markFailed, HeldCommitted, Held, FailingRouted
  <2> QED BY <1>4, <2>1 DEF markFailed, Promise!GiveUp, jobVars, Delivered
<1>5. ASSUME NEW r \in Relays, NEW S \in SUBSET Events, S = done[r], markPublished(r)
      PROVE  Promise!Acknowledge(S)
  <2>1. \A e \in S : e \in Events /\ status[e] # "NONE"
    BY <1>5 DEF HeldCommitted, Held
  <2>2. S \subseteq Delivered \cup Unrouted /\ Delivered' = Delivered
    BY <1>5 DEF DoneDelivered, markPublished, jobVars, Delivered
  <2> QED BY <1>5, <2>1, <2>2 DEF markPublished, Promise!Acknowledge
<1>6. ASSUME NEW r \in Relays, NEW batch \in SUBSET Events, claimPending(r, batch)
      PROVE  UNCHANGED Promise!deliveryVars
  BY <1>6 DEF claimPending, OldestPending, Pending, jobVars, Delivered
<1>7. ASSUME reclaimStale PROVE UNCHANGED Promise!deliveryVars
  BY <1>7 DEF reclaimStale, Reclaimable, jobVars, Delivered
<1>8. ASSUME NEW e \in Events, JobStep(e) \/ EvictJob(e)
      PROVE  UNCHANGED Promise!deliveryVars
  <2>1. UNCHANGED status
    BY <1>8 DEF JobStep, StartJob, CompleteJob, FailAttempt, StallJob, EvictJob, rowVars
  <2> QED BY <1>8, <2>1, JobsKeepDelivered
<1>9. ASSUME UNCHANGED <<status, jobVars>> PROVE UNCHANGED Promise!deliveryVars
  BY <1>9 DEF jobVars, Delivered
<1> HIDE DEF IInv, TypeOK, Promise!deliveryVars
<1>10. ASSUME NEW e \in Events, Promise!Commit(e) \/ Promise!Deliver(e) \/ Promise!GiveUp(e)
       PROVE  Promise!Next
  BY <1>10 DEF Promise!Next
<1>11. ASSUME NEW S \in SUBSET Events, Promise!Acknowledge(S) PROVE Promise!Next
  BY <1>11 DEF Promise!Next
<1>12. ASSUME NEW r \in Relays, RelayStep(r)
       PROVE  Promise!Next \/ UNCHANGED Promise!deliveryVars
  <2>1. ASSUME NEW e \in Events, Skip(r, e) PROVE UNCHANGED Promise!deliveryVars
    BY <1>9, <2>1 DEF Skip, rowVars
  <2>2. CASE markFailed(r)
    <3>1. PICK e \in Events : failing[r] = e
      BY <2>2 DEF markFailed, IInv, TypeOK
    <3> QED BY <1>4, <1>10, <2>2, <3>1
  <2>3. CASE markPublished(r)
    <3>1. PICK S \in SUBSET Events : S = done[r]
      BY DEF IInv, TypeOK
    <3> QED BY <1>5, <1>11, <2>3, <3>1
  <2> QED BY <1>2, <1>3, <1>6, <1>10, <1>12, <2>1, <2>2, <2>3 DEF RelayStep
<1>13. CASE Next
  <2>1. CASE Tick
    BY <1>9, <2>1 DEF Tick
  <2>2. ASSUME NEW r \in Relays, LoseIteration(r) PROVE UNCHANGED Promise!deliveryVars
    BY <1>9, <2>2 DEF LoseIteration, rowVars
  <2> QED BY <1>1, <1>7, <1>8, <1>10, <1>12, <1>13, <2>1, <2>2 DEF Next
<1>14. CASE UNCHANGED vars
  BY <1>9, <1>14 DEF vars, rowVars
<1> QED
  BY <1>13, <1>14

(* KeepsPromise: the relay implements the delivery promise, safety part.   *)
THEOREM Refinement == Spec => KeepsPromise
<1>1. IInv /\ [Next]_vars => [Promise!Next]_(Promise!deliveryVars)
  BY PromiseNext
<1> QED BY <1>1, PromiseInit, Invariance, PTL DEF Spec, KeepsPromise, Promise!Spec
=============================================================================
