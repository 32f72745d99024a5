---------------------------- MODULE OutboxRelay ----------------------------
(***************************************************************************)
(* The transactional outbox: rows of outbox_events, the relay loops that   *)
(* claim, publish and mark them, the reclaim timer, and the BullMQ jobs    *)
(* they become.  Several worker processes each run one relay loop and one  *)
(* reclaim timer against one table.                                        *)
(*                                                                         *)
(* A relay iteration is several database and Redis round trips, so each of *)
(* them is a step of its own, and a relay may die between any two.         *)
(***************************************************************************)
EXTENDS Naturals, FiniteSets

CONSTANTS
    Relays,       \* worker processes running the relay loop
    Events,       \* outbox rows, named by their id
    Unrouted,     \* rows whose event type routeOutboxEvent does not know
    BatchSize,    \* LIMIT of a claim
    MaxAttempts,  \* attempts given to every job
    MaxStalls,    \* stalls BullMQ forgives before it fails a job
    MaxTime,      \* bound: created_at takes values in 1..MaxTime
    MaxFaults,    \* bound: relay iterations that die or throw
    NoEvent       \* "no row", for a relay that holds no failed publish

ASSUME UnroutedAssumption == Unrouted \subseteq Events
ASSUME NoEventAssumption == NoEvent \notin Events
ASSUME BoundsAssumption ==
    /\ BatchSize \in Nat \ {0}
    /\ MaxAttempts \in Nat \ {0}
    /\ MaxStalls \in Nat
    /\ MaxTime \in Nat
    /\ MaxFaults \in Nat

VARIABLES
    status,     \* outbox_events.status; "NONE" before the row is committed
    created,    \* outbox_events.created_at; 0 before the row is committed
    horizon,    \* now() - olderThanSeconds: rows created up to it are stale
    todo,       \* rows of a relay's batch not yet looked at
    done,       \* a relay's publishedIds
    failing,    \* the row whose publish threw, until markFailed ran
    faults,     \* iterations lost so far
    jobs,       \* state of the BullMQ job whose id is derived from the row
    attempts,   \* attempts the job has used up
    stalls,     \* times the job was taken back from a dead worker
    evicted,    \* rows whose finished job was dropped from Redis
    handled     \* completed executions of the row's job, counted up to 2

rowVars == <<status, created, horizon>>
relayVars == <<todo, done, failing, faults>>
jobVars == <<jobs, attempts, stalls, evicted, handled>>
vars == <<rowVars, relayVars, jobVars>>

Statuses == {"NONE", "PENDING", "PUBLISHING", "PUBLISHED", "FAILED"}
JobStates == {"absent", "waiting", "active", "completed", "failed"}

TypeOK ==
    /\ status \in [Events -> Statuses]
    /\ created \in [Events -> Nat]
    /\ horizon \in Nat
    /\ todo \in [Relays -> SUBSET Events]
    /\ done \in [Relays -> SUBSET Events]
    /\ failing \in [Relays -> Events \cup {NoEvent}]
    /\ faults \in Nat
    /\ jobs \in [Events -> JobStates]
    /\ attempts \in [Events -> 0..MaxAttempts]
    /\ stalls \in [Events -> 0..MaxStalls]
    /\ evicted \in SUBSET Events
    /\ handled \in [Events -> 0..2]
    /\ \A e \in Events : jobs[e] \in {"waiting", "active"} => attempts[e] < MaxAttempts

Init ==
    /\ status = [e \in Events |-> "NONE"]
    /\ created = [e \in Events |-> 0]
    /\ horizon = 0
    /\ todo = [r \in Relays |-> {}]
    /\ done = [r \in Relays |-> {}]
    /\ failing = [r \in Relays |-> NoEvent]
    /\ faults = 0
    /\ jobs = [e \in Events |-> "absent"]
    /\ attempts = [e \in Events |-> 0]
    /\ stalls = [e \in Events |-> 0]
    /\ evicted = {}
    /\ handled = [e \in Events |-> 0]

Idle(r) == todo[r] = {} /\ done[r] = {} /\ failing[r] = NoEvent
Held(r) == todo[r] \cup done[r] \cup {e \in Events : failing[r] = e}
Stale(e) == created[e] <= horizon
Pending == {e \in Events : status[e] = "PENDING"}

-----------------------------------------------------------------------------
(* Producers and time. *)

(***************************************************************************)
(* A business transaction commits its outbox row.  created_at is the start *)
(* of that transaction, so rows need not become visible in its order.      *)
(***************************************************************************)
CommitRow(e) ==
    /\ status[e] = "NONE"
    /\ \E t \in horizon + 1 .. MaxTime :
          created' = [created EXCEPT ![e] = t]
    /\ status' = [status EXCEPT ![e] = "PENDING"]
    /\ UNCHANGED <<horizon, relayVars, jobVars>>

Tick ==
    /\ horizon < MaxTime
    /\ horizon' = horizon + 1
    /\ UNCHANGED <<status, created, relayVars, jobVars>>

-----------------------------------------------------------------------------
(* One relay iteration. *)

(* The oldest pending rows, in no particular order among equal ages. *)
OldestPending(batch) ==
    /\ batch \subseteq Pending
    /\ \/ batch = Pending
       \/ Cardinality(batch) = BatchSize
    /\ Cardinality(batch) <= BatchSize
    /\ \A e \in batch, f \in Pending \ batch : created[e] <= created[f]

claimPending(r, batch) ==
    /\ Idle(r)
    /\ batch # {}
    /\ OldestPending(batch)
    /\ status' = [e \in Events |-> IF e \in batch THEN "PUBLISHING"
                                                  ELSE status[e]]
    /\ todo' = [todo EXCEPT ![r] = batch]
    /\ UNCHANGED <<created, horizon, done, failing, faults, jobVars>>

(* No queue reacts to the row's event type: it is marked with the others. *)
Skip(r, e) ==
    /\ failing[r] = NoEvent
    /\ e \in todo[r] \cap Unrouted
    /\ todo' = [todo EXCEPT ![r] = @ \ {e}]
    /\ done' = [done EXCEPT ![r] = @ \cup {e}]
    /\ UNCHANGED <<rowVars, failing, faults, jobVars>>

(* Mutant: a job id that is not derived from the row. *)
AddJob_RandomId(e) ==
    /\ jobs' = [jobs EXCEPT ![e] = IF @ \in {"absent", "completed"} THEN "waiting" ELSE @]
    /\ attempts' = [attempts EXCEPT ![e] = IF jobs[e] \in {"absent", "completed"} THEN 0 ELSE @]
    /\ UNCHANGED <<stalls, evicted, handled>>

(* BullMQ ignores an add whose job id it still holds. *)
AddJob(e) ==
    /\ jobs' = [jobs EXCEPT ![e] = IF @ = "absent" THEN "waiting" ELSE @]
    /\ attempts' = [attempts EXCEPT ![e] = IF jobs[e] = "absent" THEN 0 ELSE @]
    /\ stalls' = [stalls EXCEPT ![e] = IF jobs[e] = "absent" THEN 0 ELSE @]
    /\ UNCHANGED <<evicted, handled>>

Publish(r, e) ==
    /\ failing[r] = NoEvent
    /\ e \in todo[r] \ Unrouted
    /\ AddJob(e)
    /\ todo' = [todo EXCEPT ![r] = @ \ {e}]
    /\ done' = [done EXCEPT ![r] = @ \cup {e}]
    /\ UNCHANGED <<rowVars, failing, faults>>

(* Mutant: the error is swallowed and the row counted as published. *)
PublishThrows_Swallowed(r, e) ==
    /\ failing[r] = NoEvent
    /\ e \in todo[r] \ Unrouted
    /\ todo' = [todo EXCEPT ![r] = @ \ {e}]
    /\ done' = [done EXCEPT ![r] = @ \cup {e}]
    /\ UNCHANGED <<rowVars, failing, faults, jobVars>>

(* The add throws: Redis was unreachable, or its answer was lost. *)
PublishThrows(r, e) ==
    /\ failing[r] = NoEvent
    /\ e \in todo[r] \ Unrouted
    /\ AddJob(e) \/ UNCHANGED jobVars
    /\ todo' = [todo EXCEPT ![r] = @ \ {e}]
    /\ failing' = [failing EXCEPT ![r] = e]
    /\ UNCHANGED <<rowVars, done, faults>>

markFailed(r) ==
    /\ failing[r] # NoEvent
    /\ status' = [status EXCEPT ![failing[r]] = "FAILED"]
    /\ failing' = [failing EXCEPT ![r] = NoEvent]
    /\ UNCHANGED <<created, horizon, todo, done, faults, jobVars>>

(* Mutant: the whole claim is marked, before its rows are published. *)
markPublished_WholeClaim(r) ==
    /\ failing[r] = NoEvent
    /\ done[r] \cup todo[r] # {}
    /\ status' = [e \in Events |-> IF e \in done[r] \cup todo[r] THEN "PUBLISHED"
                                                               ELSE status[e]]
    /\ done' = [done EXCEPT ![r] = {}]
    /\ UNCHANGED <<created, horizon, todo, failing, faults, jobVars>>

markPublished(r) ==
    /\ failing[r] = NoEvent
    /\ todo[r] = {}
    /\ done[r] # {}
    /\ status' = [e \in Events |-> IF e \in done[r] THEN "PUBLISHED"
                                                    ELSE status[e]]
    /\ done' = [done EXCEPT ![r] = {}]
    /\ UNCHANGED <<created, horizon, todo, failing, faults, jobVars>>

(***************************************************************************)
(* The process dies, or markFailed or markPublished throws and the loop's  *)
(* catch starts a new iteration: what the relay held is forgotten and the  *)
(* rows stay PUBLISHING.                                                   *)
(***************************************************************************)
LoseIteration(r) ==
    /\ ~Idle(r)
    /\ faults < MaxFaults
    /\ faults' = faults + 1
    /\ todo' = [todo EXCEPT ![r] = {}]
    /\ done' = [done EXCEPT ![r] = {}]
    /\ failing' = [failing EXCEPT ![r] = NoEvent]
    /\ UNCHANGED <<rowVars, jobVars>>

(* Mutants: no age condition, no status condition, the wrong status. *)
Reclaimable_AnyAge == {e \in Events : status[e] = "PUBLISHING"}
Reclaimable_AnyStatus == {e \in Events : status[e] # "NONE" /\ Stale(e)}
Reclaimable_WrongStatus == {e \in Events : status[e] = "PENDING" /\ Stale(e)}

(* The timer of any worker: by the age of the row, not of its claim. *)
Reclaimable == {e \in Events : status[e] = "PUBLISHING" /\ Stale(e)}

reclaimStale ==
    /\ Reclaimable # {}
    /\ status' = [e \in Events |-> IF e \in Reclaimable THEN "PENDING"
                                                        ELSE status[e]]
    /\ UNCHANGED <<created, horizon, relayVars, jobVars>>

-----------------------------------------------------------------------------
(* BullMQ and the workers, as far as the publisher's options set them. *)

StartJob(e) ==
    /\ jobs[e] = "waiting"
    /\ jobs' = [jobs EXCEPT ![e] = "active"]
    /\ UNCHANGED <<rowVars, relayVars, attempts, stalls, evicted, handled>>

CompleteJob(e) ==
    /\ jobs[e] = "active"
    /\ jobs' = [jobs EXCEPT ![e] = "completed"]
    /\ handled' = [handled EXCEPT ![e] = IF @ < 2 THEN @ + 1 ELSE @]
    /\ UNCHANGED <<rowVars, relayVars, attempts, stalls, evicted>>

(* Mutants: one attempt too many, and attempts that are never counted. *)
FailAttempt_OffByOne(e) ==
    /\ jobs[e] = "active"
    /\ attempts' = [attempts EXCEPT ![e] = @ + 1]
    /\ jobs' = [jobs EXCEPT ![e] = IF attempts[e] + 1 <= MaxAttempts
                                   THEN "waiting" ELSE "failed"]
    /\ UNCHANGED <<rowVars, relayVars, stalls, evicted, handled>>

FailAttempt_Uncounted(e) ==
    /\ jobs[e] = "active"
    /\ jobs' = [jobs EXCEPT ![e] = "waiting"]
    /\ UNCHANGED <<rowVars, relayVars, attempts, stalls, evicted, handled>>

(* A handler that throws is retried until its attempts are used up. *)
FailAttempt(e) ==
    /\ jobs[e] = "active"
    /\ attempts' = [attempts EXCEPT ![e] = @ + 1]
    /\ jobs' = [jobs EXCEPT ![e] = IF attempts[e] + 1 < MaxAttempts
                                   THEN "waiting" ELSE "failed"]
    /\ UNCHANGED <<rowVars, relayVars, stalls, evicted, handled>>

(* A worker that dies loses its lock; the job is taken back. *)
StallJob(e) ==
    /\ jobs[e] = "active"
    /\ IF stalls[e] < MaxStalls
       THEN /\ stalls' = [stalls EXCEPT ![e] = @ + 1]
            /\ jobs' = [jobs EXCEPT ![e] = "waiting"]
       ELSE /\ jobs' = [jobs EXCEPT ![e] = "failed"]
            /\ UNCHANGED stalls
    /\ UNCHANGED <<rowVars, relayVars, attempts, evicted, handled>>

(* removeOnComplete, removeOnFail: enough later jobs finished. *)
EvictJob(e) ==
    /\ jobs[e] \in {"completed", "failed"}
    /\ jobs' = [jobs EXCEPT ![e] = "absent"]
    /\ evicted' = evicted \cup {e}
    /\ UNCHANGED <<rowVars, relayVars, attempts, stalls, handled>>

-----------------------------------------------------------------------------
RelayStep(r) ==
    \/ \E batch \in SUBSET Events : claimPending(r, batch)
    \/ \E e \in Events : Skip(r, e) \/ Publish(r, e) \/ PublishThrows(r, e)
    \/ markFailed(r)
    \/ markPublished(r)

JobStep(e) == StartJob(e) \/ CompleteJob(e) \/ FailAttempt(e) \/ StallJob(e)

Next ==
    \/ \E e \in Events : CommitRow(e)
    \/ Tick
    \/ \E r \in Relays : RelayStep(r) \/ LoseIteration(r)
    \/ reclaimStale
    \/ \E e \in Events : JobStep(e) \/ EvictJob(e)

Spec == Init /\ [][Next]_vars

(***************************************************************************)
(* The loops run until shutdown, time passes and the timers fire.  Nothing *)
(* obliges a producer to commit, a publish to throw, a process to die or a *)
(* finished job to be evicted.                                             *)
(***************************************************************************)
FairSpec ==
    /\ Spec
    /\ \A r \in Relays : WF_vars(RelayStep(r))
    /\ WF_vars(Tick)
    /\ WF_vars(reclaimStale)
    /\ \A e \in Events : WF_vars(JobStep(e))

-----------------------------------------------------------------------------
(* Properties. *)

(* The queue accepted the row's job at some time. *)
Delivered == {e \in Events : jobs[e] # "absent" \/ e \in evicted}

(***************************************************************************)
(* A row is acknowledged only after its job was accepted: whichever relay  *)
(* died, threw or raced, PUBLISHED never stands on a job nobody has.       *)
(***************************************************************************)
NoLostEvent ==
    \A e \in Events \ Unrouted : status[e] = "PUBLISHED" => e \in Delivered

(***************************************************************************)
(* A row younger than the reclaim window is in the hands of at most one    *)
(* relay, and is PUBLISHING as long as it is in anybody's.                 *)
(***************************************************************************)
FreshRowHeldOnce ==
    \A r \in Relays : \A e \in Held(r) :
        ~Stale(e) => /\ status[e] = "PUBLISHING"
                     /\ \A s \in Relays \ {r} : e \notin Held(s)

(***************************************************************************)
(* Republishing a row does its work again only if Redis had forgotten the  *)
(* finished job: the deterministic job id collapses every other duplicate. *)
(***************************************************************************)
RerunOnlyAfterEviction == \A e \in Events : handled[e] > 1 => e \in evicted

(***************************************************************************)
(* A settled row stays settled, and once no relay holds it any more its    *)
(* very status is final and no relay takes it up again.  While one still   *)
(* does, since before a reclaim gave the row to another, it may yet turn   *)
(* PUBLISHED into FAILED or the reverse.                                   *)
(***************************************************************************)
Unheld(e) == \A r \in Relays : e \notin Held(r)

SettledForGood ==
    [][\A e \in Events : status[e] \in {"PUBLISHED", "FAILED"} =>
           /\ status'[e] \in {"PUBLISHED", "FAILED"}
           /\ Unheld(e) => status'[e] = status[e] /\ Unheld(e)']_vars

(* A job that was accepted is worked off or exhausts its attempts. *)
EveryJobFinishes ==
    \A e \in Events :
        jobs[e] = "waiting" ~> jobs[e] \in {"completed", "failed"}

(* The promise to the producers, and the mapping that shows it is kept. *)
Promise == INSTANCE OutboxDelivery WITH
    committed <- {e \in Events : status[e] # "NONE"},
    delivered <- Delivered,
    published <- {e \in Events : status[e] = "PUBLISHED"},
    failed <- {e \in Events : status[e] = "FAILED"}

KeepsPromise == Promise!Spec

(* Every committed row is settled although relays die holding it. *)
EveryRowSettles == Promise!Settled

-----------------------------------------------------------------------------
(* What comments and tests of the code say, and the code does not do. *)

(* "a healthy relay is mid-flight": its rows are not given to another. *)
OneHolder ==
    \A r, s \in Relays : r # s => Held(r) \cap Held(s) = {}

(* "BullMQ collapses the duplicate": a row's work is never done twice. *)
RepublishCollapses == \A e \in Events : handled[e] <= 1
=============================================================================
