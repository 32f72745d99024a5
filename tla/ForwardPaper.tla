---------------------------- MODULE ForwardPaper ----------------------------
(***************************************************************************)
(* One forward-test deployment: webhooks that record signals, operators    *)
(* who pause, resume and complete it, and the worker that turns each       *)
(* signal into a paper fill or a rejection.                                *)
(*                                                                         *)
(* Every handler is a sequence of queries at READ COMMITTED; each query is *)
(* a step.  What a transaction writes becomes visible when it commits.     *)
(***************************************************************************)
EXTENDS Naturals, FiniteSets

CONSTANTS
    Deliveries,   \* webhook requests; each inserts at most one signal row
    Alerts,       \* alerts TradingView raised; a retry repeats an alert
    EventTypes,   \* bound: the event types the alerts have
    Commands,     \* operator requests
    Workers,      \* processes consuming forward-signal-processing
    MaxAttempts,  \* attempts given to every job
    MaxStalls,    \* stalls BullMQ forgives before it fails a job
    MaxFaults,    \* bound: executions that throw, die or lose their lock
    Nothing       \* "no signal", "no worker"

ASSUME EventTypesAssumption ==
    EventTypes \subseteq {"ENTRY_LONG", "ENTRY_SHORT", "EXIT_LONG", "EXIT_SHORT",
                          "STOP_HIT", "TARGET_HIT"}
ASSUME NothingAssumption == Nothing \notin Deliveries \cup Workers
ASSUME BoundsAssumption ==
    MaxAttempts \in Nat \ {0} /\ MaxStalls \in Nat /\ MaxFaults \in Nat

VARIABLES
    state,        \* forward_deployments.state
    command,      \* what an operator request asks for
    commandAt,    \* the query it performs next
    alert,        \* the alert a delivery carries
    eventType,    \* the event type of an alert
    hookAt,       \* the query a delivery performs next
    signals,      \* signal_events.processing_status; "absent" before insertion
    jobs,         \* the signal's BullMQ job
    holder,       \* the worker that holds the lock of an active job
    attempts,     \* attempts the job has used up
    stalls,       \* times the job was taken back
    fills,        \* paper_orders with their paper_fills
    curve,        \* for each stored equity curve, the fills it was computed from
    workAt,       \* the query a worker performs next
    work,         \* the signal it handles
    outcome,      \* Rejection, or the fill its transaction inserts
    covered,      \* the fills its recomputation read
    replaced,     \* the curves its transaction deleted
    faults        \* executions lost so far

deploymentVars == <<state, command, commandAt>>
hookVars == <<alert, eventType, hookAt>>
jobVars == <<jobs, holder, attempts, stalls>>
bookVars == <<fills, curve>>
workVars == <<workAt, work, outcome, covered, replaced>>
vars == <<deploymentVars, hookVars, signals, jobVars, bookVars, workVars, faults>>

roleOf(type) == IF type \in {"ENTRY_LONG", "ENTRY_SHORT"} THEN "ENTRY" ELSE "EXIT"

(* DIRECTION_BY_EVENT_TYPE; a stop or target names no direction. *)
directionOf(type) ==
    CASE type \in {"ENTRY_LONG", "EXIT_LONG"} -> "LONG"
      [] type \in {"ENTRY_SHORT", "EXIT_SHORT"} -> "SHORT"
      [] OTHER -> "ANY"

typeOf(d) == eventType[alert[d]]

(* What a transaction may insert, before and after it has its number. *)
Orders == [signal : Deliveries, role : {"ENTRY", "EXIT"}, direction : {"LONG", "SHORT"},
           seq : Nat]
Rejection == [signal |-> Nothing, role |-> "NONE", direction |-> "ANY", seq |-> 0]
Fills == {f \in Orders : f.seq > 0}

TypeOK ==
    /\ state \in {"ACTIVE", "PAUSED", "COMPLETED"}
    /\ command \in [Commands -> {"pause", "resume", "complete"}]
    /\ commandAt \in [Commands -> {"read", "update", "done"}]
    /\ alert \in [Deliveries -> Alerts]
    /\ eventType \in [Alerts -> EventTypes]
    /\ hookAt \in [Deliveries -> {"deployment", "existing", "insert", "done"}]
    /\ signals \in [Deliveries -> {"absent", "PENDING", "PROCESSED", "REJECTED"}]
    /\ jobs \in [Deliveries -> {"absent", "outbox", "waiting", "active", "completed", "failed"}]
    /\ holder \in [Deliveries -> Workers \cup {Nothing}]
    /\ attempts \in [Deliveries -> 0..MaxAttempts]
    /\ stalls \in [Deliveries -> 0..MaxStalls]
    /\ fills \in SUBSET Fills
    /\ curve \in SUBSET SUBSET Fills
    /\ workAt \in [Workers -> {"idle", "deployment", "position", "sequence", "fills",
                               "delete", "commit"}]
    /\ work \in [Workers -> Deliveries \cup {Nothing}]
    /\ outcome \in [Workers -> {Rejection} \cup Orders]
    /\ covered \in [Workers -> SUBSET Fills]
    /\ replaced \in [Workers -> SUBSET SUBSET Fills]
    /\ faults \in 0..MaxFaults
    /\ \A d \in Deliveries : jobs[d] = "active" <=> holder[d] # Nothing

(* createForwardDeployment has put the deployment straight to ACTIVE. *)
Init ==
    /\ state = "ACTIVE"
    /\ command \in [Commands -> {"pause", "resume", "complete"}]
    /\ commandAt = [c \in Commands |-> "read"]
    /\ alert \in [Deliveries -> Alerts]
    /\ eventType \in [Alerts -> EventTypes]
    /\ hookAt = [d \in Deliveries |-> "deployment"]
    /\ signals = [d \in Deliveries |-> "absent"]
    /\ jobs = [d \in Deliveries |-> "absent"]
    /\ holder = [d \in Deliveries |-> Nothing]
    /\ attempts = [d \in Deliveries |-> 0]
    /\ stalls = [d \in Deliveries |-> 0]
    /\ fills = {}
    /\ curve = {}
    /\ workAt = [w \in Workers |-> "idle"]
    /\ work = [w \in Workers |-> Nothing]
    /\ outcome = [w \in Workers |-> Rejection]
    /\ covered = [w \in Workers |-> {}]
    /\ replaced = [w \in Workers |-> {}]
    /\ faults = 0

-----------------------------------------------------------------------------
(* Operators. *)

from(what) == CASE what = "pause" -> {"ACTIVE"}
                [] what = "resume" -> {"PAUSED"}
                [] what = "complete" -> {"ACTIVE", "PAUSED"}

to(what) == CASE what = "pause" -> "PAUSED"
              [] what = "resume" -> "ACTIVE"
              [] what = "complete" -> "COMPLETED"

(* transitionDeploymentState reads the state and checks it... *)
readState(c) ==
    /\ commandAt[c] = "read"
    /\ commandAt' = [commandAt EXCEPT ![c] = IF state \in from(command[c]) THEN "update"
                                                                           ELSE "done"]
    /\ UNCHANGED <<state, command, hookVars, signals, jobVars, bookVars, workVars, faults>>

(* ...and then updates the row, by its id only. *)
updateState(c) ==
    /\ commandAt[c] = "update"
    /\ state' = to(command[c])
    /\ commandAt' = [commandAt EXCEPT ![c] = "done"]
    /\ UNCHANGED <<command, hookVars, signals, jobVars, bookVars, workVars, faults>>

-----------------------------------------------------------------------------
(* The webhook. *)

hookStep(d, at, next) ==
    /\ hookAt[d] = at
    /\ hookAt' = [hookAt EXCEPT ![d] = next]
    /\ UNCHANGED <<deploymentVars, alert, eventType, bookVars, workVars, faults>>

receive(d) ==
    /\ hookStep(d, "deployment", IF state = "ACTIVE" THEN "existing" ELSE "done")
    /\ UNCHANGED <<signals, jobVars>>

Recorded(a) == \E d \in Deliveries : alert[d] = a /\ signals[d] # "absent"

findSignal(d) ==
    /\ hookStep(d, "existing", IF Recorded(alert[d]) THEN "done" ELSE "insert")
    /\ UNCHANGED <<signals, jobVars>>

(* The row, and with a valid payload the outbox event.  A payload may be    *)
(* valid at one delivery and out of tolerance at another.                   *)
insertSignal(d) ==
    /\ hookStep(d, "insert", "done")
    /\ \/ /\ signals' = [signals EXCEPT ![d] = "PENDING"]
          /\ jobs' = [jobs EXCEPT ![d] = "outbox"]
       \/ /\ signals' = [signals EXCEPT ![d] = "REJECTED"]
          /\ UNCHANGED jobs
    /\ UNCHANGED <<holder, attempts, stalls>>

-----------------------------------------------------------------------------
(* The queue: what OutboxRelay and BullMQ make of the event. *)

(* The relay delivers, in any order among the events. *)
Enqueue(d) ==
    /\ jobs[d] = "outbox"
    /\ jobs' = [jobs EXCEPT ![d] = "waiting"]
    /\ UNCHANGED <<deploymentVars, hookVars, signals, holder, attempts, stalls, bookVars,
                   workVars, faults>>

Working(w) == workAt[w] # "idle"

(* An active job whose worker lost its lock is taken back.                  *)
TakeBack(d) ==
    /\ jobs[d] = "active"
    /\ holder' = [holder EXCEPT ![d] = Nothing]
    /\ IF stalls[d] < MaxStalls
       THEN /\ jobs' = [jobs EXCEPT ![d] = "waiting"]
            /\ stalls' = [stalls EXCEPT ![d] = @ + 1]
       ELSE /\ jobs' = [jobs EXCEPT ![d] = "failed"]
            /\ UNCHANGED stalls
    /\ UNCHANGED <<deploymentVars, hookVars, signals, attempts, bookVars, workVars>>

(* The lock expired under a worker that is alive and goes on. *)
Stall(d) ==
    /\ TakeBack(d)
    /\ Working(holder[d]) /\ work[holder[d]] = d
    /\ faults < MaxFaults
    /\ faults' = faults + 1

(* The worker died, and the stalled-job check notices. *)
Recover(d) ==
    /\ TakeBack(d)
    /\ ~(Working(holder[d]) /\ work[holder[d]] = d)
    /\ UNCHANGED faults

(* Mutants: a finished job keeps its lock, and a failed one is not retried. *)
completeJob_KeepsLock(w) ==
    /\ jobs' = [jobs EXCEPT ![work[w]] = "completed"]
    /\ UNCHANGED <<holder, attempts, stalls>>

failAttempt_NoRetry(w) ==
    LET d == work[w] IN
    IF holder[d] = w
    THEN /\ jobs' = [jobs EXCEPT ![d] = "failed"]
         /\ holder' = [holder EXCEPT ![d] = Nothing]
         /\ UNCHANGED <<attempts, stalls>>
    ELSE UNCHANGED jobVars

(* A job that is still the worker's own completes, fails or is retried; a   *)
(* worker that lost its lock has no say.                                    *)
completeJob(w) ==
    LET d == work[w] mine == holder[d] = w IN
    /\ jobs' = IF mine THEN [jobs EXCEPT ![d] = "completed"] ELSE jobs
    /\ holder' = IF mine THEN [holder EXCEPT ![d] = Nothing] ELSE holder
    /\ UNCHANGED <<attempts, stalls>>

failAttempt(w) ==
    LET d == work[w] IN
    IF holder[d] = w
    THEN /\ attempts' = [attempts EXCEPT ![d] = @ + 1]
         /\ jobs' = [jobs EXCEPT ![d] = IF attempts[d] + 1 < MaxAttempts THEN "waiting"
                                                                         ELSE "failed"]
         /\ holder' = [holder EXCEPT ![d] = Nothing]
         /\ UNCHANGED stalls
    ELSE UNCHANGED jobVars

idle(w) ==
    /\ workAt' = [workAt EXCEPT ![w] = "idle"]
    /\ work' = [work EXCEPT ![w] = Nothing]
    /\ outcome' = [outcome EXCEPT ![w] = Rejection]
    /\ covered' = [covered EXCEPT ![w] = {}]
    /\ replaced' = [replaced EXCEPT ![w] = {}]

(* The handler throws (a query failed) and the transaction rolls back. *)
Throw(w) ==
    /\ Working(w)
    /\ faults < MaxFaults
    /\ faults' = faults + 1
    /\ failAttempt(w)
    /\ idle(w)
    /\ UNCHANGED <<deploymentVars, hookVars, signals, bookVars>>

(* The process dies; its job stays active until it is recovered. *)
Die(w) ==
    /\ Working(w)
    /\ faults < MaxFaults
    /\ faults' = faults + 1
    /\ idle(w)
    /\ UNCHANGED <<deploymentVars, hookVars, signals, jobVars, bookVars>>

-----------------------------------------------------------------------------
(* handleForwardSignalProcessing, query by query. *)

workStep(w, at) ==
    /\ workAt[w] = at
    /\ UNCHANGED <<deploymentVars, hookVars, faults>>

goOn(w, at) == workAt' = [workAt EXCEPT ![w] = at]

(* Mutant: the status of the signal is not looked at. *)
takeSignal_Unchecked(w, d) ==
    /\ workStep(w, "idle")
    /\ jobs[d] = "waiting"
    /\ jobs' = [jobs EXCEPT ![d] = "active"]
    /\ holder' = [holder EXCEPT ![d] = w]
    /\ work' = [work EXCEPT ![w] = d]
    /\ goOn(w, "deployment")
    /\ UNCHANGED <<signals, attempts, stalls, bookVars, outcome, covered, replaced>>

(* The worker takes a job and reads its signal; a settled one is a no-op. *)
takeSignal(w, d) ==
    /\ workStep(w, "idle")
    /\ jobs[d] = "waiting"
    /\ IF signals[d] = "PENDING"
       THEN /\ jobs' = [jobs EXCEPT ![d] = "active"]
            /\ holder' = [holder EXCEPT ![d] = w]
            /\ work' = [work EXCEPT ![w] = d]
            /\ goOn(w, "deployment")
       ELSE /\ jobs' = [jobs EXCEPT ![d] = "completed"]
            /\ UNCHANGED <<holder, work, workAt>>
    /\ UNCHANGED <<signals, attempts, stalls, bookVars, outcome, covered, replaced>>

getDeployment(w) ==
    /\ workStep(w, "deployment")
    /\ goOn(w, IF state = "ACTIVE" THEN "position" ELSE "commit")
    /\ UNCHANGED <<signals, jobVars, bookVars, work, outcome, covered, replaced>>

Role(role) == {f \in fills : f.role = role}

(* Mutant: a second entry is let in. *)
PositionIsOpen_OffByOne == Cardinality(Role("ENTRY")) > Cardinality(Role("EXIT")) + 1

PositionIsOpen == Cardinality(Role("ENTRY")) > Cardinality(Role("EXIT"))

(* The last entry; entries with one sequence number come in either order. *)
LastEntries == {f \in Role("ENTRY") : \A g \in Role("ENTRY") : g.seq <= f.seq}

order(w, direction) ==
    [signal |-> work[w], role |-> roleOf(typeOf(work[w])), direction |-> direction, seq |-> 0]

(* The decision: an entry into an open position, an exit out of none and a  *)
(* direction that does not match are rejected.                              *)
findOpenPosition(w) ==
    LET type == typeOf(work[w])
        insert(direction) == /\ outcome' = [outcome EXCEPT ![w] = order(w, direction)]
                             /\ goOn(w, "sequence")
        reject == goOn(w, "commit") /\ UNCHANGED outcome
    IN
    /\ workStep(w, "position")
    /\ IF roleOf(type) = "ENTRY"
       THEN IF PositionIsOpen THEN reject ELSE insert(directionOf(type))
       ELSE IF ~PositionIsOpen THEN reject
       ELSE \E entry \in LastEntries :
               IF directionOf(type) \in {"ANY", entry.direction}
               THEN insert(entry.direction) ELSE reject
    /\ UNCHANGED <<signals, jobVars, bookVars, work, covered, replaced>>

(* max(sequence_number) + 1.  Only an exit recomputes the curves. *)
nextSequenceNumber(w) ==
    /\ workStep(w, "sequence")
    /\ \E n \in {0} \cup {f.seq : f \in fills} :
          /\ \A f \in fills : f.seq <= n
          /\ outcome' = [outcome EXCEPT ![w].seq = n + 1]
    /\ goOn(w, IF outcome[w].role = "EXIT" THEN "fills" ELSE "commit")
    /\ UNCHANGED <<signals, jobVars, bookVars, work, covered, replaced>>

(* Mutant: the recomputation does not see its own transaction's fill. *)
readFills_Outside(w) ==
    /\ workStep(w, "fills")
    /\ covered' = [covered EXCEPT ![w] = fills]
    /\ goOn(w, "delete")
    /\ UNCHANGED <<signals, jobVars, bookVars, work, outcome, replaced>>

(* recomputeForwardCurves: the fills it reads, its own among them, ... *)
readFills(w) ==
    /\ workStep(w, "fills")
    /\ covered' = [covered EXCEPT ![w] = fills \cup {outcome[w]}]
    /\ goOn(w, "delete")
    /\ UNCHANGED <<signals, jobVars, bookVars, work, outcome, replaced>>

(* ...and the rows it deletes: those visible to it. *)
deleteCurve(w) ==
    /\ workStep(w, "delete")
    /\ replaced' = [replaced EXCEPT ![w] = curve]
    /\ goOn(w, "commit")
    /\ UNCHANGED <<signals, jobVars, bookVars, work, outcome, covered>>

Ordered(d) == \E f \in fills : f.signal = d

(* Mutant: a rejection is stored as PROCESSED. *)
commitRejection_AsProcessed(w) ==
    /\ workStep(w, "commit")
    /\ outcome[w] = Rejection
    /\ signals' = [signals EXCEPT ![work[w]] = "PROCESSED"]
    /\ completeJob(w)
    /\ idle(w)
    /\ UNCHANGED bookVars

commitRejection(w) ==
    /\ workStep(w, "commit")
    /\ outcome[w] = Rejection
    /\ signals' = [signals EXCEPT ![work[w]] = "REJECTED"]
    /\ completeJob(w)
    /\ idle(w)
    /\ UNCHANGED bookVars

(* Mutant: signal_event_id without its UNIQUE constraint. *)
commitFill_NotUnique(w) ==
    /\ workStep(w, "commit")
    /\ outcome[w] # Rejection
    /\ signals' = [signals EXCEPT ![work[w]] = "PROCESSED"]
    /\ fills' = fills \cup {outcome[w]}
    /\ curve' = IF outcome[w].role = "EXIT" THEN (curve \ replaced[w]) \cup {covered[w]}
                                            ELSE curve
    /\ completeJob(w)
    /\ idle(w)

commitFill(w) ==
    /\ workStep(w, "commit")
    /\ outcome[w] # Rejection
    /\ ~Ordered(work[w])
    /\ signals' = [signals EXCEPT ![work[w]] = "PROCESSED"]
    /\ fills' = fills \cup {outcome[w]}
    /\ curve' = IF outcome[w].role = "EXIT" THEN (curve \ replaced[w]) \cup {covered[w]}
                                            ELSE curve
    /\ completeJob(w)
    /\ idle(w)

(* paper_orders.signal_event_id is UNIQUE: the insert throws. *)
violateUnique(w) ==
    /\ workStep(w, "commit")
    /\ outcome[w] # Rejection
    /\ Ordered(work[w])
    /\ failAttempt(w)
    /\ idle(w)
    /\ UNCHANGED <<signals, bookVars>>

-----------------------------------------------------------------------------
HookStep(d) == receive(d) \/ findSignal(d) \/ insertSignal(d)

WorkStep(w) ==
    \/ \E d \in Deliveries : takeSignal(w, d)
    \/ getDeployment(w)
    \/ findOpenPosition(w)
    \/ nextSequenceNumber(w)
    \/ readFills(w)
    \/ deleteCurve(w)
    \/ commitRejection(w)
    \/ commitFill(w)
    \/ violateUnique(w)

Next ==
    \/ \E c \in Commands : readState(c) \/ updateState(c)
    \/ \E d \in Deliveries : HookStep(d) \/ Enqueue(d) \/ Stall(d) \/ Recover(d)
    \/ \E w \in Workers : WorkStep(w) \/ Throw(w) \/ Die(w)

Spec == Init /\ [][Next]_vars

(* Workers keep working and BullMQ keeps looking for stalled jobs.  Nobody  *)
(* is obliged to send a webhook or a command, and nothing has to fail.      *)
FairSpec ==
    /\ Spec
    /\ \A w \in Workers : WF_vars(WorkStep(w))
    /\ \A d \in Deliveries : WF_vars(Recover(d))

-----------------------------------------------------------------------------
(* Properties, for any number of workers. *)

(***************************************************************************)
(* A signal is turned into at most one order, however often its job is     *)
(* delivered and however its executions overlap.                           *)
(***************************************************************************)
OneOrderPerSignal == \A f, g \in fills : f.signal = g.signal => f = g

(* A signal reported as processed has its fill: no commit leaves one half. *)
ProcessedHasFill == \A d \in Deliveries : signals[d] = "PROCESSED" => Ordered(d)

(***************************************************************************)
(* Properties of one worker: whatever fails, is redelivered or is paused   *)
(* in between, the book is as if each signal were handled in one piece.    *)
(***************************************************************************)

(* Fills are numbered without gaps or repetitions, entry, exit, entry, ... *)
(* and an exit closes the position that was open.                          *)
BookAlternates ==
    /\ \A f \in fills : f.seq \in 1..Cardinality(fills)
    /\ \A f \in fills : f.role = IF f.seq % 2 = 1 THEN "ENTRY" ELSE "EXIT"
    /\ \A f, g \in fills : f.seq = g.seq => f = g
    /\ \A f, g \in fills : f.role = "ENTRY" /\ g.seq = f.seq + 1
                              => g.direction = f.direction

(* A rejected signal has no fill, so the two outcomes exclude each other. *)
RejectedHasNoFill == \A d \in Deliveries : signals[d] = "REJECTED" => ~Ordered(d)

(* The book and its curve follow the rules of PaperLedger. *)
Ledger == INSTANCE PaperLedger WITH
    Signals <- Deliveries,
    kind <- [d \in Deliveries |-> [role |-> roleOf(typeOf(d)),
                                   direction |-> directionOf(typeOf(d))]],
    status <- signals,
    book <- fills,
    curve <- curve

KeepsLedger == Ledger!Spec

(* A queued signal is settled, although an execution throws or dies. *)
QueuedSignalSettles ==
    \A d \in Deliveries : jobs[d] = "waiting" ~> signals[d] \in {"PROCESSED", "REJECTED"}

-----------------------------------------------------------------------------
(* What comments and tests of the code say, and the code does not do. *)

(* A retried webhook delivery never creates a second row. *)
OneRowPerAlert ==
    \A d, e \in Deliveries :
        alert[d] = alert[e] /\ signals[d] # "absent" /\ signals[e] # "absent" => d = e

(* There is no window between checking ACTIVE and writing a fill. *)
FillOnlyWhileActive == [][fills' # fills => state = "ACTIVE"]_vars

(* At most one entry ever lacks its exit. *)
DepthAtMostOne == Cardinality(Role("ENTRY")) <= Cardinality(Role("EXIT")) + 1

(* A redelivery of a processed signal's job changes nothing. *)
ProcessedStays ==
    [][\A d \in Deliveries : signals[d] = "PROCESSED" => signals'[d] = "PROCESSED"]_vars

(* Only an ACTIVE deployment is paused. *)
PauseNeedsActive == [][state' = "PAUSED" => state \in {"ACTIVE", "PAUSED"}]_vars
=============================================================================
