------------------------- MODULE ForwardPaper_proofs -------------------------
(***************************************************************************)
(* Proofs about ForwardPaper for any number of deliveries, commands and    *)
(* worker processes, any event types and any number of faults: however the *)
(* executions of a signal's job overlap, it has one order at most, and a   *)
(* signal reported as processed has its fill.                              *)
(* With one worker process it implements PaperLedger, whatever is          *)
(* redelivered, rolled back or paused on the way.                          *)
(* Where the code breaks what its comments say because two steps of two    *)
(* parties overlap, the last sections before the refinement prove that it  *)
(* holds while they do not.                                                *)
(***************************************************************************)
EXTENDS ForwardPaper, FiniteSetTheorems, TLAPS

(* A delivery that has not inserted its row has neither signal nor job. *)
RowComesFirst ==
    \A d \in Deliveries : hookAt[d] # "done" => signals[d] = "absent" /\ jobs[d] = "absent"

(* A worker in a transaction works on a signal whose delivery inserted it. *)
WorkHasSignal ==
    \A w \in Workers :
        workAt[w] # "idle" => work[w] \in Deliveries /\ hookAt[work[w]] = "done"

(* The fill a transaction is going to insert is its own signal's, and it   *)
(* has been numbered by the time the curves are computed.                  *)
OutcomeIsOwn ==
    \A w \in Workers :
        /\ workAt[w] \in {"idle", "deployment", "position"} => outcome[w] = Rejection
        /\ workAt[w] \in {"sequence", "fills", "delete"} =>
              outcome[w] \in Orders /\ outcome[w].signal = work[w]
        /\ workAt[w] \in {"fills", "delete"} => outcome[w].seq > 0
        /\ workAt[w] = "commit" /\ outcome[w] # Rejection =>
              outcome[w] \in Fills /\ outcome[w].signal = work[w]

(* A job that may still run has an attempt left. *)
AttemptLeft ==
    \A d \in Deliveries : jobs[d] \notin {"completed", "failed"} => attempts[d] < MaxAttempts

IInv ==
    /\ TypeOK
    /\ AttemptLeft
    /\ RowComesFirst
    /\ WorkHasSignal
    /\ OutcomeIsOwn
    /\ OneOrderPerSignal
    /\ ProcessedHasFill

(* What a step leaves alone unless it is a worker's, or commits. *)
WorkersKept == UNCHANGED <<workAt, work, outcome, covered, replaced>>
BookKept == UNCHANGED <<fills, curve>>
HooksGoOn == \A d \in Deliveries : hookAt[d] = "done" => hookAt'[d] = "done"

-----------------------------------------------------------------------------
LEMMA Init_IInv == Init => IInv
BY NothingAssumption, BoundsAssumption
   DEF Init, IInv, TypeOK, AttemptLeft, RowComesFirst, WorkHasSignal, OutcomeIsOwn,
       OneOrderPerSignal,
       ProcessedHasFill, Rejection

(* A step that leaves the workers' transactions alone. *)
LEMMA OtherPartiesKeepOutcomes ==
  ASSUME IInv, WorkersKept, HooksGoOn
  PROVE  WorkHasSignal' /\ OutcomeIsOwn'
BY DEF IInv, WorkersKept, HooksGoOn, WorkHasSignal, OutcomeIsOwn

(* A step that leaves the book and the processed signals alone. *)
LEMMA BookKeepsFacts ==
  ASSUME IInv, BookKept,
         \A d \in Deliveries : signals'[d] = "PROCESSED" => signals[d] = "PROCESSED"
  PROVE  OneOrderPerSignal' /\ ProcessedHasFill'
BY DEF IInv, BookKept, OneOrderPerSignal, ProcessedHasFill, Ordered

LEMMA CommandStep ==
  ASSUME IInv, NEW c \in Commands, readState(c) \/ updateState(c)
  PROVE  IInv'
<1> USE DEF IInv, readState, updateState, hookVars, jobVars, bookVars, workVars
<1>1. TypeOK'
  BY DEF TypeOK, to
<1>2. RowComesFirst' /\ AttemptLeft'
  BY DEF RowComesFirst, AttemptLeft
<1>3. WorkHasSignal' /\ OutcomeIsOwn'
  BY OtherPartiesKeepOutcomes DEF WorkersKept, HooksGoOn, TypeOK
<1>4. OneOrderPerSignal' /\ ProcessedHasFill'
  BY BookKeepsFacts DEF BookKept
<1> QED BY <1>1, <1>2, <1>3, <1>4

LEMMA HookStepKeeps ==
  ASSUME IInv, NEW d \in Deliveries, HookStep(d)
  PROVE  IInv'
<1> USE DEF IInv, HookStep, receive, findSignal, insertSignal, hookStep, deploymentVars,
            jobVars, bookVars, workVars
<1>1. TypeOK'
  <2>1. CASE receive(d) \/ findSignal(d)
    BY <2>1 DEF TypeOK
  <2>2. CASE insertSignal(d)
    <3>1. jobs[d] = "absent"
      BY <2>2 DEF RowComesFirst, TypeOK
    <3>2. \A e \in Deliveries : jobs'[e] = "active" <=> holder'[e] # Nothing
      BY <2>2, <3>1 DEF TypeOK
    <3> QED BY <2>2, <3>2 DEF TypeOK
  <2> QED BY <2>1, <2>2
<1>2. RowComesFirst' /\ AttemptLeft'
  BY DEF RowComesFirst, AttemptLeft, TypeOK
<1>3. WorkHasSignal' /\ OutcomeIsOwn'
  BY OtherPartiesKeepOutcomes DEF WorkersKept, HooksGoOn, TypeOK
<1>4. OneOrderPerSignal' /\ ProcessedHasFill'
  BY BookKeepsFacts DEF BookKept, TypeOK
<1> QED BY <1>1, <1>2, <1>3, <1>4

LEMMA QueueStep ==
  ASSUME IInv, NEW d \in Deliveries, Enqueue(d) \/ Stall(d) \/ Recover(d)
  PROVE  IInv'
<1> USE DEF IInv, Enqueue, Stall, Recover, TakeBack, deploymentVars, hookVars, bookVars,
            workVars
<1>1. TypeOK'
  <2>1. holder' \in [Deliveries -> Workers \cup {Nothing}]
        /\ stalls' \in [Deliveries -> 0..MaxStalls]
        /\ faults' \in 0..MaxFaults
    BY BoundsAssumption DEF TypeOK
  <2>2. \A e \in Deliveries : jobs'[e] = "active" <=> holder'[e] # Nothing
    BY DEF TypeOK
  <2> QED BY <2>1, <2>2 DEF TypeOK
<1>2. RowComesFirst' /\ AttemptLeft'
  BY DEF RowComesFirst, AttemptLeft, TypeOK
<1>3. WorkHasSignal' /\ OutcomeIsOwn'
  BY OtherPartiesKeepOutcomes DEF WorkersKept, HooksGoOn, TypeOK
<1>4. OneOrderPerSignal' /\ ProcessedHasFill'
  BY BookKeepsFacts DEF BookKept
<1> QED BY <1>1, <1>2, <1>3, <1>4

-----------------------------------------------------------------------------
(* What the end of an execution does to the queue and to the worker. *)

LEMMA JobSettled ==
  ASSUME IInv, NEW w \in Workers, Working(w), completeJob(w) \/ failAttempt(w)
  PROVE  /\ jobs' \in [Deliveries -> {"absent", "outbox", "waiting", "active", "completed",
                                      "failed"}]
         /\ holder' \in [Deliveries -> Workers \cup {Nothing}]
         /\ attempts' \in [Deliveries -> 0..MaxAttempts]
         /\ stalls' = stalls
         /\ \A d \in Deliveries : jobs'[d] = "active" <=> holder'[d] # Nothing
         /\ \A d \in Deliveries : jobs[d] = "absent" => jobs'[d] = "absent"
         /\ AttemptLeft'
<1>1. work[w] \in Deliveries
  BY DEF IInv, WorkHasSignal, Working
<1>2. holder[work[w]] = w => w # Nothing /\ jobs[work[w]] = "active"
  BY <1>1, NothingAssumption DEF IInv, TypeOK
<1>3. CASE completeJob(w)
  BY <1>1, <1>2, <1>3 DEF completeJob, IInv, TypeOK, AttemptLeft
<1>4. CASE failAttempt(w)
  <2>2. CASE holder[work[w]] # w
    BY <1>4, <2>2 DEF failAttempt, IInv, TypeOK, jobVars, AttemptLeft
  <2>3. CASE holder[work[w]] = w
    <3>1. attempts' \in [Deliveries -> 0..MaxAttempts]
      BY <1>1, <1>2, <1>4, <2>3, BoundsAssumption DEF failAttempt, IInv, TypeOK, AttemptLeft
    <3>2. /\ holder' = [holder EXCEPT ![work[w]] = Nothing] /\ stalls' = stalls
          /\ \/ jobs' = [jobs EXCEPT ![work[w]] = "waiting"]
             \/ jobs' = [jobs EXCEPT ![work[w]] = "failed"]
      BY <1>4, <2>3 DEF failAttempt
    <3>3. AttemptLeft'
      BY <1>1, <1>2, <1>4, <2>3, BoundsAssumption DEF failAttempt, IInv, TypeOK, AttemptLeft
    <3> QED BY <1>1, <1>2, <2>3, <3>1, <3>2, <3>3 DEF IInv, TypeOK
  <2> QED BY <2>2, <2>3
<1> QED BY <1>3, <1>4

LEMMA WorkerIdles ==
  ASSUME IInv, NEW w \in Workers, idle(w), UNCHANGED hookAt
  PROVE  /\ workAt' \in [Workers -> {"idle", "deployment", "position", "sequence", "fills",
                                     "delete", "commit"}]
         /\ work' \in [Workers -> Deliveries \cup {Nothing}]
         /\ outcome' \in [Workers -> {Rejection} \cup Orders]
         /\ covered' \in [Workers -> SUBSET Fills]
         /\ replaced' \in [Workers -> SUBSET SUBSET Fills]
         /\ WorkHasSignal'
         /\ OutcomeIsOwn'
<1> USE DEF IInv, TypeOK, idle
<1>1. /\ workAt' \in [Workers -> {"idle", "deployment", "position", "sequence", "fills",
                                  "delete", "commit"}]
      /\ work' \in [Workers -> Deliveries \cup {Nothing}]
      /\ outcome' \in [Workers -> {Rejection} \cup Orders]
      /\ covered' \in [Workers -> SUBSET Fills]
      /\ replaced' \in [Workers -> SUBSET SUBSET Fills]
  OBVIOUS
<1>2. workAt'[w] = "idle" /\ \A v \in Workers \ {w} :
         workAt'[v] = workAt[v] /\ work'[v] = work[v] /\ outcome'[v] = outcome[v]
  OBVIOUS
<1>3. WorkHasSignal'
  BY <1>2 DEF WorkHasSignal
<1>4. OutcomeIsOwn'
  BY <1>2 DEF OutcomeIsOwn
<1> QED BY <1>1, <1>3, <1>4

(* An execution that is lost: the transaction leaves nothing. *)
LEMMA LostStep ==
  ASSUME IInv, NEW w \in Workers, Throw(w) \/ Die(w) \/ violateUnique(w)
  PROVE  IInv'
<1> USE DEF Throw, Die, violateUnique, workStep
<1>1. idle(w) /\ Working(w)
  BY DEF Working
<1>2. UNCHANGED <<deploymentVars, hookVars, signals, bookVars>>
  OBVIOUS
<1>3. failAttempt(w) \/ UNCHANGED jobVars
  OBVIOUS
<1>4. faults' \in 0..MaxFaults
  BY BoundsAssumption DEF IInv, TypeOK
<1>5. /\ jobs' \in [Deliveries -> {"absent", "outbox", "waiting", "active", "completed",
                                   "failed"}]
      /\ holder' \in [Deliveries -> Workers \cup {Nothing}]
      /\ attempts' \in [Deliveries -> 0..MaxAttempts]
      /\ stalls' = stalls
      /\ \A d \in Deliveries : jobs'[d] = "active" <=> holder'[d] # Nothing
      /\ \A d \in Deliveries : jobs[d] = "absent" => jobs'[d] = "absent"
      /\ AttemptLeft'
  BY <1>1, <1>3, JobSettled DEF jobVars, IInv, TypeOK, AttemptLeft
<1>6. TypeOK'
  BY <1>1, <1>2, <1>4, <1>5, WorkerIdles
     DEF IInv, TypeOK, deploymentVars, hookVars, bookVars
<1>7. RowComesFirst'
  BY <1>2, <1>5 DEF IInv, RowComesFirst, hookVars
<1>8. WorkHasSignal' /\ OutcomeIsOwn'
  BY <1>1, <1>2, WorkerIdles DEF hookVars
<1>9. OneOrderPerSignal' /\ ProcessedHasFill'
  BY <1>2, BookKeepsFacts DEF BookKept, bookVars
<1> QED BY <1>5, <1>6, <1>7, <1>8, <1>9 DEF IInv

LEMMA CommitStep ==
  ASSUME IInv, NEW w \in Workers, commitRejection(w) \/ commitFill(w)
  PROVE  IInv'
<1> USE DEF commitRejection, commitFill, workStep
<1>1. idle(w) /\ Working(w) /\ completeJob(w) /\ workAt[w] = "commit"
  BY DEF Working
<1>2. work[w] \in Deliveries
  BY <1>1 DEF IInv, WorkHasSignal
<1>3. \A d \in Deliveries \ {work[w]} : signals'[d] = signals[d]
  BY DEF IInv, TypeOK
<1>4. signals' \in [Deliveries -> {"absent", "PENDING", "PROCESSED", "REJECTED"}]
  BY DEF IInv, TypeOK
<1>5. ASSUME commitRejection(w) PROVE TypeOK' /\ OneOrderPerSignal' /\ ProcessedHasFill'
  <2>1. UNCHANGED <<fills, curve>>
    BY <1>5 DEF bookVars
  <2>2. TypeOK'
    BY <1>1, <1>4, <2>1, JobSettled, WorkerIdles
       DEF IInv, TypeOK, deploymentVars, hookVars
  <2>3. OneOrderPerSignal' /\ ProcessedHasFill'
    <3>1. signals'[work[w]] = "REJECTED"
      BY <1>2, <1>5 DEF IInv, TypeOK
    <3> QED BY <1>3, <2>1, <3>1, BookKeepsFacts DEF BookKept
  <2> QED BY <2>2, <2>3
<1>6. ASSUME commitFill(w) PROVE TypeOK' /\ OneOrderPerSignal' /\ ProcessedHasFill'
  <2>1. outcome[w] \in Fills /\ outcome[w].signal = work[w]
    BY <1>1, <1>6 DEF IInv, OutcomeIsOwn
  <2>2. fills' \in SUBSET Fills /\ curve' \in SUBSET SUBSET Fills
    BY <1>6, <2>1 DEF IInv, TypeOK
  <2>3. TypeOK'
    BY <1>1, <1>4, <2>2, JobSettled, WorkerIdles
       DEF IInv, TypeOK, deploymentVars, hookVars
  <2>4. OneOrderPerSignal'
    BY <1>6, <2>1 DEF IInv, OneOrderPerSignal, Ordered
  <2>5. ProcessedHasFill'
    BY <1>2, <1>3, <1>6, <2>1 DEF IInv, ProcessedHasFill, Ordered
  <2> QED BY <2>3, <2>4, <2>5
<1>7. RowComesFirst'
  <2>1. hookAt[work[w]] = "done"
    BY <1>1 DEF IInv, WorkHasSignal
  <2> QED BY <1>1, <1>2, <1>3, <2>1, JobSettled DEF IInv, RowComesFirst, hookVars
<1>8. WorkHasSignal' /\ OutcomeIsOwn'
  BY <1>1, WorkerIdles DEF hookVars
<1>9. AttemptLeft'
  BY <1>1, JobSettled
<1> QED BY <1>5, <1>6, <1>7, <1>8, <1>9 DEF IInv

-----------------------------------------------------------------------------
(* The steps inside a worker's transaction. *)

(* Moving one worker on moves no other. *)
LEMMA OthersStay ==
  ASSUME IInv, NEW w \in Workers, NEW step, goOn(w, step),
         NEW v \in Workers \ {w}
  PROVE  workAt'[v] = workAt[v]
BY DEF goOn, IInv, TypeOK

LEMMA TakeStep ==
  ASSUME IInv, NEW w \in Workers, NEW d \in Deliveries, takeSignal(w, d)
  PROVE  IInv'
<1> USE DEF takeSignal, workStep, goOn, deploymentVars, hookVars, bookVars
<1>1. hookAt[d] = "done" /\ workAt[w] = "idle" /\ holder[d] = Nothing
  BY DEF IInv, RowComesFirst, TypeOK
<1>2. TypeOK'
  <2>1. \A e \in Deliveries : jobs'[e] = "active" <=> holder'[e] # Nothing
    BY <1>1, NothingAssumption DEF IInv, TypeOK
  <2> QED BY <2>1 DEF IInv, TypeOK
<1>3. RowComesFirst' /\ AttemptLeft'
  BY <1>1 DEF IInv, RowComesFirst, AttemptLeft, TypeOK
<1>4. WorkHasSignal' /\ OutcomeIsOwn'
  BY <1>1 DEF IInv, TypeOK, WorkHasSignal, OutcomeIsOwn
<1>5. OneOrderPerSignal' /\ ProcessedHasFill'
  BY BookKeepsFacts DEF BookKept
<1> QED BY <1>2, <1>3, <1>4, <1>5 DEF IInv

(* A step from the state of the deployment to the commit changes its own   *)
(* worker's readings, and leaves the database and the queue alone.         *)
LEMMA OwnStep ==
  ASSUME IInv, NEW w \in Workers, workAt[w] # "idle",
         UNCHANGED <<deploymentVars, hookVars, signals, jobVars, bookVars, work, faults>>,
         NEW step \in {"position", "sequence", "fills", "delete", "commit"}, goOn(w, step),
         NEW o \in {Rejection} \cup Orders, outcome' = [outcome EXCEPT ![w] = o],
         covered' \in [Workers -> SUBSET Fills],
         replaced' \in [Workers -> SUBSET SUBSET Fills],
         step = "position" => o = Rejection,
         step \in {"sequence", "fills", "delete"} => o \in Orders /\ o.signal = work[w],
         step \in {"fills", "delete"} => o.seq > 0,
         step = "commit" /\ o # Rejection => o \in Fills /\ o.signal = work[w]
  PROVE  IInv'
<1> USE DEF goOn, deploymentVars, hookVars, jobVars, bookVars
<1>1. /\ workAt'[w] = step /\ outcome'[w] = o
      /\ \A v \in Workers \ {w} : workAt'[v] = workAt[v] /\ outcome'[v] = outcome[v]
  BY DEF IInv, TypeOK
<1>2. TypeOK'
  BY DEF IInv, TypeOK
<1>3. RowComesFirst' /\ AttemptLeft'
  BY DEF IInv, RowComesFirst, AttemptLeft
<1>4. WorkHasSignal'
  BY <1>1 DEF IInv, WorkHasSignal
<1>5. OutcomeIsOwn'
  BY <1>1 DEF IInv, OutcomeIsOwn
<1>6. OneOrderPerSignal' /\ ProcessedHasFill'
  BY BookKeepsFacts DEF BookKept
<1> QED BY <1>2, <1>3, <1>4, <1>5, <1>6 DEF IInv

(* A transaction that reads on without touching its outcome. *)
LEMMA SameOutcome ==
  ASSUME IInv, NEW w \in Workers, UNCHANGED outcome
  PROVE  outcome' = [outcome EXCEPT ![w] = outcome[w]] /\ outcome[w] \in {Rejection} \cup Orders
BY DEF IInv, TypeOK

LEMMA DeploymentStep ==
  ASSUME IInv, NEW w \in Workers, getDeployment(w)
  PROVE  IInv'
<1> USE DEF getDeployment, workStep
<1>1. outcome[w] = Rejection
  BY DEF IInv, OutcomeIsOwn
<1>2. PICK step \in {"position", "commit"} : goOn(w, step)
  OBVIOUS
<1> QED BY <1>1, <1>2, SameOutcome, OwnStep DEF IInv, TypeOK

LEMMA RejectionIsNoFill == Rejection \notin Orders
BY NothingAssumption DEF Rejection, Orders

LEMMA PositionStep ==
  ASSUME IInv, NEW w \in Workers, findOpenPosition(w)
  PROVE  IInv'
<1> USE DEF findOpenPosition, workStep
<1>1. /\ workAt[w] = "position" /\ outcome[w] = Rejection
      /\ UNCHANGED <<deploymentVars, hookVars, signals, jobVars, bookVars, work, faults,
                     covered, replaced>>
  BY DEF IInv, OutcomeIsOwn
<1>2. work[w] \in Deliveries
  BY <1>1 DEF IInv, WorkHasSignal
<1>3. CASE goOn(w, "commit") /\ UNCHANGED outcome
  BY <1>1, <1>3, SameOutcome, OwnStep DEF IInv, TypeOK
<1>4. ASSUME NEW direction \in {"LONG", "SHORT"}, goOn(w, "sequence"),
             outcome' = [outcome EXCEPT ![w] = order(w, direction)]
      PROVE  IInv'
  <2>1. order(w, direction) \in Orders /\ order(w, direction).signal = work[w]
    BY <1>2 DEF order, Orders, roleOf
  <2>2. covered' \in [Workers -> SUBSET Fills] /\ replaced' \in [Workers -> SUBSET SUBSET Fills]
    BY <1>1 DEF IInv, TypeOK
  <2> QED BY <1>1, <1>4, <2>1, <2>2, OwnStep
<1>5. roleOf(typeOf(work[w])) = "ENTRY" => directionOf(typeOf(work[w])) \in {"LONG", "SHORT"}
  BY DEF roleOf, directionOf
<1>6. \A entry \in LastEntries : entry.direction \in {"LONG", "SHORT"}
  BY DEF LastEntries, Role, IInv, TypeOK, Fills, Orders
<1>7. \/ goOn(w, "commit") /\ UNCHANGED outcome
      \/ \E direction \in {"LONG", "SHORT"} :
            goOn(w, "sequence") /\ outcome' = [outcome EXCEPT ![w] = order(w, direction)]
  <2>1. CASE roleOf(typeOf(work[w])) = "ENTRY"
    BY <1>5, <2>1
  <2>2. CASE roleOf(typeOf(work[w])) # "ENTRY"
    BY <1>6, <2>2
  <2> QED BY <2>1, <2>2
<1> QED BY <1>3, <1>4, <1>7

LEMMA SequenceStep ==
  ASSUME IInv, NEW w \in Workers, nextSequenceNumber(w)
  PROVE  IInv'
<1> USE DEF nextSequenceNumber, workStep
<1>1. outcome[w] \in Orders /\ outcome[w].signal = work[w]
  BY DEF IInv, OutcomeIsOwn
<1>2. PICK n \in Nat : outcome' = [outcome EXCEPT ![w].seq = n + 1]
  <2>1. PICK n \in {0} \cup {f.seq : f \in fills} :
           outcome' = [outcome EXCEPT ![w].seq = n + 1]
    OBVIOUS
  <2>2. n \in Nat
    BY DEF IInv, TypeOK, Fills, Orders
  <2> QED BY <2>1, <2>2
<1> DEFINE o == [outcome[w] EXCEPT !.seq = n + 1]
<1>3. o \in Fills /\ o.signal = work[w] /\ o.seq > 0
  BY <1>1 DEF Fills, Orders
<1>4. outcome' = [outcome EXCEPT ![w] = o]
  BY <1>2 DEF IInv, TypeOK
<1>5. PICK step \in {"fills", "commit"} : goOn(w, step)
  OBVIOUS
<1>6. o \in Orders
  BY <1>3 DEF Fills
<1> HIDE DEF o
<1> QED BY <1>3, <1>4, <1>5, <1>6, OwnStep DEF IInv, TypeOK

LEMMA CurveStep ==
  ASSUME IInv, NEW w \in Workers, readFills(w) \/ deleteCurve(w)
  PROVE  IInv'
<1> USE DEF readFills, deleteCurve, workStep
<1>1. outcome[w] \in Orders /\ outcome[w].signal = work[w] /\ outcome[w].seq > 0
  BY DEF IInv, OutcomeIsOwn
<1>2. outcome[w] \in Fills
  BY <1>1 DEF Fills
<1>3. covered' \in [Workers -> SUBSET Fills] /\ replaced' \in [Workers -> SUBSET SUBSET Fills]
  BY <1>2 DEF IInv, TypeOK
<1>4. PICK step \in {"delete", "commit"} : goOn(w, step)
  OBVIOUS
<1> QED BY <1>1, <1>2, <1>3, <1>4, SameOutcome, OwnStep

-----------------------------------------------------------------------------
(* IInv holds in every reachable state. *)
THEOREM Invariance == Spec => []IInv
<1>1. IInv /\ [Next]_vars => IInv'
  <2> SUFFICES ASSUME IInv, [Next]_vars PROVE IInv'
    OBVIOUS
  <2>1. CASE Next
    <3>1. ASSUME NEW c \in Commands, readState(c) \/ updateState(c) PROVE IInv'
      BY <3>1, CommandStep
    <3>2. ASSUME NEW d \in Deliveries, HookStep(d) PROVE IInv'
      BY <3>2, HookStepKeeps
    <3>3. ASSUME NEW d \in Deliveries, Enqueue(d) \/ Stall(d) \/ Recover(d) PROVE IInv'
      BY <3>3, QueueStep
    <3>4. ASSUME NEW w \in Workers, WorkStep(w) PROVE IInv'
      BY <3>4, TakeStep, DeploymentStep, PositionStep, SequenceStep, CurveStep, CommitStep,
         LostStep
         DEF WorkStep
    <3>5. ASSUME NEW w \in Workers, Throw(w) \/ Die(w) PROVE IInv'
      BY <3>5, LostStep
    <3> QED BY <2>1, <3>1, <3>2, <3>3, <3>4, <3>5 DEF Next
  <2>2. CASE UNCHANGED vars
    BY <2>2
       DEF vars, deploymentVars, hookVars, jobVars, bookVars, workVars, IInv, TypeOK,
           AttemptLeft, RowComesFirst, WorkHasSignal, OutcomeIsOwn, OneOrderPerSignal,
           ProcessedHasFill, Ordered
  <2> QED BY <2>1, <2>2
<1> QED BY <1>1, Init_IInv, PTL DEF Spec

(* Every reachable state is well typed; in particular a lock is held       *)
(* exactly on the active jobs.                                             *)
THEOREM TypeCorrect == Spec => []TypeOK
BY Invariance, PTL DEF IInv

(* However its job's executions overlap, a signal has one order at most.   *)
THEOREM SignalsAreOrderedOnce == Spec => []OneOrderPerSignal
BY Invariance, PTL DEF IInv

(* A processed signal has its fill, whatever failed around the commit.     *)
THEOREM ProcessedSignalsAreFilled == Spec => []ProcessedHasFill
BY Invariance, PTL DEF IInv

-----------------------------------------------------------------------------
(* The safety half of QueuedSignalSettles. *)

(* A pending signal has a job that will run, or one that used up its        *)
(* attempts or was taken back once too often.                               *)
PendingHasJob ==
    \A d \in Deliveries : signals[d] = "PENDING" =>
        \/ jobs[d] \in {"outbox", "waiting", "active"}
        \/ jobs[d] = "failed" /\ (attempts[d] = MaxAttempts \/ stalls[d] = MaxStalls)

(* A signal that becomes pending gets a job; the other jobs run on, unless *)
(* their signal is settled or they are given up.                           *)
JobRunsOn(d) ==
    \/ signals'[d] = "PENDING" => signals[d] = "PENDING" /\ UNCHANGED <<jobs[d], attempts[d], stalls[d]>>
    \/ jobs'[d] \in {"outbox", "waiting", "active"}
    \/ jobs'[d] = "failed" /\ (attempts'[d] = MaxAttempts \/ stalls'[d] = MaxStalls)

LEMMA EveryJobRunsOn ==
  ASSUME IInv, PendingHasJob, Next, NEW d \in Deliveries
  PROVE  JobRunsOn(d)
<1> USE DEF JobRunsOn, IInv, TypeOK
<1>1. ASSUME NEW c \in Commands, readState(c) \/ updateState(c) PROVE JobRunsOn(d)
  BY <1>1 DEF readState, updateState, jobVars
<1>2. ASSUME NEW e \in Deliveries, HookStep(e) PROVE JobRunsOn(d)
  BY <1>2 DEF HookStep, receive, findSignal, insertSignal, hookStep, jobVars
<1>3. ASSUME NEW e \in Deliveries, Enqueue(e) \/ Stall(e) \/ Recover(e) PROVE JobRunsOn(d)
  <2>1. CASE Enqueue(e)
    BY <2>1 DEF Enqueue
  <2>2. CASE TakeBack(e)
    <3>1. signals' = signals /\ attempts' = attempts
      BY <2>2 DEF TakeBack
    <3>2. CASE stalls[e] < MaxStalls
      BY <2>2, <3>1, <3>2 DEF TakeBack
    <3>3. CASE ~(stalls[e] < MaxStalls)
      <4>1. stalls[e] = MaxStalls
        BY <3>3, BoundsAssumption, stalls[e] \in 0..MaxStalls
      <4>2. jobs' = [jobs EXCEPT ![e] = "failed"] /\ stalls' = stalls
        BY <2>2, <3>3 DEF TakeBack
      <4> QED BY <3>1, <4>1, <4>2
    <3> QED BY <3>2, <3>3
  <2> QED BY <1>3, <2>1, <2>2 DEF Stall, Recover
<1>4. ASSUME NEW w \in Workers, failAttempt(w), UNCHANGED signals, work[w] \in Deliveries PROVE JobRunsOn(d)
  <2>1. CASE holder[work[w]] # w
    BY <1>4, <2>1 DEF failAttempt, jobVars
  <2>2. CASE holder[work[w]] = w /\ attempts[work[w]] + 1 < MaxAttempts
    BY <1>4, <2>2 DEF failAttempt
  <2>3. CASE holder[work[w]] = w /\ ~(attempts[work[w]] + 1 < MaxAttempts)
    <3>1. attempts[work[w]] < MaxAttempts /\ attempts[work[w]] \in Nat
      BY <1>4, <2>3, NothingAssumption DEF AttemptLeft
    <3>2. attempts[work[w]] + 1 = MaxAttempts
      BY ONLY <2>3, <3>1, BoundsAssumption
    <3>3. /\ attempts' = [attempts EXCEPT ![work[w]] = MaxAttempts]
          /\ jobs' = [jobs EXCEPT ![work[w]] = "failed"] /\ stalls' = stalls
      BY <1>4, <2>3, <3>2 DEF failAttempt
    <3> QED BY <1>4, <3>3
  <2> QED BY <2>1, <2>2, <2>3
<1>5. ASSUME NEW w \in Workers, WorkStep(w) PROVE JobRunsOn(d)
  <2>1. CASE commitRejection(w) \/ commitFill(w)
    <3>1. work[w] \in Deliveries
      BY <2>1 DEF WorkHasSignal, commitRejection, commitFill, workStep
    <3>2. PICK verdict \in {"PROCESSED", "REJECTED"} : signals' = [signals EXCEPT ![work[w]] = verdict]
      BY <2>1 DEF commitRejection, commitFill
    <3> QED BY <2>1, <3>1, <3>2 DEF commitRejection, commitFill, completeJob
  <2>2. CASE violateUnique(w)
    BY <1>4, <2>2 DEF violateUnique, workStep, WorkHasSignal
  <2>3. ASSUME NEW e \in Deliveries, takeSignal(w, e) PROVE JobRunsOn(d)
    BY <2>3 DEF takeSignal
  <2>4. CASE getDeployment(w) \/ findOpenPosition(w) \/ nextSequenceNumber(w) \/ readFills(w) \/ deleteCurve(w)
    BY <2>4 DEF getDeployment, findOpenPosition, nextSequenceNumber, readFills, deleteCurve, jobVars
  <2> QED BY <1>5, <2>1, <2>2, <2>3, <2>4 DEF WorkStep
<1>6. ASSUME NEW w \in Workers, Throw(w) \/ Die(w) PROVE JobRunsOn(d)
  BY <1>4, <1>6 DEF Throw, Die, jobVars, WorkHasSignal, Working
<1> QED BY <1>1, <1>2, <1>3, <1>5, <1>6 DEF Next

(* No signal is forgotten: one that is neither processed nor rejected is    *)
(* still queued, or its job was given up after the attempts and the stalls  *)
(* BullMQ allows.                                                           *)
THEOREM PendingSignalsAreCarried == Spec => []PendingHasJob
<1>1. Init => PendingHasJob
  BY DEF Init, PendingHasJob
<1>2. IInv /\ PendingHasJob /\ [Next]_vars => PendingHasJob'
  <2>1. ASSUME IInv, PendingHasJob, Next PROVE PendingHasJob'
    BY <2>1, EveryJobRunsOn DEF JobRunsOn, PendingHasJob
  <2>2. ASSUME PendingHasJob, UNCHANGED vars PROVE PendingHasJob'
    BY <2>2 DEF PendingHasJob, vars, jobVars
  <2> QED BY <2>1, <2>2
<1> QED BY <1>1, <1>2, Invariance, PTL DEF Spec

-----------------------------------------------------------------------------
(* The deployment of a single worker process. *)
OneWorker == \A v, w \in Workers : v = w

Size == Cardinality(fills)

(* Entries are as many as exits, or one more when a position is open; the  *)
(* numbers run from 1 to the size of the book, alternating in role.        *)
BookInOrder ==
    /\ IsFiniteSet(fills)
    /\ Cardinality(Role("ENTRY")) = Cardinality(Role("EXIT")) + (Size % 2)
    /\ \A i \in 1..Size : \E f \in fills : f.seq = i
    /\ BookAlternates

(* Only processed signals have fills. *)
FilledIsProcessed == \A d \in Deliveries : Ordered(d) => signals[d] = "PROCESSED"

(* The signal a worker handles is still pending. *)
WorksOnPending == \A w \in Workers : Working(w) => signals[work[w]] = "PENDING"

(* A transaction that is going to insert a fill. *)
Filling(w) ==
    \/ workAt[w] \in {"sequence", "fills", "delete"}
    \/ workAt[w] = "commit" /\ outcome[w] # Rejection

Fitting(o, type) ==
    /\ o.role = roleOf(type)
    /\ o.role = "ENTRY" => Size % 2 = 0 /\ o.direction = directionOf(type)
    /\ o.role = "EXIT" =>
          /\ Size % 2 = 1
          /\ directionOf(type) \in {"ANY", o.direction}
          /\ \E last \in fills : last.seq = Size /\ last.direction = o.direction

(* The decision is still right for the book when the fill is inserted.     *)
DecisionOf(w) ==
    /\ Filling(w) => Fitting(outcome[w], typeOf(work[w]))
    /\ Filling(w) /\ workAt[w] # "sequence" => outcome[w].seq = Size + 1

DecisionStands == \A w \in Workers : DecisionOf(w)

(* And so are the curves: they cover the book with the new fill, and they  *)
(* replace the ones that are stored.                                       *)
CurvesOf(w) ==
    /\ workAt[w] \in {"fills", "delete"} => outcome[w].role = "EXIT"
    /\ workAt[w] = "delete" => covered[w] = fills \cup {outcome[w]}
    /\ workAt[w] = "commit" /\ outcome[w] # Rejection /\ outcome[w].role = "EXIT" =>
          covered[w] = fills \cup {outcome[w]} /\ replaced[w] = curve

CurvesStand == \A w \in Workers : CurvesOf(w)

LInv ==
    /\ IInv
    /\ BookInOrder
    /\ FilledIsProcessed
    /\ WorksOnPending
    /\ DecisionStands
    /\ CurvesStand

-----------------------------------------------------------------------------
LEMMA Parity ==
  ASSUME NEW n \in Nat
  PROVE  n % 2 \in {0, 1} /\ (n + 1) % 2 = 1 - (n % 2)
OBVIOUS

LEMMA SizeIsNat ==
  ASSUME BookInOrder
  PROVE  /\ Size \in Nat
         /\ IsFiniteSet(Role("ENTRY")) /\ Cardinality(Role("ENTRY")) \in Nat
         /\ IsFiniteSet(Role("EXIT")) /\ Cardinality(Role("EXIT")) \in Nat
<1>1. IsFiniteSet(Role("ENTRY")) /\ IsFiniteSet(Role("EXIT"))
  BY FS_Subset DEF BookInOrder, Role
<1> QED BY <1>1, FS_CardinalityType DEF BookInOrder, Size

(* A position is open exactly when the book's size is odd. *)
LEMMA OpenWhenOdd ==
  ASSUME BookInOrder
  PROVE  PositionIsOpen <=> Size % 2 = 1
BY SizeIsNat, Parity DEF BookInOrder, PositionIsOpen

(* When it is open the last entry is the last fill. *)
LEMMA LastEntryIsLast ==
  ASSUME BookInOrder, fills \subseteq Fills, Size % 2 = 1, NEW e \in LastEntries
  PROVE  e \in fills /\ e.seq = Size
<1>1. Size \in Nat /\ Size > 0
  BY SizeIsNat
<1>2. PICK f \in fills : f.seq = Size
  BY <1>1 DEF BookInOrder
<1>3. f \in Role("ENTRY")
  BY <1>2 DEF BookInOrder, BookAlternates, Role, Size
<1>4. e \in fills /\ e.seq \in 1..Size /\ f.seq <= e.seq
  BY <1>3 DEF LastEntries, Role, BookInOrder, BookAlternates, Size
<1> QED BY <1>1, <1>2, <1>4

(* A fill that fits the book and has the next number keeps it in order.    *)
LEMMA BookGrows ==
  ASSUME BookInOrder, fills \subseteq Fills, NEW o \in Fills, NEW type, Fitting(o, type),
         o.seq = Size + 1, fills' = fills \cup {o}
  PROVE  BookInOrder'
<1>1. Size \in Nat /\ o \notin fills
  BY SizeIsNat DEF BookInOrder, BookAlternates, Size
<1>2. IsFiniteSet(fills') /\ Size' = Size + 1
  BY <1>1, FS_AddElement DEF BookInOrder, Size
<1>3. (Size + 1) % 2 = 1 - (Size % 2) /\ Size % 2 \in {0, 1}
  BY <1>1, Parity
<1>4. \A i \in 1..Size' : \E f \in fills' : f.seq = i
  <2> SUFFICES ASSUME NEW i \in 1..Size + 1 PROVE \E f \in fills' : f.seq = i
    BY <1>2
  <2>1. CASE i = Size + 1
    BY <2>1
  <2>2. CASE i \in 1..Size
    BY <2>2 DEF BookInOrder
  <2> QED BY <1>1, <2>1, <2>2
<1>5. Cardinality(Role("ENTRY"))' = Cardinality(Role("EXIT"))' + (Size' % 2)
  <2>1. CASE o.role = "ENTRY"
    <3>1. Role("ENTRY")' = Role("ENTRY") \cup {o} /\ Role("EXIT")' = Role("EXIT")
      BY <2>1 DEF Role
    <3>2. o \notin Role("ENTRY")
      BY <1>1 DEF Role
    <3>3. Cardinality(Role("ENTRY"))' = Cardinality(Role("ENTRY")) + 1
      BY <3>1, <3>2, SizeIsNat, FS_AddElement
    <3> QED BY <1>2, <1>3, <2>1, <3>1, <3>3, SizeIsNat DEF Fitting, BookInOrder
  <2>2. CASE o.role = "EXIT"
    <3>1. Role("EXIT")' = Role("EXIT") \cup {o} /\ Role("ENTRY")' = Role("ENTRY")
      BY <2>2 DEF Role
    <3>2. o \notin Role("EXIT")
      BY <1>1 DEF Role
    <3>3. Cardinality(Role("EXIT"))' = Cardinality(Role("EXIT")) + 1
      BY <3>1, <3>2, SizeIsNat, FS_AddElement
    <3> QED BY <1>2, <1>3, <2>2, <3>1, <3>3, SizeIsNat DEF Fitting, BookInOrder
  <2> QED BY <2>1, <2>2 DEF Fills, Orders
<1>6. BookAlternates'
  <2>1. \A f \in fills' : f.seq \in 1..Size'
    BY <1>1, <1>2 DEF BookInOrder, BookAlternates, Size
  <2>2. \A f \in fills' : f.role = IF f.seq % 2 = 1 THEN "ENTRY" ELSE "EXIT"
    BY <1>3 DEF BookInOrder, BookAlternates, Fitting, Fills, Orders
  <2>3. \A f, g \in fills' : f.seq = g.seq => f = g
    BY <1>1 DEF BookInOrder, BookAlternates, Size
  <2>4. ASSUME NEW f \in fills', NEW g \in fills', f.role = "ENTRY", g.seq = f.seq + 1
        PROVE  g.direction = f.direction
    <3>1. CASE f \in fills /\ g \in fills
      BY <2>4, <3>1 DEF BookInOrder, BookAlternates
    <3>2. CASE f = o
      BY <1>1, <1>2, <2>1, <2>4, <3>2
    <3>3. CASE f \in fills /\ g = o
      <4>1. f.seq = Size
        BY <1>1, <1>2, <2>1, <2>4, <3>3
      <4>2. o.role = "EXIT"
        BY <1>3, <2>2, <2>4, <3>3, <4>1 DEF Fitting, Fills, Orders
      <4> QED BY <2>3, <3>3, <4>1, <4>2 DEF Fitting
    <3> QED BY <3>1, <3>2, <3>3
  <2> QED BY <2>1, <2>2, <2>3, <2>4 DEF BookAlternates, Size
<1> QED BY <1>2, <1>4, <1>5, <1>6 DEF BookInOrder

-----------------------------------------------------------------------------
LEMMA Init_LInv == Init => LInv
<1> SUFFICES ASSUME Init PROVE LInv
  OBVIOUS
<1> USE DEF Init
<1>1. fills = {} /\ Role("ENTRY") = {} /\ Role("EXIT") = {}
  BY DEF Role
<1>2. IsFiniteSet({}) /\ Cardinality({}) = 0
  BY FS_EmptySet
<1>3. BookInOrder
  <2>1. Size = 0 /\ Cardinality(Role("ENTRY")) = 0 /\ Cardinality(Role("EXIT")) = 0
    BY <1>1, <1>2 DEF Size
  <2>2. Size % 2 = 0
    BY <2>1
  <2>3. BookAlternates
    BY <1>1 DEF BookAlternates
  <2> QED BY <1>1, <1>2, <2>1, <2>2, <2>3 DEF BookInOrder
<1>4. FilledIsProcessed /\ WorksOnPending /\ DecisionStands /\ CurvesStand
  BY DEF FilledIsProcessed, Ordered, WorksOnPending, Working, DecisionStands, DecisionOf,
         Filling, CurvesStand, CurvesOf
<1> QED BY <1>3, <1>4, Init_IInv DEF LInv

(* Operators, webhooks and the queue touch neither the book nor a signal   *)
(* that has been recorded.                                                 *)
LEMMA OthersKeepBook ==
  ASSUME LInv, IInv',
         UNCHANGED <<fills, curve, workAt, work, outcome, covered, replaced, alert, eventType>>,
         \A d \in Deliveries : signals[d] # "absent" => signals'[d] = signals[d]
  PROVE  LInv'
<1>1. BookInOrder'
  BY DEF LInv, BookInOrder, BookAlternates, Size, Role
<1>2. FilledIsProcessed'
  BY DEF LInv, FilledIsProcessed, Ordered
<1>3. WorksOnPending'
  BY DEF LInv, IInv, WorkHasSignal, WorksOnPending, Working
<1>4. DecisionStands'
  BY DEF LInv, DecisionStands, DecisionOf, Filling, Fitting, Size, typeOf
<1>5. CurvesStand'
  BY DEF LInv, CurvesStand, CurvesOf
<1> QED BY <1>1, <1>2, <1>3, <1>4, <1>5 DEF LInv

(* A step inside one worker's transaction concerns that worker only.       *)
LEMMA OwnStepKeepsBook ==
  ASSUME LInv, IInv', NEW w \in Workers,
         UNCHANGED <<fills, curve, alert, eventType, signals>>,
         \A v \in Workers \ {w} :
            /\ workAt'[v] = workAt[v] /\ work'[v] = work[v] /\ outcome'[v] = outcome[v]
            /\ covered'[v] = covered[v] /\ replaced'[v] = replaced[v],
         workAt'[w] # "idle" => signals[work'[w]] = "PENDING",
         DecisionOf(w)', CurvesOf(w)'
  PROVE  LInv'
<1>1. BookInOrder'
  BY DEF LInv, BookInOrder, BookAlternates, Size, Role
<1>2. FilledIsProcessed'
  BY DEF LInv, FilledIsProcessed, Ordered
<1>3. WorksOnPending'
  BY DEF LInv, WorksOnPending, Working
<1>4. DecisionStands'
  <2> SUFFICES ASSUME NEW v \in Workers PROVE DecisionOf(v)'
    BY DEF DecisionStands
  <2>1. CASE v = w
    BY <2>1
  <2>2. CASE v # w
    BY <2>2 DEF LInv, DecisionStands, DecisionOf, Filling, Fitting, Size, typeOf
  <2> QED BY <2>1, <2>2
<1>5. CurvesStand'
  <2> SUFFICES ASSUME NEW v \in Workers PROVE CurvesOf(v)'
    BY DEF CurvesStand
  <2>1. CASE v = w
    BY <2>1
  <2>2. CASE v # w
    BY <2>2 DEF LInv, CurvesStand, CurvesOf
  <2> QED BY <2>1, <2>2
<1> QED BY <1>1, <1>2, <1>3, <1>4, <1>5 DEF LInv

(* A worker that has become idle has decided nothing. *)
LEMMA IdleWorker ==
  ASSUME IInv, NEW w \in Workers, idle(w)
  PROVE  /\ workAt'[w] = "idle" /\ DecisionOf(w)' /\ CurvesOf(w)'
         /\ \A v \in Workers \ {w} :
               /\ workAt'[v] = workAt[v] /\ work'[v] = work[v] /\ outcome'[v] = outcome[v]
               /\ covered'[v] = covered[v] /\ replaced'[v] = replaced[v]
BY DEF IInv, TypeOK, idle, DecisionOf, CurvesOf, Filling

LEMMA LostStepKeepsBook ==
  ASSUME LInv, NEW w \in Workers, Throw(w) \/ Die(w) \/ violateUnique(w)
  PROVE  LInv'
<1>1. IInv'
  BY LostStep DEF LInv
<1>2. idle(w) /\ UNCHANGED <<fills, curve, alert, eventType, signals>>
  BY DEF Throw, Die, violateUnique, workStep, hookVars, bookVars
<1> QED BY <1>1, <1>2, IdleWorker, OwnStepKeepsBook DEF LInv

LEMMA TakeStepKeepsBook ==
  ASSUME LInv, NEW w \in Workers, NEW d \in Deliveries, takeSignal(w, d)
  PROVE  LInv'
<1>1. IInv'
  BY TakeStep DEF LInv
<1>2. UNCHANGED <<fills, curve, alert, eventType, signals, outcome, covered, replaced>>
  BY DEF takeSignal, workStep, hookVars, bookVars
<1>3. CASE workAt' = workAt /\ work' = work
  BY <1>1, <1>2, <1>3, OthersKeepBook
<1>4. CASE /\ workAt' = [workAt EXCEPT ![w] = "deployment"] /\ work' = [work EXCEPT ![w] = d]
           /\ signals[d] = "PENDING"
  <2>1. workAt'[w] = "deployment" /\ work'[w] = d
    BY <1>4 DEF LInv, IInv, TypeOK
  <2>2. DecisionOf(w)' /\ CurvesOf(w)'
    BY <2>1 DEF DecisionOf, CurvesOf, Filling
  <2>3. \A v \in Workers \ {w} : workAt'[v] = workAt[v] /\ work'[v] = work[v]
    BY <1>4 DEF LInv, IInv, TypeOK
  <2> QED BY <1>1, <1>2, <1>4, <2>1, <2>2, <2>3, OwnStepKeepsBook
<1> QED BY <1>3, <1>4 DEF takeSignal, goOn

(* The reading steps change the worker's own place and outcome only. *)
LEMMA ReadingMoves ==
  ASSUME LInv, NEW w \in Workers,
         getDeployment(w) \/ findOpenPosition(w) \/ nextSequenceNumber(w)
         \/ readFills(w) \/ deleteCurve(w)
  PROVE  /\ IInv'
         /\ UNCHANGED <<fills, curve, alert, eventType, signals, work>>
         /\ \A v \in Workers \ {w} :
               /\ workAt'[v] = workAt[v] /\ work'[v] = work[v] /\ outcome'[v] = outcome[v]
               /\ covered'[v] = covered[v] /\ replaced'[v] = replaced[v]
         /\ workAt[w] # "idle" /\ signals[work[w]] = "PENDING"
<1> USE DEF getDeployment, findOpenPosition, nextSequenceNumber, readFills, deleteCurve,
            workStep, goOn
<1>1. IInv'
  BY DeploymentStep, PositionStep, SequenceStep, CurveStep DEF LInv
<1>2. UNCHANGED <<fills, curve, alert, eventType, signals, work>> /\ workAt[w] # "idle"
  BY DEF hookVars, bookVars
<1>3. signals[work[w]] = "PENDING"
  BY <1>2 DEF LInv, WorksOnPending, Working
<1>4. ASSUME NEW v \in Workers \ {w}
      PROVE  /\ workAt'[v] = workAt[v] /\ work'[v] = work[v] /\ outcome'[v] = outcome[v]
             /\ covered'[v] = covered[v] /\ replaced'[v] = replaced[v]
  BY <1>2 DEF LInv, IInv, TypeOK
<1> QED BY <1>1, <1>2, <1>3, <1>4

(* A transaction that has nothing to insert decides nothing.               *)
LEMMA NothingToInsert ==
  ASSUME NEW w \in Workers, workAt[w] \in {"position", "commit"}, outcome[w] = Rejection
  PROVE  DecisionOf(w) /\ CurvesOf(w)
BY DEF DecisionOf, CurvesOf, Filling

LEMMA DeploymentStepKeepsBook ==
  ASSUME LInv, NEW w \in Workers, getDeployment(w)
  PROVE  LInv'
<1>1. workAt'[w] \in {"position", "commit"} /\ outcome'[w] = Rejection
  BY DEF getDeployment, workStep, goOn, LInv, IInv, TypeOK, OutcomeIsOwn
<1>2. DecisionOf(w)' /\ CurvesOf(w)'
  BY <1>1 DEF DecisionOf, CurvesOf, Filling
<1> QED BY <1>2, ReadingMoves, OwnStepKeepsBook

LEMMA PositionStepKeepsBook ==
  ASSUME LInv, NEW w \in Workers, findOpenPosition(w)
  PROVE  LInv'
<1> USE DEF findOpenPosition, workStep, goOn
<1> DEFINE type == typeOf(work[w])
<1>1. workAt[w] = "position" /\ outcome[w] = Rejection
      /\ work[w] \in Deliveries /\ fills \subseteq Fills /\ Size \in Nat
  BY SizeIsNat DEF LInv, IInv, TypeOK, OutcomeIsOwn, WorkHasSignal
<1>2. ASSUME workAt' = [workAt EXCEPT ![w] = "commit"], UNCHANGED outcome PROVE LInv'
  <2>1. workAt'[w] = "commit" /\ outcome'[w] = Rejection
    BY <1>1, <1>2 DEF LInv, IInv, TypeOK
  <2>2. DecisionOf(w)' /\ CurvesOf(w)'
    BY <2>1 DEF DecisionOf, CurvesOf, Filling
  <2> QED BY <2>2, ReadingMoves, OwnStepKeepsBook
<1>3. ASSUME NEW direction, Fitting(order(w, direction), type),
             workAt' = [workAt EXCEPT ![w] = "sequence"],
             outcome' = [outcome EXCEPT ![w] = order(w, direction)]
      PROVE  LInv'
  <2>1. workAt'[w] = "sequence" /\ outcome'[w] = order(w, direction)
    BY <1>3 DEF LInv, IInv, TypeOK
  <2>2. Fitting(order(w, direction), type)'
    BY <1>3, ReadingMoves DEF Fitting, Size, typeOf, order
  <2>3. DecisionOf(w)' /\ CurvesOf(w)'
    BY <2>1, <2>2, ReadingMoves DEF DecisionOf, CurvesOf, Filling, order, typeOf
  <2> QED BY <2>3, ReadingMoves, OwnStepKeepsBook
<1>4. CASE roleOf(type) = "ENTRY" /\ ~PositionIsOpen
  <2>1. Size % 2 = 0
    BY <1>1, <1>4, OpenWhenOdd, Parity DEF LInv
  <2>2. Fitting(order(w, directionOf(type)), type)
    BY <1>4, <2>1 DEF Fitting, order
  <2> QED BY <1>3, <1>4, <2>2
<1>5. CASE roleOf(type) # "ENTRY" /\ PositionIsOpen
  <2>1. Size % 2 = 1
    BY <1>5, OpenWhenOdd DEF LInv
  <2>2. ASSUME NEW entry \in LastEntries, directionOf(type) \in {"ANY", entry.direction}
        PROVE  Fitting(order(w, entry.direction), type)
    <3>1. entry \in fills /\ entry.seq = Size
      BY <1>1, <2>1, LastEntryIsLast DEF LInv
    <3> QED BY <1>5, <2>1, <2>2, <3>1 DEF Fitting, order
  <2> QED BY <1>2, <1>3, <1>5, <2>2
<1>6. CASE PositionIsOpen <=> roleOf(type) = "ENTRY"
  BY <1>2, <1>6
<1> QED BY <1>4, <1>5, <1>6

LEMMA SequenceStepKeepsBook ==
  ASSUME LInv, NEW w \in Workers, nextSequenceNumber(w)
  PROVE  LInv'
<1> USE DEF nextSequenceNumber, workStep, goOn
<1>1. /\ workAt[w] = "sequence" /\ outcome[w] \in Orders
      /\ Fitting(outcome[w], typeOf(work[w])) /\ Size \in Nat
  BY SizeIsNat DEF LInv, IInv, OutcomeIsOwn, DecisionStands, DecisionOf, Filling
<1>2. PICK n \in {0} \cup {f.seq : f \in fills} :
         (\A f \in fills : f.seq <= n) /\ outcome' = [outcome EXCEPT ![w].seq = n + 1]
  OBVIOUS
<1>3. n = Size
  <2>1. n \in 0..Size
    BY <1>1 DEF LInv, BookInOrder, BookAlternates, Size
  <2>2. CASE Size = 0
    BY <2>1, <2>2
  <2>3. CASE Size > 0
    <3>1. PICK f \in fills : f.seq = Size
      BY <1>1, <2>3 DEF LInv, BookInOrder
    <3> QED BY <1>1, <1>2, <2>1, <3>1
  <2> QED BY <1>1, <2>2, <2>3
<1>4. /\ outcome'[w].seq = Size + 1 /\ outcome'[w].role = outcome[w].role
      /\ outcome'[w].direction = outcome[w].direction
  BY <1>1, <1>2, <1>3 DEF LInv, IInv, TypeOK, Orders
<1>5. workAt'[w] = IF outcome[w].role = "EXIT" THEN "fills" ELSE "commit"
  BY DEF LInv, IInv, TypeOK
<1>6. DecisionOf(w)'
  BY <1>1, <1>4, ReadingMoves DEF DecisionOf, Fitting, Size, typeOf
<1>7. CurvesOf(w)'
  BY <1>4, <1>5 DEF CurvesOf
<1> QED BY <1>6, <1>7, ReadingMoves, OwnStepKeepsBook

LEMMA CurveStepKeepsBook ==
  ASSUME LInv, NEW w \in Workers, readFills(w) \/ deleteCurve(w)
  PROVE  LInv'
<1> USE DEF readFills, deleteCurve, workStep, goOn
<1>1. /\ workAt[w] \in {"fills", "delete"} /\ UNCHANGED outcome
      /\ DecisionOf(w) /\ CurvesOf(w)
  BY DEF LInv, DecisionStands, CurvesStand
<1>2. DecisionOf(w)'
  BY <1>1, ReadingMoves DEF DecisionOf, Filling, Fitting, Size, typeOf
<1>3. CASE readFills(w)
  <2>1. workAt'[w] = "delete" /\ covered'[w] = fills \cup {outcome[w]}
    BY <1>3 DEF LInv, IInv, TypeOK
  <2>2. CurvesOf(w)'
    BY <1>1, <1>3, <2>1, ReadingMoves DEF CurvesOf
  <2> QED BY <1>2, <2>2, ReadingMoves, OwnStepKeepsBook
<1>4. CASE deleteCurve(w)
  <2>1. workAt'[w] = "commit" /\ replaced'[w] = curve /\ UNCHANGED covered
    BY <1>4 DEF LInv, IInv, TypeOK
  <2>2. CurvesOf(w)'
    BY <1>1, <1>4, <2>1, ReadingMoves DEF CurvesOf
  <2> QED BY <1>2, <2>2, ReadingMoves, OwnStepKeepsBook
<1> QED BY <1>3, <1>4

(* A commit is the last step of the only transaction there is. *)
LEMMA CommitStepKeepsBook ==
  ASSUME OneWorker, LInv, NEW w \in Workers, commitRejection(w) \/ commitFill(w)
  PROVE  LInv'
<1> USE DEF commitRejection, commitFill, workStep
<1>1. IInv'
  BY CommitStep DEF LInv
<1>2. /\ idle(w) /\ workAt[w] = "commit" /\ work[w] \in Deliveries
      /\ signals[work[w]] = "PENDING" /\ ~Ordered(work[w])
  BY DEF LInv, IInv, WorkHasSignal, WorksOnPending, Working, FilledIsProcessed
<1>3. WorksOnPending' /\ DecisionStands' /\ CurvesStand'
  <2>1. \A v \in Workers : workAt'[v] = "idle" /\ DecisionOf(v)' /\ CurvesOf(v)'
    BY <1>2, IdleWorker DEF OneWorker, LInv
  <2> QED BY <2>1 DEF WorksOnPending, Working, DecisionStands, CurvesStand
<1>4. \A d \in Deliveries \ {work[w]} : signals'[d] = signals[d]
  BY DEF LInv, IInv, TypeOK
<1>5. CASE commitRejection(w)
  <2>1. UNCHANGED fills
    BY <1>5 DEF bookVars
  <2>2. BookInOrder'
    BY <2>1 DEF LInv, BookInOrder, BookAlternates, Size, Role
  <2>3. FilledIsProcessed'
    BY <1>2, <1>4, <2>1 DEF LInv, FilledIsProcessed, Ordered
  <2> QED BY <1>1, <1>3, <2>2, <2>3 DEF LInv
<1>6. CASE commitFill(w)
  <2>1. /\ Fitting(outcome[w], typeOf(work[w])) /\ outcome[w].seq = Size + 1
        /\ outcome[w] \in Fills /\ outcome[w].signal = work[w]
    BY <1>2, <1>6 DEF LInv, IInv, OutcomeIsOwn, DecisionStands, DecisionOf, Filling
  <2>2. BookInOrder'
    BY <1>6, <2>1, BookGrows DEF LInv, IInv, TypeOK
  <2>3. signals'[work[w]] = "PROCESSED"
    BY <1>2, <1>6 DEF LInv, IInv, TypeOK
  <2>4. FilledIsProcessed'
    BY <1>4, <1>6, <2>1, <2>3 DEF LInv, FilledIsProcessed, Ordered
  <2> QED BY <1>1, <1>3, <2>2, <2>4 DEF LInv
<1> QED BY <1>5, <1>6

-----------------------------------------------------------------------------
LEMMA OtherPartiesKeepBook ==
  ASSUME LInv,
         \/ \E c \in Commands : readState(c) \/ updateState(c)
         \/ \E d \in Deliveries : HookStep(d) \/ Enqueue(d) \/ Stall(d) \/ Recover(d)
  PROVE  LInv'
<1>1. IInv'
  BY CommandStep, HookStepKeeps, QueueStep DEF LInv
<1>2. UNCHANGED <<fills, curve, workAt, work, outcome, covered, replaced, alert, eventType>>
  BY DEF readState, updateState, HookStep, receive, findSignal, insertSignal, hookStep,
         Enqueue, Stall, Recover, TakeBack, hookVars, bookVars, workVars
<1>3. \A d \in Deliveries : signals[d] # "absent" => signals'[d] = signals[d]
  <2>1. CASE UNCHANGED signals
    BY <2>1
  <2>2. ASSUME NEW d \in Deliveries, insertSignal(d)
        PROVE  \A e \in Deliveries : signals[e] # "absent" => signals'[e] = signals[e]
    <3>1. signals[d] = "absent"
      BY <2>2 DEF insertSignal, hookStep, LInv, IInv, RowComesFirst
    <3> QED BY <2>2, <3>1 DEF insertSignal, LInv, IInv, TypeOK
  <2> QED BY <2>1, <2>2
          DEF readState, updateState, HookStep, receive, findSignal, Enqueue, Stall, Recover,
              TakeBack, hookVars
<1> QED BY <1>1, <1>2, <1>3, OthersKeepBook

LEMMA LInvNext ==
  ASSUME OneWorker
  PROVE  LInv /\ [Next]_vars => LInv'
<1> SUFFICES ASSUME LInv, [Next]_vars PROVE LInv'
  OBVIOUS
<1>1. ASSUME NEW w \in Workers, WorkStep(w) PROVE LInv'
  BY <1>1, TakeStepKeepsBook, DeploymentStepKeepsBook, PositionStepKeepsBook,
     SequenceStepKeepsBook, CurveStepKeepsBook, CommitStepKeepsBook, LostStepKeepsBook
     DEF WorkStep
<1>2. ASSUME NEW w \in Workers, Throw(w) \/ Die(w) PROVE LInv'
  BY <1>2, LostStepKeepsBook
<1>3. CASE UNCHANGED vars
  <2>1. UNCHANGED <<fills, curve, workAt, work, outcome, covered, replaced, alert, eventType>>
        /\ UNCHANGED signals
    BY <1>3 DEF vars, hookVars, bookVars, workVars
  <2>2. IInv'
    BY <1>3
       DEF LInv, vars, deploymentVars, hookVars, jobVars, bookVars, workVars, IInv, TypeOK,
           AttemptLeft, RowComesFirst, WorkHasSignal, OutcomeIsOwn, OneOrderPerSignal,
           ProcessedHasFill, Ordered
  <2> QED BY <2>1, <2>2, OthersKeepBook
<1> QED BY <1>1, <1>2, <1>3, OtherPartiesKeepBook DEF Next

(* The strengthening that makes the properties of one worker inductive.    *)
THEOREM LedgerInvariance ==
  ASSUME OneWorker
  PROVE  Spec => []LInv
<1>1. Init => LInv
  BY Init_LInv
<1>2. LInv /\ [Next]_vars => LInv'
  BY LInvNext
<1> QED BY <1>1, <1>2, PTL DEF Spec

(* With one worker the book is entry, exit, entry, ..., each exit closing  *)
(* the position that was open, whatever fails or is redelivered.           *)
THEOREM BookIsInOrder ==
  ASSUME OneWorker
  PROVE  Spec => []BookAlternates
<1>1. LInv => BookAlternates
  BY DEF LInv, BookInOrder
<1> QED BY <1>1, LedgerInvariance, PTL

(* With one worker a rejected signal has no fill.                          *)
THEOREM RejectedSignalsAreNotFilled ==
  ASSUME OneWorker
  PROVE  Spec => []RejectedHasNoFill
<1>1. LInv => RejectedHasNoFill
  BY DEF LInv, FilledIsProcessed, RejectedHasNoFill
<1> QED BY <1>1, LedgerInvariance, PTL

(* With one worker at most one position is open: what the tests of the      *)
(* worker say of a single job holds of any sequence of them.                *)
THEOREM OnePositionIsOpen ==
  ASSUME OneWorker
  PROVE  Spec => []DepthAtMostOne
<1>1. LInv => DepthAtMostOne
  BY SizeIsNat, Parity DEF LInv, BookInOrder, DepthAtMostOne
<1> QED BY <1>1, LedgerInvariance, PTL

(* A verdict is never changed. *)
VerdictStands ==
    \A d \in Deliveries : signals[d] \in {"PROCESSED", "REJECTED"} => signals'[d] = signals[d]

LEMMA StepKeepsVerdicts ==
  ASSUME LInv, Next
  PROVE  VerdictStands
<1> USE DEF VerdictStands, LInv, IInv, TypeOK
<1>1. ASSUME NEW d \in Deliveries, insertSignal(d) PROVE VerdictStands
  BY <1>1 DEF insertSignal, hookStep, RowComesFirst
<1>2. ASSUME NEW w \in Workers, commitRejection(w) \/ commitFill(w) PROVE VerdictStands
  <2>1. signals[work[w]] = "PENDING"
    BY <1>2 DEF WorksOnPending, Working, commitRejection, commitFill, workStep
  <2> QED BY <1>2, <2>1 DEF commitRejection, commitFill
<1>3. CASE UNCHANGED signals
  BY <1>3
<1>4. \/ UNCHANGED signals
      \/ \E d \in Deliveries : insertSignal(d)
      \/ \E w \in Workers : commitRejection(w) \/ commitFill(w)
  BY DEF Next, readState, updateState, HookStep, receive, findSignal, Enqueue, Stall, Recover, TakeBack,
         WorkStep, takeSignal, getDeployment, findOpenPosition, nextSequenceNumber, readFills,
         deleteCurve, violateUnique, Throw, Die
<1> QED BY <1>1, <1>2, <1>3, <1>4

(* With one worker a settled signal keeps its verdict, whatever of its job  *)
(* is delivered again: the worker looks at the status before its            *)
(* transaction, and with one worker nobody comes in between.                *)
THEOREM VerdictsStand ==
  ASSUME OneWorker
  PROVE  Spec => ProcessedStays /\ [][VerdictStands]_vars
<1>1. LInv /\ [Next]_vars => [VerdictStands]_vars
  BY StepKeepsVerdicts
<1>2. VerdictStands => \A d \in Deliveries : signals[d] = "PROCESSED" => signals'[d] = "PROCESSED"
  BY DEF VerdictStands
<1> QED BY <1>1, <1>2, LedgerInvariance, PTL DEF Spec, ProcessedStays

-----------------------------------------------------------------------------
(* Steps in turn.  Two deliveries of one alert do not overlap between the    *)
(* lookup and the insert of the webhook.                                    *)
AlertsInTurn ==
    \A d, e \in Deliveries :
        alert[d] = alert[e] /\ hookAt[d] = "insert" /\ hookAt[e] = "insert" => d = e

Present(d) == d \in Deliveries /\ signals[d] # "absent"

(* An alert that a delivery is about to insert is new; what workers handle   *)
(* and what is filled has its row.                                          *)
AlertsAreNew ==
    /\ OneRowPerAlert
    /\ \A d \in Deliveries : hookAt[d] = "insert" => ~Recorded(alert[d])
    /\ \A w \in Workers : workAt[w] # "idle" => Present(work[w])
    /\ \A f \in fills : Present(f.signal)

(* An alert is turned into one order at most. *)
OneOrderPerAlert == \A f, g \in fills : alert[f.signal] = alert[g.signal] => f = g

LEMMA InsertKeepsNew ==
  ASSUME IInv, AlertsAreNew, AlertsInTurn, NEW d \in Deliveries, insertSignal(d)
  PROVE  AlertsAreNew'
<1>1. /\ UNCHANGED <<alert, fills, workAt, work>>
      /\ hookAt[d] = "insert" /\ ~Recorded(alert[d])
  BY DEF insertSignal, hookStep, hookVars, bookVars, workVars, AlertsAreNew
<1>2. /\ hookAt'[d] = "done" /\ signals'[d] # "absent"
      /\ \A e \in Deliveries \ {d} : hookAt'[e] = hookAt[e] /\ signals'[e] = signals[e]
  BY DEF insertSignal, hookStep, IInv, TypeOK
<1>3. OneRowPerAlert'
  BY <1>1, <1>2 DEF AlertsAreNew, OneRowPerAlert, Recorded
<1>4. \A e \in Deliveries : hookAt'[e] = "insert" => ~Recorded(alert[e])'
  BY <1>1, <1>2 DEF AlertsAreNew, AlertsInTurn, Recorded
<1>5. \A e : Present(e) => Present(e)'
  BY <1>2 DEF Present
<1> QED BY <1>1, <1>3, <1>4, <1>5 DEF AlertsAreNew

LEMMA CommitKeepsNew ==
  ASSUME IInv, AlertsAreNew, NEW w \in Workers, commitRejection(w) \/ commitFill(w)
  PROVE  AlertsAreNew'
<1>1. /\ UNCHANGED <<alert, hookAt>> /\ Present(work[w])
      /\ signals' = [signals EXCEPT ![work[w]] = "REJECTED"] \/ signals' = [signals EXCEPT ![work[w]] = "PROCESSED"]
  BY DEF commitRejection, commitFill, workStep, hookVars, AlertsAreNew
<1>2. \A d \in Deliveries : signals'[d] = "absent" <=> signals[d] = "absent"
  BY <1>1 DEF Present, IInv, TypeOK
<1>3. \A d : Present(d)' <=> Present(d)
  BY <1>2 DEF Present
<1>4. OneRowPerAlert' /\ \A d \in Deliveries : hookAt'[d] = "insert" => ~Recorded(alert[d])'
  BY <1>1, <1>2 DEF AlertsAreNew, OneRowPerAlert, Recorded
<1>5. \A v \in Workers : workAt'[v] # "idle" => workAt[v] # "idle" /\ work'[v] = work[v]
  BY DEF commitRejection, commitFill, idle, IInv, TypeOK
<1>6. \A f \in fills' : f \in fills \/ f.signal = work[w]
  BY DEF commitRejection, commitFill, workStep, bookVars, IInv, OutcomeIsOwn
<1> QED BY <1>1, <1>3, <1>4, <1>5, <1>6 DEF AlertsAreNew

(* Every other step: nothing is recorded or filled. *)
LEMMA ReadersKeepNew ==
  ASSUME IInv, AlertsAreNew, UNCHANGED <<alert, signals, fills>>,
         \A d \in Deliveries : hookAt'[d] = "insert" => hookAt[d] = "insert" \/ ~Recorded(alert[d]),
         \A w \in Workers : workAt'[w] # "idle" =>
             \/ workAt[w] # "idle" /\ work'[w] = work[w]
             \/ Present(work'[w])
  PROVE  AlertsAreNew'
BY DEF AlertsAreNew, OneRowPerAlert, Recorded, Present

LEMMA OthersKeepNew ==
  ASSUME IInv, AlertsAreNew, [Next]_vars,
         ~\E d \in Deliveries : insertSignal(d),
         ~\E w \in Workers : commitRejection(w) \/ commitFill(w)
  PROVE  AlertsAreNew'
<1> USE DEF IInv, TypeOK
<1>1. CASE UNCHANGED <<hookVars, signals, bookVars, workVars>>
  BY <1>1, ReadersKeepNew DEF hookVars, bookVars, workVars
<1>2. ASSUME NEW d \in Deliveries, receive(d) \/ findSignal(d) PROVE AlertsAreNew'
  <2>1. UNCHANGED <<alert, signals, fills, workAt, work>>
    BY <1>2 DEF receive, findSignal, hookStep, bookVars, workVars
  <2>2. \A e \in Deliveries : hookAt'[e] = "insert" => hookAt[e] = "insert" \/ ~Recorded(alert[e])
    BY <1>2 DEF receive, findSignal, hookStep
  <2> QED BY <2>1, <2>2, ReadersKeepNew
<1>3. ASSUME NEW w \in Workers, UNCHANGED <<hookVars, signals, bookVars>>,
             \/ idle(w)
             \/ UNCHANGED work /\ (\E step : goOn(w, step)) /\ workAt[w] # "idle"
      PROVE  AlertsAreNew'
  <2>1. \A v \in Workers : workAt'[v] # "idle" => workAt[v] # "idle" /\ work'[v] = work[v]
    BY <1>3 DEF idle, goOn
  <2> QED BY <1>3, <2>1, ReadersKeepNew DEF hookVars, bookVars
<1>4. ASSUME NEW w \in Workers, NEW d \in Deliveries, takeSignal(w, d) PROVE AlertsAreNew'
  <2>1. \A v \in Workers : workAt'[v] # "idle" =>
             \/ workAt[v] # "idle" /\ work'[v] = work[v]
             \/ Present(work'[v])
    BY <1>4 DEF takeSignal, workStep, goOn, Present
  <2> QED BY <1>4, <2>1, ReadersKeepNew DEF takeSignal, workStep, hookVars, bookVars
<1>5. ASSUME NEW c \in Commands, readState(c) \/ updateState(c) PROVE AlertsAreNew'
  BY <1>1, <1>5 DEF readState, updateState
<1>6. ASSUME NEW d \in Deliveries, Enqueue(d) \/ Stall(d) \/ Recover(d) PROVE AlertsAreNew'
  BY <1>1, <1>6 DEF Enqueue, Stall, Recover, TakeBack
<1>7. ASSUME NEW w \in Workers, Throw(w) \/ Die(w) \/ violateUnique(w) PROVE AlertsAreNew'
  BY <1>3, <1>7 DEF Throw, Die, violateUnique, workStep
<1>8. ASSUME NEW w \in Workers,
             getDeployment(w) \/ findOpenPosition(w) \/ nextSequenceNumber(w) \/ readFills(w) \/ deleteCurve(w)
      PROVE  AlertsAreNew'
  <2>1. UNCHANGED <<hookVars, signals, bookVars, work>> /\ workAt[w] # "idle"
    BY <1>8 DEF getDeployment, findOpenPosition, nextSequenceNumber, readFills, deleteCurve, workStep
  <2>2. \E step : goOn(w, step)
    BY <1>8 DEF getDeployment, findOpenPosition, nextSequenceNumber, readFills, deleteCurve
  <2> QED BY <1>3, <2>1, <2>2
<1>9. CASE UNCHANGED vars
  BY <1>1, <1>9 DEF vars
<1> QED BY <1>2, <1>4, <1>5, <1>6, <1>7, <1>8, <1>9 DEF Next, HookStep, WorkStep

(* While the deliveries of one alert take turns between the webhook's lookup *)
(* and its insert, an alert has one row and one order at most, however often *)
(* it is delivered and its job is executed in however many workers.         *)
THEOREM AlertsInTurnAreRecordedOnce ==
  Spec /\ []AlertsInTurn => [](OneRowPerAlert /\ OneOrderPerAlert)
<1>1. Init => AlertsAreNew
  BY DEF Init, AlertsAreNew, OneRowPerAlert
<1>2. IInv /\ AlertsAreNew /\ AlertsInTurn /\ [Next]_vars => AlertsAreNew'
  BY InsertKeepsNew, CommitKeepsNew, OthersKeepNew
<1>3. IInv /\ AlertsAreNew => OneRowPerAlert /\ OneOrderPerAlert
  BY DEF IInv, AlertsAreNew, Present, OneRowPerAlert, OneOrderPerAlert, OneOrderPerSignal
<1> QED BY <1>1, <1>2, <1>3, Invariance, PTL DEF Spec

-----------------------------------------------------------------------------
(* One command at a time between its check and its update. *)
CommandsInTurn ==
    \A b, c \in Commands : commandAt[b] = "update" /\ commandAt[c] = "update" => b = c

(* A command that will update has read the state that the deployment is in. *)
CommandsAreChecked == \A c \in Commands : commandAt[c] = "update" => state \in from(command[c])

(* A deployment is paused while ACTIVE, resumed while PAUSED, and COMPLETED  *)
(* for good.                                                                *)
LifecycleStep ==
    /\ state' = "PAUSED" => state \in {"ACTIVE", "PAUSED"}
    /\ state' = "ACTIVE" => state \in {"ACTIVE", "PAUSED"}
    /\ state = "COMPLETED" => state' = "COMPLETED"

LEMMA CommandsKeepState ==
  ASSUME IInv, CommandsAreChecked, CommandsInTurn, [Next]_vars
  PROVE  CommandsAreChecked' /\ LifecycleStep
<1> USE DEF IInv, TypeOK
<1>1. CASE UNCHANGED deploymentVars
  BY <1>1 DEF deploymentVars, CommandsAreChecked, LifecycleStep, from
<1>2. ASSUME NEW c \in Commands, readState(c) PROVE CommandsAreChecked' /\ LifecycleStep
  BY <1>2 DEF readState, CommandsAreChecked, LifecycleStep, from
<1>3. ASSUME NEW c \in Commands, updateState(c) PROVE CommandsAreChecked' /\ LifecycleStep
  <2>1. state \in from(command[c]) /\ command' = command /\ state' = to(command[c])
    BY <1>3 DEF updateState, CommandsAreChecked
  <2>2. \A b \in Commands : commandAt'[b] # "update"
    BY <1>3 DEF updateState, CommandsInTurn
  <2>3. command[c] \in {"pause", "resume", "complete"}
    OBVIOUS
  <2>4. LifecycleStep
    BY <2>1, <2>3 DEF LifecycleStep, from, to
  <2> QED BY <2>2, <2>4 DEF CommandsAreChecked
<1>4. (\E c \in Commands : readState(c) \/ updateState(c)) \/ UNCHANGED deploymentVars
  BY DEF Next, HookStep, receive, findSignal, insertSignal, hookStep, Enqueue, Stall, Recover, TakeBack,
         WorkStep, takeSignal, getDeployment, findOpenPosition, nextSequenceNumber, readFills, deleteCurve,
         commitRejection, commitFill, violateUnique, workStep, Throw, Die, vars
<1> QED BY <1>1, <1>2, <1>3, <1>4

(* Without a second command between a command's check and its update, only   *)
(* an ACTIVE deployment is paused and a COMPLETED one is never revived.     *)
THEOREM CommandsInTurnFollowLifecycle ==
  Spec /\ []CommandsInTurn => PauseNeedsActive /\ [][LifecycleStep]_vars
<1>1. Init => CommandsAreChecked
  BY DEF Init, CommandsAreChecked
<1>2. IInv /\ CommandsAreChecked /\ CommandsInTurn /\ [Next]_vars
        => CommandsAreChecked' /\ [LifecycleStep]_vars
  BY CommandsKeepState
<1>3. LifecycleStep => (state' = "PAUSED" => state \in {"ACTIVE", "PAUSED"})
  BY DEF LifecycleStep
<1> QED BY <1>1, <1>2, <1>3, Invariance, PTL DEF Spec, PauseNeedsActive

-----------------------------------------------------------------------------
(* The refinement: signals are recorded, refused, entered and exited. *)

(* The instance's own copy of Cardinality. *)
LEMMA LedgerCardinality ==
  ASSUME NEW S PROVE Ledger!Cardinality(S) = Cardinality(S)
BY DEF Ledger!Cardinality, Cardinality

LEMMA LedgerInit == Init => Ledger!Init
BY DEF Init, Ledger!Init, Ledger!Kinds, roleOf, directionOf, typeOf

LEMMA LedgerStutter ==
  ASSUME UNCHANGED <<alert, eventType, signals, fills, curve>>
  PROVE  UNCHANGED Ledger!ledgerVars
BY DEF Ledger!ledgerVars, typeOf

LEMMA InsertIsRecord ==
  ASSUME LInv, NEW d \in Deliveries, insertSignal(d)
  PROVE  Ledger!Next
<1>1. signals[d] = "absent"
  BY DEF insertSignal, hookStep, LInv, IInv, RowComesFirst
<1>2. PICK verdict \in {"PENDING", "REJECTED"} : signals' = [signals EXCEPT ![d] = verdict]
  BY DEF insertSignal
<1>3. UNCHANGED <<alert, eventType, fills, curve>>
  BY DEF insertSignal, hookStep, bookVars
<1>4. Ledger!Record(d, verdict)
  BY <1>1, <1>2, <1>3 DEF Ledger!Record, typeOf
<1> QED BY <1>4 DEF Ledger!Next

LEMMA RejectionIsRefuse ==
  ASSUME LInv, NEW w \in Workers, commitRejection(w)
  PROVE  Ledger!Next
<1>1. work[w] \in Deliveries /\ signals[work[w]] = "PENDING"
  BY DEF commitRejection, workStep, LInv, IInv, WorkHasSignal, WorksOnPending, Working
<1>2. /\ signals' = [signals EXCEPT ![work[w]] = "REJECTED"]
      /\ UNCHANGED <<alert, eventType, fills, curve>>
  BY DEF commitRejection, workStep, hookVars, bookVars
<1>3. Ledger!Refuse(work[w])
  BY <1>1, <1>2 DEF Ledger!Refuse, typeOf
<1> QED BY <1>1, <1>3 DEF Ledger!Next

(* The last fill of the book, which PaperLedger chooses by its number.     *)
LEMMA LastIsChosen ==
  ASSUME LInv, NEW f \in fills, f.seq = Size
  PROVE  Ledger!Last = f
<1>1. \A g \in fills : g.seq = Cardinality(fills) <=> g = f
  BY DEF LInv, BookInOrder, BookAlternates, Size
<1>2. \E g \in fills : g.seq = Ledger!Cardinality(fills)
  BY <1>1, LedgerCardinality
<1>3. Ledger!Last \in fills /\ Ledger!Last.seq = Ledger!Cardinality(fills)
  BY <1>2 DEF Ledger!Last
<1> QED BY <1>1, <1>3, LedgerCardinality

LEMMA FillIsEntryOrExit ==
  ASSUME LInv, NEW w \in Workers, commitFill(w)
  PROVE  Ledger!Next
<1> DEFINE d == work[w]
           o == outcome[w]
           kind == [e \in Deliveries |-> [role |-> roleOf(typeOf(e)),
                                          direction |-> directionOf(typeOf(e))]]
<1>1. /\ d \in Deliveries /\ signals[d] = "PENDING" /\ workAt[w] = "commit"
      /\ o # Rejection /\ Filling(w)
  BY DEF commitFill, workStep, LInv, IInv, WorkHasSignal, WorksOnPending, Working, Filling
<1>2. /\ Fitting(o, typeOf(d)) /\ o.seq = Size + 1 /\ o \in Orders /\ o.signal = d
  BY <1>1 DEF LInv, IInv, OutcomeIsOwn, DecisionStands, DecisionOf, Fills
<1>3. o = [signal |-> d, role |-> roleOf(typeOf(d)), direction |-> o.direction,
           seq |-> Cardinality(fills) + 1]
  BY <1>2 DEF Orders, Fitting, Size
<1>4. /\ signals' = [signals EXCEPT ![d] = "PROCESSED"] /\ fills' = fills \cup {o}
      /\ UNCHANGED <<alert, eventType>>
  BY DEF commitFill, workStep, hookVars
<1>5. kind[d] = [role |-> roleOf(typeOf(d)), direction |-> directionOf(typeOf(d))]
      /\ UNCHANGED kind
  BY <1>1, <1>4 DEF typeOf
<1>6. Ledger!Fill(d, o.direction)
  BY <1>1, <1>3, <1>4, <1>5, LedgerCardinality DEF Ledger!Fill
<1>7. CASE o.role = "ENTRY"
  <2>1. roleOf(typeOf(d)) = "ENTRY" /\ Size % 2 = 0 /\ o.direction = directionOf(typeOf(d))
    BY <1>2, <1>7 DEF Fitting
  <2>2. UNCHANGED curve
    BY <1>7 DEF commitFill
  <2>3. Ledger!Enter(d)
    BY <1>5, <1>6, <2>1, <2>2, LedgerCardinality DEF Ledger!Enter, Ledger!Flat, Size
  <2> QED BY <1>1, <2>3 DEF Ledger!Next
<1>8. CASE o.role = "EXIT"
  <2>1. PICK last \in fills : last.seq = Size /\ last.direction = o.direction
    BY <1>2, <1>8 DEF Fitting
  <2>2. /\ roleOf(typeOf(d)) = "EXIT" /\ Size % 2 = 1
        /\ directionOf(typeOf(d)) \in {"ANY", o.direction}
    BY <1>2, <1>8 DEF Fitting
  <2>3. Ledger!Last = last
    BY <2>1, LastIsChosen
  <2>4. covered[w] = fills \cup {o} /\ replaced[w] = curve
    BY <1>1, <1>8 DEF LInv, CurvesStand, CurvesOf
  <2>5. curve' = {fills'}
    BY <1>4, <1>8, <2>4 DEF commitFill
  <2>6. Ledger!Exit(d)
    BY <1>5, <1>6, <2>1, <2>2, <2>3, <2>5, LedgerCardinality
       DEF Ledger!Exit, Ledger!Flat, Size
  <2> QED BY <1>1, <2>6 DEF Ledger!Next
<1> QED BY <1>2, <1>7, <1>8 DEF Orders

LEMMA LedgerStep == LInv /\ [Next]_vars => [Ledger!Next]_(Ledger!ledgerVars)
<1> SUFFICES ASSUME LInv, [Next]_vars PROVE Ledger!Next \/ UNCHANGED Ledger!ledgerVars
  OBVIOUS
<1>1. CASE UNCHANGED <<alert, eventType, signals, fills, curve>>
  BY <1>1, LedgerStutter
<1>2. CASE \E d \in Deliveries : insertSignal(d)
  BY <1>2, InsertIsRecord
<1>3. CASE \E w \in Workers : commitRejection(w) \/ commitFill(w)
  BY <1>3, RejectionIsRefuse, FillIsEntryOrExit
<1>4. \A c \in Commands : readState(c) \/ updateState(c)
         => UNCHANGED <<alert, eventType, signals, fills, curve>>
  BY DEF readState, updateState, hookVars, bookVars
<1>5. \A d \in Deliveries :
         receive(d) \/ findSignal(d) \/ Enqueue(d) \/ Stall(d) \/ Recover(d)
         => UNCHANGED <<alert, eventType, signals, fills, curve>>
  BY DEF receive, findSignal, hookStep, Enqueue, Stall, Recover, TakeBack, hookVars, bookVars
<1>6. \A w \in Workers :
         Throw(w) \/ Die(w) \/ violateUnique(w)
         => UNCHANGED <<alert, eventType, signals, fills, curve>>
  BY DEF Throw, Die, violateUnique, workStep, hookVars, bookVars
<1>7. \A w \in Workers :
         (\E d \in Deliveries : takeSignal(w, d)) \/ getDeployment(w) \/ findOpenPosition(w)
         \/ nextSequenceNumber(w) \/ readFills(w) \/ deleteCurve(w)
         => UNCHANGED <<alert, eventType, signals, fills, curve>>
  BY DEF takeSignal, getDeployment, findOpenPosition, nextSequenceNumber, readFills,
         deleteCurve, workStep, hookVars, bookVars
<1>8. CASE UNCHANGED vars
  BY <1>1, <1>8 DEF vars, hookVars, bookVars
<1> QED BY <1>1, <1>2, <1>3, <1>4, <1>5, <1>6, <1>7, <1>8 DEF Next, HookStep, WorkStep

(* With one worker the forward test implements PaperLedger: every signal   *)
(* is as if handled in one piece, and stored curves cover the whole book.  *)
THEOREM LedgerRefinement ==
  ASSUME OneWorker
  PROVE  Spec => KeepsLedger
<1>1. Init => Ledger!Init
  BY LedgerInit
<1>2. LInv /\ [Next]_vars => [Ledger!Next]_(Ledger!ledgerVars)
  BY LedgerStep
<1> QED BY <1>1, <1>2, LedgerInvariance, PTL DEF Spec, KeepsLedger, Ledger!Spec
=============================================================================
