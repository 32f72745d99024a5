------------------------ MODULE IngestionChain_proofs ------------------------
(***************************************************************************)
(* Proofs about IngestionChain for any files, contents, workers, attempts  *)
(* and faults.                                                             *)
(*                                                                         *)
(* The argument: a transaction inserts the rows it made, so a table that   *)
(* has rows keeps some; a job's event is emitted by the transaction that   *)
(* fills the table its handler reads; so whatever executions overlap or    *)
(* repeat, a handler finds rows where it looks for them.                   *)
(*                                                                         *)
(* Convergence needs more.  With one process a queue has one executor, so  *)
(* what a transaction is about to replace is all that the table holds; an  *)
(* execution that lost its lock is followed by another of the same job;    *)
(* and whenever a table does not match the one before it, something that   *)
(* will renew it waits or is at work on what the tables hold now.          *)
(*                                                                         *)
(* Two claims of the documents that the code breaks hold under conditions   *)
(* that the last sections state: with one process no verdict is duplicated, *)
(* and while no bytes are overwritten what is parsed is what is recorded.   *)
(***************************************************************************)
EXTENDS IngestionChain, FiniteSetTheorems, TLAPS

JobRecord == [queue : Queues, file : Files \cup {Nothing}, run : BOOLEAN, attempts : Nat, stalls : Nat]

(* What the event that led to a job of a queue was emitted with. *)
Sourced(queue) ==
    /\ queue = "equity-reconstruction" => ledger # {}
    /\ queue = "metric-calculation" => ledger # {} /\ equity # {}
    /\ queue = "parity-calculation" => equity # {}
    /\ queue = "local-runner-execution" => definition # "none"

JobOK(j) == j \in JobRecord /\ Sourced(j.queue)
WaitingOK == \A j \in BagToSet(waiting) : JobOK(j)

StageOK(x) ==
    /\ at[x] \in {"start", "simulate", "fail"} => x[2] = "local-runner-execution"
    /\ at[x] \in {"curve", "reported"} => x[2] = "parity-calculation"
    /\ at[x] = "mark" => x[2] = "metric-calculation" /\ metrics # {}

(* What an executor has read when it comes to insert its rows.              *)
MadeOK(x) ==
    /\ x[2] \in {"equity-reconstruction", "metric-calculation"} => made[x].of # {}
    /\ x[2] = "parity-calculation" =>
          /\ made[x] = rows(x, [metrics |-> made[x].of.metrics, curve |-> made[x].of.curve,
                                reported |-> made[x].of.reported])
          /\ made[x].of.metrics # {}
          /\ at[x] # "curve" => made[x].of.curve # {}

ExecutorOK(x) ==
    at[x] # "idle" =>
        /\ job[x] \in JobRecord /\ job[x].queue = x[2]
        /\ Sourced(x[2])
        /\ StageOK(x)
        /\ MadeOK(x)

Shapes ==
    /\ at = [x \in Executors |-> at[x]]
    /\ job = [x \in Executors |-> job[x]]
    /\ made = [x \in Executors |-> made[x]]
    /\ owned = [x \in Executors |-> owned[x]]

OwnersWork == \A x \in Executors : owned[x] => at[x] # "idle"

IInv ==
    /\ Shapes
    /\ OwnersWork
    /\ WaitingOK
    /\ \A x \in Executors : ExecutorOK(x)
    /\ EvidenceHasSources

-----------------------------------------------------------------------------
(* A step that keeps a table of rows filled, and what relies on it. *)
Filled ==
    /\ ledger # {} => ledger' # {}
    /\ equity # {} => equity' # {}
    /\ metrics # {} => metrics' # {}
    /\ definition' = definition

LEMMA SourcesKept == ASSUME Filled, NEW queue, Sourced(queue) PROVE Sourced(queue)'
  BY DEF Filled, Sourced

LEMMA JobKept == ASSUME Filled, NEW j, JobOK(j) PROVE JobOK(j)'
  BY SourcesKept DEF JobOK

LEMMA WaitingKept == ASSUME WaitingOK, Filled, UNCHANGED waiting PROVE WaitingOK'
  BY JobKept DEF WaitingOK

LEMMA EmitKeeps ==
    ASSUME WaitingOK, Filled, NEW j, JobOK(j)', waiting' = emitted(j)
    PROVE  WaitingOK'
<1>1. BagToSet(waiting') = BagToSet(waiting) \cup {j}
  BY DEF BagToSet, emitted, SetToBag, (+)
<1> QED
  BY <1>1, JobKept DEF WaitingOK

LEMMA TakeKeeps ==
    ASSUME WaitingOK, Filled, NEW j, waiting' = waiting (-) SetToBag({j})
    PROVE  WaitingOK'
<1>1. BagToSet(waiting') \subseteq BagToSet(waiting)
  BY DEF BagToSet, SetToBag, (-)
<1> QED
  BY <1>1, JobKept DEF WaitingOK

LEMMA ExecutorKept ==
    ASSUME Filled, NEW x \in Executors, ExecutorOK(x),
           at'[x] = at[x], job'[x] = job[x], made'[x] = made[x]
    PROVE  ExecutorOK(x)'
  BY SourcesKept DEF ExecutorOK, StageOK, MadeOK, rows, Filled

(* The other executors are not concerned with a step of one of them. *)
LEMMA OthersKept ==
    ASSUME IInv, Filled, NEW x \in Executors, NEW stage, NEW j, NEW m,
           at' = [at EXCEPT ![x] = stage], job' = [job EXCEPT ![x] = j],
           made' = [made EXCEPT ![x] = m],
           \/ stage # "idle" /\ (UNCHANGED owned \/ owned' = [owned EXCEPT ![x] = TRUE])
           \/ owned' = [owned EXCEPT ![x] = FALSE],
           WaitingOK', EvidenceHasSources',
           stage # "idle" => ExecutorOK(x)'
    PROVE  IInv'
<1>1. /\ Shapes' /\ at'[x] = stage
      /\ \A y \in Executors \ {x} : at'[y] = at[y] /\ job'[y] = job[y] /\ made'[y] = made[y]
  BY DEF IInv, Shapes
<1>2. ASSUME NEW y \in Executors PROVE ExecutorOK(y)'
  <2>1. CASE y # x
    BY <1>1, <2>1, ExecutorKept DEF IInv
  <2>2. CASE y = x
    BY <1>1, <2>2 DEF ExecutorOK
  <2> QED
    BY <2>1, <2>2
<1>3. OwnersWork'
  BY <1>1 DEF IInv, Shapes, OwnersWork
<1> QED
  BY <1>1, <1>2, <1>3 DEF IInv

(* The end of an execution. *)
LEMMA SettleKeeps ==
    ASSUME IInv, Filled, NEW x \in Executors, settle(x),
           WaitingOK', EvidenceHasSources'
    PROVE  IInv'
  BY OthersKept DEF settle

(* A step in the middle of an execution. *)
LEMMA ProceedKeeps ==
    ASSUME IInv, Filled, NEW x \in Executors, NEW stage, stage # "idle", NEW m,
           at' = [at EXCEPT ![x] = stage], made' = [made EXCEPT ![x] = m],
           UNCHANGED <<job, owned>>,
           WaitingOK', EvidenceHasSources', ExecutorOK(x)'
    PROVE  IInv'
<1>1. job' = [job EXCEPT ![x] = job[x]]
  BY DEF IInv, Shapes
<1> QED
  BY <1>1, OthersKept

(* A step that writes neither a table nor the run. *)
LEMMA Unwritten ==
    ASSUME IInv, UNCHANGED <<runVars, tableVars>>
    PROVE  Filled /\ EvidenceHasSources'
  BY DEF IInv, Filled, runVars, tableVars, EvidenceHasSources

LEMMA EvidenceUnchanged ==
    ASSUME IInv, UNCHANGED <<equity, metrics, parity, status, definition>>
    PROVE  EvidenceHasSources'
  BY DEF IInv, EvidenceHasSources

(* An attempt that is given back or given up names the same queue. *)
LEMMA AttemptKeeps ==
    ASSUME WaitingOK, Filled, NEW j, JobOK(j), retried(j) \/ takenBack(j)
    PROVE  WaitingOK'
<1>1. CASE retried(j)
  <2>1. JobOK([j EXCEPT !.attempts = @ + 1])
    BY DEF JobOK, JobRecord
  <2> QED
    BY <1>1, <2>1, JobKept, EmitKeeps, WaitingKept DEF retried
<1>2. CASE takenBack(j)
  <2>1. JobOK([j EXCEPT !.stalls = @ + 1])
    BY DEF JobOK, JobRecord
  <2> QED
    BY <1>2, <2>1, JobKept, EmitKeeps, WaitingKept DEF takenBack
<1> QED
  BY <1>1, <1>2

LEMMA NewJob ==
    ASSUME NEW queue \in Queues, NEW f \in Files \cup {Nothing}, NEW run \in BOOLEAN
    PROVE  Job(queue, f, run) \in JobRecord /\ Job(queue, f, run).queue = queue
  BY DEF Job, JobRecord

LEMMA InvInit == Init => IInv
<1> SUFFICES ASSUME Init PROVE IInv
  OBVIOUS
<1>1. /\ Shapes /\ OwnersWork /\ (\A x \in Executors : ExecutorOK(x))
      /\ EvidenceHasSources
  BY DEF Init, Shapes, OwnersWork, ExecutorOK, EvidenceHasSources
<1>2. WaitingOK
  <2>1. CASE definition = "none"
    BY <2>1 DEF Init, WaitingOK, BagToSet, EmptyBag, SetToBag
  <2>2. CASE definition # "none"
    <3> DEFINE j == Job("local-runner-execution", Nothing, TRUE)
    <3>1. j \in JobRecord /\ j.queue = "local-runner-execution"
      BY NewJob DEF Queues
    <3>2. BagToSet(waiting) = {j}
      BY <2>2 DEF Init, BagToSet, SetToBag
    <3> HIDE DEF j
    <3> QED
      BY <2>2, <3>1, <3>2 DEF WaitingOK, JobOK, Sourced
  <2> QED
    BY <2>1, <2>2
<1> QED
  BY <1>1, <1>2 DEF IInv

-----------------------------------------------------------------------------
(* Uploads. *)
LEMMA UploadSteps ==
    ASSUME IInv, NEW f \in Files,
           \/ \E c \in Contents : putReport(f, c)
           \/ fetchForChecksum(f)
           \/ \E run \in Attachments : completeReportUpload(f, run)
    PROVE  IInv'
<1>1. UNCHANGED <<runVars, tableVars, execVars>>
  BY DEF putReport, fetchForChecksum, completeReportUpload
<1>2. Filled /\ EvidenceHasSources'
  BY <1>1, Unwritten
<1>3. WaitingOK'
  <2>1. CASE UNCHANGED waiting
    BY <1>2, <2>1, WaitingKept DEF IInv
  <2>2. ASSUME NEW run \in Attachments, waiting' = emitted(Job("report-parse", f, run))
        PROVE  WaitingOK'
    <3> DEFINE j == Job("report-parse", f, run)
    <3>1. j \in JobRecord /\ j.queue = "report-parse"
      BY NewJob, BoundsAssumption DEF Queues
    <3>2. JobOK(j)'
      BY <3>1 DEF JobOK, Sourced
    <3> HIDE DEF j
    <3>3. waiting' = emitted(j)
      BY <2>2 DEF j
    <3> QED
      BY <1>2, <3>2, <3>3, EmitKeeps DEF IInv
  <2> QED
    BY <2>1, <2>2 DEF putReport, fetchForChecksum, completeReportUpload, queueVars
<1>4. Shapes' /\ OwnersWork' /\ \A x \in Executors : ExecutorOK(x)'
  BY <1>1, <1>2, ExecutorKept DEF IInv, Shapes, OwnersWork, execVars
<1> QED
  BY <1>2, <1>3, <1>4 DEF IInv

(* Faults. *)
LEMMA FaultSteps ==
    ASSUME IInv, NEW x \in Executors, Throw(x) \/ Die(x) \/ Stall(x)
    PROVE  IInv'
<1>1. UNCHANGED <<runVars, tableVars>> /\ at[x] # "idle"
  BY DEF Throw, Die, Stall, fault, IInv, OwnersWork
<1>2. Filled /\ EvidenceHasSources'
  BY <1>1, Unwritten
<1>3. WaitingOK'
  <2>1. JobOK(job[x])
    BY <1>1 DEF IInv, ExecutorOK, JobOK
  <2> QED
    BY <1>2, <2>1, AttemptKeeps, WaitingKept DEF Throw, Die, Stall, queueVars, IInv
<1>4. CASE settle(x)
  BY <1>2, <1>3, <1>4, SettleKeeps
<1>5. CASE UNCHANGED <<at, job, made>> /\ owned' = [owned EXCEPT ![x] = FALSE]
  <2>1. Shapes' /\ OwnersWork' /\ \A y \in Executors : ExecutorOK(y)'
    BY <1>2, <1>5, ExecutorKept DEF IInv, Shapes, OwnersWork
  <2> QED
    BY <1>2, <1>3, <2>1 DEF IInv
<1> QED
  BY <1>4, <1>5 DEF Throw, Die, Stall

LEMMA DropStep ==
    ASSUME IInv, NEW j, Drop(j)
    PROVE  IInv'
<1>1. UNCHANGED <<runVars, tableVars, execVars>> /\ waiting' = waiting (-) SetToBag({j})
  BY DEF Drop, fault
<1>2. Filled /\ EvidenceHasSources'
  BY <1>1, Unwritten
<1>3. WaitingOK'
  BY <1>1, <1>2, TakeKeeps DEF IInv
<1>4. Shapes' /\ OwnersWork' /\ \A x \in Executors : ExecutorOK(x)'
  BY <1>1, <1>2, ExecutorKept DEF IInv, Shapes, OwnersWork, execVars
<1> QED
  BY <1>2, <1>3, <1>4 DEF IInv

-----------------------------------------------------------------------------
(* The start of an execution. *)
LEMMA BeginKeeps ==
    ASSUME IInv, NEW x \in Executors, NEW j \in BagToSet(waiting), j.queue = x[2],
           NEW stage, stage # "idle", NEW read, begin(x, j, stage, read),
           at'[x] = stage /\ made'[x] = read => StageOK(x)' /\ MadeOK(x)'
    PROVE  IInv'
<1>1. UNCHANGED <<runVars, tableVars>> /\ waiting' = waiting (-) SetToBag({j})
  BY DEF begin
<1>2. Filled /\ EvidenceHasSources'
  BY <1>1, Unwritten
<1>3. WaitingOK'
  BY <1>1, <1>2, TakeKeeps DEF IInv
<1>4. /\ at' = [at EXCEPT ![x] = stage] /\ job' = [job EXCEPT ![x] = j]
      /\ made' = [made EXCEPT ![x] = read] /\ owned' = [owned EXCEPT ![x] = TRUE]
  BY DEF begin
<1>5. at'[x] = stage /\ made'[x] = read /\ job'[x] = j
  BY <1>4 DEF IInv, Shapes
<1>6. JobOK(j)'
  BY <1>2, JobKept DEF IInv, WaitingOK
<1>7. ExecutorOK(x)'
  BY <1>5, <1>6 DEF ExecutorOK, JobOK
<1> QED
  BY <1>2, <1>3, <1>4, <1>7, OthersKept

LEMMA RefuseKeeps ==
    ASSUME IInv, NEW j \in BagToSet(waiting), refuse(j)
    PROVE  IInv'
<1>1. UNCHANGED <<runVars, tableVars, execVars>>
  BY DEF refuse
<1>2. Filled /\ EvidenceHasSources'
  BY <1>1, Unwritten
<1>3. WaitingOK'
  <2> DEFINE k == [j EXCEPT !.attempts = @ + 1]
             rest == waiting (-) SetToBag({j})
  <2>1. JobOK(j) /\ JobOK(k)
    BY DEF IInv, WaitingOK, JobOK, JobRecord
  <2>2. waiting' = rest (+) SetToBag({k}) \/ waiting' = rest
    BY DEF refuse
  <2>3. BagToSet(rest) \subseteq BagToSet(waiting)
    BY DEF BagToSet, SetToBag, (-)
  <2> HIDE DEF k, rest
  <2>4. BagToSet(waiting') \subseteq BagToSet(rest) \cup {k}
    BY <2>2 DEF BagToSet, SetToBag, (+)
  <2> QED
    BY <1>2, <2>1, <2>3, <2>4, JobKept DEF IInv, WaitingOK
<1>4. Shapes' /\ OwnersWork' /\ \A x \in Executors : ExecutorOK(x)'
  BY <1>1, <1>2, ExecutorKept DEF IInv, Shapes, OwnersWork, execVars
<1> QED
  BY <1>2, <1>3, <1>4 DEF IInv

LEMMA BeginSteps ==
    ASSUME IInv, NEW x \in Executors, NEW j \in BagToSet(waiting), Begin(x, j)
    PROVE  IInv'
<1>0. JobOK(j)
  BY DEF IInv, WaitingOK
<1>1. CASE fetchReport(x, j)
  <2>1. j.queue = x[2] /\ x[2] = "report-parse" /\ begin(x, j, "commit", object[j.file])
    BY <1>1 DEF fetchReport, takes
  <2>2. at'[x] = "commit" => StageOK(x)' /\ MadeOK(x)'
    BY <2>1 DEF StageOK, MadeOK
  <2> QED
    BY <2>1, <2>2, BeginKeeps
<1>2. CASE readUpload(x, j)
  <2>1. CASE refuse(j)
    BY <2>1, RefuseKeeps
  <2>2. CASE ~refuse(j)
    <3> DEFINE read == rows(x, <<j.file, parsed[j.file]>>)
    <3>1. j.queue = x[2] /\ x[2] = "trade-normalisation" /\ begin(x, j, "delete", read)
      BY <1>2, <2>2 DEF readUpload, takes
    <3>2. at'[x] = "delete" => StageOK(x)' /\ MadeOK(x)'
      BY <3>1 DEF StageOK, MadeOK
    <3> HIDE DEF read
    <3> QED
      BY <3>1, <3>2, BeginKeeps
  <2> QED
    BY <2>1, <2>2
<1>3. CASE readRun(x, j)
  <2>1. j.queue = x[2] /\ x[2] = "local-runner-execution" /\ begin(x, j, "start", Nothing)
    BY <1>3 DEF readRun, takes
  <2>2. at'[x] = "start" => StageOK(x)' /\ MadeOK(x)'
    BY <2>1 DEF StageOK, MadeOK
  <2> QED
    BY <2>1, <2>2, BeginKeeps
<1>4. CASE loadTrades(x, j)
  <2> DEFINE read == rows(x, ledger)
  <2>1. /\ j.queue = x[2] /\ x[2] \in {"equity-reconstruction", "metric-calculation"}
        /\ begin(x, j, "delete", read)
    BY <1>4 DEF loadTrades, takes
  <2>2. ledger # {} /\ read.of = ledger
    BY <1>0, <2>1 DEF JobOK, Sourced, rows
  <2> HIDE DEF read
  <2>3. at'[x] = "delete" /\ made'[x] = read => StageOK(x)' /\ MadeOK(x)'
    BY <2>1, <2>2 DEF StageOK, MadeOK
  <2> QED
    BY <2>1, <2>3, BeginKeeps
<1>5. CASE readSnapshots(x, j)
  <2>1. CASE refuse(j)
    BY <2>1, RefuseKeeps
  <2>2. CASE ~refuse(j)
    <3> DEFINE read == rows(x, [metrics |-> metrics, curve |-> {}, reported |-> {}])
    <3>1. /\ j.queue = x[2] /\ x[2] = "parity-calculation" /\ metrics # {}
          /\ begin(x, j, "curve", read)
      BY <1>5, <2>2 DEF readSnapshots, takes
    <3>2. at'[x] = "curve" /\ made'[x] = read => StageOK(x)' /\ MadeOK(x)'
      BY <3>1 DEF StageOK, MadeOK, rows
    <3> HIDE DEF read
    <3> QED
      BY <3>1, <3>2, BeginKeeps
  <2> QED
    BY <2>1, <2>2
<1> QED
  BY <1>1, <1>2, <1>3, <1>4, <1>5 DEF Begin

-----------------------------------------------------------------------------
(* The steps between, which write no table.                                 *)
LEMMA ProceedSteps ==
    ASSUME IInv, NEW x \in Executors,
           \/ deleteRows(x) \/ setRunning(x) \/ simulate(x)
           \/ readDrawdown(x) \/ loadReportedParityMetrics(x)
    PROVE  IInv'
<1>0. /\ at[x] # "idle" /\ ExecutorOK(x) /\ UNCHANGED <<tableVars, queueVars, job, owned, definition>>
      /\ Shapes /\ job' = [job EXCEPT ![x] = job[x]]
  BY DEF IInv, Shapes, deleteRows, setRunning, simulate, readDrawdown,
     loadReportedParityMetrics, proceed, runVars
<1>1. Filled
  BY <1>0 DEF Filled, tableVars
<1>2. WaitingOK'
  BY <1>0, <1>1, WaitingKept DEF IInv, queueVars
<1>3. /\ job[x] \in JobRecord /\ job[x].queue = x[2] /\ Sourced(x[2])' /\ StageOK(x) /\ MadeOK(x)
      /\ Sourced(x[2])
  BY <1>0, <1>1, SourcesKept DEF ExecutorOK
<1>4. CASE deleteRows(x)
  <2>1. /\ at[x] = "delete" /\ at' = [at EXCEPT ![x] = "commit"] /\ UNCHANGED <<made, runVars>>
        /\ made' = [made EXCEPT ![x] = made[x]]
    BY <1>0, <1>4 DEF deleteRows, proceed, Shapes
  <2>2. at'[x] = "commit" /\ job'[x] = job[x]
    BY <1>0, <2>1 DEF Shapes
  <2>3. ExecutorOK(x)'
    BY <1>3, <2>1, <2>2 DEF ExecutorOK, StageOK, MadeOK, rows
  <2> QED
    BY <1>0, <1>1, <1>2, <2>1, <2>3, Unwritten, ProceedKeeps
<1>5. CASE setRunning(x)
  <2>1. /\ at[x] = "start" /\ at' = [at EXCEPT ![x] = "simulate"] /\ UNCHANGED made
        /\ made' = [made EXCEPT ![x] = made[x]] /\ status' = "RUNNING" /\ UNCHANGED announced
    BY <1>0, <1>5 DEF setRunning, proceed, Shapes
  <2>2. at'[x] = "simulate" /\ job'[x] = job[x]
    BY <1>0, <2>1 DEF Shapes
  <2>3. ExecutorOK(x)'
    BY <1>3, <2>1, <2>2 DEF ExecutorOK, StageOK, MadeOK
  <2>4. EvidenceHasSources'
    BY <1>0, <2>1 DEF IInv, EvidenceHasSources, tableVars
  <2> QED
    BY <1>0, <1>1, <1>2, <2>1, <2>3, <2>4, ProceedKeeps
<1>6. CASE simulate(x)
  <2> DEFINE read == rows(x, <<Nothing, Nothing>>)
             stage == IF definition = "sound" THEN "delete" ELSE "fail"
  <2>1. /\ at[x] = "simulate" /\ at' = [at EXCEPT ![x] = stage] /\ UNCHANGED runVars
        /\ made' = [made EXCEPT ![x] = read]
    BY <1>6 DEF simulate, proceed
  <2>2. at'[x] = stage /\ job'[x] = job[x] /\ stage \in {"delete", "fail"}
    BY <1>0, <2>1 DEF Shapes
  <2> HIDE DEF read, stage
  <2>3. ExecutorOK(x)'
    BY <1>3, <2>1, <2>2 DEF ExecutorOK, StageOK, MadeOK
  <2> QED
    BY <1>0, <1>1, <1>2, <2>1, <2>2, <2>3, Unwritten, ProceedKeeps
<1>7. CASE readDrawdown(x)
  <2> DEFINE read == [made[x] EXCEPT !.of.curve = equity]
  <2>1. /\ at[x] = "curve" /\ at' = [at EXCEPT ![x] = "reported"] /\ UNCHANGED runVars
        /\ made' = [made EXCEPT ![x] = read]
    BY <1>7 DEF readDrawdown, proceed
  <2>2. at'[x] = "reported" /\ job'[x] = job[x] /\ made'[x] = read
    BY <1>0, <2>1 DEF Shapes
  <2>3. x[2] = "parity-calculation" /\ equity # {} /\ equity' = equity
    BY <1>0, <1>3, <2>1 DEF StageOK, Sourced, tableVars
  <2>4. read = rows(x, [metrics |-> made[x].of.metrics, curve |-> equity,
                        reported |-> made[x].of.reported])
    BY <1>3, <2>3 DEF MadeOK, rows
  <2> HIDE DEF read
  <2>5. MadeOK(x)'
    BY <1>3, <2>2, <2>3, <2>4 DEF MadeOK, rows
  <2>6. ExecutorOK(x)'
    BY <1>3, <2>2, <2>3, <2>5 DEF ExecutorOK, StageOK
  <2> QED
    BY <1>0, <1>1, <1>2, <2>1, <2>6, Unwritten, ProceedKeeps
<1>8. CASE loadReportedParityMetrics(x)
  <2> DEFINE read == [made[x] EXCEPT !.of.reported = reportedMetrics]
  <2>1. /\ at[x] = "reported" /\ at' = [at EXCEPT ![x] = "delete"] /\ UNCHANGED runVars
        /\ made' = [made EXCEPT ![x] = read]
    BY <1>8 DEF loadReportedParityMetrics, proceed
  <2>2. at'[x] = "delete" /\ job'[x] = job[x] /\ made'[x] = read
    BY <1>0, <2>1 DEF Shapes
  <2>3. x[2] = "parity-calculation"
    BY <1>3, <2>1 DEF StageOK
  <2>4. read = rows(x, [metrics |-> made[x].of.metrics, curve |-> made[x].of.curve,
                        reported |-> reportedMetrics])
    BY <1>3, <2>3 DEF MadeOK, rows
  <2> HIDE DEF read
  <2>5. MadeOK(x)'
    BY <1>3, <2>1, <2>2, <2>3, <2>4 DEF MadeOK, rows
  <2>6. ExecutorOK(x)'
    BY <1>3, <2>2, <2>3, <2>5 DEF ExecutorOK, StageOK
  <2> QED
    BY <1>0, <1>1, <1>2, <2>1, <2>6, Unwritten, ProceedKeeps
<1> QED
  BY <1>4, <1>5, <1>6, <1>7, <1>8

-----------------------------------------------------------------------------
(* The transactions. *)
LEMMA CommitSteps ==
    ASSUME IInv, NEW x \in Executors,
           \/ handleReportParse(x) \/ handleTradeNormalisation(x)
           \/ handleLocalRunnerExecution(x) \/ handleEquityReconstruction(x)
           \/ handleMetricCalculation(x) \/ handleParityCalculation(x)
    PROVE  IInv'
<1>0. at[x] = "commit" /\ Shapes /\ WaitingOK /\ EvidenceHasSources
  BY DEF IInv, handleReportParse, handleTradeNormalisation, handleLocalRunnerExecution,
     handleEquityReconstruction, handleMetricCalculation, handleParityCalculation, committing
<1>1. /\ job[x] \in JobRecord /\ job[x].queue = x[2] /\ Sourced(x[2]) /\ StageOK(x) /\ MadeOK(x)
  BY <1>0 DEF IInv, ExecutorOK
<1>2. CASE handleReportParse(x)
  <2>1. UNCHANGED <<runVars, tableVars>> /\ settle(x)
    BY <1>2 DEF handleReportParse
  <2>2. Filled /\ EvidenceHasSources'
    BY <2>1, Unwritten
  <2>3. WaitingOK'
    <3>1. PICK f \in Files \cup {Nothing} : f = job[x].file
      BY <1>1 DEF JobRecord
    <3> DEFINE j == Job("trade-normalisation", f, TRUE)
    <3>2. j \in JobRecord /\ j.queue = "trade-normalisation"
      BY NewJob DEF Queues
    <3>3. waiting' = emitted(j) \/ waiting' = waiting
      BY <1>2, <3>1 DEF handleReportParse
    <3> HIDE DEF j
    <3>4. JobOK(j)'
      BY <3>2 DEF JobOK, Sourced
    <3>5. CASE waiting' = emitted(j)
      BY <1>0, <2>2, <3>4, <3>5, EmitKeeps
    <3>6. CASE waiting' = waiting
      BY <1>0, <2>2, <3>6, WaitingKept
    <3> QED
      BY <3>3, <3>5, <3>6
  <2> QED
    BY <2>1, <2>2, <2>3, SettleKeeps
<1>3. CASE handleTradeNormalisation(x)
  <2>1. /\ UNCHANGED <<runVars, equity, metrics, parity>> /\ settle(x) /\ ledger' = replaced(x)
        /\ waiting' = emitted(Job("equity-reconstruction", Nothing, TRUE))
    BY <1>3 DEF handleTradeNormalisation
  <2>2. ledger' # {}
    BY <2>1 DEF replaced
  <2>3. Filled /\ EvidenceHasSources'
    BY <2>1, <2>2, EvidenceUnchanged DEF Filled, runVars
  <2> DEFINE j == Job("equity-reconstruction", Nothing, TRUE)
  <2>4. JobOK(j)'
    BY <2>2, NewJob DEF JobOK, Sourced, Queues
  <2> HIDE DEF j
  <2>5. WaitingOK'
    BY <1>0, <2>1, <2>3, <2>4, EmitKeeps DEF j
  <2> QED
    BY <2>1, <2>3, <2>5, SettleKeeps
<1>4. CASE handleLocalRunnerExecution(x)
  <2>1. /\ UNCHANGED <<definition, equity, metrics, parity>> /\ settle(x) /\ ledger' = replaced(x)
        /\ status' = "SUCCEEDED"
        /\ waiting' = emitted(Job("equity-reconstruction", Nothing, TRUE))
        /\ x[2] = "local-runner-execution"
    BY <1>4 DEF handleLocalRunnerExecution, committing
  <2>2. ledger' # {} /\ definition # "none"
    BY <1>1, <2>1 DEF replaced, Sourced
  <2>3. Filled /\ EvidenceHasSources'
    BY <1>0, <2>1, <2>2 DEF Filled, EvidenceHasSources
  <2> DEFINE j == Job("equity-reconstruction", Nothing, TRUE)
  <2>4. JobOK(j)'
    BY <2>2, NewJob DEF JobOK, Sourced, Queues
  <2> HIDE DEF j
  <2>5. WaitingOK'
    BY <1>0, <2>1, <2>3, <2>4, EmitKeeps DEF j
  <2> QED
    BY <2>1, <2>3, <2>5, SettleKeeps
<1>5. CASE handleEquityReconstruction(x)
  <2>1. /\ UNCHANGED <<runVars, ledger, metrics, parity>> /\ settle(x) /\ equity' = replaced(x)
        /\ waiting' = emitted(Job("metric-calculation", Nothing, TRUE))
        /\ x[2] = "equity-reconstruction"
    BY <1>5 DEF handleEquityReconstruction, committing
  <2>2. /\ ledger' # {} /\ made[x].of # {} /\ made[x] \in equity'
        /\ equity' \subseteq equity \cup {made[x]}
    BY <1>1, <2>1 DEF replaced, Sourced, MadeOK, Table
  <2>3. Filled /\ EvidenceHasSources'
    BY <1>0, <2>1, <2>2 DEF Filled, runVars, EvidenceHasSources
  <2> DEFINE j == Job("metric-calculation", Nothing, TRUE)
  <2>4. JobOK(j)'
    BY <2>2, NewJob DEF JobOK, Sourced, Queues
  <2> HIDE DEF j
  <2>5. WaitingOK'
    BY <1>0, <2>1, <2>3, <2>4, EmitKeeps DEF j
  <2> QED
    BY <2>1, <2>3, <2>5, SettleKeeps
<1>6. CASE handleMetricCalculation(x)
  <2>1. /\ UNCHANGED <<runVars, ledger, equity, parity, job, owned, made>> /\ metrics' = replaced(x)
        /\ at' = [at EXCEPT ![x] = "mark"] /\ x[2] = "metric-calculation"
    BY <1>6 DEF handleMetricCalculation, committing
  <2>2. /\ ledger # {} /\ equity # {} /\ made[x].of # {} /\ made[x] \in metrics'
        /\ metrics' \subseteq metrics \cup {made[x]}
    BY <1>1, <2>1 DEF replaced, Sourced, MadeOK, Table
  <2>3. Filled /\ EvidenceHasSources'
    BY <1>0, <2>1, <2>2 DEF Filled, runVars, EvidenceHasSources
  <2>4. WaitingOK'
    <3> DEFINE j == Job("parity-calculation", Nothing, TRUE)
    <3>1. JobOK(j)'
      BY <2>1, <2>2, NewJob DEF JobOK, Sourced, Queues
    <3>2. waiting' = emitted(j) \/ UNCHANGED waiting
      BY <1>6 DEF handleMetricCalculation
    <3> HIDE DEF j
    <3> QED
      BY <1>0, <2>3, <3>1, <3>2, EmitKeeps, WaitingKept
  <2>5. at'[x] = "mark" /\ made' = [made EXCEPT ![x] = made[x]]
    BY <1>0, <2>1 DEF Shapes
  <2>6. ExecutorOK(x)'
    BY <1>1, <2>1, <2>2, <2>3, <2>5, SourcesKept DEF ExecutorOK, StageOK, MadeOK
  <2>7. UNCHANGED <<job, owned>> /\ at' = [at EXCEPT ![x] = "mark"]
    BY <2>1
  <2> QED
    BY <2>3, <2>4, <2>5, <2>6, <2>7, ProceedKeeps
<1>7. CASE handleParityCalculation(x)
  <2>1. /\ UNCHANGED <<runVars, ledger, equity, metrics, queueVars>> /\ settle(x)
        /\ parity' = replaced(x) /\ x[2] = "parity-calculation"
    BY <1>7 DEF handleParityCalculation, committing
  <2>2. /\ made[x].of.metrics # {} /\ made[x].of.curve # {}
        /\ parity' \subseteq parity \cup {made[x]}
    BY <1>0, <1>1, <2>1 DEF replaced, MadeOK, Table
  <2>3. Filled /\ EvidenceHasSources'
    BY <1>0, <2>1, <2>2 DEF Filled, runVars, EvidenceHasSources
  <2>4. WaitingOK'
    BY <1>0, <2>1, <2>3, WaitingKept DEF queueVars
  <2> QED
    BY <2>1, <2>3, <2>4, SettleKeeps
<1> QED
  BY <1>2, <1>3, <1>4, <1>5, <1>6, <1>7

LEMMA StatusSteps ==
    ASSUME IInv, NEW x \in Executors, markFailed(x) \/ markRunAnalysed(x)
    PROVE  IInv'
<1>1. /\ UNCHANGED <<definition, tableVars, queueVars>> /\ settle(x) /\ at[x] # "idle"
      /\ WaitingOK /\ EvidenceHasSources
  BY DEF IInv, markFailed, markRunAnalysed
<1>2. Filled
  BY <1>1 DEF Filled, tableVars
<1>3. WaitingOK'
  BY <1>1, <1>2, WaitingKept DEF queueVars
<1>4. EvidenceHasSources'
  <2>1. CASE markFailed(x)
    BY <1>1, <2>1 DEF markFailed, EvidenceHasSources, tableVars
  <2>2. CASE markRunAnalysed(x)
    <3>1. status' = "SUCCEEDED" /\ at[x] = "mark"
      BY <2>2 DEF markRunAnalysed
    <3>2. metrics # {} /\ equity # {}
      BY <1>1, <3>1 DEF IInv, ExecutorOK, StageOK, Sourced
    <3> QED
      BY <1>1, <3>1, <3>2 DEF EvidenceHasSources, tableVars
  <2> QED
    BY <2>1, <2>2
<1> QED
  BY <1>1, <1>2, <1>3, <1>4, SettleKeeps

LEMMA InvNext == IInv /\ [Next]_vars => IInv'
<1> SUFFICES ASSUME IInv, [Next]_vars PROVE IInv'
  OBVIOUS
<1>1. ASSUME NEW f \in Files,
             \/ \E c \in Contents : putReport(f, c)
             \/ fetchForChecksum(f)
             \/ \E run \in Attachments : completeReportUpload(f, run)
      PROVE  IInv'
  BY <1>1, UploadSteps
<1>2. ASSUME NEW x \in Executors, Step(x) PROVE IInv'
  BY <1>2, BeginSteps, ProceedSteps, CommitSteps, StatusSteps DEF Step
<1>3. ASSUME NEW x \in Executors, Throw(x) \/ Die(x) \/ Stall(x) PROVE IInv'
  BY <1>3, FaultSteps
<1>4. ASSUME NEW j \in BagToSet(waiting), Drop(j) PROVE IInv'
  BY <1>4, DropStep
<1>5. CASE UNCHANGED vars
  <2>1. UNCHANGED <<runVars, tableVars, queueVars, execVars>>
    BY <1>5 DEF vars
  <2>2. Filled /\ EvidenceHasSources'
    BY <2>1, Unwritten
  <2>3. WaitingOK'
    BY <2>1, <2>2, WaitingKept DEF queueVars, IInv
  <2>4. Shapes' /\ OwnersWork' /\ \A x \in Executors : ExecutorOK(x)'
    BY <2>1, <2>2, ExecutorKept DEF IInv, Shapes, OwnersWork, execVars
  <2> QED
    BY <2>2, <2>3, <2>4 DEF IInv
<1> QED
  BY <1>1, <1>2, <1>3, <1>4, <1>5 DEF Next

THEOREM Invariance == Spec => []IInv
  BY InvInit, InvNext, PTL DEF Spec

-----------------------------------------------------------------------------
(* At no moment is there a result that was computed from nothing, nor a     *)
(* TradingView run that reads SUCCEEDED without a curve and metrics, for    *)
(* any number of processes that execute and repeat the handlers.            *)
THEOREM ChainHasSources == Spec => []EvidenceHasSources
<1>1. IInv => EvidenceHasSources
  BY DEF IInv
<1> QED
  BY <1>1, Invariance, PTL

-----------------------------------------------------------------------------
(* The types, with what relates the content of a file to its registration    *)
(* and a job to the executor that works on it.                              *)
JobTyped(j) ==
    /\ j \in Jobs
    /\ j.queue = "report-parse" => j.file \in Files /\ object[j.file] # Nothing
    /\ j.queue = "trade-normalisation" => j.file \in Ledgers

FilesTyped ==
    /\ object \in [Files -> Contents \cup {Nothing}]
    /\ checksum \in [Files -> Contents \cup {Nothing}]
    /\ recorded \in [Files -> Contents \cup {Nothing}]
    /\ parsed = [f \in Files |-> parsed[f]]
    /\ \A f \in Files : parsed[f] \in Contents \/ parsed[f] \in {"PENDING", "FAILED"}
    /\ refused \subseteq Files
    /\ \A f \in Files : checksum[f] # Nothing => object[f] # Nothing

RunTyped ==
    /\ definition \in Definitions
    /\ status \in {"QUEUED", "RUNNING", "SUCCEEDED", "FAILED_TERMINAL"}
    /\ announced \subseteq {"SUCCEEDED", "FAILED_TERMINAL"}
    /\ faults \in 0..MaxFaults

TablesTyped ==
    /\ ledger \subseteq LedgerRows
    /\ equity \subseteq DerivedRows /\ metrics \subseteq DerivedRows
    /\ parity \subseteq ParityRows

QueuesTyped ==
    /\ IsABag(waiting)
    /\ \A j \in BagToSet(waiting) : JobTyped(j)
    /\ lost \subseteq Jobs

(* What an executor has read or is about to insert. *)
MadeTyped(x) ==
    /\ x[2] = "report-parse" => made[x] \in Contents
    /\ x[2] = "trade-normalisation" => made[x] \in LedgerRows
    /\ x[2] = "local-runner-execution" =>
          at[x] \in {"start", "simulate", "fail"} \/ made[x] \in LedgerRows
    /\ x[2] \in {"equity-reconstruction", "metric-calculation"} => made[x] \in DerivedRows
    /\ x[2] = "parity-calculation" => made[x] \in ParityRows

ExecutorTyped(x) ==
    /\ at[x] = "idle" <=> job[x] = Nothing
    /\ at[x] # "idle" => JobTyped(job[x]) /\ job[x].queue = x[2] /\ MadeTyped(x)

TInv ==
    /\ FilesTyped /\ RunTyped /\ TablesTyped /\ QueuesTyped
    /\ \A x \in Executors : ExecutorTyped(x)

LEMMA TypesSuffice == TInv => TypeOK
  BY DEF TInv, FilesTyped, RunTyped, TablesTyped, QueuesTyped, ExecutorTyped, JobTyped, TypeOK

(* What is in object storage stays there. *)
Stored == \A f \in Files : object[f] # Nothing => object'[f] # Nothing

LEMMA JobStaysTyped == ASSUME Stored, NEW j, JobTyped(j) PROVE JobTyped(j)'
  BY DEF Stored, JobTyped

LEMMA SingletonBag == ASSUME NEW j PROVE DOMAIN SetToBag({j}) = {j} /\ SetToBag({j})[j] = 1
  BY DEF SetToBag

(* A bag of typed jobs stays one when a job is emitted or taken. *)
LEMMA EmittedIsTyped ==
    ASSUME QueuesTyped, Stored, NEW j, JobTyped(j)', waiting' = emitted(j), lost' = lost
    PROVE  QueuesTyped'
<1>1. DOMAIN waiting' = DOMAIN waiting \cup {j}
  BY DEF emitted, SetToBag, (+)
<1>2. \A k \in DOMAIN waiting' :
         waiting'[k] = (IF k \in DOMAIN waiting THEN waiting[k] ELSE 0) + (IF k = j THEN 1 ELSE 0)
  BY SingletonBag DEF emitted, (+)
<1>3. waiting' = [k \in DOMAIN waiting' |-> waiting'[k]]
  BY DEF emitted, (+)
<1>4. \A k \in DOMAIN waiting : waiting[k] \in Nat /\ waiting[k] > 0
  BY DEF QueuesTyped, IsABag
<1>5. \A k \in DOMAIN waiting' : waiting'[k] \in Nat /\ waiting'[k] > 0
  BY <1>1, <1>2, <1>4
<1>6. IsABag(waiting')
  BY <1>3, <1>5 DEF IsABag
<1> QED
  BY <1>1, <1>6, JobStaysTyped DEF QueuesTyped, BagToSet

LEMMA TakenIsTyped ==
    ASSUME QueuesTyped, NEW j, UNCHANGED object, waiting' = waiting (-) SetToBag({j}),
           lost' \subseteq Jobs
    PROVE  QueuesTyped'
<1>1. DOMAIN waiting' \subseteq DOMAIN waiting
  BY DEF SetToBag, (-)
<1>2. \A k \in DOMAIN waiting' :
         /\ waiting'[k] = IF k = j THEN waiting[k] - 1 ELSE waiting[k]
         /\ waiting'[k] > 0
  BY SingletonBag DEF (-)
<1>3. waiting' = [k \in DOMAIN waiting' |-> waiting'[k]]
  BY DEF (-)
<1>4. \A k \in DOMAIN waiting : waiting[k] \in Nat /\ waiting[k] > 0
  BY DEF QueuesTyped, IsABag
<1>5. \A k \in DOMAIN waiting' : waiting'[k] \in Nat /\ waiting'[k] > 0
  BY <1>1, <1>2, <1>4
<1>6. IsABag(waiting')
  BY <1>3, <1>5 DEF IsABag
<1> QED
  BY <1>1, <1>6 DEF QueuesTyped, BagToSet, JobTyped

LEMMA QueuesStayTyped ==
    ASSUME QueuesTyped, Stored, UNCHANGED queueVars
    PROVE  QueuesTyped'
  BY JobStaysTyped DEF QueuesTyped, queueVars

LEMMA AttemptIsTyped ==
    ASSUME QueuesTyped, UNCHANGED object, NEW j, JobTyped(j), retried(j) \/ takenBack(j)
    PROVE  QueuesTyped'
<1>0. Stored
  BY DEF Stored
<1>1. j \in Jobs /\ MaxAttempts \in Nat /\ MaxStalls \in Nat
  BY BoundsAssumption DEF JobTyped
<1>2. j.attempts \in 0..MaxAttempts - 1 /\ j.stalls \in 0..MaxStalls
  BY <1>1 DEF Jobs
<1>3. CASE retried(j) /\ j.attempts + 1 < MaxAttempts
  <2> DEFINE k == [j EXCEPT !.attempts = @ + 1]
  <2>1. k \in Jobs /\ k.queue = j.queue /\ k.file = j.file
    BY <1>1, <1>2, <1>3 DEF Jobs
  <2>2. waiting' = emitted(k) /\ UNCHANGED lost
    BY <1>3 DEF retried
  <2> HIDE DEF k
  <2>3. JobTyped(k)'
    BY <2>1 DEF JobTyped
  <2> QED
    BY <1>0, <2>2, <2>3, EmittedIsTyped
<1>4. CASE takenBack(j) /\ j.stalls < MaxStalls
  <2> DEFINE k == [j EXCEPT !.stalls = @ + 1]
  <2>1. k \in Jobs /\ k.queue = j.queue /\ k.file = j.file
    BY <1>1, <1>2, <1>4 DEF Jobs
  <2>2. waiting' = emitted(k) /\ UNCHANGED lost
    BY <1>4 DEF takenBack
  <2> HIDE DEF k
  <2>3. JobTyped(k)'
    BY <2>1 DEF JobTyped
  <2> QED
    BY <1>0, <2>2, <2>3, EmittedIsTyped
<1>5. CASE UNCHANGED waiting /\ lost' = lost \cup {j}
  BY <1>1, <1>5 DEF QueuesTyped, JobTyped
<1> QED
  BY <1>3, <1>4, <1>5 DEF retried, takenBack

(* The step of one executor. *)
LEMMA OthersStayTyped ==
    ASSUME Shapes, \A y \in Executors : ExecutorTyped(y), Stored,
           NEW x \in Executors, NEW stage, NEW j, NEW m,
           at' = [at EXCEPT ![x] = stage], job' = [job EXCEPT ![x] = j],
           made' = [made EXCEPT ![x] = m],
           at'[x] = stage /\ job'[x] = j /\ made'[x] = m => ExecutorTyped(x)'
    PROVE  \A y \in Executors : ExecutorTyped(y)'
<1>1. /\ at'[x] = stage /\ job'[x] = j /\ made'[x] = m
      /\ \A y \in Executors \ {x} : at'[y] = at[y] /\ job'[y] = job[y] /\ made'[y] = made[y]
  BY DEF Shapes
<1>2. ASSUME NEW y \in Executors, y # x PROVE ExecutorTyped(y)'
  BY <1>1, <1>2, JobStaysTyped DEF ExecutorTyped, MadeTyped
<1> QED
  BY <1>1, <1>2

LEMMA ExecutorsStayTyped ==
    ASSUME \A y \in Executors : ExecutorTyped(y), Stored, UNCHANGED <<at, job, made>>
    PROVE  \A y \in Executors : ExecutorTyped(y)'
  BY JobStaysTyped DEF ExecutorTyped, MadeTyped

LEMMA SettledIsTyped ==
    ASSUME Shapes, \A y \in Executors : ExecutorTyped(y), Stored, NEW x \in Executors, settle(x)
    PROVE  \A y \in Executors : ExecutorTyped(y)'
  BY OthersStayTyped DEF settle, ExecutorTyped

LEMMA RowsAreTyped ==
    ASSUME NEW x \in Executors, NEW S, NEW s \in S
    PROVE  rows(x, s) \in Rows(S)
  BY DEF rows, Rows

LEMMA NewJobIsTyped ==
    ASSUME NEW queue \in Queues, NEW f \in Files \cup {Nothing}, NEW run \in BOOLEAN
    PROVE  /\ Job(queue, f, run) \in Jobs
           /\ Job(queue, f, run).queue = queue /\ Job(queue, f, run).file = f
<1>1. 0 \in 0..MaxAttempts - 1 /\ 0 \in 0..MaxStalls
  BY BoundsAssumption
<1> QED
  BY <1>1 DEF Job, Jobs

-----------------------------------------------------------------------------
(* The types hold at first, and after each kind of step. *)
LEMMA TypesInit == Init => TInv
<1> SUFFICES ASSUME Init PROVE TInv
  OBVIOUS
<1>1. FilesTyped /\ TablesTyped
  BY DEF Init, FilesTyped, TablesTyped
<1>2. RunTyped
  BY BoundsAssumption DEF Init, RunTyped
<1>3. \A x \in Executors : ExecutorTyped(x)
  BY DEF Init, ExecutorTyped
<1>4. QueuesTyped
  <2>1. CASE definition = "none"
    BY <2>1 DEF Init, QueuesTyped, IsABag, BagToSet, EmptyBag, SetToBag
  <2>2. CASE definition # "none"
    <3> DEFINE j == Job("local-runner-execution", Nothing, TRUE)
    <3>1. j \in Jobs /\ j.queue = "local-runner-execution"
      BY NewJobIsTyped DEF Queues
    <3>2. waiting = SetToBag({j}) /\ lost = {}
      BY <2>2 DEF Init
    <3> HIDE DEF j
    <3>3. IsABag(waiting) /\ BagToSet(waiting) = {j}
      BY <3>2 DEF IsABag, BagToSet, SetToBag
    <3> QED
      BY <3>1, <3>2, <3>3 DEF QueuesTyped, JobTyped
  <2> QED
    BY <2>1, <2>2
<1> QED
  BY <1>1, <1>2, <1>3, <1>4 DEF TInv

LEMMA TypedUploads ==
    ASSUME IInv, TInv, NEW f \in Files,
           \/ \E c \in Contents : putReport(f, c)
           \/ fetchForChecksum(f)
           \/ \E run \in Attachments : completeReportUpload(f, run)
    PROVE  TInv'
<1>0. UNCHANGED <<runVars, tableVars, execVars, faults, parsed>>
  BY DEF putReport, fetchForChecksum, completeReportUpload
<1>1. FilesTyped' /\ Stored
  <2>1. CASE \E c \in Contents : putReport(f, c)
    BY <2>1, ContentsAssumption DEF putReport, TInv, FilesTyped, Stored
  <2>2. CASE fetchForChecksum(f)
    BY <2>2 DEF fetchForChecksum, TInv, FilesTyped, Stored
  <2>3. CASE \E run \in Attachments : completeReportUpload(f, run)
    BY <2>3 DEF completeReportUpload, TInv, FilesTyped, Stored
  <2> QED
    BY <2>1, <2>2, <2>3
<1>2. QueuesTyped'
  <2>1. CASE UNCHANGED queueVars
    BY <1>1, <2>1, QueuesStayTyped DEF TInv
  <2>2. ASSUME NEW run \in Attachments, completeReportUpload(f, run), recorded[f] = Nothing
        PROVE  QueuesTyped'
    <3> DEFINE j == Job("report-parse", f, run)
    <3>1. j \in Jobs /\ j.queue = "report-parse" /\ j.file = f
      BY NewJobIsTyped, BoundsAssumption DEF Queues
    <3>2. waiting' = emitted(j) /\ UNCHANGED <<lost, object>> /\ object[f] # Nothing
      BY <2>2 DEF completeReportUpload, TInv, FilesTyped
    <3> HIDE DEF j
    <3>3. JobTyped(j)'
      BY <3>1, <3>2 DEF JobTyped
    <3> QED
      BY <1>1, <3>2, <3>3, EmittedIsTyped DEF TInv
  <2> QED
    BY <2>1, <2>2 DEF putReport, fetchForChecksum, completeReportUpload, queueVars
<1>3. \A x \in Executors : ExecutorTyped(x)'
  BY <1>0, <1>1, ExecutorsStayTyped DEF TInv, execVars
<1> QED
  BY <1>0, <1>1, <1>2, <1>3 DEF TInv, RunTyped, TablesTyped, runVars, tableVars

LEMMA TypedFaults ==
    ASSUME IInv, TInv, NEW x \in Executors, Throw(x) \/ Die(x) \/ Stall(x)
    PROVE  TInv'
<1>1. /\ UNCHANGED <<fileVars, runVars, tableVars>> /\ at[x] # "idle"
      /\ faults < MaxFaults /\ faults' = faults + 1 /\ Shapes
  BY DEF Throw, Die, Stall, fault, IInv, OwnersWork
<1>2. Stored /\ JobTyped(job[x])
  BY <1>1 DEF Stored, fileVars, TInv, ExecutorTyped
<1>3. QueuesTyped'
  BY <1>1, <1>2, AttemptIsTyped, QueuesStayTyped DEF Throw, Die, Stall, TInv, fileVars
<1>4. \A y \in Executors : ExecutorTyped(y)'
  BY <1>1, <1>2, SettledIsTyped, ExecutorsStayTyped DEF Throw, Die, Stall, TInv
<1>5. RunTyped'
  BY <1>1, BoundsAssumption DEF TInv, RunTyped, runVars
<1> QED
  BY <1>1, <1>3, <1>4, <1>5 DEF TInv, FilesTyped, TablesTyped, fileVars, tableVars

LEMMA TypedDrop ==
    ASSUME IInv, TInv, NEW j \in BagToSet(waiting), Drop(j)
    PROVE  TInv'
<1>1. /\ UNCHANGED <<fileVars, runVars, tableVars, execVars>>
      /\ faults < MaxFaults /\ faults' = faults + 1
      /\ waiting' = waiting (-) SetToBag({j}) /\ lost' = lost \cup {j}
  BY DEF Drop, fault
<1>2. Stored /\ j \in Jobs
  BY <1>1 DEF Stored, fileVars, TInv, QueuesTyped, JobTyped
<1>3. QueuesTyped'
  BY <1>1, <1>2, TakenIsTyped DEF TInv, QueuesTyped, fileVars
<1>4. \A y \in Executors : ExecutorTyped(y)'
  BY <1>1, <1>2, ExecutorsStayTyped DEF TInv, execVars
<1>5. RunTyped'
  BY <1>1, BoundsAssumption DEF TInv, RunTyped, runVars
<1> QED
  BY <1>1, <1>3, <1>4, <1>5 DEF TInv, FilesTyped, TablesTyped, fileVars, tableVars

(* The start of an execution. *)
LEMMA TypedBegin ==
    ASSUME IInv, TInv, NEW x \in Executors, NEW j \in BagToSet(waiting), j.queue = x[2],
           NEW stage, stage # "idle", NEW read, begin(x, j, stage, read),
           at'[x] = stage /\ made'[x] = read => MadeTyped(x)'
    PROVE  TInv'
<1>1. /\ UNCHANGED <<fileVars, runVars, tableVars, lost, faults>>
      /\ waiting' = waiting (-) SetToBag({j})
      /\ at' = [at EXCEPT ![x] = stage] /\ job' = [job EXCEPT ![x] = j]
      /\ made' = [made EXCEPT ![x] = read]
  BY DEF begin
<1>2. Stored /\ JobTyped(j) /\ j # Nothing
  BY <1>1, NoJobAssumption DEF Stored, fileVars, TInv, QueuesTyped, JobTyped
<1>3. QueuesTyped'
  BY <1>1, TakenIsTyped DEF TInv, QueuesTyped, fileVars
<1>4. at'[x] = stage /\ job'[x] = j /\ made'[x] = read => ExecutorTyped(x)'
  BY <1>2, JobStaysTyped DEF ExecutorTyped
<1>5. \A y \in Executors : ExecutorTyped(y)'
  <2>1. Shapes /\ \A y \in Executors : ExecutorTyped(y)
    BY DEF IInv, TInv
  <2> QED
    BY <1>1, <1>2, <1>4, <2>1, OthersStayTyped
<1> QED
  BY <1>1, <1>3, <1>5 DEF TInv, FilesTyped, RunTyped, TablesTyped, fileVars, tableVars, runVars

LEMMA TypedRefusal ==
    ASSUME IInv, TInv, NEW j \in BagToSet(waiting), refuse(j)
    PROVE  TInv'
<1>1. UNCHANGED <<fileVars, runVars, tableVars, execVars, faults>>
  BY DEF refuse
<1>2. Stored /\ JobTyped(j) /\ j \in Jobs
  BY <1>1 DEF Stored, fileVars, TInv, QueuesTyped, JobTyped
<1>3. QueuesTyped'
  <2> DEFINE k == [j EXCEPT !.attempts = @ + 1]
             rest == waiting (-) SetToBag({j})
  <2>1. CASE waiting' = rest /\ lost' = lost \cup {j}
    BY <1>1, <1>2, <2>1, TakenIsTyped DEF TInv, QueuesTyped, fileVars
  <2>2. CASE j.attempts + 1 < MaxAttempts /\ waiting' = rest (+) SetToBag({k}) /\ UNCHANGED lost
    <3>1. k \in Jobs /\ k.queue = j.queue /\ k.file = j.file
      <4>1. j.attempts \in 0..MaxAttempts - 1 /\ MaxAttempts \in Nat
        BY <1>2, BoundsAssumption DEF Jobs
      <4> QED
        BY <1>2, <2>2, <4>1 DEF Jobs
    <3>2. JobTyped(k)
      BY <1>2, <3>1 DEF JobTyped
    <3>3. IsABag(rest) /\ BagToSet(rest) \subseteq BagToSet(waiting)
      <4>1. DOMAIN rest \subseteq DOMAIN waiting
        BY DEF SetToBag, (-)
      <4>2. \A i \in DOMAIN rest : /\ rest[i] = IF i = j THEN waiting[i] - 1 ELSE waiting[i]
                                   /\ rest[i] > 0
        BY SingletonBag DEF (-)
      <4>3. rest = [i \in DOMAIN rest |-> rest[i]]
        BY DEF (-)
      <4>4. \A i \in DOMAIN waiting : waiting[i] \in Nat /\ waiting[i] > 0
        BY DEF TInv, QueuesTyped, IsABag
      <4> HIDE DEF rest
      <4>5. \A i \in DOMAIN rest : rest[i] \in Nat /\ rest[i] > 0
        BY <4>1, <4>2, <4>4
      <4> QED
        BY <4>1, <4>3, <4>5 DEF IsABag, BagToSet
    <3> HIDE DEF rest, k
    <3>4. IsABag(waiting') /\ BagToSet(waiting') \subseteq BagToSet(rest) \cup {k}
      <4>1. waiting' = rest (+) SetToBag({k})
        BY <2>2 DEF rest, k
      <4>2. DOMAIN waiting' = DOMAIN rest \cup {k} /\ waiting' = [i \in DOMAIN waiting' |-> waiting'[i]]
        BY <4>1, SingletonBag DEF (+)
      <4>3. \A i \in DOMAIN waiting' :
               waiting'[i] = (IF i \in DOMAIN rest THEN rest[i] ELSE 0) + (IF i = k THEN 1 ELSE 0)
        BY <4>1, SingletonBag DEF (+)
      <4>4. \A i \in DOMAIN rest : rest[i] \in Nat /\ rest[i] > 0
        BY <3>3 DEF IsABag
      <4>5. \A i \in DOMAIN waiting' : waiting'[i] \in Nat /\ waiting'[i] > 0
        BY <4>2, <4>3, <4>4
      <4> QED
        BY <4>2, <4>5 DEF IsABag, BagToSet
    <3>5. \A i \in BagToSet(waiting') : JobTyped(i)
      BY <3>2, <3>3, <3>4 DEF TInv, QueuesTyped
    <3> QED
      BY <1>1, <1>2, <2>2, <3>4, <3>5, JobStaysTyped DEF TInv, QueuesTyped
  <2> QED
    BY <2>1, <2>2 DEF refuse
<1>4. \A y \in Executors : ExecutorTyped(y)'
  BY <1>1, <1>2, ExecutorsStayTyped DEF TInv, execVars
<1> QED
  BY <1>1, <1>3, <1>4 DEF TInv, FilesTyped, RunTyped, TablesTyped, fileVars, tableVars, runVars

LEMMA TypedBegins ==
    ASSUME IInv, TInv, NEW x \in Executors, NEW j \in BagToSet(waiting), Begin(x, j)
    PROVE  TInv'
<1>0. JobTyped(j)
  BY DEF TInv, QueuesTyped
<1>1. CASE fetchReport(x, j)
  <2>1. j.queue = x[2] /\ x[2] = "report-parse" /\ begin(x, j, "commit", object[j.file])
    BY <1>1 DEF fetchReport, takes
  <2>2. object[j.file] \in Contents
    BY <1>0, <2>1 DEF JobTyped, TInv, FilesTyped
  <2>3. made'[x] = object[j.file] => MadeTyped(x)'
    BY <2>1, <2>2 DEF MadeTyped
  <2> QED
    BY <2>1, <2>3, TypedBegin
<1>2. CASE readUpload(x, j)
  <2>1. CASE refuse(j)
    BY <2>1, TypedRefusal
  <2>2. CASE ~refuse(j)
    <3> DEFINE read == rows(x, <<j.file, parsed[j.file]>>)
    <3>1. /\ j.queue = x[2] /\ x[2] = "trade-normalisation" /\ begin(x, j, "delete", read)
          /\ parsed[j.file] \in Contents
      BY <1>2, <2>2 DEF readUpload, takes
    <3>2. <<j.file, parsed[j.file]>> \in Ledgers \X Contents \cup {<<Nothing, Nothing>>}
      BY <1>0, <3>1 DEF JobTyped
    <3>3. read \in LedgerRows
      BY <3>2, RowsAreTyped DEF LedgerRows
    <3> HIDE DEF read
    <3>4. made'[x] = read => MadeTyped(x)'
      BY <3>1, <3>3 DEF MadeTyped
    <3> QED
      BY <3>1, <3>4, TypedBegin
  <2> QED
    BY <2>1, <2>2
<1>3. CASE readRun(x, j)
  <2>1. j.queue = x[2] /\ x[2] = "local-runner-execution" /\ begin(x, j, "start", Nothing)
    BY <1>3 DEF readRun, takes
  <2>2. at'[x] = "start" => MadeTyped(x)'
    BY <2>1 DEF MadeTyped
  <2> QED
    BY <2>1, <2>2, TypedBegin
<1>4. CASE loadTrades(x, j)
  <2> DEFINE read == rows(x, ledger)
  <2>1. /\ j.queue = x[2] /\ x[2] \in {"equity-reconstruction", "metric-calculation"}
        /\ begin(x, j, "delete", read)
    BY <1>4 DEF loadTrades, takes
  <2>2. read \in DerivedRows
    BY RowsAreTyped DEF TInv, TablesTyped, DerivedRows
  <2> HIDE DEF read
  <2>3. made'[x] = read => MadeTyped(x)'
    BY <2>1, <2>2 DEF MadeTyped
  <2> QED
    BY <2>1, <2>3, TypedBegin
<1>5. CASE readSnapshots(x, j)
  <2>1. CASE refuse(j)
    BY <2>1, TypedRefusal
  <2>2. CASE ~refuse(j)
    <3> DEFINE s == [metrics |-> metrics, curve |-> {}, reported |-> {}]
               read == rows(x, s)
    <3>1. /\ j.queue = x[2] /\ x[2] = "parity-calculation" /\ begin(x, j, "curve", read)
      BY <1>5, <2>2 DEF readSnapshots, takes
    <3>2. s \in [metrics : SUBSET DerivedRows, curve : SUBSET DerivedRows, reported : SUBSET Contents]
      BY DEF TInv, TablesTyped
    <3> HIDE DEF s
    <3>3. read \in ParityRows
      BY <3>2, RowsAreTyped DEF ParityRows
    <3> HIDE DEF read
    <3>4. made'[x] = read => MadeTyped(x)'
      BY <3>1, <3>3 DEF MadeTyped
    <3> QED
      BY <3>1, <3>4, TypedBegin
  <2> QED
    BY <2>1, <2>2
<1> QED
  BY <1>1, <1>2, <1>3, <1>4, <1>5 DEF Begin

(* The steps between, which write no table. *)
LEMMA TypedProceed ==
    ASSUME IInv, TInv, NEW x \in Executors, NEW stage, NEW next, next # "idle", stage # "idle",
           proceed(x, stage, next), NEW m, made' = [made EXCEPT ![x] = m],
           UNCHANGED <<fileVars, tableVars, queueVars>>, RunTyped',
           at'[x] = next /\ made'[x] = m => MadeTyped(x)'
    PROVE  TInv'
<1>1. /\ at' = [at EXCEPT ![x] = next] /\ job' = [job EXCEPT ![x] = job[x]]
      /\ at[x] # "idle" /\ UNCHANGED <<job, faults>>
  BY DEF proceed, IInv, Shapes
<1>2. Stored
  BY DEF Stored, fileVars
<1>3. at'[x] = next /\ job'[x] = job[x] /\ made'[x] = m => ExecutorTyped(x)'
  BY <1>1, <1>2, JobStaysTyped DEF ExecutorTyped, TInv
<1>4. \A y \in Executors : ExecutorTyped(y)'
  <2>1. Shapes /\ \A y \in Executors : ExecutorTyped(y)
    BY DEF IInv, TInv
  <2> QED
    BY <1>1, <1>2, <1>3, <2>1, OthersStayTyped
<1>5. QueuesTyped'
  BY <1>2, QueuesStayTyped DEF TInv
<1> QED
  BY <1>4, <1>5 DEF TInv, FilesTyped, TablesTyped, fileVars, tableVars

LEMMA TypedProceeds ==
    ASSUME IInv, TInv, NEW x \in Executors,
           \/ deleteRows(x) \/ setRunning(x) \/ simulate(x)
           \/ readDrawdown(x) \/ loadReportedParityMetrics(x)
    PROVE  TInv'
<1>0. /\ Shapes /\ ExecutorOK(x) /\ (at[x] # "idle" => MadeTyped(x)) /\ RunTyped /\ TablesTyped /\ FilesTyped
  BY DEF IInv, TInv, ExecutorTyped
<1>1. CASE deleteRows(x)
  <2>1. /\ at[x] = "delete" /\ proceed(x, "delete", "commit") /\ made' = [made EXCEPT ![x] = made[x]]
        /\ UNCHANGED <<fileVars, runVars, tableVars, queueVars, faults>>
    BY <1>0, <1>1 DEF deleteRows, proceed, Shapes
  <2>2. at'[x] = "commit" /\ made'[x] = made[x] => MadeTyped(x)'
    BY <1>0, <2>1 DEF MadeTyped
  <2>3. RunTyped'
    BY <1>0, <2>1 DEF RunTyped, runVars
  <2> QED
    BY <2>1, <2>2, <2>3, TypedProceed
<1>2. CASE setRunning(x)
  <2>1. /\ at[x] = "start" /\ proceed(x, "start", "simulate") /\ made' = [made EXCEPT ![x] = made[x]]
        /\ UNCHANGED <<fileVars, definition, announced, tableVars, queueVars, faults>> /\ status' = "RUNNING"
    BY <1>0, <1>2 DEF setRunning, proceed, Shapes
  <2>2. at'[x] = "simulate" /\ made'[x] = made[x] => MadeTyped(x)'
    BY <1>0, <2>1 DEF MadeTyped, ExecutorOK, StageOK
  <2>3. RunTyped'
    BY <1>0, <2>1 DEF RunTyped
  <2> QED
    BY <2>1, <2>2, <2>3, TypedProceed
<1>3. CASE simulate(x)
  <2> DEFINE read == rows(x, <<Nothing, Nothing>>)
             stage == IF definition = "sound" THEN "delete" ELSE "fail"
  <2>1. /\ at[x] = "simulate" /\ proceed(x, "simulate", stage) /\ made' = [made EXCEPT ![x] = read]
        /\ UNCHANGED <<fileVars, runVars, tableVars, queueVars, faults>>
    BY <1>3 DEF simulate, proceed
  <2>2. read \in LedgerRows
    BY RowsAreTyped DEF LedgerRows
  <2>3. stage # "idle" /\ x[2] = "local-runner-execution"
    BY <1>0, <2>1 DEF ExecutorOK, StageOK
  <2> HIDE DEF read, stage
  <2>4. made'[x] = read => MadeTyped(x)'
    BY <2>2, <2>3 DEF MadeTyped
  <2>5. RunTyped'
    BY <1>0, <2>1 DEF RunTyped, runVars
  <2> QED
    BY <2>1, <2>3, <2>4, <2>5, TypedProceed
<1>4. CASE readDrawdown(x) \/ loadReportedParityMetrics(x)
  <2>1. x[2] = "parity-calculation" /\ made[x] \in ParityRows
    BY <1>0, <1>4 DEF readDrawdown, loadReportedParityMetrics, proceed, ExecutorOK, StageOK, MadeTyped
  <2>2. PICK m : m \in {[made[x] EXCEPT !.of.curve = equity], [made[x] EXCEPT !.of.reported = reportedMetrics]}
                 /\ made' = [made EXCEPT ![x] = m]
    BY <1>4 DEF readDrawdown, loadReportedParityMetrics
  <2>3. m \in ParityRows
    <3>1. equity \subseteq DerivedRows /\ reportedMetrics \subseteq Contents
      BY <1>0 DEF TablesTyped, reportedMetrics
    <3> QED
      BY <2>1, <2>2, <3>1 DEF ParityRows, Rows
  <2>4. /\ proceed(x, "curve", "reported") \/ proceed(x, "reported", "delete")
        /\ UNCHANGED <<fileVars, runVars, tableVars, queueVars, faults>>
    BY <1>4 DEF readDrawdown, loadReportedParityMetrics, proceed
  <2>5. RunTyped'
    BY <1>0, <2>4 DEF RunTyped, runVars
  <2>6. made'[x] = m => MadeTyped(x)'
    BY <2>1, <2>3 DEF MadeTyped
  <2> QED
    BY <2>2, <2>4, <2>5, <2>6, TypedProceed
<1> QED
  BY <1>1, <1>2, <1>3, <1>4

(* The transactions. *)
LEMMA TypedSettle ==
    ASSUME IInv, TInv, NEW x \in Executors, settle(x), FilesTyped', RunTyped', TablesTyped',
           QueuesTyped', UNCHANGED object
    PROVE  TInv'
<1>1. Shapes /\ Stored /\ \A y \in Executors : ExecutorTyped(y)
  BY DEF Stored, IInv, TInv
<1> QED
  BY <1>1, SettledIsTyped DEF TInv

LEMMA TypedEvent ==
    ASSUME TInv, UNCHANGED <<object, lost>>, NEW queue \in Queues,
           queue \notin {"report-parse", "trade-normalisation"},
           waiting' = emitted(Job(queue, Nothing, TRUE))
    PROVE  QueuesTyped'
<1> DEFINE j == Job(queue, Nothing, TRUE)
<1>1. j \in Jobs /\ j.queue = queue
  BY NewJobIsTyped
<1>2. waiting' = emitted(j) /\ Stored
  BY DEF Stored
<1> HIDE DEF j
<1>3. JobTyped(j)'
  BY <1>1 DEF JobTyped
<1> QED
  BY <1>2, <1>3, EmittedIsTyped DEF TInv

LEMMA TypedCommits ==
    ASSUME IInv, TInv, NEW x \in Executors,
           \/ handleReportParse(x) \/ handleTradeNormalisation(x)
           \/ handleLocalRunnerExecution(x) \/ handleEquityReconstruction(x)
           \/ handleMetricCalculation(x) \/ handleParityCalculation(x)
    PROVE  TInv'
<1>0. /\ at[x] = "commit" /\ MadeTyped(x) /\ JobTyped(job[x]) /\ job[x].queue = x[2]
      /\ RunTyped /\ TablesTyped /\ FilesTyped /\ QueuesTyped
  BY DEF TInv, ExecutorTyped, handleReportParse, handleTradeNormalisation, handleLocalRunnerExecution,
     handleEquityReconstruction, handleMetricCalculation, handleParityCalculation, committing
<1>1. CASE handleReportParse(x)
  <2>0. x[2] = "report-parse" /\ job[x].file \in Files /\ made[x] \in Contents
    BY <1>0, <1>1 DEF JobTyped, MadeTyped, handleReportParse
  <2>1. PICK f \in Files : f = job[x].file
    BY <2>0
  <2>2. /\ settle(x) /\ UNCHANGED <<object, checksum, recorded, refused, runVars, tableVars, lost, faults>>
        /\ parsed' = [parsed EXCEPT ![f] = IF made[x] \notin Malformed THEN made[x] ELSE "FAILED"]
        /\ (f \in Ledgers /\ waiting' = emitted(Job("trade-normalisation", f, TRUE))) \/ UNCHANGED waiting
    BY <1>1, <2>1 DEF handleReportParse
  <2>3. FilesTyped'
    BY <1>0, <2>0, <2>2 DEF FilesTyped
  <2>4. Stored
    BY <2>2 DEF Stored
  <2>5. QueuesTyped'
    <3>1. CASE f \in Ledgers /\ waiting' = emitted(Job("trade-normalisation", f, TRUE))
      <4> DEFINE j == Job("trade-normalisation", f, TRUE)
      <4>1. j \in Jobs /\ j.queue = "trade-normalisation" /\ j.file = f
        <5>1. f \in Files \cup {Nothing} /\ "trade-normalisation" \in Queues /\ TRUE \in BOOLEAN
          BY DEF Queues
        <5> QED
          BY <5>1, NewJobIsTyped
      <4>2. waiting' = emitted(j)
        BY <3>1
      <4> HIDE DEF j
      <4>3. JobTyped(j)'
        BY <3>1, <4>1 DEF JobTyped
      <4> QED
        BY <1>0, <2>2, <2>4, <4>2, <4>3, EmittedIsTyped
    <3>2. CASE UNCHANGED waiting
      BY <1>0, <2>2, <2>4, <3>2, QueuesStayTyped DEF queueVars
    <3> QED
      BY <2>2, <3>1, <3>2
  <2>6. RunTyped' /\ TablesTyped'
    BY <1>0, <2>2 DEF RunTyped, TablesTyped, runVars, tableVars
  <2> QED
    BY <2>2, <2>3, <2>5, <2>6, TypedSettle
<1>2. CASE handleTradeNormalisation(x) \/ handleLocalRunnerExecution(x)
  <2>1. /\ x[2] \in {"trade-normalisation", "local-runner-execution"}
        /\ UNCHANGED <<fileVars, faults, definition, equity, metrics, parity, lost>> /\ settle(x)
        /\ ledger' = replaced(x)
        /\ waiting' = emitted(Job("equity-reconstruction", Nothing, TRUE))
    BY <1>2 DEF handleTradeNormalisation, handleLocalRunnerExecution, committing, runVars
  <2>2. ledger' \subseteq ledger \cup {made[x]} /\ made[x] \in LedgerRows
    BY <1>0, <2>1 DEF replaced, Table, MadeTyped
  <2>3. TablesTyped' /\ FilesTyped'
    BY <1>0, <2>1, <2>2 DEF TablesTyped, FilesTyped, fileVars
  <2>4. RunTyped'
    BY <1>0, <1>2, <2>1 DEF RunTyped, runVars, handleTradeNormalisation, handleLocalRunnerExecution
  <2>5. QueuesTyped'
    BY <2>1, TypedEvent DEF fileVars, Queues
  <2> QED
    BY <2>1, <2>3, <2>4, <2>5, TypedSettle DEF fileVars
<1>3. CASE handleEquityReconstruction(x)
  <2>1. /\ x[2] = "equity-reconstruction"
        /\ UNCHANGED <<fileVars, faults, runVars, ledger, metrics, parity, lost>> /\ settle(x)
        /\ equity' = replaced(x)
        /\ waiting' = emitted(Job("metric-calculation", Nothing, TRUE))
    BY <1>3 DEF handleEquityReconstruction, committing
  <2>2. equity' \subseteq equity \cup {made[x]} /\ made[x] \in DerivedRows
    BY <1>0, <2>1 DEF replaced, Table, MadeTyped
  <2>3. TablesTyped' /\ FilesTyped' /\ RunTyped'
    BY <1>0, <2>1, <2>2 DEF TablesTyped, FilesTyped, fileVars, RunTyped, runVars
  <2>5. QueuesTyped'
    BY <2>1, TypedEvent DEF fileVars, Queues
  <2> QED
    BY <2>1, <2>3, <2>5, TypedSettle DEF fileVars
<1>4. CASE handleMetricCalculation(x)
  <2>1. /\ x[2] = "metric-calculation"
        /\ UNCHANGED <<fileVars, faults, runVars, ledger, equity, parity, lost, job, made>>
        /\ at' = [at EXCEPT ![x] = "mark"] /\ metrics' = replaced(x)
        /\ UNCHANGED waiting \/ waiting' = emitted(Job("parity-calculation", Nothing, TRUE))
    BY <1>4 DEF handleMetricCalculation, committing
  <2>2. metrics' \subseteq metrics \cup {made[x]} /\ made[x] \in DerivedRows
    BY <1>0, <2>1 DEF replaced, Table, MadeTyped
  <2>3. TablesTyped' /\ FilesTyped' /\ RunTyped'
    BY <1>0, <2>1, <2>2 DEF TablesTyped, FilesTyped, fileVars, RunTyped, runVars
  <2>4. Stored
    BY <2>1 DEF Stored, fileVars
  <2>5. QueuesTyped'
    <3>1. CASE UNCHANGED waiting
      BY <1>0, <2>1, <2>4, <3>1, QueuesStayTyped DEF queueVars
    <3>2. CASE waiting' = emitted(Job("parity-calculation", Nothing, TRUE))
      BY <2>1, <3>2, TypedEvent DEF fileVars, Queues
    <3> QED
      BY <2>1, <3>1, <3>2
  <2>6. \A y \in Executors : ExecutorTyped(y)'
    <3>1. /\ Shapes /\ (\A y \in Executors : ExecutorTyped(y))
          /\ made' = [made EXCEPT ![x] = made[x]] /\ job' = [job EXCEPT ![x] = job[x]]
      BY <2>1 DEF IInv, TInv, Shapes
    <3>2. at'[x] = "mark" /\ job'[x] = job[x] /\ made'[x] = made[x] => ExecutorTyped(x)'
      BY <1>0, <2>1, <2>2, <2>4, <3>1, JobStaysTyped DEF ExecutorTyped, MadeTyped
    <3>3. at' = [at EXCEPT ![x] = "mark"]
      BY <2>1
    <3> QED
      BY <2>4, <3>1, <3>2, <3>3, OthersStayTyped
  <2> QED
    BY <2>3, <2>5, <2>6 DEF TInv
<1>5. CASE handleParityCalculation(x)
  <2>1. /\ x[2] = "parity-calculation"
        /\ UNCHANGED <<fileVars, faults, runVars, ledger, equity, metrics, queueVars>> /\ settle(x)
        /\ parity' = replaced(x)
    BY <1>5 DEF handleParityCalculation, committing
  <2>2. parity' \subseteq parity \cup {made[x]} /\ made[x] \in ParityRows
    BY <1>0, <2>1 DEF replaced, Table, MadeTyped
  <2>3. TablesTyped' /\ FilesTyped' /\ RunTyped'
    BY <1>0, <2>1, <2>2 DEF TablesTyped, FilesTyped, fileVars, RunTyped, runVars
  <2>4. Stored
    BY <2>1 DEF Stored, fileVars
  <2>5. QueuesTyped'
    BY <1>0, <2>1, <2>4, QueuesStayTyped
  <2> QED
    BY <2>1, <2>3, <2>5, TypedSettle DEF fileVars
<1> QED
  BY <1>1, <1>2, <1>3, <1>4, <1>5

LEMMA TypedStatus ==
    ASSUME IInv, TInv, NEW x \in Executors, markFailed(x) \/ markRunAnalysed(x)
    PROVE  TInv'
<1>1. UNCHANGED <<fileVars, definition, tableVars, queueVars, faults>> /\ settle(x)
  BY DEF markFailed, markRunAnalysed
<1>2. RunTyped'
  BY <1>1 DEF markFailed, markRunAnalysed, TInv, RunTyped
<1>3. Stored
  BY <1>1 DEF Stored, fileVars
<1>4. QueuesTyped'
  BY <1>1, <1>3, QueuesStayTyped DEF TInv
<1> QED
  BY <1>1, <1>2, <1>4, TypedSettle DEF TInv, FilesTyped, TablesTyped, fileVars, tableVars

LEMMA TypesNext == IInv /\ TInv /\ [Next]_vars => TInv'
<1> SUFFICES ASSUME IInv, TInv, [Next]_vars PROVE TInv'
  OBVIOUS
<1>1. ASSUME NEW f \in Files,
             \/ \E c \in Contents : putReport(f, c)
             \/ fetchForChecksum(f)
             \/ \E run \in Attachments : completeReportUpload(f, run)
      PROVE  TInv'
  BY <1>1, TypedUploads
<1>2. ASSUME NEW x \in Executors, Step(x) PROVE TInv'
  BY <1>2, TypedBegins, TypedProceeds, TypedCommits, TypedStatus DEF Step
<1>3. ASSUME NEW x \in Executors, Throw(x) \/ Die(x) \/ Stall(x) PROVE TInv'
  BY <1>3, TypedFaults
<1>4. ASSUME NEW j \in BagToSet(waiting), Drop(j) PROVE TInv'
  BY <1>4, TypedDrop
<1>5. CASE UNCHANGED vars
  <2>1. UNCHANGED <<fileVars, runVars, tableVars, queueVars, execVars, faults>>
    BY <1>5 DEF vars
  <2>2. Stored
    BY <2>1 DEF Stored, fileVars
  <2>3. QueuesTyped'
    BY <2>1, <2>2, QueuesStayTyped DEF TInv
  <2>4. \A y \in Executors : ExecutorTyped(y)'
    BY <2>1, <2>2, ExecutorsStayTyped DEF TInv, execVars
  <2> QED
    BY <2>1, <2>3, <2>4 DEF TInv, FilesTyped, RunTyped, TablesTyped, fileVars, runVars, tableVars
<1> QED
  BY <1>1, <1>2, <1>3, <1>4, <1>5 DEF Next

(* The chain is type correct: among it that an executor has a job exactly    *)
(* while it works, that a job has neither more attempts nor more stalls than *)
(* it is given, and that a row names sources that exist.                    *)
THEOREM ChainTypeCorrect == Spec => []TypeOK
<1>1. Spec => []TInv
  BY Invariance, TypesInit, TypesNext, PTL DEF Spec
<1> QED
  BY <1>1, TypesSuffice, PTL

-----------------------------------------------------------------------------
(* A run is marked: an execution of a metric-calculation job keeps its lock, *)
(* or the job waits for another, or an execution has come to its end; and   *)
(* nothing takes SUCCEEDED back from a TradingView run.                     *)
Unmarked ==
    \/ \E j \in BagToSet(waiting) : j.queue = "metric-calculation"
    \/ \E x \in Executors : owned[x] /\ x[2] = "metric-calculation"

Calculated ==
    \/ metrics # {}
    \/ \E x \in Executors : at[x] # "idle" /\ x[2] = "metric-calculation"

MInv ==
    definition = "none" /\ lost = {} /\ Calculated => status = "SUCCEEDED" \/ Unmarked

(* The executors of other queues, and what they emit, do not count. *)
LEMMA MarksStill ==
    ASSUME MInv, lost \subseteq lost', UNCHANGED definition,
           metrics' # {} => Calculated,
           status = "SUCCEEDED" => status' = "SUCCEEDED" \/ definition # "none",
           \A j \in BagToSet(waiting) :
              j.queue = "metric-calculation" => j \in BagToSet(waiting'),
           \A x \in Executors : x[2] = "metric-calculation" =>
              (owned[x] => owned'[x]) /\ (at'[x] # "idle" => at[x] # "idle")
    PROVE  MInv'
<1> SUFFICES ASSUME definition' = "none", lost' = {}, Calculated'
             PROVE  status' = "SUCCEEDED" \/ Unmarked'
  BY DEF MInv
<1>1. Calculated
  BY DEF Calculated
<1>2. status = "SUCCEEDED" \/ Unmarked
  BY <1>1 DEF MInv
<1> QED
  BY <1>2 DEF Unmarked

LEMMA EmittedStay ==
    ASSUME NEW j, waiting' = emitted(j)
    PROVE  BagToSet(waiting') = BagToSet(waiting) \cup {j}
  BY DEF BagToSet, emitted, SetToBag, (+)

LEMMA TakenStay ==
    ASSUME IsABag(waiting), NEW j \in BagToSet(waiting)
    PROVE  BagToSet(waiting) \subseteq BagToSet(waiting (-) SetToBag({j})) \cup {j}
  BY DEF BagToSet, SetToBag, (-), IsABag

(* An attempt given back waits again under the name of its queue; one given *)
(* up is lost.                                                              *)
LEMMA GivenBack ==
    ASSUME IInv, NEW j \in JobRecord, retried(j) \/ takenBack(j)
    PROVE  /\ BagToSet(waiting) \subseteq BagToSet(waiting')
           /\ lost \subseteq lost'
           /\ lost' # {} \/ \E k \in BagToSet(waiting') : k.queue = j.queue
<1>1. ASSUME NEW k, k.queue = j.queue, waiting' = emitted(k), UNCHANGED lost
      PROVE  /\ BagToSet(waiting) \subseteq BagToSet(waiting')
             /\ lost \subseteq lost'
             /\ \E i \in BagToSet(waiting') : i.queue = j.queue
  BY <1>1, EmittedStay
<1>2. ASSUME lost' = lost \cup {j}, UNCHANGED waiting
      PROVE  /\ BagToSet(waiting) \subseteq BagToSet(waiting')
             /\ lost \subseteq lost' /\ lost' # {}
  BY <1>2
<1>3. CASE retried(j)
  <2>1. [j EXCEPT !.attempts = @ + 1].queue = j.queue
    BY DEF JobRecord
  <2> QED
    BY <1>1, <1>2, <1>3, <2>1 DEF retried
<1>4. CASE takenBack(j)
  <2>1. [j EXCEPT !.stalls = @ + 1].queue = j.queue
    BY DEF JobRecord
  <2> QED
    BY <1>1, <1>2, <1>4, <2>1 DEF takenBack
<1> QED
  BY <1>3, <1>4

LEMMA FaultsMark ==
    ASSUME IInv, MInv, NEW x \in Executors, Throw(x) \/ Die(x) \/ Stall(x)
    PROVE  MInv'
<1>1. /\ UNCHANGED <<definition, status, metrics>>
      /\ at[x] # "idle" /\ job[x] \in JobRecord /\ job[x].queue = x[2]
  BY DEF Throw, Die, Stall, fault, runVars, tableVars, IInv, OwnersWork, ExecutorOK
<1>2. /\ \A y \in Executors : at'[y] # "idle" => at[y] # "idle"
      /\ \A y \in Executors \ {x} : owned'[y] = owned[y]
  BY DEF Throw, Die, Stall, settle, IInv, Shapes
<1>3. CASE owned[x]
  <2>1. /\ BagToSet(waiting) \subseteq BagToSet(waiting')
        /\ lost \subseteq lost'
        /\ lost' # {} \/ \E k \in BagToSet(waiting') : k.queue = x[2]
    BY <1>1, <1>3, GivenBack DEF Throw, Die, Stall
  <2>2. CASE x[2] = "metric-calculation"
    BY <2>1, <2>2 DEF MInv, Unmarked
  <2>3. CASE x[2] # "metric-calculation"
    <3>1. metrics' # {} => Calculated
      BY <1>1 DEF Calculated
    <3> QED
      BY <1>1, <1>2, <2>1, <2>3, <3>1, MarksStill
  <2> QED
    BY <2>2, <2>3
<1>4. CASE ~owned[x]
  <2>1. UNCHANGED <<waiting, lost>>
    BY <1>4 DEF Throw, Die, Stall, queueVars
  <2>2. metrics' # {} => Calculated
    BY <1>1 DEF Calculated
  <2> QED
    BY <1>1, <1>2, <1>4, <2>1, <2>2, MarksStill
<1> QED
  BY <1>3, <1>4

LEMMA BeginsMark ==
    ASSUME IInv, IsABag(waiting), MInv, NEW x \in Executors, NEW j \in BagToSet(waiting),
           Begin(x, j)
    PROVE  MInv'
<1>0. j \in JobRecord /\ UNCHANGED <<definition, status, metrics>>
  BY DEF IInv, WaitingOK, JobOK, Begin, fetchReport, readUpload, readRun, loadTrades,
     readSnapshots, begin, refuse, runVars, tableVars
<1>1. BagToSet(waiting) \subseteq BagToSet(waiting (-) SetToBag({j})) \cup {j}
  BY TakenStay
<1>2. metrics' # {} => Calculated
  BY <1>0 DEF Calculated
<1>3. ASSUME NEW stage, NEW read, begin(x, j, stage, read), j.queue = x[2]
      PROVE  MInv'
  <2>1. /\ waiting' = waiting (-) SetToBag({j}) /\ UNCHANGED lost
        /\ owned'[x] = TRUE
        /\ \A y \in Executors \ {x} : owned'[y] = owned[y] /\ at'[y] = at[y]
    BY <1>3 DEF begin, IInv, Shapes
  <2>2. CASE x[2] = "metric-calculation"
    BY <2>1, <2>2 DEF MInv, Unmarked
  <2>3. CASE x[2] # "metric-calculation"
    BY <1>0, <1>1, <1>2, <1>3, <2>1, <2>3, MarksStill
  <2> QED
    BY <2>2, <2>3
<1>4. ASSUME refuse(j), j.queue # "metric-calculation" PROVE MInv'
  <2> DEFINE rest == waiting (-) SetToBag({j})
             k == [j EXCEPT !.attempts = @ + 1]
  <2>1. /\ UNCHANGED <<owned, at>>
        /\ \/ waiting' = rest (+) SetToBag({k}) /\ UNCHANGED lost
           \/ waiting' = rest /\ lost' = lost \cup {j}
    BY <1>4 DEF refuse, execVars
  <2> HIDE DEF rest, k
  <2>2. BagToSet(rest) \subseteq BagToSet(waiting')
    BY <2>1 DEF BagToSet, SetToBag, (+)
  <2>3. BagToSet(waiting) \subseteq BagToSet(rest) \cup {j}
    BY <1>1 DEF rest
  <2> QED
    BY <1>0, <1>2, <1>4, <2>1, <2>2, <2>3, MarksStill
<1>5. CASE fetchReport(x, j)
  BY <1>3, <1>5 DEF fetchReport, takes
<1>6. CASE readUpload(x, j)
  BY <1>3, <1>4, <1>6 DEF readUpload, takes
<1>7. CASE readRun(x, j)
  BY <1>3, <1>7 DEF readRun, takes
<1>8. CASE loadTrades(x, j)
  BY <1>3, <1>8 DEF loadTrades, takes
<1>9. CASE readSnapshots(x, j)
  BY <1>3, <1>4, <1>9 DEF readSnapshots, takes
<1> QED
  BY <1>5, <1>6, <1>7, <1>8, <1>9 DEF Begin

(* Between its first query and its last an execution keeps its lock, and    *)
(* the end of an execution of another queue marks nothing.                  *)
LEMMA WorksMark ==
    ASSUME IInv, MInv, NEW x \in Executors,
           \/ deleteRows(x) \/ handleReportParse(x) \/ handleTradeNormalisation(x)
           \/ setRunning(x) \/ simulate(x) \/ markFailed(x) \/ handleLocalRunnerExecution(x)
           \/ handleEquityReconstruction(x) \/ handleMetricCalculation(x)
           \/ readDrawdown(x) \/ loadReportedParityMetrics(x) \/ handleParityCalculation(x)
    PROVE  MInv'
<1>1. at[x] # "idle"
  BY DEF deleteRows, handleReportParse, handleTradeNormalisation, setRunning, simulate,
     markFailed, handleLocalRunnerExecution, handleEquityReconstruction,
     handleMetricCalculation, readDrawdown, loadReportedParityMetrics,
     handleParityCalculation, proceed, committing
<1>2. UNCHANGED <<definition, lost>>
  BY DEF deleteRows, handleReportParse, handleTradeNormalisation, setRunning, simulate,
     markFailed, handleLocalRunnerExecution, handleEquityReconstruction,
     handleMetricCalculation, readDrawdown, loadReportedParityMetrics,
     handleParityCalculation, runVars, queueVars
<1>3. BagToSet(waiting) \subseteq BagToSet(waiting')
  <2>1. UNCHANGED waiting \/ \E j : waiting' = emitted(j)
    BY DEF deleteRows, handleReportParse, handleTradeNormalisation, setRunning, simulate,
       markFailed, handleLocalRunnerExecution, handleEquityReconstruction,
       handleMetricCalculation, readDrawdown, loadReportedParityMetrics,
       handleParityCalculation, queueVars
  <2> QED
    BY <2>1, EmittedStay
<1>4. metrics' # {} => Calculated
  <2>1. CASE handleMetricCalculation(x)
    BY <1>1, <2>1 DEF handleMetricCalculation, committing, Calculated
  <2>2. UNCHANGED metrics \/ handleMetricCalculation(x)
    BY DEF deleteRows, handleReportParse, handleTradeNormalisation, setRunning, simulate,
       markFailed, handleLocalRunnerExecution, handleEquityReconstruction,
       readDrawdown, loadReportedParityMetrics, handleParityCalculation, tableVars
  <2> QED
    BY <2>1, <2>2 DEF Calculated
<1>5. status = "SUCCEEDED" => status' = "SUCCEEDED" \/ definition # "none"
  <2>1. CASE at[x] \in {"start", "fail"}
    BY <2>1 DEF IInv, ExecutorOK, StageOK, Sourced
  <2>2. CASE at[x] \notin {"start", "fail"}
    BY <2>2 DEF deleteRows, handleReportParse, handleTradeNormalisation, setRunning, simulate,
       markFailed, handleLocalRunnerExecution, handleEquityReconstruction,
       handleMetricCalculation, readDrawdown, loadReportedParityMetrics,
       handleParityCalculation, proceed, runVars
  <2> QED
    BY <2>1, <2>2
<1>6. ASSUME NEW y \in Executors, y[2] = "metric-calculation"
      PROVE  (owned[y] => owned'[y]) /\ (at'[y] # "idle" => at[y] # "idle")
  <2>1. CASE settle(x) /\ x[2] # "metric-calculation"
    BY <1>6, <2>1 DEF settle, IInv, Shapes
  <2>2. CASE UNCHANGED owned /\ \A z \in Executors \ {x} : at'[z] = at[z]
    BY <1>1, <1>6, <2>2
  <2>3. at[x] = "fail" => x[2] # "metric-calculation"
    BY DEF IInv, ExecutorOK, StageOK
  <2>4. CASE \/ handleReportParse(x) \/ handleTradeNormalisation(x) \/ markFailed(x)
             \/ handleLocalRunnerExecution(x) \/ handleEquityReconstruction(x)
             \/ handleParityCalculation(x)
    BY <2>1, <2>3, <2>4 DEF handleReportParse, handleTradeNormalisation, markFailed,
       handleLocalRunnerExecution, handleEquityReconstruction, handleParityCalculation, committing
  <2>5. CASE \/ deleteRows(x) \/ setRunning(x) \/ simulate(x) \/ handleMetricCalculation(x)
             \/ readDrawdown(x) \/ loadReportedParityMetrics(x)
    <3>1. UNCHANGED owned /\ \A z \in Executors \ {x} : at'[z] = at[z]
      BY <2>5 DEF deleteRows, setRunning, simulate, handleMetricCalculation, readDrawdown,
         loadReportedParityMetrics, proceed, IInv, Shapes
    <3> QED
      BY <2>2, <3>1
  <2> QED
    BY <2>4, <2>5
<1> QED
  BY <1>2, <1>3, <1>4, <1>5, <1>6, MarksStill

LEMMA MarksInit == Init => MInv
  BY DEF Init, MInv, Calculated

LEMMA MarksNext == IInv /\ IsABag(waiting) /\ MInv /\ [Next]_vars => MInv'
<1> SUFFICES ASSUME IInv, IsABag(waiting), MInv, [Next]_vars PROVE MInv'
  OBVIOUS
<1>1. ASSUME NEW f \in Files,
             \/ \E c \in Contents : putReport(f, c)
             \/ fetchForChecksum(f)
             \/ \E run \in Attachments : completeReportUpload(f, run)
      PROVE  MInv'
  <2>1. UNCHANGED <<definition, status, metrics, lost, owned, at>>
    BY <1>1 DEF putReport, fetchForChecksum, completeReportUpload, runVars, tableVars,
       queueVars, execVars
  <2>2. BagToSet(waiting) \subseteq BagToSet(waiting')
    <3>1. UNCHANGED waiting \/ \E j : waiting' = emitted(j)
      BY <1>1 DEF putReport, fetchForChecksum, completeReportUpload, queueVars
    <3> QED
      BY <3>1, EmittedStay
  <2>3. metrics' # {} => Calculated
    BY <2>1 DEF Calculated
  <2> QED
    BY <2>1, <2>2, <2>3, MarksStill
<1>2. ASSUME NEW x \in Executors, Step(x) PROVE MInv'
  <2>1. CASE markRunAnalysed(x)
    BY <2>1 DEF markRunAnalysed, MInv
  <2> QED
    BY <1>2, <2>1, BeginsMark, WorksMark DEF Step
<1>3. ASSUME NEW x \in Executors, Throw(x) \/ Die(x) \/ Stall(x) PROVE MInv'
  BY <1>3, FaultsMark
<1>4. ASSUME NEW j \in BagToSet(waiting), Drop(j) PROVE MInv'
  BY <1>4 DEF Drop, MInv
<1>5. CASE UNCHANGED vars
  BY <1>5 DEF vars, runVars, tableVars, queueVars, execVars, MInv, Calculated, Unmarked
<1> QED
  BY <1>1, <1>2, <1>3, <1>4, <1>5 DEF Next

(* While no job is given up, a TradingView run whose metrics are there is    *)
(* marked SUCCEEDED, or its metrics are being calculated again and the       *)
(* execution that does so will mark it: for any number of processes, and    *)
(* however often one dies between the metrics and the mark.                 *)
THEOREM ChainMarksAnalysedRuns == Spec => []AnalysedRunSucceeds
<1>1. IInv /\ MInv => AnalysedRunSucceeds
  BY DEF IInv, OwnersWork, MInv, Calculated, Unmarked, AnalysedRunSucceeds, Outstanding
<1>2. TypeOK => IsABag(waiting)
  BY DEF TypeOK
<1> QED
  BY <1>1, <1>2, Invariance, ChainTypeCorrect, MarksInit, MarksNext, PTL DEF Spec

-----------------------------------------------------------------------------
(* Convergence.  The queues of worker-analytics, one after the other. *)
Chain == {"equity-reconstruction", "metric-calculation", "parity-calculation"}

(* A job of the queue waits. *)
Waits(queue) == \E j \in BagToSet(waiting) : j.queue = queue

(* The executors of the process p. *)
curver(p) == <<p, "equity-reconstruction">>
meter(p) == <<p, "metric-calculation">>
judge(p) == <<p, "parity-calculation">>

(* An execution that has lost its lock is followed by another.              *)
HeldOK(x) == at[x] # "idle" /\ ~owned[x] => Waits(x[2])

(* What a transaction is about to replace is what the table holds.          *)
OldOK(x) == at[x] = "commit" /\ x[2] \in Chain => old[x] = Table(x[2])

Single(table, source) == \E r \in table : table = {r} /\ r.of = source

(* A ledger leads to a curve computed from it: there is a job, an execution  *)
(* that has read this ledger, or the curve.                                 *)
CurveComes(p) ==
    ledger # {} =>
        \/ Waits("equity-reconstruction")
        \/ at[curver(p)] # "idle" /\ made[curver(p)].of = ledger
        \/ at[curver(p)] = "idle" /\ Single(equity, ledger)

BeforeCurve(p) == Waits("equity-reconstruction") \/ at[curver(p)] # "idle"

(* A curve leads to metrics of the ledger, unless a new curve comes before.  *)
MetricsCome(p) ==
    equity # {} =>
        \/ BeforeCurve(p)
        \/ Waits("metric-calculation")
        \/ at[meter(p)] \in {"delete", "commit"} /\ made[meter(p)].of = ledger
        \/ at[meter(p)] \in {"idle", "mark"} /\ Single(metrics, ledger)

BeforeMetrics(p) == Waits("metric-calculation") \/ at[meter(p)] \in {"delete", "commit"}

Compared == \E r \in parity : parity = {r} /\ r.of.metrics = metrics /\ r.of.curve = equity

(* Metrics lead to a verdict on them and on the curve.                      *)
VerdictComes(p) ==
    Verified /\ metrics # {} =>
        \/ BeforeCurve(p)
        \/ BeforeMetrics(p)
        \/ Waits("parity-calculation")
        \/ /\ at[judge(p)] # "idle" /\ made[judge(p)].of.metrics = metrics
           /\ at[judge(p)] # "curve" => made[judge(p)].of.curve = equity
        \/ at[judge(p)] = "idle" /\ Compared

(* The links of the chain, and the invariant of a deployment of one process. *)
ChainOK(p) == CurveComes(p) /\ MetricsCome(p) /\ VerdictComes(p)
Orderly(p) == (\A x \in Executors : HeldOK(x) /\ OldOK(x)) /\ ChainOK(p)

Deployment ==
    /\ deployed \subseteq Workers
    /\ old = [x \in Executors |-> old[x]]
    /\ \A x \in Executors : at[x] # "idle" => x[1] \in deployed

CInv == Deployment /\ (lost = {} => \A p \in Workers : deployed = {p} => Orderly(p))

-----------------------------------------------------------------------------
(* Which queues have a job that waits after a step. *)
LEMMA EmittedWaits ==
    ASSUME NEW j, waiting' = emitted(j)
    PROVE  \A q : (Waits(q) => Waits(q)') /\ Waits(j.queue)'
<1>1. BagToSet(waiting') = BagToSet(waiting) \cup {j}
  BY DEF BagToSet, emitted, SetToBag, (+)
<1> QED
  BY <1>1 DEF Waits

LEMMA OthersWait ==
    ASSUME NEW j, waiting' = waiting (-) SetToBag({j}), IsABag(waiting)
    PROVE  \A q : Waits(q) /\ q # j.queue => Waits(q)'
<1>1. ASSUME NEW k \in BagToSet(waiting), k # j PROVE k \in BagToSet(waiting')
  <2>1. waiting[k] \in Nat /\ waiting[k] > 0
    BY <1>1 DEF BagToSet, IsABag
  <2> QED
    BY <1>1, <2>1, SingletonBag DEF BagToSet, (-)
<1> QED
  BY <1>1 DEF Waits

LEMMA RefusedWaits ==
    ASSUME NEW j, refuse(j), lost' = {}, IsABag(waiting), j \in Jobs
    PROVE  \A q : Waits(q) => Waits(q)'
<1> DEFINE k == [j EXCEPT !.attempts = @ + 1]
           rest == waiting (-) SetToBag({j})
<1>1. waiting' = rest (+) SetToBag({k}) /\ k.queue = j.queue
  BY DEF refuse, Jobs
<1>2. ASSUME NEW i \in BagToSet(waiting), i # j PROVE i \in BagToSet(rest)
  <2>1. waiting[i] \in Nat /\ waiting[i] > 0
    BY <1>2 DEF BagToSet, IsABag
  <2> QED
    BY <1>2, <2>1, SingletonBag DEF BagToSet, (-)
<1> HIDE DEF k, rest
<1>3. BagToSet(waiting') = BagToSet(rest) \cup {k}
  BY <1>1 DEF BagToSet, SetToBag, (+)
<1> QED
  BY <1>1, <1>2, <1>3 DEF Waits

(* The three links while nothing that concerns them happens. *)
WaitsKept == \A q : Waits(q) => Waits(q)'

LEMMA CurveStill ==
    ASSUME NEW p, CurveComes(p), UNCHANGED <<ledger, equity>>,
           Waits("equity-reconstruction") => Waits("equity-reconstruction")',
           at'[curver(p)] = "idle" <=> at[curver(p)] = "idle",
           made'[curver(p)] = made[curver(p)]
    PROVE  CurveComes(p)'
  BY DEF CurveComes, Single, curver

LEMMA MetricsStill ==
    ASSUME NEW p, MetricsCome(p), UNCHANGED <<ledger, equity, metrics>>,
           \A q \in Chain \ {"parity-calculation"} : Waits(q) => Waits(q)',
           at[curver(p)] # "idle" => at'[curver(p)] # "idle",
           at[meter(p)] \in {"delete", "commit"} =>
               at'[meter(p)] \in {"delete", "commit"} /\ made'[meter(p)] = made[meter(p)],
           at[meter(p)] \in {"idle", "mark"} => at'[meter(p)] \in {"idle", "mark"}
    PROVE  MetricsCome(p)'
  BY DEF MetricsCome, BeforeCurve, Chain, Single, curver, meter

LEMMA VerdictStill ==
    ASSUME NEW p, VerdictComes(p), UNCHANGED <<equity, metrics, parity>>,
           \A q \in Chain : Waits(q) => Waits(q)',
           at[curver(p)] # "idle" => at'[curver(p)] # "idle",
           at[meter(p)] \in {"delete", "commit"} => at'[meter(p)] \in {"delete", "commit"},
           at'[judge(p)] = "idle" <=> at[judge(p)] = "idle",
           at[judge(p)] # "curve" => at'[judge(p)] # "curve",
           at[judge(p)] # "idle" => /\ made'[judge(p)].of.metrics = made[judge(p)].of.metrics
                                    /\ at'[judge(p)] # "curve" =>
                                          \/ made'[judge(p)].of.curve = equity
                                          \/ /\ at[judge(p)] # "curve"
                                             /\ made'[judge(p)].of.curve = made[judge(p)].of.curve
    PROVE  VerdictComes(p)'
  BY DEF VerdictComes, BeforeCurve, BeforeMetrics, Chain, Compared, curver, meter, judge

(* A job of a queue that waits makes up for what the links after it lack. *)
LEMMA CurveWaits ==
    ASSUME NEW p, Waits("equity-reconstruction")'
    PROVE  ChainOK(p)'
  BY DEF ChainOK, CurveComes, MetricsCome, VerdictComes, BeforeCurve

LEMMA MetricsWait ==
    ASSUME NEW p, Waits("metric-calculation")'
    PROVE  MetricsCome(p)' /\ VerdictComes(p)'
  BY DEF MetricsCome, VerdictComes, BeforeMetrics

LEMMA VerdictWaits ==
    ASSUME NEW p, Waits("parity-calculation")'
    PROVE  VerdictComes(p)'
  BY DEF VerdictComes

LEMMA ChainStill ==
    ASSUME NEW p, ChainOK(p), UNCHANGED tableVars, \A q \in Chain : Waits(q) => Waits(q)',
           \A q \in Chain : at'[<<p, q>>] = at[<<p, q>>] /\ made'[<<p, q>>] = made[<<p, q>>]
    PROVE  ChainOK(p)'
<1>1. /\ at'[curver(p)] = at[curver(p)] /\ made'[curver(p)] = made[curver(p)]
      /\ at'[meter(p)] = at[meter(p)] /\ made'[meter(p)] = made[meter(p)]
      /\ at'[judge(p)] = at[judge(p)] /\ made'[judge(p)] = made[judge(p)]
  BY DEF Chain, curver, meter, judge
<1>2. UNCHANGED <<ledger, equity, metrics, parity>>
  BY DEF tableVars
<1>3. CurveComes(p)'
  BY <1>1, <1>2, CurveStill DEF ChainOK, Chain
<1>4. MetricsCome(p)'
  BY <1>1, <1>2, MetricsStill DEF ChainOK
<1>5. VerdictComes(p)'
  BY <1>1, <1>2 DEF ChainOK, VerdictComes, BeforeCurve, BeforeMetrics, Chain, Compared, curver, meter, judge
<1> QED
  BY <1>3, <1>4, <1>5 DEF ChainOK

-----------------------------------------------------------------------------
(* What every step leaves as it was: jobs that were given up stay so, and no *)
(* process is deployed or withdrawn.                                        *)
Steady == UNCHANGED deployed /\ lost \subseteq lost' /\ Deployment'

LEMMA SteadyMove ==
    ASSUME IInv, Deployment, NEW x \in Executors, x[1] \in deployed, UNCHANGED deployed,
           lost \subseteq lost', NEW stage, at' = [at EXCEPT ![x] = stage],
           UNCHANGED old \/ (\E o : old' = [old EXCEPT ![x] = o])
    PROVE  Steady
  BY DEF IInv, Shapes, Deployment, Steady

LEMMA SteadyUploads ==
    ASSUME IInv, Deployment, NEW f,
           \/ \E c \in Contents : putReport(f, c)
           \/ fetchForChecksum(f)
           \/ \E run \in Attachments : completeReportUpload(f, run)
    PROVE  Steady
<1>1. UNCHANGED <<runVars, execVars, lost>>
  BY DEF putReport, fetchForChecksum, completeReportUpload, queueVars
<1> QED
  BY <1>1 DEF Steady, Deployment, runVars, execVars

LEMMA SteadyFaults ==
    ASSUME IInv, Deployment, NEW x \in Executors, Throw(x) \/ Die(x) \/ Stall(x)
    PROVE  Steady
<1>1. UNCHANGED deployed /\ at[x] # "idle" /\ x[1] \in deployed
  BY DEF Throw, Die, Stall, fault, IInv, OwnersWork, runVars, Deployment
<1>2. lost \subseteq lost'
  BY DEF Throw, Die, Stall, retried, takenBack, queueVars
<1>3. CASE settle(x)
  BY <1>1, <1>2, <1>3, SteadyMove DEF settle
<1>4. CASE UNCHANGED <<at, old>>
  BY <1>1, <1>2, <1>4 DEF Steady, Deployment
<1> QED
  BY <1>3, <1>4 DEF Throw, Die, Stall

LEMMA SteadyDrop ==
    ASSUME IInv, Deployment, NEW j, Drop(j)
    PROVE  Steady
  BY DEF Drop, fault, Steady, Deployment, runVars, execVars

LEMMA SteadyStep ==
    ASSUME IInv, Deployment, NEW x \in Executors, Step(x)
    PROVE  Steady
<1>1. ASSUME NEW j, Begin(x, j) PROVE Steady
  <2>1. CASE refuse(j)
    BY <2>1 DEF refuse, Steady, Deployment, runVars, execVars
  <2>2. CASE \E stage, read : begin(x, j, stage, read)
    <3>1. x[1] \in deployed
      BY <1>1 DEF Begin, fetchReport, readUpload, readRun, loadTrades, readSnapshots, takes
    <3>2. PICK stage, read : begin(x, j, stage, read)
      BY <2>2
    <3> QED
      BY <3>1, <3>2, SteadyMove DEF begin, runVars
  <2> QED
    BY <1>1, <2>1, <2>2 DEF Begin, fetchReport, readUpload, readRun, loadTrades, readSnapshots
<1>2. CASE deleteRows(x) \/ setRunning(x) \/ simulate(x) \/ readDrawdown(x) \/ loadReportedParityMetrics(x)
  <2>1. x[1] \in deployed
    BY <1>2 DEF deleteRows, setRunning, simulate, readDrawdown, loadReportedParityMetrics, proceed, Deployment
  <2>2. UNCHANGED <<deployed, lost>> /\ \E stage : at' = [at EXCEPT ![x] = stage]
    BY <1>2 DEF deleteRows, setRunning, simulate, readDrawdown, loadReportedParityMetrics, proceed, runVars, queueVars
  <2>3. UNCHANGED old \/ (\E o : old' = [old EXCEPT ![x] = o])
    BY <1>2 DEF deleteRows, setRunning, simulate, readDrawdown, loadReportedParityMetrics
  <2> QED
    BY <2>1, <2>2, <2>3, SteadyMove
<1>3. CASE \/ handleReportParse(x) \/ handleTradeNormalisation(x) \/ handleLocalRunnerExecution(x)
           \/ handleEquityReconstruction(x) \/ handleParityCalculation(x)
           \/ markFailed(x) \/ markRunAnalysed(x)
  <2>1. UNCHANGED <<deployed, lost>> /\ settle(x) /\ x[1] \in deployed
    BY <1>3 DEF handleReportParse, handleTradeNormalisation, handleLocalRunnerExecution,
       handleEquityReconstruction, handleParityCalculation, markFailed, markRunAnalysed,
       committing, runVars, queueVars, Deployment
  <2> QED
    BY <2>1, SteadyMove DEF settle
<1>4. CASE handleMetricCalculation(x)
  <2>1. UNCHANGED <<deployed, lost, old>> /\ at' = [at EXCEPT ![x] = "mark"] /\ x[1] \in deployed
    BY <1>4 DEF handleMetricCalculation, committing, runVars, Deployment
  <2> QED
    BY <2>1, SteadyMove
<1> QED
  BY <1>1, <1>2, <1>3, <1>4 DEF Step

LEMMA SteadyNext == IInv /\ Deployment /\ [Next]_vars => Steady
<1> SUFFICES ASSUME IInv, Deployment, [Next]_vars PROVE Steady
  OBVIOUS
<1>1. CASE UNCHANGED vars
  BY <1>1 DEF vars, runVars, execVars, queueVars, Steady, Deployment
<1> QED
  BY <1>1, SteadyUploads, SteadyFaults, SteadyDrop, SteadyStep DEF Next

-----------------------------------------------------------------------------
(* The one process whose executors work, and what held before its step.     *)
Alone(p) ==
    /\ IInv /\ TInv /\ Deployment /\ p \in Workers /\ deployed = {p}
    /\ Orderly(p) /\ lost' = {}

LEMMA WorkerAlone ==
    ASSUME NEW p, Alone(p), NEW x \in Executors, at[x] # "idle" \/ x[1] \in deployed
    PROVE  x = <<p, x[2]>> /\ x[1] = p /\ x[2] \in Queues
  BY DEF Alone, Deployment, Executors

LEMMA ChainExecutors ==
    ASSUME NEW p, Alone(p)
    PROVE  curver(p) \in Executors /\ meter(p) \in Executors /\ judge(p) \in Executors
  BY DEF Alone, Executors, Queues, curver, meter, judge

(* The executors that take no part in a step of one of them.                *)
Bystanders(x) ==
    \A y \in Executors \ {x} :
        at'[y] = at[y] /\ owned'[y] = owned[y] /\ made'[y] = made[y] /\ old'[y] = old[y]

LEMMA OthersOrderly ==
    ASSUME NEW p, Alone(p), NEW x \in Executors, Bystanders(x), x[1] = p,
           \A q \in Chain \ {x[2]} : UNCHANGED Table(q),
           \A q : q # x[2] /\ Waits(q) => Waits(q)',
           HeldOK(x)' /\ OldOK(x)'
    PROVE  \A y \in Executors : HeldOK(y)' /\ OldOK(y)'
<1>1. ASSUME NEW y \in Executors, y # x PROVE HeldOK(y)' /\ OldOK(y)'
  <2>1. CASE at[y] = "idle"
    BY <1>1, <2>1 DEF HeldOK, OldOK, Bystanders
  <2>2. CASE at[y] # "idle"
    <3>1. y[2] # x[2]
      BY <1>1, <2>2, WorkerAlone DEF Alone, Executors
    <3>2. HeldOK(y) /\ OldOK(y)
      BY DEF Alone, Orderly
    <3> QED
      BY <1>1, <3>1, <3>2 DEF HeldOK, OldOK, Bystanders
  <2> QED
    BY <2>1, <2>2
<1> QED
  BY <1>1

LEMMA OrderlyStill ==
    ASSUME NEW p, Alone(p), WaitsKept, UNCHANGED <<tableVars, execVars>>
    PROVE  Orderly(p)'
<1>1. \A x \in Executors : HeldOK(x)' /\ OldOK(x)'
  BY DEF Alone, Orderly, WaitsKept, HeldOK, OldOK, Table, tableVars, execVars
<1>2. ChainOK(p)'
  BY ChainStill DEF Alone, Orderly, execVars, WaitsKept
<1> QED
  BY <1>1, <1>2 DEF Orderly

LEMMA OrderlyUploads ==
    ASSUME NEW p, Alone(p), NEW f \in Files,
           \/ \E c \in Contents : putReport(f, c)
           \/ fetchForChecksum(f)
           \/ \E run \in Attachments : completeReportUpload(f, run)
    PROVE  Orderly(p)'
<1>1. UNCHANGED <<tableVars, execVars>>
  BY DEF putReport, fetchForChecksum, completeReportUpload
<1>2. UNCHANGED waiting \/ \E j : waiting' = emitted(j)
  BY DEF putReport, fetchForChecksum, completeReportUpload, queueVars
<1>3. WaitsKept
  BY <1>2, EmittedWaits DEF WaitsKept, Waits
<1> QED
  BY <1>1, <1>3, OrderlyStill

(* A job that is taken back or tried again waits once more, unless it is given up. *)
LEMMA AttemptWaits ==
    ASSUME NEW j \in Jobs, lost' = {}, retried(j) \/ takenBack(j)
    PROVE  WaitsKept /\ Waits(j.queue)'
<1>1. PICK k \in {[j EXCEPT !.attempts = @ + 1], [j EXCEPT !.stalls = @ + 1]} : waiting' = emitted(k)
  BY DEF retried, takenBack
<1>2. k.queue = j.queue
  BY DEF Jobs
<1> QED
  BY <1>1, <1>2, EmittedWaits DEF WaitsKept

(* The end of an execution that has not inserted anything. *)
LEMMA AbandonedIsOrderly ==
    ASSUME NEW p, Alone(p), NEW x \in Executors, at[x] # "idle", settle(x), UNCHANGED tableVars,
           WaitsKept, Waits(x[2])'
    PROVE  Orderly(p)'
<1>1. x = <<p, x[2]>>
  BY WorkerAlone
<1>2. \A y \in Executors : HeldOK(y)' /\ OldOK(y)'
  <2>1. \A q \in Chain : UNCHANGED Table(q)
    BY DEF Table, tableVars
  <2>2. at'[x] = "idle" /\ Bystanders(x)
    BY DEF Alone, IInv, Shapes, Deployment, settle, Bystanders
  <2> QED
    BY <1>1, <2>1, <2>2, WorkerAlone, OthersOrderly DEF WaitsKept, HeldOK, OldOK
<1>3. ChainOK(p)'
  <2>0. /\ ChainOK(p) /\ UNCHANGED <<ledger, equity, metrics, parity>>
        /\ \A y \in Executors \ {x} : at'[y] = at[y] /\ made'[y] = made[y]
    BY DEF Alone, Orderly, tableVars, settle, IInv, Shapes
  <2>1. CASE x[2] = "equity-reconstruction"
    BY <2>1, CurveWaits
  <2>2. CASE x[2] = "metric-calculation"
    <3>1. curver(p) # x /\ curver(p) \in Executors
      BY <1>1, <2>2, ChainExecutors DEF curver
    <3>2. CurveComes(p)'
      BY <2>0, <3>1, CurveStill DEF ChainOK, WaitsKept
    <3> QED
      BY <2>2, <3>2, MetricsWait DEF ChainOK
  <2>3. CASE x[2] = "parity-calculation"
    <3>1. curver(p) # x /\ meter(p) # x /\ curver(p) \in Executors /\ meter(p) \in Executors
      BY <1>1, <2>3, ChainExecutors DEF curver, meter
    <3>2. CurveComes(p)' /\ MetricsCome(p)'
      BY <2>0, <3>1, CurveStill, MetricsStill DEF ChainOK, WaitsKept
    <3> QED
      BY <2>3, <3>2, VerdictWaits DEF ChainOK
  <2>4. CASE x[2] \notin Chain
    <3>1. \A q \in Chain : <<p, q>> # x /\ <<p, q>> \in Executors
      BY <1>1, <2>4 DEF Alone, Chain, Executors, Queues
    <3> QED
      BY <2>0, <3>1, ChainStill DEF WaitsKept
  <2> QED
    BY <2>1, <2>2, <2>3, <2>4 DEF Chain
<1> QED
  BY <1>2, <1>3 DEF Orderly

LEMMA OrderlyFaults ==
    ASSUME NEW p, Alone(p), NEW x \in Executors, Throw(x) \/ Die(x) \/ Stall(x)
    PROVE  Orderly(p)'
<1>1. UNCHANGED tableVars /\ at[x] # "idle" /\ job[x] \in Jobs /\ job[x].queue = x[2] /\ HeldOK(x)
  BY DEF Throw, Die, Stall, fault, Alone, IInv, OwnersWork, TInv, ExecutorTyped, JobTyped, Orderly
<1>2. WaitsKept /\ Waits(x[2])'
  <2>1. CASE retried(job[x]) \/ takenBack(job[x])
    BY <1>1, <2>1, AttemptWaits DEF Alone
  <2>2. CASE ~owned[x] /\ UNCHANGED queueVars
    BY <1>1, <2>2 DEF HeldOK, WaitsKept, Waits, queueVars
  <2> QED
    BY <2>1, <2>2 DEF Throw, Die, Stall
<1>3. CASE settle(x)
  BY <1>1, <1>2, <1>3, AbandonedIsOrderly
<1>4. CASE UNCHANGED <<at, made, old>> /\ owned' = [owned EXCEPT ![x] = FALSE]
  <2>1. ChainOK(p)'
    BY <1>1, <1>2, <1>4, ChainStill DEF Alone, Orderly, WaitsKept
  <2>2. ASSUME NEW y \in Executors PROVE HeldOK(y)' /\ OldOK(y)'
    <3>1. HeldOK(y) /\ OldOK(y) /\ (y # x => owned'[y] = owned[y])
      BY <1>4 DEF Alone, Orderly, IInv, Shapes
    <3>2. HeldOK(y)'
      BY <1>2, <1>4, <3>1 DEF HeldOK, WaitsKept
    <3>3. OldOK(y)'
      BY <1>1, <1>4, <3>1 DEF OldOK, Table, tableVars
    <3> QED
      BY <3>2, <3>3
  <2> QED
    BY <2>1, <2>2 DEF Orderly
<1> QED
  BY <1>3, <1>4 DEF Throw, Die, Stall

(* A job that is dropped is given up. *)
LEMMA OrderlyDrop ==
    ASSUME NEW p, Alone(p), NEW j, Drop(j)
    PROVE  FALSE
  BY DEF Drop, Alone

(* The start of an execution: its job waits no more. *)
LEMMA BegunIsOrderly ==
    ASSUME NEW p, Alone(p), NEW x \in Executors, x[1] \in deployed, at[x] = "idle",
           NEW j \in BagToSet(waiting), j.queue = x[2],
           NEW stage, stage # "idle", NEW read, begin(x, j, stage, read),
           x[2] \in Chain => stage # "commit",
           x[2] \in {"equity-reconstruction", "metric-calculation"} =>
               stage = "delete" /\ read.of = ledger,
           x[2] = "parity-calculation" => stage = "curve" /\ read.of.metrics = metrics
    PROVE  Orderly(p)'
<1>1. /\ x = <<p, x[2]>> /\ x[1] = p /\ UNCHANGED <<tableVars, ledger, equity, metrics, parity, old>>
      /\ waiting' = waiting (-) SetToBag({j}) /\ IsABag(waiting)
      /\ at' = [at EXCEPT ![x] = stage] /\ made' = [made EXCEPT ![x] = read]
      /\ owned' = [owned EXCEPT ![x] = TRUE] /\ old' = [old EXCEPT ![x] = old[x]]
  BY WorkerAlone DEF begin, tableVars, Alone, TInv, QueuesTyped, Deployment
<1>2. \A q : q # x[2] /\ Waits(q) => Waits(q)'
  BY <1>1, OthersWait
<1>3. at'[x] = stage /\ made'[x] = read /\ owned'[x] = TRUE /\ ChainOK(p) /\ Bystanders(x)
  BY <1>1 DEF Alone, IInv, Shapes, Orderly, Bystanders
<1>4. \A y \in Executors : HeldOK(y)' /\ OldOK(y)'
  <2>1. \A q \in Chain : UNCHANGED Table(q)
    BY <1>1 DEF Table
  <2>2. HeldOK(x)' /\ OldOK(x)'
    BY <1>3 DEF HeldOK, OldOK
  <2> QED
    BY <1>1, <1>2, <1>3, <2>1, <2>2, OthersOrderly
<1>5. ChainOK(p)'
  <2>1. CASE x[2] = "equity-reconstruction"
    BY <1>1, <1>3, <2>1 DEF ChainOK, CurveComes, MetricsCome, VerdictComes, BeforeCurve, curver
  <2>2. CASE x[2] = "metric-calculation"
    <3>1. x = meter(p) /\ curver(p) # x /\ curver(p) \in Executors
      BY <1>1, <2>2, ChainExecutors DEF curver, meter
    <3>2. CurveComes(p)'
      BY <1>1, <1>2, <1>3, <2>2, <3>1, CurveStill DEF ChainOK, Bystanders
    <3> QED
      BY <1>1, <1>3, <2>2, <3>1, <3>2 DEF ChainOK, MetricsCome, VerdictComes, BeforeMetrics, meter
  <2>3. CASE x[2] = "parity-calculation"
    <3>1. /\ x = judge(p) /\ curver(p) # x /\ meter(p) # x
          /\ curver(p) \in Executors /\ meter(p) \in Executors
      BY <1>1, <2>3, ChainExecutors DEF curver, meter, judge
    <3>2. CurveComes(p)' /\ MetricsCome(p)'
      BY <1>1, <1>2, <1>3, <2>3, <3>1, CurveStill, MetricsStill DEF ChainOK, Chain, Bystanders
    <3> QED
      BY <1>1, <1>3, <2>3, <3>1, <3>2 DEF ChainOK, VerdictComes, judge
  <2>4. CASE x[2] \notin Chain
    <3>1. \A q \in Chain : <<p, q>> # x /\ <<p, q>> \in Executors
      BY <1>1, <2>4 DEF Alone, Chain, Executors, Queues
    <3> QED
      BY <1>1, <1>2, <1>3, <2>4, <3>1, ChainStill DEF Bystanders
  <2> QED
    BY <2>1, <2>2, <2>3, <2>4 DEF Chain
<1> QED
  BY <1>4, <1>5 DEF Orderly

LEMMA OrderlyBegins ==
    ASSUME NEW p, Alone(p), NEW x \in Executors, NEW j \in BagToSet(waiting), Begin(x, j)
    PROVE  Orderly(p)'
<1>1. at[x] = "idle" /\ x[1] \in deployed /\ j.queue = x[2]
  BY DEF Begin, fetchReport, readUpload, readRun, loadTrades, readSnapshots, takes
<1>2. CASE refuse(j)
  <2>1. j \in Jobs /\ IsABag(waiting) /\ lost' = {}
    BY DEF Alone, TInv, QueuesTyped, JobTyped
  <2>2. WaitsKept
    BY <1>2, <2>1, RefusedWaits DEF WaitsKept
  <2> QED
    BY <1>2, <2>2, OrderlyStill DEF refuse
<1>3. CASE fetchReport(x, j)
  BY <1>1, <1>3, BegunIsOrderly DEF fetchReport, takes, Chain
<1>4. CASE readUpload(x, j) /\ ~refuse(j)
  BY <1>1, <1>4, BegunIsOrderly DEF readUpload, takes, Chain
<1>5. CASE readRun(x, j)
  BY <1>1, <1>5, BegunIsOrderly DEF readRun, takes, Chain
<1>6. CASE loadTrades(x, j)
  BY <1>1, <1>6, BegunIsOrderly DEF loadTrades, takes, Chain, rows
<1>7. CASE readSnapshots(x, j) /\ ~refuse(j)
  BY <1>1, <1>7, BegunIsOrderly DEF readSnapshots, takes, Chain, rows
<1> QED
  BY <1>2, <1>3, <1>4, <1>5, <1>6, <1>7 DEF Begin

(* The steps between, which write no table. *)
LEMMA ProceedsIsOrderly ==
    ASSUME NEW p, Alone(p), NEW x \in Executors, at[x] # "idle", at'[x] # "idle",
           Bystanders(x), owned'[x] = owned[x], UNCHANGED <<tableVars, queueVars>>,
           at'[x] = "commit" => old'[x] = Table(x[2]),
           x[2] \in {"equity-reconstruction", "metric-calculation"} =>
               made'[x] = made[x] /\ at[x] = "delete" /\ at'[x] = "commit",
           x[2] = "parity-calculation" =>
               /\ at'[x] # "curve"
               /\ made'[x].of.metrics = made[x].of.metrics
               /\ at[x] = "curve" => made'[x].of.curve = equity
               /\ at[x] # "curve" => made'[x].of.curve = made[x].of.curve
    PROVE  Orderly(p)'
<1>1. x = <<p, x[2]>> /\ x[1] = p /\ UNCHANGED <<ledger, equity, metrics, parity>>
  BY WorkerAlone DEF tableVars
<1>2. WaitsKept
  BY DEF WaitsKept, Waits, queueVars
<1>3. ChainOK(p) /\ \A y \in Executors \ {x} : at'[y] = at[y] /\ made'[y] = made[y]
  BY DEF Alone, Orderly, Bystanders
<1>4. \A y \in Executors : HeldOK(y)' /\ OldOK(y)'
  <2>1. \A q \in Chain : UNCHANGED Table(q)
    BY <1>1 DEF Table
  <2>2. HeldOK(x)'
    BY <1>2 DEF HeldOK, WaitsKept, Alone, Orderly
  <2>3. OldOK(x)'
    BY <2>1 DEF OldOK
  <2> QED
    BY <1>1, <1>2, <2>1, <2>2, <2>3, OthersOrderly DEF WaitsKept
<1>5. ChainOK(p)'
  <2>1. CASE x[2] \in Chain
    <3>1. /\ curver(p) \in Executors /\ meter(p) \in Executors /\ judge(p) \in Executors
          /\ (x = curver(p) <=> x[2] = "equity-reconstruction")
          /\ (x = meter(p) <=> x[2] = "metric-calculation")
          /\ (x = judge(p) <=> x[2] = "parity-calculation")
      BY <1>1, ChainExecutors DEF curver, meter, judge
    <3>2. CurveComes(p)'
      <4>1. CASE x = curver(p)
        BY <1>1, <1>2, <1>3, <3>1, <4>1, CurveStill DEF ChainOK, WaitsKept
      <4>2. CASE x # curver(p)
        BY <1>1, <1>2, <1>3, <3>1, <4>2, CurveStill DEF ChainOK, WaitsKept
      <4> QED
        BY <4>1, <4>2
    <3>3. at[curver(p)] # "idle" => at'[curver(p)] # "idle"
      BY <1>1, <1>3, <3>1
    <3>4. /\ at[meter(p)] \in {"delete", "commit"} =>
               at'[meter(p)] \in {"delete", "commit"} /\ made'[meter(p)] = made[meter(p)]
          /\ at[meter(p)] \in {"idle", "mark"} => at'[meter(p)] \in {"idle", "mark"}
      <4>1. CASE x = meter(p)
        BY <1>1, <1>3, <3>1, <4>1
      <4>2. CASE x # meter(p)
        BY <1>3, <3>1, <4>2
      <4> QED
        BY <4>1, <4>2
    <3>5. MetricsCome(p)'
      <4>1. MetricsCome(p) /\ \A q \in Chain \ {"parity-calculation"} : Waits(q) => Waits(q)'
        BY <1>2, <1>3 DEF ChainOK, WaitsKept
      <4> QED
        BY <1>1, <3>3, <3>4, <4>1, MetricsStill
    <3>6. /\ at'[judge(p)] = "idle" <=> at[judge(p)] = "idle"
          /\ at[judge(p)] # "curve" => at'[judge(p)] # "curve"
          /\ at[judge(p)] # "idle" => /\ made'[judge(p)].of.metrics = made[judge(p)].of.metrics
                                      /\ at'[judge(p)] # "curve" =>
                                            \/ made'[judge(p)].of.curve = equity
                                            \/ /\ at[judge(p)] # "curve"
                                               /\ made'[judge(p)].of.curve = made[judge(p)].of.curve
      <4>1. CASE x = judge(p)
        BY <1>1, <1>3, <3>1, <4>1
      <4>2. CASE x # judge(p)
        BY <1>3, <3>1, <4>2
      <4> QED
        BY <4>1, <4>2
    <3>7. VerdictComes(p)'
      <4>1. VerdictComes(p) /\ \A q \in Chain : Waits(q) => Waits(q)'
        BY <1>2, <1>3 DEF ChainOK, WaitsKept
      <4> QED
        BY <1>1, <3>3, <3>4, <3>6, <4>1, VerdictStill
    <3> QED
      BY <3>2, <3>5, <3>7 DEF ChainOK
  <2>2. CASE x[2] \notin Chain
    <3>1. \A q \in Chain : <<p, q>> # x /\ <<p, q>> \in Executors
      BY <1>1, <2>2 DEF Alone, Chain, Executors, Queues
    <3> QED
      BY <1>2, <1>3, <3>1, ChainStill DEF WaitsKept
  <2> QED
    BY <2>1, <2>2
<1> QED
  BY <1>4, <1>5 DEF Orderly

LEMMA OrderlyProceeds ==
    ASSUME NEW p, Alone(p), NEW x \in Executors,
           \/ deleteRows(x) \/ setRunning(x) \/ simulate(x)
           \/ readDrawdown(x) \/ loadReportedParityMetrics(x)
    PROVE  Orderly(p)'
<1>1. /\ at[x] # "idle" /\ StageOK(x) /\ MadeOK(x) /\ UNCHANGED <<tableVars, queueVars, owned>>
      /\ Shapes /\ old = [y \in Executors |-> old[y]]
  BY DEF Alone, IInv, ExecutorOK, Deployment, deleteRows, setRunning, simulate, readDrawdown,
     loadReportedParityMetrics, proceed
<1>2. CASE deleteRows(x)
  <2>1. /\ at[x] = "delete" /\ at'[x] = "commit" /\ made' = made /\ old'[x] = Table(x[2])
        /\ Bystanders(x)
    BY <1>1, <1>2 DEF deleteRows, proceed, Shapes, Bystanders
  <2> QED
    BY <1>1, <2>1, ProceedsIsOrderly
<1>3. CASE setRunning(x)
  <2>1. at'[x] = "simulate" /\ x[2] = "local-runner-execution" /\ Bystanders(x)
    BY <1>1, <1>3 DEF setRunning, proceed, StageOK, Shapes, Bystanders
  <2> QED
    BY <1>1, <2>1, ProceedsIsOrderly
<1>4. CASE simulate(x)
  <2>1. at'[x] \in {"delete", "fail"} /\ x[2] = "local-runner-execution" /\ Bystanders(x)
    BY <1>1, <1>4 DEF simulate, proceed, StageOK, Shapes, Bystanders
  <2> QED
    BY <1>1, <2>1, ProceedsIsOrderly
<1>5. CASE readDrawdown(x)
  <2>1. /\ at[x] = "curve" /\ at'[x] = "reported" /\ x[2] = "parity-calculation" /\ Bystanders(x)
        /\ made'[x] = [made[x] EXCEPT !.of.curve = equity]
    BY <1>1, <1>5 DEF readDrawdown, proceed, StageOK, Shapes, Bystanders
  <2>2. made'[x].of.metrics = made[x].of.metrics /\ made'[x].of.curve = equity
    BY <1>1, <2>1 DEF MadeOK, rows
  <2> QED
    BY <1>1, <2>1, <2>2, ProceedsIsOrderly
<1>6. CASE loadReportedParityMetrics(x)
  <2>1. /\ at[x] = "reported" /\ at'[x] = "delete" /\ x[2] = "parity-calculation" /\ Bystanders(x)
        /\ made'[x] = [made[x] EXCEPT !.of.reported = reportedMetrics]
    BY <1>1, <1>6 DEF loadReportedParityMetrics, proceed, StageOK, Shapes, Bystanders
  <2>2. made'[x].of.metrics = made[x].of.metrics /\ made'[x].of.curve = made[x].of.curve
    BY <1>1, <2>1 DEF MadeOK, rows
  <2> QED
    BY <1>1, <2>1, <2>2, ProceedsIsOrderly
<1> QED
  BY <1>2, <1>3, <1>4, <1>5, <1>6

(* The end of an execution that keeps what waits. *)
LEMMA SettledIsOrderly ==
    ASSUME NEW p, Alone(p), NEW x \in Executors, at[x] # "idle", settle(x),
           \A q \in Chain \ {x[2]} : UNCHANGED Table(q),
           WaitsKept, ChainOK(p)'
    PROVE  Orderly(p)'
<1>1. at'[x] = "idle" /\ Bystanders(x)
  BY DEF Alone, IInv, Shapes, Deployment, settle, Bystanders
<1> QED
  BY <1>1, WorkerAlone, OthersOrderly DEF WaitsKept, HeldOK, OldOK, Orderly

(* The transactions. *)
LEMMA OrderlyCommits ==
    ASSUME NEW p, Alone(p), NEW x \in Executors,
           \/ handleReportParse(x) \/ handleTradeNormalisation(x)
           \/ handleLocalRunnerExecution(x) \/ handleEquityReconstruction(x)
           \/ handleMetricCalculation(x) \/ handleParityCalculation(x)
    PROVE  Orderly(p)'
<1>0. /\ at[x] = "commit" /\ x = <<p, x[2]>> /\ x[1] = p /\ HeldOK(x) /\ OldOK(x) /\ ChainOK(p)
  BY WorkerAlone DEF Alone, Orderly, handleReportParse, handleTradeNormalisation,
     handleLocalRunnerExecution, handleEquityReconstruction, handleMetricCalculation,
     handleParityCalculation, committing
<1>1. CASE handleReportParse(x)
  <2>1. UNCHANGED tableVars /\ settle(x) /\ x[2] = "report-parse"
    BY <1>1 DEF handleReportParse
  <2>2. UNCHANGED waiting \/ \E j : waiting' = emitted(j)
    BY <1>1 DEF handleReportParse
  <2>3. WaitsKept
    BY <2>2, EmittedWaits DEF WaitsKept, Waits
  <2>4. Bystanders(x) /\ \A q \in Chain : <<p, q>> # x /\ <<p, q>> \in Executors
    BY <1>0, <2>1 DEF Alone, IInv, Shapes, Deployment, settle, Bystanders, Chain, Executors, Queues
  <2>5. ChainOK(p)'
    BY <1>0, <2>1, <2>3, <2>4, ChainStill DEF Bystanders, WaitsKept
  <2>6. \A q \in Chain : UNCHANGED Table(q)
    BY <2>1 DEF Table, tableVars
  <2> QED
    BY <1>0, <2>1, <2>3, <2>5, <2>6, SettledIsOrderly
<1>2. CASE handleTradeNormalisation(x) \/ handleLocalRunnerExecution(x)
  <2> DEFINE j == Job("equity-reconstruction", Nothing, TRUE)
  <2>1. /\ UNCHANGED <<equity, metrics, parity>> /\ settle(x) /\ waiting' = emitted(j)
    BY <1>2 DEF handleTradeNormalisation, handleLocalRunnerExecution
  <2>2. j.queue = "equity-reconstruction"
    BY DEF Job
  <2> HIDE DEF j
  <2>3. WaitsKept /\ Waits("equity-reconstruction")'
    BY <2>1, <2>2, EmittedWaits DEF WaitsKept
  <2>4. ChainOK(p)'
    BY <2>3, CurveWaits
  <2>5. \A q \in Chain : UNCHANGED Table(q)
    BY <2>1 DEF Table, Chain
  <2> QED
    BY <1>0, <2>1, <2>3, <2>4, <2>5, SettledIsOrderly
<1>3. CASE handleEquityReconstruction(x)
  <2> DEFINE j == Job("metric-calculation", Nothing, TRUE)
  <2>1. /\ UNCHANGED <<ledger, metrics, parity>> /\ settle(x) /\ waiting' = emitted(j)
        /\ equity' = replaced(x) /\ x[2] = "equity-reconstruction"
    BY <1>3 DEF handleEquityReconstruction, committing
  <2>2. j.queue = "metric-calculation"
    BY DEF Job
  <2> HIDE DEF j
  <2>3. WaitsKept /\ Waits("metric-calculation")'
    BY <2>1, <2>2, EmittedWaits DEF WaitsKept
  <2>4. equity' = {made[x]}
    BY <1>0, <2>1 DEF replaced, OldOK, Table, Chain
  <2>5. x = curver(p) /\ at'[x] = "idle"
    BY <1>0, <2>1 DEF curver, settle, Alone, IInv, Shapes
  <2>6. CurveComes(p)'
    BY <1>0, <2>1, <2>3, <2>4, <2>5 DEF ChainOK, CurveComes, WaitsKept, Single, curver
  <2>7. ChainOK(p)'
    BY <2>3, <2>6, MetricsWait DEF ChainOK
  <2>8. \A q \in Chain \ {x[2]} : UNCHANGED Table(q)
    BY <2>1 DEF Table, Chain
  <2> QED
    BY <1>0, <2>1, <2>3, <2>7, <2>8, SettledIsOrderly
<1>4. CASE handleMetricCalculation(x)
  <2> DEFINE j == Job("parity-calculation", Nothing, TRUE)
  <2>1. /\ UNCHANGED <<ledger, equity, parity, job, owned, made, old>>
        /\ waiting' = (IF Verified THEN emitted(j) ELSE waiting)
        /\ metrics' = replaced(x) /\ x[2] = "metric-calculation" /\ at' = [at EXCEPT ![x] = "mark"]
    BY <1>4 DEF handleMetricCalculation, committing
  <2>2. j.queue = "parity-calculation"
    BY DEF Job
  <2> HIDE DEF j
  <2>3. WaitsKept /\ (Verified => Waits("parity-calculation")')
    BY <2>1, <2>2, EmittedWaits DEF WaitsKept, Waits
  <2>4. metrics' = {made[x]}
    BY <1>0, <2>1 DEF replaced, OldOK, Table, Chain
  <2>5. x = meter(p) /\ at'[x] = "mark" /\ Bystanders(x)
    BY <1>0, <2>1 DEF meter, Alone, IInv, Shapes, Bystanders
  <2>6. curver(p) # x /\ curver(p) \in Executors
    BY <2>5, ChainExecutors DEF curver, meter
  <2>7. at'[curver(p)] = at[curver(p)] /\ made'[curver(p)] = made[curver(p)]
    BY <2>5, <2>6 DEF Bystanders
  <2>8. CurveComes(p)'
    BY <1>0, <2>1, <2>3, <2>7, CurveStill DEF ChainOK, WaitsKept
  <2>9. MetricsCome(p)'
    BY <1>0, <2>1, <2>3, <2>4, <2>5, <2>7 DEF ChainOK, MetricsCome, BeforeCurve, WaitsKept, Single
  <2>10. VerdictComes(p)'
    BY <2>3, VerdictWaits DEF VerdictComes
  <2>11. \A y \in Executors : HeldOK(y)' /\ OldOK(y)'
    <3>1. \A q \in Chain \ {x[2]} : UNCHANGED Table(q)
      BY <2>1 DEF Table, Chain
    <3>2. HeldOK(x)' /\ OldOK(x)'
      BY <1>0, <2>1, <2>3, <2>5 DEF HeldOK, OldOK, WaitsKept
    <3> QED
      BY <1>0, <2>3, <2>5, <3>1, <3>2, OthersOrderly DEF WaitsKept
  <2> QED
    BY <2>8, <2>9, <2>10, <2>11 DEF Orderly, ChainOK
<1>5. CASE handleParityCalculation(x)
  <2>1. /\ UNCHANGED <<ledger, equity, metrics, queueVars>> /\ settle(x)
        /\ parity' = replaced(x) /\ x[2] = "parity-calculation"
    BY <1>5 DEF handleParityCalculation, committing
  <2>2. WaitsKept
    BY <2>1 DEF WaitsKept, Waits, queueVars
  <2>3. parity' = {made[x]}
    BY <1>0, <2>1 DEF replaced, OldOK, Table, Chain
  <2>4. x = judge(p) /\ at'[x] = "idle" /\ Bystanders(x)
    BY <1>0, <2>1 DEF judge, settle, Alone, IInv, Shapes, Deployment, Bystanders
  <2>5. /\ curver(p) # x /\ meter(p) # x /\ curver(p) \in Executors /\ meter(p) \in Executors
    BY <2>4, ChainExecutors DEF curver, meter, judge
  <2>6. /\ at'[curver(p)] = at[curver(p)] /\ made'[curver(p)] = made[curver(p)]
        /\ at'[meter(p)] = at[meter(p)] /\ made'[meter(p)] = made[meter(p)]
    BY <2>4, <2>5 DEF Bystanders
  <2>7. CurveComes(p)'
    BY <1>0, <2>1, <2>2, <2>6, CurveStill DEF ChainOK, WaitsKept
  <2>8. MetricsCome(p)'
    BY <1>0, <2>1, <2>2, <2>6, MetricsStill DEF ChainOK, WaitsKept
  <2>9. VerdictComes(p)'
    BY <1>0, <2>1, <2>2, <2>3, <2>4, <2>6
       DEF ChainOK, VerdictComes, BeforeCurve, BeforeMetrics, WaitsKept, Compared
  <2>10. \A q \in Chain \ {x[2]} : UNCHANGED Table(q)
    BY <2>1 DEF Table, Chain
  <2> QED
    BY <1>0, <2>1, <2>2, <2>7, <2>8, <2>9, <2>10, SettledIsOrderly DEF ChainOK
<1> QED
  BY <1>1, <1>2, <1>3, <1>4, <1>5

LEMMA OrderlyStatus ==
    ASSUME NEW p, Alone(p), NEW x \in Executors, markFailed(x) \/ markRunAnalysed(x)
    PROVE  Orderly(p)'
<1>1. /\ UNCHANGED <<tableVars, queueVars>> /\ settle(x) /\ at[x] \in {"fail", "mark"}
      /\ x = <<p, x[2]>> /\ StageOK(x) /\ ChainOK(p)
  BY WorkerAlone DEF markFailed, markRunAnalysed, Alone, IInv, ExecutorOK, Orderly
<1>2. WaitsKept /\ \A q \in Chain : UNCHANGED Table(q)
  BY <1>1 DEF WaitsKept, Waits, queueVars, Table, tableVars
<1>3. Bystanders(x) /\ at'[x] = "idle"
  BY <1>1 DEF Alone, IInv, Shapes, Deployment, settle, Bystanders
<1>4. ChainOK(p)'
  <2>1. CASE at[x] = "fail"
    <3>1. \A q \in Chain : <<p, q>> # x /\ <<p, q>> \in Executors
      BY <1>1, <2>1 DEF Alone, Chain, Executors, Queues, StageOK
    <3> QED
      BY <1>1, <1>2, <1>3, <3>1, ChainStill DEF WaitsKept, Bystanders
  <2>2. CASE at[x] = "mark"
    <3>1. x = meter(p)
      BY <1>1, <2>2 DEF StageOK, meter
    <3>2. /\ curver(p) # x /\ judge(p) # x /\ curver(p) \in Executors /\ judge(p) \in Executors
      BY <3>1, ChainExecutors DEF curver, meter, judge
    <3>3. /\ at'[curver(p)] = at[curver(p)] /\ made'[curver(p)] = made[curver(p)]
          /\ at'[judge(p)] = at[judge(p)] /\ made'[judge(p)] = made[judge(p)]
          /\ UNCHANGED <<ledger, equity, metrics, parity>>
      BY <1>1, <1>3, <3>2 DEF Bystanders, tableVars
    <3>4. CurveComes(p)'
      BY <1>1, <1>2, <3>3, CurveStill DEF ChainOK, WaitsKept
    <3>5. MetricsCome(p)'
      BY <1>1, <1>2, <1>3, <2>2, <3>1, <3>3
         DEF ChainOK, MetricsCome, BeforeCurve, WaitsKept, Single
    <3>6. VerdictComes(p)'
      BY <1>1, <1>2, <1>3, <2>2, <3>1, <3>3
         DEF ChainOK, VerdictComes, BeforeCurve, BeforeMetrics, WaitsKept, Compared
    <3> QED
      BY <3>4, <3>5, <3>6 DEF ChainOK
  <2> QED
    BY <1>1, <2>1, <2>2
<1> QED
  BY <1>1, <1>2, <1>4, SettledIsOrderly

-----------------------------------------------------------------------------
LEMMA ChainInit == Init => CInv
<1> SUFFICES ASSUME Init PROVE CInv
  OBVIOUS
<1>1. Deployment
  BY DEF Init, Deployment
<1>2. ASSUME NEW p \in Workers PROVE Orderly(p)
  <2>1. \A x \in Executors : HeldOK(x) /\ OldOK(x)
    BY DEF Init, HeldOK, OldOK
  <2>2. ChainOK(p)
    BY DEF Init, ChainOK, CurveComes, MetricsCome, VerdictComes
  <2> QED
    BY <2>1, <2>2 DEF Orderly
<1> QED
  BY <1>1, <1>2 DEF CInv

LEMMA ChainNext == IInv /\ TInv /\ CInv /\ [Next]_vars => CInv'
<1> SUFFICES ASSUME IInv, TInv, CInv, [Next]_vars PROVE CInv'
  OBVIOUS
<1>1. Steady
  BY SteadyNext DEF CInv
<1> SUFFICES ASSUME lost' = {}, NEW p \in Workers, deployed' = {p} PROVE Orderly(p)'
  BY <1>1 DEF CInv, Steady
<1>2. Alone(p)
  BY <1>1 DEF Steady, CInv, Alone
<1>3. ASSUME NEW f \in Files,
             \/ \E c \in Contents : putReport(f, c)
             \/ fetchForChecksum(f)
             \/ \E run \in Attachments : completeReportUpload(f, run)
      PROVE  Orderly(p)'
  BY <1>2, <1>3, OrderlyUploads
<1>4. ASSUME NEW x \in Executors, Step(x) PROVE Orderly(p)'
  BY <1>2, <1>4, OrderlyBegins, OrderlyProceeds, OrderlyCommits, OrderlyStatus DEF Step
<1>5. ASSUME NEW x \in Executors, Throw(x) \/ Die(x) \/ Stall(x) PROVE Orderly(p)'
  BY <1>2, <1>5, OrderlyFaults
<1>6. ASSUME NEW j \in BagToSet(waiting), Drop(j) PROVE Orderly(p)'
  BY <1>2, <1>6, OrderlyDrop
<1>7. CASE UNCHANGED vars
  <2>1. UNCHANGED <<tableVars, execVars, waiting>>
    BY <1>7 DEF vars, queueVars
  <2>2. WaitsKept
    BY <2>1 DEF WaitsKept, Waits
  <2> QED
    BY <1>2, <2>1, <2>2, OrderlyStill
<1> QED
  BY <1>3, <1>4, <1>5, <1>6, <1>7 DEF Next

LEMMA ConvergenceFollows == CInv => EvidenceConverges
<1> SUFFICES ASSUME CInv, lost = {}, Cardinality(deployed) = 1 PROVE EvidenceConverges
  BY DEF EvidenceConverges
<1>1. PICK p : deployed = {p}
  <2>1. IsFiniteSet(deployed)
    BY WorkersAssumption, FS_Subset DEF CInv, Deployment
  <2> QED
    BY <2>1, FS_Singleton
<1>2. p \in Workers /\ ChainOK(p)
  BY <1>1 DEF CInv, Deployment, Orderly
<1>3. curver(p) \in Executors /\ meter(p) \in Executors /\ judge(p) \in Executors
  BY <1>2 DEF Executors, Queues, curver, meter, judge
<1>4. \A q : ~Outstanding(q) => ~Waits(q)
  BY DEF Outstanding, Waits
<1>5. /\ ~Outstanding("equity-reconstruction") => at[curver(p)] = "idle"
      /\ ~Outstanding("metric-calculation") => at[meter(p)] = "idle"
      /\ ~Outstanding("parity-calculation") => at[judge(p)] = "idle"
  BY <1>3 DEF Outstanding, curver, meter, judge
<1>6. ledger # {} /\ ~Outstanding("equity-reconstruction") => Single(equity, ledger)
  BY <1>2, <1>4, <1>5 DEF ChainOK, CurveComes
<1>7. equity # {} /\ ~Outstanding("equity-reconstruction") /\ ~Outstanding("metric-calculation")
        => Single(metrics, ledger)
  BY <1>2, <1>4, <1>5 DEF ChainOK, MetricsCome, BeforeCurve
<1>8. Verified /\ metrics # {} /\ ~Outstanding("equity-reconstruction")
         /\ ~Outstanding("metric-calculation") /\ ~Outstanding("parity-calculation") => Compared
  BY <1>2, <1>4, <1>5 DEF ChainOK, VerdictComes, BeforeCurve, BeforeMetrics
<1> QED
  BY <1>6, <1>7, <1>8 DEF EvidenceConverges, Single, Compared

(* With one process, and no job given up, the evidence converges: whatever   *)
(* was uploaded, retried or executed twice, each table ends as the single    *)
(* result computed from the present table before it.                        *)
THEOREM ChainConverges == Spec => []EvidenceConverges
<1>1. Spec => []TInv
  BY Invariance, TypesInit, TypesNext, PTL DEF Spec
<1>2. Spec => []CInv
  BY <1>1, Invariance, ChainInit, ChainNext, PTL DEF Spec
<1> QED
  BY <1>2, ConvergenceFollows, PTL

-----------------------------------------------------------------------------
(* Duplicates.  With one process a table of the chain has the rows of one    *)
(* execution at most, lost jobs or not: VerdictIsNotDuplicated needs a       *)
(* second process to fail.                                                  *)
SingleResults ==
    Cardinality(deployed) = 1 =>
        Cardinality(equity) <= 1 /\ Cardinality(metrics) <= 1 /\ VerdictIsNotDuplicated

AtMostOne(queue) == \A r, s \in Table(queue) : r = s

DInv ==
    /\ Deployment
    /\ \A p \in Workers : deployed = {p} =>
          (\A x \in Executors : OldOK(x)) /\ \A queue \in Chain : AtMostOne(queue)

(* What a step of an executor does to the tables of the chain: its own is    *)
(* replaced, by an execution that has deleted, or stays.                    *)
Replacing(x) ==
    /\ \A y \in Executors \ {x} : at'[y] = at[y] /\ old'[y] = old[y]
    /\ \A queue \in Chain \ {x[2]} : UNCHANGED Table(queue)
    /\ x[2] \in Chain =>
          \/ UNCHANGED Table(x[2])
          \/ at[x] = "commit" /\ Table(x[2])' = replaced(x)
    /\ x[2] \in Chain /\ at'[x] = "commit" =>
          /\ UNCHANGED Table(x[2])
          /\ old'[x] = Table(x[2]) \/ (at[x] = "commit" /\ old'[x] = old[x])

LEMMA MoveReplaces ==
    ASSUME IInv, Deployment, NEW x \in Executors, NEW stage, at' = [at EXCEPT ![x] = stage],
           UNCHANGED old \/ (\E o : old' = [old EXCEPT ![x] = o])
    PROVE  at'[x] = stage /\ \A y \in Executors \ {x} : at'[y] = at[y] /\ old'[y] = old[y]
  BY DEF IInv, Shapes, Deployment

LEMMA TablesStill ==
    ASSUME UNCHANGED <<equity, metrics, parity>>
    PROVE  \A queue \in Chain : UNCHANGED Table(queue)
  BY DEF Chain, Table

LEMMA FaultsReplace ==
    ASSUME IInv, Deployment, NEW x \in Executors, Throw(x) \/ Die(x) \/ Stall(x)
    PROVE  Replacing(x)
<1>1. \A queue \in Chain : UNCHANGED Table(queue)
  BY TablesStill DEF Throw, Die, Stall, fault, tableVars
<1>2. CASE settle(x)
  <2>1. at'[x] = "idle" /\ \A y \in Executors \ {x} : at'[y] = at[y] /\ old'[y] = old[y]
    BY <1>2, MoveReplaces DEF settle
  <2> QED
    BY <1>1, <2>1 DEF Replacing
<1>3. CASE UNCHANGED <<at, old>>
  BY <1>1, <1>3 DEF Replacing
<1> QED
  BY <1>2, <1>3 DEF Throw, Die, Stall

LEMMA BeginsReplace ==
    ASSUME IInv, Deployment, NEW x \in Executors, NEW j, Begin(x, j)
    PROVE  Replacing(x)
<1>1. CASE refuse(j)
  <2>1. UNCHANGED <<at, old, equity, metrics, parity>>
    BY <1>1 DEF refuse, execVars, tableVars
  <2> QED
    BY <2>1, TablesStill DEF Replacing
<1>2. ASSUME NEW stage, NEW read, begin(x, j, stage, read), stage = "commit" => x[2] = "report-parse"
      PROVE  Replacing(x)
  <2>1. \A queue \in Chain : UNCHANGED Table(queue)
    BY <1>2, TablesStill DEF begin, tableVars
  <2>2. at'[x] = stage /\ \A y \in Executors \ {x} : at'[y] = at[y] /\ old'[y] = old[y]
    BY <1>2, MoveReplaces DEF begin
  <2> QED
    BY <1>2, <2>1, <2>2 DEF Replacing, Chain
<1>3. CASE fetchReport(x, j)
  BY <1>2, <1>3 DEF fetchReport, takes
<1>4. CASE readUpload(x, j)
  BY <1>1, <1>2, <1>4 DEF readUpload
<1>5. CASE readRun(x, j)
  BY <1>2, <1>5 DEF readRun
<1>6. CASE loadTrades(x, j)
  BY <1>2, <1>6 DEF loadTrades
<1>7. CASE readSnapshots(x, j)
  BY <1>1, <1>2, <1>7 DEF readSnapshots
<1> QED
  BY <1>3, <1>4, <1>5, <1>6, <1>7 DEF Begin

LEMMA DeletesReplace ==
    ASSUME IInv, Deployment, NEW x \in Executors, deleteRows(x)
    PROVE  Replacing(x)
<1>1. \A queue \in Chain : UNCHANGED Table(queue)
  BY TablesStill DEF deleteRows, tableVars
<1>2. at'[x] = "commit" /\ \A y \in Executors \ {x} : at'[y] = at[y] /\ old'[y] = old[y]
  BY MoveReplaces DEF deleteRows, proceed
<1>3. old'[x] = Table(x[2])
  BY DEF deleteRows, Deployment
<1> QED
  BY <1>1, <1>2, <1>3 DEF Replacing

LEMMA MovesReplace ==
    ASSUME IInv, Deployment, NEW x \in Executors,
           \/ setRunning(x) \/ simulate(x) \/ readDrawdown(x) \/ loadReportedParityMetrics(x)
           \/ markFailed(x) \/ markRunAnalysed(x)
           \/ handleReportParse(x) \/ handleTradeNormalisation(x) \/ handleLocalRunnerExecution(x)
    PROVE  Replacing(x)
<1>1. UNCHANGED <<equity, metrics, parity>>
  BY DEF setRunning, simulate, readDrawdown, loadReportedParityMetrics, markFailed, markRunAnalysed,
     handleReportParse, handleTradeNormalisation, handleLocalRunnerExecution, tableVars
<1>2. CASE settle(x)
  <2>1. at'[x] = "idle" /\ \A y \in Executors \ {x} : at'[y] = at[y] /\ old'[y] = old[y]
    BY <1>2, MoveReplaces DEF settle
  <2> QED
    BY <1>1, <2>1, TablesStill DEF Replacing
<1>3. ASSUME NEW stage, stage # "commit", proceed(x, at[x], stage), UNCHANGED old PROVE Replacing(x)
  <2>1. at'[x] = stage /\ \A y \in Executors \ {x} : at'[y] = at[y] /\ old'[y] = old[y]
    BY <1>3, MoveReplaces DEF proceed
  <2> QED
    BY <1>1, <1>3, <2>1, TablesStill DEF Replacing
<1>4. CASE setRunning(x) \/ simulate(x) \/ readDrawdown(x) \/ loadReportedParityMetrics(x)
  <2>1. \E stage : stage # "commit" /\ proceed(x, at[x], stage) /\ UNCHANGED old
    BY <1>4 DEF setRunning, simulate, readDrawdown, loadReportedParityMetrics, proceed
  <2> QED
    BY <1>3, <2>1
<1> QED
  BY <1>2, <1>4 DEF markFailed, markRunAnalysed, handleReportParse, handleTradeNormalisation,
     handleLocalRunnerExecution

LEMMA CommitsReplace ==
    ASSUME IInv, Deployment, NEW x \in Executors,
           handleEquityReconstruction(x) \/ handleMetricCalculation(x) \/ handleParityCalculation(x)
    PROVE  Replacing(x)
<1>1. x[2] \in Chain /\ at[x] = "commit"
  BY DEF handleEquityReconstruction, handleMetricCalculation, handleParityCalculation, committing, Chain
<1>2. /\ Table(x[2])' = replaced(x)
      /\ \A queue \in Chain \ {x[2]} : UNCHANGED Table(queue)
  <2>1. CASE handleEquityReconstruction(x)
    BY <2>1 DEF handleEquityReconstruction, committing, Chain, Table
  <2>2. CASE handleMetricCalculation(x)
    BY <2>2 DEF handleMetricCalculation, committing, Chain, Table
  <2>3. CASE handleParityCalculation(x)
    BY <2>3 DEF handleParityCalculation, committing, Chain, Table
  <2> QED
    BY <2>1, <2>2, <2>3
<1>3. /\ at'[x] = "idle" \/ at'[x] = "mark"
      /\ \A y \in Executors \ {x} : at'[y] = at[y] /\ old'[y] = old[y]
  <2>1. CASE settle(x)
    BY <2>1, MoveReplaces DEF settle
  <2>2. CASE handleMetricCalculation(x)
    BY <2>2, MoveReplaces DEF handleMetricCalculation
  <2> QED
    BY <2>1, <2>2 DEF handleEquityReconstruction, handleParityCalculation
<1> QED
  BY <1>1, <1>2, <1>3 DEF Replacing

(* One process: its executors replace what their own tables hold.           *)
LEMMA ReplacingKeeps ==
    ASSUME Deployment, NEW p, deployed = {p}, NEW x \in Executors, Replacing(x),
           at[x] # "idle" \/ x[1] = p,
           \A y \in Executors : OldOK(y), \A queue \in Chain : AtMostOne(queue)
    PROVE  (\A y \in Executors : OldOK(y)') /\ \A queue \in Chain : AtMostOne(queue)'
<1>1. \A y \in Executors : y = <<y[1], y[2]>> /\ (at[y] # "idle" => y[1] = p)
  BY DEF Executors, Deployment
<1>2. ASSUME NEW y \in Executors PROVE OldOK(y)'
  <2>1. CASE y = x
    BY <2>1 DEF Replacing, OldOK
  <2>2. CASE y # x /\ at[y] = "commit"
    <3>1. y[2] # x[2]
      BY <1>1, <2>2
    <3> QED
      BY <2>2, <3>1 DEF Replacing, OldOK
  <2>3. CASE y # x /\ at[y] # "commit"
    BY <2>3 DEF Replacing, OldOK
  <2> QED
    BY <2>1, <2>2, <2>3
<1>3. ASSUME NEW queue \in Chain PROVE AtMostOne(queue)'
  <2>1. CASE UNCHANGED Table(queue)
    BY <2>1 DEF AtMostOne
  <2>2. CASE queue = x[2] /\ at[x] = "commit" /\ Table(queue)' = replaced(x)
    <3>1. Table(queue)' = {made[x]}
      BY <1>3, <2>2 DEF OldOK, replaced
    <3> QED
      BY <3>1 DEF AtMostOne
  <2> QED
    BY <2>1, <2>2 DEF Replacing
<1> QED
  BY <1>2, <1>3

LEMMA DuplicatesInit == Init => DInv
<1> SUFFICES ASSUME Init PROVE DInv
  OBVIOUS
<1>1. Deployment
  BY ChainInit DEF CInv
<1>2. \A x \in Executors : OldOK(x)
  BY DEF Init, OldOK
<1>3. \A queue \in Chain : AtMostOne(queue)
  BY DEF Init, Chain, Table, AtMostOne
<1> QED
  BY <1>1, <1>2, <1>3 DEF DInv

LEMMA DuplicatesNext == IInv /\ DInv /\ [Next]_vars => DInv'
<1> SUFFICES ASSUME IInv, DInv, [Next]_vars PROVE DInv'
  OBVIOUS
<1>1. Steady
  BY SteadyNext DEF DInv
<1> SUFFICES ASSUME NEW p \in Workers, deployed = {p}
             PROVE  (\A y \in Executors : OldOK(y)') /\ \A queue \in Chain : AtMostOne(queue)'
  BY <1>1 DEF DInv, Steady
<1>2. (\A y \in Executors : OldOK(y)) /\ \A queue \in Chain : AtMostOne(queue)
  BY DEF DInv
<1>3. ASSUME UNCHANGED <<equity, metrics, parity, at, old>>
      PROVE  (\A y \in Executors : OldOK(y)') /\ \A queue \in Chain : AtMostOne(queue)'
  BY <1>2, <1>3, TablesStill DEF OldOK, AtMostOne
<1>4. ASSUME NEW x \in Executors, Throw(x) \/ Die(x) \/ Stall(x) PROVE Replacing(x) /\ at[x] # "idle"
  BY <1>4, FaultsReplace DEF DInv, Throw, Die, Stall, IInv, OwnersWork
<1>5. ASSUME NEW x \in Executors, Step(x) PROVE Replacing(x) /\ (at[x] # "idle" \/ x[1] = p)
  <2>1. Replacing(x)
    BY <1>5, BeginsReplace, DeletesReplace, MovesReplace, CommitsReplace DEF DInv, Step
  <2>2. ASSUME NEW j, Begin(x, j) PROVE x[1] = p
    BY <2>2 DEF Begin, fetchReport, readUpload, readRun, loadTrades, readSnapshots, takes
  <2>3. (\E j : Begin(x, j)) \/ at[x] # "idle"
    BY <1>5 DEF Step, deleteRows, handleReportParse, handleTradeNormalisation, setRunning, simulate,
       markFailed, handleLocalRunnerExecution, handleEquityReconstruction, handleMetricCalculation,
       markRunAnalysed, readDrawdown, loadReportedParityMetrics, handleParityCalculation,
       proceed, committing
  <2> QED
    BY <2>1, <2>2, <2>3
<1>6. ASSUME NEW f \in Files,
             \/ \E c \in Contents : putReport(f, c)
             \/ fetchForChecksum(f)
             \/ \E run \in Attachments : completeReportUpload(f, run)
      PROVE  UNCHANGED <<equity, metrics, parity, at, old>>
  BY <1>6 DEF putReport, fetchForChecksum, completeReportUpload, tableVars, execVars
<1>7. ASSUME NEW j, Drop(j) PROVE UNCHANGED <<equity, metrics, parity, at, old>>
  BY <1>7 DEF Drop, fault, tableVars, execVars
<1>8. UNCHANGED vars => UNCHANGED <<equity, metrics, parity, at, old>>
  BY DEF vars, tableVars, execVars
<1>9. ASSUME NEW x \in Executors, Replacing(x), at[x] # "idle" \/ x[1] = p
      PROVE  (\A y \in Executors : OldOK(y)') /\ \A queue \in Chain : AtMostOne(queue)'
  BY <1>2, <1>9, ReplacingKeeps DEF DInv
<1> QED
  BY <1>3, <1>4, <1>5, <1>6, <1>7, <1>8, <1>9 DEF Next

LEMMA FewRows == ASSUME NEW S, \A r, s \in S : r = s PROVE Cardinality(S) <= 1
<1>1. CASE S = {}
  BY <1>1, FS_EmptySet
<1>2. CASE S # {}
  <2>1. PICK r : S = {r}
    BY <1>2
  <2> QED
    BY <2>1, FS_Singleton
<1> QED
  BY <1>1, <1>2

(* With one process a run never has two curves, two sets of metrics or two   *)
(* verdicts, whatever is executed again, taken back or given up: the DELETE  *)
(* of an execution sees all that was committed before it, because the next   *)
(* execution of the queue begins after its COMMIT.                          *)
THEOREM ChainDoesNotDuplicate == Spec => []SingleResults
<1>1. DInv => SingleResults
  <2> SUFFICES ASSUME DInv, Cardinality(deployed) = 1
               PROVE  Cardinality(equity) <= 1 /\ Cardinality(metrics) <= 1 /\ VerdictIsNotDuplicated
    BY DEF SingleResults
  <2>1. PICK p : deployed = {p}
    <3>1. IsFiniteSet(deployed)
      BY WorkersAssumption, FS_Subset DEF DInv, Deployment
    <3> QED
      BY <3>1, FS_Singleton
  <2>2. p \in Workers /\ \A queue \in Chain : AtMostOne(queue)
    BY <2>1 DEF DInv, Deployment
  <2>3. /\ \A r, s \in equity : r = s
        /\ \A r, s \in metrics : r = s
        /\ \A r, s \in parity : r = s
    BY <2>2 DEF Chain, AtMostOne, Table
  <2> QED
    BY <2>3, FewRows DEF VerdictIsNotDuplicated
<1> QED
  BY <1>1, Invariance, DuplicatesInit, DuplicatesNext, PTL DEF Spec

-----------------------------------------------------------------------------
(* Bytes.  An upload never puts other bytes under a key that has some: the   *)
(* presigned PUT would have to be refused once the object exists.           *)
BytesStand == \A f \in Files : object[f] # Nothing => object'[f] = object[f]

(* A job to parse a file comes from the registration of the file. *)
Registered(j) == j.queue = "report-parse" => recorded[j.file] # Nothing

ParsesRecorded(x) ==
    at[x] # "idle" =>
        /\ Registered(job[x])
        /\ x[2] = "report-parse" => recorded[job[x].file] # Nothing /\ made[x] = recorded[job[x].file]

FInv ==
    /\ \A f \in Files : /\ checksum[f] \in {Nothing, object[f]}
                        /\ recorded[f] \in {Nothing, object[f]}
                        /\ parsed[f] \in Contents => parsed[f] = recorded[f]
                        /\ f \in refused => recorded[f] # Nothing
    /\ \A j \in BagToSet(waiting) : Registered(j)
    /\ \A x \in Executors : ParsesRecorded(x)

(* What is recorded of a file stays. *)
RecordsStand == \A f \in Files : recorded[f] # Nothing => recorded'[f] = recorded[f]

LEMMA EmittedFiles ==
    ASSUME NEW j, waiting' = emitted(j)
    PROVE  BagToSet(waiting') = BagToSet(waiting) \cup {j}
  BY DEF BagToSet, emitted, SetToBag, (+)

LEMMA TakenFiles ==
    ASSUME NEW j, waiting' = waiting (-) SetToBag({j})
    PROVE  BagToSet(waiting') \subseteq BagToSet(waiting)
  BY DEF BagToSet, SetToBag, (-)

LEMMA AttemptedFiles ==
    ASSUME NEW j, JobTyped(j), Registered(j), retried(j) \/ takenBack(j), UNCHANGED recorded,
           \A k \in BagToSet(waiting) : Registered(k)
    PROVE  \A k \in BagToSet(waiting') : Registered(k)'
<1>1. CASE UNCHANGED waiting
  BY <1>1 DEF Registered
<1>2. ASSUME NEW k, k.queue = j.queue, k.file = j.file, waiting' = emitted(k)
      PROVE  \A i \in BagToSet(waiting') : Registered(i)'
  BY <1>2, EmittedFiles DEF Registered
<1>3. PICK k, l : k = [j EXCEPT !.attempts = @ + 1] /\ l = [j EXCEPT !.stalls = @ + 1]
  OBVIOUS
<1>4. k.queue = j.queue /\ k.file = j.file /\ l.queue = j.queue /\ l.file = j.file
  BY <1>3 DEF JobTyped, Jobs
<1> QED
  BY <1>1, <1>2, <1>3, <1>4 DEF retried, takenBack

(* A step that touches no file, no job and no executor. *)
LEMMA FilesStill ==
    ASSUME FInv, UNCHANGED fileVars,
           \A j \in BagToSet(waiting') : Registered(j)',
           \A x \in Executors : ParsesRecorded(x)'
    PROVE  FInv'
  BY DEF FInv, fileVars

LEMMA ExecutorsStill ==
    ASSUME FInv, UNCHANGED recorded, NEW x \in Executors,
           \A y \in Executors \ {x} : at'[y] = at[y] /\ job'[y] = job[y] /\ made'[y] = made[y],
           ParsesRecorded(x)'
    PROVE  \A y \in Executors : ParsesRecorded(y)'
<1>1. ASSUME NEW y \in Executors \ {x} PROVE ParsesRecorded(y)'
  BY <1>1 DEF FInv, ParsesRecorded, Registered
<1> QED
  BY <1>1

LEMMA UploadsRecord ==
    ASSUME TInv, FInv, BytesStand, NEW f \in Files,
           \/ \E c \in Contents : putReport(f, c)
           \/ fetchForChecksum(f)
           \/ \E run \in Attachments : completeReportUpload(f, run)
    PROVE  FInv'
<1>1. /\ object \in [Files -> Contents \cup {Nothing}]
      /\ checksum \in [Files -> Contents \cup {Nothing}]
      /\ recorded \in [Files -> Contents \cup {Nothing}]
  BY DEF TInv, FilesTyped
<1>2. UNCHANGED <<at, job, made>>
  BY DEF putReport, fetchForChecksum, completeReportUpload, execVars
<1>3. CASE \E c \in Contents : putReport(f, c)
  <2>1. UNCHANGED <<checksum, recorded, parsed, refused, waiting>>
    BY <1>3 DEF putReport, queueVars
  <2>2. \A g \in Files : object[g] = Nothing => checksum[g] = Nothing /\ recorded[g] = Nothing
    BY DEF FInv
  <2>3. \A g \in Files : checksum'[g] \in {Nothing, object'[g]} /\ recorded'[g] \in {Nothing, object'[g]}
    BY <2>1, <2>2 DEF FInv, BytesStand
  <2> QED
    BY <1>2, <2>1, <2>3 DEF FInv, ParsesRecorded, Registered
<1>4. CASE fetchForChecksum(f)
  <2>1. UNCHANGED <<object, recorded, parsed, refused, waiting>> /\ checksum' = [checksum EXCEPT ![f] = object[f]]
    BY <1>4 DEF fetchForChecksum, queueVars
  <2> QED
    BY <1>1, <1>2, <2>1 DEF FInv, ParsesRecorded, Registered
<1>5. ASSUME NEW run \in Attachments, completeReportUpload(f, run) PROVE FInv'
  <2>1. checksum[f] # Nothing /\ checksum' = [checksum EXCEPT ![f] = Nothing] /\ UNCHANGED <<object, parsed>>
    BY <1>5 DEF completeReportUpload
  <2>2. CASE recorded[f] = Nothing
    <3>1. /\ recorded' = [recorded EXCEPT ![f] = checksum[f]] /\ UNCHANGED refused
          /\ waiting' = emitted(Job("report-parse", f, run))
      BY <1>5, <2>2 DEF completeReportUpload
    <3>2. recorded'[f] = checksum[f] /\ \A g \in Files \ {f} : recorded'[g] = recorded[g]
      BY <1>1, <3>1
    <3>3. RecordsStand
      BY <2>2, <3>2 DEF RecordsStand
    <3>4. parsed[f] \notin Contents /\ f \notin refused
      BY <2>2, ContentsAssumption DEF FInv
    <3>5. \A g \in Files : /\ checksum'[g] \in {Nothing, object'[g]} /\ recorded'[g] \in {Nothing, object'[g]}
                           /\ parsed'[g] \in Contents => parsed'[g] = recorded'[g]
                           /\ g \in refused' => recorded'[g] # Nothing
      BY <1>1, <2>1, <3>1, <3>2, <3>4 DEF FInv
    <3>6. PICK j : j = Job("report-parse", f, run)
      OBVIOUS
    <3>7. j.file = f
      BY <3>6 DEF Job
    <3>8. \A k \in BagToSet(waiting) : k.queue = "report-parse" => k.file \in Files
      BY DEF TInv, QueuesTyped, JobTyped
    <3>9. \A k \in BagToSet(waiting') : Registered(k)'
      BY <2>1, <3>1, <3>2, <3>3, <3>6, <3>7, <3>8, EmittedFiles DEF FInv, Registered, RecordsStand
    <3>10. ASSUME NEW x \in Executors, at[x] # "idle" PROVE ParsesRecorded(x)'
      <4>1. job[x].queue = x[2] /\ (x[2] = "report-parse" => job[x].file \in Files)
        BY <3>10 DEF TInv, ExecutorTyped, JobTyped
      <4> QED
        BY <1>2, <3>3, <3>10, <4>1 DEF FInv, ParsesRecorded, Registered, RecordsStand
    <3>11. \A x \in Executors : ParsesRecorded(x)'
      BY <1>2, <3>10 DEF ParsesRecorded
    <3> QED
      BY <3>5, <3>9, <3>11 DEF FInv
  <2>3. CASE recorded[f] # Nothing
    <3>1. UNCHANGED <<recorded, waiting>> /\ refused' = refused \cup {f}
      BY <1>5, <2>3 DEF completeReportUpload
    <3> QED
      BY <1>1, <1>2, <2>1, <2>3, <3>1 DEF FInv, ParsesRecorded, Registered
  <2> QED
    BY <2>2, <2>3
<1> QED
  BY <1>3, <1>4, <1>5

LEMMA FaultsRecord ==
    ASSUME IInv, TInv, FInv, NEW x \in Executors, Throw(x) \/ Die(x) \/ Stall(x)
    PROVE  FInv'
<1>1. UNCHANGED fileVars /\ at[x] # "idle"
  BY DEF Throw, Die, Stall, fault, IInv, OwnersWork
<1>2. UNCHANGED recorded /\ Registered(job[x]) /\ JobTyped(job[x])
  BY <1>1 DEF fileVars, FInv, ParsesRecorded, TInv, ExecutorTyped
<1>3. \A k \in BagToSet(waiting') : Registered(k)'
  <2>1. CASE retried(job[x]) \/ takenBack(job[x])
    BY <1>2, <2>1, AttemptedFiles DEF FInv
  <2>2. CASE UNCHANGED waiting
    BY <1>2, <2>2 DEF FInv, Registered
  <2> QED
    BY <2>1, <2>2 DEF Throw, Die, Stall, queueVars
<1>4. CASE settle(x)
  <2>1. /\ at'[x] = "idle"
        /\ \A y \in Executors \ {x} : at'[y] = at[y] /\ job'[y] = job[y] /\ made'[y] = made[y]
    BY <1>4 DEF settle, IInv, Shapes
  <2>2. ParsesRecorded(x)'
    BY <2>1 DEF ParsesRecorded
  <2> QED
    BY <1>1, <1>2, <1>3, <2>1, <2>2, FilesStill, ExecutorsStill
<1>5. CASE UNCHANGED <<at, job, made>>
  <2>1. \A y \in Executors : ParsesRecorded(y)'
    BY <1>2, <1>5 DEF FInv, ParsesRecorded, Registered
  <2> QED
    BY <1>1, <1>3, <2>1, FilesStill
<1> QED
  BY <1>4, <1>5 DEF Throw, Die, Stall

LEMMA DropRecords ==
    ASSUME FInv, NEW j \in BagToSet(waiting), Drop(j)
    PROVE  FInv'
<1>1. UNCHANGED <<fileVars, recorded, at, job, made>>
  BY DEF Drop, fault, execVars, fileVars
<1>2. \A k \in BagToSet(waiting') : Registered(k)'
  BY <1>1, TakenFiles DEF Drop, FInv, Registered
<1>3. \A x \in Executors : ParsesRecorded(x)'
  BY <1>1 DEF FInv, ParsesRecorded, Registered
<1> QED
  BY <1>1, <1>2, <1>3, FilesStill

LEMMA BeginsRecord ==
    ASSUME IInv, TInv, FInv, NEW x \in Executors, NEW j \in BagToSet(waiting), Begin(x, j)
    PROVE  FInv'
<1>1. JobTyped(j) /\ Registered(j)
  BY DEF TInv, QueuesTyped, FInv
<1>2. CASE refuse(j)
  <2>1. PICK rest : rest = waiting (-) SetToBag({j})
    OBVIOUS
  <2>2. PICK k : k = [j EXCEPT !.attempts = @ + 1]
    OBVIOUS
  <2>3. BagToSet(rest) \subseteq BagToSet(waiting)
    BY <2>1 DEF BagToSet, SetToBag, (-)
  <2>4. BagToSet(waiting') \subseteq BagToSet(rest) \cup {k}
    <3>1. waiting' = rest \/ waiting' = rest (+) SetToBag({k})
      BY <1>2, <2>1, <2>2 DEF refuse
    <3>2. BagToSet(rest (+) SetToBag({k})) = BagToSet(rest) \cup {k}
      BY DEF BagToSet, SetToBag, (+)
    <3> QED
      BY <3>1, <3>2
  <2>5. k.queue = j.queue /\ k.file = j.file
    BY <1>1, <2>2 DEF JobTyped, Jobs
  <2>6. UNCHANGED <<fileVars, recorded, at, job, made>>
    BY <1>2 DEF refuse, execVars, fileVars
  <2>7. \A i \in BagToSet(waiting') : Registered(i)'
    BY <1>1, <2>3, <2>4, <2>5, <2>6 DEF FInv, Registered
  <2>8. \A y \in Executors : ParsesRecorded(y)'
    BY <2>6 DEF FInv, ParsesRecorded, Registered
  <2> QED
    BY <2>6, <2>7, <2>8, FilesStill
<1>3. ASSUME NEW stage, NEW read, begin(x, j, stage, read), j.queue = x[2],
             x[2] = "report-parse" => read = object[j.file]
      PROVE  FInv'
  <2>1. UNCHANGED fileVars /\ UNCHANGED recorded
    BY <1>3 DEF begin, fileVars
  <2>2. \A k \in BagToSet(waiting') : Registered(k)'
    BY <1>3, <2>1, TakenFiles DEF begin, FInv, Registered
  <2>3. /\ job'[x] = j /\ made'[x] = read
        /\ \A y \in Executors \ {x} : at'[y] = at[y] /\ job'[y] = job[y] /\ made'[y] = made[y]
    BY <1>3 DEF begin, IInv, Shapes
  <2>4. x[2] = "report-parse" => recorded[j.file] # Nothing /\ read = recorded[j.file]
    BY <1>1, <1>3 DEF JobTyped, Registered, FInv
  <2>5. ParsesRecorded(x)'
    BY <1>1, <2>1, <2>3, <2>4 DEF ParsesRecorded, Registered
  <2> QED
    BY <2>1, <2>2, <2>3, <2>5, FilesStill, ExecutorsStill
<1>4. CASE fetchReport(x, j)
  BY <1>3, <1>4 DEF fetchReport, takes
<1>5. CASE readUpload(x, j)
  BY <1>2, <1>3, <1>5 DEF readUpload, takes
<1>6. CASE readRun(x, j)
  BY <1>3, <1>6 DEF readRun, takes
<1>7. CASE loadTrades(x, j)
  BY <1>3, <1>7 DEF loadTrades, takes
<1>8. CASE readSnapshots(x, j)
  BY <1>2, <1>3, <1>8 DEF readSnapshots, takes
<1> QED
  BY <1>4, <1>5, <1>6, <1>7, <1>8 DEF Begin

LEMMA ProceedsRecord ==
    ASSUME IInv, TInv, FInv, NEW x \in Executors,
           \/ deleteRows(x) \/ setRunning(x) \/ simulate(x) \/ readDrawdown(x)
           \/ loadReportedParityMetrics(x) \/ handleMetricCalculation(x)
    PROVE  FInv'
<1>1. /\ UNCHANGED <<fileVars, recorded, job>> /\ at[x] # "idle"
      /\ \A y \in Executors \ {x} : at'[y] = at[y] /\ made'[y] = made[y]
  BY DEF deleteRows, setRunning, simulate, readDrawdown, loadReportedParityMetrics,
     handleMetricCalculation, committing, proceed, IInv, Shapes, fileVars
<1>2. \A k \in BagToSet(waiting') : Registered(k)'
  <2>1. CASE UNCHANGED waiting
    BY <1>1, <2>1 DEF FInv, Registered
  <2>2. ASSUME NEW k, k.queue # "report-parse", waiting' = emitted(k)
        PROVE  \A i \in BagToSet(waiting') : Registered(i)'
    BY <1>1, <2>2, EmittedFiles DEF FInv, Registered
  <2>3. Job("parity-calculation", Nothing, TRUE).queue # "report-parse"
    BY DEF Job
  <2>4. CASE handleMetricCalculation(x)
    BY <2>1, <2>2, <2>3, <2>4 DEF handleMetricCalculation
  <2>5. CASE ~handleMetricCalculation(x)
    BY <2>1, <2>5 DEF deleteRows, setRunning, simulate, readDrawdown, loadReportedParityMetrics, queueVars
  <2> QED
    BY <2>4, <2>5
<1>3. x[2] # "report-parse" \/ made'[x] = made[x]
  <2>1. at[x] \in {"simulate", "curve", "reported"} => x[2] # "report-parse"
    BY DEF IInv, ExecutorOK, StageOK
  <2> QED
    BY <2>1 DEF deleteRows, setRunning, simulate, readDrawdown, loadReportedParityMetrics,
       handleMetricCalculation, proceed
<1>4. ParsesRecorded(x)'
  BY <1>1, <1>3 DEF FInv, ParsesRecorded, Registered
<1> QED
  BY <1>1, <1>2, <1>4, FilesStill, ExecutorsStill

(* The end of an execution that writes to no file, and may emit a job of     *)
(* another queue.                                                           *)
LEMMA EndsRecord ==
    ASSUME IInv, FInv, NEW x \in Executors, settle(x), UNCHANGED fileVars,
           \/ UNCHANGED waiting
           \/ waiting' = emitted(Job("equity-reconstruction", Nothing, TRUE))
           \/ waiting' = emitted(Job("metric-calculation", Nothing, TRUE))
    PROVE  FInv'
<1>1. UNCHANGED recorded
  BY DEF fileVars
<1>2. \A k \in BagToSet(waiting') : Registered(k)'
  <2>1. CASE UNCHANGED waiting
    BY <1>1, <2>1 DEF FInv, Registered
  <2>2. ASSUME NEW k, k.queue # "report-parse", waiting' = emitted(k)
        PROVE  \A i \in BagToSet(waiting') : Registered(i)'
    BY <1>1, <2>2, EmittedFiles DEF FInv, Registered
  <2>3. /\ Job("equity-reconstruction", Nothing, TRUE).queue # "report-parse"
        /\ Job("metric-calculation", Nothing, TRUE).queue # "report-parse"
    BY DEF Job
  <2> QED
    BY <2>1, <2>2, <2>3
<1>3. /\ at'[x] = "idle"
      /\ \A y \in Executors \ {x} : at'[y] = at[y] /\ job'[y] = job[y] /\ made'[y] = made[y]
  BY DEF settle, IInv, Shapes
<1>4. ParsesRecorded(x)'
  BY <1>3 DEF ParsesRecorded
<1> QED
  BY <1>1, <1>2, <1>3, <1>4, FilesStill, ExecutorsStill

LEMMA ParseRecords ==
    ASSUME IInv, TInv, FInv, NEW x \in Executors, handleReportParse(x)
    PROVE  FInv'
<1>1. /\ UNCHANGED <<object, checksum, recorded, refused>>
      /\ at'[x] = "idle"
      /\ \A y \in Executors \ {x} : at'[y] = at[y] /\ job'[y] = job[y] /\ made'[y] = made[y]
  BY DEF handleReportParse, settle, IInv, Shapes
<1>2. PICK f : f = job[x].file
  OBVIOUS
<1>3. f \in Files /\ made[x] = recorded[f]
  BY <1>2 DEF handleReportParse, TInv, ExecutorTyped, JobTyped, FInv, ParsesRecorded
<1>4. PICK result : /\ parsed' = [parsed EXCEPT ![f] = result]
                    /\ result = made[x] \/ result = "FAILED"
  BY <1>2 DEF handleReportParse
<1>5. parsed'[f] = result /\ \A g \in Files \ {f} : parsed'[g] = parsed[g]
  BY <1>3, <1>4 DEF TInv, FilesTyped
<1>6. result \in Contents => result = recorded[f]
  BY <1>3, <1>4, ContentsAssumption
<1>7. \A g \in Files : parsed'[g] \in Contents => parsed'[g] = recorded'[g]
  BY <1>1, <1>5, <1>6 DEF FInv
<1>8. \A k \in BagToSet(waiting') : Registered(k)'
  <2>1. CASE UNCHANGED waiting
    BY <1>1, <2>1 DEF FInv, Registered
  <2>2. CASE waiting' = emitted(Job("trade-normalisation", f, TRUE))
    <3>1. PICK k : k = Job("trade-normalisation", f, TRUE)
      OBVIOUS
    <3>2. k.queue = "trade-normalisation"
      BY <3>1 DEF Job
    <3> QED
      BY <1>1, <2>2, <3>1, <3>2, EmittedFiles DEF FInv, Registered
  <2> QED
    BY <1>2, <2>1, <2>2 DEF handleReportParse
<1>9. ParsesRecorded(x)'
  BY <1>1 DEF ParsesRecorded
<1>10. \A y \in Executors : ParsesRecorded(y)'
  BY <1>1, <1>9, ExecutorsStill
<1> QED
  BY <1>1, <1>7, <1>8, <1>10 DEF FInv

LEMMA FilesNext == IInv /\ TInv /\ FInv /\ [Next]_vars /\ [BytesStand]_vars => FInv'
<1> SUFFICES ASSUME IInv, TInv, FInv, [Next]_vars, [BytesStand]_vars PROVE FInv'
  OBVIOUS
<1>1. CASE UNCHANGED vars
  BY <1>1 DEF vars, fileVars, queueVars, execVars, FInv, ParsesRecorded, Registered
<1>2. CASE BytesStand /\ Next
  <2>1. ASSUME NEW f \in Files,
               \/ \E c \in Contents : putReport(f, c)
               \/ fetchForChecksum(f)
               \/ \E run \in Attachments : completeReportUpload(f, run)
        PROVE  FInv'
    BY <1>2, <2>1, UploadsRecord
  <2>2. ASSUME NEW x \in Executors, Step(x) PROVE FInv'
    <3>1. CASE \/ handleTradeNormalisation(x) \/ handleLocalRunnerExecution(x)
               \/ handleEquityReconstruction(x) \/ handleParityCalculation(x)
               \/ markFailed(x) \/ markRunAnalysed(x)
      <4>1. /\ settle(x) /\ UNCHANGED fileVars
            /\ \/ UNCHANGED waiting
               \/ waiting' = emitted(Job("equity-reconstruction", Nothing, TRUE))
               \/ waiting' = emitted(Job("metric-calculation", Nothing, TRUE))
        BY <3>1 DEF handleTradeNormalisation, handleLocalRunnerExecution, handleEquityReconstruction,
           handleParityCalculation, markFailed, markRunAnalysed, committing, queueVars
      <4> QED
        BY <4>1, EndsRecord
    <3> QED
      BY <2>2, <3>1, BeginsRecord, ProceedsRecord, ParseRecords DEF Step
  <2>3. ASSUME NEW x \in Executors, Throw(x) \/ Die(x) \/ Stall(x) PROVE FInv'
    BY <2>3, FaultsRecord
  <2>4. ASSUME NEW j \in BagToSet(waiting), Drop(j) PROVE FInv'
    BY <2>4, DropRecords
  <2> QED
    BY <1>2, <2>1, <2>2, <2>3, <2>4 DEF Next
<1> QED
  BY <1>1, <1>2

LEMMA FilesInit == Init => FInv
<1> SUFFICES ASSUME Init PROVE FInv
  OBVIOUS
<1>1. \A f \in Files : checksum[f] = Nothing /\ recorded[f] = Nothing /\ parsed[f] \notin Contents /\ f \notin refused
  BY ContentsAssumption DEF Init
<1>2. \A x \in Executors : at[x] = "idle"
  BY DEF Init
<1>3. \A j \in BagToSet(waiting) : j.queue # "report-parse"
  <2>1. BagToSet(waiting) \subseteq {Job("local-runner-execution", Nothing, TRUE)}
    BY DEF Init, EmptyBag, SetToBag, BagToSet
  <2>2. Job("local-runner-execution", Nothing, TRUE).queue = "local-runner-execution"
    BY DEF Job
  <2> QED
    BY <2>1, <2>2
<1> QED
  BY <1>1, <1>2, <1>3 DEF FInv, ParsesRecorded, Registered

(* Were the bytes under a key never replaced, a file would always be parsed  *)
(* as the bytes that were recorded, and no completion would be refused of a  *)
(* file that differs from the recorded one, however uploads, completions,    *)
(* retries and taken back jobs interleave: ParsedIsRecorded and             *)
(* CorrectionIsRecorded fail because a presigned PUT overwrites.            *)
THEOREM FilesAreAsRecorded ==
    Spec /\ [][BytesStand]_vars => [](ParsedIsRecorded /\ CorrectionIsRecorded)
<1>1. TInv /\ FInv => ParsedIsRecorded /\ CorrectionIsRecorded
  <2> SUFFICES ASSUME TInv, FInv PROVE ParsedIsRecorded /\ CorrectionIsRecorded
    OBVIOUS
  <2>1. ParsedIsRecorded
    BY DEF FInv, ParsedIsRecorded
  <2>2. \A f \in Files : f \in refused => object[f] = recorded[f]
    BY DEF FInv
  <2>3. refused \subseteq Files
    BY DEF TInv, FilesTyped
  <2> QED
    BY <2>1, <2>2, <2>3 DEF CorrectionIsRecorded
<1>2. Spec => []TInv
  BY Invariance, TypesInit, TypesNext, PTL DEF Spec
<1> QED
  BY <1>1, <1>2, Invariance, FilesInit, FilesNext, PTL DEF Spec
=============================================================================
