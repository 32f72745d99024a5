--------------------------- MODULE IngestionChain ---------------------------
(***************************************************************************)
(* The evidence of one backtest run: report files put into object storage, *)
(* their registration, and the chain of jobs that parses them, writes the  *)
(* trade ledger, rebuilds the equity curves, calculates the metrics and    *)
(* compares them with what TradingView reported.  A run of the local       *)
(* runner gets its ledger from a job of its own instead.                   *)
(*                                                                         *)
(* Each process runs one worker per queue.  A handler reads, and replaces  *)
(* the rows it is responsible for in a transaction whose DELETE removes    *)
(* the rows visible to it and whose outcome is visible when it commits.    *)
(* A job is lost here if its outbox row or its BullMQ job failed for good. *)
(***************************************************************************)
EXTENDS Naturals, FiniteSets, Bags

CONSTANTS
    Ledgers,      \* List of Trades files, one object key per verification
    Summaries,    \* the Performance Summary file of the run's verification
    Contents,     \* what a file may contain
    Malformed,    \* the contents that no parser accepts
    Workers,      \* processes
    Definitions,  \* what the local runner may be asked to simulate: "sound",
                  \*   "unsound", or "none" for a TradingView run
    Verified,     \* the run names a verification
    MaxAttempts,  \* attempts given to every job
    MaxStalls,    \* stalls BullMQ forgives before it fails a job
    MaxFaults,    \* bound: executions and events that are lost
    Attachments,  \* bound: whether completions name the run
    Repeats,      \* bound: whether a file is uploaded and completed again
    Mixed,        \* bound: whether reports are uploaded for the local runner's run
    Nothing       \* no file, no content, no job, no row

ASSUME RunAssumption ==
    Definitions \subseteq {"none", "sound", "unsound"} /\ Verified \in BOOLEAN
ASSUME WorkersAssumption == IsFiniteSet(Workers)
ASSUME ContentsAssumption ==
    Malformed \subseteq Contents /\ {Nothing, "PENDING", "FAILED"} \cap Contents = {}
ASSUME BoundsAssumption ==
    /\ MaxAttempts \in Nat \ {0} /\ MaxStalls \in Nat /\ MaxFaults \in Nat
    /\ Attachments \subseteq BOOLEAN /\ Repeats \in BOOLEAN /\ Mixed \in BOOLEAN

Files == Ledgers \cup Summaries

Queues == {"report-parse", "trade-normalisation", "local-runner-execution",
           "equity-reconstruction", "metric-calculation", "parity-calculation"}
Executors == Workers \X Queues

VARIABLES
    object,       \* what object storage holds under a file's key
    checksum,     \* what a completion request in flight has fetched
    recorded,     \* the content a file's artefact row was checksummed from
    parsed,       \* report_uploads: "PENDING", "FAILED" or the parsed content
    refused,      \* files whose completion was answered with an error
    deployed,     \* the processes that run
    definition,   \* the run's definition and dataset
    status,       \* backtest_runs.status
    announced,    \* the statuses of backtest_run.completed events
    ledger,       \* the rows of each table, one element per transaction that
    equity,       \*   inserted some: who inserted them, and what they were
    metrics,      \*   computed from
    parity,
    waiting,      \* jobs, and events on their way to become jobs
    lost,         \* jobs that were given up
    at,           \* the step an executor performs next
    job,          \* the job it executes
    owned,        \* it still holds the job's lock
    made,         \* what it read, or the rows it is going to insert
    old,          \* the rows its transaction deleted
    faults        \* executions and events lost so far

fileVars == <<object, checksum, recorded, parsed, refused>>
runVars == <<deployed, definition, status, announced>>
tableVars == <<ledger, equity, metrics, parity>>
queueVars == <<waiting, lost>>
execVars == <<at, job, owned, made, old>>
vars == <<fileVars, runVars, tableVars, queueVars, execVars, faults>>

(* A job; "run" tells whether a report is attached to the run. *)
Job(queue, file, run) ==
    [queue |-> queue, file |-> file, run |-> run, attempts |-> 0, stalls |-> 0]

Jobs == [queue : Queues, file : Files \cup {Nothing}, run : BOOLEAN,
         attempts : 0..MaxAttempts - 1, stalls : 0..MaxStalls]

ASSUME NoJobAssumption == Nothing \notin Jobs

(* The rows of one insertion: who inserted them, computed from what. *)
Rows(sources) == [by : Executors, of : sources]
LedgerRows == Rows(Ledgers \X Contents \cup {<<Nothing, Nothing>>})
DerivedRows == Rows(SUBSET LedgerRows)
ParityRows == Rows([metrics : SUBSET DerivedRows, curve : SUBSET DerivedRows,
                    reported : SUBSET Contents])

TypeOK ==
    /\ object \in [Files -> Contents \cup {Nothing}]
    /\ checksum \in [Files -> Contents \cup {Nothing}]
    /\ recorded \in [Files -> Contents \cup {Nothing}]
    /\ \A f \in Files : parsed[f] \in Contents \/ parsed[f] \in {"PENDING", "FAILED"}
    /\ refused \subseteq Files
    /\ definition \in Definitions
    /\ status \in {"QUEUED", "RUNNING", "SUCCEEDED", "FAILED_TERMINAL"}
    /\ announced \subseteq {"SUCCEEDED", "FAILED_TERMINAL"}
    /\ ledger \subseteq LedgerRows
    /\ equity \subseteq DerivedRows /\ metrics \subseteq DerivedRows
    /\ parity \subseteq ParityRows
    /\ IsABag(waiting) /\ BagToSet(waiting) \subseteq Jobs
    /\ lost \subseteq Jobs
    /\ \A x \in Executors : at[x] = "idle" <=> job[x] = Nothing
    /\ faults \in 0..MaxFaults

Init ==
    /\ object = [f \in Files |-> Nothing]
    /\ checksum = [f \in Files |-> Nothing]
    /\ recorded = [f \in Files |-> Nothing]
    /\ parsed = [f \in Files |-> "PENDING"]
    /\ refused = {}
    /\ deployed \in (SUBSET Workers) \ {{}}
    /\ definition \in Definitions
    /\ status = "QUEUED"
    /\ announced = {}
    /\ ledger = {}
    /\ equity = {}
    /\ metrics = {}
    /\ parity = {}
    /\ waiting = IF definition = "none" THEN EmptyBag
                 ELSE SetToBag({Job("local-runner-execution", Nothing, TRUE)})
    /\ lost = {}
    /\ at = [x \in Executors |-> "idle"]
    /\ job = [x \in Executors |-> Nothing]
    /\ owned = [x \in Executors |-> FALSE]
    /\ made = [x \in Executors |-> Nothing]
    /\ old = [x \in Executors |-> {}]
    /\ faults = 0

-----------------------------------------------------------------------------
(* The researcher and the API. *)

(* A presigned PUT: the key is the same for every upload of the file. *)
putReport(f, c) ==
    /\ Repeats \/ object[f] = Nothing
    /\ Mixed \/ definition = "none"
    /\ object' = [object EXCEPT ![f] = c]
    /\ UNCHANGED <<checksum, recorded, parsed, refused, runVars, tableVars, queueVars,
                   execVars, faults>>

(* completeReportUpload fetches the object and checksums it... *)
fetchForChecksum(f) ==
    /\ checksum[f] = Nothing /\ object[f] # Nothing
    /\ Repeats \/ recorded[f] = Nothing
    /\ checksum' = [checksum EXCEPT ![f] = object[f]]
    /\ UNCHANGED <<object, recorded, parsed, refused, runVars, tableVars, queueVars,
                   execVars, faults>>

emitted(j) == waiting (+) SetToBag({j})

(* ...and commits the artefact, the upload and its event.  An artefact with *)
(* the same key violates object_key's UNIQUE constraint.                    *)
completeReportUpload(f, run) ==
    /\ checksum[f] # Nothing
    /\ checksum' = [checksum EXCEPT ![f] = Nothing]
    /\ IF recorded[f] = Nothing
       THEN /\ recorded' = [recorded EXCEPT ![f] = checksum[f]]
            /\ waiting' = emitted(Job("report-parse", f, run))
            /\ UNCHANGED refused
       ELSE /\ refused' = refused \cup {f}
            /\ UNCHANGED <<recorded, waiting>>
    /\ UNCHANGED <<object, parsed, runVars, tableVars, lost, execVars, faults>>

-----------------------------------------------------------------------------
(* Jobs. *)

(* Mutant: an attempt is counted when it starts and again when it fails. *)
retried_CountedTwice(j) ==
    IF j.attempts + 1 < MaxAttempts
    THEN /\ waiting' = emitted([j EXCEPT !.attempts = @ + 2])
         /\ UNCHANGED lost
    ELSE /\ lost' = lost \cup {j}
         /\ UNCHANGED waiting

(* An attempt at the job failed; the last one makes it fail for good. *)
retried(j) ==
    IF j.attempts + 1 < MaxAttempts
    THEN /\ waiting' = emitted([j EXCEPT !.attempts = @ + 1])
         /\ UNCHANGED lost
    ELSE /\ lost' = lost \cup {j}
         /\ UNCHANGED waiting

(* A job without a worker is taken back, but not too often. *)
takenBack(j) ==
    IF j.stalls < MaxStalls
    THEN /\ waiting' = emitted([j EXCEPT !.stalls = @ + 1])
         /\ UNCHANGED lost
    ELSE /\ lost' = lost \cup {j}
         /\ UNCHANGED waiting

settle(x) ==
    /\ at' = [at EXCEPT ![x] = "idle"]
    /\ job' = [job EXCEPT ![x] = Nothing]
    /\ owned' = [owned EXCEPT ![x] = FALSE]
    /\ made' = [made EXCEPT ![x] = Nothing]
    /\ old' = [old EXCEPT ![x] = {}]

fault ==
    /\ faults < MaxFaults
    /\ faults' = faults + 1
    /\ UNCHANGED <<fileVars, runVars, tableVars>>

(* A query or a fetch throws and the transaction rolls back. *)
Throw(x) ==
    /\ fault
    /\ at[x] # "idle"
    /\ IF owned[x] THEN retried(job[x]) ELSE UNCHANGED queueVars
    /\ settle(x)

(* The process dies: one step for each of its executors. *)
Die(x) ==
    /\ fault
    /\ at[x] # "idle"
    /\ IF owned[x] THEN takenBack(job[x]) ELSE UNCHANGED queueVars
    /\ settle(x)

(* The lock expires under a worker that goes on with the job. *)
Stall(x) ==
    /\ fault
    /\ owned[x]
    /\ takenBack(job[x])
    /\ owned' = [owned EXCEPT ![x] = FALSE]
    /\ UNCHANGED <<at, job, made, old>>

(* The relay could not publish the event and marked its row FAILED. *)
Drop(j) ==
    /\ fault
    /\ BagIn(j, waiting)
    /\ waiting' = waiting (-) SetToBag({j})
    /\ lost' = lost \cup {j}
    /\ UNCHANGED execVars

(* A worker takes the job and does the first query of its handler... *)
takes(x, j, queue) ==
    /\ at[x] = "idle" /\ x[1] \in deployed
    /\ x[2] = queue /\ j.queue = queue

begin(x, j, step, read) ==
    /\ waiting' = waiting (-) SetToBag({j})
    /\ at' = [at EXCEPT ![x] = step]
    /\ job' = [job EXCEPT ![x] = j]
    /\ owned' = [owned EXCEPT ![x] = TRUE]
    /\ made' = [made EXCEPT ![x] = read]
    /\ UNCHANGED <<fileVars, runVars, tableVars, lost, old, faults>>

(* ...which may throw at once: what the handler needs is not there. *)
refuse(j) ==
    /\ LET rest == waiting (-) SetToBag({j}) IN
       IF j.attempts + 1 < MaxAttempts
       THEN waiting' = rest (+) SetToBag({[j EXCEPT !.attempts = @ + 1]}) /\ UNCHANGED lost
       ELSE waiting' = rest /\ lost' = lost \cup {j}
    /\ UNCHANGED <<fileVars, runVars, tableVars, execVars, faults>>

proceed(x, step, next) ==
    /\ at[x] = step
    /\ at' = [at EXCEPT ![x] = next]
    /\ UNCHANGED <<job, owned, faults>>

rows(x, source) == [by |-> x, of |-> source]
Table(queue) == CASE queue \in {"trade-normalisation", "local-runner-execution"} -> ledger
                  [] queue = "equity-reconstruction" -> equity
                  [] queue = "metric-calculation" -> metrics
                  [] queue = "parity-calculation" -> parity

(* Mutant: the event of the ledger is emitted outside its transaction. *)
deleteRows_EventFirst(x) ==
    /\ proceed(x, "delete", "commit")
    /\ old' = [old EXCEPT ![x] = Table(x[2])]
    /\ waiting' = IF x[2] = "trade-normalisation"
                  THEN emitted(Job("equity-reconstruction", Nothing, TRUE)) ELSE waiting
    /\ UNCHANGED <<fileVars, runVars, tableVars, lost, made>>

(* The DELETE of every handler that replaces rows. *)
deleteRows(x) ==
    /\ proceed(x, "delete", "commit")
    /\ old' = [old EXCEPT ![x] = Table(x[2])]
    /\ UNCHANGED <<fileVars, runVars, tableVars, queueVars, made>>

replaced(x) == (Table(x[2]) \ old[x]) \cup {made[x]}

committing(x, queue) == at[x] = "commit" /\ x[2] = queue /\ UNCHANGED <<fileVars, faults>>

-----------------------------------------------------------------------------
(* The handlers of worker-backtest. *)

fetchReport(x, j) ==
    /\ takes(x, j, "report-parse")
    /\ begin(x, j, "commit", object[j.file])

(* handleReportParse stores the result; a parsed ledger of a run is an event. *)
handleReportParse(x) ==
    /\ at[x] = "commit" /\ x[2] = "report-parse"
    /\ LET f == job[x].file ok == made[x] \notin Malformed IN
       /\ parsed' = [parsed EXCEPT ![f] = IF ok THEN made[x] ELSE "FAILED"]
       /\ waiting' = IF ok /\ f \in Ledgers /\ job[x].run
                     THEN emitted(Job("trade-normalisation", f, TRUE)) ELSE waiting
    /\ settle(x)
    /\ UNCHANGED <<object, checksum, recorded, refused, runVars, tableVars, lost, faults>>

(* handleTradeNormalisation reads the stored parse result. *)
readUpload(x, j) ==
    /\ takes(x, j, "trade-normalisation")
    /\ IF parsed[j.file] \in Contents
       THEN begin(x, j, "delete", rows(x, <<j.file, parsed[j.file]>>))
       ELSE refuse(j)

handleTradeNormalisation(x) ==
    /\ committing(x, "trade-normalisation")
    /\ ledger' = replaced(x)
    /\ waiting' = emitted(Job("equity-reconstruction", Nothing, TRUE))
    /\ settle(x)
    /\ UNCHANGED <<runVars, equity, metrics, parity, lost>>

readRun(x, j) ==
    /\ takes(x, j, "local-runner-execution")
    /\ begin(x, j, "start", Nothing)

setRunning(x) ==
    /\ proceed(x, "start", "simulate")
    /\ status' = "RUNNING"
    /\ UNCHANGED <<fileVars, deployed, definition, announced, tableVars, queueVars, made, old>>

(* Definition, dataset, cost model, compilation and simulation. *)
simulate(x) ==
    /\ proceed(x, "simulate", IF definition = "sound" THEN "delete" ELSE "fail")
    /\ made' = [made EXCEPT ![x] = rows(x, <<Nothing, Nothing>>)]
    /\ UNCHANGED <<fileVars, runVars, tableVars, queueVars, old>>

markFailed(x) ==
    /\ at[x] = "fail"
    /\ status' = "FAILED_TERMINAL"
    /\ announced' = announced \cup {"FAILED_TERMINAL"}
    /\ settle(x)
    /\ UNCHANGED <<fileVars, deployed, definition, tableVars, queueVars, faults>>

handleLocalRunnerExecution(x) ==
    /\ committing(x, "local-runner-execution")
    /\ ledger' = replaced(x)
    /\ status' = "SUCCEEDED"
    /\ announced' = announced \cup {"SUCCEEDED"}
    /\ waiting' = emitted(Job("equity-reconstruction", Nothing, TRUE))
    /\ settle(x)
    /\ UNCHANGED <<deployed, definition, equity, metrics, parity, lost>>

-----------------------------------------------------------------------------
(* The handlers of worker-analytics. *)

(* Mutant: a metric-calculation job whose metrics are there is taken for one *)
(* that is done, and acknowledged.                                          *)
loadTrades_Once(x, j) ==
    IF j.queue = "metric-calculation" /\ metrics # {} /\ j.attempts > 0
    THEN /\ takes(x, j, "metric-calculation")
         /\ waiting' = waiting (-) SetToBag({j})
         /\ UNCHANGED <<fileVars, runVars, tableVars, lost, execVars, faults>>
    ELSE /\ takes(x, j, "equity-reconstruction") \/ takes(x, j, "metric-calculation")
         /\ begin(x, j, "delete", rows(x, ledger))

loadTrades(x, j) ==
    /\ takes(x, j, "equity-reconstruction") \/ takes(x, j, "metric-calculation")
    /\ begin(x, j, "delete", rows(x, ledger))

(* Equity and drawdown points, which are computed and replaced together. *)
(* Mutant: only the first curve of a run is followed by an event. *)
handleEquityReconstruction_EventOnce(x) ==
    /\ committing(x, "equity-reconstruction")
    /\ equity' = replaced(x)
    /\ waiting' = IF equity = {}
                  THEN emitted(Job("metric-calculation", Nothing, TRUE)) ELSE waiting
    /\ settle(x)
    /\ UNCHANGED <<runVars, ledger, metrics, parity, lost>>

handleEquityReconstruction(x) ==
    /\ committing(x, "equity-reconstruction")
    /\ equity' = replaced(x)
    /\ waiting' = emitted(Job("metric-calculation", Nothing, TRUE))
    /\ settle(x)
    /\ UNCHANGED <<runVars, ledger, metrics, parity, lost>>

(* Mutant: the event that leads to the comparison is missing. *)
handleMetricCalculation_NoEvent(x) ==
    /\ committing(x, "metric-calculation")
    /\ metrics' = replaced(x)
    /\ at' = [at EXCEPT ![x] = "mark"]
    /\ UNCHANGED <<runVars, ledger, equity, parity, queueVars, job, owned, made, old>>

handleMetricCalculation(x) ==
    /\ committing(x, "metric-calculation")
    /\ metrics' = replaced(x)
    /\ waiting' = IF Verified THEN emitted(Job("parity-calculation", Nothing, TRUE)) ELSE waiting
    /\ at' = [at EXCEPT ![x] = "mark"]
    /\ UNCHANGED <<runVars, ledger, equity, parity, lost, job, owned, made, old>>

markRunAnalysed(x) ==
    /\ at[x] = "mark"
    /\ status' = "SUCCEEDED"
    /\ settle(x)
    /\ UNCHANGED <<fileVars, deployed, definition, announced, tableVars, queueVars, faults>>

(* loadLocalParityMetrics is two queries; without snapshots it throws. *)
readSnapshots(x, j) ==
    /\ takes(x, j, "parity-calculation")
    /\ IF metrics # {}
       THEN begin(x, j, "curve",
                  rows(x, [metrics |-> metrics, curve |-> {}, reported |-> {}]))
       ELSE refuse(j)

readDrawdown(x) ==
    /\ proceed(x, "curve", "reported")
    /\ made' = [made EXCEPT ![x].of.curve = equity]
    /\ UNCHANGED <<fileVars, runVars, tableVars, queueVars, old>>

(* The parsed Performance Summary, if there is one. *)
reportedMetrics == {parsed[f] : f \in Summaries} \cap Contents

loadReportedParityMetrics(x) ==
    /\ proceed(x, "reported", "delete")
    /\ made' = [made EXCEPT ![x].of.reported = reportedMetrics]
    /\ UNCHANGED <<fileVars, runVars, tableVars, queueVars, old>>

handleParityCalculation(x) ==
    /\ committing(x, "parity-calculation")
    /\ parity' = replaced(x)
    /\ settle(x)
    /\ UNCHANGED <<runVars, ledger, equity, metrics, queueVars>>

-----------------------------------------------------------------------------
Begin(x, j) ==
    \/ fetchReport(x, j)
    \/ readUpload(x, j)
    \/ readRun(x, j)
    \/ loadTrades(x, j)
    \/ readSnapshots(x, j)

Step(x) ==
    \/ \E j \in BagToSet(waiting) : Begin(x, j)
    \/ deleteRows(x)
    \/ handleReportParse(x)
    \/ handleTradeNormalisation(x)
    \/ setRunning(x)
    \/ simulate(x)
    \/ markFailed(x)
    \/ handleLocalRunnerExecution(x)
    \/ handleEquityReconstruction(x)
    \/ handleMetricCalculation(x)
    \/ markRunAnalysed(x)
    \/ readDrawdown(x)
    \/ loadReportedParityMetrics(x)
    \/ handleParityCalculation(x)

Next ==
    \/ \E f \in Files :
          \/ \E c \in Contents : putReport(f, c)
          \/ fetchForChecksum(f)
          \/ \E run \in Attachments : completeReportUpload(f, run)
    \/ \E x \in Executors : Step(x) \/ Throw(x) \/ Die(x) \/ Stall(x)
    \/ \E j \in BagToSet(waiting) : Drop(j)

Spec == Init /\ [][Next]_vars

(* The workers keep working; nobody has to upload and nothing has to fail. *)
FairSpec == Spec /\ \A x \in Executors : WF_vars(Step(x))

-----------------------------------------------------------------------------
(* Properties. *)

(* A job of the queue is waiting or being executed. *)
Outstanding(queue) ==
    \/ \E j \in BagToSet(waiting) : j.queue = queue
    \/ \E x \in Executors : at[x] # "idle" /\ x[2] = queue

(***************************************************************************)
(* With one process, and no job given up, the evidence converges: whatever *)
(* was uploaded, retried or executed twice, and in whatever order, each    *)
(* table ends as the single result computed from the present table before  *)
(* it in the chain.                                                        *)
(***************************************************************************)
EvidenceConverges ==
    lost = {} /\ Cardinality(deployed) = 1 =>
      /\ ledger # {} /\ ~Outstanding("equity-reconstruction")
           => \E r \in equity : equity = {r} /\ r.of = ledger
      /\ equity # {} /\ ~Outstanding("equity-reconstruction")
                     /\ ~Outstanding("metric-calculation")
           => \E r \in metrics : metrics = {r} /\ r.of = ledger
      /\ Verified /\ metrics # {} /\ ~Outstanding("equity-reconstruction")
            /\ ~Outstanding("metric-calculation") /\ ~Outstanding("parity-calculation")
           => \E r \in parity :
                 parity = {r} /\ r.of.metrics = metrics /\ r.of.curve = equity

(* No result is computed from nothing and no TradingView run reads          *)
(* SUCCEEDED without a curve and metrics, at any moment, whatever executions *)
(* of any number of processes overlap: every event follows its rows.        *)
EvidenceHasSources ==
    /\ \A r \in equity \cup metrics : r.of # {}
    /\ \A r \in parity : r.of.metrics # {} /\ r.of.curve # {}
    /\ definition = "none" /\ status = "SUCCEEDED" => metrics # {} /\ equity # {}

(***************************************************************************)
(* The metrics of a TradingView run are committed before its status is     *)
(* written, in a query of its own.  A process that dies or a query that    *)
(* fails between the two leaves a job that will write it: as long as no    *)
(* job was given up, a run with metrics reads SUCCEEDED or its metrics are *)
(* being calculated once more, in any number of processes.                 *)
(***************************************************************************)
AnalysedRunSucceeds ==
    definition = "none" /\ metrics # {} /\ lost = {}
        => status = "SUCCEEDED" \/ Outstanding("metric-calculation")

(* A ledger leads to a verdict although executions are lost on the way. *)
LedgerIsCompared == ledger # {} ~> parity # {} \/ lost # {} \/ ~Verified

-----------------------------------------------------------------------------
(* What comments, documents and tests say, and the code does not do. *)

(* The parse is always against the bytes that were durably stored. *)
ParsedIsRecorded ==
    \A f \in Files : parsed[f] \in Contents => parsed[f] = recorded[f]

(* A researcher who re-uploads corrects the earlier attempt: a completion is *)
(* not refused when the file differs from the recorded one.                 *)
CorrectionIsRecorded == \A f \in refused : object[f] = recorded[f]

(* Replaying a job replaces the verdict instead of adding another. *)
VerdictIsNotDuplicated == Cardinality(parity) <= 1

(* A run is not left un-terminal for a viewer to see it hang forever. *)
RunEnds == status = "RUNNING" ~> status \in {"SUCCEEDED", "FAILED_TERMINAL"}
=============================================================================
