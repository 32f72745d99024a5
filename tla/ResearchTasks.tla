--------------------------- MODULE ResearchTasks ---------------------------
(***************************************************************************)
(* Research tasks and practice runs: an API call stores the row and the    *)
(* event that becomes its job, worker-research executes the job with at    *)
(* most two answers of the model provider, and reviewers score the         *)
(* practice runs that succeeded.                                           *)
(*                                                                         *)
(* A job whose lock is lost starts again while its first execution goes    *)
(* on.  The queue gives up after MaxAttempts failed executions.            *)
(***************************************************************************)
EXTENDS Naturals

CONSTANTS
    Tasks,        \* research tasks
    Practice,     \* practice runs
    Prompted,     \* items whose prompt exists (and is APPROVED for a task)
    Workers,      \* processes of worker-research
    Reviewers,    \* reviews in progress at once
    Scores,       \* review scores
    MaxAttempts,  \* attempts of a job
    MaxStalls,    \* bound: lost locks and crashes of one item
    NoScore, NoItem

Items == Tasks \cup Practice

VARIABLES
    status,       \* status of the row, "NONE" before its creation
    output,       \* "none", "result" or "issues"
    diagnostics,  \* tasks with a row in agent_run_diagnostics
    score,        \* practice_runs.human_review_score
    audit,        \* audit events of a practice run: (prior, new) score
    job,          \* "none", "waiting", "active", "done", "failed", with counts
    exec,         \* execution of a worker process
    review        \* progress of a review

rowVars == <<status, output, diagnostics, score, audit>>
researchVars == <<rowVars, job, exec, review>>

NoExec == [at |-> "idle", item |-> NoItem, retried |-> FALSE, answer |-> "none", owns |-> FALSE]
NoReview == [at |-> "idle", item |-> NoItem, prior |-> NoScore]

ResearchInit ==
    /\ status = [i \in Items |-> "NONE"]
    /\ output = [i \in Items |-> "none"]
    /\ diagnostics = {}
    /\ score = [i \in Practice |-> NoScore]
    /\ audit = [i \in Practice |-> {}]
    /\ job = [i \in Items |-> [state |-> "none", failures |-> 0, stalls |-> 0]]
    /\ exec = [w \in Workers |-> NoExec]
    /\ review = [r \in Reviewers |-> NoReview]

Terminal(i) == status[i] \in {"SUCCEEDED", "FAILED_TERMINAL"}
MoveTo(w, at) == exec' = [exec EXCEPT ![w].at = at]

(* The row and the event that leads to its job are one transaction.         *)
storeItem(i) ==
    /\ status[i] = "NONE"
    /\ status' = [status EXCEPT ![i] = "QUEUED"]
    /\ job' = [job EXCEPT ![i].state = "waiting"]
    /\ UNCHANGED <<output, diagnostics, score, audit, exec, review>>

(* Of a role that is registered, in a campaign of the caller's.             *)
submitResearchTask(i) == i \in Tasks /\ storeItem(i)

(* Of a benchmark task of the caller's, and a prompt of its role that       *)
(* exists; that of a research task is looked for when the task is executed. *)
createPracticeRun(i) == i \in Practice \cap Prompted /\ storeItem(i)

takeJob(w, i) ==
    /\ exec[w].at = "idle"
    /\ job[i].state = "waiting"
    /\ job' = [job EXCEPT ![i].state = "active"]
    /\ exec' = [exec EXCEPT ![w] = [NoExec EXCEPT !.at = "read", !.item = i, !.owns = TRUE]]
    /\ UNCHANGED <<rowVars, review>>

(* Mutant: a row that is RUNNING counts as taken care of. *)
readRow_SkipsRunning(w) ==
    /\ exec[w].at = "read"
    /\ MoveTo(w, IF status[exec[w].item] # "QUEUED" THEN "acknowledge" ELSE "mark")
    /\ UNCHANGED <<rowVars, job, review>>

(* A terminal row is not executed again. *)
readRow(w) ==
    /\ exec[w].at = "read"
    /\ MoveTo(w, IF Terminal(exec[w].item) THEN "acknowledge" ELSE "mark")
    /\ UNCHANGED <<rowVars, job, review>>

(* The update does not repeat the guard. *)
markRunning(w) ==
    /\ exec[w].at = "mark"
    /\ status' = [status EXCEPT ![exec[w].item] = "RUNNING"]
    /\ MoveTo(w, IF exec[w].item \in Prompted THEN "generate" ELSE "throw")
    /\ UNCHANGED <<output, diagnostics, score, audit, job, review>>

(* runStructuredAgent: an answer that breaks the schema is asked for once   *)
(* more; the provider may also throw.                                       *)
runStructuredAgent(w) ==
    /\ exec[w].at = "generate"
    /\ \/ exec' = [exec EXCEPT ![w].at = "store", ![w].answer = "result"]
       \/ ~exec[w].retried /\ exec' = [exec EXCEPT ![w].retried = TRUE]
       \/ exec[w].retried /\ exec' = [exec EXCEPT ![w].at = "store", ![w].answer = "issues"]
       \/ MoveTo(w, "throw")
    /\ UNCHANGED <<rowVars, job, review>>

(* Status, output and the diagnostics of a research task in a transaction.  *)
storeOutcome(w) ==
    LET i == exec[w].item IN
    /\ exec[w].at = "store"
    /\ status' = [status EXCEPT ![i] =
          IF exec[w].answer = "result" THEN "SUCCEEDED" ELSE "FAILED_TERMINAL"]
    /\ output' = [output EXCEPT ![i] = exec[w].answer]
    /\ diagnostics' = diagnostics \cup ({i} \cap Tasks)
    /\ MoveTo(w, "acknowledge")
    /\ UNCHANGED <<score, audit, job, review>>

(* Without its lock a worker can no longer finish the job. *)
acknowledge(w) ==
    /\ exec[w].at = "acknowledge"
    /\ job' = IF exec[w].owns THEN [job EXCEPT ![exec[w].item].state = "done"] ELSE job
    /\ exec' = [exec EXCEPT ![w] = NoExec]
    /\ UNCHANGED <<rowVars, review>>

throw(w) ==
    LET i == exec[w].item IN
    /\ exec[w].at = "throw"
    /\ job' = IF ~exec[w].owns THEN job
              ELSE [job EXCEPT ![i].failures = @ + 1,
                               ![i].state = IF job[i].failures + 1 < MaxAttempts
                                            THEN "waiting" ELSE "failed"]
    /\ exec' = [exec EXCEPT ![w] = NoExec]
    /\ UNCHANGED <<rowVars, review>>

Stalled(i) == [job EXCEPT ![i].state = "waiting", ![i].stalls = @ + 1]
MayStall(w) == exec[w].owns /\ job[exec[w].item].stalls < MaxStalls

loseLock(w) ==
    /\ MayStall(w)
    /\ job' = Stalled(exec[w].item)
    /\ exec' = [exec EXCEPT ![w].owns = FALSE]
    /\ UNCHANGED <<rowVars, review>>

crash(w) ==
    /\ MayStall(w)
    /\ job' = Stalled(exec[w].item)
    /\ exec' = [exec EXCEPT ![w] = NoExec]
    /\ UNCHANGED <<rowVars, review>>

(* reviewPracticeRun: the status and the prior score are read outside the   *)
(* transaction that writes the new score and its audit event.               *)
readForReview(r, i) ==
    /\ review[r].at = "idle"
    /\ status[i] = "SUCCEEDED"
    /\ review' = [review EXCEPT ![r] = [at |-> "write", item |-> i, prior |-> score[i]]]
    /\ UNCHANGED <<rowVars, job, exec>>

reviewPracticeRun(r, new) ==
    LET i == review[r].item IN
    /\ review[r].at = "write"
    /\ score' = [score EXCEPT ![i] = new]
    /\ audit' = [audit EXCEPT ![i] = @ \cup {<<review[r].prior, new>>}]
    /\ review' = [review EXCEPT ![r] = NoReview]
    /\ UNCHANGED <<status, output, diagnostics, job, exec>>

Execute(w) ==
    \/ \E i \in Items : takeJob(w, i)
    \/ readRow(w) \/ markRunning(w) \/ runStructuredAgent(w) \/ storeOutcome(w)
    \/ acknowledge(w) \/ throw(w)

ResearchNext ==
    \/ \E i \in Tasks : submitResearchTask(i)
    \/ \E i \in Practice : createPracticeRun(i)
    \/ \E w \in Workers : Execute(w) \/ loseLock(w) \/ crash(w)
    \/ \E r \in Reviewers, i \in Practice : readForReview(r, i)
    \/ \E r \in Reviewers, new \in Scores : reviewPracticeRun(r, new)

ResearchFairness == \A w \in Workers : WF_researchVars(Execute(w))

-----------------------------------------------------------------------------
(* Properties. *)

(* Whatever answers the provider gives and wherever a process ends, a       *)
(* submitted item reaches a terminal status or its job is given up.         *)
ItemSettles ==
    \A i \in Items : status[i] = "QUEUED" ~> (Terminal(i) \/ job[i].state = "failed")

(* A job is acknowledged only when its item has an outcome, the row and the *)
(* outcome agree whichever execution stored last, and so do a research      *)
(* task's outcome and its diagnostics.                                      *)
OutcomesAreStored ==
    \A i \in Items :
        /\ job[i].state = "done" => output[i] # "none"
        /\ status[i] = "SUCCEEDED" => output[i] = "result"
        /\ status[i] = "FAILED_TERMINAL" => output[i] = "issues"
        /\ output[i] # "none" => (i \in Tasks => i \in diagnostics)

(* A terminal row stays as it is.  The code does not keep this: a second    *)
(* execution may have read it before, and marks and stores once more.       *)
TerminalStays ==
    [][\A i \in Items : Terminal(i) => status'[i] = status[i]]_researchVars

(* Each score's audit event tells the score it replaced.  The code does not *)
(* keep this when two reviews overlap.                                      *)
AuditTellsPrior ==
    [][\A i \in Practice : score'[i] # score[i] => <<score[i], score'[i]>> \in audit'[i]]_researchVars
=============================================================================
