------------------------------ MODULE Workflow ------------------------------
(***************************************************************************)
(* The lifecycle of one strategy version, driven by concurrent requests.   *)
(*                                                                         *)
(* A request is a call of the workflow service or a committee decision     *)
(* posted to the API, which wraps such a call.  PostgreSQL runs at READ    *)
(* COMMITTED, so every query sees what committed before it: each query is  *)
(* a step, and between two of them other requests may commit.              *)
(***************************************************************************)
EXTENDS WorkflowPolicy

CONSTANTS
    Calls,      \* requests in flight or finished, each handled once
    Keys,       \* Idempotency-Key values
    Decisions,  \* the requests of Calls that are committee decisions
    Inputs      \* bound: the members of Requests that callers ask for

ASSUME DecisionsAssumption == Decisions \subseteq Calls
ASSUME InputsAssumption == Inputs \subseteq Requests

(* The decisions route admits two roles, two targets, and wants evidence.  *)
DecisionInputs ==
    {q \in Requests : /\ q.role \in {"COMMITTEE_MEMBER", "ADMIN"}
                      /\ q.to \in TERMINAL_STATES
                      /\ q.evidence}

(* No record under the key.  A record keeps the fingerprint of the request *)
(* as its layer saw it: the workflow and the API hash different objects.   *)
NoRecord == [layer |-> "none"]
Records == {NoRecord} \cup [layer : {"workflow", "api"}, input : Requests]

VARIABLES
    workflowState,  \* strategy_versions.workflow_state
    passed,         \* a PASSED verification exists for the version
    failedParity,   \* a FAIL parity report exists for the version
    records,        \* idempotency_records, by key
    audits,         \* audit_events: [by, from, to] of each applied transition
    decided,        \* calls that inserted a committee_decisions row
    pc,             \* the query a call performs next
    key,            \* the call's Idempotency-Key
    input,          \* what the call asks for
    seen,           \* what the call's reads returned
    reply           \* what the call answered

dbVars == <<workflowState, passed, failedParity, records, audits, decided>>
callVars == <<pc, key, input, seen, reply>>
vars == <<dbVars, callVars>>

Steps == {"idle", "check", "lookup", "version", "verification", "parity",
          "recheck", "apply", "insertDecision", "record", "done"}

Replies == {"none", "lost", "ok", "replayed", "conflict", "error"} \cup Rejections

Audits == [by : Calls, from : States, to : States]

TypeOK ==
    /\ workflowState \in States
    /\ passed \in BOOLEAN
    /\ failedParity \in BOOLEAN
    /\ records \in [Keys -> Records]
    /\ audits \in SUBSET Audits
    /\ decided \in SUBSET Calls
    /\ pc \in [Calls -> Steps]
    /\ key \in [Calls -> Keys]
    /\ input \in [Calls -> Requests]
    /\ seen \in [Calls -> [state : States, passed : BOOLEAN, failed : BOOLEAN]]
    /\ reply \in [Calls -> Replies]

(* Where a version stands when the calls arrive, and with what evidence.   *)
Init ==
    /\ workflowState \in States
    /\ passed \in BOOLEAN
    /\ failedParity \in BOOLEAN
    /\ records = [k \in Keys |-> NoRecord]
    /\ audits = {}
    /\ decided = {}
    /\ pc = [c \in Calls |-> "idle"]
    /\ key \in [Calls -> Keys]
    /\ input \in {f \in [Calls -> Inputs] : \A c \in Decisions : f[c] \in DecisionInputs}
    /\ seen = [c \in Calls |->
                  [state |-> workflowState, passed |-> FALSE, failed |-> FALSE]]
    /\ reply = [c \in Calls |-> "none"]

-----------------------------------------------------------------------------
(* Evidence recorded by the rest of the system. *)

(* A verification passes; nothing takes it back. *)
VerificationPasses ==
    /\ ~passed
    /\ passed' = TRUE
    /\ UNCHANGED <<workflowState, failedParity, records, audits, decided, callVars>>

(* A parity report is computed, or replaced by a recomputation. *)
ParityComputed ==
    /\ failedParity' = ~failedParity
    /\ UNCHANGED <<workflowState, passed, records, audits, decided, callVars>>

-----------------------------------------------------------------------------
(* The queries of a call, in the order the code issues them. *)

Goto(c, step) == pc' = [pc EXCEPT ![c] = step]

Answer(c, r) ==
    /\ Goto(c, "done")
    /\ reply' = [reply EXCEPT ![c] = r]

wfFingerprint(c) == [layer |-> "workflow", input |-> input[c]]
apiFingerprint(c) == [layer |-> "api", input |-> input[c]]

Start(c) ==
    /\ pc[c] = "idle"
    /\ Goto(c, IF c \in Decisions THEN "check" ELSE "lookup")
    /\ UNCHANGED <<dbVars, key, input, seen, reply>>

(* The route: fresh, a replay of the stored response, or a conflict. *)
checkIdempotency(c) ==
    /\ pc[c] = "check"
    /\ IF records[key[c]] = NoRecord
       THEN Goto(c, "lookup") /\ UNCHANGED reply
       ELSE Answer(c, IF records[key[c]] = apiFingerprint(c) THEN "replayed" ELSE "conflict")
    /\ UNCHANGED <<dbVars, key, input, seen>>

(* The workflow service hands back an earlier result; a decision goes on   *)
(* to write its row, a plain transition is answered.                       *)
AlreadyApplied(c) ==
    IF c \in Decisions THEN Goto(c, "insertDecision") /\ UNCHANGED reply
                       ELSE Answer(c, "replayed")

findByIdempotencyKey(c) ==
    /\ pc[c] = "lookup"
    /\ \/ /\ records[key[c]] = NoRecord
          /\ Goto(c, "version")
          /\ UNCHANGED reply
       \/ /\ records[key[c]] = wfFingerprint(c)
          /\ AlreadyApplied(c)
       \/ /\ records[key[c]] \notin {NoRecord, wfFingerprint(c)}
          /\ Answer(c, "conflict")
    /\ UNCHANGED <<dbVars, key, input, seen>>

(* Mutant: the column read is not the state. *)
getStrategyVersion_WrongColumn(c) ==
    /\ pc[c] = "version"
    /\ seen' = [seen EXCEPT ![c].state = key[c]]
    /\ Goto(c, "verification")
    /\ UNCHANGED <<dbVars, key, input, reply>>

getStrategyVersion(c) ==
    /\ pc[c] = "version"
    /\ seen' = [seen EXCEPT ![c].state = workflowState]
    /\ Goto(c, "verification")
    /\ UNCHANGED <<dbVars, key, input, reply>>

(* getEvidenceStatus is two queries. *)
getPassedVerification(c) ==
    /\ pc[c] = "verification"
    /\ seen' = [seen EXCEPT ![c].passed = passed]
    /\ Goto(c, "parity")
    /\ UNCHANGED <<dbVars, key, input, reply>>

(* Mutant: recordCommitteeDecision goes on although the transition failed. *)
getFailedParityAndEvaluate_ResultIgnored(c) ==
    /\ pc[c] = "parity"
    /\ seen' = [seen EXCEPT ![c].failed = failedParity]
    /\ LET verdict == evaluateTransition(seen[c].state, input[c], seen[c].passed, failedParity)
       IN IF verdict = "OK" THEN Goto(c, "recheck") /\ UNCHANGED reply
          ELSE IF c \in Decisions THEN Goto(c, "insertDecision") /\ UNCHANGED reply
          ELSE Answer(c, verdict)
    /\ UNCHANGED <<dbVars, key, input>>

(* The second query, and the policy's verdict on what was read. *)
getFailedParityAndEvaluate(c) ==
    /\ pc[c] = "parity"
    /\ seen' = [seen EXCEPT ![c].failed = failedParity]
    /\ LET verdict == evaluateTransition(seen[c].state, input[c], seen[c].passed, failedParity)
       IN IF verdict = "OK" THEN Goto(c, "recheck") /\ UNCHANGED reply
                            ELSE Answer(c, verdict)
    /\ UNCHANGED <<dbVars, key, input>>

(* applyTransition looks for the key again and asks nothing of its hash.   *)
recheckIdempotencyKey(c) ==
    /\ pc[c] = "recheck"
    /\ IF records[key[c]] = NoRecord THEN Goto(c, "apply") /\ UNCHANGED reply
                                     ELSE AlreadyApplied(c)
    /\ UNCHANGED <<dbVars, key, input, seen>>

transitionAudit(c) == [by |-> c, from |-> seen[c].state, to |-> input[c].to]

(* Mutants: the update without its WHERE, the insert without the primary   *)
(* key, and the audit row written outside the transaction.                 *)
applyTransition_Unconditional(c) ==
    /\ pc[c] = "apply"
    /\ records[key[c]] = NoRecord
    /\ workflowState' = input[c].to
    /\ audits' = audits \cup {transitionAudit(c)}
    /\ records' = [records EXCEPT ![key[c]] = wfFingerprint(c)]
    /\ Answer(c, "ok")
    /\ UNCHANGED <<passed, failedParity, decided, key, input, seen>>

applyTransition_NoPrimaryKey(c) ==
    /\ pc[c] = "apply"
    /\ workflowState' = IF workflowState = seen[c].state THEN input[c].to
                                                         ELSE workflowState
    /\ audits' = audits \cup {transitionAudit(c)}
    /\ records' = [records EXCEPT ![key[c]] = wfFingerprint(c)]
    /\ Answer(c, "ok")
    /\ UNCHANGED <<passed, failedParity, decided, key, input, seen>>

applyTransition_AuditApart(c) ==
    /\ pc[c] = "apply"
    /\ audits' = audits \cup {transitionAudit(c)}
    /\ IF records[key[c]] # NoRecord
       THEN Answer(c, "error") /\ UNCHANGED <<workflowState, records, decided>>
       ELSE /\ workflowState' = IF workflowState = seen[c].state THEN input[c].to
                                                               ELSE workflowState
            /\ records' = [records EXCEPT ![key[c]] = wfFingerprint(c)]
            /\ IF c \in Decisions
               THEN decided' = decided \cup {c} /\ Goto(c, "record") /\ UNCHANGED reply
               ELSE Answer(c, "ok") /\ UNCHANGED decided
    /\ UNCHANGED <<passed, failedParity, key, input, seen>>

(***************************************************************************)
(* The writes of applyTransition, which commit together, and with them the *)
(* decision row of a committee decision.  The update is conditional on the *)
(* state that was read; whether it matched a row is not looked at.  A key  *)
(* recorded meanwhile violates the primary key and rolls everything back.  *)
(***************************************************************************)
applyTransition(c) ==
    /\ pc[c] = "apply"
    /\ \/ /\ records[key[c]] # NoRecord
          /\ Answer(c, "error")
          /\ UNCHANGED dbVars
       \/ /\ records[key[c]] = NoRecord
          /\ workflowState' = IF workflowState = seen[c].state THEN input[c].to
                                                               ELSE workflowState
          /\ audits' = audits \cup {transitionAudit(c)}
          /\ records' = [records EXCEPT ![key[c]] = wfFingerprint(c)]
          /\ IF c \in Decisions
             THEN decided' = decided \cup {c} /\ Goto(c, "record") /\ UNCHANGED reply
             ELSE Answer(c, "ok") /\ UNCHANGED decided
          /\ UNCHANGED <<passed, failedParity>>
    /\ UNCHANGED <<key, input, seen>>

(* A decision whose transition had already been applied still commits its row. *)
insertDecision(c) ==
    /\ pc[c] = "insertDecision"
    /\ decided' = decided \cup {c}
    /\ Goto(c, "record")
    /\ UNCHANGED <<workflowState, passed, failedParity, records, audits>>
    /\ UNCHANGED <<key, input, seen, reply>>

(* The route stores its response under the same key, and then answers. *)
recordIdempotency(c) ==
    /\ pc[c] = "record"
    /\ IF records[key[c]] = NoRecord
       THEN /\ records' = [records EXCEPT ![key[c]] = apiFingerprint(c)]
            /\ Answer(c, "ok")
       ELSE /\ Answer(c, "error")
            /\ UNCHANGED records
    /\ UNCHANGED <<workflowState, passed, failedParity, audits, decided, key, input, seen>>

(* The process handling the call dies; an open transaction rolls back. *)
Crash(c) ==
    /\ pc[c] \notin {"idle", "done"}
    /\ Answer(c, "lost")
    /\ UNCHANGED <<dbVars, key, input, seen>>

-----------------------------------------------------------------------------
CallStep(c) ==
    \/ Start(c)
    \/ checkIdempotency(c)
    \/ findByIdempotencyKey(c)
    \/ getStrategyVersion(c)
    \/ getPassedVerification(c)
    \/ getFailedParityAndEvaluate(c)
    \/ recheckIdempotencyKey(c)
    \/ applyTransition(c)
    \/ insertDecision(c)
    \/ recordIdempotency(c)

Next ==
    \/ VerificationPasses
    \/ ParityComputed
    \/ \E c \in Calls : CallStep(c) \/ Crash(c)

Spec == Init /\ [][Next]_vars

-----------------------------------------------------------------------------
(* Properties. *)

(***************************************************************************)
(* However requests interleave, the version only ever moves along a rule   *)
(* of the policy, and so never leaves PAPER_APPROVED or REJECTED: a call   *)
(* that evaluated an older state changes nothing.                          *)
(***************************************************************************)
MovesFollowPolicy ==
    [][workflowState' # workflowState => Allowed(workflowState, workflowState')]_vars

(* One Idempotency-Key applies at most one transition, even when several   *)
(* requests carrying it were all found fresh.                              *)
OneTransitionPerKey ==
    \A a, b \in audits : key[a.by] = key[b.by] => a = b

(* A version is approved by a request that saw a passed verification, and  *)
(* it still has one: nothing approves on the strength of a stale reading.  *)
ApprovalHasVerification ==
    \A a \in audits : a.to = "PAPER_APPROVED" => passed

(* A decision row is never committed without a transition under its key.   *)
DecisionHasTransition ==
    \A c \in decided : \E a \in audits : key[a.by] = key[c]

(***************************************************************************)
(* What a transition writes is in the database together or not at all:     *)
(* each audit row stands with its idempotency record, and a committee's    *)
(* with its decision.  A call that failed and left no decision row left no *)
(* audit row either, and was overtaken between its last look at the key    *)
(* and its commit: another call's transition is recorded under the key.    *)
(***************************************************************************)
MadeUnder(k) == {a.by : a \in {b \in audits : key[b.by] = k}}

CommitsAreWhole ==
    /\ \A a \in audits : /\ records[key[a.by]] = wfFingerprint(a.by)
                         /\ a.by \in Decisions => a.by \in decided
    /\ \A c \in Calls : reply[c] = "error" /\ c \notin decided
                        => c \notin MadeUnder(key[c]) /\ MadeUnder(key[c]) # {}

-----------------------------------------------------------------------------
(* What comments and documents of the code say, and the code does not do.  *)

(* Every audit row and decision records a transition the version made. *)
EveryAuditIsAMove ==
    [][\A a \in audits' \ audits : a.from = workflowState /\ a.to = workflowState']_vars

(* No version is approved while a parity report is FAIL. *)
NoApprovalOnFailedParity ==
    [][workflowState' = "PAPER_APPROVED" /\ workflowState # "PAPER_APPROVED"
          => ~failedParity]_vars

(* One Idempotency-Key writes at most one committee decision. *)
OneDecisionPerKey == \A c, d \in decided : key[c] = key[d] => c = d

(* A key reused with a different body is rejected. *)
ReusedKeyIsRejected ==
    \A a \in audits, c \in decided : key[a.by] = key[c] => input[a.by] = input[c]

(* Replaying a key with an identical body returns the original response. *)
RetryIsReplayed ==
    \A c \in Calls : reply[c] = "conflict" =>
        ~ \E d \in Decisions : key[d] = key[c] /\ input[d] = input[c] /\ d \in decided

(* A decision that was committed and whose process lived is answered so. *)
CommittedIsAnswered == \A c \in decided : reply[c] # "error"

(* ADMIN bypasses role checks. *)
AdminIsNotRefused ==
    \A c \in Calls : input[c].role = "ADMIN" => reply[c] # "ROLE_NOT_PERMITTED"
=============================================================================
