--------------------------- MODULE WorkflowPolicy ---------------------------
(***************************************************************************)
(* The lifecycle policy of a strategy version: the table of allowed        *)
(* transitions and the pure evaluation of one request against it.          *)
(***************************************************************************)
States ==
    {"CAMPAIGN_BACKLOG", "IDEA_RESEARCH", "HYPOTHESIS_DRAFT", "PINE_DEVELOPMENT",
     "TRADINGVIEW_VERIFICATION", "PAPER_APPROVAL_REVIEW", "PAPER_APPROVED",
     "REJECTED", "BLOCKED"}

Roles ==
    {"VIEWER", "RESEARCHER", "DEVELOPER", "VALIDATOR", "OPERATOR", "COMMITTEE_MEMBER",
     "ADMIN", "SERVICE_ACCOUNT"}

TERMINAL_STATES == {"PAPER_APPROVED", "REJECTED"}

(* from, to and required role of a rule; the other fields have operators.  *)
TRANSITION_RULES ==
    {<<"CAMPAIGN_BACKLOG", "IDEA_RESEARCH", "RESEARCHER">>,
     <<"IDEA_RESEARCH", "HYPOTHESIS_DRAFT", "RESEARCHER">>,
     <<"IDEA_RESEARCH", "BLOCKED", "RESEARCHER">>,
     <<"HYPOTHESIS_DRAFT", "PINE_DEVELOPMENT", "DEVELOPER">>,
     <<"HYPOTHESIS_DRAFT", "BLOCKED", "RESEARCHER">>,
     <<"PINE_DEVELOPMENT", "TRADINGVIEW_VERIFICATION", "DEVELOPER">>,
     <<"PINE_DEVELOPMENT", "REJECTED", "VALIDATOR">>,
     <<"PINE_DEVELOPMENT", "BLOCKED", "DEVELOPER">>,
     <<"TRADINGVIEW_VERIFICATION", "PAPER_APPROVAL_REVIEW", "OPERATOR">>,
     <<"TRADINGVIEW_VERIFICATION", "REJECTED", "VALIDATOR">>,
     <<"TRADINGVIEW_VERIFICATION", "BLOCKED", "OPERATOR">>,
     <<"PAPER_APPROVAL_REVIEW", "PAPER_APPROVED", "COMMITTEE_MEMBER">>,
     <<"PAPER_APPROVAL_REVIEW", "REJECTED", "COMMITTEE_MEMBER">>,
     <<"BLOCKED", "IDEA_RESEARCH", "RESEARCHER">>,
     <<"BLOCKED", "HYPOTHESIS_DRAFT", "RESEARCHER">>,
     <<"BLOCKED", "PINE_DEVELOPMENT", "DEVELOPER">>,
     <<"BLOCKED", "TRADINGVIEW_VERIFICATION", "OPERATOR">>,
     <<"BLOCKED", "PAPER_APPROVAL_REVIEW", "OPERATOR">>}

forbidCreatorAsActor(from) == from = "PAPER_APPROVAL_REVIEW"
requiresEvidence(from, to) == from \notin {"CAMPAIGN_BACKLOG", "BLOCKED"} /\ to # "BLOCKED"

(* Mutant: the flag sits on the rule into the review. *)
requiresPassedVerification_OnReview(to) == to = "PAPER_APPROVAL_REVIEW"

requiresPassedVerification(to) == to = "PAPER_APPROVED"

Allowed(from, to) == \E rule \in TRANSITION_RULES : rule[1] = from /\ rule[2] = to

(***************************************************************************)
(* What a caller asks for: the target state, the role it acts in, whether  *)
(* it is the version's recorded creator and whether it cites evidence.     *)
(***************************************************************************)
Requests == [to : States, role : Roles, creator : BOOLEAN, evidence : BOOLEAN]

Rejections ==
    {"UNKNOWN_TRANSITION", "ROLE_NOT_PERMITTED", "CREATOR_CANNOT_APPROVE_OWN_VERSION",
     "EVIDENCE_REQUIRED", "VERIFICATION_REQUIRED", "PARITY_FAILED"}

(* The first check that fails names the rejection. *)
evaluateTransition(from, q, hasPassedVerification, hasFailedParity) ==
    IF ~Allowed(from, q.to) THEN "UNKNOWN_TRANSITION"
    ELSE IF <<from, q.to, q.role>> \notin TRANSITION_RULES THEN "ROLE_NOT_PERMITTED"
    ELSE IF forbidCreatorAsActor(from) /\ q.creator
         THEN "CREATOR_CANNOT_APPROVE_OWN_VERSION"
    ELSE IF requiresEvidence(from, q.to) /\ ~q.evidence THEN "EVIDENCE_REQUIRED"
    ELSE IF requiresPassedVerification(q.to) /\ ~hasPassedVerification
         THEN "VERIFICATION_REQUIRED"
    ELSE IF requiresPassedVerification(q.to) /\ hasFailedParity THEN "PARITY_FAILED"
    ELSE "OK"
=============================================================================
