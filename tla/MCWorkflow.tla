----------------------------- MODULE MCWorkflow -----------------------------
(* Instances of Workflow for TLC. *)
EXTENDS Workflow, TLC

Ask(to, role, creator, evidence) ==
    [to |-> to, role |-> role, creator |-> creator, evidence |-> evidence]

Approve == Ask("PAPER_APPROVED", "COMMITTEE_MEMBER", FALSE, TRUE)
Reject == Ask("REJECTED", "COMMITTEE_MEMBER", FALSE, TRUE)
AdminApprove == Ask("PAPER_APPROVED", "ADMIN", FALSE, TRUE)
Review == Ask("PAPER_APPROVAL_REVIEW", "OPERATOR", FALSE, FALSE)
Block == Ask("BLOCKED", "OPERATOR", FALSE, FALSE)

(* Two decisions, one of which may be by an administrator, racing the       *)
(* operator's moves around the review.                                      *)
RaceInputs == {Approve, Reject, AdminApprove, Review, Block}

ApproveOnly == {Approve}

Symmetry == Permutations(Keys) \cup Permutations(Decisions)
=============================================================================
