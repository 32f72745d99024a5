--------------------------- MODULE MCOutboxRelay ---------------------------
(* Instances of OutboxRelay for TLC: every constant is a plain value of the  *)
(* .cfg, so nothing is defined here.                                         *)
EXTENDS OutboxRelay
=============================================================================
