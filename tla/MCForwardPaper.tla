--------------------------- MODULE MCForwardPaper ---------------------------
(* Instances of ForwardPaper for TLC. *)
EXTENDS ForwardPaper, TLC

EntryExit == {"ENTRY_LONG", "EXIT_LONG"}
LongAndStop == {"ENTRY_LONG", "STOP_HIT"}
Mismatching == {"ENTRY_LONG", "EXIT_SHORT", "STOP_HIT"}

Symmetry == Permutations(Deliveries) \cup Permutations(Alerts) \cup Permutations(Workers)
=============================================================================
