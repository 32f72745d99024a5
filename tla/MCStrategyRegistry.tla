------------------------ MODULE MCStrategyRegistry ------------------------
(* A campaign, strategies, and a child of the second version, which need    *)
(* not exist; requests are interchangeable.                                 *)
(*                                                                          *)
(* Lists are read from strategies and versions, refreshes write neither and *)
(* read no document, so a behaviour has either documents and a client that  *)
(* lists, or workers that refresh.                                          *)
EXTENDS StrategyRegistry, TLC

VARIABLE side

Body(op, s, p) == [op |-> op, strategy |-> s, parent |-> p]
MCBodies == {Body("campaign", 0, 0), Body("strategy", 0, 0), Body("version", 1, 2)}

SideInit == Init /\ side \in {"lists", "refreshes"}

SideNext ==
    /\ Next
    /\ \/ side = "lists" /\ UNCHANGED <<readModel, worker, abandoned>>
       \/ /\ side = "refreshes" /\ UNCHANGED list
          /\ \A v \in DOMAIN versions' : versions'[v].saved = {}
    /\ UNCHANGED side

SideSpec == SideInit /\ [][SideNext]_<<vars, side>>

Symmetry == Permutations(Requests)
=============================================================================
