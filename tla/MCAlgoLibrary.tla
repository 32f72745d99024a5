--------------------------- MODULE MCAlgoLibrary ---------------------------
(* Two versions, a deployment of one and a backtest run of the other.        *)
EXTENDS AlgoLibrary, TLC
CONSTANTS v1, v2, d1, r2
MCVersionOf == (d1 :> v1) @@ (r2 :> v2)
=============================================================================
