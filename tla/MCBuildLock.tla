---------------------------- MODULE MCBuildLock ----------------------------
(* BuildLock with two goroutines in one process and others in theirs. *)
EXTENDS BuildLock, TLC

CONSTANTS g1, g2, g3, g4, p, q, r

Shared == g1 :> p @@ g2 :> p @@ g3 :> q

ThreeProcs == Shared @@ g4 :> r
=============================================================================
