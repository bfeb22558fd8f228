---------------------------- MODULE MCMatchIndex ----------------------------
(* Small instances of MatchIndex. *)
EXTENDS MatchIndex, TLC

CONSTANTS g1, g2, g3, w1, w2, p1, p2

\* One process, two goroutines and a writer.
OneProcess == (g1 :> p1) @@ (g2 :> p1) @@ (w1 :> p1)

\* Two processes, each with a goroutine; the writer is in the first.
TwoProcesses == (g1 :> p1) @@ (g2 :> p2) @@ (w1 :> p1)

\* A process with two goroutines, and its successor after a crash, each
\* with a writer.
Restarted == (g1 :> p1) @@ (g2 :> p1) @@ (g3 :> p2) @@ (w1 :> p1) @@ (w2 :> p2)

=============================================================================
