--------------------------- MODULE ReindexPromise ---------------------------
(***************************************************************************)
(* What whoever reindexes a dataset through vec_admin may rely on, with no *)
(* statements, connections or transactions in sight.                       *)
(*                                                                         *)
(* A change of the rows deletes the stored index in the same step, and is  *)
(* there for good.  A reindex either stores an index of all the rows, at   *)
(* once, and says so, or it says that it failed and has changed nothing.   *)
(***************************************************************************)
EXTENDS Integers

CONSTANT Admins

VARIABLES
  rows,   \* the changes that led to the rows there are
  index,  \* the rows the stored index was built from, -1 without one
  busy,   \* busy[a]: a reindex of a runs
  told    \* told[a]: what it has come to

vars == <<rows, index, busy, told>>

Init ==
  /\ rows = 0
  /\ index = -1
  /\ busy = [a \in Admins |-> FALSE]
  /\ told = [a \in Admins |-> "nothing"]

Change ==
  /\ rows' = rows + 1
  /\ index' = -1
  /\ UNCHANGED <<busy, told>>

Call(a) ==
  /\ ~busy[a]
  /\ busy' = [busy EXCEPT ![a] = TRUE]
  /\ told' = [told EXCEPT ![a] = "nothing"]
  /\ UNCHANGED <<rows, index>>

Reindex(a) ==
  /\ busy[a] /\ told[a] = "nothing"
  /\ index' = rows
  /\ told' = [told EXCEPT ![a] = "reindexed"]
  /\ UNCHANGED <<rows, busy>>

Fail(a) ==
  /\ busy[a] /\ told[a] = "nothing"
  /\ told' = [told EXCEPT ![a] = "error"]
  /\ UNCHANGED <<rows, index, busy>>

Return(a) ==
  /\ busy[a] /\ told[a] # "nothing"
  /\ busy' = [busy EXCEPT ![a] = FALSE]
  /\ UNCHANGED <<rows, index, told>>

Next == Change \/ \E a \in Admins : Call(a) \/ Reindex(a) \/ Fail(a) \/ Return(a)

Spec == Init /\ [][Next]_vars

=============================================================================
