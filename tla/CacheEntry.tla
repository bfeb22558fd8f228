----------------------------- MODULE CacheEntry -----------------------------
(***************************************************************************)
(* The cacheEntry of vec/api.go: one slot of the process-wide index cache, *)
(* as a record, and its critical sections as operators on that record.     *)
(* Every operator below is one section run under cacheEntry.mu, so a state *)
(* machine that uses them applies each in a single step.                   *)
(*                                                                         *)
(* An index is represented by the version of the shadow rows it was built  *)
(* from; NoIndex is the nil idxapi.Index.  The done channel of the current *)
(* build is represented by the set of goroutines that hold a reference to  *)
(* it while it is open: closing the channel empties the set.               *)
(***************************************************************************)
EXTENDS Naturals

CONSTANTS
  NoIndex,    \* the nil index
  Goroutines  \* who may wait on a done channel

ASSUME NoIndexAssumption == NoIndex \notin Nat

Index == Nat \cup {NoIndex}

EntryState ==
  [idx: Index, building: BOOLEAN, done: SUBSET Goroutines, generation: Nat]

NewCacheEntry ==
  [idx |-> NoIndex, building |-> FALSE, done |-> {}, generation |-> 0]

-----------------------------------------------------------------------------
(* Mutated forms: plausible slips in the code above, used to show that the *)
(* properties of the modules that use this one notice them.                *)

SetForgetsGeneration(e, idx) == [e EXCEPT !.idx = idx]

SetUnderflows(e, idx) ==
  [e EXCEPT !.idx = idx,
            !.generation = IF idx = NoIndex THEN @ - 1 ELSE @]

StartBuildIgnoresBuilder(e) == e.idx = NoIndex

FinishBuildForgetsClose(e) == [e EXCEPT !.building = FALSE]

PublishUnchecked(e, built, generation) == [e EXCEPT !.idx = built]

-----------------------------------------------------------------------------
\* set: storing nil also advances the generation.
SetIndex(e, idx) ==
  [e EXCEPT !.idx = idx,
            !.generation = IF idx = NoIndex THEN @ + 1 ELSE @]

\* startBuild succeeds only on an empty entry nobody is building.
CanStartBuild(e) == e.idx = NoIndex /\ ~e.building

\* The rest of startBuild: a new done channel, which nobody holds yet.
StartBuild(e) == [e EXCEPT !.building = TRUE, !.done = {}]

\* waitForBuild picks up the done channel of the running build.
HoldDone(e, g) == [e EXCEPT !.done = @ \cup {g}]

\* A goroutine that gives up waiting drops its reference.
DropDone(e, g) == [e EXCEPT !.done = @ \ {g}]

\* finishBuild: clear the flag and close the done channel.
FinishBuild(e) == [e EXCEPT !.building = FALSE, !.done = {}]

\* The end of ensureIndex: the built index is stored only when no
\* invalidation ran since the generation was read.
Publish(e, built, generation) ==
  IF e.generation = generation THEN [e EXCEPT !.idx = built] ELSE e

=============================================================================
