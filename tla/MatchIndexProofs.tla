-------------------------- MODULE MatchIndexProofs --------------------------
(***************************************************************************)
(* Proofs about MatchIndex, for any goroutines and writers spread over any *)
(* processes, any lease and any bounds.  What BuildLockProofs shows of the *)
(* lock row is taken from there: a step of MatchIndex is a step of         *)
(* BuildLock, or leaves the row alone.                                     *)
(***************************************************************************)
EXTENDS MatchIndex, FiniteSetTheorems, TLAPS

Row == INSTANCE BuildLockProofs WITH pc <- lpc, ProcOf <- [g \in Goroutines |-> ProcOf[g]]

\* The steps of a MATCH that leave the lock row alone.
Aside(g) ==
  \/ Peek(g) \/ Load(g) \/ Loop(g) \/ TryBuild(g) \/ WaitForBuild(g)
  \/ Woken(g) \/ WaitGet(g) \/ LoadAgain(g) \/ Recheck(g) \/ LoadLocked(g)
  \/ ReadGeneration(g) \/ QueryRows(g) \/ QueryFails(g) \/ Persist(g)
  \/ PublishIndex(g) \/ Finish(g) \/ Return(g)

\* The lock row knows the process of every goroutine.
LEMMA LockMap == [g \in Goroutines |-> ProcOf[g]] \in [Goroutines -> Procs]
BY ProcOfAssumption

\* Every step of MatchIndex is a step of BuildLock, or leaves the row alone.
LEMMA LockSteps ==
  ASSUME [Next]_vars
  PROVE  [Lock!Next]_lockVars
<1>1. ASSUME NEW g \in Goroutines, Begin(g) \/ Aside(g) PROVE UNCHANGED lockVars
  BY <1>1 DEF Begin, Aside, Peek, Load, Loop, TryBuild, WaitForBuild, Woken, WaitGet,
       LoadAgain, Recheck, LoadLocked, ReadGeneration, QueryRows, QueryFails, Persist,
       PublishIndex, Finish, Return, Get, LoadPersisted, LoadFails, StoreLoaded
<1>2. ASSUME NEW g \in Goroutines, LockStep(g) \/ LockFails(g) \/ Unlock(g) PROVE Lock!Next
  <2>1. \/ Lock!Acquire(g) \/ Lock!ReadClock(g) \/ Lock!Try(g) \/ Lock!Retry(g)
        \/ Lock!Fail(g) \/ Lock!Release(g) \/ Lock!ReleaseFails(g)
    BY <1>2 DEF LockStep, LockFails, Unlock
  <2>2. QED
    BY <2>1 DEF Lock!Next
<1>3. ASSUME NEW w \in Writers, Write(w) \/ Commit(w) \/ Rollback(w) PROVE UNCHANGED lockVars
  BY <1>3 DEF Write, Commit, Rollback
<1>4. ASSUME NEW p \in Procs, Start(p) PROVE UNCHANGED lockVars
  BY <1>4 DEF Start
<1>5. ASSUME NEW p \in Procs, Crash(p) PROVE Lock!Next
  BY <1>5 DEF Crash, Lock!Next
<1>6. CASE Tick
  BY <1>6 DEF Tick, Lock!Next
<1>7. CASE UNCHANGED vars
  BY <1>7 DEF vars, lockVars
<1>8. ASSUME NEW g \in Goroutines, Step(g) PROVE [Lock!Next]_lockVars
  <2>1. Aside(g) \/ LockStep(g) \/ LockFails(g) \/ Unlock(g)
    BY <1>8 DEF Step, Aside
  <2>2. QED
    BY <1>1, <1>2, <2>1
<1>9. QED
  BY <1>1, <1>3, <1>4, <1>5, <1>6, <1>7, <1>8 DEF Next

\* What BuildLockProofs shows of the row.
LEMMA LockKept ==
  ASSUME Lock!TypeOK, Lock!RowBacksProtected, [Lock!Next]_lockVars
  PROVE  Lock!TypeOK' /\ Lock!RowBacksProtected'
<1>1. Row!TypeOK /\ Row!RowBacksProtected
  BY DEF Lock!TypeOK, Row!TypeOK, Lock!RowBacksProtected, Row!RowBacksProtected,
         Lock!Protected, Row!Protected, Lock!Ages, Row!Ages
<1>2. Lock!Next => Row!Next
  BY DEF Lock!Next, Row!Next, Lock!Acquire, Row!Acquire, Lock!ReadClock, Row!ReadClock, Lock!Try, Row!Try, Lock!Insert, Row!Insert, Lock!Reenter, Row!Reenter, Lock!TakeOver, Row!TakeOver, Lock!Wait, Row!Wait, Lock!IsStale, Row!IsStale, Lock!Enter, Row!Enter, Lock!Retry, Row!Retry, Lock!Fail, Row!Fail, Lock!Release, Row!Release, Lock!ReleaseFails, Row!ReleaseFails, Lock!Crash, Row!Crash, Lock!Tick, Row!Tick, Lock!Older, Row!Older, Lock!Goto, Row!Goto
<1>3. [Row!Next]_(Row!vars)
  BY <1>2 DEF lockVars, Row!vars
<1>4. Row!TypeOK'
  BY <1>1, <1>3, Row!StepTypeOK, LockMap, NobodyAssumption, StaleAfterAssumption
<1>5. Row!RowBacksProtected'
  BY <1>1, <1>3, <1>4, Row!StepRowBacksProtected, LockMap, NobodyAssumption, StaleAfterAssumption
<1>6. QED
  BY <1>4, <1>5 
     DEF Lock!TypeOK, Row!TypeOK, Lock!RowBacksProtected, Row!RowBacksProtected,
         Lock!Protected, Row!Protected, Lock!Ages, Row!Ages

-----------------------------------------------------------------------------
(* Types.                                                                  *)

\* The critical sections of an entry keep its fields in their ranges.
LEMMA EntryOps ==
  ASSUME NEW e \in EntryState, NEW i \in Index, NEW n \in Nat
  PROVE  /\ SetIndex(e, i) \in EntryState
         /\ StartBuild(e) \in EntryState
         /\ FinishBuild(e) \in EntryState
         /\ Publish(e, i, n) \in EntryState
         /\ e.idx \in Index /\ e.generation \in Nat
<1>1. e.idx \in Index /\ e.generation \in Nat
  BY DEF EntryState
<1>2. SetIndex(e, i) \in EntryState
  <2>1. SetIndex(e, i) =
          [[e EXCEPT !.idx = i] EXCEPT !.generation = IF i = NoIndex THEN e.generation + 1
                                                      ELSE e.generation]
    BY DEF SetIndex, EntryState
  <2>2. [e EXCEPT !.idx = i] \in EntryState
    BY DEF EntryState
  <2>3. (IF i = NoIndex THEN e.generation + 1 ELSE e.generation) \in Nat
    BY <1>1
  <2>4. QED
    BY <2>1, <2>2, <2>3 DEF EntryState
<1>3. StartBuild(e) \in EntryState /\ FinishBuild(e) \in EntryState
  BY DEF EntryState, StartBuild, FinishBuild
<1>4. Publish(e, i, n) \in EntryState
  BY DEF EntryState, Publish
<1>5. QED
  BY <1>1, <1>2, <1>3, <1>4

\* Holding the done channel keeps the fields of an entry in their ranges.
LEMMA HeldDone ==
  ASSUME NEW e \in EntryState, NEW g \in Goroutines
  PROVE  HoldDone(e, g) \in EntryState
BY DEF EntryState, HoldDone

\* A new entry has its fields in their ranges.
LEMMA NewEntry == NewCacheEntry \in EntryState /\ NoIndex \in Index
BY DEF NewCacheEntry, EntryState, Index

\* The part of TypeOK that MatchIndex keeps itself.
Types ==
  /\ rows \in Nat /\ blob \in Index /\ tx \in Writers \cup {Nobody}
  /\ status \in [Procs -> {"new", "up", "down"}]
  /\ entry \in [Procs -> EntryState]
  /\ pc \in [Goroutines -> Labels]
  /\ gen \in [Goroutines -> Nat]
  /\ hold \in [Goroutines -> Index]
  /\ floor \in [Goroutines -> Nat]
  /\ raced \in {"no", "yes", "healing"}
  /\ faults \in Nat

\* Every step of a MATCH beside the lock keeps the types.
LEMMA AsideTypes ==
  ASSUME Types, NEW g \in Goroutines, Aside(g)
  PROVE  Types'
<1> USE DEF Types, Goto, Mine, Labels, Building, Locked, Index
<1>0. /\ ProcOf[g] \in Procs /\ Mine(g) \in EntryState
      /\ Mine(g).idx \in Index /\ Mine(g).generation \in Nat
  BY ProcOfAssumption, EntryOps
<1>1. CASE Peek(g) \/ Loop(g) \/ WaitGet(g) \/ Recheck(g)
  BY <1>0, <1>1 DEF Peek, Loop, WaitGet, Recheck, Get, database, world, lockVars
<1>2. ASSUME NEW at, NEW l \in Labels, NEW k \in Labels,
             LoadPersisted(g, at, l, k) \/ LoadFails(g, at, l)
      PROVE  Types'
  BY <1>2 DEF LoadPersisted, LoadFails, Fault, database, world, lockVars
<1>3. ASSUME NEW at, NEW l \in Labels, StoreLoaded(g, at, l) PROVE Types'
  <2>1. SetIndex(entry[ProcOf[g]], hold[g]) \in EntryState
    BY <1>0, EntryOps
  <2>2. QED
    BY <1>0, <1>3, <2>1 DEF StoreLoaded, database, world, lockVars
<1>4. CASE Load(g) \/ LoadAgain(g) \/ LoadLocked(g) \/ QueryFails(g)
  BY <1>2, <1>3, <1>4 DEF Load, LoadAgain, LoadLocked, QueryFails
<1>5. CASE TryBuild(g)
  <2>1. StartBuild(entry[ProcOf[g]]) \in EntryState
    BY <1>0, EntryOps, NewEntry
  <2>2. QED
    BY <1>0, <1>5, <2>1 DEF TryBuild, database, world, lockVars
<1>6. CASE WaitForBuild(g) \/ Woken(g)
  <2>1. HoldDone(entry[ProcOf[g]], g) \in EntryState
    BY <1>0, HeldDone
  <2>2. QED
    BY <1>0, <1>6, <2>1 DEF WaitForBuild, Woken, database, world, lockVars
<1>7. CASE ReadGeneration(g) \/ QueryRows(g) \/ Persist(g) \/ Return(g)
  BY <1>0, <1>7 DEF ReadGeneration, QueryRows, Persist, Return, database, world, lockVars
<1>8. CASE PublishIndex(g)
  <2>1. Publish(entry[ProcOf[g]], hold[g], gen[g]) \in EntryState
    BY <1>0, EntryOps
  <2>2. QED
    BY <1>0, <1>8, <2>1 DEF PublishIndex, database, world, lockVars
<1>9. CASE Finish(g)
  <2>1. FinishBuild(entry[ProcOf[g]]) \in EntryState
    BY <1>0, EntryOps, NewEntry
  <2>2. QED
    BY <1>0, <1>9, <2>1 DEF Finish, database, world, lockVars
<1>10. QED
  BY <1>1, <1>4, <1>5, <1>6, <1>7, <1>8, <1>9 DEF Aside

\* Every step keeps the types.
LEMMA StepTypes ==
  ASSUME Types, [Next]_vars
  PROVE  Types'
<1> USE DEF Types, Goto, Labels, Building, Locked
<1>1. ASSUME NEW g \in Goroutines, Begin(g) PROVE Types'
  BY <1>1 DEF Begin, database, world
<1>2. ASSUME NEW g \in Goroutines, LockStep(g) \/ LockFails(g) \/ Unlock(g) PROVE Types'
  BY <1>2 DEF LockStep, LockFails, Unlock, Fault, database, world
<1>3. ASSUME NEW g \in Goroutines, Step(g) PROVE Types'
  <2>1. Aside(g) \/ LockStep(g) \/ LockFails(g) \/ Unlock(g)
    BY <1>3 DEF Step, Aside
  <2>2. QED
    BY <1>2, <2>1, AsideTypes
<1>4. ASSUME NEW w \in Writers, Write(w) \/ Commit(w) \/ Rollback(w) PROVE Types'
  <2>1. ProcOf[w] \in Procs /\ SetIndex(entry[ProcOf[w]], NoIndex) \in EntryState
    BY ProcOfAssumption, EntryOps, NewEntry
  <2>2. QED
    BY <1>4, <2>1, NewEntry DEF Write, Commit, Rollback
<1>5. ASSUME NEW p \in Procs, Start(p) \/ Crash(p) PROVE Types'
  BY <1>5, NewEntry DEF Start, Crash, database
<1>6. CASE Tick
  BY <1>6 DEF Tick, database, world
<1>7. CASE UNCHANGED vars
  BY <1>7 DEF vars, database, world
<1>8. QED
  BY <1>1, <1>3, <1>4, <1>5, <1>6, <1>7 DEF Next

-----------------------------------------------------------------------------
(* One builder.                                                            *)

\* A step of a MATCH beside the lock stays in the lock, or outside.
LEMMA AsideMoves ==
  ASSUME Types, NEW g \in Goroutines, Aside(g)
  PROVE  /\ \A h \in Goroutines : h # g => pc'[h] = pc[h]
         /\ pc[g] \in Locked => pc'[g] \in Locked
         /\ pc[g] \notin Locked => /\ pc[g] \notin {"lock", "dead"}
                                  /\ pc'[g] \notin Locked \cup {"dead"}
         /\ pc'[g] \in Labels
         /\ UNCHANGED <<lpc, lease, cut, owner, age>>
BY DEF Aside, Types, Goto, Labels, Building, Locked, Peek, Load, Loop, TryBuild, WaitForBuild,
       Woken, WaitGet, LoadAgain, Recheck, LoadLocked, ReadGeneration, QueryRows, QueryFails,
       Persist, PublishIndex, Finish, Return, Get, LoadPersisted, LoadFails, StoreLoaded, lockVars

\* The steps of a MATCH that neither start nor finish a build leave everybody
\* where they are with respect to it.
Within(g) ==
  /\ pc'[g] \in Building <=> pc[g] \in Building
  /\ \A h \in Goroutines : h # g => pc'[h] = pc[h]
  /\ \A p \in Procs : /\ entry'[p].building = entry[p].building
                      /\ ~entry[p].building => entry'[p].done \subseteq entry[p].done

\* Beside the lock, only startBuild and finishBuild start and finish builds.
LEMMA AsideWithin ==
  ASSUME Types, NEW g \in Goroutines, Aside(g), ~TryBuild(g), ~Finish(g)
  PROVE  Within(g)
<1> USE DEF Types, Goto, Mine, Within, Building, Locked
<1>0. /\ ProcOf[g] \in Procs
      /\ \A i, n : /\ SetIndex(Mine(g), i).building = Mine(g).building
                  /\ SetIndex(Mine(g), i).done = Mine(g).done
                  /\ Publish(Mine(g), i, n).building = Mine(g).building
                  /\ Publish(Mine(g), i, n).done = Mine(g).done
  BY ProcOfAssumption DEF SetIndex, Publish, EntryState
<1>1. CASE Peek(g) \/ Loop(g) \/ WaitGet(g) \/ Recheck(g)
  BY <1>1 DEF Peek, Loop, WaitGet, Recheck, Get
<1>2. CASE Load(g) \/ LoadAgain(g) \/ LoadLocked(g) \/ QueryFails(g)
  <2>1. UNCHANGED entry \/ entry' = [entry EXCEPT ![ProcOf[g]] = SetIndex(@, hold[g])]
    BY <1>2 DEF Load, LoadAgain, LoadLocked, QueryFails, LoadPersisted, LoadFails, StoreLoaded
  <2>2. \A p \in Procs : entry'[p].building = entry[p].building /\ entry'[p].done = entry[p].done
    BY <1>0, <2>1
  <2>3. QED
    BY <1>2, <2>2 DEF Load, LoadAgain, LoadLocked, QueryFails, LoadPersisted, LoadFails, StoreLoaded
<1>3. CASE WaitForBuild(g) \/ Woken(g)
  <2>1. \/ UNCHANGED entry
        \/ /\ Mine(g).building
           /\ entry' = [entry EXCEPT ![ProcOf[g]] = HoldDone(@, g)]
    BY <1>3 DEF WaitForBuild, Woken
  <2>2. HoldDone(Mine(g), g).building = Mine(g).building
    BY <1>0 DEF HoldDone, EntryState
  <2>3. \A p \in Procs : /\ entry'[p].building = entry[p].building
                         /\ ~entry[p].building => entry'[p].done \subseteq entry[p].done
    BY <1>0, <2>1, <2>2
  <2>4. /\ pc[g] \in {"wait", "blocked"}
        /\ pc' = [pc EXCEPT ![g] = "blocked"] \/ pc' = [pc EXCEPT ![g] = "waitget"]
    BY <1>3 DEF WaitForBuild, Woken
  <2>5. QED
    BY <2>3, <2>4
<1>4. CASE ReadGeneration(g) \/ QueryRows(g) \/ Persist(g) \/ Return(g)
  BY <1>4 DEF ReadGeneration, QueryRows, Persist, Return
<1>5. CASE PublishIndex(g)
  <2>1. \A p \in Procs : entry'[p].building = entry[p].building /\ entry'[p].done = entry[p].done
    BY <1>0, <1>5 DEF PublishIndex
  <2>2. pc' = [pc EXCEPT ![g] = "unlock"] /\ pc[g] = "publish"
    BY <1>5 DEF PublishIndex
  <2>3. QED
    BY <2>1, <2>2
<1>6. QED
  BY <1>1, <1>2, <1>3, <1>4, <1>5 DEF Aside

\* Where no build starts or finishes, every process still has one builder.
LEMMA WithinKeepsBuilder ==
  ASSUME Types, NEW g \in Goroutines, Within(g), OneBuilderEach
  PROVE  OneBuilderEach'
<1>1. \A h \in Goroutines : pc'[h] \in Building <=> pc[h] \in Building
  BY DEF Within
<1>2. \A p \in Procs : ~entry'[p].building => entry'[p].done = {}
  BY DEF Within, OneBuilderEach
<1>3. QED
  BY <1>1, <1>2 DEF Within, OneBuilderEach

\* startBuild succeeds when nobody of the process builds.
LEMMA TryBuildKeepsBuilder ==
  ASSUME Types, NEW g \in Goroutines, TryBuild(g), OneBuilderEach
  PROVE  OneBuilderEach'
<1> USE DEF Types, Goto, Mine
<1>0. ProcOf[g] \in Procs
  BY ProcOfAssumption
<1>1. CASE ~CanStartBuild(Mine(g))
  <2>1. Within(g)
    BY <1>1 DEF TryBuild, Within, Building, Locked
  <2>2. QED
    BY <2>1, WithinKeepsBuilder
<1>2. CASE CanStartBuild(Mine(g))
  <2>1. /\ pc' = [pc EXCEPT ![g] = "load2"] /\ pc'[g] \in Building
        /\ entry' = [entry EXCEPT ![ProcOf[g]] = StartBuild(@)]
    BY <1>2 DEF TryBuild, Building
  <2>2. \A h \in Goroutines : ProcOf[h] = ProcOf[g] => pc[h] \notin Building
    BY <1>0, <1>2 DEF CanStartBuild, OneBuilderEach
  <2>3. \A p \in Procs : p # ProcOf[g] => entry'[p] = entry[p]
    BY <2>1
  <2>4. entry'[ProcOf[g]].building
    BY <1>0, <2>1 DEF StartBuild, EntryState
  <2>5. \A h \in Goroutines : h # g => pc'[h] = pc[h]
    BY <2>1
  <2>6. QED
    BY <1>0, <2>1, <2>2, <2>3, <2>4, <2>5 DEF OneBuilderEach
<1>3. QED
  BY <1>1, <1>2

\* finishBuild takes the only builder of its process out.
LEMMA FinishKeepsBuilder ==
  ASSUME Types, NEW g \in Goroutines, Finish(g), OneBuilderEach
  PROVE  OneBuilderEach'
<1> USE DEF Types, Goto
<1>0. ProcOf[g] \in Procs
  BY ProcOfAssumption
<1>1. /\ pc[g] \in Building /\ pc'[g] \notin Building
      /\ \A h \in Goroutines : h # g => pc'[h] = pc[h]
      /\ entry' = [entry EXCEPT ![ProcOf[g]] = FinishBuild(@)]
  BY DEF Finish, Building, Locked
<1>2. ~entry'[ProcOf[g]].building /\ entry'[ProcOf[g]].done = {}
  BY <1>0, <1>1 DEF FinishBuild, EntryState
<1>3. \A p \in Procs : p # ProcOf[g] => entry'[p] = entry[p]
  BY <1>1
<1>4. \A h \in Goroutines : ProcOf[h] = ProcOf[g] => pc'[h] \notin Building
  BY <1>1 DEF OneBuilderEach
<1>5. QED
  BY <1>0, <1>1, <1>2, <1>3, <1>4 DEF OneBuilderEach

\* Every step leaves one builder to every process.
LEMMA StepBuilder ==
  ASSUME Types, LockFollows, OneBuilderEach, [Next]_vars
  PROVE  OneBuilderEach'
<1> USE DEF Types, Goto
<1>1. ASSUME NEW g \in Goroutines, Begin(g) PROVE OneBuilderEach'
  <2>1. Within(g)
    BY <1>1 DEF Begin, Within, Building, Locked
  <2>2. QED
    BY <2>1, WithinKeepsBuilder
<1>2. ASSUME NEW g \in Goroutines, LockStep(g) \/ LockFails(g) \/ Unlock(g)
      PROVE  OneBuilderEach'
  <2>1. Within(g)
    BY <1>2 DEF LockStep, LockFails, Unlock, Within, Building, Locked
  <2>2. QED
    BY <2>1, WithinKeepsBuilder
<1>3. ASSUME NEW g \in Goroutines, Step(g) PROVE OneBuilderEach'
  <2>1. Aside(g) \/ LockStep(g) \/ LockFails(g) \/ Unlock(g)
    BY <1>3 DEF Step, Aside
  <2>2. QED
    BY <1>2, <2>1, AsideWithin, WithinKeepsBuilder, TryBuildKeepsBuilder, FinishKeepsBuilder
<1>4. ASSUME NEW w \in Writers, Write(w) \/ Commit(w) \/ Rollback(w) PROVE OneBuilderEach'
  <2>1. \/ UNCHANGED entry
        \/ entry' = [entry EXCEPT ![ProcOf[w]] = SetIndex(@, NoIndex)]
    BY <1>4 DEF Write, Commit, Rollback
  <2>2. /\ ProcOf[w] \in Procs
        /\ SetIndex(entry[ProcOf[w]], NoIndex).building = entry[ProcOf[w]].building
        /\ SetIndex(entry[ProcOf[w]], NoIndex).done = entry[ProcOf[w]].done
    BY ProcOfAssumption DEF SetIndex, EntryState
  <2>3. \A p \in Procs : entry'[p].building = entry[p].building /\ entry'[p].done = entry[p].done
    BY <2>1, <2>2
  <2>4. UNCHANGED pc
    BY <1>4 DEF Write, Commit, Rollback
  <2>5. QED
    BY <2>3, <2>4 DEF OneBuilderEach
<1>5. ASSUME NEW p \in Procs, Start(p) PROVE OneBuilderEach'
  BY <1>5 DEF Start, OneBuilderEach
<1>6. ASSUME NEW p \in Procs, Crash(p) PROVE OneBuilderEach'
  <2>1. /\ pc' = [g \in Goroutines |-> IF ProcOf[g] = p THEN "dead" ELSE pc[g]]
        /\ entry' = [entry EXCEPT ![p] = NewCacheEntry]
    BY <1>6 DEF Crash
  <2>2. \A g \in Goroutines :
          pc'[g] \in Building <=> pc[g] \in Building /\ ProcOf[g] # p
    BY <2>1 DEF Building, Locked
  <2>3. ~entry'[p].building /\ entry'[p].done = {}
    BY <2>1 DEF NewCacheEntry
  <2>4. \A q \in Procs : q # p => entry'[q] = entry[q]
    BY <2>1
  <2>5. QED
    BY <2>2, <2>3, <2>4 DEF OneBuilderEach
<1>7. CASE Tick
  BY <1>7 DEF Tick, database, world, OneBuilderEach
<1>8. CASE UNCHANGED vars
  BY <1>8 DEF vars, database, world, OneBuilderEach
<1>9. QED
  BY <1>1, <1>3, <1>4, <1>5, <1>6, <1>7, <1>8 DEF Next

\* A goroutine holds the lock between acquireIndexBuildLock and the deferred
\* unlock, and nowhere else.
LEMMA StepLockFollows ==
  ASSUME TypeOK, LockFollows, [Next]_vars
  PROVE  LockFollows'
<1> USE DEF TypeOK, Goto, LockFollows
<1>0. Types
  BY DEF Types
<1>1. ASSUME NEW g \in Goroutines, Begin(g) PROVE LockFollows'
  BY <1>1 DEF Begin, Locked, lockVars
<1>2. ASSUME NEW g \in Goroutines, Aside(g) PROVE LockFollows'
  <2>1. \A h \in Goroutines : h # g => pc'[h] = pc[h]
    BY <1>0, <1>2, AsideMoves
  <2>2. UNCHANGED lpc
    BY <1>0, <1>2, AsideMoves
  <2>3. lpc[g] \in IF pc'[g] \in Locked THEN {"held"}
                  ELSE IF pc'[g] = "lock" THEN {"idle", "clock", "try", "poll"}
                  ELSE IF pc'[g] = "dead" THEN {"dead"} ELSE {"idle"}
    <3>1. CASE pc[g] \in Locked
      BY <1>0, <1>2, <3>1, AsideMoves
    <3>2. CASE pc[g] \notin Locked
      <4>1. pc[g] \notin {"lock", "dead"} /\ pc'[g] \notin Locked \cup {"dead"}
        BY <1>0, <1>2, <3>2, AsideMoves
      <4>2. QED
        BY <3>2, <4>1
    <3>3. QED
      BY <3>1, <3>2
  <2>4. QED
    BY <2>1, <2>2, <2>3
<1>3. ASSUME NEW g \in Goroutines, LockStep(g) PROVE LockFollows'
  <2>1. /\ pc[g] = "lock"
        /\ pc' = [pc EXCEPT ![g] = IF lpc'[g] = "held" THEN "recheck" ELSE "lock"]
    BY <1>3 DEF LockStep
  <2>2. /\ lpc'[g] \in {"idle", "clock", "try", "poll", "held"}
        /\ \A h \in Goroutines : h # g => lpc'[h] = lpc[h]
    BY <1>3 DEF LockStep, Lock!TypeOK, Lock!Acquire, Lock!ReadClock, Lock!Retry, Lock!Try,
         Lock!Insert, Lock!Reenter, Lock!TakeOver, Lock!Wait, Lock!Enter, Lock!Goto
  <2>3. QED
    BY <2>1, <2>2 DEF Locked
<1>4. ASSUME NEW g \in Goroutines, LockFails(g) \/ Unlock(g) PROVE LockFollows'
  <2>1. lpc' = [lpc EXCEPT ![g] = "idle"] /\ lpc \in [Goroutines -> {"idle", "clock", "try", "poll", "held", "dead"}]
    BY <1>4 DEF LockFails, Unlock, Lock!Fail, Lock!Release, Lock!ReleaseFails, Lock!Goto, Lock!TypeOK
  <2>2. pc' = [pc EXCEPT ![g] = "finish"]
    BY <1>4 DEF LockFails, Unlock
  <2>3. QED
    BY <2>1, <2>2 DEF Locked
<1>5. ASSUME NEW w \in Writers, Write(w) \/ Commit(w) \/ Rollback(w) PROVE LockFollows'
  BY <1>5 DEF Write, Commit, Rollback, lockVars
<1>6. ASSUME NEW p \in Procs, Start(p) PROVE LockFollows'
  BY <1>6 DEF Start, lockVars
<1>7. ASSUME NEW p \in Procs, Crash(p) PROVE LockFollows'
  <2>1. /\ pc' = [g \in Goroutines |-> IF ProcOf[g] = p THEN "dead" ELSE pc[g]]
        /\ lpc' = [g \in Goroutines |-> IF ProcOf[g] = p THEN "dead" ELSE lpc[g]]
    BY <1>7 DEF Crash, Lock!Crash
  <2>2. QED
    BY <2>1 DEF Locked
<1>8. CASE Tick
  BY <1>8 DEF Tick, Lock!Tick, database, world
<1>9. CASE UNCHANGED vars
  BY <1>9 DEF vars, lockVars, database, world
<1>10. ASSUME NEW g \in Goroutines, Step(g) PROVE LockFollows'
  <2>1. Aside(g) \/ LockStep(g) \/ LockFails(g) \/ Unlock(g)
    BY <1>10 DEF Step, Aside
  <2>2. QED
    BY <1>2, <1>3, <1>4, <2>1
<1>11. QED
  BY <1>1, <1>5, <1>6, <1>7, <1>8, <1>9, <1>10 DEF Next

\* A release finds nobody of its process in the lock, so it cuts nobody.
LEMMA StepUncut ==
  ASSUME TypeOK, LockFollows, OneBuilderEach, \A g \in Goroutines : ~cut[g], [Next]_vars
  PROVE  \A g \in Goroutines : ~cut'[g]
<1> USE DEF TypeOK, Lock!TypeOK, LockFollows, Goto
<1>0. Types
  BY DEF Types
<1>1. ASSUME NEW g \in Goroutines, Begin(g) \/ Aside(g) PROVE UNCHANGED cut
  BY <1>0, <1>1, AsideMoves DEF Begin, lockVars
<1>2. ASSUME NEW g \in Goroutines, LockStep(g) \/ LockFails(g) PROVE UNCHANGED cut
  BY <1>2 DEF LockStep, LockFails, Lock!Acquire, Lock!ReadClock, Lock!Retry, Lock!Try, Lock!Fail,
     Lock!Insert, Lock!Reenter, Lock!TakeOver, Lock!Wait, Lock!Enter
<1>3. ASSUME NEW g \in Goroutines, Unlock(g), NEW h \in Goroutines PROVE ~cut'[h]
  <2>1. CASE Lock!ReleaseFails(g)
    BY <2>1 DEF Lock!ReleaseFails
  <2>2. CASE Lock!Release(g)
    <3>1. /\ pc[g] \in Building
          /\ cut'[h] = (h # g /\ lpc[h] = "held" /\ (cut[h] \/ ProcOf[h] = ProcOf[g]))
      BY <1>3, <2>2 DEF Unlock, Lock!Release, Building, Locked
    <3>2. lpc[h] = "held" => pc[h] \in Building
      BY DEF Building
    <3>3. QED
      BY <3>1, <3>2 DEF OneBuilderEach
  <2>3. QED
    BY <1>3, <2>1, <2>2 DEF Unlock
<1>4. ASSUME NEW w \in Writers, Write(w) \/ Commit(w) \/ Rollback(w) PROVE UNCHANGED cut
  BY <1>4 DEF Write, Commit, Rollback, lockVars
<1>5. ASSUME NEW p \in Procs, Start(p) \/ Crash(p), NEW h \in Goroutines PROVE ~cut'[h]
  BY <1>5 DEF Start, Crash, Lock!Crash, lockVars
<1>6. CASE Tick
  BY <1>6 DEF Tick, Lock!Tick
<1>7. CASE UNCHANGED vars
  BY <1>7 DEF vars, lockVars
<1>8. ASSUME NEW g \in Goroutines, Step(g), NEW h \in Goroutines PROVE ~cut'[h]
  <2>1. Aside(g) \/ LockStep(g) \/ LockFails(g) \/ Unlock(g)
    BY <1>8 DEF Step, Aside
  <2>2. QED
    BY <1>1, <1>2, <1>3, <2>1
<1>9. QED
  BY <1>1, <1>4, <1>5, <1>6, <1>7, <1>8 DEF Next

\* The invariant of the builds holds at first.
LEMMA InitBuildInv == Init => BuildInv
<1> SUFFICES ASSUME Init PROVE BuildInv
  OBVIOUS
<1> USE DEF Init
<1>1. TypeOK
  BY NewEntry, StaleAfterAssumption, LockMap
     DEF TypeOK, Labels, Lock!Init, Lock!TypeOK, Lock!Ages, Index
<1>2. Lock!RowBacksProtected /\ LockFollows /\ \A g \in Goroutines : ~cut[g]
  BY DEF Lock!Init, Lock!RowBacksProtected, Lock!Protected, LockFollows, Locked
<1>3. OneBuilderEach
  BY DEF OneBuilderEach, Building, Locked, NewCacheEntry
<1>4. QED
  BY <1>1, <1>2, <1>3 DEF BuildInv

\* Every step keeps the invariant of the builds.
LEMMA StepBuildInv ==
  ASSUME BuildInv, [Next]_vars
  PROVE  BuildInv'
<1> USE DEF BuildInv
<1>1. Types /\ Lock!TypeOK
  BY DEF TypeOK, Types
<1>2. Types' /\ Lock!TypeOK' /\ Lock!RowBacksProtected'
  BY <1>1, StepTypes, LockSteps, LockKept
<1>3. TypeOK'
  BY <1>2 DEF TypeOK, Types
<1>4. QED
  BY <1>1, <1>2, <1>3, StepBuilder, StepLockFollows, StepUncut

\* Where a goroutine is in ensureIndex, in the lock and in the build of its
\* process go together, in every reachable state.
THEOREM BuildInvariance == Spec => []BuildInv
<1>1. BuildInv /\ [Next]_vars => BuildInv'
  BY StepBuildInv
<1>2. QED
  BY InitBuildInv, <1>1, PTL DEF Spec

\* Every variable of ensureIndex, the blob, the lock row and the processes
\* stays in its range, for all values of the constants.
THEOREM TypeCorrect == Spec => []TypeOK
<1>1. BuildInv => TypeOK
  BY DEF BuildInv
<1>2. QED
  BY <1>1, BuildInvariance, PTL

\* startBuild and acquireIndexBuildLock together let one goroutine of all
\* processes build within its lease, and no release takes the row from under
\* a goroutine of its process.
THEOREM OneBuilder == Spec => []OneBuilderOverall
<1>1. BuildInv => OneBuilderOverall
  <2> SUFFICES ASSUME BuildInv PROVE OneBuilderOverall
    OBVIOUS
  <2> USE DEF BuildInv
  <2>1. ASSUME NEW g \in Goroutines, NEW h \in Goroutines,
               pc[g] \in Locked, lease[g] < StaleAfter,
               pc[h] \in Locked, lease[h] < StaleAfter
        PROVE  g = h
    <3>1. Lock!Protected(g) /\ Lock!Protected(h)
      BY <2>1 DEF Lock!Protected, LockFollows
    <3>2. ProcOf[g] = ProcOf[h]
      BY <3>1 DEF Lock!RowBacksProtected
    <3>3. QED
      BY <2>1, <3>2 DEF OneBuilderEach, Building
  <2>2. QED
    BY <2>1 DEF OneBuilderOverall
<1>2. QED
  BY <1>1, BuildInvariance, PTL

\* Whoever waits for a build in waitForBuild has a goroutine of its process
\* building, until finishBuild closes the channel.
THEOREM NoLostWakeUp == Spec => []WaitersHaveABuilder
<1>1. BuildInv => WaitersHaveABuilder
  BY ProcOfAssumption DEF BuildInv, OneBuilderEach, WaitersHaveABuilder, Mine
<1>2. QED
  BY <1>1, BuildInvariance, PTL

-----------------------------------------------------------------------------
(* Fresh answers, where one process is alive.                              *)

\* What a MATCH takes in its hands it has had, or has from the entry, the blob
\* or the rows; what it stores it had in its hands.
Passes(g) ==
  /\ UNCHANGED <<rows, tx, status, raced>>
  /\ g \in Matching /\ pc'[g] # "dead"
  /\ pc'[g] = "idle" => hold'[g] = NoIndex
  /\ hold'[g] \in {hold[g], NoIndex, Mine(g).idx, blob, rows}
  /\ blob' \in {blob, hold[g]}
  /\ entry'[ProcOf[g]].idx \in {Mine(g).idx, hold[g]}
  /\ \A p \in Procs : p # ProcOf[g] => entry'[p] = entry[p]
  /\ \A h \in Goroutines : h # g => pc'[h] = pc[h] /\ hold'[h] = hold[h]
  /\ \A h \in Goroutines : floor'[h] \in {floor[h], 0}

\* Every step of a MATCH passes indexes on so.
LEMMA StepPasses ==
  ASSUME Types, NEW g \in Goroutines, Step(g)
  PROVE  Passes(g)
<1> USE DEF Types, Goto, Mine, Passes, Matching, database, world
<1>0. /\ ProcOf[g] \in Procs /\ entry[ProcOf[g]] \in EntryState
      /\ \A i : i # NoIndex => SetIndex(entry[ProcOf[g]], i).idx = i
      /\ SetIndex(entry[ProcOf[g]], NoIndex).idx = NoIndex
      /\ \A i, n : Publish(entry[ProcOf[g]], i, n).idx \in {i, entry[ProcOf[g]].idx}
      /\ StartBuild(entry[ProcOf[g]]).idx = entry[ProcOf[g]].idx
      /\ HoldDone(entry[ProcOf[g]], g).idx = entry[ProcOf[g]].idx
      /\ FinishBuild(entry[ProcOf[g]]).idx = entry[ProcOf[g]].idx
  BY ProcOfAssumption
     DEF SetIndex, Publish, StartBuild, HoldDone, FinishBuild, EntryState
<1>1. CASE Peek(g) \/ Loop(g) \/ WaitGet(g) \/ Recheck(g)
  BY <1>1 DEF Peek, Loop, WaitGet, Recheck, Get
<1>2. CASE Load(g) \/ LoadAgain(g) \/ LoadLocked(g) \/ QueryFails(g)
  <2>1. \/ UNCHANGED entry
        \/ entry' = [entry EXCEPT ![ProcOf[g]] = SetIndex(@, hold[g])]
    BY <1>2 DEF Load, LoadAgain, LoadLocked, QueryFails, LoadPersisted, LoadFails, StoreLoaded
  <2>2. /\ entry'[ProcOf[g]].idx \in {Mine(g).idx, hold[g]}
        /\ \A p \in Procs : p # ProcOf[g] => entry'[p] = entry[p]
    BY <1>0, <2>1
  <2>3. QED
    BY <1>2, <2>2 DEF Load, LoadAgain, LoadLocked, QueryFails, LoadPersisted, LoadFails, StoreLoaded
<1>3. CASE TryBuild(g) \/ WaitForBuild(g) \/ Woken(g) \/ Finish(g)
  <2>1. /\ entry'[ProcOf[g]].idx = Mine(g).idx
        /\ \A p \in Procs : p # ProcOf[g] => entry'[p] = entry[p]
    BY <1>0, <1>3 DEF TryBuild, WaitForBuild, Woken, Finish
  <2>2. QED
    BY <1>3, <2>1 DEF TryBuild, WaitForBuild, Woken, Finish
<1>4. CASE ReadGeneration(g) \/ QueryRows(g) \/ Persist(g) \/ Return(g)
  BY <1>4 DEF ReadGeneration, QueryRows, Persist, Return
<1>5. CASE PublishIndex(g)
  <2>1. /\ entry'[ProcOf[g]].idx \in {Mine(g).idx, hold[g]}
        /\ \A p \in Procs : p # ProcOf[g] => entry'[p] = entry[p]
    BY <1>0, <1>5 DEF PublishIndex
  <2>2. QED
    BY <1>5, <2>1 DEF PublishIndex
<1>6. CASE LockStep(g) \/ LockFails(g) \/ Unlock(g)
  BY <1>6 DEF LockStep, LockFails, Unlock
<1>7. QED
  BY <1>1, <1>2, <1>3, <1>4, <1>5, <1>6 DEF Step

\* What is passed on so stays fresh.
LEMMA PassesKeepsFresh ==
  ASSUME FreshInv, TypeOK', NEW g \in Goroutines, Passes(g)
  PROVE  FreshInv'
<1> USE DEF FreshInv, Passes, Mine, Matching
<1>0. ProcOf[g] \in Procs /\ status[ProcOf[g]] = "up"
  BY ProcOfAssumption DEF OneAlive
<1>1. OneAlive'
  BY <1>0, ProcOfAssumption DEF OneAlive
<1>2. WriteAlone'
  BY DEF WriteAlone
<1>3. AllFresh'
  <2>1. \A h \in Goroutines : floor'[h] <= rows'
    BY DEF AllFresh, TypeOK
  <2>2. ASSUME raced = "no"
        PROVE  /\ blob' \in {NoIndex, rows}
               /\ \A p \in Procs : entry'[p].idx \in {NoIndex, rows}
               /\ \A h \in Goroutines : hold'[h] \in {NoIndex, rows}
    BY <1>0, <2>2 DEF AllFresh
  <2>3. QED
    BY <2>1, <2>2 DEF AllFresh
<1>4. QED
  BY <1>1, <1>2, <1>3

\* A write resets the only cache there is, so that nothing is left of the old
\* rows once it commits.
LEMMA WriterKeepsFresh ==
  ASSUME FreshInv, TypeOK', NEW w \in Writers, Write(w) \/ Commit(w) \/ Rollback(w)
  PROVE  FreshInv'
<1> USE DEF FreshInv, Matching
<1>0. ProcOf[w] \in Procs /\ w # Nobody
  BY ProcOfAssumption, NobodyAssumption
<1>1. CASE Write(w)
  <2>1. \A p \in Procs : entry'[p].idx = IF p = ProcOf[w] THEN NoIndex ELSE entry[p].idx
    BY <1>0, <1>1 DEF Write, SetIndex, TypeOK, EntryState
  <2>2. \A p \in Procs : entry'[p].idx = NoIndex
    BY <1>0, <1>1, <2>1 DEF Write, OneAlive
  <2>3. OneAlive' /\ WriteAlone'
    BY <1>0, <1>1, <2>2 DEF Write, OneAlive, WriteAlone
  <2>4. AllFresh'
    BY <1>1, <2>2 DEF Write, AllFresh
  <2>5. QED
    BY <2>3, <2>4
<1>2. CASE Commit(w)
  <2>1. OneAlive' /\ WriteAlone'
    BY <1>0, <1>2 DEF Commit, OneAlive, WriteAlone
  <2>2. \A h \in Goroutines : floor'[h] <= rows'
    BY <1>2 DEF Commit, AllFresh, TypeOK
  <2>3. raced' = "no" => \A h \in Goroutines : hold[h] = NoIndex
    BY <1>0, <1>2 DEF Commit, WriteAlone, OneAlive
  <2>4. raced' = "no" => \A p \in Procs : entry[p].idx = NoIndex
    BY <1>0, <1>2 DEF Commit, WriteAlone
  <2>5. AllFresh'
    BY <1>2, <2>2, <2>3, <2>4 DEF Commit, AllFresh
  <2>6. QED
    BY <2>1, <2>5
<1>3. CASE Rollback(w)
  BY <1>0, <1>3 DEF Rollback, OneAlive, WriteAlone, AllFresh
<1>4. QED
  BY <1>1, <1>2, <1>3

\* With one process at a time, a crash and a restart leave nothing stale behind.
LEMMA ProcessKeepsFresh ==
  ASSUME MaxAlive = 1, FreshInv, TypeOK', NEW p \in Procs, Start(p) \/ Crash(p)
  PROVE  FreshInv'
<1> USE DEF FreshInv, Matching
<1>1. CASE Start(p)
  <2> DEFINE Up == {q \in Procs : status[q] = "up"}
  <2>1. IsFiniteSet(Up) /\ Cardinality(Up) < 1
    BY <1>1, ProcsAssumption, FS_Subset DEF Start
  <2>2. Cardinality(Up) \in Nat
    BY <2>1, FS_CardinalityType
  <2>3. Up = {}
    BY <2>1, <2>2, FS_EmptySet
  <2>4. \A q \in Procs : status[q] # "up" /\ (status'[q] = "up" => q = p)
    BY <1>1, <2>3 DEF Start, TypeOK
  <2>5. tx = Nobody /\ \A g \in Goroutines : pc[g] \in {"idle", "dead"}
    BY <2>4, ProcOfAssumption DEF OneAlive, TypeOK
  <2>6. OneAlive'
    BY <1>1, <2>4, <2>5 DEF Start, OneAlive, database
  <2>7. WriteAlone' /\ AllFresh'
    BY <1>1 DEF Start, WriteAlone, AllFresh, database
  <2>8. QED
    BY <2>6, <2>7
<1>2. CASE Crash(p)
  <2>1. /\ tx' = IF tx # Nobody /\ ProcOf[tx] = p THEN Nobody ELSE tx
        /\ raced' = IF tx # Nobody /\ ProcOf[tx] = p /\ raced = "healing" THEN "yes" ELSE raced
        /\ pc' = [g \in Goroutines |-> IF ProcOf[g] = p THEN "dead" ELSE pc[g]]
        /\ hold' = [g \in Goroutines |-> IF ProcOf[g] = p THEN NoIndex ELSE hold[g]]
        /\ floor' = [g \in Goroutines |-> IF ProcOf[g] = p THEN 0 ELSE floor[g]]
        /\ entry' = [entry EXCEPT ![p] = NewCacheEntry]
        /\ status' = [status EXCEPT ![p] = "down"]
        /\ UNCHANGED <<rows, blob>>
    BY <1>2 DEF Crash
  <2>2. \A q \in Procs : entry'[q].idx = IF q = p THEN NoIndex ELSE entry[q].idx
    BY <2>1 DEF NewCacheEntry, TypeOK
  <2>3. \A q \in Procs : status'[q] = IF q = p THEN "down" ELSE status[q]
    BY <2>1 DEF TypeOK
  <2>4. OneAlive'
    BY <2>1, <2>2, <2>3, ProcOfAssumption DEF OneAlive, TypeOK
  <2>5. tx # Nobody => ProcOf[tx] = p
    BY <1>2, ProcOfAssumption DEF Crash, OneAlive, TypeOK
  <2>6. WriteAlone'
    BY <2>1, <2>2, <2>5 DEF WriteAlone
  <2>7. AllFresh'
    BY <2>1, <2>2 DEF AllFresh, TypeOK
  <2>8. QED
    BY <2>4, <2>6, <2>7
<1>3. QED
  BY <1>1, <1>2

\* So every step keeps the invariant of unraced answers.
LEMMA StepFresh ==
  ASSUME MaxAlive = 1, FreshInv, TypeOK', [Next]_vars
  PROVE  FreshInv'
<1>1. ASSUME NEW g \in Goroutines, Begin(g) PROVE FreshInv'
  <2>1. OneAlive'
    BY <1>1 DEF Begin, database, FreshInv, OneAlive, Matching, Goto, TypeOK
  <2>2. WriteAlone'
    BY <1>1 DEF Begin, database, FreshInv, WriteAlone, Matching, Goto, TypeOK
  <2>3. AllFresh'
    BY <1>1 DEF Begin, database, FreshInv, AllFresh, TypeOK
  <2>4. QED
    BY <2>1, <2>2, <2>3 DEF FreshInv
<1>2. ASSUME NEW g \in Goroutines, Step(g) PROVE FreshInv'
  <2>1. Types
    BY DEF FreshInv, TypeOK, Types
  <2>2. QED
    BY <1>2, <2>1, StepPasses, PassesKeepsFresh
<1>3. CASE Tick \/ UNCHANGED vars
  BY <1>3 DEF Tick, vars, database, world, FreshInv, OneAlive, WriteAlone, AllFresh, Matching
<1>4. QED
  BY <1>1, <1>2, <1>3, WriterKeepsFresh, ProcessKeepsFresh DEF Next

\* One process at a time on the database: a MATCH that overlapped no write
\* answers with all rows committed when it began, however many MATCHes overlap
\* each other, whatever failed, rolled back or crashed, and whoever came after.
THEOREM AloneIsFresh ==
  ASSUME MaxAlive = 1
  PROVE  Spec => []UnracedAnswersAreFresh
<1>1. Init => FreshInv
  BY InitBuildInv
     DEF Init, FreshInv, BuildInv, OneAlive, WriteAlone, AllFresh, Matching, NewCacheEntry
<1>2. TypeOK' /\ FreshInv /\ [Next]_vars => FreshInv'
  BY StepFresh
<1>3. FreshInv => UnracedAnswersAreFresh
  BY DEF FreshInv, TypeOK, AllFresh, UnracedAnswersAreFresh
<1>4. QED
  BY <1>1, <1>2, <1>3, TypeCorrect, PTL DEF Spec

-----------------------------------------------------------------------------
(* Other modules and this one.                                             *)

\* The lock row lives as BuildLock has it: a MATCH takes it, waits for it and
\* gives it back by steps of that module only.
THEOREM LockIsKept == Spec => Lock!Spec
<1>1. Init => Lock!Init
  BY DEF Init
<1>2. [Next]_vars => [Lock!Next]_(Lock!vars)
  BY LockSteps DEF lockVars, Lock!vars
<1>3. QED
  BY <1>1, <1>2, PTL DEF Spec, Lock!Spec

\* Indexes are of rows that have been committed, wherever they are.
OfRows ==
  /\ blob \in 0 .. rows \cup {NoIndex}
  /\ \A p \in Procs : entry[p].idx \in 0 .. rows \cup {NoIndex}
  /\ \A g \in Goroutines : hold[g] \in 0 .. rows \cup {NoIndex}

\* Every step keeps them so: a build reads what is committed.
LEMMA StepOfRows ==
  ASSUME TypeOK, OfRows, [Next]_vars
  PROVE  OfRows'
<1>0. /\ rows \in Nat /\ entry \in [Procs -> EntryState]
      /\ rows \in 0 .. rows \cup {NoIndex}
  BY DEF TypeOK
<1>1. ASSUME NEW g \in Goroutines, Step(g) PROVE OfRows'
  <2>1. Passes(g) /\ ProcOf[g] \in Procs
    BY <1>1, StepPasses, ProcOfAssumption DEF TypeOK, Types
  <2>2. rows' = rows
    BY <2>1 DEF Passes
  <2>3. \A h \in Goroutines : hold'[h] \in 0 .. rows \cup {NoIndex}
    BY <1>0, <2>1 DEF Passes, OfRows, Mine
  <2>4. \A p \in Procs : entry'[p].idx \in 0 .. rows \cup {NoIndex}
    BY <2>1 DEF Passes, OfRows, Mine
  <2>5. blob' \in 0 .. rows \cup {NoIndex}
    BY <2>1 DEF Passes, OfRows
  <2>6. QED
    BY <2>2, <2>3, <2>4, <2>5 DEF OfRows
<1>2. ASSUME NEW w \in Writers, Write(w) PROVE OfRows'
  <2>1. /\ UNCHANGED <<rows, blob, hold>>
        /\ entry' = [entry EXCEPT ![ProcOf[w]] = SetIndex(@, NoIndex)]
    BY <1>2 DEF Write
  <2>2. \A p \in Procs : entry'[p].idx \in {entry[p].idx, NoIndex}
    BY <1>0, <2>1, ProcOfAssumption DEF SetIndex, EntryState
  <2>3. QED
    BY <2>1, <2>2 DEF OfRows
<1>3. ASSUME NEW w \in Writers, Commit(w) PROVE OfRows'
  <2>1. rows' = rows + 1 /\ blob' = NoIndex /\ UNCHANGED <<entry, hold>>
    BY <1>3 DEF Commit
  <2>2. 0 .. rows \subseteq 0 .. rows + 1
    BY <1>0
  <2>3. QED
    BY <2>1, <2>2 DEF OfRows
<1>4. ASSUME NEW p \in Procs, Crash(p) PROVE OfRows'
  <2>1. /\ UNCHANGED <<rows, blob>>
        /\ hold' = [g \in Goroutines |-> IF ProcOf[g] = p THEN NoIndex ELSE hold[g]]
        /\ entry' = [entry EXCEPT ![p] = NewCacheEntry]
    BY <1>4 DEF Crash
  <2>2. \A q \in Procs : entry'[q].idx \in {entry[q].idx, NoIndex}
    BY <1>0, <2>1 DEF NewCacheEntry
  <2>3. QED
    BY <2>1, <2>2 DEF OfRows
<1>5. CASE \/ \E g \in Goroutines : Begin(g)
           \/ \E w \in Writers : Rollback(w)
           \/ \E p \in Procs : Start(p)
           \/ Tick \/ UNCHANGED vars
  <2>1. UNCHANGED <<rows, blob, entry, hold>>
    BY <1>5 DEF Begin, Rollback, Start, Tick, vars, database
  <2>2. QED
    BY <2>1 DEF OfRows
<1>6. QED
  BY <1>1, <1>2, <1>3, <1>4, <1>5 DEF Next

\* What ensureIndex hands to a query is an index of rows that were committed
\* once: never of the draft of a transaction, also when that is rolled back,
\* and never a mixture.  VecQuery takes this for granted.
THEOREM IndexesAreOfRows == Spec => []OfRows
<1>1. Init => OfRows
  BY DEF Init, OfRows, NewCacheEntry
<1>2. TypeOK /\ OfRows /\ [Next]_vars => OfRows'
  BY StepOfRows
<1>3. QED
  BY <1>1, <1>2, TypeCorrect, PTL DEF Spec

=============================================================================
