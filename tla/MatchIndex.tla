----------------------------- MODULE MatchIndex -----------------------------
(***************************************************************************)
(* SQL MATCH on a vec table: the whole of ensureIndex in vec/api.go, with  *)
(* the index persisted in vector_storage, the lock row that guards a build *)
(* (module BuildLock), the cacheEntry of each process (module CacheEntry), *)
(* and the triggers through which writers of the shadow table delete the   *)
(* persisted index and call vec_invalidate.                                *)
(*                                                                         *)
(* One shadow table and dataset, one cache key per process.  The tables    *)
(* and the triggers exist.  An index is the version of the rows it was     *)
(* built from.  SQLite runs one write transaction at a time, shows readers *)
(* only what is committed, and makes a second writer wait or fail.         *)
(***************************************************************************)
EXTENDS CacheEntry, FiniteSets

CONSTANTS
  Writers,     \* who changes shadow rows
  Procs,       \* processes on the database file
  ProcOf,      \* ProcOf[g], ProcOf[w]: the process of a goroutine or writer
  Nobody,      \* no owner of the lock row, no write transaction
  StaleAfter,  \* lockStaleAfter, in ticks
  MaxAlive,    \* bound: processes running at once
  MaxWrites,   \* bound: invalidations per process
  MaxFaults    \* bound: statements that fail

ASSUME ProcOfAssumption == \A x \in Goroutines \cup Writers : ProcOf[x] \in Procs
ASSUME ProcsAssumption == IsFiniteSet(Procs)
ASSUME NobodyAssumption == Nobody \notin Procs \cup Writers
ASSUME StaleAfterAssumption == StaleAfter \in Nat \ {0}

VARIABLES
  rows,    \* committed version of the shadow rows
  blob,    \* committed "index" of the vector_storage row, NoIndex for none
  tx,      \* the writer whose transaction is open, or Nobody
  status,  \* status[p]: "new", "up" or "down"
  entry,   \* entry[p]: the cacheEntry of process p
  pc,      \* pc[g]: what goroutine g does next
  gen,     \* gen[g]: the generation it has read
  hold,    \* hold[g]: the index it has in its hands
  floor,   \* history: the rows committed when its MATCH began
  raced,   \* history: "yes" once a MATCH overlaps a write transaction, until
           \* a later write is over with none around ("healing" meanwhile)
  faults,  \* statements failed so far, at most MaxFaults
  owner, age, lpc, stamp, lease, cut  \* the lock row, see BuildLock

lockVars == <<owner, age, lpc, stamp, lease, cut>>
database == <<rows, blob, tx>>
world == <<status, raced, faults>>
vars == <<database, world, entry, pc, gen, hold, floor, lockVars>>

Lock == INSTANCE BuildLock WITH pc <- lpc, ProcOf <- [g \in Goroutines |-> ProcOf[g]]

Init ==
  /\ rows = 0
  /\ blob = NoIndex
  /\ tx = Nobody
  /\ status = [p \in Procs |-> "new"]
  /\ entry = [p \in Procs |-> NewCacheEntry]
  /\ pc = [g \in Goroutines |-> "idle"]
  /\ gen = [g \in Goroutines |-> 0]
  /\ hold = [g \in Goroutines |-> NoIndex]
  /\ floor = [g \in Goroutines |-> 0]
  /\ raced = "no"
  /\ faults = 0
  /\ Lock!Init

Goto(g, label) == pc' = [pc EXCEPT ![g] = label]
Mine(g) == entry[ProcOf[g]]
Fault == faults < MaxFaults /\ faults' = faults + 1
Matching == {g \in Goroutines : pc[g] \notin {"idle", "dead"}}

-----------------------------------------------------------------------------
(* Mutated form: the DELETE of the trigger is missing.                    *)

CommitKeepsBlob(w) ==
  /\ tx = w
  /\ tx' = Nobody
  /\ rows' = rows + 1
  /\ raced' = IF raced = "healing" THEN "no" ELSE raced
  /\ UNCHANGED <<blob, status, faults, entry, pc, gen, hold, floor, lockVars>>

-----------------------------------------------------------------------------
(* ensureIndex up to the build.                                            *)

\* The Filter callback of a MATCH.
Begin(g) ==
  /\ status[ProcOf[g]] = "up"
  /\ pc[g] = "idle"
  /\ Goto(g, "peek")
  /\ floor' = [floor EXCEPT ![g] = rows]
  /\ raced' = IF tx # Nobody THEN "yes" ELSE raced
  /\ UNCHANGED <<database, status, faults, entry, gen, hold, lockVars>>

\* entry.get(): return the index if there is one, else go on.
Get(g, at, found, empty) ==
  /\ pc[g] = at
  /\ hold' = [hold EXCEPT ![g] = Mine(g).idx]
  /\ Goto(g, IF Mine(g).idx # NoIndex THEN found ELSE empty)
  /\ UNCHANGED <<database, world, entry, gen, floor, lockVars>>

Peek(g) == Get(g, "peek", "respond", "load1")
Loop(g) == Get(g, "loop", "respond", "start")

\* loadPersistedIndex: the SELECT, and the decoding of what it finds.
LoadPersisted(g, at, found, miss) ==
  /\ pc[g] = at
  /\ hold' = [hold EXCEPT ![g] = blob]
  /\ Goto(g, IF blob # NoIndex THEN found ELSE miss)
  /\ UNCHANGED <<database, world, entry, gen, floor, lockVars>>

LoadFails(g, at, exit) ==
  /\ pc[g] = at
  /\ Fault
  /\ Goto(g, exit)
  /\ UNCHANGED <<database, status, raced, entry, gen, hold, floor, lockVars>>

\* setSharedIndex with the index just loaded.
StoreLoaded(g, at, exit) ==
  /\ pc[g] = at
  /\ entry' = [entry EXCEPT ![ProcOf[g]] = SetIndex(@, hold[g])]
  /\ Goto(g, exit)
  /\ UNCHANGED <<database, world, gen, hold, floor, lockVars>>

Load(g) ==
  \/ LoadPersisted(g, "load1", "store1", "loop")
  \/ LoadFails(g, "load1", "respond")
  \/ StoreLoaded(g, "store1", "respond")

TryBuild(g) ==
  /\ pc[g] = "start"
  /\ IF CanStartBuild(Mine(g))
     THEN /\ entry' = [entry EXCEPT ![ProcOf[g]] = StartBuild(@)]
          /\ Goto(g, "load2")
     ELSE /\ Goto(g, "wait")
          /\ UNCHANGED entry
  /\ UNCHANGED <<database, world, gen, hold, floor, lockVars>>

\* waitForBuild; the context of a MATCH is never done.
WaitForBuild(g) ==
  /\ pc[g] = "wait"
  /\ IF Mine(g).building
     THEN /\ entry' = [entry EXCEPT ![ProcOf[g]] = HoldDone(@, g)]
          /\ Goto(g, "blocked")
     ELSE /\ Goto(g, "waitget")
          /\ UNCHANGED entry
  /\ UNCHANGED <<database, world, gen, hold, floor, lockVars>>

Woken(g) ==
  /\ pc[g] = "blocked"
  /\ g \notin Mine(g).done
  /\ Goto(g, "waitget")
  /\ UNCHANGED <<database, world, entry, gen, hold, floor, lockVars>>

WaitGet(g) == Get(g, "waitget", "respond", "loop")

-----------------------------------------------------------------------------
(* ensureIndex: the build.                                                 *)

LoadAgain(g) ==
  \/ LoadPersisted(g, "load2", "store2", "lock")
  \/ LoadFails(g, "load2", "finish")
  \/ StoreLoaded(g, "store2", "finish")

\* acquireIndexBuildLock, step by step; its transaction needs the write lock.
LockStep(g) ==
  /\ pc[g] = "lock"
  /\ \/ Lock!Acquire(g) \/ Lock!ReadClock(g) \/ Lock!Retry(g)
     \/ tx = Nobody /\ Lock!Try(g)
  /\ Goto(g, IF lpc'[g] = "held" THEN "recheck" ELSE "lock")
  /\ UNCHANGED <<database, world, entry, gen, hold, floor>>

LockFails(g) ==
  /\ pc[g] = "lock"
  /\ Lock!Fail(g)
  /\ Fault
  /\ Goto(g, "finish")
  /\ UNCHANGED <<database, status, raced, entry, gen, hold, floor>>

Recheck(g) == Get(g, "recheck", "unlock", "load3")

LoadLocked(g) ==
  \/ LoadPersisted(g, "load3", "store3", "readgen")
  \/ LoadFails(g, "load3", "unlock")
  \/ StoreLoaded(g, "store3", "unlock")

ReadGeneration(g) ==
  /\ pc[g] = "readgen"
  /\ gen' = [gen EXCEPT ![g] = Mine(g).generation]
  /\ Goto(g, "query")
  /\ UNCHANGED <<database, world, entry, hold, floor, lockVars>>

QueryRows(g) ==
  /\ pc[g] = "query"
  /\ hold' = [hold EXCEPT ![g] = rows]
  /\ Goto(g, "persist")
  /\ UNCHANGED <<database, world, entry, gen, floor, lockVars>>

QueryFails(g) == LoadFails(g, "query", "unlock")

\* INSERT OR REPLACE INTO vector_storage.  Its error is ignored.
Persist(g) ==
  /\ pc[g] = "persist"
  /\ \/ tx = Nobody /\ blob' = hold[g]
     \/ UNCHANGED blob
  /\ Goto(g, "publish")
  /\ UNCHANGED <<rows, tx, world, entry, gen, hold, floor, lockVars>>

PublishIndex(g) ==
  /\ pc[g] = "publish"
  /\ entry' = [entry EXCEPT ![ProcOf[g]] = Publish(@, hold[g], gen[g])]
  /\ gen' = [gen EXCEPT ![g] = 0]
  /\ Goto(g, "unlock")
  /\ UNCHANGED <<database, world, hold, floor, lockVars>>

\* The deferred unlock, then the deferred finishBuild.
Unlock(g) ==
  /\ pc[g] = "unlock"
  /\ \/ tx = Nobody /\ Lock!Release(g)
     \/ Lock!ReleaseFails(g)
  /\ Goto(g, "finish")
  /\ UNCHANGED <<database, world, entry, gen, hold, floor>>

Finish(g) ==
  /\ pc[g] = "finish"
  /\ entry' = [entry EXCEPT ![ProcOf[g]] = FinishBuild(@)]
  /\ Goto(g, "respond")
  /\ UNCHANGED <<database, world, gen, hold, floor, lockVars>>

\* Filter queries the index and returns, with or without an error.
Return(g) ==
  /\ pc[g] = "respond"
  /\ Goto(g, "idle")
  /\ hold' = [hold EXCEPT ![g] = NoIndex]
  /\ gen' = [gen EXCEPT ![g] = 0]
  /\ floor' = [floor EXCEPT ![g] = 0]
  /\ UNCHANGED <<database, world, entry, lockVars>>

-----------------------------------------------------------------------------
(* Writers, processes, time.                                               *)

\* A statement that changes shadow rows: the trigger deletes the persisted
\* index inside the transaction, and vec_invalidate, called by the trigger,
\* resets the entry of the writer's own process at once.
Write(w) ==
  /\ status[ProcOf[w]] = "up"
  /\ tx \in {Nobody, w}
  /\ entry[ProcOf[w]].generation < MaxWrites
  /\ tx' = w
  /\ entry' = [entry EXCEPT ![ProcOf[w]] = SetIndex(@, NoIndex)]
  /\ raced' = IF Matching # {} THEN "yes"
              ELSE IF raced = "yes" THEN "healing" ELSE raced
  /\ UNCHANGED <<rows, blob, status, faults, pc, gen, hold, floor, lockVars>>

Commit(w) ==
  /\ tx = w
  /\ tx' = Nobody
  /\ rows' = rows + 1
  /\ blob' = NoIndex
  /\ raced' = IF raced = "healing" THEN "no" ELSE raced
  /\ UNCHANGED <<status, faults, entry, pc, gen, hold, floor, lockVars>>

Rollback(w) ==
  /\ tx = w
  /\ tx' = Nobody
  /\ raced' = IF raced = "healing" THEN "yes" ELSE raced
  /\ UNCHANGED <<rows, blob, status, faults, entry, pc, gen, hold, floor, lockVars>>

Start(p) ==
  /\ status[p] = "new"
  /\ Cardinality({q \in Procs : status[q] = "up"}) < MaxAlive
  /\ status' = [status EXCEPT ![p] = "up"]
  /\ UNCHANGED <<database, raced, faults, entry, pc, gen, hold, floor, lockVars>>

\* A process ends in the middle of anything: its memory is gone, its open
\* transaction is rolled back, its lock row stays.
Crash(p) ==
  /\ status[p] = "up"
  /\ status' = [status EXCEPT ![p] = "down"]
  /\ LET In(x) == ProcOf[x] = p IN
     /\ tx' = IF tx # Nobody /\ In(tx) THEN Nobody ELSE tx
     /\ raced' = IF tx # Nobody /\ In(tx) /\ raced = "healing" THEN "yes" ELSE raced
     /\ pc' = [g \in Goroutines |-> IF In(g) THEN "dead" ELSE pc[g]]
     /\ gen' = [g \in Goroutines |-> IF In(g) THEN 0 ELSE gen[g]]
     /\ hold' = [g \in Goroutines |-> IF In(g) THEN NoIndex ELSE hold[g]]
     /\ floor' = [g \in Goroutines |-> IF In(g) THEN 0 ELSE floor[g]]
  /\ entry' = [entry EXCEPT ![p] = NewCacheEntry]
  /\ Lock!Crash(p)
  /\ UNCHANGED <<rows, blob, faults>>

Tick ==
  /\ Lock!Tick
  /\ UNCHANGED <<database, world, entry, pc, gen, hold, floor>>

-----------------------------------------------------------------------------
Step(g) ==
  \/ Peek(g) \/ Load(g) \/ Loop(g) \/ TryBuild(g) \/ WaitForBuild(g)
  \/ Woken(g) \/ WaitGet(g) \/ LoadAgain(g) \/ LockStep(g) \/ LockFails(g)
  \/ Recheck(g) \/ LoadLocked(g) \/ ReadGeneration(g) \/ QueryRows(g)
  \/ QueryFails(g) \/ Persist(g) \/ PublishIndex(g) \/ Unlock(g) \/ Finish(g)
  \/ Return(g)

Next ==
  \/ \E g \in Goroutines : Begin(g) \/ Step(g)
  \/ \E w \in Writers : Write(w) \/ Commit(w) \/ Rollback(w)
  \/ \E p \in Procs : Start(p) \/ Crash(p)
  \/ Tick

Spec == Init /\ [][Next]_vars

\* Every goroutine goes on when it can, time passes, and a transaction that
\* was opened ends one way or the other.
FairSpec ==
  /\ Spec
  /\ \A g \in Goroutines : WF_vars(Step(g))
  /\ \A w \in Writers : WF_vars(Commit(w) \/ Rollback(w))
  /\ WF_vars(Tick)

-----------------------------------------------------------------------------
Locked == {"recheck", "load3", "store3", "readgen", "query", "persist",
           "publish", "unlock"}
Building == Locked \cup {"load2", "store2", "lock", "finish"}
Labels == Building \cup {"idle", "peek", "load1", "store1", "loop", "start",
                         "wait", "blocked", "waitget", "respond", "dead"}

TypeOK ==
  /\ rows \in Nat
  /\ blob \in Index
  /\ tx \in Writers \cup {Nobody}
  /\ status \in [Procs -> {"new", "up", "down"}]
  /\ entry \in [Procs -> EntryState]
  /\ pc \in [Goroutines -> Labels]
  /\ gen \in [Goroutines -> Nat]
  /\ hold \in [Goroutines -> Index]
  /\ floor \in [Goroutines -> Nat]
  /\ raced \in {"no", "yes", "healing"}
  /\ faults \in Nat
  /\ Lock!TypeOK

\* The cacheEntry lets one goroutine of a process build, the lock row lets
\* one process build: together at most one goroutine of all is between
\* acquireIndexBuildLock and its release while its lease lasts, and no
\* goroutine releases the lock under another one of its process.
OneBuilderOverall ==
  /\ \A g, h \in Goroutines :
       /\ pc[g] \in Locked /\ lease[g] < StaleAfter
       /\ pc[h] \in Locked /\ lease[h] < StaleAfter
       => g = h
  /\ \A g \in Goroutines : ~cut[g]

\* No lost wake-up, although a build now ends by loading, by failing, or by
\* an index stored by somebody who was not building.
WaitersHaveABuilder ==
  \A g \in Goroutines : pc[g] = "blocked" /\ g \in Mine(g).done =>
    \E h \in Goroutines : pc[h] \in Building /\ ProcOf[h] = ProcOf[g]

\* As long as no MATCH has overlapped a write transaction since the last
\* write that was alone, a MATCH answers with all rows committed when it
\* began: however many MATCHes overlap each other, whatever failed, rolled
\* back or crashed.
UnracedAnswersAreFresh ==
  \A g \in Goroutines :
    pc[g] = "respond" /\ hold[g] # NoIndex /\ raced = "no" => hold[g] >= floor[g]

\* Nobody is in the middle of anything.
Quiet == tx = Nobody /\ Matching = {}

\* "Triggers [...] delete the blob whenever shadow rows change, forcing the
\* next MATCH to rebuild" (README.md): between MATCHes and writes, the
\* persisted index and the index in memory are of the rows as they are, or
\* there is none.
NextMatchRebuilds ==
  Quiet =>
    /\ blob \in {NoIndex, rows}
    /\ \A p \in Procs : status[p] = "up" => entry[p].idx \in {NoIndex, rows}

\* Every MATCH returns, also when the process that holds the lock crashed.
EveryMatchReturns ==
  \A g \in Goroutines : g \in Matching ~> g \notin Matching

-----------------------------------------------------------------------------
(* Why: the parts of the inductive invariant.                              *)

\* Where a goroutine is in ensureIndex says where it is in the lock.
LockFollows ==
  \A g \in Goroutines :
    lpc[g] \in IF pc[g] \in Locked THEN {"held"}
               ELSE IF pc[g] = "lock" THEN {"idle", "clock", "try", "poll"}
               ELSE IF pc[g] = "dead" THEN {"dead"} ELSE {"idle"}

\* startBuild lets one goroutine of a process in, finishBuild lets it out, and
\* the done channel is open in between only.
OneBuilderEach ==
  /\ \A g, h \in Goroutines :
       pc[g] \in Building /\ pc[h] \in Building /\ ProcOf[g] = ProcOf[h] => g = h
  /\ \A p \in Procs :
       /\ entry[p].building <=> \E g \in Goroutines : ProcOf[g] = p /\ pc[g] \in Building
       /\ ~entry[p].building => entry[p].done = {}

BuildInv ==
  /\ TypeOK
  /\ Lock!RowBacksProtected
  /\ LockFollows
  /\ OneBuilderEach
  /\ \A g \in Goroutines : ~cut[g]

\* One process is alive, and only in it does anything go on.
OneAlive ==
  /\ \A p, q \in Procs : status[p] = "up" /\ status[q] = "up" => p = q
  /\ \A p \in Procs : status[p] # "up" => entry[p].idx = NoIndex
  /\ \A g \in Matching : status[ProcOf[g]] = "up"
  /\ \A g \in Goroutines \ Matching : hold[g] = NoIndex
  /\ tx # Nobody => status[ProcOf[tx]] = "up"

\* A write that no MATCH has overlapped yet is alone with an empty cache.
WriteAlone ==
  /\ raced = "healing" => tx # Nobody
  /\ tx # Nobody /\ raced # "yes" =>
       Matching = {} /\ \A p \in Procs : entry[p].idx = NoIndex

\* Whatever is stored, cached or held while nothing has raced is of the rows
\* as they are.
AllFresh ==
  /\ \A g \in Goroutines : floor[g] <= rows
  /\ raced = "no" =>
       /\ blob \in {NoIndex, rows}
       /\ \A p \in Procs : entry[p].idx \in {NoIndex, rows}
       /\ \A g \in Goroutines : hold[g] \in {NoIndex, rows}

FreshInv == TypeOK /\ OneAlive /\ WriteAlone /\ AllFresh

=============================================================================
