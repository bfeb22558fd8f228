# sqlite-vec, verified: the TLA+ models beside the code

`sqlite-vec` is a Go library that adds vector search to SQLite. Rows with
embeddings live in *shadow tables*; a virtual table module `vec` answers
`MATCH` queries from an index that is built from the shadow rows, cached in the
memory of the process and persisted in the table `vector_storage`; triggers on
the shadow table invalidate both. This directory models the parts of it whose
correctness depends on the order of events, checks them with TLC on small
instances, and proves the most important properties with TLAPS for all values
of the constants.

## 1. Inventory

| Part | Source | State it keeps | Operations |
|---|---|---|---|
| shared index cache | `vec/api.go` 239-368 | `sharedCache.byKey`: key → `cacheEntry` (idx, building, done, generation), one mutex for the map and one per entry | `getCacheEntry`, `get`, `set`, `startBuild`, `waitForBuild`, `finishBuild`, `InvalidateCache`, `vec_invalidate` |
| `vec.Search` | `vec/search.go`, read-only `ensureIndex` | none of its own | search from the cache or build, never writes |
| index build lock | `vec/api.go` 998-1049 | table `vector_storage_locks`: owner (a process), locked_at | `acquireIndexBuildLock`, its release |
| MATCH and persistence | `vec/api.go` 594-718, 812-887, 969-1188 | `vector_storage`: one blob per shadow table and dataset; shadow table triggers | `Filter`, `ensureIndex`, `loadPersistedIndex`, `ensureShadow`, the triggers |
| virtual table module | `vec/api.go` 27-236, 428-811 | per-table options, resolved database path; the tables and triggers that exist; a cursor per query | `Create`, `Connect`, `BestIndex`, `Filter`, `lookupRow`, cursor |
| `vec_admin` | `vecadmin/api.go` | a connection of its own with `dbpath=` | `reindex` of one dataset, statement by statement |
| change log | `vecsync/logging.go`, `db/schema/*` | `vec_dataset_scn`, `vec_shadow_log`, `vec_sync_state` | logging triggers; SCN allocation; an external replica replays |
| cover tree | `internal/cover/tree`, `index/cover` | a tree of points, cached radii | `Insert`, pruned k-nearest-neighbour search, encoding |
| brute-force index | `index/bruteforce` | ids and vectors | `Build`, `Query`, encoding |
| `vecutil` | `vecutil/*.go` | none | `UpsertDocumentsText`, `DeleteDocuments`, `MatchText`, `QueryText`: loops of single statements |
| `vector`, `engine` | same names | `docs` table; none | transactional insert, driver glue |

How they interact. A `MATCH` runs `Filter` inside a SQLite query, which calls
`ensureIndex`: index in memory, else blob, else a build; one goroutine of the
process builds (the `cacheEntry`), one process builds (the lock row), the blob
is replaced, the entry is filled. A writer of shadow rows fires a trigger that
deletes the blob in the writer's transaction and calls `vec_invalidate`, which
empties the entry at once, in the writer's process only. `vec.Search` shares
the cache with `MATCH` but neither loads nor stores blobs; its writers call
`InvalidateCache` themselves. `Filter` runs while its own query holds a
connection of the application's pool, and asks for more: of the same pool, or
of one of its own if the table was made with `dbpath=`. `vec_admin` replaces
the blob, over one or the other pool, and touches no memory. `vecsync` triggers sit on the same shadow tables and never meet the
index.

What is hard. Goroutines that miss together and must elect a builder; waiters
whose builder fails; invalidations that overlap builds, each other and the
creation of entries; two keys for one dataset; a lock nobody renews, with
crashes and releases that fail; caches in several processes with one database;
a trigger that acts inside a transaction not yet visible to others; triggers
made before the table they name; queries that hold a connection while they wait
for another; a `BEGIN` and a `COMMIT` that a pool may send to different
connections; constraints that SQLite hands over and no longer tests; a log whose
numbers are allocated before the transaction that logs them; a pruning bound
derived from tree levels. `PROJECT.json` lists each at its line.

What makes each part correct:

- cache and `Search`: one build per key; no lost wake-up; nothing stale stays
  cached once an invalidation has run; an answer includes every write whose
  `InvalidateCache` had returned, and does not go back behind an earlier
  answer; every call returns.
- lock: two processes are not in at once within their leases; a row left behind
  is broken in the end.
- MATCH: one builder over all processes; no waiter without a builder; an answer
  that raced with no write has every committed row; every `MATCH` returns; the
  blob and the memory do not outlive the rows they were built from (they do,
  see section 5).
- change log: numbers unique; a replica that follows the log
  by number ends with the rows of the source (it need not, see section 5).
- cover tree: no point is lost or linked twice; an insertion ends; the search
  returns what a scan would (with a metric, see section 5).
- virtual table: a query returns what its `WHERE` clause asks of its index,
  best first; it fails only with a statement, or for a document of its dataset
  that was deleted or cannot be indexed, scanned or scored; writers are refused
  only while the tables are made; every query returns (with connections enough,
  see section 5).
- `vec_admin` with `dbpath=`: the stored index is of the rows as they are;
  "reindexed" means stored; no transaction is left open and no change of the
  application is swept up in one.

## 2. Modules

| Module | Models | Uses |
|---|---|---|
| `CacheEntry` | `cacheEntry` as a record, its critical sections as operators | |
| `SearchPromise` | abstract: what a caller of `vec.Search` may rely on | |
| `SearchCache` | the cache with `Search` and `InvalidateCache`; implements `SearchPromise` | `CacheEntry` |
| `SearchCacheProofs` | the proofs about it | `SearchCache` |
| `BuildLock` | the lock row | |
| `BuildLockProofs` | the proofs about it | `BuildLock` |
| `MatchIndex` | all of `ensureIndex`, blob, triggers, processes | `CacheEntry`, `BuildLock` |
| `MatchIndexProofs` | the proofs about it | `MatchIndex`, `BuildLockProofs` |
| `VecQuery` | a `SELECT` on a `vec` table from its plan to its last row, the tables it makes, the pool; `vecutil` around it | |
| `VecQueryProofs` | the proofs about it | `VecQuery` |
| `ReindexPromise` | abstract: what whoever reindexes may rely on | |
| `AdminReindex` | `vec_admin`: reindexes over pools, beside writers; implements `ReindexPromise` | |
| `AdminReindexProofs` | the proofs about it | `AdminReindex` |
| `CoverTree` | insertion into the cover tree, one turn of its loop at a time | |
| `CoverTreeSearch` | best-first and depth-first search of the trees so built, their encoding | `CoverTree` |
| `CoverTreeProofs` | the proofs about insertion, searches and the encoding | `CoverTreeSearch` |
| `ShadowLog` | numbering and logging of changes, and the replica | |
| `ShadowLogProofs` | the proofs about its numbers | `ShadowLog` |
| `ShadowLogReplayProofs` | the proof about its replica | `ShadowLogProofs` |
| `MC...` | small instances for TLC | |

**CacheEntry.** An index is the *version* of the rows it was built from, which
is all that freshness needs. A done channel is the set of goroutines that hold
it while it is open; closing it empties the set, so that a goroutine blocks
exactly while it is a member.

**SearchCache.** One action is one critical section, one statement, or one
return, in the order of the code: `LookUp` and `Create` are the two halves of
`getCacheEntry`; `Peek`, `Loop`, `TryBuild`, `WaitForBuild`, `Woken`/`GiveUp`,
`WaitGet` the way to the build; `Recheck`, `ReadGeneration`, `QueryRows`,
`PublishIndex`, `Finish` the build. `InvalidateCache` locks the registry
(`BeginInvalidate`), resets the matching entries one at a time
(`InvalidateOne`) and unlocks (`EndInvalidate`), and searches run in between
except for their registry lookups. `acked`, `served` and `floor` are history
variables for the promise.

**BuildLock.** Time is the age of each timestamp in play, and ages stop at
`StaleAfter`. The clock is read before the transaction (`ReadClock`, then
`Try`), which is where the code reads it. `lease` is the history variable that
says how long ago the row that let a goroutine in was stamped; `cut` says that
another goroutine of the same process released the row under it.

**MatchIndex.** `ensureIndex` with its three loads, the lock, the query, the
persist step that ignores errors, the publish step that checks the generation,
and the deferred calls in their order. A write is `Write` (statement, trigger,
`vec_invalidate`) and `Commit` or `Rollback`. Processes start, crash in any
state and never come back under the same `lockOwnerID`. `BuildLock` is
instantiated and its actions are taken as they are.

**VecQuery.** `Plan` is `BestIndex` and the part of `Filter` that reads its
arguments: a `WHERE` clause is a sequence of constraints, of which the loop in
`BestIndex` keeps the last of each kind, and `Omitted` those that SQLite no
longer tests. `Setup` is one statement of `ensureShadow`, `ensureVectorStorage`
or `ensureVectorStorageLocks`. `GetIndex` is where `MatchIndex` fits in: what
`ensureIndex` returns is an index of the rows at *some* time up to now, which is
all that can be said in general, and all that the properties need. A row has an
embedding and may have `content` or `meta` NULL (README.md:143 inserts such
rows). `Kinds` says what `resolveIndexKind` may choose: both indexes leave out
rows without an embedding, only the brute-force index those of magnitude 0
(`Ranks`), and neither can be built with, or asked about, an embedding of another
length or one that does not decode (`Unfit`). `index[g]` is what such an index
makes of the rows, a score for each row that it ranks (`Scored`). `Lookup` is
one `lookupRow`, `Scan` the plan without `MATCH`, `TakeRow` one row that SQLite
takes from the cursor, `EndQuery` the last one or the `LIMIT`; `Fetch` is the
statement `QueryText` makes per row, with the scan into strings and the cosine
that may fail (`Fit`). A query has a connection from `Plan` to
`EndQuery`, and its statements need another (`CanAsk`). One query embedding is
asked for, not of magnitude 0, so an embedding of its length is its score. The
score that a cover index gives to a row of magnitude 0 comes from a library and
is a parameter, `ZeroScore`: some number, the same for all. That it is one is
assumed; were it not a number, neither the pruning of the tree nor the order of
an answer would mean anything.

**AdminReindex.** `Begin`, `Select`, `Scan`, `Insert`, `Commit` and `Rollback`
are the statements of `reindex`, each on any free connection of the pool it is
given; `Scan` stands for the loop over the rows and `idx.Build`. One connection
at a time has a transaction that writes. `shared` says that the table was made
without `dbpath=`. The triggers of the shadow table are in place. `Promise`
instantiates `ReindexPromise` with what is committed: a reindex of the promise
happens in one step, at the `COMMIT`. Nothing is promised without `dbpath=`, so
there the refinement maps every state to the same idle one.

**CoverTree.** One action is one turn of the loop in `insert`: `Descend` to a
child, `Attach`, `Rise` a level, `NewRoot`. The distance function is a
parameter. Distances are whole numbers of steps and lengths of levels are
compared as fractions, where the code has float32; this is the one place where
the model is more exact than the code. `CoverTreeSearch` takes one action per
node popped or visited; the heap of neighbours is a set, the queue of nodes a
set of which the least is taken, and ties may go either way. The tree is locked
throughout an insertion or a search, so these follow one another. `Reload` takes
the tree through its encoding: `Encoding` is the walk that `encodeNode` makes,
`Children` what `decodeNode` makes of it, with the nodes numbered as they are
read. Both recur by functions, not `RECURSIVE` operators, so that they can be
proved about. An index that was loaded is searched and never inserted into (`Build`
starts a new tree).

**ShadowLog.** One action is one statement with its triggers. A transaction
keeps what it changed and the locks it has taken until it commits or rolls
back. `scheme` says who numbers a change: the helper triggers, or the writer
with `vec_next_scn`, in a statement of its own or in its transaction. The
replica is not in this repository; it is the loop that docs/INGESTION.md
describes, with restarts anywhere in a batch.

## 3. Runs

| Run | Checks | Bounds and why they suffice |
|---|---|---|
| `SearchCache` | `TypeOK`, `SingleFlight`, `WaitersHaveABuilder`, `CacheFresh`, `Inv`, `EveryCallReturns`, `KeepsThePromise` | 2 goroutines, a builder and a waiter who may build next; a writer with 2 writes, so that an invalidation overlaps a build and the next one; 1 fault (a failed query or a cancelled context). Three goroutines, and several keys of one dataset, are left to the theorems |
| `BuildLock` | `ProcessesExclude`, `OrphanIsBroken` | 3 processes, one with 2 goroutines; lease of 2 ticks, so that there is an age below it that is not 0 |
| `MatchIndex` | `TypeOK`, `OneBuilderOverall`, `WaitersHaveABuilder`, `UnracedAnswersAreFresh`, `EveryMatchReturns` | a process with 2 goroutines and a writer, and its successor after a crash, with a goroutine and a writer; 1 write that may commit or roll back, 1 fault, a lease of 1 tick. One process is alive at a time; two at once are left to the theorems |
| `MatchIndexRaces` | violates `NextMatchRebuilds` | 1 process, 2 goroutines, 1 writer |
| `MatchIndexOtherProcess` | violates `UnracedAnswersAreFresh` | 2 processes |
| `VecQuery` | `TypeOK`, `AnswerIsExact`, `QueriesFailForCause`, `RefusalsAreBrief`, `EveryQueryReturns` | 2 goroutines with 6 kinds of query: `QueryText` with a `LIMIT`; two minimum scores and a maximum, in any order; no `MATCH`; no dataset; an embedding or a score that cannot be read. An index of either kind. 3 documents, 2 in one dataset, the third of another length and with NULLs; tables there or not; 1 write out of 7 (a better score, a deletion, another length, NULLs, magnitude 0, no embedding, another dataset), 1 fault; the table has a pool of its own, or shares one of 3 connections |
| `VecQueryTwoConnections` | violates `EveryQueryReturns` | the same with a plain `MATCH` and a shared pool of 2 connections |
| `AdminReindex` | `TypeOK`, `BlobIsCurrent`, `TransactionsEnd`, `AcknowledgedWritesStay`, `ReindexedIsStored`, `SomebodyGoesOn`, `KeepsThePromise`, `EveryReindexReturns` | 2 reindexes, so that one meets the transaction of the other; 3 connections of the application, one more than there are reindexes; 2 writes, one that the reindex sees and one that it misses; 1 fault; with `dbpath=` and without |
| `CoverTree` | `TypeOK`, `NoPointLost`, `OneParent`, `SearchIsExact`, `AnswerIsFull`, `InsertEnds`, `TurnsBringTheEnd`, `TreeSurvivesReload` | 4 points on a line of 9 places, 4 places to the length of level 0, base 2: trees of four levels, new roots above and below the level of the old, equal points; `k` to 2; each tree as built and as loaded from its blob |
| `CoverTreeCosine` | violates `SearchIsExact` | the default distance and base, on 4 directions |
| `ShadowLog` | `TypeOK`, `NumbersOnce`, `OrderedLogReplays` | 2 writers, 2 documents, 6 numbers, batches of 2: a replica falls three batches behind |
| `ShadowLogOutOfOrder` | violates `LogReplays` | the same, with `vec_next_scn` in a statement of its own |

The bounds are `MaxPoints`, `MaxK`, `MaxScn`, `MaxVersion`, `MaxFaults`,
`MaxWrites`, `MaxAlive`, `StaleAfter`, `BatchSize` and the sizes of the sets.
They bound the runs only: the theorems hold for every value of them, but for
`MaxAlive = 1` where a theorem says so. Writers, documents and values of
`ShadowLog` are symmetric; where liveness is checked, nothing is. The deadlock check is off in one run,
`VecQueryTwoConnections`, which is there because the system does stop.

*Fairness.* `SearchCache!FairSpec` and `MatchIndex!FairSpec`: a goroutine that
can go on goes on, which is what the Go scheduler, its mutexes and closed
channels give. Nobody has to call, to write, to fail or to cancel. `MatchIndex`
adds that time passes and that an open transaction ends; `BuildLock!FairSpec`
that time passes and that a goroutine in the retry loop goes on, and assumes
nothing of holders. `CoverTreeSearch!FairSearch`: the loop of `insert`, which is
sequential code, goes on. `VecQuery!FairSpec` and `AdminReindex!FairSpec` are
strong: whoever waits for a connection gets one if one becomes free again and
again, since `database/sql` keeps those who wait in a queue and hands a
connection that is given back to the first. Crashes are never required.

## 4. Theorems

`SearchCacheProofs`, for all goroutines, writers, keys, datasets and bounds,
from `NoIndexAssumption`, `DatasetOfAssumption` and `NilAssumption`:

- `TypeCorrect`, `OneBuildPerKey`, `NoLostWakeUp`, `CacheStaysFresh`: the
  safety properties of the run;
- `CacheImplementsPromise`: `Spec => KeepsThePromise`, the refinement.

The properties are not inductive. `Inv` strengthens them by parts: `Registered`
(a key has one entry for good, and invalidations only visit registered ones),
`Flights` (`SingleFlight`, and that the entry is empty and its channel is open
exactly while somebody builds), `Writes` (writes in progress have versions of
their own), `CacheFresh` with `BuildFresh` (what a builder has read is as fresh
as the cache must be *unless the generation has moved*, which is why the check
in `Publish` suffices), and `Order` (no search gets behind another of its key,
which the promise needs). The heart is `StepFresh`: a write newer than an index
in the cache always has a writer who has yet to reset that entry.

`BuildLockProofs`, for all goroutines, processes and leases: `Invariance` and
`MutualExclusion`. The invariant, types aside, is `RowBacksProtected`, which no
run checks for itself, since `ProcessesExclude` is what follows from it: a goroutine within its
lease owns the row through its process and the row is exactly as old as the
lease, so a takeover, which needs an older row, comes after the lease.

`MatchIndexProofs`, for all goroutines and writers spread over all finite sets
of processes, all leases and bounds:

- `TypeCorrect`, `OneBuilder` and `NoLostWakeUp`, with any number of processes
  alive at once. The invariant `BuildInv` puts three things side by side:
  where a goroutine is in `ensureIndex`, where it is in `acquireIndexBuildLock`
  (`LockFollows`), and who holds the done channel of its process
  (`OneBuilderEach`). A step of `MatchIndex` is a step of `BuildLock` or leaves
  the row alone, so the invariant of the lock row is taken from
  `BuildLockProofs`: within one process `startBuild` keeps goroutines apart,
  between processes the row does.
- `LockIsKept`: `Spec => Lock!Spec`. Whatever `ensureIndex` does with the lock
  row, failed releases and crashes included, `BuildLock` does.
- `IndexesAreOfRows`: every index in the blob, in memory or in the hands of a
  goroutine is of rows that were committed once, not of the draft of a
  transaction that may yet be rolled back. This is what `VecQuery` takes for
  granted of `ensureIndex` in `GetIndex`.
- `AloneIsFresh`, with `MaxAlive = 1`: a `MATCH` that no write raced has all rows
  committed when it began. The parts are `OneAlive`, `WriteAlone` (an open
  write that no `MATCH` has overlapped is alone, with nothing in memory) and
  `AllFresh` (while nothing has raced, whatever is in the blob, in memory or in
  the hands of a goroutine is of the rows as they are). It
  cannot do without the assumption: `MatchIndexOtherProcess` is the
  counterexample with two processes.

`CoverTreeProofs`, for all vectors, all distance functions (metrics or not),
all bases and any number of insertions: `TypeCorrect`, `EveryPointReached`,
`TreeShape`. `NoPointLost` says that a set of nodes that has the root and the
children of its members has all nodes; taken with `OneParent` and `TypeOK` it is
inductive. The argument: a set closed after a point is linked is, without the
point, closed before.

`TurnsEnd` says of the loop of `insert` that no turn is in vain
(`TurnsBringTheEnd`): it ends, or goes down into a smaller subtree, or stays at its
node and goes up towards the level of that node. Going down leaves fewer nodes ahead because a
kid's subtree lies in its parent's and does not have the parent (the tree has
no cycle); from the level of the node on, the
point is attached or a root is made. This is `InsertEnds` but for the
fairness.

About the searches, for the same and any number of neighbours, of a tree that
was built and of one that was loaded: `AnswersFull`, for any distance function
and either bound, and `SearchesExact`, for a metric (the assumption `Metric`)
and the bounds of subtrees. `Ranked`, that the tree has no cycle, makes the
radius of `ensureRadius` well defined (`RadiusDefined`), and with the triangle
inequality no point of a subtree is farther from its node than the radius
(`RadiusCovers`). The invariant of a search is `Pending`: the nodes in the
queue, or on the stack, have subtrees apart from each other and from the heap,
and a point that is in none of them is *settled*, which means that the heap is
full and has no use for it. `VisitKeeps`, `SkipKeeps` and `EndKeeps` say so of
each step, for both searches at once.

About the encoding: `ReloadKeepsTree` (`TreeSurvivesReload`) and `LoadedTree`,
for any tree that was built. The lemma `Recursion` gives what the library's
induction would: a function that refers to lower ranks only exists, since the
least rank up to which there is none cannot be. `Walked` uses it for the walk of
`encodeNode`, `AfterDefined` for the offsets of `decodeNode`. `Flattened` and
`WalkLayout` say where the walk puts each subtree, `WalkAligned`, `WalkParented`,
`WalkOnce` and `WalkMeetsAll` that it meets every node once, after its parent.
`SkipNodes` is the heart: reading a subtree off its counts ends where writing
it ended, so that `ChildrenAre` finds the next child there. `ReloadInv` and
`ReloadEncoding` take the invariant and the encoding over to the loaded tree.

`VecQueryProofs`, for all documents, `WHERE` clauses, limits, pools and writers:
`TypeCorrect`, `AnswersAreExact`, `FailuresHaveCauses`, `RefusalsEnd`. The second
rests on what `BestIndex` takes over being what `Filter` does, for every
sequence of constraints that `Filter` can read, and on the cursor being ordered
by score at every row. `FailuresHaveCauses` goes through the three places where
a query may fail without a failing statement, `GetIndex`, `Lookup` and `Fetch`,
and finds the document: it rests on `NothingElseGone` (a document that there was
is there unless it was deleted, so no replacement makes a lookup fail) and on
what an index ranks having been ranked in rows that there were. The last rests on the order of the statements of the set-up, of which the tables and
triggers that exist are always the first few. `QueriesGoOn`: queries never all
wait for connections, with one connection for a table with `dbpath=` and with
more than there are queries otherwise; `VecQueryTwoConnections` shows that as
many as there are queries are too few. `QueriesEnd`: each step of a query takes
it to a later stage or leaves its loop fewer turns, and no step of others sets
it back (they may make tables for it, which helps). The two together are
`EveryQueryReturns` but for the fairness.

`AdminReindexProofs`, for all reindexes, connections and changes, with
`dbpath=`: `TypeCorrect`, `BlobStaysCurrent`, `NoTransactionLeft`, `WritesStay`,
`SuccessIsStored`. The invariant says that whoever is between `BEGIN` and
`ROLLBACK` holds the transaction on a connection that is its own, and that what
it has read are the rows as they are.

`ReindexIsAtomic` is the refinement, `Spec => KeepsThePromise`: `BEGIN
IMMEDIATE` keeps changes out from the first statement to the `COMMIT`, so that
the step of the promise can be taken there, and every other end leaves what is
committed alone and tells of an error. `NoneLeftWaiting` is of both kinds of
tables, for finite sets of reindexes and connections: with `dbpath=` nobody ever
waits for a connection, and without it one reindex can go on as long as there
are more connections than reindexes, because whoever holds two is reading
rows and need not wait.

`ShadowLogProofs`, for all writers, documents, values and numbers, in all three
schemes: `TypeCorrect` and `UniqueNumbers`. The invariant adds `Alone` (who has
advanced `vec_dataset_scn` is the only one in a transaction) and `Behind` (no
number logged or held lies ahead of `vec_dataset_scn` as its transaction sees
it), so that a number newly taken is greater than all there are.

`ShadowLogReplayProofs`, for the same and any size of batch and any restarts:
`ReplicaEqualsSource`, which is `OrderedLogReplays`. `ReplayInv` adds, where a
number is taken in the transaction that logs it, four parts. `InOrder`: a
transaction logs beyond all that is committed, so a commit puts nothing behind
a replica. `RowsLogged`: a row is the latest entry of its document, committed
or as its transaction sees it. `BatchOrder`: a batch leaves nothing out.
`RowsApplied`: a row of the replica is what the log gave up to some number that
is not below any entry of that document the replica has passed; after a restart
in the middle of a batch it may be above the checkpoint, which is why the
number differs from row to row. With `"autocommit"`, `InOrder` fails, and so
does the property (`ShadowLogOutOfOrder`).

Out of the provers' reach and checked by TLC only is liveness
(`EveryCallReturns`, `OrphanIsBroken`, `EveryMatchReturns`, `EveryQueryReturns`,
`EveryReindexReturns`, `InsertEnds`); for three of them the theorems above have
what is left without fairness. Every other property of a passing run is a
theorem.

## 5. Where the code and its documents part

- `MatchIndexRaces`: README.md says the triggers force the next `MATCH` to
  rebuild. A `MATCH` that overlaps a write may put an old index back: into
  `vector_storage` (`INSERT OR REPLACE` is not tied to the generation), or into
  memory (`setSharedIndex` after a load is not either; and `vec_invalidate`
  runs before the commit, so the new generation can be read with the old rows).
- `MatchIndexOtherProcess`: README.md says no manual steps are needed. The
  trigger reaches the memory of its own process only.
- `CoverTreeCosine`: `index.go` says `Query` performs a cosine kNN search. The
  search prunes by the triangle inequality, which 1 less the cosine does not
  satisfy, so it may miss the nearest neighbour with three points and default
  settings. With a metric it is exact (`CoverTree`).
- `ShadowLogOutOfOrder`: `shadow_sync.ddl` says replicas can replay changes
  deterministically. They can if `vec_next_scn` runs in the transaction that
  writes the row, which the file does not ask for; otherwise numbers may be
  committed out of order and a replica misses a change for good.

- `VecQueryTwoConnections`: a test says that a second connection lets `Filter`
  query "safely". Two `MATCH`es at once over a pool of two each hold one and wait
  for another, under `context.Background()`, for ever. `dbpath=` avoids it, and
  so does a pool with more connections than queries (`VecQuery`).

Four more things were met on the way, of which no document, comment or test
says otherwise, so no run calls them violations:

- `vec_admin` without `dbpath=` may begin its transaction on one connection and
  commit on another: `TransactionsEnd`, `AcknowledgedWritesStay`,
  `BlobIsCurrent` and `ReindexedIsStored` then fail, which is why they are asked
  of `dbpath=` only. That every reindex returns holds either way.
- `match_score > x` is taken over from SQLite as if it were `>=`, so a row whose
  score is `x` passes; `AnswerIsExact` leaves such rows open.
- A document deleted after the index was built makes a `MATCH` fail (`lookupRow`
  returns `sql.ErrNoRows`), and one deleted between the `MATCH` and the
  statements of `QueryText` makes `QueryText` fail. So does a document that
  `QueryText` cannot scan (`content` or `meta` NULL) or score (magnitude 0, which
  `index=cover` ranks and `index=brute` does not), and every `MATCH` of a dataset
  with an embedding of another length. `QueriesFailForCause` says that only
  these do, besides statements that fail: no replacement, no other query, nothing
  in another dataset, and for a plain `MATCH` neither NULLs nor magnitude 0.
- Which of the two indexes `index=auto` picks depends on the number of rows, so
  a dataset that grows may begin to rank its rows of magnitude 0, and `QueryText`
  to fail for them.

Under `BoundLevel` a search may miss neighbours too, because `insert` starts at
level 0 and puts a new root one level above its last node however far away the
old one is; README.md says as much ("slightly lower recall"), so only
`AnswerIsFull` is asked of it.

## 6. Not modelled

- *Set-up of arguments*: parsing of options and of `reindex:` targets, and the
  resolution of database paths, of which only the effect is modelled (several
  keys for one dataset in `SearchCache`). It changes no state that others see.
- *Encodings*: embeddings, blobs and the legacy formats, byte by byte. The walk
  and the numbering of the cover tree's encoding are in `CoverTreeSearch`; a blob
  that cannot be read counts as one that is not there, as in the code.
- *Arithmetic*: cosine and L2 in float32, magnitudes, the scores of the
  brute-force index, and values that are not numbers. `Distance`, the scores of
  `VecQuery` and `ZeroScore` are parameters.
- *`vector`*: one transaction with a deferred rollback, and nothing beside it.
- *`engine`*: opens a database and registers functions.
- *`internal/cover/cover.go`*: a placeholder nobody calls.
- *Loading and searching composed*: `VecQuery` takes any earlier rows for its
  index, and `IndexesAreOfRows` proves of `MatchIndex` that they are; the product
  of the two is beyond a small instance.
- *Triggers that are not there yet*: in `MatchIndex` and `AdminReindex` they are
  in place from the start. A table whose first `MATCH` is still to come has
  none, so what `vec_admin` stores for it is not deleted when its rows change
  (listed as a hazard without a property).

Open, for whoever goes on: `vector_storage` of several shadow tables with one
`AdminReindex` before the first `MATCH`, and the progress of `SearchCache` and
`MatchIndex` stated without fairness, as it is of queries and reindexes.
