---------------------------- MODULE SearchCache ----------------------------
(***************************************************************************)
(* The shared index cache of vec/api.go as vec.Search uses it: goroutines  *)
(* of one process that search through getCacheEntry and the read-only path *)
(* of ensureIndex, and writers that change the shadow rows of a dataset    *)
(* and then call InvalidateCache.                                          *)
(*                                                                         *)
(* A dataset is the set of rows of one shadow table with one dataset_id;   *)
(* its content is the number of writes committed so far.  A key is a cache *)
(* key.  Several keys may name the same dataset: the key holds the path    *)
(* cachedDbPath reports, which falls back to "main" when the query for it  *)
(* fails and otherwise depends on how the file was opened.                 *)
(*                                                                         *)
(* One action is one critical section, one SQL statement, or one return.   *)
(***************************************************************************)
EXTENDS CacheEntry, FiniteSets

CONSTANTS
  Writers,     \* who changes rows and invalidates afterwards
  Keys,        \* cache keys
  Datasets,    \* datasets of shadow rows
  DatasetOf,   \* DatasetOf[k]: the dataset key k is about
  Nil,         \* no entry, no key, no dataset, or nobody
  MaxVersion,  \* bound: writes per dataset
  MaxFaults    \* bound: cancellations and failed queries

\* The entry goroutine g allocates when it is the one to register key k.
Entries == Goroutines \X Keys

ASSUME DatasetOfAssumption == DatasetOf \in [Keys -> Datasets]
ASSUME NilAssumption == Nil \notin Entries \cup Keys \cup Datasets \cup Writers

VARIABLES
  version,    \* version[d]: writes committed to d
  acked,      \* history: newest write of d whose InvalidateCache has returned
  served,     \* history: newest index a search through k has returned from
  wpc,        \* wpc[w]: what writer w does next
  wdata,      \* wdata[w]: the dataset w has written
  wver,       \* wver[w]: the version w has made of it
  todo,       \* todo[w]: entries the loop of InvalidateCache has yet to reset
  mu,         \* who has locked sharedCache.mu for more than one step
  byKey,      \* sharedCache.byKey
  entry,      \* entry[e]: the cacheEntry at e
  pc,         \* pc[g]: what goroutine g does next
  key,        \* key[g]: the cache key of its search
  ent,        \* ent[g]: the entry it got for that key
  gen,        \* gen[g]: the generation it has read
  hold,       \* hold[g]: the index it has in its hands, or answered with
  floor,      \* history: the oldest index its search may answer with
  cancelled,  \* cancelled[g]: its context is done
  faults      \* faults so far, at most MaxFaults

rows == <<version, acked>>
writing == <<wpc, wdata, wver, todo>>
cache == <<mu, byKey, entry>>
call == <<key, floor, served>>
environment == <<cancelled, faults>>
vars == <<rows, writing, cache, call, environment, pc, ent, gen, hold>>

Newest(a, b) == IF a >= b THEN a ELSE b

Init ==
  /\ version = [d \in Datasets |-> 0]
  /\ acked = [d \in Datasets |-> 0]
  /\ served = [k \in Keys |-> 0]
  /\ wpc = [w \in Writers |-> "idle"]
  /\ wdata = [w \in Writers |-> Nil]
  /\ wver = [w \in Writers |-> 0]
  /\ todo = [w \in Writers |-> {}]
  /\ mu = Nil
  /\ byKey = [k \in Keys |-> Nil]
  /\ entry = [e \in Entries |-> NewCacheEntry]
  /\ pc = [g \in Goroutines |-> "idle"]
  /\ key = [g \in Goroutines |-> Nil]
  /\ ent = [g \in Goroutines |-> Nil]
  /\ gen = [g \in Goroutines |-> 0]
  /\ hold = [g \in Goroutines |-> NoIndex]
  /\ floor = [g \in Goroutines |-> 0]
  /\ cancelled = [g \in Goroutines |-> FALSE]
  /\ faults = 0

-----------------------------------------------------------------------------
(* Mutated forms: plausible slips in the code below, used to show that the *)
(* properties notice them.                                                 *)

CreateUnchecked(g) ==
  /\ pc[g] = "create"
  /\ mu = Nil
  /\ byKey' = [byKey EXCEPT ![key[g]] = <<g, key[g]>>]
  /\ ent' = [ent EXCEPT ![g] = <<g, key[g]>>]
  /\ pc' = [pc EXCEPT ![g] = "peek"]
  /\ UNCHANGED <<rows, writing, mu, entry, call, environment, gen, hold>>

-----------------------------------------------------------------------------
(* vec.Search: the call, getCacheEntry, and ensureIndex up to the build.   *)

Goto(g, label) == pc' = [pc EXCEPT ![g] = label]

\* Search is called with a live context.
Call(g, k) ==
  /\ pc[g] = "idle"
  /\ Goto(g, "lookup")
  /\ key' = [key EXCEPT ![g] = k]
  /\ floor' = [floor EXCEPT ![g] = Newest(acked[DatasetOf[k]], served[k])]
  /\ hold' = [hold EXCEPT ![g] = NoIndex]
  /\ UNCHANGED <<rows, writing, cache, served, environment, ent, gen>>

\* getCacheEntry: the lookup under the read lock.
LookUp(g) ==
  /\ pc[g] = "lookup"
  /\ mu = Nil
  /\ ent' = [ent EXCEPT ![g] = byKey[key[g]]]
  /\ Goto(g, IF byKey[key[g]] = Nil THEN "create" ELSE "peek")
  /\ UNCHANGED <<rows, writing, cache, call, environment, gen, hold>>

\* getCacheEntry: the second lookup, under the write lock, and the insertion.
Create(g) ==
  /\ pc[g] = "create"
  /\ mu = Nil
  /\ LET k == key[g]
         e == IF byKey[k] = Nil THEN <<g, k>> ELSE byKey[k]
     IN /\ byKey' = [byKey EXCEPT ![k] = e]
        /\ ent' = [ent EXCEPT ![g] = e]
  /\ Goto(g, "peek")
  /\ UNCHANGED <<rows, writing, mu, entry, call, environment, gen, hold>>

\* entry.get(): return the index if there is one, else go on.
Get(g, found, empty) ==
  /\ hold' = [hold EXCEPT ![g] = entry[ent[g]].idx]
  /\ Goto(g, IF entry[ent[g]].idx # NoIndex THEN found ELSE empty)
  /\ UNCHANGED <<rows, writing, cache, call, environment, ent, gen>>

Peek(g) == pc[g] = "peek" /\ Get(g, "respond", "loop")
Loop(g) == pc[g] = "loop" /\ Get(g, "respond", "start")

TryBuild(g) ==
  /\ pc[g] = "start"
  /\ IF CanStartBuild(entry[ent[g]])
     THEN /\ entry' = [entry EXCEPT ![ent[g]] = StartBuild(@)]
          /\ Goto(g, "recheck")
     ELSE /\ Goto(g, "wait")
          /\ UNCHANGED entry
  /\ UNCHANGED <<rows, writing, mu, byKey, call, environment, ent, gen, hold>>

\* waitForBuild: read done and building; block only if a build is running.
WaitForBuild(g) ==
  /\ pc[g] = "wait"
  /\ IF entry[ent[g]].building
     THEN /\ entry' = [entry EXCEPT ![ent[g]] = HoldDone(@, g)]
          /\ Goto(g, "blocked")
     ELSE /\ Goto(g, "waitget")
          /\ UNCHANGED entry
  /\ UNCHANGED <<rows, writing, mu, byKey, call, environment, ent, gen, hold>>

\* The select of waitForBuild: the done channel is closed.
Woken(g) ==
  /\ pc[g] = "blocked"
  /\ g \notin entry[ent[g]].done
  /\ Goto(g, "waitget")
  /\ UNCHANGED <<rows, writing, cache, call, environment, ent, gen, hold>>

\* The select of waitForBuild: the context is done.
GiveUp(g) ==
  /\ pc[g] = "blocked"
  /\ cancelled[g]
  /\ entry' = [entry EXCEPT ![ent[g]] = DropDone(@, g)]
  /\ Goto(g, "respond")
  /\ UNCHANGED <<rows, writing, mu, byKey, call, environment, ent, gen, hold>>

\* The end of waitForBuild returns e.get() and ctx.Err(); the latter wins.
WaitGet(g) ==
  /\ pc[g] = "waitget"
  /\ IF cancelled[g]
     THEN /\ Goto(g, "respond")
          /\ UNCHANGED <<rows, writing, cache, call, environment, ent, gen, hold>>
     ELSE Get(g, "respond", "loop")

-----------------------------------------------------------------------------
(* ensureIndex: the build, between startBuild and the deferred finishBuild.*)

Recheck(g) == pc[g] = "recheck" /\ Get(g, "finish", "readgen")

ReadGeneration(g) ==
  /\ pc[g] = "readgen"
  /\ gen' = [gen EXCEPT ![g] = entry[ent[g]].generation]
  /\ Goto(g, "query")
  /\ UNCHANGED <<rows, writing, cache, call, environment, ent, hold>>

\* The SELECT over the shadow rows sees one snapshot of them; from there to
\* the built index nothing is shared.
QueryRows(g) ==
  /\ pc[g] = "query"
  /\ hold' = [hold EXCEPT ![g] = version[DatasetOf[key[g]]]]
  /\ Goto(g, "publish")
  /\ UNCHANGED <<rows, writing, cache, call, environment, ent, gen>>

\* The SELECT, a row of it or the build fails: always possible once the
\* context is done, otherwise a fault of its own.
QueryFails(g) ==
  /\ pc[g] = "query"
  /\ IF cancelled[g]
     THEN UNCHANGED faults
     ELSE faults < MaxFaults /\ faults' = faults + 1
  /\ Goto(g, "finish")
  /\ UNCHANGED <<rows, writing, cache, call, cancelled, ent, gen, hold>>

PublishIndex(g) ==
  /\ pc[g] = "publish"
  /\ entry' = [entry EXCEPT ![ent[g]] = Publish(@, hold[g], gen[g])]
  /\ Goto(g, "finish")
  /\ UNCHANGED <<rows, writing, mu, byKey, call, environment, ent, gen, hold>>

\* The deferred finishBuild runs on every way out of the build.
Finish(g) ==
  /\ pc[g] = "finish"
  /\ entry' = [entry EXCEPT ![ent[g]] = FinishBuild(@)]
  /\ Goto(g, "respond")
  /\ UNCHANGED <<rows, writing, mu, byKey, call, environment, ent, gen, hold>>

-----------------------------------------------------------------------------
(* vec.Search: the return.                                                 *)

Return(g) ==
  /\ pc[g] = "respond"
  /\ Goto(g, "idle")
  /\ key' = [key EXCEPT ![g] = Nil]
  /\ ent' = [ent EXCEPT ![g] = Nil]
  /\ gen' = [gen EXCEPT ![g] = 0]
  /\ floor' = [floor EXCEPT ![g] = 0]
  /\ cancelled' = [cancelled EXCEPT ![g] = FALSE]
  /\ UNCHANGED <<rows, writing, cache, faults>>

\* Search returns the matches of the index; ctx.Err() was read just before.
Answer(g) ==
  /\ Return(g)
  /\ hold[g] # NoIndex
  /\ served' = [served EXCEPT ![key[g]] = Newest(@, hold[g])]
  /\ UNCHANGED hold

\* Search returns an error: of ensureIndex, of ctx.Err(), or of idx.Query,
\* which rejects a query of another dimension.
Fail(g) ==
  /\ Return(g)
  /\ hold' = [hold EXCEPT ![g] = NoIndex]
  /\ UNCHANGED served

\* The caller cancels, or its deadline passes.
Cancel(g) ==
  /\ pc[g] # "idle"
  /\ ~cancelled[g]
  /\ faults < MaxFaults
  /\ cancelled' = [cancelled EXCEPT ![g] = TRUE]
  /\ faults' = faults + 1
  /\ UNCHANGED <<rows, writing, cache, call, pc, ent, gen, hold>>

-----------------------------------------------------------------------------
(* A writer: commit, then InvalidateCache.                                 *)

Commit(w, d) ==
  /\ wpc[w] = "idle"
  /\ version[d] < MaxVersion
  /\ version' = [version EXCEPT ![d] = @ + 1]
  /\ wpc' = [wpc EXCEPT ![w] = "committed"]
  /\ wdata' = [wdata EXCEPT ![w] = d]
  /\ wver' = [wver EXCEPT ![w] = version[d] + 1]
  /\ UNCHANGED <<acked, todo, cache, call, environment, pc, ent, gen, hold>>

\* What an invalidation of dataset d may reach.  The empty dataset_id means
\* every dataset of the table, and the suffix of a key does not tell files
\* apart: more datasets than d may match, never fewer.
Scopes(d) == {{d}, Datasets}

\* The entries whose keys match.
Matches(scope) ==
  {byKey[k] : k \in {kk \in Keys : DatasetOf[kk] \in scope}} \ {Nil}

\* InvalidateCache locks the registry and finds the matching entries.
BeginInvalidate(w) ==
  /\ wpc[w] = "committed"
  /\ mu = Nil
  /\ mu' = w
  /\ \E scope \in Scopes(wdata[w]) : todo' = [todo EXCEPT ![w] = Matches(scope)]
  /\ wpc' = [wpc EXCEPT ![w] = "invalidating"]
  /\ UNCHANGED <<rows, wdata, wver, byKey, entry, call, environment,
                 pc, ent, gen, hold>>

\* The body of its loop: entry.set(nil), each under the lock of that entry.
InvalidateOne(w, e) ==
  /\ wpc[w] = "invalidating"
  /\ e \in todo[w]
  /\ entry' = [entry EXCEPT ![e] = SetIndex(@, NoIndex)]
  /\ todo' = [todo EXCEPT ![w] = @ \ {e}]
  /\ UNCHANGED <<rows, wpc, wdata, wver, mu, byKey, call, environment,
                 pc, ent, gen, hold>>

EndInvalidate(w) ==
  /\ wpc[w] = "invalidating"
  /\ todo[w] = {}
  /\ mu' = Nil
  /\ acked' = [acked EXCEPT ![wdata[w]] = Newest(@, wver[w])]
  /\ wpc' = [wpc EXCEPT ![w] = "idle"]
  /\ wdata' = [wdata EXCEPT ![w] = Nil]
  /\ wver' = [wver EXCEPT ![w] = 0]
  /\ UNCHANGED <<version, todo, byKey, entry, call, environment,
                 pc, ent, gen, hold>>

-----------------------------------------------------------------------------
\* Everything a goroutine does once it has called Search.
Step(g) ==
  \/ LookUp(g) \/ Create(g) \/ Peek(g) \/ Loop(g) \/ TryBuild(g)
  \/ WaitForBuild(g) \/ Woken(g) \/ GiveUp(g) \/ WaitGet(g)
  \/ Recheck(g) \/ ReadGeneration(g) \/ QueryRows(g) \/ QueryFails(g)
  \/ PublishIndex(g) \/ Finish(g) \/ Answer(g) \/ Fail(g)

\* Everything a writer does once it has called InvalidateCache.
Invalidate(w) ==
  \/ BeginInvalidate(w)
  \/ \E e \in todo[w] : InvalidateOne(w, e)
  \/ EndInvalidate(w)

Next ==
  \/ \E g \in Goroutines :
       \/ \E k \in Keys : Call(g, k)
       \/ Step(g)
       \/ Cancel(g)
  \/ \E w \in Writers :
       \/ \E d \in Datasets : Commit(w, d)
       \/ Invalidate(w)

Spec == Init /\ [][Next]_vars

\* The Go scheduler runs every goroutine that can go on, and a mutex or a
\* closed channel lets one through as soon as it can; nobody has to call.
FairSpec ==
  /\ Spec
  /\ \A g \in Goroutines : WF_vars(Step(g))
  /\ \A w \in Writers : WF_vars(Invalidate(w))

-----------------------------------------------------------------------------
Building == {"recheck", "readgen", "query", "publish", "finish"}
Labels == Building \cup {"idle", "lookup", "create", "peek", "loop", "start",
                         "wait", "blocked", "waitget", "respond"}

\* Every variable stays in its range, and a goroutine past getCacheEntry has
\* the entry that is registered for its key.
TypeOK ==
  /\ version \in [Datasets -> Nat]
  /\ acked \in [Datasets -> Nat]
  /\ served \in [Keys -> Nat]
  /\ wpc \in [Writers -> {"idle", "committed", "invalidating"}]
  /\ wdata \in [Writers -> Datasets \cup {Nil}]
  /\ wver \in [Writers -> Nat]
  /\ todo \in [Writers -> SUBSET Entries]
  /\ mu \in Writers \cup {Nil}
  /\ byKey \in [Keys -> Entries \cup {Nil}]
  /\ entry \in [Entries -> EntryState]
  /\ pc \in [Goroutines -> Labels]
  /\ key \in [Goroutines -> Keys \cup {Nil}]
  /\ ent \in [Goroutines -> Entries \cup {Nil}]
  /\ gen \in [Goroutines -> Nat]
  /\ hold \in [Goroutines -> Index]
  /\ floor \in [Goroutines -> Nat]
  /\ cancelled \in [Goroutines -> BOOLEAN]
  /\ faults \in Nat
  /\ \A w \in Writers : (wdata[w] = Nil) <=> (wpc[w] = "idle")
  /\ \A g \in Goroutines :
       /\ (key[g] = Nil) <=> (pc[g] = "idle")
       /\ (ent[g] = Nil) <=> (pc[g] \in {"idle", "lookup", "create"})

\* At most one goroutine builds the index of a key, whoever registered the
\* entry first, and the building flag is up exactly while one does.
SingleFlight ==
  \A g \in Goroutines : pc[g] \in Building =>
    /\ entry[ent[g]].building
    /\ \A h \in Goroutines : pc[h] \in Building /\ key[h] = key[g] => h = g

\* No lost wake-up: a goroutine that waits on an open done channel waits for
\* a build that somebody is running, and that will close the channel.
WaitersHaveABuilder ==
  \A g \in Goroutines, e \in Entries : g \in entry[e].done =>
    \E h \in Goroutines : pc[h] \in Building /\ ent[h] = e

\* Writer w has made version v of d and has yet to reset entry e for it.
WillReset(w, d, v, e) ==
  /\ wdata[w] = d
  /\ wver[w] = v
  /\ wpc[w] = "committed" \/ e \in todo[w]

\* Every write newer than v will still reset the entry of k.
ResetsToCome(v, k) ==
  \A n \in v + 1 .. version[DatasetOf[k]] :
    \E w \in Writers : WillReset(w, DatasetOf[k], n, byKey[k])

\* An index in the cache lacks a committed write only while the writer has
\* yet to reset the entry: a build that began before the invalidation never
\* puts what it has read into the cache after it.
CacheFresh ==
  \A k \in Keys : byKey[k] # Nil /\ entry[byKey[k]].idx # NoIndex =>
    ResetsToCome(entry[byKey[k]].idx, k)

\* The promise of SearchPromise: an answer is never older than a write whose
\* invalidation had returned, nor than an answer already given through the
\* same key, when the search was called.
Promise == INSTANCE SearchPromise WITH
  request <- [g \in Goroutines |->
    IF key[g] = Nil THEN [key |-> NoIndex, floor |-> NoIndex]
                    ELSE [key |-> key[g], floor |-> floor[g]]],
  answer <- [g \in Goroutines |-> IF key[g] = Nil THEN hold[g] ELSE NoIndex]

KeepsThePromise == Promise!Spec

\* Every search returns: no waiter is stranded by a build that failed, was
\* cancelled, or was overtaken by an invalidation.
EveryCallReturns ==
  \A g \in Goroutines : pc[g] # "idle" ~> pc[g] = "idle"

-----------------------------------------------------------------------------
(* The inductive invariant: what the properties above rest on.             *)

\* A key has one entry for good, made for that key; an invalidation has only
\* registered entries to reset, and an entry nobody has registered is as
\* newCacheEntry left it.
Registered ==
  /\ \A k \in Keys : byKey[k] # Nil => \E g \in Goroutines : byKey[k] = <<g, k>>
  /\ \A g \in Goroutines : ent[g] # Nil => ent[g] = byKey[key[g]]
  /\ \A w \in Writers : \A e \in todo[w] : \E k \in Keys : byKey[k] = e
  /\ \A g \in Goroutines, k \in Keys :
       byKey[k] # <<g, k>> => entry[<<g, k>>] = NewCacheEntry

\* A build in progress is the only one for its entry, no index appears in the
\* entry until it publishes, and the done channel is open only meanwhile.
Flights ==
  /\ SingleFlight
  /\ \A e \in Entries : entry[e].building =>
       \E h \in Goroutines : pc[h] \in Building /\ ent[h] = e
  /\ \A e \in Entries : entry[e].done # {} => entry[e].building
  /\ \A g \in Goroutines :
       pc[g] \in Building \ {"finish"} => entry[ent[g]].idx = NoIndex

\* A write in progress has a version of its own, not acknowledged yet.
Writes ==
  /\ \A d \in Datasets : acked[d] <= version[d]
  /\ \A w \in Writers : wdata[w] # Nil =>
       /\ wver[w] <= version[wdata[w]]
       /\ wver[w] # acked[wdata[w]]
       /\ \A x \in Writers : wdata[x] = wdata[w] /\ wver[x] = wver[w] => x = w

\* What a builder has read is as fresh as the cache must be, unless the
\* generation has moved on since it looked.
BuildFresh ==
  \A g \in Goroutines :
    /\ pc[g] = "publish" => hold[g] # NoIndex
    /\ pc[g] \in {"query", "publish"} => gen[g] <= entry[ent[g]].generation
    /\ pc[g] = "publish" /\ gen[g] = entry[ent[g]].generation =>
         ResetsToCome(hold[g], key[g])

\* A search in progress has an index only once it has read one, and that one
\* lies between its floor and the rows; its floor is something acknowledged
\* or answered.
HoldsInRange ==
  /\ \A k \in Keys : served[k] <= version[DatasetOf[k]]
  /\ \A g \in Goroutines :
       /\ pc[g] \notin {"publish", "finish", "respond", "idle"} => hold[g] = NoIndex
       /\ key[g] # Nil =>
            \/ floor[g] <= acked[DatasetOf[key[g]]]
            \/ floor[g] <= served[key[g]]
       /\ key[g] # Nil /\ hold[g] # NoIndex =>
            hold[g] \in floor[g] .. version[DatasetOf[key[g]]]

\* Index v is as new as every index a search through k has or has returned.
NewestFor(k, v) ==
  /\ served[k] <= v
  /\ \A g \in Goroutines : key[g] = k /\ hold[g] # NoIndex => hold[g] <= v

\* No search can get behind another one of its key: the cached index and the
\* index a builder is about to publish are the newest anybody has.
CacheIsNewest ==
  \A k \in Keys : byKey[k] # Nil /\ entry[byKey[k]].idx # NoIndex =>
    /\ NewestFor(k, entry[byKey[k]].idx)
    /\ entry[byKey[k]].idx <= version[DatasetOf[k]]

BuildIsNewest ==
  \A g \in Goroutines : pc[g] = "publish" => NewestFor(key[g], hold[g])

Order == HoldsInRange /\ CacheIsNewest /\ BuildIsNewest

Inv ==
  /\ TypeOK
  /\ Registered
  /\ Flights
  /\ Writes
  /\ CacheFresh
  /\ BuildFresh
  /\ Order

=============================================================================
