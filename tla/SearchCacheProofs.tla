------------------------- MODULE SearchCacheProofs -------------------------
(***************************************************************************)
(* Proofs about SearchCache, for any goroutines, writers, keys, datasets   *)
(* and bounds.  The invariant Inv is proved conjunct by conjunct, each     *)
(* from the ones before it: TypeOK, Registered, Flights, Writes,           *)
(* CacheFresh with BuildFresh, Order.  The promise follows from Inv.       *)
(***************************************************************************)
EXTENDS SearchCache, TLAPS

-----------------------------------------------------------------------------
(* The critical sections of a cacheEntry.                                  *)

\* Every critical section takes a cacheEntry to a cacheEntry.
LEMMA EntryClosed ==
  ASSUME NEW e \in EntryState
  PROVE  /\ SetIndex(e, NoIndex) \in EntryState
         /\ StartBuild(e) \in EntryState
         /\ \A g \in Goroutines : /\ HoldDone(e, g) \in EntryState
                                  /\ DropDone(e, g) \in EntryState
         /\ FinishBuild(e) \in EntryState
         /\ \A i \in Index, n \in Nat : Publish(e, i, n) \in EntryState
<1>1. SetIndex(e, NoIndex) \in EntryState
  <2>1. NoIndex \in Index /\ e.generation + 1 \in Nat
    BY DEF Index, EntryState
  <2>2. SetIndex(e, NoIndex) =
          [[e EXCEPT !.idx = NoIndex] EXCEPT !.generation = e.generation + 1]
    BY DEF SetIndex
  <2>3. [e EXCEPT !.idx = NoIndex] \in EntryState
    BY <2>1 DEF EntryState
  <2>4. QED
    BY <2>1, <2>2, <2>3 DEF EntryState
<1>2. StartBuild(e) \in EntryState /\ FinishBuild(e) \in EntryState
  BY DEF EntryState, StartBuild, FinishBuild
<1>3. ASSUME NEW g \in Goroutines
      PROVE  HoldDone(e, g) \in EntryState /\ DropDone(e, g) \in EntryState
  BY DEF EntryState, HoldDone, DropDone
<1>4. ASSUME NEW i \in Index, NEW n \in Nat
      PROVE  Publish(e, i, n) \in EntryState
  BY DEF EntryState, Publish
<1>5. QED
  BY <1>1, <1>2, <1>3, <1>4

\* A cacheEntry as newCacheEntry makes it is well formed.
LEMMA NewEntry == NewCacheEntry \in EntryState
BY DEF NewCacheEntry, EntryState, Index

-----------------------------------------------------------------------------
\* The initial state is well formed.
LEMMA InitTypeOK == Init => TypeOK
BY NewEntry DEF Init, TypeOK, Index, Labels

\* The type invariant is inductive.
LEMMA StepTypeOK ==
  ASSUME TypeOK, [Next]_vars
  PROVE  TypeOK'
<1> USE DatasetOfAssumption, NilAssumption
<1> USE DEF TypeOK, Goto, Labels, Building, rows, writing, cache, call, environment
<1>1. ASSUME NEW g \in Goroutines, NEW k \in Keys, Call(g, k) PROVE TypeOK'
  BY <1>1 DEF Call, Newest, Index
<1>2. ASSUME NEW g \in Goroutines, LookUp(g) PROVE TypeOK'
  BY <1>2 DEF LookUp
<1>3. ASSUME NEW g \in Goroutines, Create(g) PROVE TypeOK'
  BY <1>3 DEF Create, Entries
<1>4. ASSUME NEW g \in Goroutines, Peek(g) \/ Loop(g) \/ Recheck(g) PROVE TypeOK'
  <2>1. ent[g] \in Entries /\ entry[ent[g]].idx \in Index
    BY <1>4 DEF Peek, Loop, Recheck, EntryState
  <2>2. QED
    BY <1>4, <2>1 DEF Peek, Loop, Recheck, Get
<1>5. ASSUME NEW g \in Goroutines, TryBuild(g) PROVE TypeOK'
  <2>1. ent[g] \in Entries
    BY <1>5 DEF TryBuild
  <2>2. StartBuild(entry[ent[g]]) \in EntryState
    BY <2>1, EntryClosed
  <2>3. QED
    BY <1>5, <2>1, <2>2 DEF TryBuild
<1>6. ASSUME NEW g \in Goroutines, WaitForBuild(g) PROVE TypeOK'
  <2>1. ent[g] \in Entries
    BY <1>6 DEF WaitForBuild
  <2>2. HoldDone(entry[ent[g]], g) \in EntryState
    BY <2>1, EntryClosed
  <2>3. QED
    BY <1>6, <2>1, <2>2 DEF WaitForBuild
<1>7. ASSUME NEW g \in Goroutines, Woken(g) PROVE TypeOK'
  BY <1>7 DEF Woken
<1>8. ASSUME NEW g \in Goroutines, GiveUp(g) PROVE TypeOK'
  BY <1>8, EntryClosed DEF GiveUp
<1>9. ASSUME NEW g \in Goroutines, WaitGet(g) PROVE TypeOK'
  <2>1. ent[g] \in Entries /\ entry[ent[g]].idx \in Index
    BY <1>9 DEF WaitGet, EntryState
  <2>2. CASE cancelled[g]
    BY <1>9, <2>2 DEF WaitGet
  <2>3. CASE ~cancelled[g]
    BY <1>9, <2>1, <2>3 DEF WaitGet, Get
  <2>4. QED
    BY <2>2, <2>3
<1>10. ASSUME NEW g \in Goroutines, ReadGeneration(g) PROVE TypeOK'
  BY <1>10 DEF ReadGeneration, EntryState
<1>11. ASSUME NEW g \in Goroutines, QueryRows(g) PROVE TypeOK'
  BY <1>11 DEF QueryRows, Index
<1>12. ASSUME NEW g \in Goroutines, QueryFails(g) PROVE TypeOK'
  BY <1>12 DEF QueryFails
<1>13. ASSUME NEW g \in Goroutines, PublishIndex(g) PROVE TypeOK'
  BY <1>13, EntryClosed DEF PublishIndex
<1>14. ASSUME NEW g \in Goroutines, Finish(g) PROVE TypeOK'
  BY <1>14, EntryClosed DEF Finish
<1>15. ASSUME NEW g \in Goroutines, Answer(g) PROVE TypeOK'
  BY <1>15 DEF Answer, Return, Newest, Index
<1>16. ASSUME NEW g \in Goroutines, Fail(g) PROVE TypeOK'
  BY <1>16 DEF Fail, Return, Index
<1>17. ASSUME NEW g \in Goroutines, Cancel(g) PROVE TypeOK'
  BY <1>17 DEF Cancel
<1>18. ASSUME NEW w \in Writers, NEW d \in Datasets, Commit(w, d) PROVE TypeOK'
  BY <1>18 DEF Commit
<1>19. ASSUME NEW w \in Writers, BeginInvalidate(w) PROVE TypeOK'
  BY <1>19 DEF BeginInvalidate, Matches
<1>20. ASSUME NEW w \in Writers, NEW e \in todo[w], InvalidateOne(w, e) PROVE TypeOK'
  BY <1>20, EntryClosed DEF InvalidateOne
<1>21. ASSUME NEW w \in Writers, EndInvalidate(w) PROVE TypeOK'
  BY <1>21 DEF EndInvalidate, Newest
<1>22. CASE UNCHANGED vars
  BY <1>22 DEF vars
<1>23. QED
  BY <1>1, <1>2, <1>3, <1>4, <1>5, <1>6, <1>7, <1>8, <1>9, <1>10, <1>11, <1>12,
     <1>13, <1>14, <1>15, <1>16, <1>17, <1>18, <1>19, <1>20, <1>21, <1>22
  DEF Next, Step, Invalidate

\* Every reachable state of the cache is well formed.
THEOREM TypeCorrect == Spec => []TypeOK
BY InitTypeOK, StepTypeOK, PTL DEF Spec

-----------------------------------------------------------------------------
(* The registry: one entry per key.                                        *)

\* At first nothing is registered.
LEMMA InitRegistered == Init => Registered
BY NilAssumption DEF Init, Registered, Entries

\* A step that only rewrites a registered entry leaves the registry alone.
LEMMA RewriteKeepsRegistered ==
  ASSUME TypeOK, Registered,
         NEW e \in Entries, NEW r, \E k \in Keys : byKey[k] = e,
         entry' = [entry EXCEPT ![e] = r],
         \A w \in Writers : todo'[w] \subseteq todo[w],
         UNCHANGED <<byKey, key, ent>>
  PROVE  Registered'
<1>1. ASSUME NEW g \in Goroutines, NEW k \in Keys, byKey[k] # <<g, k>>
      PROVE  entry'[<<g, k>>] = NewCacheEntry
  <2>1. entry[<<g, k>>] = NewCacheEntry
    BY <1>1 DEF Registered
  <2>2. e # <<g, k>>
    <3>1. PICK j \in Keys : byKey[j] = e
      OBVIOUS
    <3>2. PICK h \in Goroutines : byKey[j] = <<h, j>>
      BY <3>1, NilAssumption DEF Registered
    <3>3. QED
      BY <1>1, <3>1, <3>2
  <2>3. QED
    BY <2>1, <2>2 DEF TypeOK, Entries
<1>2. QED
  BY <1>1 DEF Registered

\* The entry of a goroutine is the one registered for its key.
LEMMA EntRegistered ==
  ASSUME TypeOK, Registered, NEW g \in Goroutines, ent[g] # Nil
  PROVE  /\ key[g] \in Keys
         /\ ent[g] \in Entries
         /\ ent[g] = byKey[key[g]]
         /\ entry[ent[g]] \in EntryState
BY DEF TypeOK, Registered

\* No step registers a key twice, or resets an entry nobody registered.
LEMMA StepRegistered ==
  ASSUME TypeOK, TypeOK', Registered, [Next]_vars
  PROVE  Registered'
<1> USE NilAssumption
<1> USE DEF Goto, rows, writing, cache, call, environment
<1>1. ASSUME NEW g \in Goroutines, NEW k \in Keys, Call(g, k) PROVE Registered'
  BY <1>1 DEF Call, Registered, TypeOK
<1>2. ASSUME NEW g \in Goroutines, LookUp(g) PROVE Registered'
  BY <1>2 DEF LookUp, Registered, TypeOK
<1>3. ASSUME NEW g \in Goroutines, Create(g) PROVE Registered'
  <2>1. CASE byKey[key[g]] = Nil
    <3> DEFINE k == key[g]
    <3>1. k \in Keys /\ <<g, k>> \in Entries /\ Nil # <<g, k>>
      BY <1>3 DEF Create, TypeOK, Entries
    <3>2. byKey' = [byKey EXCEPT ![k] = <<g, k>>] /\ ent' = [ent EXCEPT ![g] = <<g, k>>]
      BY <1>3, <2>1 DEF Create
    <3>3. \A j \in Keys : byKey'[j] # Nil => \E h \in Goroutines : byKey'[j] = <<h, j>>
      BY <3>1, <3>2 DEF Registered, TypeOK
    <3>4. \A h \in Goroutines : ent'[h] # Nil => ent'[h] = byKey'[key'[h]]
      <4>1. ASSUME NEW h \in Goroutines, h # g, ent[h] # Nil PROVE key[h] # k
        BY <4>1, <2>1 DEF Registered
      <4>2. QED
        BY <4>1, <3>1, <3>2, <1>3 DEF Create, Registered, TypeOK
    <3>5. \A w \in Writers : \A e \in todo[w] : \E j \in Keys : byKey'[j] = e
      <4>1. ASSUME NEW w \in Writers, NEW e \in todo[w], NEW j \in Keys, byKey[j] = e
            PROVE  byKey'[j] = e
        BY <4>1, <2>1, <3>2 DEF TypeOK
      <4>2. QED
        BY <4>1 DEF Registered
    <3>6. ASSUME NEW h \in Goroutines, NEW j \in Keys, byKey'[j] # <<h, j>>
          PROVE  byKey[j] # <<h, j>>
      BY <2>1, <3>1, <3>2, <3>6 DEF TypeOK, Entries
    <3>7. QED
      BY <1>3, <3>3, <3>4, <3>5, <3>6 DEF Create, Registered
  <2>2. CASE byKey[key[g]] # Nil
    <3>1. byKey' = byKey
      BY <1>3, <2>2 DEF Create, TypeOK
    <3>2. QED
      BY <1>3, <2>2, <3>1 DEF Create, Registered, TypeOK
  <2>3. QED
    BY <2>1, <2>2
<1>4. ASSUME NEW g \in Goroutines, NEW r, ent[g] # Nil,
             entry' = [entry EXCEPT ![ent[g]] = r],
             UNCHANGED <<byKey, key, ent, todo>>
      PROVE  Registered'
  BY <1>4, EntRegistered, RewriteKeepsRegistered
<1>5. ASSUME NEW g \in Goroutines, TryBuild(g) PROVE Registered'
  <2>1. ent[g] # Nil
    BY <1>5 DEF TryBuild, TypeOK
  <2>2. CASE UNCHANGED entry
    BY <1>5, <2>2 DEF TryBuild, Registered
  <2>3. CASE entry' = [entry EXCEPT ![ent[g]] = StartBuild(@)]
    BY <1>5, <2>1, <2>3, <1>4 DEF TryBuild
  <2>4. QED
    BY <1>5, <2>2, <2>3 DEF TryBuild
<1>6. ASSUME NEW g \in Goroutines, WaitForBuild(g) PROVE Registered'
  <2>1. ent[g] # Nil
    BY <1>6 DEF WaitForBuild, TypeOK
  <2>2. CASE UNCHANGED entry
    BY <1>6, <2>2 DEF WaitForBuild, Registered
  <2>3. CASE entry' = [entry EXCEPT ![ent[g]] = HoldDone(@, g)]
    BY <1>6, <2>1, <2>3, <1>4 DEF WaitForBuild
  <2>4. QED
    BY <1>6, <2>2, <2>3 DEF WaitForBuild
<1>7. ASSUME NEW g \in Goroutines, GiveUp(g) \/ PublishIndex(g) \/ Finish(g)
      PROVE  Registered'
  <2>1. ent[g] # Nil
    BY <1>7 DEF GiveUp, PublishIndex, Finish, TypeOK
  <2>2. QED
    BY <1>7, <2>1, <1>4 DEF GiveUp, PublishIndex, Finish
<1>8. ASSUME NEW g \in Goroutines, Answer(g) \/ Fail(g) PROVE Registered'
  BY <1>8 DEF Answer, Fail, Return, Registered, TypeOK
<1>9. ASSUME NEW w \in Writers, BeginInvalidate(w) PROVE Registered'
  BY <1>9 DEF BeginInvalidate, Matches, Registered, TypeOK
<1>10. ASSUME NEW w \in Writers, NEW e \in todo[w], InvalidateOne(w, e)
       PROVE  Registered'
  <2>1. e \in Entries /\ \E k \in Keys : byKey[k] = e
    BY DEF TypeOK, Registered
  <2>2. \A x \in Writers : todo'[x] \subseteq todo[x]
    BY <1>10 DEF InvalidateOne, TypeOK
  <2>3. QED
    BY <1>10, <2>1, <2>2, RewriteKeepsRegistered DEF InvalidateOne
<1>11. CASE UNCHANGED <<byKey, entry, key, ent, todo>>
  BY <1>11 DEF Registered
<1>12. QED
  BY <1>1, <1>2, <1>3, <1>5, <1>6, <1>7, <1>8, <1>9, <1>10, <1>11
  DEF Next, Step, Invalidate, Peek, Loop, Recheck, WaitGet, Get, Woken,
      ReadGeneration, QueryRows, QueryFails, Cancel, Commit, EndInvalidate, vars

-----------------------------------------------------------------------------
(* Builds: one at a time per key.                                          *)

\* At first nobody builds.
LEMMA InitFlights == Init => Flights
BY DEF Init, Flights, SingleFlight, NewCacheEntry, Building

\* No entry is registered for two keys.
LEMMA EntryOfOneKey ==
  ASSUME Registered, NEW j \in Keys, NEW k \in Keys,
         byKey[j] # Nil, byKey[j] = byKey[k]
  PROVE  j = k
<1>1. PICK x \in Goroutines : byKey[j] = <<x, j>>
  BY DEF Registered
<1>2. PICK y \in Goroutines : byKey[k] = <<y, k>>
  BY DEF Registered
<1>3. <<x, j>> = <<y, k>>
  BY <1>1, <1>2
<1>4. QED
  BY <1>3

\* Goroutines with one entry have one key, and the other way round.
LEMMA EntryDeterminesKey ==
  ASSUME TypeOK, Registered, NEW g \in Goroutines, NEW h \in Goroutines,
         ent[g] # Nil, ent[h] # Nil
  PROVE  ent[g] = ent[h] <=> key[g] = key[h]
<1>1. /\ ent[g] = byKey[key[g]] /\ key[g] \in Keys
      /\ ent[h] = byKey[key[h]] /\ key[h] \in Keys
  BY EntRegistered
<1>2. QED
  BY <1>1, EntryOfOneKey

\* A step in which no build starts, publishes or ends.
LEMMA OtherStepKeepsFlights ==
  ASSUME TypeOK, TypeOK', Flights,
         \A h \in Goroutines :
           /\ pc'[h] \in Building <=> pc[h] \in Building
           /\ pc[h] \in Building => key'[h] = key[h] /\ ent'[h] = ent[h]
           /\ pc'[h] \in Building \ {"finish"} => pc[h] # "finish",
         \A e \in Entries :
           /\ entry'[e].building = entry[e].building
           /\ entry'[e].idx \in {entry[e].idx, NoIndex}
           /\ entry'[e].done # {} => entry[e].building
  PROVE  Flights'
<1>1. \A h \in Goroutines : pc[h] \in Building => ent[h] \in Entries
  BY NilAssumption DEF TypeOK, Building
<1>2. SingleFlight'
  BY <1>1 DEF Flights, SingleFlight, Building
<1>3. \A e \in Entries : entry'[e].building =>
        \E h \in Goroutines : pc'[h] \in Building /\ ent'[h] = e
  BY DEF Flights, Building
<1>4. \A g \in Goroutines : pc'[g] \in Building \ {"finish"} =>
        entry'[ent'[g]].idx = NoIndex
  BY <1>1 DEF Flights
<1>5. QED
  BY <1>2, <1>3, <1>4 DEF Flights, Building

\* startBuild admits one builder to an entry, and only it ends the build.
LEMMA StepFlights ==
  ASSUME TypeOK, TypeOK', Registered, Flights, [Next]_vars
  PROVE  Flights'
<1> USE NilAssumption
<1> USE DEF Goto, rows, writing, cache, call, environment
<1>1. \A e \in Entries : entry[e].done # {} => entry[e].building
  BY DEF Flights
<1>2. ASSUME NEW g \in Goroutines, TryBuild(g), CanStartBuild(entry[ent[g]])
      PROVE  Flights'
  <2>1. ent[g] \in Entries /\ entry[ent[g]] \in EntryState
    BY <1>2, EntRegistered DEF TryBuild, TypeOK
  <2>2. /\ entry' = [entry EXCEPT ![ent[g]] = StartBuild(@)]
        /\ pc' = [pc EXCEPT ![g] = "recheck"]
        /\ UNCHANGED <<key, ent>>
    BY <1>2 DEF TryBuild
  <2>3. /\ ~entry[ent[g]].building /\ entry[ent[g]].idx = NoIndex
        /\ entry'[ent[g]].building /\ entry'[ent[g]].done = {}
        /\ entry'[ent[g]].idx = NoIndex
    BY <1>2, <2>1, <2>2 DEF CanStartBuild, StartBuild, EntryState, TypeOK
  <2>4. ASSUME NEW h \in Goroutines, pc[h] \in Building
        PROVE  ent[h] # ent[g] /\ key[h] # key[g] /\ h # g /\ ent[h] \in Entries
    <3>1. entry[ent[h]].building /\ ent[h] \in Entries
      BY <2>4 DEF Flights, SingleFlight, TypeOK, Building
    <3>2. ent[h] # ent[g]
      BY <2>3, <3>1
    <3>3. QED
      BY <2>1, <3>1, <3>2, EntryDeterminesKey
  <2>5. \A h \in Goroutines : h # g => pc'[h] = pc[h]
    BY <2>2 DEF TypeOK
  <2>6. \A e \in Entries : e # ent[g] => entry'[e] = entry[e]
    BY <2>2 DEF TypeOK
  <2>7. pc'[g] = "recheck"
    BY <2>2 DEF TypeOK
  <2>8. SingleFlight'
    BY <2>2, <2>3, <2>4, <2>5, <2>6, <2>7 DEF Flights, SingleFlight
  <2>9. \A e \in Entries : entry'[e].building =>
          \E h \in Goroutines : pc'[h] \in Building /\ ent'[h] = e
    BY <2>2, <2>4, <2>5, <2>6, <2>7 DEF Flights, Building
  <2>10. \A h \in Goroutines : pc'[h] \in Building \ {"finish"} =>
           entry'[ent'[h]].idx = NoIndex
    BY <2>2, <2>3, <2>4, <2>5, <2>6 DEF Flights
  <2>11. \A e \in Entries : entry'[e].done # {} => entry'[e].building
    BY <2>3, <2>6, <1>1
  <2>12. QED
    BY <2>8, <2>9, <2>10, <2>11 DEF Flights
<1>3. ASSUME NEW g \in Goroutines, PublishIndex(g) \/ Finish(g) PROVE Flights'
  <2>1. pc[g] \in Building /\ pc' = [pc EXCEPT ![g] = IF pc[g] = "finish" THEN "respond" ELSE "finish"]
    BY <1>3 DEF PublishIndex, Finish, Building
  <2>2. ent[g] \in Entries /\ entry[ent[g]] \in EntryState
    BY <2>1, EntRegistered DEF TypeOK, Building
  <2>3. \A e \in Entries : e # ent[g] => entry'[e] = entry[e]
    BY <1>3 DEF PublishIndex, Finish, TypeOK
  <2>4. UNCHANGED <<key, ent>>
    BY <1>3 DEF PublishIndex, Finish
  <2>5. entry[ent[g]].building
    BY <2>1 DEF Flights, SingleFlight
  <2>6. ASSUME NEW h \in Goroutines, pc[h] \in Building, h # g
        PROVE  ent[h] # ent[g] /\ ent[h] \in Entries
    <3>1. key[h] # key[g] /\ ent[h] \in Entries
      BY <2>1, <2>6 DEF Flights, SingleFlight, TypeOK, Building
    <3>2. QED
      BY <2>2, <3>1, EntryDeterminesKey
  <2>7. \A h \in Goroutines : h # g => pc'[h] = pc[h]
    BY <2>1 DEF TypeOK
  <2>8. CASE PublishIndex(g)
    <3>1. entry'[ent[g]].building /\ entry'[ent[g]].done = entry[ent[g]].done
      BY <2>2, <2>5, <2>8 DEF PublishIndex, Publish, EntryState, TypeOK
    <3>2. pc[g] = "publish" /\ pc'[g] = "finish"
      BY <2>1, <2>8 DEF PublishIndex, TypeOK
    <3>3. SingleFlight'
      BY <2>1, <2>3, <2>4, <2>6, <2>7, <3>1, <3>2 DEF Flights, SingleFlight
    <3>4. \A e \in Entries : entry'[e].building =>
            \E h \in Goroutines : pc'[h] \in Building /\ ent'[h] = e
      BY <2>3, <2>4, <2>6, <2>7, <3>2 DEF Flights, Building
    <3>5. \A h \in Goroutines : pc'[h] \in Building \ {"finish"} =>
            entry'[ent'[h]].idx = NoIndex
      BY <2>3, <2>4, <2>6, <2>7, <3>2 DEF Flights
    <3>6. \A e \in Entries : entry'[e].done # {} => entry'[e].building
      BY <1>1, <2>3, <3>1
    <3>7. QED
      BY <3>3, <3>4, <3>5, <3>6 DEF Flights
  <2>9. CASE Finish(g)
    <3>1. ~entry'[ent[g]].building /\ entry'[ent[g]].done = {}
      BY <2>2, <2>9 DEF Finish, FinishBuild, EntryState, TypeOK
    <3>2. pc[g] = "finish" /\ pc'[g] = "respond"
      BY <2>1, <2>9 DEF Finish, TypeOK
    <3>3. SingleFlight'
      BY <2>3, <2>4, <2>6, <2>7, <3>2 DEF Flights, SingleFlight, Building
    <3>4. \A e \in Entries : entry'[e].building =>
            \E h \in Goroutines : pc'[h] \in Building /\ ent'[h] = e
      BY <2>3, <2>4, <2>6, <2>7, <3>1 DEF Flights, Building
    <3>5. \A h \in Goroutines : pc'[h] \in Building \ {"finish"} =>
            entry'[ent'[h]].idx = NoIndex
      BY <2>3, <2>4, <2>6, <2>7, <3>2 DEF Flights, Building
    <3>6. \A e \in Entries : entry'[e].done # {} => entry'[e].building
      BY <1>1, <2>3, <3>1
    <3>7. QED
      BY <3>3, <3>4, <3>5, <3>6 DEF Flights
  <2>10. QED
    BY <1>3, <2>8, <2>9
<1>4. ASSUME NEW w \in Writers, NEW e \in todo[w], InvalidateOne(w, e)
      PROVE  Flights'
  <2>1. e \in Entries /\ entry[e] \in EntryState
    BY DEF TypeOK
  <2>2. \A x \in Entries : x # e => entry'[x] = entry[x]
    BY <1>4 DEF InvalidateOne, TypeOK
  <2>3. /\ entry'[e].building = entry[e].building
        /\ entry'[e].done = entry[e].done
        /\ entry'[e].idx = NoIndex
    BY <1>4, <2>1 DEF InvalidateOne, SetIndex, EntryState, TypeOK
  <2>4. QED
    BY <1>1, <1>4, <2>2, <2>3, OtherStepKeepsFlights DEF InvalidateOne
<1>5. ASSUME NEW g \in Goroutines, WaitForBuild(g) \/ GiveUp(g)
      PROVE  Flights'
  <2>1. ent[g] \in Entries /\ entry[ent[g]] \in EntryState
    BY <1>5, EntRegistered DEF WaitForBuild, GiveUp, TypeOK
  <2>2. \A x \in Entries : x # ent[g] => entry'[x] = entry[x]
    BY <1>5 DEF WaitForBuild, GiveUp, TypeOK
  <2>3. /\ entry'[ent[g]].building = entry[ent[g]].building
        /\ entry'[ent[g]].idx = entry[ent[g]].idx
        /\ entry'[ent[g]].done # {} => entry[ent[g]].building
    BY <1>1, <1>5, <2>1 DEF WaitForBuild, GiveUp, HoldDone, DropDone, EntryState, TypeOK
  <2>4. \A h \in Goroutines : pc'[h] \in Building <=> pc[h] \in Building
    BY <1>5 DEF WaitForBuild, GiveUp, TypeOK, Building
  <2>5. \A h \in Goroutines : pc'[h] \in Building => pc'[h] = pc[h]
    BY <1>5 DEF WaitForBuild, GiveUp, TypeOK, Building
  <2>6. UNCHANGED <<key, ent>>
    BY <1>5 DEF WaitForBuild, GiveUp
  <2>7. QED
    BY <1>1, <2>2, <2>3, <2>4, <2>5, <2>6, OtherStepKeepsFlights
<1>6. ASSUME NEW g \in Goroutines,
             \/ \E k \in Keys : Call(g, k)
             \/ LookUp(g) \/ Create(g) \/ Peek(g) \/ Loop(g)
             \/ (TryBuild(g) /\ ~CanStartBuild(entry[ent[g]]))
             \/ Woken(g) \/ WaitGet(g) \/ Answer(g) \/ Fail(g)
      PROVE  Flights'
  <2>1. pc[g] \notin Building /\ pc'[g] \notin Building
    BY <1>6 DEF Call, LookUp, Create, Peek, Loop, TryBuild, Woken, WaitGet, Get,
                Answer, Fail, Return, TypeOK, Building
  <2>2. \A h \in Goroutines : h # g =>
          pc'[h] = pc[h] /\ key'[h] = key[h] /\ ent'[h] = ent[h]
    BY <1>6 DEF Call, LookUp, Create, Peek, Loop, TryBuild, Woken, WaitGet, Get,
                Answer, Fail, Return, TypeOK
  <2>3. UNCHANGED entry
    BY <1>6 DEF Call, LookUp, Create, Peek, Loop, TryBuild, Woken, WaitGet, Get,
                Answer, Fail, Return
  <2>4. QED
    BY <1>1, <2>1, <2>2, <2>3, OtherStepKeepsFlights
<1>7. ASSUME NEW g \in Goroutines,
             Recheck(g) \/ ReadGeneration(g) \/ QueryRows(g) \/ QueryFails(g)
      PROVE  Flights'
  <2>1. pc[g] \in Building \ {"finish"} /\ pc'[g] \in Building
    BY <1>7 DEF Recheck, Get, ReadGeneration, QueryRows, QueryFails, TypeOK, Building
  <2>2. \A h \in Goroutines : h # g => pc'[h] = pc[h]
    BY <1>7 DEF Recheck, Get, ReadGeneration, QueryRows, QueryFails, TypeOK
  <2>3. UNCHANGED <<key, ent, entry>>
    BY <1>7 DEF Recheck, Get, ReadGeneration, QueryRows, QueryFails
  <2>4. QED
    BY <1>1, <2>1, <2>2, <2>3, OtherStepKeepsFlights
<1>8. CASE UNCHANGED <<pc, key, ent, entry>>
  BY <1>1, <1>8, OtherStepKeepsFlights
<1>9. QED
  BY <1>2, <1>3, <1>4, <1>5, <1>6, <1>7, <1>8
  DEF Next, Step, Invalidate, Cancel, Commit, BeginInvalidate, EndInvalidate, vars

-----------------------------------------------------------------------------
(* Freshness: what the generation check is worth.                          *)

\* At first there are no writes and no indexes.
LEMMA InitFresh == Init => Writes /\ CacheFresh /\ BuildFresh
BY DEF Init, Writes, CacheFresh, BuildFresh

\* Every write gets a version of its own and acknowledges that one.
LEMMA StepWrites ==
  ASSUME TypeOK, TypeOK', Writes, [Next]_vars
  PROVE  Writes'
<1> USE NilAssumption
<1> USE DEF rows, writing
<1>1. ASSUME NEW w \in Writers, NEW d \in Datasets, Commit(w, d) PROVE Writes'
  BY <1>1 DEF Commit, Writes, TypeOK
<1>2. ASSUME NEW w \in Writers, EndInvalidate(w) PROVE Writes'
  BY <1>2 DEF EndInvalidate, Newest, Writes, TypeOK
<1>3. CASE UNCHANGED <<version, acked, wdata, wver>>
  BY <1>3 DEF Writes
<1>4. ASSUME NEW g \in Goroutines, NEW k \in Keys, Call(g, k)
      PROVE  UNCHANGED <<version, acked, wdata, wver>>
  BY <1>4 DEF Call
<1>5. ASSUME NEW g \in Goroutines, Cancel(g)
      PROVE  UNCHANGED <<version, acked, wdata, wver>>
  BY <1>5 DEF Cancel
<1>6. ASSUME NEW g \in Goroutines, Step(g)
      PROVE  UNCHANGED <<version, acked, wdata, wver>>
  <2>1. CASE LookUp(g) \/ Create(g) \/ Peek(g) \/ Loop(g) \/ TryBuild(g) \/ Recheck(g)
    BY <2>1 DEF LookUp, Create, Peek, Loop, TryBuild, Recheck, Get
  <2>2. CASE WaitForBuild(g) \/ Woken(g) \/ GiveUp(g) \/ WaitGet(g)
    BY <2>2 DEF WaitForBuild, Woken, GiveUp, WaitGet, Get
  <2>3. CASE ReadGeneration(g) \/ QueryRows(g) \/ QueryFails(g) \/ PublishIndex(g)
    BY <2>3 DEF ReadGeneration, QueryRows, QueryFails, PublishIndex
  <2>4. CASE Finish(g) \/ Answer(g) \/ Fail(g)
    BY <2>4 DEF Finish, Answer, Fail, Return
  <2>5. QED
    BY <1>6, <2>1, <2>2, <2>3, <2>4 DEF Step
<1>7. ASSUME NEW w \in Writers,
             BeginInvalidate(w) \/ \E e \in todo[w] : InvalidateOne(w, e)
      PROVE  UNCHANGED <<version, acked, wdata, wver>>
  BY <1>7 DEF BeginInvalidate, InvalidateOne
<1>8. CASE UNCHANGED vars
  BY <1>3, <1>8 DEF vars
<1>9. QED
  BY <1>1, <1>2, <1>3, <1>4, <1>5, <1>6, <1>7, <1>8 DEF Next, Invalidate

\* A builder at or past the generation read is registered.
LEMMA BuilderRegistered ==
  ASSUME TypeOK, Registered, NEW g \in Goroutines, pc[g] \in Building
  PROVE  /\ key[g] \in Keys
         /\ ent[g] \in Entries
         /\ ent[g] = byKey[key[g]]
         /\ byKey[key[g]] # Nil
         /\ entry[ent[g]] \in EntryState
BY EntRegistered, NilAssumption DEF TypeOK, Building

\* A step that neither writes, publishes, nor reads for a build.
LEMMA OtherStepKeepsFresh ==
  ASSUME TypeOK, Registered, CacheFresh, BuildFresh,
         UNCHANGED <<version, wpc, wdata, wver, todo, byKey>>,
         \A e \in Entries : /\ entry'[e].idx = entry[e].idx
                            /\ entry'[e].generation = entry[e].generation,
         \A h \in Goroutines : pc'[h] \in {"query", "publish"} =>
           /\ pc'[h] = pc[h] /\ gen'[h] = gen[h] /\ ent'[h] = ent[h]
           /\ key'[h] = key[h] /\ hold'[h] = hold[h]
  PROVE  CacheFresh' /\ BuildFresh'
<1>1. CacheFresh'
  BY DEF CacheFresh, ResetsToCome, WillReset, TypeOK
<1>2. \A h \in Goroutines : pc[h] \in {"query", "publish"} => ent[h] \in Entries
  BY BuilderRegistered DEF Building
<1>3. BuildFresh'
  BY <1>2 DEF BuildFresh, ResetsToCome, WillReset
<1>4. QED
  BY <1>1, <1>3

\* A step of a writer that keeps the resets to come, except those of entries
\* it resets.
LEMMA WriterStepKeepsFresh ==
  ASSUME TypeOK, Registered, CacheFresh, BuildFresh,
         UNCHANGED <<byKey, pc, key, ent, gen, hold>>,
         \A e \in Entries :
           \/ entry'[e] = entry[e]
           \/ /\ entry'[e].idx = NoIndex
              /\ entry'[e].generation = entry[e].generation + 1,
         \A k \in Keys, v \in Nat :
           /\ byKey[k] # Nil
           /\ entry'[byKey[k]] = entry[byKey[k]]
           /\ ResetsToCome(v, k)
           => ResetsToCome(v, k)'
  PROVE  CacheFresh' /\ BuildFresh'
<1>1. ASSUME NEW k \in Keys, byKey[k] # Nil, entry'[byKey[k]].idx # NoIndex
      PROVE  ResetsToCome(entry[byKey[k]].idx, k)'
  <2>1. /\ entry'[byKey[k]] = entry[byKey[k]]
        /\ entry[byKey[k]].idx \in Nat
    BY <1>1 DEF TypeOK, EntryState, Index
  <2>2. ResetsToCome(entry[byKey[k]].idx, k)
    BY <1>1, <2>1 DEF CacheFresh
  <2>3. QED
    BY <1>1, <2>1, <2>2
<1>2. CacheFresh'
  BY <1>1 DEF CacheFresh
<1>3. ASSUME NEW g \in Goroutines, pc[g] \in {"query", "publish"}
      PROVE  /\ key[g] \in Keys /\ byKey[key[g]] # Nil
             /\ ent[g] \in Entries /\ ent[g] = byKey[key[g]]
             /\ gen[g] <= entry'[ent[g]].generation
             /\ gen[g] = entry'[ent[g]].generation => entry'[ent[g]] = entry[ent[g]]
  <2>1. /\ key[g] \in Keys /\ byKey[key[g]] # Nil
        /\ ent[g] \in Entries /\ ent[g] = byKey[key[g]]
        /\ entry[ent[g]].generation \in Nat /\ gen[g] \in Nat
    BY <1>3, BuilderRegistered DEF Building, EntryState, TypeOK
  <2>2. gen[g] <= entry[ent[g]].generation
    BY <1>3 DEF BuildFresh
  <2>3. QED
    BY <2>1, <2>2
<1>4. ASSUME NEW g \in Goroutines, pc[g] = "publish",
             gen[g] = entry'[ent[g]].generation
      PROVE  ResetsToCome(hold[g], key[g])'
  <2>1. hold[g] \in Nat /\ ResetsToCome(hold[g], key[g])
    BY <1>3, <1>4 DEF BuildFresh, TypeOK, Index
  <2>2. QED
    BY <1>3, <1>4, <2>1
<1>5. BuildFresh'
  BY <1>3, <1>4 DEF BuildFresh
<1>6. QED
  BY <1>2, <1>5

\* No step puts an index into the cache that lacks a write whose reset is over:
\* the generation read before the query tells.
LEMMA StepFresh ==
  ASSUME TypeOK, TypeOK', Registered, CacheFresh, BuildFresh, [Next]_vars
  PROVE  CacheFresh' /\ BuildFresh'
<1> USE NilAssumption
<1> USE DEF Goto, rows, writing, cache, call, environment
<1>1. ASSUME NEW g \in Goroutines, Create(g) PROVE CacheFresh' /\ BuildFresh'
  <2>1. CASE byKey[key[g]] # Nil
    <3>1. byKey' = byKey
      BY <1>1, <2>1 DEF Create, TypeOK
    <3>2. QED
      BY <1>1, <3>1, OtherStepKeepsFresh DEF Create, TypeOK
  <2>2. CASE byKey[key[g]] = Nil
    <3> DEFINE k == key[g]
    <3>1. k \in Keys /\ byKey' = [byKey EXCEPT ![k] = <<g, k>>]
      BY <1>1, <2>2 DEF Create, TypeOK
    <3>2. UNCHANGED <<version, wpc, wdata, wver, todo, entry, key, hold, gen>>
      BY <1>1 DEF Create
    <3>3. entry[<<g, k>>].idx = NoIndex
      <4>1. byKey[k] # <<g, k>>
        BY <2>2, <3>1 DEF Entries
      <4>2. entry[<<g, k>>] = NewCacheEntry
        BY <3>1, <4>1 DEF Registered
      <4>3. QED
        BY <4>2 DEF NewCacheEntry
    <3>4. CacheFresh'
      BY <3>1, <3>2, <3>3 DEF CacheFresh, ResetsToCome, WillReset, TypeOK
    <3>5. ASSUME NEW h \in Goroutines, pc'[h] \in {"query", "publish"}
          PROVE  /\ pc[h] = pc'[h] /\ ent'[h] = ent[h]
                 /\ byKey'[key[h]] = byKey[key[h]]
      <4>1. pc[h] = pc'[h] /\ h # g /\ ent'[h] = ent[h]
        BY <1>1, <3>5 DEF Create, TypeOK
      <4>2. QED
        BY <2>2, <3>1, <3>5, <4>1, BuilderRegistered DEF Building, TypeOK
    <3>6. BuildFresh'
      BY <3>2, <3>5 DEF BuildFresh, ResetsToCome, WillReset
    <3>7. QED
      BY <3>4, <3>6
  <2>3. QED
    BY <2>1, <2>2
<1>2. ASSUME NEW g \in Goroutines, ReadGeneration(g) \/ QueryRows(g)
      PROVE  CacheFresh' /\ BuildFresh'
  <2>1. UNCHANGED <<version, wpc, wdata, wver, todo, byKey, entry, key, ent>>
    BY <1>2 DEF ReadGeneration, QueryRows
  <2>2. CacheFresh'
    BY <2>1 DEF CacheFresh, ResetsToCome, WillReset
  <2>3. \A h \in Goroutines : h # g =>
          pc'[h] = pc[h] /\ gen'[h] = gen[h] /\ hold'[h] = hold[h]
    BY <1>2 DEF ReadGeneration, QueryRows, TypeOK
  <2>4. key[g] \in Keys /\ ent[g] \in Entries /\ entry[ent[g]] \in EntryState
    BY <1>2, BuilderRegistered DEF ReadGeneration, QueryRows, Building
  <2>5. gen'[g] <= entry[ent[g]].generation
    BY <1>2, <2>4 DEF ReadGeneration, QueryRows, BuildFresh, EntryState, TypeOK
  <2>6. pc'[g] = "publish" => hold'[g] = version[DatasetOf[key[g]]]
    BY <1>2 DEF ReadGeneration, QueryRows, TypeOK
  <2>7. version[DatasetOf[key[g]]] \in Nat
    BY <2>4, DatasetOfAssumption DEF TypeOK
  <2>8. pc'[g] = "publish" => ResetsToCome(hold[g], key[g])'
    BY <2>1, <2>6, <2>7 DEF ResetsToCome
  <2>9. BuildFresh'
    BY <2>1, <2>3, <2>5, <2>6, <2>7, <2>8, NoIndexAssumption
    DEF BuildFresh, ResetsToCome, WillReset
  <2>10. QED
    BY <2>2, <2>9
<1>3. ASSUME NEW g \in Goroutines, PublishIndex(g)
      PROVE  CacheFresh' /\ BuildFresh'
  <2>1. /\ UNCHANGED <<version, wpc, wdata, wver, todo, byKey, key, ent, gen, hold>>
        /\ entry' = [entry EXCEPT ![ent[g]] = Publish(@, hold[g], gen[g])]
        /\ pc' = [pc EXCEPT ![g] = "finish"] /\ pc[g] = "publish"
    BY <1>3 DEF PublishIndex
  <2>2. /\ key[g] \in Keys /\ ent[g] \in Entries /\ ent[g] = byKey[key[g]]
        /\ byKey[key[g]] # Nil /\ entry[ent[g]] \in EntryState
    BY <2>1, BuilderRegistered DEF Building
  <2>3. \A e \in Entries : e # ent[g] => entry'[e] = entry[e]
    BY <2>1 DEF TypeOK
  <2>4. /\ entry'[ent[g]].generation = entry[ent[g]].generation
        /\ gen[g] # entry[ent[g]].generation =>
             entry'[ent[g]].idx = entry[ent[g]].idx
        /\ gen[g] = entry[ent[g]].generation => entry'[ent[g]].idx = hold[g]
    BY <2>1, <2>2 DEF Publish, EntryState, TypeOK
  <2>5. ASSUME NEW k \in Keys, byKey[k] # Nil, entry'[byKey[k]].idx # NoIndex
        PROVE  ResetsToCome(entry'[byKey[k]].idx, k)
    <3>1. CASE byKey[k] # ent[g]
      BY <2>3, <2>5, <3>1 DEF CacheFresh, TypeOK
    <3>2. CASE byKey[k] = ent[g]
      <4>1. k = key[g]
        BY <2>2, <2>5, <3>2, EntryOfOneKey
      <4>2. CASE gen[g] = entry[ent[g]].generation
        BY <2>1, <2>2, <2>4, <4>1, <4>2 DEF BuildFresh
      <4>3. CASE gen[g] # entry[ent[g]].generation
        BY <2>2, <2>4, <2>5, <3>2, <4>3 DEF CacheFresh
      <4>4. QED
        BY <4>2, <4>3
    <3>3. QED
      BY <3>1, <3>2
  <2>6. CacheFresh'
    BY <2>1, <2>5 DEF CacheFresh, ResetsToCome, WillReset
  <2>7. ASSUME NEW h \in Goroutines, pc'[h] \in {"query", "publish"}
        PROVE  /\ pc[h] = pc'[h]
               /\ entry'[ent[h]].generation = entry[ent[h]].generation
    <3>1. pc[h] = pc'[h]
      BY <2>1, <2>7 DEF TypeOK
    <3>2. ent[h] \in Entries
      BY <2>7, <3>1, BuilderRegistered DEF Building
    <3>3. QED
      BY <2>3, <2>4, <3>1, <3>2
  <2>8. BuildFresh'
    BY <2>1, <2>7 DEF BuildFresh, ResetsToCome, WillReset
  <2>9. QED
    BY <2>6, <2>8

<1>4. ASSUME NEW w \in Writers, NEW d \in Datasets, Commit(w, d)
      PROVE  CacheFresh' /\ BuildFresh'
  <2>1. /\ UNCHANGED <<todo, byKey, entry, pc, key, ent, gen, hold>>
        /\ version' = [version EXCEPT ![d] = @ + 1]
        /\ wdata[w] = Nil
        /\ wpc'[w] = "committed" /\ wdata'[w] = d /\ wver'[w] = version[d] + 1
    BY <1>4 DEF Commit, TypeOK
  <2>2. \A x \in Writers : x # w =>
          wpc'[x] = wpc[x] /\ wdata'[x] = wdata[x] /\ wver'[x] = wver[x]
    BY <1>4 DEF Commit, TypeOK
  <2>3. ASSUME NEW k \in Keys, NEW v \in Nat, ResetsToCome(v, k),
               NEW n \in v + 1 .. version'[DatasetOf[k]]
        PROVE  \E x \in Writers : WillReset(x, DatasetOf[k], n, byKey[k])'
    <3>1. DatasetOf[k] \in Datasets
      BY DatasetOfAssumption
    <3>2. CASE n \in v + 1 .. version[DatasetOf[k]]
      <4>1. PICK x \in Writers : WillReset(x, DatasetOf[k], n, byKey[k])
        BY <2>3, <3>2 DEF ResetsToCome
      <4>2. x # w
        BY <2>1, <3>1, <4>1 DEF WillReset
      <4>3. QED
        BY <2>1, <2>2, <4>1, <4>2 DEF WillReset
    <3>3. CASE n \notin v + 1 .. version[DatasetOf[k]]
      <4>1. version \in [Datasets -> Nat]
        BY DEF TypeOK
      <4>2. DatasetOf[k] = d
        BY <2>1, <2>3, <3>1, <3>3, <4>1
      <4>3. version'[DatasetOf[k]] = version[d] + 1 /\ version[d] \in Nat
        BY <2>1, <4>1, <4>2
      <4>4. n = version[d] + 1
        BY <2>3, <3>3, <4>2, <4>3
      <4>5. QED
        BY <2>1, <4>2, <4>4 DEF WillReset
    <3>4. QED
      BY <3>2, <3>3
  <2>4. \A k \in Keys, v \in Nat : ResetsToCome(v, k) => ResetsToCome(v, k)'
    BY <2>1, <2>3 DEF ResetsToCome
  <2>5. QED
    BY <2>1, <2>4, WriterStepKeepsFresh
<1>5. ASSUME NEW w \in Writers, BeginInvalidate(w)
      PROVE  CacheFresh' /\ BuildFresh'
  <2>1. UNCHANGED <<version, wdata, wver, byKey, entry, pc, key, ent, gen, hold>>
    BY <1>5 DEF BeginInvalidate
  <2>2. PICK scope \in Scopes(wdata[w]) : todo' = [todo EXCEPT ![w] = Matches(scope)]
    BY <1>5 DEF BeginInvalidate
  <2>3. \A x \in Writers : x # w => wpc'[x] = wpc[x] /\ todo'[x] = todo[x]
    BY <1>5, <2>2 DEF BeginInvalidate, TypeOK
  <2>4. ASSUME NEW k \in Keys, byKey[k] # Nil, wdata[w] = DatasetOf[k]
        PROVE  byKey[k] \in todo'[w]
    BY <2>2, <2>4, DatasetOfAssumption DEF Scopes, Matches, TypeOK
  <2>5. \A k \in Keys, n \in Nat, x \in Writers : byKey[k] # Nil =>
          (WillReset(x, DatasetOf[k], n, byKey[k]) =>
             WillReset(x, DatasetOf[k], n, byKey[k])')
    BY <2>1, <2>3, <2>4 DEF WillReset
  <2>6. \A k \in Keys, v \in Nat :
          byKey[k] # Nil /\ ResetsToCome(v, k) => ResetsToCome(v, k)'
    BY <2>1, <2>5, DatasetOfAssumption DEF ResetsToCome, TypeOK
  <2>7. QED
    BY <2>1, <2>6, WriterStepKeepsFresh
<1>6. ASSUME NEW w \in Writers, NEW e \in todo[w], InvalidateOne(w, e)
      PROVE  CacheFresh' /\ BuildFresh'
  <2>1. UNCHANGED <<version, wpc, wdata, wver, byKey, pc, key, ent, gen, hold>>
    BY <1>6 DEF InvalidateOne
  <2>2. e \in Entries /\ entry[e] \in EntryState
    BY DEF TypeOK
  <2>3. \A x \in Entries : x # e => entry'[x] = entry[x]
    BY <1>6 DEF InvalidateOne, TypeOK
  <2>4. /\ entry'[e].idx = NoIndex
        /\ entry'[e].generation = entry[e].generation + 1
    BY <1>6, <2>2 DEF InvalidateOne, SetIndex, EntryState, TypeOK
  <2>5. entry'[e] # entry[e]
    BY <2>2, <2>4 DEF EntryState
  <2>6. \A x \in Writers : todo[x] \ {e} \subseteq todo'[x]
    BY <1>6 DEF InvalidateOne, TypeOK
  <2>7. \A k \in Keys, n \in Nat, x \in Writers : byKey[k] # e =>
          (WillReset(x, DatasetOf[k], n, byKey[k]) =>
             WillReset(x, DatasetOf[k], n, byKey[k])')
    BY <2>1, <2>6 DEF WillReset
  <2>8. \A k \in Keys, v \in Nat :
          byKey[k] # e /\ ResetsToCome(v, k) => ResetsToCome(v, k)'
    BY <2>1, <2>7, DatasetOfAssumption DEF ResetsToCome, TypeOK
  <2>9. QED
    BY <2>1, <2>3, <2>4, <2>5, <2>8, WriterStepKeepsFresh
<1>7. ASSUME NEW w \in Writers, EndInvalidate(w)
      PROVE  CacheFresh' /\ BuildFresh'
  <2>1. UNCHANGED <<version, todo, byKey, entry, pc, key, ent, gen, hold>>
    BY <1>7 DEF EndInvalidate
  <2>2. \A x \in Writers : x # w =>
          wpc'[x] = wpc[x] /\ wdata'[x] = wdata[x] /\ wver'[x] = wver[x]
    BY <1>7 DEF EndInvalidate, TypeOK
  <2>3. \A d \in Datasets, n \in Nat, x \in Entries : ~WillReset(w, d, n, x)
    BY <1>7 DEF EndInvalidate, WillReset
  <2>4. \A k \in Keys, n \in Nat, x \in Writers : byKey[k] # Nil =>
          (WillReset(x, DatasetOf[k], n, byKey[k]) =>
             WillReset(x, DatasetOf[k], n, byKey[k])')
    BY <2>1, <2>2, <2>3, DatasetOfAssumption DEF WillReset, TypeOK
  <2>5. \A k \in Keys, v \in Nat :
          byKey[k] # Nil /\ ResetsToCome(v, k) => ResetsToCome(v, k)'
    BY <2>1, <2>4, DatasetOfAssumption DEF ResetsToCome, TypeOK
  <2>6. QED
    BY <2>1, <2>5, WriterStepKeepsFresh
<1>8. ASSUME NEW g \in Goroutines,
             TryBuild(g) \/ WaitForBuild(g) \/ GiveUp(g) \/ Finish(g)
      PROVE  CacheFresh' /\ BuildFresh'
  <2>1. ent[g] \in Entries /\ entry[ent[g]] \in EntryState
    BY <1>8, EntRegistered DEF TryBuild, WaitForBuild, GiveUp, Finish, TypeOK
  <2>2. \A x \in Entries : x # ent[g] => entry'[x] = entry[x]
    BY <1>8 DEF TryBuild, WaitForBuild, GiveUp, Finish, TypeOK
  <2>3. /\ entry'[ent[g]].idx = entry[ent[g]].idx
        /\ entry'[ent[g]].generation = entry[ent[g]].generation
    <3>1. CASE UNCHANGED entry
      BY <3>1
    <3>2. CASE entry' = [entry EXCEPT ![ent[g]] = StartBuild(@)]
      BY <2>1, <3>2 DEF StartBuild, EntryState, TypeOK
    <3>3. CASE entry' = [entry EXCEPT ![ent[g]] = HoldDone(@, g)]
      BY <2>1, <3>3 DEF HoldDone, EntryState, TypeOK
    <3>4. CASE entry' = [entry EXCEPT ![ent[g]] = DropDone(@, g)]
      BY <2>1, <3>4 DEF DropDone, EntryState, TypeOK
    <3>5. CASE entry' = [entry EXCEPT ![ent[g]] = FinishBuild(@)]
      BY <2>1, <3>5 DEF FinishBuild, EntryState, TypeOK
    <3>6. QED
      BY <1>8, <3>1, <3>2, <3>3, <3>4, <3>5
      DEF TryBuild, WaitForBuild, GiveUp, Finish
  <2>4. /\ UNCHANGED <<version, wpc, wdata, wver, todo, byKey, key, ent, gen, hold>>
        /\ \A h \in Goroutines : pc'[h] \in {"query", "publish"} => pc'[h] = pc[h]
    BY <1>8 DEF TryBuild, WaitForBuild, GiveUp, Finish, TypeOK
  <2>5. QED
    BY <2>2, <2>3, <2>4, OtherStepKeepsFresh
<1>9. ASSUME NEW g \in Goroutines,
             \/ \E k \in Keys : Call(g, k)
             \/ LookUp(g) \/ Peek(g) \/ Loop(g) \/ Recheck(g) \/ Woken(g)
             \/ WaitGet(g) \/ QueryFails(g) \/ Answer(g) \/ Fail(g) \/ Cancel(g)
      PROVE  CacheFresh' /\ BuildFresh'
  <2>1. UNCHANGED <<version, wpc, wdata, wver, todo, byKey, entry>>
    BY <1>9 DEF Call, LookUp, Peek, Loop, Recheck, Get, Woken, WaitGet, QueryFails,
                Answer, Fail, Return, Cancel
  <2>2. \A h \in Goroutines : pc'[h] \in {"query", "publish"} =>
          /\ pc'[h] = pc[h] /\ gen'[h] = gen[h] /\ ent'[h] = ent[h]
          /\ key'[h] = key[h] /\ hold'[h] = hold[h]
    BY <1>9 DEF Call, LookUp, Peek, Loop, Recheck, Get, Woken, WaitGet, QueryFails,
                Answer, Fail, Return, Cancel, TypeOK
  <2>3. QED
    BY <2>1, <2>2, OtherStepKeepsFresh
<1>10. CASE UNCHANGED vars
  BY <1>10, OtherStepKeepsFresh DEF vars
<1>11. QED
  BY <1>1, <1>2, <1>3, <1>4, <1>5, <1>6, <1>7, <1>8, <1>9, <1>10
  DEF Next, Step, Invalidate

-----------------------------------------------------------------------------
(* Order: searches of one key never go back.                               *)

\* At first nobody has an index.
LEMMA InitOrder == Init => Order
BY DatasetOfAssumption DEF Init, Order, HoldsInRange, CacheIsNewest, BuildIsNewest, NewestFor

\* A cached index has every acknowledged write.
LEMMA CacheHasAcked ==
  ASSUME TypeOK, Writes, CacheFresh,
         NEW k \in Keys, byKey[k] # Nil, entry[byKey[k]].idx # NoIndex
  PROVE  acked[DatasetOf[k]] <= entry[byKey[k]].idx
<1> DEFINE d == DatasetOf[k]
           i == entry[byKey[k]].idx
<1>1. d \in Datasets /\ i \in Nat /\ acked[d] \in Nat /\ version[d] \in Nat
  BY DatasetOfAssumption DEF TypeOK, EntryState, Index
<1>2. ASSUME acked[d] > i PROVE FALSE
  <2>1. acked[d] \in i + 1 .. version[d]
    BY <1>1, <1>2 DEF Writes
  <2>2. PICK w \in Writers : WillReset(w, d, acked[d], byKey[k])
    BY <2>1 DEF CacheFresh, ResetsToCome
  <2>3. wdata[w] = d /\ wver[w] = acked[d] /\ wdata[w] # Nil
    BY <1>1, <2>2, NilAssumption DEF WillReset
  <2>4. QED
    BY <2>3 DEF Writes
<1>3. QED
  BY <1>1, <1>2

\* A step in which no search gets an index, publishes one or returns.
LEMMA OtherStepKeepsOrder ==
  ASSUME TypeOK, TypeOK', Order,
         UNCHANGED <<served, key, floor, hold, byKey>>,
         \A d \in Datasets : version[d] <= version'[d] /\ acked[d] <= acked'[d],
         \A e \in Entries : entry'[e].idx \in {entry[e].idx, NoIndex},
         \A h \in Goroutines :
           \/ pc'[h] = pc[h]
           \/ pc'[h] # "publish" /\ hold[h] = NoIndex
           \/ pc'[h] \in {"finish", "respond"}
  PROVE  Order'
<1>1. /\ \A d \in Datasets : /\ version[d] \in Nat /\ version'[d] \in Nat
                             /\ acked[d] \in Nat /\ acked'[d] \in Nat
      /\ \A k \in Keys : served[k] \in Nat /\ DatasetOf[k] \in Datasets
      /\ \A g \in Goroutines : /\ floor[g] \in Nat
                               /\ hold[g] # NoIndex => hold[g] \in Nat
                               /\ key[g] # Nil => key[g] \in Keys
  BY DatasetOfAssumption DEF TypeOK, Index
<1>2. \A g \in Goroutines : key[g] # Nil /\ hold[g] # NoIndex =>
        hold[g] \in floor[g] .. version'[DatasetOf[key[g]]]
  BY <1>1 DEF Order, HoldsInRange
<1>3. \A g \in Goroutines : key[g] # Nil =>
        \/ floor[g] <= acked'[DatasetOf[key[g]]]
        \/ floor[g] <= served[key[g]]
  BY <1>1 DEF Order, HoldsInRange
<1>4. \A k \in Keys : served[k] <= version'[DatasetOf[k]]
  BY <1>1 DEF Order, HoldsInRange
<1>5. HoldsInRange'
  BY <1>2, <1>3, <1>4 DEF Order, HoldsInRange
<1>6. ASSUME NEW k \in Keys, byKey[k] # Nil, entry'[byKey[k]].idx # NoIndex
      PROVE  /\ NewestFor(k, entry[byKey[k]].idx)
             /\ entry'[byKey[k]].idx = entry[byKey[k]].idx
             /\ entry[byKey[k]].idx <= version'[DatasetOf[k]]
  <2>1. /\ entry'[byKey[k]].idx = entry[byKey[k]].idx
        /\ entry[byKey[k]].idx \in Nat
    BY <1>6 DEF TypeOK, EntryState, Index
  <2>2. QED
    BY <1>1, <1>6, <2>1 DEF Order, CacheIsNewest
<1>7. CacheIsNewest'
  BY <1>6 DEF CacheIsNewest, NewestFor
<1>8. BuildIsNewest'
  BY DEF Order, BuildIsNewest, NewestFor
<1>9. QED
  BY <1>5, <1>7, <1>8 DEF Order

\* No search gets an index older than its floor, or older than one already
\* given through its key.
LEMMA StepOrder ==
  ASSUME TypeOK, TypeOK', Registered, Flights, Writes, CacheFresh, BuildFresh,
         Order, [Next]_vars
  PROVE  Order'
<1> USE NilAssumption, NoIndexAssumption
<1> USE DEF Goto, rows, writing, cache, call, environment
<1>1. /\ \A d \in Datasets : version[d] \in Nat /\ acked[d] \in Nat
      /\ \A k \in Keys : served[k] \in Nat /\ DatasetOf[k] \in Datasets
      /\ \A g \in Goroutines : /\ floor[g] \in Nat
                               /\ hold[g] # NoIndex => hold[g] \in Nat
                               /\ key[g] # Nil => key[g] \in Keys
  BY DatasetOfAssumption DEF TypeOK, Index
<1>2. ASSUME NEW g \in Goroutines, NEW k \in Keys, Call(g, k) PROVE Order'
  <2>1. /\ UNCHANGED <<version, acked, served, byKey, entry>>
        /\ key'[g] = k /\ hold'[g] = NoIndex /\ pc'[g] = "lookup"
        /\ floor'[g] = Newest(acked[DatasetOf[k]], served[k])
    BY <1>2 DEF Call, TypeOK
  <2>2. \A h \in Goroutines : h # g =>
          pc'[h] = pc[h] /\ key'[h] = key[h] /\ hold'[h] = hold[h] /\ floor'[h] = floor[h]
    BY <1>2 DEF Call, TypeOK
  <2>3. HoldsInRange'
    BY <1>1, <2>1, <2>2 DEF Order, HoldsInRange, Newest
  <2>4. CacheIsNewest'
    BY <2>1, <2>2 DEF Order, CacheIsNewest, NewestFor
  <2>5. BuildIsNewest'
    BY <2>1, <2>2 DEF Order, BuildIsNewest, NewestFor
  <2>6. QED
    BY <2>3, <2>4, <2>5 DEF Order
<1>3. ASSUME NEW g \in Goroutines,
             \/ Peek(g) \/ Loop(g) \/ Recheck(g)
             \/ (WaitGet(g) /\ ~cancelled[g])
      PROVE  Order'
  <2> DEFINE k == key[g]
             i == entry[byKey[k]].idx
  <2>1. /\ k \in Keys /\ byKey[k] # Nil /\ ent[g] = byKey[k] /\ k # Nil
        /\ i # NoIndex => i \in Nat
    BY <1>3, EntRegistered DEF Peek, Loop, Recheck, WaitGet, TypeOK, EntryState, Index
  <2>2. /\ UNCHANGED <<version, acked, served, byKey, entry, key, floor>>
        /\ hold'[g] = i
        /\ pc'[g] # "publish"
        /\ i # NoIndex => pc'[g] \in {"finish", "respond"}
    BY <1>3, <2>1 DEF Peek, Loop, Recheck, WaitGet, Get, TypeOK
  <2>3. \A h \in Goroutines : h # g => pc'[h] = pc[h] /\ hold'[h] = hold[h]
    BY <1>3 DEF Peek, Loop, Recheck, WaitGet, Get, TypeOK
  <2>4. i # NoIndex => i \in floor[g] .. version[DatasetOf[k]]
    BY <1>1, <2>1, CacheHasAcked DEF Order, HoldsInRange, CacheIsNewest, NewestFor
  <2>5. HoldsInRange'
    BY <2>2, <2>3, <2>4 DEF Order, HoldsInRange
  <2>6. CacheIsNewest'
    BY <2>1, <2>2, <2>3 DEF Order, CacheIsNewest, NewestFor
  <2>7. ASSUME NEW h \in Goroutines, pc[h] = "publish", key[h] = k
        PROVE  hold'[g] = NoIndex
    BY <2>1, <2>2, <2>7, BuilderRegistered DEF Flights, Building
  <2>8. BuildIsNewest'
    BY <2>2, <2>3, <2>7 DEF Order, BuildIsNewest, NewestFor
  <2>9. QED
    BY <2>5, <2>6, <2>8 DEF Order
<1>4. ASSUME NEW g \in Goroutines, QueryRows(g) PROVE Order'
  <2> DEFINE k == key[g]
             v == version[DatasetOf[k]]
  <2>1. /\ k \in Keys /\ byKey[k] # Nil /\ ent[g] = byKey[k] /\ k # Nil /\ v \in Nat
        /\ pc[g] = "query"
    BY <1>1, <1>4, BuilderRegistered DEF QueryRows, Building
  <2>2. /\ UNCHANGED <<version, acked, served, byKey, entry, key, floor>>
        /\ hold'[g] = v /\ pc'[g] = "publish"
    BY <1>4 DEF QueryRows, TypeOK
  <2>3. \A h \in Goroutines : h # g => pc'[h] = pc[h] /\ hold'[h] = hold[h]
    BY <1>4 DEF QueryRows, TypeOK
  <2>4. floor[g] <= v
    BY <1>1, <2>1 DEF Order, HoldsInRange, Writes
  <2>5. HoldsInRange'
    BY <1>1, <2>1, <2>2, <2>3, <2>4 DEF Order, HoldsInRange
  <2>6. entry[byKey[k]].idx = NoIndex
    BY <2>1 DEF Flights, Building
  <2>7. CacheIsNewest'
    BY <2>2, <2>3, <2>6 DEF Order, CacheIsNewest, NewestFor
  <2>8. ASSUME NEW h \in Goroutines, h # g, pc[h] = "publish" PROVE key[h] # k
    BY <2>1, <2>8 DEF Flights, SingleFlight, Building
  <2>9. \A h \in Goroutines : key[h] = k /\ hold[h] # NoIndex => hold[h] <= v
    BY <1>1, <2>1 DEF Order, HoldsInRange
  <2>10. NewestFor(k, v)'
    BY <1>1, <2>1, <2>2, <2>3, <2>9 DEF Order, HoldsInRange, NewestFor
  <2>11. BuildIsNewest'
    BY <2>2, <2>3, <2>8, <2>10 DEF Order, BuildIsNewest, NewestFor
  <2>12. QED
    BY <2>5, <2>7, <2>11 DEF Order
<1>5. ASSUME NEW g \in Goroutines, PublishIndex(g) PROVE Order'
  <2> DEFINE k == key[g]
  <2>1. /\ k \in Keys /\ byKey[k] # Nil /\ ent[g] = byKey[k] /\ k # Nil
        /\ ent[g] \in Entries /\ entry[ent[g]] \in EntryState
        /\ pc[g] = "publish" /\ hold[g] # NoIndex
    BY <1>5, BuilderRegistered DEF PublishIndex, Building, BuildFresh
  <2>2. /\ UNCHANGED <<version, acked, served, byKey, key, floor, hold>>
        /\ pc'[g] = "finish"
        /\ entry' = [entry EXCEPT ![ent[g]] = Publish(@, hold[g], gen[g])]
    BY <1>5 DEF PublishIndex, TypeOK
  <2>3. /\ \A h \in Goroutines : h # g => pc'[h] = pc[h]
        /\ \A e \in Entries : e # ent[g] => entry'[e] = entry[e]
    BY <1>5 DEF PublishIndex, TypeOK
  <2>4. entry'[ent[g]].idx \in {entry[ent[g]].idx, hold[g]}
    BY <2>1, <2>2 DEF Publish, EntryState, TypeOK
  <2>5. HoldsInRange'
    BY <2>1, <2>2, <2>3 DEF Order, HoldsInRange
  <2>6. NewestFor(k, hold[g]) /\ hold[g] <= version[DatasetOf[k]]
    BY <1>1, <2>1 DEF Order, BuildIsNewest, HoldsInRange
  <2>7. ASSUME NEW j \in Keys, byKey[j] # Nil, entry'[byKey[j]].idx # NoIndex
        PROVE  /\ NewestFor(j, entry'[byKey[j]].idx)
               /\ entry'[byKey[j]].idx <= version[DatasetOf[j]]
    <3>1. CASE j = k
      BY <2>1, <2>4, <2>6, <2>7, <3>1 DEF Order, CacheIsNewest
    <3>2. CASE j # k
      <4>1. byKey[j] # ent[g] /\ byKey[j] \in Entries
        BY <2>1, <2>7, <3>2, EntryOfOneKey DEF TypeOK
      <4>2. QED
        BY <2>3, <2>7, <4>1 DEF Order, CacheIsNewest
    <3>3. QED
      BY <3>1, <3>2
  <2>8. CacheIsNewest'
    BY <2>2, <2>7 DEF CacheIsNewest, NewestFor
  <2>9. BuildIsNewest'
    BY <2>2, <2>3 DEF Order, BuildIsNewest, NewestFor
  <2>10. QED
    BY <2>5, <2>8, <2>9 DEF Order
<1>6. ASSUME NEW g \in Goroutines, Answer(g) \/ Fail(g) PROVE Order'
  <2> DEFINE k == key[g]
  <2>1. /\ UNCHANGED <<version, acked, byKey, entry>>
        /\ key'[g] = Nil /\ pc'[g] = "idle" /\ pc[g] = "respond"
        /\ k \in Keys
    BY <1>6 DEF Answer, Fail, Return, TypeOK
  <2>2. \A h \in Goroutines : h # g =>
          pc'[h] = pc[h] /\ key'[h] = key[h] /\ hold'[h] = hold[h] /\ floor'[h] = floor[h]
    BY <1>6 DEF Answer, Fail, Return, TypeOK
  <2>3. /\ \A j \in Keys : j # k => served'[j] = served[j]
        /\ \/ served'[k] = served[k]
           \/ hold[g] # NoIndex /\ served'[k] = Newest(served[k], hold[g])
    BY <1>6, <2>1 DEF Answer, Fail, TypeOK
  <2>4. /\ served[k] <= served'[k] /\ served'[k] \in Nat
        /\ served'[k] <= version[DatasetOf[k]]
    BY <1>1, <2>1, <2>3 DEF Order, HoldsInRange, Newest
  <2>5. \A v \in Nat : NewestFor(k, v) => served'[k] <= v
    BY <1>1, <2>1, <2>3 DEF NewestFor, Newest
  <2>6. \A j \in Keys, v \in Nat : NewestFor(j, v) => NewestFor(j, v)'
    BY <2>1, <2>2, <2>3, <2>5 DEF NewestFor
  <2>7. \A h \in Goroutines : h # g /\ key[h] # Nil =>
          \/ floor[h] <= acked[DatasetOf[key[h]]]
          \/ floor[h] <= served'[key[h]]
    BY <1>1, <2>3, <2>4 DEF Order, HoldsInRange
  <2>8. HoldsInRange'
    BY <2>1, <2>2, <2>3, <2>4, <2>7 DEF Order, HoldsInRange
  <2>9. CacheIsNewest'
    BY <2>1, <2>6 DEF Order, CacheIsNewest, TypeOK, EntryState, Index
  <2>10. ASSUME NEW h \in Goroutines, pc'[h] = "publish"
         PROVE  NewestFor(key[h], hold[h])' /\ h # g
    <3>1. h # g /\ pc[h] = "publish" /\ key[h] \in Keys /\ hold[h] \in Nat
      BY <1>1, <2>1, <2>2, <2>10 DEF BuildFresh, TypeOK
    <3>2. QED
      BY <2>2, <2>6, <3>1 DEF Order, BuildIsNewest, NewestFor
  <2>11. BuildIsNewest'
    BY <2>10 DEF BuildIsNewest
  <2>12. QED
    BY <2>8, <2>9, <2>11 DEF Order
<1>7. ASSUME NEW g \in Goroutines, Create(g) PROVE Order'
  <2>1. CASE byKey[key[g]] # Nil
    <3>1. byKey' = byKey
      BY <1>7, <2>1 DEF Create, TypeOK
    <3>2. QED
      BY <1>1, <1>7, <3>1, OtherStepKeepsOrder DEF Create, TypeOK, Order, HoldsInRange
  <2>2. CASE byKey[key[g]] = Nil
    <3> DEFINE k == key[g]
    <3>1. k \in Keys /\ byKey' = [byKey EXCEPT ![k] = <<g, k>>]
      BY <1>7, <2>2 DEF Create, TypeOK
    <3>2. UNCHANGED <<version, acked, served, key, floor, hold, entry>>
      BY <1>7 DEF Create
    <3>3. /\ pc'[g] = "peek" /\ hold[g] = NoIndex
          /\ \A h \in Goroutines : h # g => pc'[h] = pc[h]
      BY <1>7 DEF Create, TypeOK, Order, HoldsInRange
    <3>4. byKey[k] # <<g, k>>
      BY <2>2, <3>1 DEF Entries
    <3>5. entry[<<g, k>>].idx = NoIndex
      BY <3>1, <3>4 DEF Registered, NewCacheEntry
    <3>6. HoldsInRange'
      BY <3>2, <3>3 DEF Order, HoldsInRange
    <3>7. CacheIsNewest'
      BY <3>1, <3>2, <3>5 DEF Order, CacheIsNewest, NewestFor, TypeOK
    <3>8. BuildIsNewest'
      BY <3>2, <3>3 DEF Order, BuildIsNewest, NewestFor
    <3>9. QED
      BY <3>6, <3>7, <3>8 DEF Order
  <2>3. QED
    BY <2>1, <2>2
<1>8. ASSUME NEW g \in Goroutines,
             TryBuild(g) \/ WaitForBuild(g) \/ GiveUp(g) \/ Finish(g)
      PROVE  Order'
  <2>1. ent[g] \in Entries /\ entry[ent[g]] \in EntryState
    BY <1>8, EntRegistered DEF TryBuild, WaitForBuild, GiveUp, Finish, TypeOK
  <2>2. \A x \in Entries : x # ent[g] => entry'[x] = entry[x]
    BY <1>8 DEF TryBuild, WaitForBuild, GiveUp, Finish, TypeOK
  <2>3. entry'[ent[g]].idx = entry[ent[g]].idx
    <3>1. CASE UNCHANGED entry
      BY <3>1
    <3>2. CASE entry' = [entry EXCEPT ![ent[g]] = StartBuild(@)]
      BY <2>1, <3>2 DEF StartBuild, EntryState, TypeOK
    <3>3. CASE entry' = [entry EXCEPT ![ent[g]] = HoldDone(@, g)]
      BY <2>1, <3>3 DEF HoldDone, EntryState, TypeOK
    <3>4. CASE entry' = [entry EXCEPT ![ent[g]] = DropDone(@, g)]
      BY <2>1, <3>4 DEF DropDone, EntryState, TypeOK
    <3>5. CASE entry' = [entry EXCEPT ![ent[g]] = FinishBuild(@)]
      BY <2>1, <3>5 DEF FinishBuild, EntryState, TypeOK
    <3>6. QED
      BY <1>8, <3>1, <3>2, <3>3, <3>4, <3>5
      DEF TryBuild, WaitForBuild, GiveUp, Finish
  <2>4. UNCHANGED <<version, acked, served, key, floor, hold, byKey>>
    BY <1>8 DEF TryBuild, WaitForBuild, GiveUp, Finish
  <2>5. \A h \in Goroutines :
           \/ pc'[h] = pc[h]
           \/ pc'[h] # "publish" /\ hold[h] = NoIndex
           \/ pc'[h] \in {"finish", "respond"}
    BY <1>8 DEF TryBuild, WaitForBuild, GiveUp, Finish, TypeOK, Order, HoldsInRange
  <2>6. QED
    BY <1>1, <2>2, <2>3, <2>4, <2>5, OtherStepKeepsOrder
<1>9. ASSUME NEW g \in Goroutines,
             \/ LookUp(g) \/ Woken(g) \/ (WaitGet(g) /\ cancelled[g])
             \/ ReadGeneration(g) \/ QueryFails(g) \/ Cancel(g)
      PROVE  Order'
  <2>1. UNCHANGED <<version, acked, served, key, floor, hold, byKey, entry>>
    BY <1>9 DEF LookUp, Woken, WaitGet, ReadGeneration, QueryFails, Cancel
  <2>2. \A h \in Goroutines :
           \/ pc'[h] = pc[h]
           \/ pc'[h] # "publish" /\ hold[h] = NoIndex
           \/ pc'[h] \in {"finish", "respond"}
    BY <1>9 DEF LookUp, Woken, WaitGet, ReadGeneration, QueryFails, Cancel,
                TypeOK, Order, HoldsInRange
  <2>3. QED
    BY <1>1, <2>1, <2>2, OtherStepKeepsOrder
<1>10. ASSUME NEW w \in Writers,
              \/ \E d \in Datasets : Commit(w, d)
              \/ BeginInvalidate(w) \/ EndInvalidate(w)
       PROVE  Order'
  <2>1. UNCHANGED <<served, key, floor, hold, byKey, entry, pc>>
    BY <1>10 DEF Commit, BeginInvalidate, EndInvalidate
  <2>2. \A d \in Datasets : version[d] <= version'[d] /\ acked[d] <= acked'[d]
    BY <1>1, <1>10 DEF Commit, BeginInvalidate, EndInvalidate, Newest, TypeOK
  <2>3. QED
    BY <2>1, <2>2, OtherStepKeepsOrder
<1>11. ASSUME NEW w \in Writers, NEW e \in todo[w], InvalidateOne(w, e)
       PROVE  Order'
  <2>1. e \in Entries /\ entry[e] \in EntryState
    BY DEF TypeOK
  <2>2. /\ \A x \in Entries : x # e => entry'[x] = entry[x]
        /\ entry'[e].idx = NoIndex
    BY <1>11, <2>1 DEF InvalidateOne, SetIndex, EntryState, TypeOK
  <2>3. UNCHANGED <<version, acked, served, key, floor, hold, byKey, pc>>
    BY <1>11 DEF InvalidateOne
  <2>4. QED
    BY <1>1, <2>2, <2>3, OtherStepKeepsOrder
<1>12. CASE UNCHANGED vars
  BY <1>1, <1>12, OtherStepKeepsOrder DEF vars
<1>13. QED
  BY <1>2, <1>3, <1>4, <1>5, <1>6, <1>7, <1>8, <1>9, <1>10, <1>11, <1>12
  DEF Next, Step, Invalidate

-----------------------------------------------------------------------------
(* The theorems.                                                           *)

\* The parts of the inductive invariant hold at first ...
LEMMA InitInv == Init => Inv
BY InitTypeOK, InitRegistered, InitFlights, InitFresh, InitOrder DEF Inv

\* ... and each step preserves them together.
LEMMA StepInv == Inv /\ [Next]_vars => Inv'
BY StepTypeOK, StepRegistered, StepFlights, StepWrites, StepFresh, StepOrder
DEF Inv

\* The inductive invariant holds in every reachable state.
THEOREM Invariance == Spec => []Inv
BY InitInv, StepInv, PTL DEF Spec

\* At most one goroutine builds the index of a key at any time, although the
\* registry, the building flag and the done channel are guarded by different
\* locks (getCacheEntry, startBuild and finishBuild).
THEOREM OneBuildPerKey == Spec => []SingleFlight
<1>1. Inv => SingleFlight
  BY DEF Inv, Flights
<1>2. QED
  BY <1>1, Invariance, PTL

\* A goroutine blocked in waitForBuild on an open channel always has a
\* builder that will close it, also when builds fail or are cancelled.
THEOREM NoLostWakeUp == Spec => []WaitersHaveABuilder
<1>1. Inv => WaitersHaveABuilder
  BY DEF Inv, Flights, WaitersHaveABuilder
<1>2. QED
  BY <1>1, Invariance, PTL

\* The cache lacks a committed write only until its writer gets to the entry:
\* the generation check of ensureIndex closes the race of a build with
\* InvalidateCache for any number of goroutines, writers, keys and datasets.
THEOREM CacheStaysFresh == Spec => []CacheFresh
<1>1. Inv => CacheFresh
  BY DEF Inv
<1>2. QED
  BY <1>1, Invariance, PTL

-----------------------------------------------------------------------------
(* The refinement of SearchPromise.                                        *)

\* The initial cache is an initial state of the promise.
LEMMA InitPromise == Init => Promise!Init
BY DEF Init, Promise!Init, Promise!NoRequest

\* What a step may do to a search, as the promise sees it.
Request(g) == IF key[g] = Nil THEN [key |-> NoIndex, floor |-> NoIndex]
                              ELSE [key |-> key[g], floor |-> floor[g]]
Answered(g) == IF key[g] = Nil THEN hold[g] ELSE NoIndex

\* Every step of the cache is a step of the promise, or is invisible to it.
LEMMA StepPromise ==
  ASSUME Inv, Inv', [Next]_vars
  PROVE  [Promise!Next]_(Promise!vars)
<1> USE NilAssumption, NoIndexAssumption, DatasetOfAssumption
<1> USE DEF Goto, rows, writing, cache, call, environment
<1> DEFINE request == [g \in Goroutines |-> Request(g)]
           answer == [g \in Goroutines |-> Answered(g)]
<1>1. TypeOK /\ TypeOK' /\ HoldsInRange /\ BuildFresh
  BY DEF Inv, Order
<1>2. /\ \A d \in Datasets : version[d] \in Nat /\ acked[d] \in Nat
      /\ \A g \in Goroutines : floor[g] \in Nat /\ floor[g] # NoIndex
      /\ \A g \in Goroutines : key[g] # Nil => key[g] \in Keys
  BY <1>1 DEF TypeOK
<1>3. ASSUME NEW g \in Goroutines, NEW k \in Keys, Call(g, k)
      PROVE  Promise!Next
  <2>1. /\ request[g] = Promise!NoRequest
        /\ request' = [request EXCEPT ![g] =
             [key |-> k, floor |-> Newest(acked[DatasetOf[k]], served[k])]]
        /\ answer' = [answer EXCEPT ![g] = NoIndex]
        /\ UNCHANGED <<version, acked, served>>
    BY <1>1, <1>3 DEF Call, TypeOK, Request, Answered, Promise!NoRequest
  <2>2. Promise!Call(g, k)
    BY <2>1 DEF Promise!Call, Request, Answered, Newest, Promise!Newest
  <2>3. QED
    BY <2>2 DEF Promise!Next
<1>4. ASSUME NEW g \in Goroutines, Answer(g) PROVE Promise!Next
  <2>1. /\ request[g] = [key |-> key[g], floor |-> floor[g]]
        /\ request[g] # Promise!NoRequest
        /\ request' = [request EXCEPT ![g] = Promise!NoRequest]
        /\ answer' = [answer EXCEPT ![g] = hold[g]]
        /\ UNCHANGED <<version, acked>>
    BY <1>1, <1>2, <1>4 DEF Answer, Return, TypeOK, Request, Answered, Promise!NoRequest
  <2>2. served' = [served EXCEPT ![key[g]] = Newest(@, hold[g])]
    BY <1>4 DEF Answer
  <2>3. PICK v \in floor[g] .. version[DatasetOf[key[g]]] : v = hold[g]
    BY <1>1, <1>4 DEF Answer, Return, TypeOK, HoldsInRange
  <2>4. Promise!Answer(g, v)
    BY <2>1, <2>2, <2>3 DEF Promise!Answer, Request, Answered, Newest, Promise!Newest
  <2>5. request[g].floor = floor[g] /\ request[g].key = key[g]
    BY <2>1
  <2>6. v \in request[g].floor .. version[DatasetOf[request[g].key]]
    BY <2>3, <2>5
  <2>7. QED
    BY <2>1, <2>4, <2>6 DEF Promise!Next, Request
<1>5. ASSUME NEW g \in Goroutines, Fail(g) PROVE Promise!Next
  <2>1. /\ request[g] # Promise!NoRequest
        /\ request' = [request EXCEPT ![g] = Promise!NoRequest]
        /\ answer' = [answer EXCEPT ![g] = NoIndex]
        /\ UNCHANGED <<version, acked, served>>
    BY <1>1, <1>2, <1>5 DEF Fail, Return, TypeOK, Request, Answered, Promise!NoRequest
  <2>2. Promise!Fail(g)
    BY <2>1 DEF Promise!Fail, Request, Answered
  <2>3. QED
    BY <2>2 DEF Promise!Next
<1>6. ASSUME NEW w \in Writers, NEW d \in Datasets, Commit(w, d)
      PROVE  Promise!Next
  <2>1. Promise!Commit(d)
    BY <1>6 DEF Commit, Promise!Commit
  <2>2. QED
    BY <2>1 DEF Promise!Next
<1>7. ASSUME NEW w \in Writers, EndInvalidate(w) PROVE Promise!Next
  <2> DEFINE d == wdata[w]
             v == Newest(acked[d], wver[w])
  <2>1. d \in Datasets /\ wver[w] \in Nat /\ wver[w] <= version[d]
    BY <1>1, <1>7 DEF EndInvalidate, TypeOK, Inv, Writes
  <2>2. v \in 0 .. version[d] /\ acked[d] <= v
    BY <1>2, <2>1 DEF Newest, Inv, Writes
  <2>3. Promise!Acknowledge(d, v)
    BY <1>7, <2>2 DEF EndInvalidate, Promise!Acknowledge
  <2>4. QED
    BY <2>1, <2>2, <2>3 DEF Promise!Next
<1>8. ASSUME UNCHANGED <<version, acked, served, key, floor>>,
             \A g \in Goroutines : key[g] = Nil => hold'[g] = hold[g]
      PROVE  UNCHANGED Promise!vars
  BY <1>8 DEF Promise!vars
<1>9. ASSUME NEW g \in Goroutines,
             \/ LookUp(g) \/ Create(g) \/ Peek(g) \/ Loop(g) \/ TryBuild(g)
             \/ WaitForBuild(g) \/ Woken(g) \/ GiveUp(g) \/ WaitGet(g)
             \/ Recheck(g) \/ ReadGeneration(g) \/ QueryRows(g) \/ QueryFails(g)
             \/ PublishIndex(g) \/ Finish(g) \/ Cancel(g)
      PROVE  UNCHANGED Promise!vars
  <2>1. UNCHANGED <<version, acked, served, key, floor>>
    BY <1>9 DEF LookUp, Create, Peek, Loop, TryBuild, WaitForBuild, Woken, GiveUp,
                WaitGet, Recheck, Get, ReadGeneration, QueryRows, QueryFails,
                PublishIndex, Finish, Cancel
  <2>2. \A h \in Goroutines : key[h] = Nil => hold'[h] = hold[h]
    BY <1>1, <1>9 DEF LookUp, Create, Peek, Loop, TryBuild, WaitForBuild, Woken,
                GiveUp, WaitGet, Recheck, Get, ReadGeneration, QueryRows,
                QueryFails, PublishIndex, Finish, Cancel, TypeOK
  <2>3. QED
    BY <1>8, <2>1, <2>2
<1>10. ASSUME NEW w \in Writers,
              BeginInvalidate(w) \/ \E e \in todo[w] : InvalidateOne(w, e)
       PROVE  UNCHANGED Promise!vars
  BY <1>8, <1>10 DEF BeginInvalidate, InvalidateOne
<1>11. CASE UNCHANGED vars
  BY <1>8, <1>11 DEF vars
<1>12. QED
  BY <1>3, <1>4, <1>5, <1>6, <1>7, <1>9, <1>10, <1>11 DEF Next, Step, Invalidate

\* Every behaviour of the cache keeps the promise: no search answers with an
\* index older than an acknowledged write, or older than an answer already
\* given through its key, when it was called.
THEOREM CacheImplementsPromise == Spec => KeepsThePromise
BY InitPromise, StepPromise, Invariance, PTL DEF Spec, KeepsThePromise, Promise!Spec

=============================================================================
