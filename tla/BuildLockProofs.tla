-------------------------- MODULE BuildLockProofs --------------------------
(***************************************************************************)
(* Proofs about BuildLock, for any goroutines spread over any processes    *)
(* and any lease.                                                          *)
(***************************************************************************)
EXTENDS BuildLock, TLAPS

\* Inductive: a goroutine that is protected owns the row.
Inv == TypeOK /\ RowBacksProtected

\* An age stays an age.
LEMMA OlderInAges ==
  ASSUME NEW a \in Ages
  PROVE  Older(a) \in Ages /\ Older(a) >= a
BY StaleAfterAssumption DEF Ages, Older

\* At first there is no row and nobody is in.
LEMMA InitInv == Init => Inv
BY StaleAfterAssumption DEF Init, Inv, TypeOK, RowBacksProtected, Protected, Ages

\* Every step keeps the row, the ages and the goroutines in their ranges.
LEMMA StepTypeOK ==
  ASSUME TypeOK, [Next]_vars
  PROVE  TypeOK'
<1> USE ProcOfAssumption
<1> USE DEF TypeOK, Goto
<1>1. 0 \in Ages
  BY StaleAfterAssumption DEF Ages
<1>2. ASSUME NEW g \in Goroutines, Acquire(g) \/ ReadClock(g) \/ Retry(g) \/ Fail(g)
      PROVE  TypeOK'
  BY <1>1, <1>2 DEF Acquire, ReadClock, Retry, Fail
<1>3. ASSUME NEW g \in Goroutines, NEW row \in Ages, Enter(g, row) PROVE TypeOK'
  BY <1>1, <1>3 DEF Enter
<1>4. ASSUME NEW g \in Goroutines, Try(g) PROVE TypeOK'
  BY <1>1, <1>3, <1>4 DEF Try, Insert, Reenter, TakeOver, Wait
<1>5. ASSUME NEW g \in Goroutines, Release(g) \/ ReleaseFails(g) PROVE TypeOK'
  <2>1. CASE Release(g)
    BY <1>1, <2>1 DEF Release
  <2>2. CASE ReleaseFails(g)
    BY <1>1, <2>2 DEF ReleaseFails
  <2>3. QED
    BY <1>5, <2>1, <2>2
<1>6. ASSUME NEW p \in Procs, Crash(p) PROVE TypeOK'
  BY <1>1, <1>6 DEF Crash
<1>7. CASE Tick
  BY <1>1, <1>7, OlderInAges DEF Tick
<1>8. CASE UNCHANGED vars
  BY <1>8 DEF vars
<1>9. QED
  BY <1>2, <1>4, <1>5, <1>6, <1>7, <1>8 DEF Next

\* No step leaves a protected goroutine without its row: only a release within
\* the process, which cuts it, or a takeover, which needs a stale row, removes it.
LEMMA StepRowBacksProtected ==
  ASSUME TypeOK, TypeOK', RowBacksProtected, [Next]_vars
  PROVE  RowBacksProtected'
<1> USE ProcOfAssumption, NobodyAssumption, StaleAfterAssumption
<1> USE DEF TypeOK, Goto, RowBacksProtected, Protected, Ages
<1>1. ASSUME NEW g \in Goroutines, Acquire(g) \/ ReadClock(g) \/ Retry(g) \/ Fail(g)
      PROVE  RowBacksProtected'
  BY <1>1 DEF Acquire, ReadClock, Retry, Fail
<1>2. ASSUME NEW g \in Goroutines, NEW row \in Ages, Enter(g, row),
             \A h \in Goroutines : Protected(h) => ProcOf[h] = ProcOf[g] /\ age = row
      PROVE  RowBacksProtected'
  BY <1>2 DEF Enter
<1>3. ASSUME NEW g \in Goroutines, Try(g) PROVE RowBacksProtected'
  <2>1. CASE Insert(g)
    BY <1>2, <2>1 DEF Insert
  <2>2. CASE Reenter(g)
    BY <1>2, <2>2 DEF Reenter
  <2>3. CASE TakeOver(g)
    BY <1>2, <2>3 DEF TakeOver, IsStale
  <2>4. CASE Wait(g)
    BY <2>4 DEF Wait
  <2>5. QED
    BY <1>3, <2>1, <2>2, <2>3, <2>4 DEF Try
<1>4. ASSUME NEW g \in Goroutines, Release(g) PROVE RowBacksProtected'
  <2>1. ASSUME NEW h \in Goroutines, Protected(h)'
        PROVE  h # g /\ Protected(h) /\ ProcOf[h] # ProcOf[g]
    BY <1>4, <2>1 DEF Release
  <2>2. ASSUME NEW h \in Goroutines, Protected(h)'
        PROVE  owner' = ProcOf[h] /\ age' = lease'[h]
    BY <1>4, <2>1, <2>2 DEF Release
  <2>3. QED
    BY <2>2
<1>5. ASSUME NEW g \in Goroutines, ReleaseFails(g) PROVE RowBacksProtected'
  BY <1>5 DEF ReleaseFails
<1>6. ASSUME NEW p \in Procs, Crash(p) PROVE RowBacksProtected'
  BY <1>6 DEF Crash
<1>7. CASE Tick
  BY <1>7 DEF Tick, Older
<1>8. CASE UNCHANGED vars
  BY <1>8 DEF vars
<1>9. QED
  BY <1>1, <1>3, <1>4, <1>5, <1>6, <1>7, <1>8 DEF Next

\* The row backs every protected goroutine in every reachable state: what the
\* INSERT OR IGNORE, the takeover and the DELETE of the lock row rely on.
THEOREM Invariance == Spec => []Inv
<1>1. Inv /\ [Next]_vars => Inv'
  BY StepTypeOK, StepRowBacksProtected DEF Inv
<1>2. QED
  BY InitInv, <1>1, PTL DEF Spec

\* Two processes never build under the lock at once while their leases last,
\* for any number of goroutines and processes, crashes and failed releases.
THEOREM MutualExclusion == Spec => []ProcessesExclude
<1>1. Inv => ProcessesExclude
  BY DEF Inv, RowBacksProtected, ProcessesExclude
<1>2. QED
  BY <1>1, Invariance, PTL

=============================================================================
