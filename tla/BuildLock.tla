----------------------------- MODULE BuildLock -----------------------------
(***************************************************************************)
(* acquireIndexBuildLock of vec/api.go: the row of vector_storage_locks    *)
(* for one shadow table and dataset, which keeps processes from building   *)
(* and persisting the same index at once.                                  *)
(*                                                                         *)
(* The owner of the row is a process (lockOwnerID), not a goroutine: the   *)
(* goroutines of one process pass through each other's lock, and the first *)
(* to release it deletes the row for all.  They meet here when two cache   *)
(* keys name one dataset; below that, the cacheEntry keeps them apart.     *)
(*                                                                         *)
(* Nobody renews a row.  A row older than lockStaleAfter may be taken over,*)
(* whether its owner has crashed or is merely slow.  Time is not a clock   *)
(* but the ages of the timestamps in play; an age stops at StaleAfter,     *)
(* beyond which the code cannot tell ages apart.                           *)
(***************************************************************************)
EXTENDS Naturals

CONSTANTS
  Goroutines,  \* who may build
  Procs,       \* processes on the database file
  ProcOf,      \* ProcOf[g]: the process of g
  Nobody,      \* no row
  StaleAfter   \* lockStaleAfter, in ticks

ASSUME ProcOfAssumption == ProcOf \in [Goroutines -> Procs]
ASSUME NobodyAssumption == Nobody \notin Procs
ASSUME StaleAfterAssumption == StaleAfter \in Nat \ {0}

VARIABLES
  owner,  \* owner of the row, or Nobody when there is no row
  age,    \* how long ago its locked_at is
  pc,     \* pc[g]: what g does next
  stamp,  \* stamp[g]: how long ago g read the clock for locked_at
  lease,  \* history: how old the row was that let g in, still growing
  cut     \* history: cut[g]: another goroutine of its process has released

vars == <<owner, age, pc, stamp, lease, cut>>

Ages == 0 .. StaleAfter

Init ==
  /\ owner = Nobody
  /\ age = 0
  /\ pc = [g \in Goroutines |-> "idle"]
  /\ stamp = [g \in Goroutines |-> 0]
  /\ lease = [g \in Goroutines |-> 0]
  /\ cut = [g \in Goroutines |-> FALSE]

-----------------------------------------------------------------------------
(* Mutated forms. *)

StaleOneTickEarly(g) ==
  /\ owner \notin {Nobody, ProcOf[g]}
  /\ age + 1 >= StaleAfter

NeverStale(g) ==
  /\ owner \notin {Nobody, ProcOf[g]}
  /\ age > StaleAfter

-----------------------------------------------------------------------------
Goto(g, label) == pc' = [pc EXCEPT ![g] = label]

Acquire(g) ==
  /\ pc[g] = "idle"
  /\ Goto(g, "clock")
  /\ UNCHANGED <<owner, age, stamp, lease, cut>>

\* now := time.Now(), read before the transaction is begun, and so before
\* any wait for the write lock of the database.
ReadClock(g) ==
  /\ pc[g] = "clock"
  /\ Goto(g, "try")
  /\ stamp' = [stamp EXCEPT ![g] = 0]
  /\ UNCHANGED <<owner, age, lease, cut>>

\* The transaction inserts unless there is a row, reads the row back, takes
\* it over when it is another's and stale, and commits.  It writes first, so
\* it runs alone.  Its four outcomes follow; row is the age locked_at ends at.
Enter(g, row) ==
  /\ pc[g] = "try"
  /\ Goto(g, "held")
  /\ owner' = ProcOf[g]
  /\ age' = row
  /\ lease' = [lease EXCEPT ![g] = row]
  /\ stamp' = [stamp EXCEPT ![g] = 0]
  /\ UNCHANGED cut

Insert(g) == owner = Nobody /\ Enter(g, stamp[g])

\* The process owns the row already: another of its goroutines holds it, or
\* left it behind.  locked_at stays as it is.
Reenter(g) == owner = ProcOf[g] /\ Enter(g, age)

\* Another process's row, and locked_at at least lockStaleAfter ago.
IsStale(g) ==
  /\ owner \notin {Nobody, ProcOf[g]}
  /\ age >= StaleAfter

TakeOver(g) == IsStale(g) /\ Enter(g, stamp[g])

Wait(g) ==
  /\ pc[g] = "try"
  /\ owner \notin {Nobody, ProcOf[g]}
  /\ ~IsStale(g)
  /\ Goto(g, "poll")
  /\ stamp' = [stamp EXCEPT ![g] = 0]
  /\ UNCHANGED <<owner, age, lease, cut>>

\* After lockRetryDelay the loop starts over, with a new timestamp.
Retry(g) ==
  /\ pc[g] = "poll"
  /\ Goto(g, "clock")
  /\ UNCHANGED <<owner, age, stamp, lease, cut>>

\* The context is done, or the database refuses the transaction.
Fail(g) ==
  /\ pc[g] \in {"clock", "try", "poll"}
  /\ Goto(g, "idle")
  /\ stamp' = [stamp EXCEPT ![g] = 0]
  /\ UNCHANGED <<owner, age, lease, cut>>

\* The function returned deletes the row if the process still owns it.
Release(g) ==
  /\ pc[g] = "held"
  /\ Goto(g, "idle")
  /\ owner' = IF owner = ProcOf[g] THEN Nobody ELSE owner
  /\ age' = IF owner = ProcOf[g] THEN 0 ELSE age
  /\ cut' = [h \in Goroutines |->
       h # g /\ pc[h] = "held" /\ (cut[h] \/ ProcOf[h] = ProcOf[g])]
  /\ lease' = [lease EXCEPT ![g] = 0]
  /\ UNCHANGED stamp

\* Its error is ignored: the row may stay.
ReleaseFails(g) ==
  /\ pc[g] = "held"
  /\ Goto(g, "idle")
  /\ lease' = [lease EXCEPT ![g] = 0]
  /\ cut' = [cut EXCEPT ![g] = FALSE]
  /\ UNCHANGED <<owner, age, stamp>>

\* A process ends, whatever its goroutines are doing, and its row stays.
\* A restarted process has another lockOwnerID: it is another element of Procs.
Crash(p) ==
  /\ pc' = [g \in Goroutines |-> IF ProcOf[g] = p THEN "dead" ELSE pc[g]]
  /\ stamp' = [g \in Goroutines |-> IF ProcOf[g] = p THEN 0 ELSE stamp[g]]
  /\ lease' = [g \in Goroutines |-> IF ProcOf[g] = p THEN 0 ELSE lease[g]]
  /\ cut' = [g \in Goroutines |-> ProcOf[g] # p /\ cut[g]]
  /\ UNCHANGED <<owner, age>>

Older(a) == IF a < StaleAfter THEN a + 1 ELSE a

Tick ==
  /\ age' = IF owner = Nobody THEN 0 ELSE Older(age)
  /\ stamp' = [g \in Goroutines |-> IF pc[g] = "try" THEN Older(stamp[g]) ELSE stamp[g]]
  /\ lease' = [g \in Goroutines |-> IF pc[g] = "held" THEN Older(lease[g]) ELSE lease[g]]
  /\ UNCHANGED <<owner, pc, cut>>

Try(g) == Insert(g) \/ Reenter(g) \/ TakeOver(g) \/ Wait(g)

Next ==
  \/ \E g \in Goroutines :
       \/ Acquire(g) \/ ReadClock(g) \/ Try(g) \/ Retry(g) \/ Fail(g)
       \/ Release(g) \/ ReleaseFails(g)
  \/ \E p \in Procs : Crash(p)
  \/ Tick

Spec == Init /\ [][Next]_vars

\* Time passes, and a goroutine in the loop goes on with it.  Nothing says
\* that a holder ever releases, or that anybody calls.
FairSpec ==
  /\ Spec
  /\ WF_vars(Tick)
  /\ \A g \in Goroutines : WF_vars(ReadClock(g) \/ Try(g) \/ Retry(g) \/ Fail(g))

-----------------------------------------------------------------------------
TypeOK ==
  /\ owner \in Procs \cup {Nobody}
  /\ age \in Ages
  /\ pc \in [Goroutines -> {"idle", "clock", "try", "poll", "held", "dead"}]
  /\ stamp \in [Goroutines -> Ages]
  /\ lease \in [Goroutines -> Ages]
  /\ cut \in [Goroutines -> BOOLEAN]

\* g is in, on a row that was not released under it and that is not stale.
Protected(g) == pc[g] = "held" /\ ~cut[g] /\ lease[g] < StaleAfter

\* Goroutines of two processes are never both protected: as long as nobody
\* outlives its lease, and no goroutine of the same process releases early,
\* at most one process builds, whatever crashed and whatever was left behind.
ProcessesExclude ==
  \A g, h \in Goroutines : Protected(g) /\ Protected(h) => ProcOf[g] = ProcOf[h]

\* A row nobody is in on, left by a crash or by a release that failed, does
\* not block another process for ever.
OrphanIsBroken ==
  \A p \in Procs, g \in Goroutines :
    /\ ProcOf[g] # p /\ pc[g] \in {"clock", "try", "poll"}
    /\ owner = p /\ \A h \in Goroutines : ProcOf[h] = p => pc[h] # "held"
    ~> owner # p \/ pc[g] \in {"idle", "dead", "held"}
         \/ \E h \in Goroutines : ProcOf[h] = p /\ pc[h] = "held"

-----------------------------------------------------------------------------
\* Why processes exclude each other: a protected goroutine owns the row
\* through its process, and the row is exactly as old as its lease.
RowBacksProtected ==
  \A g \in Goroutines : Protected(g) => owner = ProcOf[g] /\ age = lease[g]

=============================================================================
