---------------------------- MODULE AdminReindex ----------------------------
(***************************************************************************)
(* Reindexing one dataset through vec_admin of vecadmin/api.go, beside     *)
(* other reindexes and an application that changes the shadow rows.        *)
(*                                                                         *)
(* reindex writes its transaction out as statements on a sql.DB, which     *)
(* gives each of them whatever connection is free: a connection of its     *)
(* own, always the same, if the table was made with dbpath=, one of the    *)
(* application's otherwise.  SQLite lets one connection at a time have a   *)
(* transaction that writes, and refuses a write of any other meanwhile.    *)
(*                                                                         *)
(* The rows of the dataset are told apart by the number of changes that    *)
(* led to them, an index by the rows it was built from.  Triggers delete   *)
(* the index when a row changes; queries that build it are left out, being *)
(* the matter of MatchIndex.                                               *)
(***************************************************************************)
EXTENDS Integers, FiniteSets

CONSTANTS
  Admins,     \* who reindexes; also the connection a has to itself by dbpath=
  Conns,      \* the connections of the application's pool
  Nobody,
  MaxWrites,  \* bound: changes of rows
  MaxFaults   \* bound: statements that fail

ASSUME ConnsAssumption == Admins \cap Conns = {} /\ Nobody \notin Admins \cup Conns

VARIABLES
  shared,     \* no dbpath=: reindex uses the application's pool
  committed,  \* [rows, blob]: what is in the database; blob -1 for none
  holder,     \* the connection with an open transaction, or Nobody
  draft,      \* [rows, blob]: what that transaction makes of it
  acked,      \* history: changes the application has been told are done
  faults,     \* statements that failed, at most MaxFaults
  pc,         \* pc[a]: the statement a does next
  conn,       \* conn[a]: the connection of the query of vec_admin itself
  cursor,     \* cursor[a]: the connection its open sql.Rows keep
  read,       \* read[a]: the rows it has read
  told        \* told[a]: what the last reindex of a has returned

data == <<committed, holder, draft>>
local == <<pc, conn, cursor, read, told>>
vars == <<shared, data, acked, faults, local>>

None == -1

-----------------------------------------------------------------------------
(* Connections and the transaction.                                        *)

FreeConns == Conns \ ({conn[a] : a \in Admins} \cup {cursor[a] : a \in Admins})

\* Mutated form of Usable: the pool opened for dbpath= is not used.
UsableIgnoresPath(a) == FreeConns

\* The connections db.ExecContext may find for a.
Usable(a) == IF shared THEN FreeConns ELSE {a} \ {cursor[a]}

Seen(c) == IF holder = c THEN draft ELSE committed

\* A statement on c changes the database to d, or the transaction of c.
Put(c, d) ==
  IF holder = c THEN draft' = d /\ UNCHANGED committed
                ELSE committed' = d /\ UNCHANGED draft

Busy(c) == holder \notin {Nobody, c}

Goto(a, label) == pc' = [pc EXCEPT ![a] = label]

-----------------------------------------------------------------------------
(* Mutated forms.                                                          *)

\* There is no BEGIN.
BeginForgotten(a) ==
  /\ pc[a] = "begin"
  /\ Usable(a) # {}
  /\ Goto(a, "select")
  /\ UNCHANGED <<shared, data, acked, faults, conn, cursor, read, told>>

\* BEGIN is tried again until it succeeds.
BeginRetries(a) ==
  /\ pc[a] = "begin"
  /\ \E c \in Usable(a) :
       IF holder = Nobody
       THEN holder' = c /\ draft' = committed /\ Goto(a, "select")
       ELSE UNCHANGED <<holder, draft, pc>>
  /\ UNCHANGED <<shared, committed, acked, faults, conn, cursor, read, told>>

\* There is no deferred ROLLBACK.
RollbackForgotten(a) ==
  /\ pc[a] = "rollback"
  /\ Goto(a, "done")
  /\ UNCHANGED <<shared, data, acked, faults, conn, cursor, read, told>>

\* rows.Close is deferred before ROLLBACK is, so runs after it.
StatementFailsKeepsRows(a) ==
  /\ \/ pc[a] \in {"begin", "select", "insert", "commit"} /\ Usable(a) # {}
     \/ pc[a] = "scan"
  /\ faults < MaxFaults
  /\ faults' = faults + 1
  /\ Goto(a, IF pc[a] = "begin" THEN "done" ELSE "rollback")
  /\ told' = [told EXCEPT ![a] = "error"]
  /\ UNCHANGED <<shared, data, acked, conn, cursor, read>>

\* The error of COMMIT is dropped.
StatementFailsUnseen(a) ==
  /\ \/ pc[a] \in {"begin", "select", "insert", "commit"} /\ Usable(a) # {}
     \/ pc[a] = "scan"
  /\ faults < MaxFaults
  /\ faults' = faults + 1
  /\ Goto(a, IF pc[a] = "begin" THEN "done" ELSE "rollback")
  /\ cursor' = [cursor EXCEPT ![a] = Nobody]
  /\ told' = [told EXCEPT ![a] = IF pc[a] = "commit" THEN "reindexed" ELSE "error"]
  /\ UNCHANGED <<shared, data, acked, conn, read>>

-----------------------------------------------------------------------------
Init ==
  /\ shared \in BOOLEAN
  /\ committed = [rows |-> 0, blob |-> None]
  /\ holder = Nobody
  /\ draft = committed
  /\ acked = 0
  /\ faults = 0
  /\ pc = [a \in Admins |-> "idle"]
  /\ conn = [a \in Admins |-> Nobody]
  /\ cursor = [a \in Admins |-> Nobody]
  /\ read = [a \in Admins |-> 0]
  /\ told = [a \in Admins |-> "nothing"]

\* SELECT op FROM vec_admin: Filter runs while the query has a connection.
Call(a) ==
  /\ pc[a] = "idle"
  /\ \E c \in FreeConns : conn' = [conn EXCEPT ![a] = c]
  /\ Goto(a, "begin")
  /\ told' = [told EXCEPT ![a] = "nothing"]
  /\ UNCHANGED <<shared, data, acked, faults, cursor, read>>

\* BEGIN IMMEDIATE.  The ROLLBACK is deferred only if it succeeds.
Begin(a) ==
  /\ pc[a] = "begin"
  /\ \E c \in Usable(a) :
       IF holder = Nobody
       THEN /\ holder' = c
            /\ draft' = committed
            /\ Goto(a, "select")
            /\ UNCHANGED told
       ELSE /\ Goto(a, "done")
            /\ told' = [told EXCEPT ![a] = "error"]
            /\ UNCHANGED <<holder, draft>>
  /\ UNCHANGED <<shared, committed, acked, faults, conn, cursor, read>>

Select(a) ==
  /\ pc[a] = "select"
  /\ \E c \in Usable(a) :
       /\ cursor' = [cursor EXCEPT ![a] = c]
       /\ read' = [read EXCEPT ![a] = Seen(c).rows]
  /\ Goto(a, "scan")
  /\ UNCHANGED <<shared, data, acked, faults, conn, told>>

\* The loop over the rows, the last of which gives the connection back, and
\* the index built from them.
Scan(a) ==
  /\ pc[a] = "scan"
  /\ cursor' = [cursor EXCEPT ![a] = Nobody]
  /\ Goto(a, "insert")
  /\ UNCHANGED <<shared, data, acked, faults, conn, read, told>>

\* INSERT OR REPLACE INTO vector_storage.
Insert(a) ==
  /\ pc[a] = "insert"
  /\ \E c \in Usable(a) :
       IF Busy(c)
       THEN /\ Goto(a, "rollback")
            /\ told' = [told EXCEPT ![a] = "error"]
            /\ UNCHANGED <<committed, draft>>
       ELSE /\ Put(c, [Seen(c) EXCEPT !.blob = read[a]])
            /\ Goto(a, "commit")
            /\ UNCHANGED told
  /\ UNCHANGED <<shared, holder, acked, faults, conn, cursor, read>>

\* COMMIT, an error where no transaction is open.
Commit(a) ==
  /\ pc[a] = "commit"
  /\ \E c \in Usable(a) :
       IF holder = c
       THEN /\ committed' = draft
            /\ holder' = Nobody
            /\ told' = [told EXCEPT ![a] = "reindexed"]
       ELSE /\ told' = [told EXCEPT ![a] = "error"]
            /\ UNCHANGED <<committed, holder>>
  /\ Goto(a, "rollback")
  /\ UNCHANGED <<shared, draft, acked, faults, conn, cursor, read>>

\* The deferred ROLLBACK, after a COMMIT too; its error is ignored.
Rollback(a) ==
  /\ pc[a] = "rollback"
  /\ \E c \in Usable(a) : holder' = IF holder = c THEN Nobody ELSE holder
  /\ Goto(a, "done")
  /\ UNCHANGED <<shared, committed, draft, acked, faults, conn, cursor, read, told>>

\* A statement fails, or a row cannot be decoded: rows.Close was deferred
\* last, so it is called before ROLLBACK.
StatementFails(a) ==
  /\ \/ pc[a] \in {"begin", "select", "insert", "commit"} /\ Usable(a) # {}
     \/ pc[a] = "scan"
  /\ faults < MaxFaults
  /\ faults' = faults + 1
  /\ Goto(a, IF pc[a] = "begin" THEN "done" ELSE "rollback")
  /\ cursor' = [cursor EXCEPT ![a] = Nobody]
  /\ told' = [told EXCEPT ![a] = "error"]
  /\ UNCHANGED <<shared, data, acked, conn, read>>

\* Filter returns; its query gives its connection back.
Return(a) ==
  /\ pc[a] = "done"
  /\ Goto(a, "idle")
  /\ conn' = [conn EXCEPT ![a] = Nobody]
  /\ read' = [read EXCEPT ![a] = 0]
  /\ UNCHANGED <<shared, data, acked, faults, cursor, told>>

\* The application changes a row, whose trigger deletes the index.
Write ==
  /\ acked < MaxWrites
  /\ \E c \in FreeConns :
       /\ ~Busy(c)
       /\ Put(c, [rows |-> Seen(c).rows + 1, blob |-> None])
  /\ acked' = acked + 1
  /\ UNCHANGED <<shared, holder, faults, local>>

-----------------------------------------------------------------------------
Step(a) ==
  \/ Begin(a) \/ Select(a) \/ Scan(a) \/ Insert(a) \/ Commit(a)
  \/ Rollback(a) \/ StatementFails(a) \/ Return(a)

Next == Write \/ \E a \in Admins : Call(a) \/ Step(a)

Spec == Init /\ [][Next]_vars

\* database/sql hands connections out in the order they are asked for.
FairSpec == Spec /\ \A a \in Admins : SF_vars(Step(a))

-----------------------------------------------------------------------------
Labels == {"idle", "begin", "select", "scan", "insert", "commit", "rollback", "done"}

TypeOK ==
  /\ shared \in BOOLEAN
  /\ {committed, draft} \subseteq [rows : Nat, blob : Nat \cup {None}]
  /\ holder \in Conns \cup Admins \cup {Nobody}
  /\ acked \in Nat /\ faults \in Nat
  /\ pc \in [Admins -> Labels]
  /\ conn \in [Admins -> Conns \cup {Nobody}]
  /\ cursor \in [Admins -> Conns \cup Admins \cup {Nobody}]
  /\ read \in [Admins -> Nat]
  /\ told \in [Admins -> {"nothing", "reindexed", "error"}]
  /\ \A a \in Admins : pc[a] = "scan" <=> cursor[a] # Nobody

\* With dbpath=, an index in vector_storage is of the rows as they are,
\* however reindexes and changes of rows interleave.
BlobIsCurrent == ~shared => committed.blob \in {None, committed.rows}

\* With dbpath=, a transaction is open only while its reindex runs: writers
\* are not locked out for good by one that failed.
TransactionsEnd ==
  ~shared /\ holder # Nobody =>
    holder \in Admins /\ pc[holder] \in {"select", "scan", "insert", "commit", "rollback"}

\* With dbpath=, no change that the application was told is done is swept up
\* in the transaction of a reindex and rolled back with it.
AcknowledgedWritesStay == ~shared => committed.rows = acked

\* With dbpath=, a reindex that says so has stored an index of all the rows.
ReindexedIsStored ==
  [][~shared => \A a \in Admins :
       told[a] # "reindexed" /\ told'[a] = "reindexed" =>
         committed' = [rows |-> acked, blob |-> acked]]_vars

\* With dbpath=, the statements of a reindex are as good as one: it stores an
\* index of all the rows at once and says so, or fails and leaves everything as
\* it was.  Without dbpath= nothing is promised.
Promise == INSTANCE ReindexPromise WITH
  rows <- IF shared THEN 0 ELSE committed.rows,
  index <- IF shared THEN None ELSE committed.blob,
  busy <- [a \in Admins |-> ~shared /\ pc[a] # "idle"],
  told <- IF shared THEN [a \in Admins |-> "nothing"] ELSE told

KeepsThePromise == Promise!Spec

\* The next statement of a waits for a connection.
Waits(a) ==
  pc[a] \in {"begin", "select", "insert", "commit", "rollback"} /\ Usable(a) = {}

\* Reindexes never all wait for each other's connections: with dbpath= none
\* ever waits, and without it one can go on, though each keeps the connection
\* of its query and another one while it reads rows, if there is a connection
\* more than there are reindexes.
SomebodyGoesOn ==
  /\ ~shared => \A a \in Admins : ~Waits(a)
  /\ Cardinality(Conns) > Cardinality(Admins) =>
       \A a \in Admins : pc[a] # "idle" =>
         \E b \in Admins : pc[b] # "idle" /\ ~Waits(b)

\* Every reindex returns, whichever statement fails, if there is a
\* connection more than there are reindexes.
EveryReindexReturns == \A a \in Admins : pc[a] # "idle" ~> pc[a] = "idle"

=============================================================================
