------------------------- MODULE AdminReindexProofs -------------------------
(***************************************************************************)
(* Proofs about reindexing over a connection of its own, for any number of *)
(* reindexes at once, connections of the application and changes of rows.  *)
(***************************************************************************)
EXTENDS AdminReindex, FiniteSetTheorems, TLAPS

Within == {"select", "scan", "insert", "commit"}

\* The transaction is that of the reindex that runs, and holds what it has
\* read; nobody has changed a row since.
OwnInv ==
  /\ holder \in Admins \cup {Nobody}
  /\ holder # Nobody =>
       pc[holder] \in Within \cup {"rollback"} /\ draft.rows = committed.rows
  /\ \A a \in Admins :
       /\ pc[a] \in Within => holder = a
       /\ pc[a] \in {"insert", "scan", "commit"} => read[a] = committed.rows
       /\ pc[a] = "commit" => draft = [rows |-> read[a], blob |-> read[a]]
  /\ committed.rows = acked
  /\ committed.blob \in {None, committed.rows}

Inv == TypeOK /\ (~shared => OwnInv)

\* The invariant holds at first.
LEMMA InitialInv == Init => Inv
<1> SUFFICES ASSUME Init PROVE Inv
  OBVIOUS
<1>1. TypeOK
  BY ConnsAssumption DEF Init, TypeOK, Labels, None
<1>2. OwnInv
  BY DEF Init, OwnInv, Within, None
<1>3. QED
  BY <1>1, <1>2 DEF Inv

\* What a connection sees is rows and an index.
LEMMA SeenType ==
  ASSUME TypeOK, NEW c
  PROVE  /\ Seen(c) \in [rows : Nat, blob : Nat \cup {None}]
         /\ Seen(c).rows \in Nat
BY DEF TypeOK, Seen

\* Every step keeps the types.
LEMMA TypesKept == TypeOK /\ [Next]_vars => TypeOK'
<1> SUFFICES ASSUME TypeOK, [Next]_vars PROVE TypeOK'
  OBVIOUS
<1>1. \A a \in Admins, label \in Labels : Goto(a, label) => pc' \in [Admins -> Labels]
  BY DEF TypeOK, Goto
<1>2. \A a \in Admins : Usable(a) \subseteq Conns \cup Admins
  BY DEF Usable, FreeConns
<1>3. ASSUME NEW c, NEW d \in [rows : Nat, blob : Nat \cup {None}], Put(c, d)
      PROVE  {committed', draft'} \subseteq [rows : Nat, blob : Nat \cup {None}]
  BY <1>3 DEF Put, TypeOK
<1>4. ASSUME NEW a \in Admins, Call(a)
      PROVE  TypeOK'
  <2>1. PICK c \in Conns : conn' = [conn EXCEPT ![a] = c]
    BY <1>4 DEF Call, FreeConns
  <2>2. QED
    BY <1>1, <1>4, <2>1 DEF Call, TypeOK, Labels, Goto, data
<1>5. ASSUME NEW a \in Admins, Begin(a)
      PROVE  TypeOK'
  <2>1. PICK c \in Usable(a) :
          IF holder = Nobody
          THEN holder' = c /\ draft' = committed /\ Goto(a, "select") /\ UNCHANGED told
          ELSE /\ Goto(a, "done") /\ told' = [told EXCEPT ![a] = "error"]
               /\ UNCHANGED <<holder, draft>>
    BY <1>5 DEF Begin
  <2>2. holder' \in Conns \cup Admins \cup {Nobody} /\ pc' \in [Admins -> Labels]
    BY <1>1, <1>2, <2>1 DEF TypeOK, Labels
  <2>3. \A b \in Admins : pc'[b] = "scan" <=> pc[b] = "scan"
    BY <1>5, <2>1 DEF Begin, Goto, TypeOK
  <2>4. QED
    BY <1>5, <2>1, <2>2, <2>3 DEF Begin, TypeOK
<1>6. ASSUME NEW a \in Admins, Select(a)
      PROVE  TypeOK'
  <2>1. PICK c \in Usable(a) : /\ cursor' = [cursor EXCEPT ![a] = c]
                               /\ read' = [read EXCEPT ![a] = Seen(c).rows]
    BY <1>6 DEF Select
  <2>2. c \in Conns \cup Admins /\ c # Nobody /\ Seen(c).rows \in Nat
    BY <1>2, SeenType, ConnsAssumption
  <2>3. QED
    BY <1>1, <1>6, <2>1, <2>2 DEF Select, TypeOK, Labels, Goto, data
<1>7. ASSUME NEW a \in Admins, Scan(a)
      PROVE  TypeOK'
  BY <1>1, <1>7 DEF Scan, TypeOK, Labels, Goto, data
<1>8. ASSUME NEW a \in Admins, Insert(a)
      PROVE  TypeOK'
  <2>1. PICK c \in Usable(a) :
          IF Busy(c)
          THEN /\ Goto(a, "rollback") /\ told' = [told EXCEPT ![a] = "error"]
               /\ UNCHANGED <<committed, draft>>
          ELSE /\ Put(c, [Seen(c) EXCEPT !.blob = read[a]])
               /\ Goto(a, "commit") /\ UNCHANGED told
    BY <1>8 DEF Insert
  <2>2. [Seen(c) EXCEPT !.blob = read[a]] \in [rows : Nat, blob : Nat \cup {None}]
    BY SeenType DEF TypeOK
  <2>3. {committed', draft'} \subseteq [rows : Nat, blob : Nat \cup {None}]
    BY <1>3, <2>1, <2>2 DEF TypeOK
  <2>4. pc' \in [Admins -> Labels] /\ told' \in [Admins -> {"nothing", "reindexed", "error"}]
    BY <1>1, <2>1 DEF TypeOK, Labels
  <2>5. \A b \in Admins : pc'[b] = "scan" <=> pc[b] = "scan"
    BY <1>8, <2>1 DEF Insert, Goto, TypeOK
  <2>6. QED
    BY <1>8, <2>3, <2>4, <2>5 DEF Insert, TypeOK
<1>9. ASSUME NEW a \in Admins, Commit(a)
      PROVE  TypeOK'
  <2>1. /\ \/ committed' = draft /\ holder' = Nobody
           \/ UNCHANGED <<committed, holder>>
        /\ \E x \in {"reindexed", "error"} : told' = [told EXCEPT ![a] = x]
        /\ pc[a] = "commit" /\ Goto(a, "rollback")
        /\ UNCHANGED <<shared, draft, acked, faults, conn, cursor, read>>
    BY <1>9 DEF Commit
  <2>2. told' \in [Admins -> {"nothing", "reindexed", "error"}]
    BY <2>1 DEF TypeOK
  <2>3. \A b \in Admins : pc'[b] = "scan" <=> pc[b] = "scan"
    BY <2>1 DEF Goto, TypeOK
  <2>4. QED
    BY <1>1, <2>1, <2>2, <2>3 DEF TypeOK, Labels
<1>10. ASSUME NEW a \in Admins, Rollback(a)
       PROVE  TypeOK'
  BY <1>1, <1>10 DEF Rollback, TypeOK, Labels, Goto
<1>11. ASSUME NEW a \in Admins, StatementFails(a)
       PROVE  TypeOK'
  <2>1. pc' = [pc EXCEPT ![a] = IF pc[a] = "begin" THEN "done" ELSE "rollback"]
    BY <1>11 DEF StatementFails, Goto
  <2>2. pc' \in [Admins -> Labels]
    BY <2>1 DEF TypeOK, Labels
  <2>3. QED
    BY <1>11, <2>1, <2>2 DEF StatementFails, TypeOK, data
<1>12. ASSUME NEW a \in Admins, Return(a)
       PROVE  TypeOK'
  BY <1>1, <1>12 DEF Return, TypeOK, Labels, Goto, data
<1>13. CASE Write
  <2>1. PICK c \in FreeConns : Put(c, [rows |-> Seen(c).rows + 1, blob |-> None])
    BY <1>13 DEF Write
  <2>2. [rows |-> Seen(c).rows + 1, blob |-> None] \in [rows : Nat, blob : Nat \cup {None}]
    BY SeenType
  <2>3. {committed', draft'} \subseteq [rows : Nat, blob : Nat \cup {None}]
    BY <1>3, <2>1, <2>2
  <2>4. QED
    BY <1>13, <2>3 DEF Write, TypeOK, local
<1>14. CASE UNCHANGED vars
  BY <1>14 DEF vars, data, local, TypeOK
<1>15. QED
  BY <1>4, <1>5, <1>6, <1>7, <1>8, <1>9, <1>10, <1>11, <1>12, <1>13, <1>14 DEF Next, Step

\* With dbpath=, every step keeps the transaction that of its reindex.
LEMMA OwnKept ==
  ASSUME TypeOK, ~shared, OwnInv, [Next]_vars
  PROVE  OwnInv'
<1> USE DEF Within
<1>1. \A a \in Admins : Usable(a) \subseteq {a}
  BY DEF Usable
<1>2. Nobody \notin Admins
  BY ConnsAssumption
<1>3. ASSUME NEW a \in Admins, Call(a) \/ Scan(a) \/ Return(a)
      PROVE  OwnInv'
  BY <1>2, <1>3 DEF Call, Scan, Return, OwnInv, TypeOK, Goto, data
<1>4. ASSUME NEW a \in Admins, Begin(a)
      PROVE  OwnInv'
  <2>1. \/ /\ holder = Nobody /\ holder' = a /\ draft' = committed
           /\ Goto(a, "select")
        \/ holder # Nobody /\ Goto(a, "done") /\ UNCHANGED <<holder, draft>>
    BY <1>1, <1>4 DEF Begin
  <2>2. pc[a] = "begin" /\ UNCHANGED <<committed, acked, read>>
    BY <1>4 DEF Begin
  <2>3. QED
    BY <1>2, <2>1, <2>2 DEF OwnInv, TypeOK, Goto
<1>5. ASSUME NEW a \in Admins, Select(a)
      PROVE  OwnInv'
  <2>1. pc[a] = "select" /\ holder = a
    BY <1>5 DEF Select, OwnInv
  <2>2. read' = [read EXCEPT ![a] = committed.rows]
    BY <1>1, <1>2, <1>5, <2>1 DEF Select, Seen, OwnInv
  <2>3. QED
    BY <1>2, <1>5, <2>1, <2>2 DEF Select, OwnInv, TypeOK, Goto, data
<1>6. ASSUME NEW a \in Admins, Insert(a)
      PROVE  OwnInv'
  <2>1. pc[a] = "insert" /\ holder = a /\ read[a] = committed.rows
    BY <1>6 DEF Insert, OwnInv
  <2>2. /\ Put(a, [Seen(a) EXCEPT !.blob = read[a]]) /\ Goto(a, "commit")
        /\ UNCHANGED <<holder, acked, read>>
    BY <1>1, <1>6, <2>1 DEF Insert, Busy
  <2>3. draft' = [draft EXCEPT !.blob = read[a]] /\ committed' = committed
    BY <2>1, <2>2 DEF Put, Seen
  <2>4. draft' = [rows |-> read[a], blob |-> read[a]]
    BY <1>2, <2>1, <2>3 DEF OwnInv, TypeOK
  <2>5. QED
    BY <1>2, <2>1, <2>2, <2>3, <2>4 DEF OwnInv, TypeOK, Goto
<1>7. ASSUME NEW a \in Admins, Commit(a)
      PROVE  OwnInv'
  <2>1. pc[a] = "commit" /\ holder = a /\ draft = [rows |-> acked, blob |-> acked]
    BY <1>7 DEF Commit, OwnInv
  <2>2. /\ committed' = draft /\ holder' = Nobody /\ Goto(a, "rollback")
        /\ UNCHANGED <<acked, read>>
    BY <1>1, <1>7, <2>1 DEF Commit
  <2>3. QED
    BY <1>2, <2>1, <2>2 DEF OwnInv, TypeOK, Goto
<1>8. ASSUME NEW a \in Admins, Rollback(a)
      PROVE  OwnInv'
  <2>1. /\ pc[a] = "rollback" /\ holder' = (IF holder = a THEN Nobody ELSE holder)
        /\ Goto(a, "done") /\ UNCHANGED <<committed, draft, acked, read>>
    BY <1>1, <1>8 DEF Rollback
  <2>2. QED
    BY <1>2, <2>1 DEF OwnInv, TypeOK, Goto
<1>9. ASSUME NEW a \in Admins, StatementFails(a)
      PROVE  OwnInv'
  <2>1. pc[a] \in {"begin", "select", "scan", "insert", "commit"}
    BY <1>9 DEF StatementFails
  <2>2. /\ pc' = [pc EXCEPT ![a] = IF pc[a] = "begin" THEN "done" ELSE "rollback"]
        /\ UNCHANGED <<committed, holder, draft, acked, read>>
    BY <1>9 DEF StatementFails, Goto, data
  <2>3. QED
    BY <1>2, <2>1, <2>2 DEF OwnInv, TypeOK
<1>10. CASE Write
  <2>1. PICK c \in FreeConns : ~Busy(c) /\ Put(c, [rows |-> Seen(c).rows + 1, blob |-> None])
    BY <1>10 DEF Write
  <2>2. c \in Conns /\ c \notin Admins
    BY ConnsAssumption DEF FreeConns
  <2>3. holder = Nobody
    BY <2>1, <2>2 DEF Busy, OwnInv
  <2>4. c # Nobody
    BY <2>2, ConnsAssumption
  <2>5. committed' = [rows |-> committed.rows + 1, blob |-> None] /\ draft' = draft
    BY <2>1, <2>3, <2>4 DEF Put, Seen
  <2>6. acked' = acked + 1 /\ UNCHANGED <<holder, pc, read>>
    BY <1>10 DEF Write, local
  <2>7. \A a \in Admins : pc[a] \notin Within
    BY <1>2, <2>3 DEF OwnInv
  <2>8. QED
    BY <2>3, <2>5, <2>6, <2>7 DEF OwnInv
<1>11. CASE UNCHANGED vars
  BY <1>11 DEF vars, data, local, OwnInv
<1>12. QED
  BY <1>3, <1>4, <1>5, <1>6, <1>7, <1>8, <1>9, <1>10, <1>11 DEF Next, Step

\* So every step keeps the invariant.
LEMMA InvKept == Inv /\ [Next]_vars => Inv'
<1>1. [Next]_vars => shared' = shared
  BY DEF Next, Step, Call, Begin, Select, Scan, Insert, Commit, Rollback,
         StatementFails, Return, Write, vars
<1>2. QED
  BY <1>1, TypesKept, OwnKept DEF Inv

\* Connections, transaction and admins stay well formed, with a pool of
\* their own or without.
THEOREM TypeCorrect == Spec => []TypeOK
BY InitialInv, TypesKept, PTL DEF Spec, Inv

\* With dbpath=, what a reindex stores is an index of the rows as they are.
THEOREM BlobStaysCurrent == Spec => []BlobIsCurrent
<1>1. Inv => BlobIsCurrent
  BY DEF Inv, OwnInv, BlobIsCurrent
<1>2. QED
  BY InitialInv, InvKept, <1>1, PTL DEF Spec

\* With dbpath=, no reindex leaves a transaction open behind it.
THEOREM NoTransactionLeft == Spec => []TransactionsEnd
<1>1. Inv => TransactionsEnd
  BY DEF Inv, OwnInv, TransactionsEnd, Within
<1>2. QED
  BY InitialInv, InvKept, <1>1, PTL DEF Spec

\* With dbpath=, a ROLLBACK takes no change of the application with it.
THEOREM WritesStay == Spec => []AcknowledgedWritesStay
<1>1. Inv => AcknowledgedWritesStay
  BY DEF Inv, OwnInv, AcknowledgedWritesStay
<1>2. QED
  BY InitialInv, InvKept, <1>1, PTL DEF Spec

\* With dbpath=, "reindexed" means that an index of all the rows is stored.
THEOREM SuccessIsStored == Spec => ReindexedIsStored
<1> DEFINE Stored == ~shared => \A a \in Admins :
             told[a] # "reindexed" /\ told'[a] = "reindexed" =>
               committed' = [rows |-> acked, blob |-> acked]
<1>1. Inv /\ [Next]_vars => [Stored]_vars
  <2> SUFFICES ASSUME Inv, Next, ~shared, NEW b \in Admins,
                      told[b] # "reindexed", told'[b] = "reindexed"
               PROVE  committed' = [rows |-> acked, blob |-> acked]
    OBVIOUS
  <2>1. TypeOK /\ OwnInv
    BY DEF Inv
  <2>2. ASSUME NEW a \in Admins, Call(a) \/ Step(a), ~Commit(a)
        PROVE  FALSE
    <3>1. told' = told \/ \E x \in {"nothing", "error"} : told' = [told EXCEPT ![a] = x]
      BY <2>2 DEF Step, Call, Begin, Select, Scan, Insert, Rollback, StatementFails, Return
    <3>2. QED
      BY <2>1, <3>1 DEF TypeOK
  <2>3. ASSUME NEW a \in Admins, Commit(a)
        PROVE  committed' = [rows |-> acked, blob |-> acked]
    <3>1. pc[a] = "commit" /\ holder = a /\ draft = [rows |-> acked, blob |-> acked]
      BY <2>1, <2>3 DEF Commit, OwnInv, Within
    <3>2. committed' = draft
      BY <2>3, <3>1 DEF Commit, Usable
    <3>3. QED
      BY <3>1, <3>2
  <2>4. CASE Write
    BY <2>4 DEF Write, local
  <2>5. QED
    BY <2>2, <2>3, <2>4 DEF Next
<1>2. QED
  BY InitialInv, InvKept, <1>1, PTL DEF Spec, ReindexedIsStored

-----------------------------------------------------------------------------
(* The refinement of ReindexPromise.                                       *)

\* What a reindex has come to is known once it has nothing left to do but to
\* roll back and return, and not before.
Telling ==
  \A a \in Admins :
    /\ pc[a] \in Within \cup {"begin"} => told[a] = "nothing"
    /\ pc[a] \in {"rollback", "done"} => told[a] # "nothing"

\* Every step keeps it.
LEMMA TellingKept ==
  ASSUME TypeOK, ~shared, OwnInv, Telling, [Next]_vars
  PROVE  Telling'
<1> USE DEF Within
<1>1. ASSUME NEW a \in Admins, Call(a) \/ Select(a) \/ Scan(a) \/ Return(a) \/ Rollback(a)
      PROVE  Telling'
  BY <1>1 DEF Call, Select, Scan, Return, Rollback, Telling, TypeOK, Goto
<1>2. ASSUME NEW a \in Admins, Begin(a) \/ Insert(a) \/ Commit(a) \/ StatementFails(a)
      PROVE  Telling'
  <2>1. \/ UNCHANGED told /\ (pc' = [pc EXCEPT ![a] = "select"] \/ pc' = [pc EXCEPT ![a] = "commit"])
        \/ /\ told' = [told EXCEPT ![a] = "error"] \/ told' = [told EXCEPT ![a] = "reindexed"]
           /\ pc' = [pc EXCEPT ![a] = "rollback"] \/ pc' = [pc EXCEPT ![a] = "done"]
    BY <1>2 DEF Begin, Insert, Commit, StatementFails, Goto
  <2>2. pc[a] \in Within \cup {"begin"}
    BY <1>2 DEF Begin, Insert, Commit, StatementFails
  <2>3. QED
    BY <2>1, <2>2 DEF Telling, TypeOK
<1>3. CASE Write
  BY <1>3 DEF Write, local, Telling
<1>4. CASE UNCHANGED vars
  BY <1>4 DEF vars, local, Telling
<1>5. QED
  BY <1>1, <1>2, <1>3, <1>4 DEF Next, Step

\* Without dbpath= nothing that is promised ever changes.
LEMMA SharedStutters ==
  ASSUME shared, shared' = shared
  PROVE  UNCHANGED Promise!vars
BY DEF Promise!vars

\* With dbpath=, what each step does to the rows, the index and what is told.
LEMMA StepPromised ==
  ASSUME TypeOK, TypeOK', ~shared, ~shared', OwnInv, Telling, [Next]_vars
  PROVE  [Promise!Next]_(Promise!vars)
<1> USE DEF Within, Promise!vars
<1> DEFINE Running == [a \in Admins |-> ~shared /\ pc[a] # "idle"]
<1>1. \A a \in Admins : Usable(a) \subseteq {a}
  BY DEF Usable
<1>2. Nobody \notin Admins
  BY ConnsAssumption
<1>3. ASSUME NEW a \in Admins, UNCHANGED <<committed, told>>, pc[a] # "idle",
             NEW label, label # "idle", pc' = [pc EXCEPT ![a] = label]
      PROVE  UNCHANGED Promise!vars
  <2>1. Running' = Running
    BY <1>3 DEF TypeOK
  <2>2. QED
    BY <1>3, <2>1
<1>4. ASSUME NEW a \in Admins, UNCHANGED committed, pc[a] \in Within \cup {"begin"},
             NEW label, label # "idle", pc' = [pc EXCEPT ![a] = label],
             told' = [told EXCEPT ![a] = "error"]
      PROVE  Promise!Fail(a)
  <2>1. Running' = Running /\ Running[a]
    BY <1>4 DEF TypeOK
  <2>2. told[a] = "nothing"
    BY <1>4 DEF Telling
  <2>3. QED
    BY <1>4, <2>1, <2>2 DEF Promise!Fail
<1>5. ASSUME NEW a \in Admins, Call(a)
      PROVE  Promise!Call(a)
  <2>1. /\ pc[a] = "idle" /\ pc' = [pc EXCEPT ![a] = "begin"]
        /\ told' = [told EXCEPT ![a] = "nothing"] /\ UNCHANGED committed
    BY <1>5 DEF Call, Goto, data
  <2>2. Running' = [Running EXCEPT ![a] = TRUE] /\ ~Running[a]
    BY <2>1 DEF TypeOK
  <2>3. QED
    BY <2>1, <2>2 DEF Promise!Call
<1>6. ASSUME NEW a \in Admins, Begin(a)
      PROVE  Promise!Fail(a) \/ UNCHANGED Promise!vars
  <2>1. /\ pc[a] = "begin" /\ UNCHANGED committed
        /\ \/ pc' = [pc EXCEPT ![a] = "select"] /\ UNCHANGED told
           \/ pc' = [pc EXCEPT ![a] = "done"] /\ told' = [told EXCEPT ![a] = "error"]
    BY <1>6 DEF Begin, Goto
  <2>2. QED
    BY <1>3, <1>4, <2>1
<1>7. ASSUME NEW a \in Admins, Select(a) \/ Scan(a) \/ Rollback(a)
      PROVE  UNCHANGED Promise!vars
  <2>1. /\ pc[a] # "idle" /\ UNCHANGED <<committed, told>>
        /\ \E label \in {"scan", "insert", "done"} : pc' = [pc EXCEPT ![a] = label]
    BY <1>7 DEF Select, Scan, Rollback, Goto, data
  <2>2. QED
    BY <1>3, <2>1
<1>8. ASSUME NEW a \in Admins, Insert(a)
      PROVE  UNCHANGED Promise!vars
  <2>1. pc[a] = "insert" /\ holder = a
    BY <1>8 DEF Insert, OwnInv
  <2>2. /\ Put(a, [Seen(a) EXCEPT !.blob = read[a]]) /\ pc' = [pc EXCEPT ![a] = "commit"]
        /\ UNCHANGED told
    BY <1>1, <1>8, <2>1 DEF Insert, Busy, Goto
  <2>3. UNCHANGED committed
    BY <2>1, <2>2 DEF Put
  <2>4. QED
    BY <1>3, <2>1, <2>2, <2>3
<1>9. ASSUME NEW a \in Admins, Commit(a)
      PROVE  Promise!Reindex(a)
  <2>1. /\ pc[a] = "commit" /\ holder = a
        /\ draft = [rows |-> committed.rows, blob |-> committed.rows]
    BY <1>9 DEF Commit, OwnInv
  <2>2. /\ committed' = draft /\ told' = [told EXCEPT ![a] = "reindexed"]
        /\ pc' = [pc EXCEPT ![a] = "rollback"]
    BY <1>1, <1>9, <2>1 DEF Commit, Goto
  <2>3. Running' = Running /\ Running[a]
    BY <2>1, <2>2 DEF TypeOK
  <2>4. told[a] = "nothing"
    BY <2>1 DEF Telling
  <2>5. committed'.rows = committed.rows /\ committed'.blob = committed.rows
    BY <2>1, <2>2
  <2>6. QED
    BY <2>2, <2>3, <2>4, <2>5 DEF Promise!Reindex
<1>10. ASSUME NEW a \in Admins, StatementFails(a)
       PROVE  Promise!Fail(a)
  <2>1. /\ pc[a] \in Within \cup {"begin"} /\ UNCHANGED committed
        /\ told' = [told EXCEPT ![a] = "error"]
        /\ pc' = [pc EXCEPT ![a] = IF pc[a] = "begin" THEN "done" ELSE "rollback"]
    BY <1>10 DEF StatementFails, Goto, data
  <2>2. QED
    BY <1>4, <2>1
<1>11. ASSUME NEW a \in Admins, Return(a)
       PROVE  Promise!Return(a)
  <2>1. /\ pc[a] = "done" /\ pc' = [pc EXCEPT ![a] = "idle"]
        /\ UNCHANGED <<committed, told>>
    BY <1>11 DEF Return, Goto, data
  <2>2. Running' = [Running EXCEPT ![a] = FALSE] /\ Running[a]
    BY <2>1 DEF TypeOK
  <2>3. told[a] # "nothing"
    BY <2>1 DEF Telling
  <2>4. QED
    BY <2>1, <2>2, <2>3 DEF Promise!Return
<1>12. CASE Write
  <2>1. PICK c \in FreeConns : ~Busy(c) /\ Put(c, [rows |-> Seen(c).rows + 1, blob |-> None])
    BY <1>12 DEF Write
  <2>2. c \in Conns /\ c \notin Admins /\ c # Nobody
    BY <2>1, ConnsAssumption DEF FreeConns
  <2>3. committed' = [rows |-> committed.rows + 1, blob |-> None]
    BY <2>1, <2>2 DEF Busy, OwnInv, Put, Seen
  <2>4. UNCHANGED <<pc, told>>
    BY <1>12 DEF Write, local
  <2>5. committed'.rows = committed.rows + 1 /\ committed'.blob = None
    BY <2>3
  <2>6. Promise!Change
    BY <2>4, <2>5 DEF Promise!Change, None
  <2>7. QED
    BY <2>6 DEF Promise!Next
<1>13. CASE UNCHANGED vars
  BY <1>13 DEF vars, data, local
<1>14. ASSUME NEW a \in Admins, Call(a) \/ Step(a)
       PROVE  [Promise!Next]_(Promise!vars)
  <2>1. \/ Promise!Call(a) \/ Promise!Reindex(a) \/ Promise!Fail(a) \/ Promise!Return(a)
        \/ UNCHANGED Promise!vars
    BY <1>5, <1>6, <1>7, <1>8, <1>9, <1>10, <1>11, <1>14 DEF Step
  <2>2. QED
    BY <2>1 DEF Promise!Next
<1>15. QED
  BY <1>12, <1>13, <1>14 DEF Next

\* With dbpath=, a reindex of any number, beside any changes, is as good as a
\* single step that stores an index of all the rows or leaves everything as it
\* was: AdminReindex implements ReindexPromise.
THEOREM ReindexIsAtomic == Spec => KeepsThePromise
<1> DEFINE FullInv == Inv /\ (~shared => Telling)
<1>1. Init => FullInv
  BY InitialInv DEF Init, Telling, Within
<1>2. FullInv /\ [Next]_vars => FullInv'
  <2>1. [Next]_vars => shared' = shared
    BY DEF Next, Step, Call, Begin, Select, Scan, Insert, Commit, Rollback,
           StatementFails, Return, Write, vars
  <2>2. QED
    BY <2>1, InvKept, TellingKept DEF Inv
<1>3. Init => Promise!Init
  <2> SUFFICES ASSUME Init PROVE Promise!Init
    OBVIOUS
  <2>1. committed.rows = 0 /\ committed.blob = -1 /\ None = -1
    BY DEF Init, None
  <2>2. [a \in Admins |-> ~shared /\ pc[a] # "idle"] = [a \in Admins |-> FALSE]
    BY DEF Init
  <2>3. told = [a \in Admins |-> "nothing"]
    BY DEF Init
  <2>4. QED
    BY <2>1, <2>2, <2>3 DEF Promise!Init
<1>4. FullInv /\ FullInv' /\ [Next]_vars => [Promise!Next]_(Promise!vars)
  <2>1. [Next]_vars => shared' = shared
    BY DEF Next, Step, Call, Begin, Select, Scan, Insert, Commit, Rollback,
           StatementFails, Return, Write, vars
  <2>2. QED
    BY <2>1, SharedStutters, StepPromised DEF Inv
<1>5. QED
  BY <1>1, <1>2, <1>3, <1>4, PTL DEF Spec, KeepsThePromise, Promise!Spec

-----------------------------------------------------------------------------
(* Connections.                                                            *)

\* The connections of a pool cannot all be taken by one query for each reindex.
LEMMA ConnectionLeft ==
  ASSUME TypeOK, IsFiniteSet(Admins), IsFiniteSet(Conns),
         Cardinality(Conns) > Cardinality(Admins), \A a \in Admins : cursor[a] = Nobody
  PROVE  FreeConns # {}
<1> DEFINE Taken == {conn[a] : a \in Admins}
<1>1. IsFiniteSet(Taken) /\ Cardinality(Taken) <= Cardinality(Admins)
  <2>1. conn \in Surjection(Admins, Taken)
    BY DEF TypeOK, Surjection
  <2> HIDE DEF Taken
  <2>2. QED
    BY <2>1, FS_Surjection
<1>2. SUFFICES ASSUME FreeConns = {} PROVE FALSE
  OBVIOUS
<1>3. Conns \subseteq Taken
  BY <1>2, ConnsAssumption DEF FreeConns
<1>4. Cardinality(Conns) <= Cardinality(Taken)
  <2> HIDE DEF Taken
  <2>1. QED
    BY <1>1, <1>3, FS_Subset
<1>5. /\ Cardinality(Conns) \in Nat /\ Cardinality(Admins) \in Nat
      /\ Cardinality(Taken) \in Nat
  <2> HIDE DEF Taken
  <2>1. QED
    BY <1>1, FS_CardinalityType
<1>6. QED
  BY <1>1, <1>4, <1>5

\* Reindexes never all wait for each other, however many there are: with dbpath=
\* for nothing at all, without it in a pool with a connection more than there
\* are reindexes.
THEOREM NoneLeftWaiting ==
  ASSUME IsFiniteSet(Admins), IsFiniteSet(Conns)
  PROVE  Spec => []SomebodyGoesOn
<1>1. TypeOK => SomebodyGoesOn
  <2> SUFFICES ASSUME TypeOK PROVE SomebodyGoesOn
    OBVIOUS
  <2>1. ASSUME ~shared, NEW a \in Admins PROVE ~Waits(a)
    <3>1. SUFFICES ASSUME pc[a] # "scan" PROVE Usable(a) # {}
      BY DEF Waits
    <3>2. cursor[a] = Nobody /\ Nobody \notin Admins
      BY <3>1, ConnsAssumption DEF TypeOK
    <3>3. QED
      BY <2>1, <3>2 DEF Usable
  <2>2. ASSUME Cardinality(Conns) > Cardinality(Admins), NEW a \in Admins, pc[a] # "idle"
        PROVE  \E b \in Admins : pc[b] # "idle" /\ ~Waits(b)
    <3>1. CASE \E b \in Admins : pc[b] = "scan"
      BY <3>1 DEF Waits
    <3>2. CASE \A b \in Admins : pc[b] # "scan"
      <4>1. \A b \in Admins : cursor[b] = Nobody
        BY <3>2 DEF TypeOK
      <4>2. FreeConns # {}
        BY <2>2, <4>1, ConnectionLeft
      <4>3. ~Waits(a)
        BY <2>1, <4>2 DEF Waits, Usable
      <4>4. QED
        BY <2>2, <4>3
    <3>3. QED
      BY <3>1, <3>2
  <2>3. QED
    BY <2>1, <2>2 DEF SomebodyGoesOn
<1>2. QED
  BY <1>1, TypeCorrect, PTL

=============================================================================
