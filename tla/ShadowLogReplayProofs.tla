----------------------- MODULE ShadowLogReplayProofs -----------------------
(***************************************************************************)
(* Proof that the replica ends with the rows of the source where a number  *)
(* is taken in the transaction that logs it.                               *)
(***************************************************************************)
EXTENDS ShadowLogProofs, FiniteSetTheorems

\* The entries S give document d the content c.
Latest(S, d, c) ==
  \/ \E e \in S :
       /\ e.id = d /\ e.value = c
       /\ \A f \in S : f.id = d => f.scn <= e.scn
  \/ /\ c = Absent
     /\ \A e \in S : e.id # d

\* A transaction logs numbers beyond those committed, and in their order.
InOrder ==
  \A w \in Writers :
    /\ scheme = "helper" => number[w] = 0
    /\ \A e \in logged[w] : e.scn > next
    /\ logged[w] # {} => seq[w] # 0
    /\ logged[w] = {} => changed[w] = {}
    /\ number[w] # 0 =>
         /\ seq[w] # 0
         /\ number[w] > next
         /\ \A e \in logged[w] : e.scn < number[w]

\* The log gives the rows, as committed and as each transaction sees them.
RowsLogged ==
  /\ \A d \in Ids : Latest(log, d, rows[d])
  /\ \A w \in Writers : \A d \in Ids : Latest(log \cup logged[w], d, Row(w, d))

\* The replica fetches in order, and has passed over nothing.
BatchOrder ==
  /\ last <= next /\ upto <= next
  /\ upto # 0 => last <= upto
  /\ \A e \in batch : last < e.scn /\ e.scn <= upto
  /\ \A e \in log : e.scn <= upto =>
       e \in batch \/ \A f \in batch : e.scn < f.scn

\* The entry is behind the replica.
Applied(e) == e.scn <= last \/ (e.scn <= upto /\ e \notin batch)

UpTo(n) == {e \in log : e.scn <= n}

\* Each row of the replica is what the log gave up to a number, which may lie
\* ahead of the checkpoint after a restart, but not behind what was applied.
RowsApplied ==
  \A d \in Ids : \E q \in Nat :
    /\ q <= next
    /\ Latest(UpTo(q), d, local[d])
    /\ \A e \in log : e.id = d /\ Applied(e) => e.scn <= q

Finite ==
  /\ IsFiniteSet(log)
  /\ \A w \in Writers : IsFiniteSet(logged[w])

Ordered == InOrder /\ RowsLogged /\ BatchOrder /\ RowsApplied

\* The invariant.
ReplayInv ==
  /\ Inv
  /\ Finite
  /\ scheme # "autocommit" => Ordered

-----------------------------------------------------------------------------
\* A new entry leaves the other documents alone.
LEMMA LatestOther ==
  ASSUME NEW S, NEW e, NEW d, NEW c, e.id # d, Latest(S, d, c)
  PROVE  Latest(S \cup {e}, d, c)
BY DEF Latest

\* It gives its own document its content when no entry has a later number.
LEMMA LatestOwn ==
  ASSUME NEW S, NEW e, e.scn \in Nat, \A f \in S : f.scn <= e.scn
  PROVE  Latest(S \cup {e}, e.id, e.value)
BY DEF Latest

\* The log gives a document one content.
LEMMA LatestUnique ==
  ASSUME NEW S, \A e \in S : e.scn \in Nat, \A e, f \in S : e.scn = f.scn => e = f,
         NEW d, NEW b, NEW c, Latest(S, d, b), Latest(S, d, c)
  PROVE  b = c
<1>1. CASE \A e \in S : e.id # d
  BY <1>1 DEF Latest
<1>2. CASE \E e \in S : e.id = d
  <2>1. PICK e \in S : e.id = d /\ e.value = b /\ \A f \in S : f.id = d => f.scn <= e.scn
    BY <1>2 DEF Latest
  <2>2. PICK f \in S : f.id = d /\ f.value = c /\ \A g \in S : g.id = d => g.scn <= f.scn
    BY <1>2 DEF Latest
  <2>3. e.scn = f.scn
    BY <2>1, <2>2
  <2>4. QED
    BY <2>1, <2>2, <2>3
<1>3. QED
  BY <1>1, <1>2

-----------------------------------------------------------------------------
\* What is in the database and in the transactions is there with a number.
LEMMA Ranges ==
  ASSUME Inv
  PROVE  /\ next \in Nat /\ last \in Nat /\ upto \in Nat
         /\ \A e \in log : e.scn \in Nat /\ e.scn <= next
         /\ \A w \in Writers : \A e \in logged[w] : e.scn \in Nat
         /\ \A w \in Writers : number[w] \in Nat /\ seq[w] \in Nat
         /\ batch \subseteq log
         /\ \A e, f \in log : e.scn = f.scn => e = f
BY DEF Inv, TypeOK, Entries, Behind, NumbersOnce, Logged

\* w logs a change of d under a number beyond all that are committed and all
\* that it has logged.
LogsNext(w, n, d, c) ==
  /\ Change(w, n, d, c)
  /\ UNCHANGED <<committed, replica>>
  /\ n > next
  /\ \A e \in logged[w] : e.scn < n
  /\ seq'[w] # 0
  /\ number'[w] = 0
  /\ \A v \in Writers \ {w} : seq'[v] = seq[v] /\ number'[v] = number[v]

\* A number from vec_dataset_scn is beyond those that are committed.
LEMMA FreshBeyond ==
  ASSUME Inv, NEW w \in Writers, NEW first \in Nat \ {0}
  PROVE  Advanced(w, first) > next
<1>1. next \in Nat /\ NextScn(w) \in Nat /\ NextScn(w) >= next
  BY DEF Inv, TypeOK, Alone, NextScn
<1>2. QED
  BY <1>1 DEF Advanced

\* Every statement that changes a row does so.
LEMMA ChangeLogsNext ==
  ASSUME Inv, InOrder, scheme # "autocommit", NEW w \in Writers,
         \/ \E d \in Ids : \E c \in Cells : HelperChange(w, d, c)
         \/ \E d \in Ids : \E c \in Values : Insert(w, d, c) \/ Update(w, d, c)
         \/ \E d \in Ids : Delete(w, d)
  PROVE  \E n \in Nat : \E d \in Ids : \E c \in Cells : LogsNext(w, n, d, c)
<1>1. TypeOK
  BY DEF Inv
<1>2. \A e \in logged[w] : e \in Logged
  BY DEF Logged
<1>3. ASSUME NEW d \in Ids, NEW c \in Cells, HelperChange(w, d, c)
      PROVE  \E n \in Nat : LogsNext(w, n, d, c)
  <2>1. /\ MayAdvance(w) /\ seq' = [seq EXCEPT ![w] = Advanced(w, 1)]
        /\ Change(w, Advanced(w, 1), d, c)
        /\ UNCHANGED <<committed, replica>> /\ number' = number /\ number[w] = 0
    BY <1>3 DEF HelperChange, InOrder
  <2>2. LogsNext(w, Advanced(w, 1), d, c)
    BY <1>1, <1>2, <2>1, FreshNumber, FreshBeyond DEF LogsNext, TypeOK
  <2>3. QED
    BY <2>1, <2>2, FreshNumber
<1>4. ASSUME NEW d \in Ids, Delete(w, d)
      PROVE  \E n \in Nat : LogsNext(w, n, d, Absent)
  <2>1. /\ MayAdvance(w) /\ seq' = [seq EXCEPT ![w] = Advanced(w, 2)]
        /\ Change(w, Advanced(w, 2), d, Absent)
        /\ UNCHANGED <<committed, replica>> /\ number' = number /\ number[w] = 0
    BY <1>4 DEF Delete
  <2>2. LogsNext(w, Advanced(w, 2), d, Absent)
    BY <1>1, <1>2, <2>1, FreshNumber, FreshBeyond DEF LogsNext, TypeOK
  <2>3. QED
    BY <2>1, <2>2, FreshNumber
<1>5. ASSUME number[w] # 0
      PROVE  /\ number[w] \in Nat \ {0} /\ number[w] > next /\ seq[w] # 0
             /\ \A e \in logged[w] : e.scn < number[w]
  BY <1>1, <1>5 DEF TypeOK, InOrder
<1>6. ASSUME NEW d \in Ids, NEW c \in Values, Insert(w, d, c)
      PROVE  \E n \in Nat : LogsNext(w, n, d, c)
  <2> DEFINE after == Advanced(w, number[w] + 1)
  <2>1. /\ MayAdvance(w) /\ number[w] # 0 /\ Change(w, number[w], d, c)
        /\ seq'[w] = IF after >= number[w] THEN after ELSE number[w]
        /\ UNCHANGED <<committed, replica>> /\ number'[w] = 0
        /\ \A v \in Writers \ {w} : seq'[v] = seq[v] /\ number'[v] = number[v]
    BY <1>1, <1>6 DEF Insert, TypeOK
  <2>2. after \in Nat \ {0}
    <3>1. number[w] + 1 \in Nat \ {0}
      BY <1>5, <2>1
    <3>2. QED
      BY <2>1, <3>1, FreshNumber
  <2>3. seq'[w] # 0
    BY <2>1, <2>2
  <2>4. LogsNext(w, number[w], d, c)
    BY <1>5, <2>1, <2>3 DEF LogsNext
  <2>5. QED
    BY <1>5, <2>1, <2>4
<1>7. ASSUME NEW d \in Ids, NEW c \in Values, Update(w, d, c)
      PROVE  \E n \in Nat : LogsNext(w, n, d, c)
  <2>1. /\ number[w] # 0 /\ Change(w, number[w], d, c) /\ seq' = seq
        /\ UNCHANGED <<committed, replica>> /\ number'[w] = 0
        /\ \A v \in Writers \ {w} : number'[v] = number[v]
    BY <1>1, <1>7 DEF Update, TypeOK
  <2>2. LogsNext(w, number[w], d, c)
    BY <1>5, <2>1 DEF LogsNext
  <2>3. QED
    BY <1>5, <2>1, <2>2
<1>8. QED
  BY <1>3, <1>4, <1>6, <1>7 DEF Cells

\* The steps in which numbers are taken in the transactions that log them.
LEMMA OrderedSteps ==
  ASSUME Inv, InOrder, scheme # "autocommit", [Next]_vars
  PROVE  \/ \E w \in Writers : \E n \in Nat : \E d \in Ids : \E c \in Cells :
              LogsNext(w, n, d, c)
         \/ \E w \in Writers : AllocateInTxn(w) \/ Commit(w) \/ Rollback(w)
         \/ Replay
         \/ UNCHANGED vars
<1>1. \A w \in Writers : ~Allocate(w)
  BY DEF Allocate
<1>2. QED
  BY <1>1, ChangeLogsNext DEF Next, Write

\* How changes are numbered does not change.
LEMMA SchemeStays ==
  ASSUME [Next]_vars
  PROVE  scheme' = scheme
BY DEF Next, Write, HelperChange, Allocate, AllocateInTxn, Insert, Update, Delete,
       Commit, Rollback, Replay, Fetch, FetchNothing, Apply, Checkpoint, Restart, vars

-----------------------------------------------------------------------------
\* The log is finite.
LEMMA StepFinite ==
  ASSUME Inv, Finite, [Next]_vars
  PROVE  Finite'
<1>1. TypeOK
  BY DEF Inv
<1>2. ASSUME NEW w \in Writers, NEW n \in Nat, Logs(w, n) PROVE Finite'
  <2>1. PICK d \in Ids, c \in Cells :
          /\ logged'[w] = logged[w] \cup {[scn |-> n, id |-> d, value |-> c]}
          /\ \A v \in Writers \ {w} : logged'[v] = logged[v]
    BY <1>1, <1>2, ChangeEffect DEF Logs
  <2>2. IsFiniteSet(logged'[w])
    <3>1. IsFiniteSet(logged[w])
      BY DEF Finite
    <3>2. \A e : IsFiniteSet(logged[w] \cup {e})
      BY <3>1, FS_AddElement
    <3>3. QED
      BY <2>1, <3>2
  <2>3. QED
    BY <1>2, <2>1, <2>2 DEF Finite, Logs
<1>3. ASSUME NEW w \in Writers, Allocate(w) \/ AllocateInTxn(w) PROVE Finite'
  BY <1>3, AllocateEffect DEF Finite
<1>4. ASSUME NEW w \in Writers, Commit(w) \/ Rollback(w) PROVE Finite'
  <2>1. log' \in {log, log \cup logged[w]} /\ logged'[w] = {}
        /\ \A v \in Writers \ {w} : logged'[v] = logged[v]
    BY <1>4, EndEffect
  <2>2. IsFiniteSet(log \cup logged[w]) /\ IsFiniteSet({})
    BY FS_Union, FS_EmptySet DEF Finite
  <2>3. QED
    BY <2>1, <2>2 DEF Finite
<1>5. CASE UNCHANGED <<log, next, logged, seq, number>>
  BY <1>5 DEF Finite
<1>6. QED
  BY <1>2, <1>3, <1>4, <1>5, Steps, ChangeLogs

\* Who commits is alone: the others have changed nothing and hold no number.
LEMMA CommitsAlone ==
  ASSUME Inv, InOrder, NEW w \in Writers, InTransaction(w), NEW v \in Writers \ {w}
  PROVE  logged[v] = {} /\ changed[v] = {} /\ seq[v] = 0 /\ number[v] = 0
<1>1. seq[w] # 0
  BY DEF InOrder, InTransaction
<1>2. ~InTransaction(v)
  BY <1>1 DEF Inv, Alone
<1>3. QED
  BY <1>2 DEF InOrder, InTransaction

\* What w has changed is forgotten at the end of its transaction.
LEMMA EndForgets ==
  ASSUME Inv, NEW w \in Writers, Commit(w) \/ Rollback(w)
  PROVE  /\ changed'[w] = {} /\ logged'[w] = {} /\ seq'[w] = 0
         /\ \A v \in Writers \ {w} :
              /\ changed'[v] = changed[v] /\ value'[v] = value[v]
              /\ logged'[v] = logged[v] /\ seq'[v] = seq[v] /\ number'[v] = number[v]
         /\ UNCHANGED <<scheme, replica>>
BY DEF Inv, TypeOK, Commit, Rollback, Forget

\* The transactions log in the order in which they commit.
LEMMA StepInOrder ==
  ASSUME Inv, InOrder, scheme # "autocommit", [Next]_vars
  PROVE  InOrder'
<1>1. TypeOK
  BY DEF Inv
<1>2. ASSUME NEW w \in Writers, NEW n \in Nat, NEW d \in Ids, NEW c \in Cells,
             LogsNext(w, n, d, c)
      PROVE  InOrder'
  <2>1. /\ next' = next /\ log' = log
        /\ \A v \in Writers \ {w} : changed'[v] = changed[v] /\ logged'[v] = logged[v]
        /\ logged'[w] = logged[w] \cup {[scn |-> n, id |-> d, value |-> c]}
    <3>1. next' = next /\ log' = log /\ Change(w, n, d, c)
      BY <1>2 DEF LogsNext, committed
    <3>2. QED
      BY <1>1, <3>1, ChangeEffect DEF Change, TypeOK
  <2>2. \A e \in logged'[w] : e.scn > next
    BY <1>2, <2>1 DEF LogsNext, InOrder
  <2>3. QED
    BY <1>2, <2>1, <2>2, SchemeStays DEF LogsNext, InOrder
<1>3. ASSUME NEW w \in Writers, AllocateInTxn(w) PROVE InOrder'
  <2> DEFINE n == Advanced(w, 2)
  <2>1. /\ MayAdvance(w) /\ scheme = "inTxn"
        /\ seq' = [seq EXCEPT ![w] = n] /\ number' = [number EXCEPT ![w] = n]
        /\ UNCHANGED <<scheme, next, changed, logged>>
    BY <1>3 DEF AllocateInTxn, committed
  <2>2. n # 0 /\ n > next /\ \A e \in logged[w] : e.scn < n
    BY <2>1, FreshNumber, FreshBeyond DEF Logged
  <2>3. QED
    BY <1>1, <2>1, <2>2 DEF InOrder, TypeOK
<1>4. ASSUME NEW w \in Writers, Commit(w) \/ Rollback(w) PROVE InOrder'
  <2>1. number'[w] = 0
    BY <1>1, <1>4 DEF Commit, Rollback, InOrder, TypeOK
  <2>2. ASSUME NEW v \in Writers \ {w}
        PROVE  logged'[v] = {} /\ changed'[v] = {} /\ number'[v] = 0
    BY <1>4, CommitsAlone, EndForgets DEF Commit, Rollback
  <2>3. QED
    BY <1>4, <2>1, <2>2, EndForgets DEF InOrder
<1>5. CASE Replay \/ UNCHANGED vars
  <2>1. UNCHANGED <<scheme, next, changed, logged, seq, number>>
    BY <1>5 DEF Replay, Fetch, FetchNothing, Apply, Checkpoint, Restart, committed, txn, vars
  <2>2. QED
    BY <2>1 DEF InOrder
<1>6. QED
  BY <1>2, <1>3, <1>4, <1>5, OrderedSteps

\* The log keeps giving the rows.
LEMMA StepRowsLogged ==
  ASSUME Inv, InOrder, RowsLogged, scheme # "autocommit", [Next]_vars
  PROVE  RowsLogged'
<1>1. TypeOK
  BY DEF Inv
<1>2. ASSUME NEW w \in Writers, NEW n \in Nat, NEW d \in Ids, NEW c \in Cells,
             LogsNext(w, n, d, c)
      PROVE  RowsLogged'
  <2> DEFINE e == [scn |-> n, id |-> d, value |-> c]
             S == log \cup logged[w]
  <2>1. Change(w, n, d, c) /\ log' = log /\ rows' = rows
    BY <1>2 DEF LogsNext, committed
  <2>2. /\ \A v \in Writers \ {w} : logged'[v] = logged[v]
        /\ logged'[w] = logged[w] \cup {e}
    BY <1>1, <2>1, ChangeEffect
  <2>3. /\ \A v \in Writers \ {w} : \A x \in Ids : Row(v, x)' = Row(v, x)
        /\ \A x \in Ids : Row(w, x)' = IF x = d THEN c ELSE Row(w, x)
    BY <1>1, <2>1 DEF Change, Row, TypeOK
  <2>4. \A f \in S : f.scn <= e.scn
    BY <1>2, Ranges DEF LogsNext
  <2>5. ASSUME NEW x \in Ids PROVE Latest(S \cup {e}, x, Row(w, x)')
    <3>1. CASE x = d
      <4>1. Latest(S \cup {e}, e.id, e.value)
        BY <2>4, LatestOwn
      <4>2. QED
        BY <2>3, <3>1, <4>1
    <3>2. CASE x # d
      <4>1. Latest(S, x, Row(w, x))
        BY DEF RowsLogged
      <4>2. Latest(S \cup {e}, x, Row(w, x))
        BY <3>2, <4>1, LatestOther
      <4>3. QED
        BY <2>3, <3>2, <4>2
    <3>3. QED
      BY <3>1, <3>2
  <2>6. log' \cup logged'[w] = S \cup {e}
    BY <2>1, <2>2
  <2>7. ASSUME NEW v \in Writers, NEW x \in Ids
        PROVE  Latest(log' \cup logged'[v], x, Row(v, x)')
    <3>1. CASE v = w
      BY <2>5, <2>6, <3>1
    <3>2. CASE v # w
      BY <2>1, <2>2, <2>3, <3>2 DEF RowsLogged
    <3>3. QED
      BY <3>1, <3>2
  <2>8. \A x \in Ids : Latest(log', x, rows'[x])
    BY <2>1 DEF RowsLogged
  <2>9. QED
    BY <2>7, <2>8 DEF RowsLogged, Latest
<1>3. ASSUME NEW w \in Writers, AllocateInTxn(w) PROVE RowsLogged'
  BY <1>3 DEF AllocateInTxn, RowsLogged, Latest, Row, committed
<1>4. ASSUME NEW w \in Writers, Commit(w) PROVE RowsLogged'
  <2>1. log' = log \cup logged[w] /\ \A d \in Ids : rows'[d] = Row(w, d)
    BY <1>4 DEF Commit
  <2>2. \A d \in Ids : Latest(log', d, rows'[d])
    BY <2>1 DEF RowsLogged
  <2>3. ASSUME NEW v \in Writers PROVE logged'[v] = {} /\ changed'[v] = {}
    BY <1>4, CommitsAlone, EndForgets DEF Commit
  <2>4. ASSUME NEW v \in Writers, NEW d \in Ids
        PROVE  log' \cup logged'[v] = log' /\ Row(v, d)' = rows'[d]
    BY <2>3 DEF Row
  <2>5. QED
    BY <2>2, <2>4 DEF RowsLogged, Latest
<1>5. ASSUME NEW w \in Writers, Rollback(w) PROVE RowsLogged'
  <2>1. log' = log /\ rows' = rows
    BY <1>5 DEF Rollback, committed
  <2>2. ASSUME NEW v \in Writers, NEW d \in Ids
        PROVE  Latest(log' \cup logged'[v], d, Row(v, d)')
    <3>1. CASE v = w
      <4>1. log' \cup logged'[v] = log /\ Row(v, d)' = rows[d]
        BY <1>5, <2>1, <3>1, EndForgets DEF Row
      <4>2. QED
        BY <4>1 DEF RowsLogged
    <3>2. CASE v # w
      <4>1. logged'[v] = logged[v] /\ Row(v, d)' = Row(v, d)
        BY <1>5, <2>1, <3>2, EndForgets DEF Row
      <4>2. QED
        BY <2>1, <4>1 DEF RowsLogged
    <3>3. QED
      BY <3>1, <3>2
  <2>3. QED
    BY <2>1, <2>2 DEF RowsLogged, Latest
<1>6. CASE Replay \/ UNCHANGED vars
  <2>1. UNCHANGED <<log, rows, changed, value, logged>>
    BY <1>6 DEF Replay, Fetch, FetchNothing, Apply, Checkpoint, Restart, committed, txn, vars
  <2>2. QED
    BY <2>1 DEF RowsLogged, Latest, Row
<1>7. QED
  BY <1>2, <1>3, <1>4, <1>5, <1>6, OrderedSteps

-----------------------------------------------------------------------------
\* A step outside the replica: a commit adds entries beyond next.
LEMMA WriterStep ==
  ASSUME Inv, InOrder, scheme # "autocommit",
         \/ \E w \in Writers : \E n \in Nat : \E d \in Ids : \E c \in Cells :
              LogsNext(w, n, d, c)
         \/ \E w \in Writers : AllocateInTxn(w) \/ Commit(w) \/ Rollback(w)
         \/ UNCHANGED vars
  PROVE  /\ UNCHANGED replica
         /\ log \subseteq log' /\ \A e \in log' \ log : e.scn \in Nat /\ e.scn > next
         /\ next' \in Nat /\ next' >= next
<1>1. next \in Nat
  BY Ranges
<1>2. ASSUME NEW w \in Writers, NEW n \in Nat, NEW d \in Ids, NEW c \in Cells,
             LogsNext(w, n, d, c)
      PROVE  UNCHANGED replica /\ log' = log /\ next' = next
  BY <1>2 DEF LogsNext, committed
<1>3. ASSUME NEW w \in Writers, Commit(w)
      PROVE  /\ UNCHANGED replica
             /\ log' = log \cup logged[w] /\ next' \in Nat /\ next' >= next
  BY <1>3 DEF Commit, Inv, TypeOK, Alone, NextScn
<1>4. \A w \in Writers : \A e \in logged[w] : e.scn \in Nat /\ e.scn > next
  BY Ranges DEF InOrder
<1>5. ASSUME NEW w \in Writers, AllocateInTxn(w) \/ Rollback(w)
      PROVE  UNCHANGED replica /\ log' = log /\ next' = next
  BY <1>5 DEF AllocateInTxn, Rollback, committed
<1>6. UNCHANGED vars => UNCHANGED replica /\ log' = log /\ next' = next
  BY DEF vars, committed
<1>7. QED
  BY <1>1, <1>2, <1>3, <1>4, <1>5, <1>6

\* The replica fetches every entry up to the last one of its batch.
LEMMA FetchEffect ==
  ASSUME Inv, Finite, Fetch
  PROVE  /\ UNCHANGED <<log, next, last, local>>
         /\ batch' \subseteq Fresh /\ upto' \in Nat
         /\ last < upto' /\ upto' <= next
         /\ \A e \in batch' : e.scn <= upto'
         /\ \A e \in Fresh : e.scn <= upto' => e \in batch'
<1>1. /\ UNCHANGED <<log, next, last, local>>
      /\ batch' = {e \in Fresh : Cardinality({f \in Fresh : f.scn < e.scn}) < BatchSize}
  BY DEF Fetch, committed
<1>2. PICK x \in batch' : (\A f \in batch' : f.scn <= x.scn) /\ upto' = x.scn
  BY DEF Fetch
<1>3. x \in log /\ last < x.scn /\ x.scn \in Nat /\ x.scn <= next
  BY <1>1, Ranges DEF Fresh
<1>4. ASSUME NEW e \in Fresh, e.scn <= upto' PROVE e \in batch'
  <2> DEFINE Below(y) == {f \in Fresh : f.scn < y.scn}
  <2>1. Below(e) \subseteq Below(x)
    BY <1>2, <1>3, <1>4, Ranges DEF Fresh
  <2>2. IsFiniteSet(Below(x))
    BY FS_Subset DEF Finite, Fresh
  <2>3. /\ IsFiniteSet(Below(e)) /\ Cardinality(Below(e)) <= Cardinality(Below(x))
    BY <2>1, <2>2, FS_Subset
  <2>4. Cardinality(Below(e)) \in Nat /\ Cardinality(Below(x)) \in Nat
    BY <2>2, <2>3, FS_CardinalityType
  <2>5. Cardinality(Below(x)) < BatchSize
    BY <1>1
  <2>6. Cardinality(Below(e)) < BatchSize
    BY <2>3, <2>4, <2>5, BatchSizeAssumption
  <2>7. QED
    BY <1>1, <2>6
<1>5. QED
  BY <1>1, <1>2, <1>3, <1>4

\* What the replica applies comes before all else in its batch.
LEMMA ApplyEffect ==
  ASSUME Inv, Apply
  PROVE  \E e \in batch :
           /\ \A f \in batch \ {e} : e.scn < f.scn
           /\ local' = [local EXCEPT ![e.id] = e.value]
           /\ batch' = batch \ {e}
           /\ UNCHANGED <<log, next, last, upto>>
<1>1. PICK e \in batch :
        /\ \A f \in batch : e.scn <= f.scn
        /\ local' = [local EXCEPT ![e.id] = e.value]
        /\ batch' = batch \ {e}
  BY DEF Apply
<1>2. \A f \in batch \ {e} : e.scn < f.scn
  BY <1>1, Ranges
<1>3. UNCHANGED <<log, next, last, upto>>
  BY DEF Apply, committed
<1>4. QED
  BY <1>1, <1>2, <1>3

\* Nothing has been fetched between two batches.
LEMMA NoBatch ==
  ASSUME Inv, BatchOrder, upto = 0
  PROVE  batch = {}
BY Ranges DEF BatchOrder

\* The replica passes over nothing.
LEMMA StepBatchOrder ==
  ASSUME Inv, Finite, InOrder, BatchOrder, scheme # "autocommit", [Next]_vars
  PROVE  BatchOrder'
<1>1. CASE UNCHANGED replica /\ log \subseteq log' /\ next' \in Nat /\ next' >= next
           /\ \A e \in log' \ log : e.scn \in Nat /\ e.scn > next
  BY <1>1, Ranges DEF BatchOrder, replica
<1>2. CASE Fetch
  <2>1. \A e \in log : e.scn <= last \/ e \in Fresh
    BY Ranges DEF Fresh
  <2>2. \A e \in Fresh : e \in log /\ last < e.scn
    BY DEF Fresh
  <2>3. \A e \in log' : e.scn <= upto' => e \in batch' \/ \A f \in batch' : e.scn < f.scn
    BY <1>2, <2>1, <2>2, FetchEffect, Ranges
  <2>4. QED
    BY <1>2, <2>2, <2>3, FetchEffect, Ranges DEF BatchOrder
<1>3. CASE Apply
  BY <1>3, ApplyEffect, Ranges DEF BatchOrder
<1>4. CASE Checkpoint
  BY <1>4, Ranges DEF Checkpoint, BatchOrder, committed
<1>5. CASE Restart
  BY <1>5, Ranges DEF Restart, BatchOrder, committed
<1>6. Replay => Fetch \/ UNCHANGED vars \/ Apply \/ Checkpoint \/ Restart
  BY DEF Replay, FetchNothing
<1>7. QED
  BY <1>1, <1>2, <1>3, <1>4, <1>5, <1>6, OrderedSteps, WriterStep

\* A batch gets behind the replica entry by entry, and stays there.
LEMMA StepRowsApplied ==
  ASSUME Inv, Finite, InOrder, BatchOrder, RowsApplied, scheme # "autocommit", [Next]_vars
  PROVE  RowsApplied'
<1>1. TypeOK
  BY DEF Inv
<1>2. CASE UNCHANGED replica /\ log \subseteq log' /\ next' \in Nat /\ next' >= next
           /\ \A e \in log' \ log : e.scn \in Nat /\ e.scn > next
  <2>1. \A q \in Nat : q <= next => UpTo(q)' = UpTo(q)
    BY <1>2, Ranges DEF UpTo
  <2>2. \A e \in log' : Applied(e)' => e \in log /\ Applied(e)
    BY <1>2, Ranges DEF Applied, BatchOrder, replica
  <2>3. ASSUME NEW d \in Ids
        PROVE  \E q \in Nat : /\ q <= next' /\ Latest(UpTo(q)', d, local'[d])
                              /\ \A e \in log' : e.id = d /\ Applied(e)' => e.scn <= q
    <3>1. PICK q \in Nat : /\ q <= next /\ Latest(UpTo(q), d, local[d])
                           /\ \A e \in log : e.id = d /\ Applied(e) => e.scn <= q
      BY DEF RowsApplied
    <3>2. q <= next' /\ Latest(UpTo(q)', d, local'[d])
      BY <1>2, <2>1, <3>1, Ranges DEF replica
    <3>3. QED
      BY <2>2, <3>1, <3>2
  <2>4. QED
    BY <2>3 DEF RowsApplied, Latest
<1>3. ASSUME UNCHANGED <<log, next, local>>, \A e \in log : Applied(e)' => Applied(e)
      PROVE  RowsApplied'
  BY <1>3 DEF RowsApplied, Latest, UpTo
<1>4. CASE Fetch
  <2>1. \A e \in log : e.scn <= last \/ e \in Fresh
    BY Ranges DEF Fresh
  <2>2. \A e \in log : Applied(e)' => Applied(e)
    BY <1>4, <2>1, FetchEffect DEF Applied
  <2>3. QED
    BY <1>3, <1>4, <2>2, FetchEffect
<1>5. CASE Apply
  <2>1. PICK e \in batch :
          /\ \A f \in batch \ {e} : e.scn < f.scn
          /\ local' = [local EXCEPT ![e.id] = e.value]
          /\ batch' = batch \ {e}
          /\ UNCHANGED <<log, next, last, upto>>
    BY <1>5, ApplyEffect
  <2>2. e \in log /\ e.scn \in Nat /\ last < e.scn /\ e.scn <= next /\ e.id \in Ids
    BY <1>1, Ranges DEF BatchOrder, TypeOK, Entries
  <2>3. \A f \in log : Applied(f)' => Applied(f) \/ f = e
    BY <2>1 DEF Applied
  <2>4. \A f \in log : Applied(f) => f.scn <= e.scn
    BY <2>2, Ranges DEF Applied, BatchOrder
  <2>5. ASSUME NEW d \in Ids, d # e.id
        PROVE  \E q \in Nat : /\ q <= next /\ Latest(UpTo(q), d, local'[d])
                              /\ \A f \in log : f.id = d /\ Applied(f)' => f.scn <= q
    BY <1>1, <2>1, <2>3, <2>5 DEF RowsApplied, TypeOK
  <2>6. Latest(UpTo(e.scn), e.id, local'[e.id])
    BY <1>1, <2>1, <2>2 DEF Latest, UpTo, TypeOK
  <2>7. \A f \in log : Applied(f)' => f.scn <= e.scn
    BY <2>2, <2>3, <2>4
  <2>8. ASSUME NEW d \in Ids
        PROVE  \E q \in Nat : /\ q <= next /\ Latest(UpTo(q), d, local'[d])
                              /\ \A f \in log : f.id = d /\ Applied(f)' => f.scn <= q
    BY <2>2, <2>5, <2>6, <2>7
  <2>9. QED
    BY <2>1, <2>8 DEF RowsApplied, Latest, UpTo
<1>6. CASE Checkpoint \/ Restart
  <2>1. UNCHANGED <<log, next, local>> /\ upto' = 0 /\ last' \in {last, upto}
        /\ (last' = upto => batch = {} \/ last' = last)
    BY <1>6 DEF Checkpoint, Restart, committed
  <2>2. \A f \in log : Applied(f)' => Applied(f)
    BY <2>1, Ranges DEF Applied
  <2>3. QED
    BY <1>3, <2>1, <2>2
<1>7. Replay => Fetch \/ UNCHANGED vars \/ Apply \/ Checkpoint \/ Restart
  BY DEF Replay, FetchNothing
<1>8. QED
  BY <1>2, <1>4, <1>5, <1>6, <1>7, OrderedSteps, WriterStep

-----------------------------------------------------------------------------
\* At first the log is empty.
LEMMA InitReplayInv == Init => ReplayInv
<1>1. SUFFICES ASSUME Init PROVE Finite /\ Ordered
  BY InitInv DEF ReplayInv
<1>2. Finite
  BY <1>1, FS_EmptySet DEF Init, Finite
<1>3. InOrder /\ RowsLogged /\ BatchOrder
  BY <1>1 DEF Init, InOrder, RowsLogged, BatchOrder, Latest, Row
<1>4. RowsApplied
  BY <1>1 DEF Init, RowsApplied, Latest, UpTo
<1>5. QED
  BY <1>2, <1>3, <1>4 DEF Ordered

\* A replica that has passed the whole log holds what the log gives.
LEMMA Replayed ==
  ASSUME ReplayInv
  PROVE  OrderedLogReplays
<1>1. SUFFICES ASSUME scheme # "autocommit", upto = 0, Fresh = {}
               PROVE  local = rows
  BY DEF OrderedLogReplays, LogReplays
<1>2. Inv /\ TypeOK /\ RowsLogged /\ RowsApplied
  BY <1>1 DEF ReplayInv, Ordered, Inv
<1>3. \A e \in log : Applied(e)
  BY <1>1, <1>2, Ranges DEF Applied, Fresh
<1>4. ASSUME NEW d \in Ids PROVE local[d] = rows[d]
  <2>1. PICK q \in Nat : /\ Latest(UpTo(q), d, local[d])
                         /\ \A e \in log : e.id = d => e.scn <= q
    BY <1>2, <1>3 DEF RowsApplied
  <2>2. Latest(log, d, local[d])
    BY <2>1 DEF Latest, UpTo
  <2>3. Latest(log, d, rows[d])
    BY <1>2 DEF RowsLogged
  <2>4. QED
    BY <1>2, <2>2, <2>3, Ranges, LatestUnique
<1>5. QED
  BY <1>2, <1>4 DEF TypeOK

\* Every step keeps the log in order and the replica in step with it.
LEMMA StepReplayInv ==
  ASSUME ReplayInv, [Next]_vars, Inv'
  PROVE  ReplayInv'
<1>1. Inv /\ Finite
  BY DEF ReplayInv
<1>2. Finite'
  BY <1>1, StepFinite
<1>3. ASSUME scheme' # "autocommit" PROVE Ordered'
  <2>1. scheme # "autocommit" /\ Ordered
    BY <1>3, SchemeStays DEF ReplayInv
  <2>2. QED
    BY <1>1, <2>1, StepInOrder, StepRowsLogged, StepBatchOrder, StepRowsApplied DEF Ordered
<1>4. QED
  BY <1>2, <1>3 DEF ReplayInv

\* Whenever the replica has nothing left to fetch it holds the rows of the
\* source, after any restarts, where numbers are taken in the transactions that
\* log them: with the triggers of the helper, and with vec_next_scn in the
\* transaction.
THEOREM ReplicaEqualsSource == Spec => []OrderedLogReplays
<1>1. ReplayInv /\ [Next]_vars /\ Inv' => ReplayInv'
  BY StepReplayInv
<1>2. ReplayInv => OrderedLogReplays
  BY Replayed
<1>3. QED
  BY InitReplayInv, Invariance, <1>1, <1>2, PTL DEF Spec

=============================================================================
