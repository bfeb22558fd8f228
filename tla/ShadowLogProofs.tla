-------------------------- MODULE ShadowLogProofs --------------------------
(***************************************************************************)
(* Proofs about the numbers of the change log, for any writers, documents  *)
(* and values, any number of changes and each way of numbering them.       *)
(***************************************************************************)
EXTENDS ShadowLog, TLAPS

\* Who has advanced vec_dataset_scn is alone in a transaction, and has moved
\* it forward.
Alone ==
  \A w \in Writers :
    seq[w] # 0 =>
      /\ seq[w] >= next
      /\ \A v \in Writers \ {w} : ~InTransaction(v)

\* No number that has been logged or is held lies ahead of vec_dataset_scn.
Behind ==
  /\ \A e \in log : e.scn <= next
  /\ \A w \in Writers : \A e \in logged[w] : e.scn <= NextScn(w)
  /\ \A w \in Writers : number[w] <= NextScn(w)

\* The invariant.
Inv == TypeOK /\ Alone /\ Behind /\ NumbersOnce

\* At first there are no numbers.
LEMMA InitInv == Init => Inv
<1>1. Init => TypeOK
  BY SchemesAssumption DEF Init, TypeOK, Cells, Entries
<1>2. Init => Alone /\ Behind
  BY DEF Init, Alone, Behind, NextScn
<1>3. Init => Logged = {}
  BY DEF Init, Logged
<1>4. Init => NumbersOnce
  BY <1>3 DEF Init, NumbersOnce
<1>5. QED
  BY <1>1, <1>2, <1>4 DEF Inv

\* A number from vec_dataset_scn is new, and moves it forward.
LEMMA FreshNumber ==
  ASSUME Inv, NEW w \in Writers, NEW first \in Nat \ {0}, MayAdvance(w)
  PROVE  /\ Advanced(w, first) \in Nat \ {0}
         /\ Advanced(w, first) >= next /\ Advanced(w, first) >= NextScn(w)
         /\ \A e \in Logged : e.scn \in Nat /\ e.scn < Advanced(w, first)
         /\ \A v \in Writers : number[v] < Advanced(w, first)
<1>1. /\ next \in Nat /\ NextScn(w) \in Nat /\ NextScn(w) >= next
      /\ \A v \in Writers : v # w => NextScn(v) = next
      /\ \A v \in Writers : number[v] \in Nat
  BY DEF Inv, TypeOK, Alone, NextScn, MayAdvance, InTransaction
<1>2. \A v \in Writers : NextScn(v) <= NextScn(w)
  BY <1>1
<1>3. NextScn(w) < Advanced(w, first) /\ Advanced(w, first) \in Nat \ {0}
  BY <1>1 DEF Advanced
<1>4. \A e \in Logged : e.scn \in Nat /\ e.scn <= NextScn(w)
  <2>1. \A e \in log : e.scn \in Nat /\ e.scn <= next
    BY DEF Inv, TypeOK, Behind, Entries
  <2>2. ASSUME NEW v \in Writers, NEW e \in logged[v]
        PROVE  e.scn \in Nat /\ e.scn <= NextScn(v) /\ NextScn(v) \in Nat
    BY <1>1, <2>2 DEF Inv, TypeOK, Behind, Entries, NextScn
  <2>3. QED
    BY <1>1, <1>2, <2>1, <2>2 DEF Logged
<1>5. \A v \in Writers : number[v] <= NextScn(w)
  BY <1>1, <1>2 DEF Inv, Behind
<1>6. QED
  BY <1>1, <1>3, <1>4, <1>5

\* What a change adds to the log, and what it leaves in its range.
LEMMA ChangeEffect ==
  ASSUME TypeOK, NEW w \in Writers, NEW n \in Nat, NEW d \in Ids, NEW c \in Cells,
         Change(w, n, d, c), log' = log
  PROVE  /\ changed' \in [Writers -> SUBSET Ids]
         /\ value' \in [Writers -> [Ids -> Cells]]
         /\ logged' \in [Writers -> SUBSET Entries]
         /\ \A v \in Writers \ {w} : logged'[v] = logged[v]
         /\ logged'[w] = logged[w] \cup {[scn |-> n, id |-> d, value |-> c]}
         /\ Logged' = Logged \cup {[scn |-> n, id |-> d, value |-> c]}
<1> DEFINE e == [scn |-> n, id |-> d, value |-> c]
<1>1. e \in Entries
  BY DEF Entries
<1>2. /\ changed' \in [Writers -> SUBSET Ids]
      /\ value' \in [Writers -> [Ids -> Cells]]
  BY DEF TypeOK, Change
<1>3. /\ logged' \in [Writers -> SUBSET Entries]
      /\ \A v \in Writers \ {w} : logged'[v] = logged[v]
      /\ logged'[w] = logged[w] \cup {e}
  BY <1>1 DEF TypeOK, Change
<1>4. Logged' = Logged \cup {e}
  BY <1>3 DEF Logged
<1>5. QED
  BY <1>2, <1>3, <1>4

\* The rows that a transaction sees are rows.
LEMMA RowType ==
  ASSUME TypeOK, NEW w \in Writers
  PROVE  [d \in Ids |-> Row(w, d)] \in [Ids -> Cells]
BY DEF TypeOK, Row

\* Forgetting a transaction leaves the others.
LEMMA ForgetEffect ==
  ASSUME TypeOK, NEW w \in Writers, Forget(w)
  PROVE  /\ changed' \in [Writers -> SUBSET Ids]
         /\ value' \in [Writers -> [Ids -> Cells]]
         /\ logged' \in [Writers -> SUBSET Entries] /\ seq' \in [Writers -> Nat]
         /\ logged'[w] = {} /\ seq'[w] = 0
         /\ \A v \in Writers \ {w} : logged'[v] = logged[v] /\ seq'[v] = seq[v]
<1>1. [d \in Ids |-> Absent] \in [Ids -> Cells]
  BY DEF Cells
<1>2. QED
  BY <1>1 DEF TypeOK, Forget

-----------------------------------------------------------------------------
\* Every step keeps the tables, transactions and numbers in their ranges.
LEMMA StepTypeOK ==
  ASSUME Inv, [Next]_vars
  PROVE  TypeOK'
<1>1. TypeOK
  BY DEF Inv
<1>2. ASSUME NEW w \in Writers, NEW n \in Nat, NEW d \in Ids, NEW c \in Cells,
             Change(w, n, d, c), UNCHANGED <<scheme, committed, replica>>,
             seq' \in [Writers -> Nat], number' \in [Writers -> Nat]
      PROVE  TypeOK'
  <2>1. UNCHANGED <<scheme, rows, log, next, local, last, batch, upto>>
    BY <1>2 DEF committed, replica
  <2>2. QED
    BY <1>1, <1>2, <2>1, ChangeEffect DEF TypeOK
<1>3. ASSUME NEW w \in Writers, NEW d \in Ids, NEW c \in Cells, HelperChange(w, d, c)
      PROVE  TypeOK'
  <2>1. Advanced(w, 1) \in Nat
    BY <1>3, FreshNumber DEF HelperChange
  <2>2. seq' \in [Writers -> Nat] /\ number' \in [Writers -> Nat]
    BY <1>1, <1>3, <2>1 DEF HelperChange, TypeOK
  <2>3. QED
    BY <1>2, <1>3, <2>1, <2>2 DEF HelperChange
<1>4. ASSUME NEW w \in Writers, Allocate(w) \/ AllocateInTxn(w) PROVE TypeOK'
  <2>1. Advanced(w, 2) \in Nat
    BY <1>4, FreshNumber DEF Allocate, AllocateInTxn
  <2>2. CASE Allocate(w)
    BY <1>1, <2>1, <2>2 DEF Allocate, TypeOK, txn, replica
  <2>3. CASE AllocateInTxn(w)
    BY <1>1, <2>1, <2>3 DEF AllocateInTxn, TypeOK, committed, replica
  <2>4. QED
    BY <1>4, <2>2, <2>3
<1>5. ASSUME NEW w \in Writers, NEW d \in Ids, NEW c \in Values, Insert(w, d, c)
      PROVE  TypeOK'
  <2>1. number[w] \in Nat \ {0} /\ number[w] + 1 \in Nat \ {0} /\ MayAdvance(w)
    BY <1>1, <1>5 DEF Insert, TypeOK
  <2>2. Advanced(w, number[w] + 1) \in Nat
    BY <2>1, FreshNumber
  <2>3. seq' \in [Writers -> Nat] /\ number' \in [Writers -> Nat]
    BY <1>1, <1>5, <2>1, <2>2 DEF Insert, TypeOK
  <2>4. QED
    BY <1>2, <1>5, <2>1, <2>3 DEF Insert, Cells
<1>6. ASSUME NEW w \in Writers, NEW d \in Ids, NEW c \in Values, Update(w, d, c)
      PROVE  TypeOK'
  <2>1. number[w] \in Nat /\ seq' \in [Writers -> Nat] /\ number' \in [Writers -> Nat]
    BY <1>1, <1>6 DEF Update, TypeOK
  <2>2. QED
    BY <1>2, <1>6, <2>1 DEF Update, Cells
<1>7. ASSUME NEW w \in Writers, NEW d \in Ids, Delete(w, d) PROVE TypeOK'
  <2>1. Advanced(w, 2) \in Nat
    BY <1>7, FreshNumber DEF Delete
  <2>2. seq' \in [Writers -> Nat] /\ number' \in [Writers -> Nat]
    BY <1>1, <1>7, <2>1 DEF Delete, TypeOK
  <2>3. QED
    BY <1>2, <1>7, <2>1, <2>2 DEF Delete, Cells
<1>8. ASSUME NEW w \in Writers, Commit(w) PROVE TypeOK'
  <2>1. Forget(w) /\ UNCHANGED <<scheme, local, last, batch, upto>>
    BY <1>8 DEF Commit, replica
  <2>2. rows' \in [Ids -> Cells] /\ next' \in Nat
    BY <1>1, <1>8, RowType DEF Commit, TypeOK, NextScn
  <2>3. log' \in SUBSET Entries /\ log \subseteq log' /\ number' \in [Writers -> Nat]
    BY <1>1, <1>8 DEF Commit, TypeOK
  <2>4. QED
    BY <1>1, <2>1, <2>2, <2>3, ForgetEffect DEF TypeOK
<1>9. ASSUME NEW w \in Writers, Rollback(w) PROVE TypeOK'
  <2>1. Forget(w) /\ UNCHANGED <<scheme, rows, log, next, local, last, batch, upto>>
    BY <1>9 DEF Rollback, committed, replica
  <2>2. number' \in [Writers -> Nat]
    BY <1>1, <1>9 DEF Rollback, TypeOK
  <2>3. QED
    BY <1>1, <2>1, <2>2, ForgetEffect DEF TypeOK
<1>10. CASE Replay
  <2>1. UNCHANGED <<scheme, rows, log, next, changed, value, logged, seq, number>>
    BY <1>10 DEF Replay, Fetch, FetchNothing, Apply, Checkpoint, Restart, committed, txn, vars
  <2>2. local' \in [Ids -> Cells] /\ last' \in Nat /\ batch' \in SUBSET log /\ upto' \in Nat
    <3>1. CASE Fetch
      BY <1>1, <3>1 DEF TypeOK, Fetch, Fresh, Entries
    <3>2. CASE FetchNothing
      BY <1>1, <3>2 DEF TypeOK, FetchNothing, vars, replica
    <3>3. CASE Apply
      BY <1>1, <3>3 DEF TypeOK, Apply, Entries
    <3>4. CASE Checkpoint
      BY <1>1, <3>4 DEF TypeOK, Checkpoint
    <3>5. CASE Restart
      BY <1>1, <3>5 DEF TypeOK, Restart
    <3>6. QED
      BY <1>10, <3>1, <3>2, <3>3, <3>4, <3>5 DEF Replay
  <2>3. QED
    BY <1>1, <2>1, <2>2 DEF TypeOK
<1>11. CASE UNCHANGED vars
  BY <1>1, <1>11 DEF TypeOK, vars, committed, txn, replica
<1>12. QED
  BY <1>3, <1>4, <1>5, <1>6, <1>7, <1>8, <1>9, <1>10, <1>11 DEF Next, Write

-----------------------------------------------------------------------------
\* w logs a change under the new number n: it advances vec_dataset_scn at
\* least to n, or holds a number that it allocated before.
Logs(w, n) ==
  /\ n \in Nat \ {0}
  /\ \E d \in Ids, c \in Cells : Change(w, n, d, c)
  /\ log' = log /\ next' = next
  /\ \A v \in Writers \ {w} : seq'[v] = seq[v] /\ number'[v] = number[v]
  /\ \A e \in Logged : e.scn # n
  /\ \A v \in Writers \ {w} : number[v] # n
  /\ number'[w] \in {0, number[w]} \ {n}
  /\ \/ MayLog(w) /\ seq'[w] = seq[w] /\ n <= NextScn(w)
     \/ /\ MayAdvance(w) /\ seq'[w] # 0
        /\ seq'[w] >= next /\ seq'[w] >= NextScn(w) /\ seq'[w] >= n

\* Every statement that changes a row does so.
LEMMA ChangeLogs ==
  ASSUME Inv, NEW w \in Writers,
         \/ \E d \in Ids : \E c \in Cells : HelperChange(w, d, c)
         \/ \E d \in Ids : \E c \in Values : Insert(w, d, c) \/ Update(w, d, c)
         \/ \E d \in Ids : Delete(w, d)
  PROVE  \E n \in Nat : Logs(w, n)
<1>1. TypeOK /\ Alone /\ Behind /\ NumbersOnce
  BY DEF Inv
<1>2. ASSUME NEW d \in Ids, NEW c \in Cells, HelperChange(w, d, c)
      PROVE  \E n \in Nat : Logs(w, n)
  <2>1. MayAdvance(w) /\ seq'[w] = Advanced(w, 1) /\ Change(w, Advanced(w, 1), d, c)
        /\ log' = log /\ next' = next /\ number' = number
        /\ \A v \in Writers \ {w} : seq'[v] = seq[v]
    BY <1>1, <1>2 DEF HelperChange, committed, TypeOK
  <2>2. Logs(w, Advanced(w, 1))
    BY <1>1, <2>1, FreshNumber DEF Logs, TypeOK
  <2>3. QED
    BY <2>1, <2>2, FreshNumber
<1>3. ASSUME NEW d \in Ids, Delete(w, d)
      PROVE  \E n \in Nat : Logs(w, n)
  <2>1. MayAdvance(w) /\ seq'[w] = Advanced(w, 2) /\ Change(w, Advanced(w, 2), d, Absent)
        /\ log' = log /\ next' = next /\ number' = number
        /\ \A v \in Writers \ {w} : seq'[v] = seq[v]
    BY <1>1, <1>3 DEF Delete, committed, TypeOK
  <2>2. Absent \in Cells
    BY DEF Cells
  <2>3. Logs(w, Advanced(w, 2))
    BY <1>1, <2>1, <2>2, FreshNumber DEF Logs, TypeOK
  <2>4. QED
    BY <2>1, <2>3, FreshNumber
<1>4. ASSUME number[w] # 0
      PROVE  /\ number[w] \in Nat \ {0} /\ number[w] <= NextScn(w)
             /\ \A e \in Logged : e.scn # number[w]
             /\ \A v \in Writers \ {w} : number[v] # number[w]
  BY <1>1, <1>4 DEF TypeOK, Behind, NumbersOnce
<1>5. ASSUME NEW d \in Ids, NEW c \in Values, Insert(w, d, c)
      PROVE  \E n \in Nat : Logs(w, n)
  <2> DEFINE after == Advanced(w, number[w] + 1)
  <2>1. /\ MayAdvance(w) /\ number[w] # 0 /\ Change(w, number[w], d, c)
        /\ seq'[w] = IF after >= number[w] THEN after ELSE number[w]
        /\ log' = log /\ next' = next /\ number'[w] = 0
        /\ \A v \in Writers \ {w} : seq'[v] = seq[v] /\ number'[v] = number[v]
    BY <1>1, <1>5 DEF Insert, committed, TypeOK
  <2>2. after \in Nat \ {0} /\ after >= next /\ after >= NextScn(w)
    BY <1>4, <2>1, FreshNumber
  <2>3. /\ seq'[w] # 0 /\ seq'[w] >= next
        /\ seq'[w] >= NextScn(w) /\ seq'[w] >= number[w]
    <3>1. next \in Nat /\ NextScn(w) \in Nat
      BY <1>1 DEF TypeOK, NextScn
    <3>2. QED
      BY <1>4, <2>1, <2>2, <3>1
  <2>4. Logs(w, number[w])
    BY <1>4, <2>1, <2>3 DEF Logs, Cells
  <2>5. QED
    BY <1>4, <2>1, <2>4
<1>6. ASSUME NEW d \in Ids, NEW c \in Values, Update(w, d, c)
      PROVE  \E n \in Nat : Logs(w, n)
  <2>1. /\ MayLog(w) /\ number[w] # 0 /\ Change(w, number[w], d, c)
        /\ log' = log /\ next' = next /\ number'[w] = 0 /\ seq' = seq
        /\ \A v \in Writers \ {w} : number'[v] = number[v]
    BY <1>1, <1>6 DEF Update, committed, TypeOK
  <2>2. Logs(w, number[w])
    BY <1>4, <2>1 DEF Logs, Cells
  <2>3. QED
    BY <1>4, <2>1, <2>2
<1>7. QED
  BY <1>2, <1>3, <1>5, <1>6

\* The other steps: vec_next_scn, the ends of transactions, and the replica.
LEMMA Steps ==
  ASSUME [Next]_vars
  PROVE  \/ \E w \in Writers :
              \/ \E d \in Ids : \E c \in Cells : HelperChange(w, d, c)
              \/ \E d \in Ids : \E c \in Values : Insert(w, d, c) \/ Update(w, d, c)
              \/ \E d \in Ids : Delete(w, d)
         \/ \E w \in Writers : Allocate(w) \/ AllocateInTxn(w)
         \/ \E w \in Writers : Commit(w) \/ Rollback(w)
         \/ UNCHANGED <<log, next, logged, seq, number>>
<1>1. Replay \/ UNCHANGED vars => UNCHANGED <<log, next, logged, seq, number>>
  BY DEF Replay, Fetch, FetchNothing, Apply, Checkpoint, Restart, committed, txn, vars
<1>2. QED
  BY <1>1 DEF Next, Write

\* vec_next_scn leaves the log alone and hands out what it advances to.
LEMMA AllocateEffect ==
  ASSUME Inv, NEW w \in Writers, Allocate(w) \/ AllocateInTxn(w)
  PROVE  LET n == Advanced(w, 2)
         IN  /\ MayAdvance(w) /\ log' = log /\ logged' = logged
             /\ number'[w] = n
             /\ \A v \in Writers \ {w} : seq'[v] = seq[v] /\ number'[v] = number[v]
             /\ \/ next' = n /\ seq'[w] = 0 /\ seq[w] = 0 /\ logged[w] = {}
                \/ next' = next /\ seq'[w] = n
BY DEF Inv, TypeOK, Allocate, AllocateInTxn, InTransaction, committed, txn

\* The end of a transaction: its entries are in the log, or nowhere.
LEMMA EndEffect ==
  ASSUME Inv, NEW w \in Writers, Commit(w) \/ Rollback(w)
  PROVE  /\ InTransaction(w)
         /\ logged'[w] = {} /\ seq'[w] = 0
         /\ \A v \in Writers \ {w} :
              logged'[v] = logged[v] /\ seq'[v] = seq[v] /\ number'[v] = number[v]
         /\ number'[w] \in {0, number[w]}
         /\ \/ log' = log \cup logged[w] /\ next' = NextScn(w)
            \/ log' = log /\ next' = next /\ number'[w] = 0
<1>1. TypeOK
  BY DEF Inv
<1>2. CASE Commit(w)
  BY <1>1, <1>2, ForgetEffect DEF Commit, TypeOK
<1>3. CASE Rollback(w)
  BY <1>1, <1>3, ForgetEffect DEF Rollback, committed, TypeOK
<1>4. QED
  BY <1>2, <1>3

-----------------------------------------------------------------------------
\* Nobody advances while another is in a transaction, or logs while another
\* has advanced.
LEMMA StepAlone ==
  ASSUME Inv, [Next]_vars
  PROVE  Alone'
<1>1. TypeOK /\ Alone
  BY DEF Inv
<1>2. ASSUME NEW w \in Writers, NEW n \in Nat, Logs(w, n) PROVE Alone'
  <2>1. \A v \in Writers \ {w} : logged'[v] = logged[v] /\ seq'[v] = seq[v]
    BY <1>1, <1>2, ChangeEffect DEF Logs
  <2>2. CASE MayLog(w) /\ seq'[w] = seq[w]
    BY <1>1, <1>2, <2>1, <2>2 DEF Logs, MayLog, Alone, InTransaction
  <2>3. CASE MayAdvance(w) /\ seq'[w] >= next
    BY <1>1, <1>2, <2>1, <2>3 DEF Logs, MayAdvance, Alone, InTransaction
  <2>4. QED
    BY <1>2, <2>2, <2>3 DEF Logs
<1>3. ASSUME NEW w \in Writers, Allocate(w) \/ AllocateInTxn(w) PROVE Alone'
  BY <1>1, <1>3, AllocateEffect, FreshNumber DEF MayAdvance, Alone, InTransaction
<1>4. ASSUME NEW w \in Writers, Commit(w) \/ Rollback(w) PROVE Alone'
  BY <1>1, <1>4, EndEffect DEF Alone, InTransaction
<1>5. CASE UNCHANGED <<log, next, logged, seq, number>>
  BY <1>1, <1>5 DEF Alone, InTransaction
<1>6. QED
  BY <1>2, <1>3, <1>4, <1>5, Steps, ChangeLogs

\* vec_dataset_scn stays ahead of all numbers.
LEMMA StepBehind ==
  ASSUME Inv, TypeOK', [Next]_vars
  PROVE  Behind'
<1>1. TypeOK /\ Alone /\ Behind
  BY DEF Inv
<1>2. /\ next \in Nat /\ next' \in Nat
      /\ \A v \in Writers : NextScn(v) \in Nat /\ NextScn(v) >= next
      /\ \A e \in Logged : e.scn \in Nat
      /\ \A v \in Writers : number[v] \in Nat
  BY <1>1 DEF TypeOK, Alone, NextScn, Logged, Entries
<1>3. ASSUME NEW w \in Writers, NEW n \in Nat, Logs(w, n) PROVE Behind'
  <2>1. /\ \A v \in Writers \ {w} : logged'[v] = logged[v] /\ NextScn(v)' = NextScn(v)
        /\ \A e \in logged'[w] : e \in logged[w] \/ e.scn = n
    BY <1>1, <1>3, ChangeEffect DEF Logs, NextScn
  <2>2. NextScn(w)' \in Nat /\ NextScn(w)' >= NextScn(w) /\ NextScn(w)' >= n
    BY <1>2, <1>3 DEF Logs, NextScn, TypeOK
  <2>3. \A e \in logged[w] : e.scn \in Nat
    BY <1>2 DEF Logged
  <2>4. \A e \in logged'[w] : e.scn <= NextScn(w)'
    BY <1>1, <1>2, <2>1, <2>2, <2>3 DEF Behind
  <2>5. number'[w] <= NextScn(w)'
    BY <1>1, <1>2, <1>3, <2>2 DEF Behind, Logs
  <2>6. QED
    BY <1>1, <1>3, <2>1, <2>4, <2>5 DEF Behind, Logs
<1>4. ASSUME NEW w \in Writers, Allocate(w) \/ AllocateInTxn(w) PROVE Behind'
  <2> DEFINE n == Advanced(w, 2)
  <2>1. n \in Nat \ {0} /\ n >= next /\ n >= NextScn(w)
    BY <1>4, AllocateEffect, FreshNumber
  <2>2. \A v \in Writers : NextScn(v)' \in Nat /\ NextScn(v)' >= NextScn(v)
    BY <1>1, <1>2, <1>4, <2>1, AllocateEffect DEF NextScn, MayAdvance, InTransaction
  <2>3. number'[w] <= NextScn(w)' /\ next' >= next
    BY <1>2, <1>4, <2>1, AllocateEffect DEF NextScn
  <2>4. log' = log /\ logged' = logged /\ \A v \in Writers \ {w} : number'[v] = number[v]
    BY <1>4, AllocateEffect
  <2>5. \A e \in log' : e.scn <= next'
    BY <1>1, <1>2, <2>3, <2>4 DEF Behind, Logged
  <2>6. \A v \in Writers : \A e \in logged'[v] : e.scn <= NextScn(v)'
    BY <1>1, <1>2, <2>2, <2>4 DEF Behind, Logged
  <2>7. \A v \in Writers : number'[v] <= NextScn(v)'
    BY <1>1, <1>2, <2>2, <2>3, <2>4 DEF Behind
  <2>8. QED
    BY <2>5, <2>6, <2>7 DEF Behind
<1>5. ASSUME NEW w \in Writers, Commit(w) \/ Rollback(w) PROVE Behind'
  <2>1. \A v \in Writers \ {w} : seq[v] = 0 /\ NextScn(v) = next /\ NextScn(v)' = next'
    BY <1>1, <1>5, EndEffect DEF Alone, NextScn
  <2>2. next' >= next /\ NextScn(w)' = next'
    BY <1>2, <1>5, EndEffect DEF NextScn
  <2>3. \A e \in log' : e.scn <= next'
    BY <1>1, <1>2, <1>5, EndEffect DEF Behind, Logged
  <2>4. \A v \in Writers : \A e \in logged'[v] : e.scn <= NextScn(v)'
    BY <1>1, <1>2, <1>5, <2>1, <2>2, EndEffect DEF Behind, Logged
  <2>5. \A v \in Writers : number'[v] <= NextScn(v)'
    BY <1>1, <1>2, <1>5, <2>1, <2>2, EndEffect DEF Behind
  <2>6. QED
    BY <2>3, <2>4, <2>5 DEF Behind
<1>6. CASE UNCHANGED <<log, next, logged, seq, number>>
  BY <1>1, <1>6 DEF Behind, NextScn
<1>7. QED
  BY <1>3, <1>4, <1>5, <1>6, Steps, ChangeLogs

\* No number is logged or held twice.
LEMMA StepNumbersOnce ==
  ASSUME Inv, [Next]_vars
  PROVE  NumbersOnce'
<1>1. TypeOK /\ NumbersOnce
  BY DEF Inv
<1>2. ASSUME NEW w \in Writers, NEW n \in Nat, Logs(w, n) PROVE NumbersOnce'
  <2>1. PICK d \in Ids, c \in Cells : Logged' = Logged \cup {[scn |-> n, id |-> d, value |-> c]}
    BY <1>1, <1>2, ChangeEffect DEF Logs
  <2>2. QED
    BY <1>1, <1>2, <2>1 DEF Logs, NumbersOnce
<1>3. ASSUME NEW w \in Writers, Allocate(w) \/ AllocateInTxn(w) PROVE NumbersOnce'
  <2> DEFINE n == Advanced(w, 2)
  <2>1. Logged' = Logged /\ number'[w] = n /\ \A v \in Writers \ {w} : number'[v] = number[v]
    BY <1>3, AllocateEffect DEF Logged
  <2>2. n \in Nat /\ (\A e \in Logged : e.scn # n) /\ \A v \in Writers : number[v] # n
    <3>1. MayAdvance(w)
      BY <1>3, AllocateEffect
    <3>2. QED
      BY <1>1, <3>1, FreshNumber DEF TypeOK
  <2>3. QED
    BY <1>1, <2>1, <2>2 DEF NumbersOnce
<1>4. ASSUME NEW w \in Writers, Commit(w) \/ Rollback(w) PROVE NumbersOnce'
  <2>1. Logged' \subseteq Logged
    BY <1>4, EndEffect DEF Logged
  <2>2. QED
    BY <1>1, <1>4, <2>1, EndEffect DEF NumbersOnce
<1>5. CASE UNCHANGED <<log, next, logged, seq, number>>
  BY <1>1, <1>5 DEF NumbersOnce, Logged
<1>6. QED
  BY <1>2, <1>3, <1>4, <1>5, Steps, ChangeLogs

-----------------------------------------------------------------------------
\* The numbers of the log are in order in every reachable state, with the
\* triggers of the helper as with those of shadow_sync.ddl.
THEOREM Invariance == Spec => []Inv
<1>1. Inv /\ [Next]_vars => Inv'
  BY StepTypeOK, StepAlone, StepBehind, StepNumbersOnce DEF Inv
<1>2. QED
  BY InitInv, <1>1, PTL DEF Spec

\* The tables, transactions and the replica stay well formed.
THEOREM TypeCorrect == Spec => []TypeOK
<1>1. Inv => TypeOK
  BY DEF Inv
<1>2. QED
  BY <1>1, Invariance, PTL

\* No two changes of a dataset are ever logged under one number, whatever
\* transactions overlap, commit or roll back.
THEOREM UniqueNumbers == Spec => []NumbersOnce
<1>1. Inv => NumbersOnce
  BY DEF Inv
<1>2. QED
  BY <1>1, Invariance, PTL

=============================================================================
