----------------------------- MODULE ShadowLog -----------------------------
(***************************************************************************)
(* The change log of one dataset and shadow table: triggers number every   *)
(* change of a row and log it, and a replica applies the log in the order  *)
(* of the numbers.                                                         *)
(*                                                                         *)
(* Three ways to number a change are in use:                               *)
(*   "helper"      the triggers of vecsync/logging.go, for SQLite and for  *)
(*                 MySQL, advance vec_dataset_scn themselves;              *)
(*   "autocommit"  the writer calls vec_next_scn of shadow_sync.ddl in a   *)
(*                 statement of its own and stores the number in the row,  *)
(*                 from where the triggers of shadow_sync.ddl log it;      *)
(*   "inTxn"       the same, within the transaction that writes the row.   *)
(*                                                                         *)
(* A statement with its triggers is one step.  What a transaction has      *)
(* changed others see when it commits; until then it has its rows locked,  *)
(* and the row of vec_dataset_scn from the moment it advances it (in       *)
(* SQLite, the whole database).  The triggers of shadow_sync.ddl also      *)
(* update vec_dataset where they advance, and every row they log locks     *)
(* vec_dataset against such an update, by its foreign key.  The column     *)
(* last_scn that they keep there is read by nobody and left out.           *)
(*                                                                         *)
(* An entry of the log has its number, its document and the value of the   *)
(* row, which is Absent for a delete: inserts and updates are applied in   *)
(* the same way.                                                           *)
(***************************************************************************)
EXTENDS Integers, FiniteSets

CONSTANTS
  Schemes,    \* of "helper", "autocommit", "inTxn"
  Writers,    \* connections that change rows
  Ids,        \* documents
  Values,     \* what a row may hold
  Absent,     \* no row
  MaxScn,     \* bound: numbers
  BatchSize   \* how many entries the replica fetches at once

ASSUME SchemesAssumption == Schemes \subseteq {"helper", "autocommit", "inTxn"}
ASSUME AbsentAssumption == Absent \notin Values
ASSUME BatchSizeAssumption == BatchSize \in Nat \ {0}

VARIABLES
  scheme,   \* how changes are numbered
  rows,     \* the shadow table, as committed
  log,      \* vec_shadow_log, as committed
  next,     \* next_scn in vec_dataset_scn, as committed; 0 without a row
  changed,  \* changed[w]: the documents the transaction of w has changed
  value,    \* value[w]: what it has given them
  logged,   \* logged[w]: the entries it has logged
  seq,      \* seq[w]: next_scn as it has left it, or 0
  number,   \* number[w]: the number w holds and has not stored yet, or 0
  local,    \* the shadow table of the replica
  last,     \* last_scn in vec_sync_state
  batch,    \* the entries the replica has fetched and not applied
  upto      \* the last number of its batch, or 0

committed == <<rows, log, next>>
txn == <<changed, value, logged, seq>>
replica == <<local, last, batch, upto>>
vars == <<scheme, committed, txn, number, replica>>

Cells == Values \cup {Absent}
Entries == [scn : Nat, id : Ids, value : Cells]

\* The transaction of w has begun.
InTransaction(w) == seq[w] # 0 \/ logged[w] # {}

\* What w sees.
Row(w, d) == IF d \in changed[w] THEN value[w][d] ELSE rows[d]
NextScn(w) == IF seq[w] # 0 THEN seq[w] ELSE next

\* No other transaction holds a lock that w needs: on the document, to log,
\* or to advance vec_dataset_scn.
RowFree(w, d) == \A v \in Writers \ {w} : d \notin changed[v]
MayLog(w) == \A v \in Writers \ {w} : seq[v] = 0
MayAdvance(w) == \A v \in Writers \ {w} : ~InTransaction(v)

\* What has been logged, committed or not yet.
Logged == log \cup UNION {logged[w] : w \in Writers}

Init ==
  /\ scheme \in Schemes
  /\ rows = [d \in Ids |-> Absent]
  /\ log = {}
  /\ next = 0
  /\ changed = [w \in Writers |-> {}]
  /\ value = [w \in Writers |-> [d \in Ids |-> Absent]]
  /\ logged = [w \in Writers |-> {}]
  /\ seq = [w \in Writers |-> 0]
  /\ number = [w \in Writers |-> 0]
  /\ local = [d \in Ids |-> Absent]
  /\ last = 0
  /\ batch = {}
  /\ upto = 0

-----------------------------------------------------------------------------
(* Mutated forms: the trigger logs the row as it was; vec_dataset_scn is   *)
(* not advanced when it has a row; the replica reads what is not           *)
(* committed.                                                              *)

ChangeLogsOld(w, n, d, c) ==
  /\ changed' = [changed EXCEPT ![w] = @ \cup {d}]
  /\ value' = [value EXCEPT ![w][d] = c]
  /\ logged' = [logged EXCEPT ![w] = @ \cup {[scn |-> n, id |-> d, value |-> Row(w, d)]}]

FreshDirty == {e \in Logged : e.scn > last}

AdvancedOnce(w, first) == IF NextScn(w) = 0 THEN first ELSE NextScn(w)

-----------------------------------------------------------------------------
\* The upsert of vec_dataset_scn.
Advanced(w, first) == IF NextScn(w) = 0 THEN first ELSE NextScn(w) + 1

\* The statement of w gives d the content c, and its trigger logs it under n.
Change(w, n, d, c) ==
  /\ changed' = [changed EXCEPT ![w] = @ \cup {d}]
  /\ value' = [value EXCEPT ![w][d] = c]
  /\ logged' = [logged EXCEPT ![w] = @ \cup {[scn |-> n, id |-> d, value |-> c]}]

\* An insert, update or delete under the triggers of the helper.
HelperChange(w, d, c) ==
  /\ scheme = "helper"
  /\ Row(w, d) # Absent \/ c # Absent
  /\ MayAdvance(w)
  /\ RowFree(w, d)
  /\ Advanced(w, 1) <= MaxScn
  /\ seq' = [seq EXCEPT ![w] = Advanced(w, 1)]
  /\ Change(w, Advanced(w, 1), d, c)
  /\ UNCHANGED <<scheme, committed, number, replica>>

\* SELECT vec_next_scn(dataset), committed at once.
Allocate(w) ==
  /\ scheme = "autocommit"
  /\ number[w] = 0
  /\ ~InTransaction(w)
  /\ MayAdvance(w)
  /\ Advanced(w, 2) <= MaxScn
  /\ next' = Advanced(w, 2)
  /\ number' = [number EXCEPT ![w] = Advanced(w, 2)]
  /\ UNCHANGED <<scheme, rows, log, txn, replica>>

\* The same within the transaction.
AllocateInTxn(w) ==
  /\ scheme = "inTxn"
  /\ number[w] = 0
  /\ MayAdvance(w)
  /\ Advanced(w, 2) <= MaxScn
  /\ seq' = [seq EXCEPT ![w] = Advanced(w, 2)]
  /\ number' = [number EXCEPT ![w] = Advanced(w, 2)]
  /\ UNCHANGED <<scheme, committed, changed, value, logged, replica>>

\* The writer stores its number in the row, shadow_vec_docs_ai logs it and
\* advances vec_dataset_scn as well, at least as far.
Insert(w, d, c) ==
  /\ number[w] # 0
  /\ Row(w, d) = Absent
  /\ MayAdvance(w)
  /\ RowFree(w, d)
  /\ LET after == Advanced(w, number[w] + 1)
     IN  seq' = [seq EXCEPT ![w] = IF after >= number[w] THEN after ELSE number[w]]
  /\ Change(w, number[w], d, c)
  /\ number' = [number EXCEPT ![w] = 0]
  /\ UNCHANGED <<scheme, committed, replica>>

\* shadow_vec_docs_au logs the number and leaves vec_dataset_scn alone.
Update(w, d, c) ==
  /\ number[w] # 0
  /\ Row(w, d) # Absent
  /\ MayLog(w)
  /\ RowFree(w, d)
  /\ Change(w, number[w], d, c)
  /\ number' = [number EXCEPT ![w] = 0]
  /\ UNCHANGED <<scheme, committed, seq, replica>>

\* shadow_vec_docs_ad takes a number of its own.  A writer that holds a number
\* stores it before it does anything else.
Delete(w, d) ==
  /\ scheme # "helper"
  /\ number[w] = 0
  /\ Row(w, d) # Absent
  /\ MayAdvance(w)
  /\ RowFree(w, d)
  /\ Advanced(w, 2) <= MaxScn
  /\ seq' = [seq EXCEPT ![w] = Advanced(w, 2)]
  /\ Change(w, Advanced(w, 2), d, Absent)
  /\ UNCHANGED <<scheme, committed, number, replica>>

\* The transaction of w is over.
Forget(w) ==
  /\ changed' = [changed EXCEPT ![w] = {}]
  /\ value' = [value EXCEPT ![w] = [d \in Ids |-> Absent]]
  /\ logged' = [logged EXCEPT ![w] = {}]
  /\ seq' = [seq EXCEPT ![w] = 0]

Commit(w) ==
  /\ InTransaction(w)
  /\ rows' = [d \in Ids |-> Row(w, d)]
  /\ log' = log \cup logged[w]
  /\ next' = NextScn(w)
  /\ Forget(w)
  /\ number' = IF scheme = "inTxn" THEN [number EXCEPT ![w] = 0] ELSE number
  /\ UNCHANGED <<scheme, replica>>

\* The writer gives up, or the database or the end of the writer undoes its
\* transaction.  It starts over with another number.
Rollback(w) ==
  /\ InTransaction(w)
  /\ Forget(w)
  /\ number' = [number EXCEPT ![w] = 0]
  /\ UNCHANGED <<scheme, committed, replica>>

-----------------------------------------------------------------------------
(* The replica: the loop of docs/INGESTION.md, section 6.                  *)

Fresh == {e \in log : e.scn > last}

\* The next entries after the checkpoint, ordered by number.
Fetch ==
  /\ upto = 0
  /\ Fresh # {}
  /\ batch' = {e \in Fresh : Cardinality({f \in Fresh : f.scn < e.scn}) < BatchSize}
  /\ \E e \in batch' :
       /\ \A f \in batch' : f.scn <= e.scn
       /\ upto' = e.scn
  /\ UNCHANGED <<scheme, committed, txn, number, local, last>>

FetchNothing ==
  /\ upto = 0
  /\ Fresh = {}
  /\ UNCHANGED vars

Apply ==
  /\ \E e \in batch :
       /\ \A f \in batch : e.scn <= f.scn
       /\ local' = [local EXCEPT ![e.id] = e.value]
       /\ batch' = batch \ {e}
  /\ UNCHANGED <<scheme, committed, txn, number, last, upto>>

Checkpoint ==
  /\ upto # 0
  /\ batch = {}
  /\ last' = upto
  /\ upto' = 0
  /\ UNCHANGED <<scheme, committed, txn, number, local, batch>>

\* The replica ends anywhere in a batch and starts again at its checkpoint.
Restart ==
  /\ upto # 0
  /\ batch' = {}
  /\ upto' = 0
  /\ UNCHANGED <<scheme, committed, txn, number, local, last>>

-----------------------------------------------------------------------------
Write(w) ==
  \/ \E d \in Ids : \E c \in Cells : HelperChange(w, d, c)
  \/ Allocate(w) \/ AllocateInTxn(w)
  \/ \E d \in Ids : \E c \in Values : Insert(w, d, c) \/ Update(w, d, c)
  \/ \E d \in Ids : Delete(w, d)
  \/ Commit(w) \/ Rollback(w)

Replay == Fetch \/ FetchNothing \/ Apply \/ Checkpoint \/ Restart

Next == (\E w \in Writers : Write(w)) \/ Replay

Spec == Init /\ [][Next]_vars

-----------------------------------------------------------------------------
TypeOK ==
  /\ scheme \in {"helper", "autocommit", "inTxn"}
  /\ rows \in [Ids -> Cells]
  /\ log \in SUBSET Entries
  /\ next \in Nat
  /\ changed \in [Writers -> SUBSET Ids]
  /\ value \in [Writers -> [Ids -> Cells]]
  /\ logged \in [Writers -> SUBSET Entries]
  /\ seq \in [Writers -> Nat]
  /\ number \in [Writers -> Nat]
  /\ local \in [Ids -> Cells]
  /\ last \in Nat
  /\ batch \in SUBSET log
  /\ upto \in Nat

\* No two changes get one number, so no trigger fails on the primary key of
\* vec_shadow_log, and no number that is held has been logged already.
NumbersOnce ==
  /\ \A e, f \in Logged : e.scn = f.scn => e = f
  /\ \A w \in Writers : number[w] # 0 => \A e \in Logged : e.scn # number[w]
  /\ \A w, v \in Writers : number[w] = number[v] => w = v \/ number[w] = 0

\* A replica that has nothing left to fetch holds the rows of the source,
\* after any restarts in the middle of batches.
\* "Triggers persist each mutation to vec_shadow_log so downstream sqlite-vec
\* replicas can replay changes deterministically" (shadow_sync.ddl).
LogReplays == upto = 0 /\ Fresh = {} => local = rows

\* It does where the number is taken in the transaction that logs it: under
\* the triggers of the helper, and with vec_next_scn in the transaction.
OrderedLogReplays == scheme # "autocommit" => LogReplays

=============================================================================
