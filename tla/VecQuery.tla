------------------------------ MODULE VecQuery ------------------------------
(***************************************************************************)
(* A SELECT on a vec table of vec/api.go from its planning to its last     *)
(* row: BestIndex, Filter with the statements it runs while it is called,  *)
(* the rows SQLite takes from the cursor, and what QueryText of            *)
(* vecutil/index.go does with them; beside it, writers of the shadow table *)
(* and the pool of connections all of them share.                          *)
(*                                                                         *)
(* One query embedding is asked for, not of magnitude 0, so an embedding   *)
(* of its length is its score.  What ensureIndex returns is an index of    *)
(* the rows as they were at some time: module MatchIndex says which.  A    *)
(* statement takes a connection, runs and gives it back in one step; a     *)
(* query keeps its own until its last row.                                 *)
(***************************************************************************)
EXTENDS Integers, Sequences, FiniteSets

CONSTANTS
  Goroutines,   \* who queries
  Ids,          \* documents
  DatasetOf,    \* DatasetOf[id]: the dataset of a document
  Scores,       \* embeddings of the query's length, by their score
  Zero,         \* an embedding of that length and of magnitude 0
  ZeroScore,    \* its score, where an index ranks it
  Odd,          \* an embedding of another length, or not to be decoded
  Blank,        \* no embedding: NULL or empty
  Absent,       \* no row
  Unreadable,   \* an argument that asString, decodeMatchArg or asFloat rejects
  Kinds,        \* what resolveIndexKind may choose: "brute", "cover" or both
  Queries,      \* queries: a WHERE clause, a LIMIT or 0, text for QueryText
  FirstRows,    \* rows there may be at first
  FirstSchemas, \* tables there may be at first
  Pools,        \* [own, open]: whether dbpath= gives the table a pool of its
                \* own, and MaxOpenConns of the application's pool
  Changes,      \* <<id, value>>: what writers may write
  MaxWrites,    \* bound: statements that change rows
  MaxFaults     \* bound: statements that fail

\* A row: its embedding, and whether neither content nor meta is NULL.
Documents == [emb : Scores \cup {Zero, Odd, Blank}, full : BOOLEAN]
Values == Documents \cup {Absent}

ASSUME ScoresAssumption == Scores \subseteq Int /\ ZeroScore \in Int
ASSUME DistinctAssumption ==
  /\ Zero # Odd /\ Zero # Blank /\ Odd # Blank
  /\ Zero \notin Int /\ Odd \notin Int /\ Blank \notin Int
  /\ Absent \notin Documents /\ Absent \notin Int /\ Absent # Blank
ASSUME KindsAssumption == Kinds \subseteq {"brute", "cover"} /\ Kinds # {}
ASSUME FirstRowsAssumption == FirstRows \subseteq [Ids -> Values]
ASSUME ChangesAssumption == Changes \subseteq Ids \X Values
ASSUME PoolsAssumption == Pools \subseteq [own : BOOLEAN, open : Nat]
\* A query of QueryText has a MATCH; no query has two.
ASSUME QueriesAssumption ==
  /\ Queries # {}
  /\ \A q \in Queries :
       /\ q.text \in BOOLEAN
       /\ q.limit \in Nat
       /\ Len(q.where) \in Nat /\ DOMAIN q.where = 1 .. Len(q.where)
       /\ \A i \in DOMAIN q.where :
            q.where[i].col = "match_score" =>
              \/ q.where[i].val \in Int
              \/ q.where[i].val = Unreadable /\ q.where[i].op \in {">=", ">"}
       /\ q.text => \E i \in DOMAIN q.where : q.where[i].op = "MATCH" /\ q.where[i].col = "doc_id"
       /\ \A i, j \in DOMAIN q.where : q.where[i].op = "MATCH" /\ q.where[j].op = "MATCH" => i = j
ASSUME IdsAssumption == IsFiniteSet(Ids)

\* The statements of ensureShadow, ensureVectorStorage and
\* ensureVectorStorageLocks, in their order.
Ddl == <<"shadow", "ins", "upd", "del", "storage", "locks">>
Triggers == {"ins", "upd", "del"}

ASSUME FirstSchemasAssumption ==
  \A s \in FirstSchemas : s \subseteq {"shadow", "storage", "locks"}

VARIABLES
  rows,    \* rows[id]: the shadow row of id
  past,    \* history: the rows as they are and were
  schema,  \* which of Ddl exist
  pool,    \* the table's pool, one of Pools
  writes,  \* statements that changed rows, at most MaxWrites
  faults,  \* statements that failed, at most MaxFaults
  gone,    \* history: the ids of documents that were deleted
  pc,      \* pc[g]: what g does next
  query,   \* query[g]: its query
  index,   \* index[g]: its index, or what a scan found, as Scored has it
  todo,    \* todo[g]: the ids not yet looked up, then not yet fetched
  found,   \* found[g]: the ids of the cursor's rows, those taken left out
  answer   \* answer[g]: the ids that SQLite has given to the caller

database == <<rows, past, schema>>
world == <<pool, writes, faults, gone>>
local == <<pc, query, index, todo, found, answer>>
vars == <<database, world, local>>

NoRows == [id \in Ids |-> Absent]
NoQuery == CHOOSE q \in Queries : TRUE

-----------------------------------------------------------------------------
(* Planning: a WHERE clause is a sequence of constraints.                  *)

Highest(S) == IF S = {} THEN 0 ELSE CHOOSE i \in S : \A j \in S : j <= i

\* The loop of BestIndex keeps the last constraint of each of three kinds.
DatasetAt(where) ==
  Highest({i \in DOMAIN where : where[i].col = "dataset_id" /\ where[i].op = "="})
MatchAt(where) ==
  Highest({i \in DOMAIN where : where[i].col = "doc_id" /\ where[i].op = "MATCH"})
ScoreAt(where) ==
  Highest({i \in DOMAIN where : where[i].col = "match_score" /\ where[i].op \in {">=", ">"}})

\* idxDatasetMatch stands for idxDatasetMatchScore too: there is a minimum
\* score in Filter if ScoreAt is not 0.
IdxNum(where) ==
  IF DatasetAt(where) = 0 THEN "error"
  ELSE IF MatchAt(where) = 0 THEN "idxDatasetScan" ELSE "idxDatasetMatch"

OmitsEverything(where) == DOMAIN where  \* mutated form of Omitted

\* The constraints passed to Filter.  Each has Omit set: SQLite tests the
\* others only.
Omitted(where) ==
  {i \in DOMAIN where :
     \/ i = DatasetAt(where)
     \/ i = MatchAt(where)
     \/ i = ScoreAt(where) /\ IdxNum(where) = "idxDatasetMatch"}

\* What SQL means by a constraint.  A bound that is no number is above every
\* number.
Holds(c, id, score) ==
  \/ c.col = "dataset_id" /\ DatasetOf[id] = c.val
  \/ c.col = "doc_id" /\ c.op = "MATCH"
  \/ /\ c.col = "match_score"
     /\ \/ c.op = ">=" /\ c.val \in Int /\ score >= c.val
        \/ c.op = ">"  /\ c.val \in Int /\ score > c.val
        \/ c.op = "<=" /\ score <= c.val

-----------------------------------------------------------------------------
(* What Filter makes of its arguments, and SQLite of its rows.             *)

\* asString, decodeMatchArg and asFloat.
Readable(where) == \A i \in Omitted(where) : where[i].val # Unreadable

Dataset(where) == where[DatasetAt(where)].val

\* score < *c.minScore
TooLow(where, score) == ScoreAt(where) # 0 /\ score < where[ScoreAt(where)].val

InDataset(s, where) ==
  {id \in Ids : s[id] # Absent /\ DatasetOf[id] = Dataset(where)}

\* Whether an index of some kind ranks a row: both leave out a row without an
\* embedding, only the brute-force index one of magnitude 0.
Ranks(row, kind) ==
  row # Absent /\ (row.emb \in Scores \/ (kind = "cover" /\ row.emb = Zero))

\* The index of some rows: the score of what it ranks; Blank for another row.
Scored(s, kind) ==
  [id \in Ids |-> IF s[id] = Absent THEN Absent
                  ELSE IF ~Ranks(s[id], kind) THEN Blank
                  ELSE IF s[id].emb = Zero THEN ZeroScore ELSE s[id].emb]

\* Neither index can be built, or asked, with an embedding of another length.
Unfit(s, where) == \E id \in InDataset(s, where) : s[id].emb = Odd

\* The ids that idx.Query ranks.
Ranked(marks, where) == {id \in InDataset(marks, where) : marks[id] # Blank}

\* match_score of a row: 0 in a scan.
ScoreOf(marks, where, id) == IF IdxNum(where) = "idxDatasetScan" THEN 0 ELSE marks[id]

\* SQLite tests the constraints that BestIndex left to it.
Tested(marks, where, id) ==
  \A i \in DOMAIN where \ Omitted(where) : Holds(where[i], id, ScoreOf(marks, where, id))

\* What QueryText can scan into its strings and score.
Fit(row) == row # Absent /\ row.full /\ row.emb \in Scores

Members(ids) == {ids[i] : i \in DOMAIN ids}

\* The orders in which rows may lie in the table.
Orders(S) == {f \in [1 .. Cardinality(S) -> S] :
                /\ S = Members(f)
                /\ \A i, j \in DOMAIN f : i # j => f[i] # f[j]}

-----------------------------------------------------------------------------
(* Connections.                                                            *)

\* Who has a connection of the application's pool for a query not yet read.
Open == {g \in Goroutines : pc[g] \in {"setup", "index", "lookup", "scan", "read"}}
Free == Cardinality(Open) < pool.open
\* A statement of Filter runs on t.db.
CanAsk == pool.own \/ Free

Goto(g, label) == pc' = [pc EXCEPT ![g] = label]

-----------------------------------------------------------------------------
(* Mutated forms.                                                          *)

\* DELETE, then INSERT.
UpsertInTwo(id, v) ==
  /\ Free /\ "shadow" \in schema
  /\ writes < MaxWrites
  /\ rows' = [rows EXCEPT ![id] = IF @ = Absent THEN v ELSE Absent]
  /\ past' = past \cup {rows'}
  /\ writes' = writes + 1
  /\ UNCHANGED <<schema, pool, faults, gone, local>>

\* The triggers are taken as a sign that the rest is there.
SetupStopsAtTriggers(g) ==
  /\ pc[g] = "setup"
  /\ CanAsk
  /\ \/ /\ Triggers \subseteq schema
        /\ Goto(g, "index")
        /\ UNCHANGED schema
     \/ \E i \in DOMAIN Ddl :
          /\ Ddl[i] \notin schema
          /\ \A j \in 1 .. i - 1 : Ddl[j] \in schema
          /\ schema' = schema \cup {Ddl[i]}
          /\ UNCHANGED pc
  /\ UNCHANGED <<rows, past, world, query, index, todo, found, answer>>

\* A row that is not found is looked up again.
LookupRetries(g) ==
  /\ pc[g] = "lookup"
  /\ \E id \in todo[g] :
       /\ \A other \in todo[g] : index[g][other] <= index[g][id]
       /\ IF TooLow(query[g].where, index[g][id])
          THEN todo' = [todo EXCEPT ![g] = @ \ {id}] /\ UNCHANGED found
          ELSE /\ CanAsk
               /\ IF rows[id] = Absent
                  THEN UNCHANGED <<todo, found>>
                  ELSE /\ todo' = [todo EXCEPT ![g] = @ \ {id}]
                       /\ found' = [found EXCEPT ![g] = Append(@, id)]
  /\ UNCHANGED <<database, world, pc, query, index, answer>>

-----------------------------------------------------------------------------
Init ==
  /\ rows \in FirstRows
  /\ past = {rows}
  /\ schema \in FirstSchemas
  /\ rows # NoRows => "shadow" \in schema
  /\ pool \in Pools
  /\ writes = 0
  /\ faults = 0
  /\ gone = {}
  /\ pc = [g \in Goroutines |-> "idle"]
  /\ query = [g \in Goroutines |-> NoQuery]
  /\ index = [g \in Goroutines |-> NoRows]
  /\ todo = [g \in Goroutines |-> {}]
  /\ found = [g \in Goroutines |-> <<>>]
  /\ answer = [g \in Goroutines |-> <<>>]

\* DB.Query, also within MatchText and QueryText.
Call(g) ==
  /\ pc[g] = "idle"
  /\ \E q \in Queries : query' = [query EXCEPT ![g] = q]
  /\ Goto(g, "connect")
  /\ UNCHANGED <<database, world, index, todo, found, answer>>

\* A connection, then BestIndex, and the part of Filter that reads its
\* arguments.
Plan(g) ==
  /\ pc[g] = "connect"
  /\ Free
  /\ LET plan == IdxNum(query[g].where) IN
     Goto(g, IF plan = "error" \/ ~Readable(query[g].where) THEN "refused"
             ELSE IF plan = "idxDatasetScan" THEN "scan" ELSE "setup")
  /\ UNCHANGED <<database, world, query, index, todo, found, answer>>

\* ensureShadow, ensureVectorStorage, ensureVectorStorageLocks: a statement
\* finds its table or trigger, or makes it.
Setup(g) ==
  /\ pc[g] = "setup"
  /\ CanAsk
  /\ \/ /\ Members(Ddl) \subseteq schema
        /\ Goto(g, "index")
        /\ UNCHANGED schema
     \/ \E i \in DOMAIN Ddl :
          /\ Ddl[i] \notin schema
          /\ \A j \in 1 .. i - 1 : Ddl[j] \in schema
          /\ schema' = schema \cup {Ddl[i]}
          /\ UNCHANGED pc
  /\ UNCHANGED <<rows, past, world, query, index, todo, found, answer>>

\* The rest of ensureIndex, and idx.Query.
GetIndex(g) ==
  /\ pc[g] = "index"
  /\ CanAsk
  /\ \E s \in past, kind \in Kinds :
       IF Unfit(s, query[g].where)
       THEN Goto(g, "failed") /\ UNCHANGED <<index, todo>>
       ELSE /\ index' = [index EXCEPT ![g] = Scored(s, kind)]
            /\ todo' = [todo EXCEPT ![g] = Ranked(Scored(s, kind), query[g].where)]
            /\ Goto(g, "lookup")
  /\ UNCHANGED <<database, world, query, found, answer>>

\* A turn of the loop over the ranked ids, best first, with lookupRow.
Lookup(g) ==
  /\ pc[g] = "lookup"
  /\ \E id \in todo[g] :
       /\ \A other \in todo[g] : index[g][other] <= index[g][id]
       /\ todo' = [todo EXCEPT ![g] = @ \ {id}]
       /\ IF TooLow(query[g].where, index[g][id])
          THEN UNCHANGED <<pc, found>>
          ELSE /\ CanAsk
               /\ IF rows[id] = Absent
                  THEN Goto(g, "failed") /\ UNCHANGED found
                  ELSE found' = [found EXCEPT ![g] = Append(@, id)] /\ UNCHANGED pc
  /\ UNCHANGED <<database, world, query, index, answer>>

\* idxDatasetScan: the rows of the dataset in the order of their rowids.  No
\* row of a scan has a score.
Scan(g) ==
  /\ pc[g] = "scan"
  /\ CanAsk
  /\ IF "shadow" \in schema
     THEN /\ \E ids \in Orders(InDataset(rows, query[g].where)) :
               found' = [found EXCEPT ![g] = ids]
          /\ index' = [index EXCEPT ![g] = Scored(rows, CHOOSE kind \in Kinds : TRUE)]
          /\ Goto(g, "read")
     ELSE /\ Goto(g, "refused")
          /\ UNCHANGED <<index, found>>
  /\ UNCHANGED <<database, world, query, todo, answer>>

\* Filter is done; SQLite reads the cursor.
Reading(g) == pc[g] = "read" \/ (pc[g] = "lookup" /\ todo[g] = {})
LimitReached(g) == query[g].limit # 0 /\ Len(answer[g]) = query[g].limit

\* Eof, Column and Next of the cursor, for one row.
TakeRow(g) ==
  /\ Reading(g)
  /\ found[g] # <<>> /\ ~LimitReached(g)
  /\ found' = [found EXCEPT ![g] = Tail(@)]
  /\ answer' = IF Tested(index[g], query[g].where, Head(found[g]))
               THEN [answer EXCEPT ![g] = Append(@, Head(found[g]))]
               ELSE answer
  /\ Goto(g, "read")
  /\ UNCHANGED <<database, world, query, index, todo>>

\* Mutated form of EndQuery: QueryText ranges over positions, not ids.
EndQueryKeepsPositions(g) ==
  /\ Reading(g)
  /\ found[g] = <<>> \/ LimitReached(g)
  /\ found' = [found EXCEPT ![g] = <<>>]
  /\ todo' = [todo EXCEPT ![g] = IF query[g].text THEN DOMAIN answer[g] ELSE {}]
  /\ Goto(g, IF query[g].text THEN "fetch" ELSE "answer")
  /\ UNCHANGED <<database, world, query, index, answer>>

\* The last row, or the LIMIT: Close, and the connection is free again.
EndQuery(g) ==
  /\ Reading(g)
  /\ found[g] = <<>> \/ LimitReached(g)
  /\ found' = [found EXCEPT ![g] = <<>>]
  /\ todo' = [todo EXCEPT ![g] = IF query[g].text THEN Members(answer[g]) ELSE {}]
  /\ Goto(g, IF query[g].text THEN "fetch" ELSE "answer")
  /\ UNCHANGED <<database, world, query, index, answer>>

\* QueryText reads the row of each id in turn, and scores its embedding.
Fetch(g) ==
  /\ pc[g] = "fetch"
  /\ Free
  /\ \E i \in DOMAIN answer[g] :
       /\ answer[g][i] \in todo[g]
       /\ \A j \in 1 .. i - 1 : answer[g][j] \notin todo[g]
       /\ todo' = [todo EXCEPT ![g] = @ \ {answer[g][i]}]
       /\ IF Fit(rows[answer[g][i]]) THEN UNCHANGED pc ELSE Goto(g, "failed")
  /\ UNCHANGED <<database, world, query, index, found, answer>>

Fetched(g) ==
  /\ pc[g] = "fetch"
  /\ todo[g] = {}
  /\ Goto(g, "answer")
  /\ UNCHANGED <<database, world, query, index, todo, found, answer>>

\* A statement fails, the rest of ensureIndex included, and with it the query.
StatementFails(g) ==
  /\ \/ pc[g] \in {"setup", "index", "scan"} /\ CanAsk
     \/ pc[g] = "lookup" /\ todo[g] # {} /\ CanAsk
     \/ pc[g] = "fetch" /\ todo[g] # {} /\ Free
  /\ faults < MaxFaults
  /\ faults' = faults + 1
  /\ Goto(g, "failed")
  /\ UNCHANGED <<database, pool, writes, gone, query, index, todo, found, answer>>

Return(g) ==
  /\ pc[g] \in {"answer", "failed", "refused"}
  /\ Goto(g, "idle")
  /\ index' = [index EXCEPT ![g] = NoRows]
  /\ todo' = [todo EXCEPT ![g] = {}]
  /\ found' = [found EXCEPT ![g] = <<>>]
  /\ answer' = [answer EXCEPT ![g] = <<>>]
  /\ query' = [query EXCEPT ![g] = NoQuery]
  /\ UNCHANGED <<database, world>>

-----------------------------------------------------------------------------
(* Writers of the shadow table.                                            *)

\* A statement whose triggers name a table that is not there is refused.
Refuses(triggers) == triggers \cap schema # {} /\ "storage" \notin schema

Write(id, v, triggers) ==
  /\ Free
  /\ "shadow" \in schema
  /\ ~Refuses(triggers)
  /\ writes < MaxWrites
  /\ rows[id] # v
  /\ rows' = [rows EXCEPT ![id] = v]
  /\ past' = past \cup {rows'}
  /\ writes' = writes + 1
  /\ gone' = IF v = Absent THEN gone \cup {id} ELSE gone
  /\ UNCHANGED <<schema, pool, faults, local>>

\* UpsertShadowDocument, also for each document of UpsertDocumentsText.  Who
\* writes the shadow table without it may leave content and meta NULL.
Upsert(id, v) == v # Absent /\ Write(id, v, {"ins", "upd"})

\* DeleteDocuments, for each id.
Delete(id, v) == v = Absent /\ Write(id, v, {"del"})

-----------------------------------------------------------------------------
Step(g) ==
  \/ Plan(g) \/ Setup(g) \/ GetIndex(g) \/ Lookup(g) \/ Scan(g)
  \/ TakeRow(g) \/ EndQuery(g) \/ Fetch(g) \/ Fetched(g)
  \/ StatementFails(g) \/ Return(g)

Next ==
  \/ \E g \in Goroutines : Call(g) \/ Step(g)
  \/ \E c \in Changes : Upsert(c[1], c[2]) \/ Delete(c[1], c[2])

Spec == Init /\ [][Next]_vars

\* Who waits for a connection is in a queue for it, so it gets one if one
\* becomes free again and again; nobody has to call or to write.
FairSpec == Spec /\ \A g \in Goroutines : SF_vars(Step(g))

-----------------------------------------------------------------------------
Labels == {"idle", "connect", "setup", "index", "lookup", "scan",
           "read", "fetch", "answer", "failed", "refused"}

\* What ensureIndex may return, and what there is before.
Indexes == {Scored(s, kind) : s \in past, kind \in Kinds} \cup {NoRows}

TypeOK ==
  /\ rows \in [Ids -> Values]
  /\ past \subseteq [Ids -> Values] /\ rows \in past
  /\ schema \subseteq Members(Ddl)
  /\ pool \in Pools
  /\ writes \in Nat /\ faults \in Nat
  /\ gone \subseteq Ids
  /\ pc \in [Goroutines -> Labels]
  /\ query \in [Goroutines -> Queries]
  /\ index \in [Goroutines -> Indexes]
  /\ todo \in [Goroutines -> SUBSET Ids]
  /\ found \in [Goroutines -> Seq(Ids)]
  /\ answer \in [Goroutines -> Seq(Ids)]

\* The rows of the index that satisfy the WHERE clause.
Good(g) ==
  LET where == query[g].where
      all == IF IdxNum(where) = "idxDatasetScan" THEN InDataset(index[g], where)
                                       ELSE Ranked(index[g], where)
  IN  {id \in all : \A i \in DOMAIN where :
         Holds(where[i], id, ScoreOf(index[g], where, id))}

\* A query answers with the rows of its index that satisfy the whole WHERE
\* clause, each once, best first, and with the best of them where a LIMIT
\* cuts: whichever constraints BestIndex took and told SQLite not to test,
\* and in whatever order they are written.  (Not with match_score > x, which
\* BestIndex takes for match_score >= x.)
AnswerIsExact ==
  \A g \in Goroutines :
    LET Score(id) == ScoreOf(index[g], query[g].where, id)
        ids == answer[g]
    IN  /\ pc[g] \in {"fetch", "answer"}
        /\ \A i \in DOMAIN query[g].where : query[g].where[i].op # ">"
        => /\ \A i, j \in DOMAIN ids :
                i < j => ids[i] # ids[j] /\ Score(ids[i]) >= Score(ids[j])
           /\ \/ Members(ids) = Good(g)
              \/ /\ Members(ids) \subseteq Good(g)
                 /\ LimitReached(g)
                 /\ \A x \in Members(ids), y \in Good(g) \ Members(ids) :
                      Score(x) >= Score(y)

\* What makes a query fail for a document: an embedding that no index can be
\* built with; or, where an index may have ranked it, that it was deleted
\* (lookupRow and QueryText report sql.ErrNoRows) or that QueryText cannot
\* scan or score what it was at some time.
Fails(q, id) ==
  /\ DatasetOf[id] = Dataset(q.where)
  /\ \/ \E s \in past : s[id] # Absent /\ s[id].emb = Odd
     \/ /\ \E s \in past, kind \in Kinds : Ranks(s[id], kind)
        /\ \/ id \in gone
           \/ q.text /\ \E s \in past : s[id] # Absent /\ ~Fit(s[id])

\* A query does not fail because of what others do while it runs, inserts,
\* replacements, other queries and the making of tables: only when a statement
\* fails, or for a document of its own dataset that was deleted or cannot be
\* read as above.  A plain MATCH never fails for NULLs and zero vectors.
QueriesFailForCause ==
  \A g \in Goroutines :
    pc[g] = "failed" => faults > 0 \/ \E id \in Ids : Fails(query[g], id)

\* The triggers are made before the table they name.  Writers are refused
\* for that only while a MATCH is on its way to make it, or once a statement
\* of a MATCH has failed.
RefusalsAreBrief ==
  Refuses(Triggers) => faults > 0 \/ \E g \in Goroutines : pc[g] = "setup"

\* Every query returns, although Filter asks for connections while its own
\* query holds one and never gives up.
EveryQueryReturns ==
  \A g \in Goroutines : pc[g] # "idle" ~> pc[g] = "idle"

=============================================================================
