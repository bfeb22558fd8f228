--------------------------- MODULE VecQueryProofs ---------------------------
(***************************************************************************)
(* Proofs about queries, for any documents, rows, WHERE clauses, LIMITs,   *)
(* pools, writers and number of queries at once.                           *)
(***************************************************************************)
EXTENDS VecQuery, FiniteSetTheorems, SequenceTheorems, WellFoundedInduction, TLAPS

\* The rows that Filter puts into the cursor, and those that SQLite lets pass.
Candidates(s, where) ==
  IF IdxNum(where) = "idxDatasetScan" THEN InDataset(s, where)
  ELSE {id \in Ranked(s, where) : ~TooLow(where, s[id])}

Wanted(s, where) == {id \in Candidates(s, where) : Tested(s, where, id)}

Ordered(s, where, ids) ==
  \A i, j \in DOMAIN ids :
    i < j => ids[i] # ids[j] /\ ScoreOf(s, where, ids[i]) >= ScoreOf(s, where, ids[j])

\* X comes before Y.
Before(s, where, X, Y) ==
  \A x \in X, y \in Y : x # y /\ ScoreOf(s, where, x) >= ScoreOf(s, where, y)

\* What an index has of a row.
Marks == Int \cup {Blank, Absent}

Early == {"idle", "connect", "setup", "index", "scan"}

PlanInv(g) ==
  /\ pc[g] \in Early => found[g] = <<>> /\ answer[g] = <<>>
  /\ pc[g] \in {"setup", "index", "lookup"} => IdxNum(query[g].where) = "idxDatasetMatch"
  /\ pc[g] \in {"setup", "index", "lookup", "scan", "read", "fetch", "answer"} =>
       Readable(query[g].where)
  /\ pc[g] = "scan" => IdxNum(query[g].where) = "idxDatasetScan"
  /\ pc[g] = "fetch" => query[g].text

\* What is looked up so far is the best of what the cursor will have.
LookupInv(g) ==
  LET s == index[g]
      w == query[g].where
  IN  pc[g] = "lookup" =>
        /\ answer[g] = <<>>
        /\ todo[g] \subseteq Ranked(s, w)
        /\ Members(found[g]) = Candidates(s, w) \ todo[g]
        /\ Ordered(s, w, found[g])
        /\ Before(s, w, Members(found[g]), todo[g])

\* The answer is the best of what SQLite will take.
Pending(s, where, found_, answer_) ==
  /\ Members(found_) \subseteq Candidates(s, where)
  /\ Wanted(s, where) = Members(answer_) \cup (Members(found_) \cap Wanted(s, where))
  /\ Ordered(s, where, found_) /\ Ordered(s, where, answer_)
  /\ Before(s, where, Members(answer_), Members(found_))

ReadInv(g) ==
  pc[g] = "read" =>
    IdxNum(query[g].where) # "error" /\ Pending(index[g], query[g].where, found[g], answer[g])

AnswerInv(g) ==
  LET s == index[g]
      w == query[g].where
  IN  pc[g] \in {"fetch", "answer"} =>
        /\ IdxNum(w) # "error"
        /\ Ordered(s, w, answer[g])
        /\ \/ Members(answer[g]) = Wanted(s, w)
           \/ /\ Members(answer[g]) \subseteq Wanted(s, w)
              /\ LimitReached(g)
              /\ Before(s, w, Members(answer[g]), Wanted(s, w) \ Members(answer[g]))

\* Unless it was deleted, a document that there was is there.
NothingElseGone ==
  \A s \in past, id \in Ids : s[id] # Absent => rows[id] # Absent \/ id \in gone

QueryInv(g) == PlanInv(g) /\ LookupInv(g) /\ ReadInv(g) /\ AnswerInv(g)

Inv ==
  /\ TypeOK
  /\ \A g \in Goroutines : QueryInv(g)
  /\ NothingElseGone
  /\ QueriesFailForCause
  /\ RefusalsAreBrief
-----------------------------------------------------------------------------
(* Planning.                                                               *)

\* Highest is the greatest of a set of positions, or 0 for none.
LEMMA HighestMember ==
  ASSUME NEW n \in Nat, NEW S \in SUBSET (1 .. n), Highest(S) # 0
  PROVE  Highest(S) \in S
<1> DEFINE U == 1 .. n
           Above(i) == {j \in S : j > i}
           T == {Above(i) : i \in S}
<1>1. S # {}
  BY DEF Highest
<1>2. IsFiniteSet(U)
  BY FS_Interval
<1>3. T \subseteq FiniteSubsetsOf(U) /\ T # {}
  <2>1. T \subseteq SUBSET U
    OBVIOUS
  <2>2. T # {}
    BY <1>1
  <2>3. FiniteSubsetsOf(U) = SUBSET U
    BY <1>2, FS_FiniteSubsetsOfFinite
  <2>4. QED
    BY <2>1, <2>2, <2>3
<1>4. IsWellFoundedOn(StrictSubsetOrdering(U), FiniteSubsetsOf(U))
  BY FS_StrictSubsetOrderingWellFounded
<1>5. PICK x \in T : \A y \in T : ~ (<<y, x>> \in StrictSubsetOrdering(U))
  <2> HIDE DEF T, U
  <2>1. QED
    BY <1>3, <1>4, WFMin
<1>6. PICK i \in S : x = Above(i)
  OBVIOUS
<1>7. ASSUME NEW j \in S, j > i
      PROVE  FALSE
  <2>1. Above(j) \in T /\ Above(j) \subseteq U /\ Above(i) \subseteq U
    OBVIOUS
  <2>2. Above(j) \subseteq Above(i) /\ j \in Above(i) /\ j \notin Above(j)
    <3>1. S \subseteq Int /\ i \in Int /\ j \in Int
      OBVIOUS
    <3>2. \A k \in S : k > j => k > i
      BY <1>7, <3>1
    <3>3. ~ (j > j)
      BY <3>1
    <3>4. QED
      BY <1>7, <3>2, <3>3
  <2>3. <<Above(j), Above(i)>> \in StrictSubsetOrdering(U)
    BY <2>1, <2>2 DEF StrictSubsetOrdering
  <2>4. QED
    BY <1>5, <1>6, <2>1, <2>3
<1>8. \A j \in S : j <= i
  BY <1>7
<1>9. QED
  BY <1>1, <1>8 DEF Highest

\* What BestIndex takes is of the kind it looks for.
LEMMA Planned ==
  ASSUME NEW q \in Queries, NEW w, w = q.where
  PROVE  /\ DatasetAt(w) # 0 => /\ DatasetAt(w) \in DOMAIN w
                                /\ w[DatasetAt(w)].col = "dataset_id"
         /\ MatchAt(w) # 0 => /\ MatchAt(w) \in DOMAIN w
                              /\ w[MatchAt(w)].col = "doc_id"
                              /\ w[MatchAt(w)].op = "MATCH"
         /\ ScoreAt(w) # 0 => /\ ScoreAt(w) \in DOMAIN w
                              /\ w[ScoreAt(w)].col = "match_score"
                              /\ w[ScoreAt(w)].op \in {">=", ">"}
                              /\ w[ScoreAt(w)].val \in Int \/ w[ScoreAt(w)].val = Unreadable
<1>1. Len(w) \in Nat /\ DOMAIN w = 1 .. Len(w)
  BY QueriesAssumption
<1>2. \A i \in DOMAIN w :
        w[i].col = "match_score" => w[i].val \in Int \/ w[i].val = Unreadable
  BY QueriesAssumption
<1>3. DatasetAt(w) # 0 => DatasetAt(w) \in {i \in DOMAIN w : w[i].col = "dataset_id" /\ w[i].op = "="}
  BY <1>1, HighestMember DEF DatasetAt
<1>4. MatchAt(w) # 0 => MatchAt(w) \in {i \in DOMAIN w : w[i].col = "doc_id" /\ w[i].op = "MATCH"}
  BY <1>1, HighestMember DEF MatchAt
<1>5. ScoreAt(w) # 0 => ScoreAt(w) \in {i \in DOMAIN w : w[i].col = "match_score" /\ w[i].op \in {">=", ">"}}
  BY <1>1, HighestMember DEF ScoreAt
<1>6. QED
  BY <1>2, <1>3, <1>4, <1>5

\* Filter does what it takes from SQLite: with the constraints tested that
\* are left, the rows are those of the whole WHERE clause.
LEMMA PushDownIsExact ==
  ASSUME NEW q \in Queries, NEW w, w = q.where, NEW s \in [Ids -> Marks],
         IdxNum(w) # "error", Readable(w),
         \A i \in DOMAIN w : w[i].op # ">"
  PROVE  Wanted(s, w) =
           {id \in IF IdxNum(w) = "idxDatasetScan" THEN InDataset(s, w) ELSE Ranked(s, w) :
              \A i \in DOMAIN w : Holds(w[i], id, ScoreOf(s, w, id))}
<1> DEFINE All == IF IdxNum(w) = "idxDatasetScan" THEN InDataset(s, w) ELSE Ranked(s, w)
           Met(i, id) == Holds(w[i], id, ScoreOf(s, w, id))
<1>1. DatasetAt(w) # 0 /\ DatasetAt(w) \in DOMAIN w /\ w[DatasetAt(w)].col = "dataset_id"
  BY Planned DEF IdxNum
<1>2. \A id \in All : Met(DatasetAt(w), id)
  BY <1>1 DEF Ranked, InDataset, Dataset, Holds
<1>3. CASE IdxNum(w) = "idxDatasetScan"
  <2>1. MatchAt(w) = 0 /\ 0 \notin DOMAIN w
    BY <1>3, QueriesAssumption DEF IdxNum
  <2>2. Omitted(w) = {DatasetAt(w)}
    BY <1>1, <1>3, <2>1 DEF Omitted
  <2>3. Candidates(s, w) = All
    BY <1>3 DEF Candidates
  <2>4. QED
    BY <1>2, <2>2, <2>3 DEF Wanted, Tested
<1>4. CASE IdxNum(w) = "idxDatasetMatch"
  <2>1. MatchAt(w) # 0
    BY <1>4 DEF IdxNum
  <2>2. MatchAt(w) \in DOMAIN w /\ w[MatchAt(w)].col = "doc_id" /\ w[MatchAt(w)].op = "MATCH"
    BY <2>1, Planned
  <2>3. \A id \in All : Met(MatchAt(w), id)
    BY <2>2 DEF Holds
  <2>4. Candidates(s, w) = {id \in All : ~TooLow(w, s[id])}
    BY <1>4 DEF Candidates
  <2>5. ASSUME NEW id \in All
        PROVE  (\A i \in Omitted(w) : Met(i, id)) <=> ~TooLow(w, s[id])
    <3>1. s[id] \in Int /\ ScoreOf(s, w, id) = s[id]
      BY <1>4, <2>5 DEF Ranked, InDataset, Marks, ScoreOf
    <3>2. CASE ScoreAt(w) = 0
      <4>1. Omitted(w) = {DatasetAt(w), MatchAt(w)}
        BY <1>1, <1>4, <2>2, <3>2, QueriesAssumption DEF Omitted
      <4>2. QED
        BY <1>2, <2>3, <2>5, <3>2, <4>1 DEF TooLow
    <3>3. CASE ScoreAt(w) # 0
      <4>1. /\ ScoreAt(w) \in DOMAIN w /\ w[ScoreAt(w)].col = "match_score"
            /\ w[ScoreAt(w)].op = ">=" /\ w[ScoreAt(w)].val \in Int
        <5>1. ScoreAt(w) \in Omitted(w)
          BY <1>4, <3>3, Planned DEF Omitted
        <5>2. QED
          BY <3>3, <5>1, Planned DEF Readable
      <4>2. Met(ScoreAt(w), id) <=> ~TooLow(w, s[id])
        BY <3>1, <3>3, <4>1 DEF Holds, TooLow
      <4>3. Omitted(w) = {DatasetAt(w), MatchAt(w), ScoreAt(w)}
        BY <1>1, <1>4, <2>2, <4>1 DEF Omitted
      <4>4. QED
        BY <1>2, <2>3, <2>5, <4>2, <4>3
    <3>4. QED
      BY <3>2, <3>3
  <2>6. \A id \in All :
          (\A i \in DOMAIN w : Met(i, id)) <=> ~TooLow(w, s[id]) /\ Tested(s, w, id)
    <3>1. Omitted(w) \subseteq DOMAIN w
      BY DEF Omitted
    <3>2. QED
      BY <2>5, <3>1 DEF Tested
  <2>7. QED
    BY <2>4, <2>6 DEF Wanted
<1>5. QED
  BY <1>3, <1>4 DEF IdxNum
-----------------------------------------------------------------------------
(* Sequences.                                                              *)

\* An append adds a member.
LEMMA AppendMembers ==
  ASSUME NEW S, NEW ids \in Seq(S), NEW id \in S
  PROVE  Members(Append(ids, id)) = Members(ids) \cup {id}
<1>1. Len(ids) \in Nat /\ DOMAIN ids = 1 .. Len(ids)
  BY LenProperties
<1>2. /\ Append(ids, id) \in Seq(S) /\ Len(Append(ids, id)) = Len(ids) + 1
      /\ \A i \in 1 .. Len(ids) : Append(ids, id)[i] = ids[i]
      /\ Append(ids, id)[Len(ids) + 1] = id
  BY AppendProperties
<1>3. DOMAIN Append(ids, id) = 1 .. Len(ids) + 1
  BY <1>2, LenProperties
<1>4. 1 .. Len(ids) + 1 = (1 .. Len(ids)) \cup {Len(ids) + 1}
  BY <1>1
<1>5. QED
  BY <1>1, <1>2, <1>3, <1>4 DEF Members

\* A tail has the other members.
LEMMA TailMembers ==
  ASSUME NEW S, NEW ids \in Seq(S), ids # <<>>
  PROVE  Members(ids) = {Head(ids)} \cup Members(Tail(ids))
<1>1. Len(ids) \in Nat \ {0} /\ DOMAIN ids = 1 .. Len(ids)
  BY LenProperties, EmptySeq
<1>2. /\ Tail(ids) \in Seq(S) /\ Len(Tail(ids)) = Len(ids) - 1
      /\ \A i \in 1 .. Len(Tail(ids)) : Tail(ids)[i] = ids[i + 1]
  BY HeadTailProperties
<1>3. DOMAIN Tail(ids) = 1 .. Len(ids) - 1
  BY <1>2, LenProperties
<1>4. Head(ids) = ids[1]
  BY <1>1 DEF Head
<1>5. \A i \in DOMAIN ids : i = 1 \/ (i - 1 \in DOMAIN Tail(ids) /\ ids[i] = Tail(ids)[i - 1])
  BY <1>1, <1>2, <1>3
<1>6. \A i \in DOMAIN Tail(ids) : i + 1 \in DOMAIN ids /\ Tail(ids)[i] = ids[i + 1]
  BY <1>1, <1>2, <1>3
<1>7. 1 \in DOMAIN ids
  BY <1>1
<1>8. ASSUME NEW x \in Members(ids)
      PROVE  x \in {Head(ids)} \cup Members(Tail(ids))
  <2>1. PICK i \in DOMAIN ids : x = ids[i]
    BY <1>8 DEF Members
  <2>2. i = 1 \/ (i - 1 \in DOMAIN Tail(ids) /\ x = Tail(ids)[i - 1])
    BY <1>5, <2>1
  <2>3. QED
    BY <1>4, <2>1, <2>2 DEF Members
<1>9. Head(ids) \in Members(ids) /\ Members(Tail(ids)) \subseteq Members(ids)
  BY <1>4, <1>6, <1>7 DEF Members
<1>10. QED
  BY <1>8, <1>9

\* An append of what comes after all others keeps the order.
LEMMA AppendOrdered ==
  ASSUME NEW s, NEW w, NEW S, NEW ids \in Seq(S), NEW id \in S,
         Ordered(s, w, ids), Before(s, w, Members(ids), {id})
  PROVE  Ordered(s, w, Append(ids, id))
<1>1. Len(ids) \in Nat /\ DOMAIN ids = 1 .. Len(ids)
  BY LenProperties
<1>2. /\ Append(ids, id) \in Seq(S) /\ Len(Append(ids, id)) = Len(ids) + 1
      /\ \A i \in 1 .. Len(ids) : Append(ids, id)[i] = ids[i]
      /\ Append(ids, id)[Len(ids) + 1] = id
  BY AppendProperties
<1>3. DOMAIN Append(ids, id) = 1 .. Len(ids) + 1
  BY <1>2, LenProperties
<1>4. SUFFICES ASSUME NEW i \in 1 .. Len(ids) + 1, NEW j \in 1 .. Len(ids) + 1, i < j
               PROVE  /\ Append(ids, id)[i] # Append(ids, id)[j]
                      /\ ScoreOf(s, w, Append(ids, id)[i]) >= ScoreOf(s, w, Append(ids, id)[j])
  BY <1>3 DEF Ordered
<1>5. i \in 1 .. Len(ids) /\ Append(ids, id)[i] = ids[i] /\ ids[i] \in Members(ids)
  BY <1>1, <1>2, <1>4 DEF Members
<1>6. CASE j = Len(ids) + 1
  BY <1>2, <1>5, <1>6 DEF Before
<1>7. CASE j # Len(ids) + 1
  <2>1. j \in 1 .. Len(ids)
    BY <1>1, <1>7
  <2>2. QED
    BY <1>1, <1>2, <1>4, <1>5, <2>1 DEF Ordered
<1>8. QED
  BY <1>6, <1>7

\* A tail keeps the order.
LEMMA TailOrdered ==
  ASSUME NEW s, NEW w, NEW S, NEW ids \in Seq(S), ids # <<>>, Ordered(s, w, ids)
  PROVE  /\ Ordered(s, w, Tail(ids))
         /\ Before(s, w, {Head(ids)}, Members(Tail(ids)))
<1>1. Len(ids) \in Nat \ {0} /\ DOMAIN ids = 1 .. Len(ids)
  BY LenProperties, EmptySeq
<1>2. /\ Tail(ids) \in Seq(S) /\ Len(Tail(ids)) = Len(ids) - 1
      /\ \A i \in 1 .. Len(Tail(ids)) : Tail(ids)[i] = ids[i + 1]
  BY HeadTailProperties
<1>3. DOMAIN Tail(ids) = 1 .. Len(ids) - 1
  BY <1>2, LenProperties
<1>4. Head(ids) = ids[1] /\ 1 \in DOMAIN ids
  BY <1>1 DEF Head
<1>5. \A i \in DOMAIN Tail(ids) : i + 1 \in DOMAIN ids /\ Tail(ids)[i] = ids[i + 1] /\ 1 < i + 1
  BY <1>1, <1>2, <1>3
<1>6. \A i, j \in DOMAIN Tail(ids) : i < j => i + 1 < j + 1
  BY <1>1, <1>3
<1>7. Ordered(s, w, Tail(ids))
  BY <1>5, <1>6 DEF Ordered
<1>8. QED
  BY <1>4, <1>5, <1>7 DEF Ordered, Before, Members
-----------------------------------------------------------------------------
(* Types.                                                                  *)

\* An index of either kind has a mark for each document.
LEMMA ScoredType ==
  ASSUME NEW s \in [Ids -> Values], NEW kind
  PROVE  Scored(s, kind) \in [Ids -> Marks]
<1>1. ASSUME NEW id \in Ids, Ranks(s[id], kind), s[id].emb # Zero
      PROVE  s[id].emb \in Int
  BY <1>1, ScoresAssumption DEF Ranks
<1>2. QED
  BY <1>1, ScoresAssumption DEF Scored, Marks

\* So has what stands for no index yet.
LEMMA NoRowsType == NoRows \in [Ids -> Marks]
BY DEF NoRows, Marks

\* An index has the documents that there are, and ranks those that Ranks says.
LEMMA ScoredMarks ==
  ASSUME NEW s \in [Ids -> Values], NEW kind, NEW id \in Ids
  PROVE  /\ Scored(s, kind)[id] # Absent <=> s[id] # Absent
         /\ Scored(s, kind)[id] \notin {Absent, Blank} <=> Ranks(s[id], kind)
<1>1. Absent # Blank /\ Absent \notin Int /\ Blank \notin Int
  BY DistinctAssumption
<1>2. Ranks(s[id], kind) => s[id].emb = Zero \/ s[id].emb \in Int
  BY ScoresAssumption DEF Ranks
<1>3. Ranks(s[id], kind) => s[id] # Absent
  BY DEF Ranks
<1>4. ZeroScore \in Int
  BY ScoresAssumption
<1>5. Scored(s, kind)[id] = IF s[id] = Absent THEN Absent
                            ELSE IF ~Ranks(s[id], kind) THEN Blank
                            ELSE IF s[id].emb = Zero THEN ZeroScore ELSE s[id].emb
  BY DEF Scored
<1>6. QED
  BY <1>1, <1>2, <1>3, <1>4, <1>5

\* A dataset has the same documents in the table and in its index.
LEMMA ScoredDataset ==
  ASSUME NEW s \in [Ids -> Values], NEW kind, NEW w
  PROVE  InDataset(Scored(s, kind), w) = InDataset(s, w)
BY ScoredMarks DEF InDataset

\* What a goroutine has in its hands.
LEMMA LocalTypes ==
  ASSUME TypeOK, NEW g \in Goroutines
  PROVE  /\ query[g] \in Queries /\ query[g].limit \in Nat /\ query[g].text \in BOOLEAN
         /\ index[g] \in [Ids -> Marks]
         /\ todo[g] \subseteq Ids
         /\ found[g] \in Seq(Ids) /\ answer[g] \in Seq(Ids)
         /\ Members(found[g]) \subseteq Ids /\ Members(answer[g]) \subseteq Ids
<1>1. found[g] \in Seq(Ids) /\ answer[g] \in Seq(Ids)
  BY DEF TypeOK
<1>2. \A ids \in Seq(Ids) : Members(ids) \subseteq Ids
  BY LenProperties, ElementOfSeq DEF Members
<1>3. index[g] \in [Ids -> Marks]
  <2>1. index[g] \in Indexes
    BY DEF TypeOK
  <2>2. CASE index[g] = NoRows
    BY <2>2, NoRowsType
  <2>3. CASE index[g] # NoRows
    <3>1. PICK s \in past, kind \in Kinds : index[g] = Scored(s, kind)
      BY <2>1, <2>3 DEF Indexes
    <3>2. s \in [Ids -> Values]
      BY DEF TypeOK
    <3>3. QED
      BY <3>1, <3>2, ScoredType
  <2>4. QED
    BY <2>2, <2>3
<1>4. QED
  BY <1>1, <1>2, <1>3, QueriesAssumption DEF TypeOK

\* The types hold at first.
LEMMA InitialTypes == Init => TypeOK
<1> SUFFICES ASSUME Init PROVE TypeOK
  OBVIOUS
<1>1. rows \in [Ids -> Values] /\ past = {rows}
  BY FirstRowsAssumption DEF Init
<1>2. schema \subseteq Members(Ddl)
  <2>1. {"shadow", "storage", "locks"} \subseteq Members(Ddl)
    BY DEF Members, Ddl
  <2>2. QED
    BY <2>1, FirstSchemasAssumption DEF Init
<1>3. NoQuery \in Queries
  BY QueriesAssumption DEF NoQuery
<1>4. <<>> \in Seq(Ids)
  BY EmptySeq
<1>5. NoRows \in Indexes
  BY DEF Indexes
<1>6. QED
  BY <1>1, <1>2, <1>3, <1>4, <1>5 DEF Init, TypeOK, Labels

\* Every step keeps the types.
LEMMA TypesKept == TypeOK /\ [Next]_vars => TypeOK'
<1> SUFFICES ASSUME TypeOK, [Next]_vars PROVE TypeOK'
  OBVIOUS
<1>1. \A g \in Goroutines, label \in Labels : Goto(g, label) => pc' \in [Goroutines -> Labels]
  BY DEF TypeOK, Goto
<1>2. past' = past => Indexes' = Indexes
  BY DEF Indexes
<1>3. ASSUME NEW g \in Goroutines, Call(g)
      PROVE  TypeOK'
  BY <1>1, <1>3, <1>2 DEF Call, TypeOK, Labels, database, world
<1>4. ASSUME NEW g \in Goroutines, Plan(g)
      PROVE  TypeOK'
  BY <1>1, <1>4, <1>2 DEF Plan, TypeOK, Labels, database, world
<1>5. ASSUME NEW g \in Goroutines, Setup(g)
      PROVE  TypeOK'
  <2>1. schema' \subseteq Members(Ddl) /\ pc' \in [Goroutines -> Labels]
    BY <1>1, <1>5 DEF Setup, TypeOK, Members, Labels
  <2>2. QED
    BY <1>5, <2>1, <1>2 DEF Setup, TypeOK, world
<1>6. ASSUME NEW g \in Goroutines, GetIndex(g)
      PROVE  TypeOK'
  <2>1. PICK s \in past, kind \in Kinds :
          \/ Goto(g, "failed") /\ UNCHANGED <<index, todo>>
          \/ /\ index' = [index EXCEPT ![g] = Scored(s, kind)]
             /\ todo' = [todo EXCEPT ![g] = Ranked(Scored(s, kind), query[g].where)]
             /\ Goto(g, "lookup")
    BY <1>6 DEF GetIndex
  <2>2. Ranked(Scored(s, kind), query[g].where) \subseteq Ids
    BY DEF Ranked, InDataset
  <2>3. todo' \in [Goroutines -> SUBSET Ids] /\ pc' \in [Goroutines -> Labels]
    BY <1>1, <2>1, <2>2 DEF TypeOK, Labels
  <2>4. index' \in [Goroutines -> Indexes]
    <3>1. Scored(s, kind) \in Indexes
      BY DEF Indexes
    <3>2. QED
      BY <2>1, <3>1 DEF TypeOK
  <2>5. QED
    BY <1>6, <2>3, <2>4, <1>2 DEF GetIndex, TypeOK, database, world
<1>7. ASSUME NEW g \in Goroutines, Lookup(g)
      PROVE  TypeOK'
  <2>1. PICK id \in todo[g] :
          /\ todo' = [todo EXCEPT ![g] = @ \ {id}]
          /\ \/ UNCHANGED <<pc, found>>
             \/ Goto(g, "failed") /\ UNCHANGED found
             \/ found' = [found EXCEPT ![g] = Append(@, id)] /\ UNCHANGED pc
    BY <1>7 DEF Lookup
  <2>2. id \in Ids /\ found[g] \in Seq(Ids)
    BY LocalTypes
  <2>3. Append(found[g], id) \in Seq(Ids)
    BY <2>2, AppendProperties
  <2>4. found' \in [Goroutines -> Seq(Ids)] /\ pc' \in [Goroutines -> Labels]
    BY <1>1, <2>1, <2>3 DEF TypeOK, Labels
  <2>5. QED
    BY <1>7, <2>1, <2>4, <1>2 DEF Lookup, TypeOK, database, world
<1>8. ASSUME NEW g \in Goroutines, Scan(g)
      PROVE  TypeOK'
  <2>1. CASE "shadow" \in schema
    <3>1. PICK ids \in Orders(InDataset(rows, query[g].where)) : found' = [found EXCEPT ![g] = ids]
      BY <1>8, <2>1 DEF Scan
    <3> DEFINE S == InDataset(rows, query[g].where)
    <3>2. S \subseteq Ids /\ Cardinality(S) \in Nat
      BY IdsAssumption, FS_Subset, FS_CardinalityType DEF InDataset
    <3>3. ids \in [1 .. Cardinality(S) -> Ids]
      BY <3>1, <3>2 DEF Orders
    <3>4. ids \in Seq(Ids)
      BY <3>2, <3>3, SeqDef
    <3>5. /\ index' = [index EXCEPT ![g] = Scored(rows, CHOOSE kind \in Kinds : TRUE)]
          /\ Goto(g, "read")
      BY <1>8, <2>1 DEF Scan
    <3>6. index' \in [Goroutines -> Indexes]
      <4>1. (CHOOSE kind \in Kinds : TRUE) \in Kinds /\ rows \in past
        BY KindsAssumption DEF TypeOK
      <4>2. \A kind \in Kinds : Scored(rows, kind) \in Indexes
        BY <4>1 DEF Indexes
      <4>3. QED
        BY <3>5, <4>1, <4>2 DEF TypeOK
    <3>7. found' \in [Goroutines -> Seq(Ids)]
      BY <3>1, <3>4 DEF TypeOK
    <3>8. QED
      BY <1>1, <1>8, <3>5, <3>6, <3>7, <1>2 DEF Scan, TypeOK, Labels, database, world
  <2>2. CASE "shadow" \notin schema
    BY <1>1, <1>8, <2>2, <1>2 DEF Scan, TypeOK, Labels, database, world
  <2>3. QED
    BY <2>1, <2>2
<1>9. ASSUME NEW g \in Goroutines, TakeRow(g)
      PROVE  TypeOK'
  <2>1. Tail(found[g]) \in Seq(Ids) /\ Append(answer[g], Head(found[g])) \in Seq(Ids)
    BY <1>9, LocalTypes, HeadTailProperties, AppendProperties DEF TakeRow
  <2>2. found' \in [Goroutines -> Seq(Ids)] /\ answer' \in [Goroutines -> Seq(Ids)]
    BY <1>9, <2>1 DEF TakeRow, TypeOK
  <2>3. QED
    BY <1>1, <1>9, <2>2, <1>2 DEF TakeRow, TypeOK, Labels, database, world
<1>10. ASSUME NEW g \in Goroutines, EndQuery(g)
      PROVE  TypeOK'
  <2>1. <<>> \in Seq(Ids) /\ Members(answer[g]) \subseteq Ids
    BY LocalTypes, EmptySeq
  <2>2. QED
    BY <1>1, <1>10, <2>1, <1>2 DEF EndQuery, TypeOK, Labels, database, world
<1>11. ASSUME NEW g \in Goroutines, Fetch(g)
       PROVE  TypeOK'
  BY <1>1, <1>11, <1>2 DEF Fetch, TypeOK, Labels, database, world
<1>12. ASSUME NEW g \in Goroutines, Fetched(g)
       PROVE  TypeOK'
  BY <1>1, <1>12, <1>2 DEF Fetched, TypeOK, Labels, database, world
<1>13. ASSUME NEW g \in Goroutines, StatementFails(g)
       PROVE  TypeOK'
  BY <1>1, <1>13, <1>2 DEF StatementFails, TypeOK, Labels, database
<1>14. ASSUME NEW g \in Goroutines, Return(g)
       PROVE  TypeOK'
  <2>1. <<>> \in Seq(Ids) /\ NoQuery \in Queries /\ NoRows \in Indexes
    BY EmptySeq, QueriesAssumption DEF NoQuery, Indexes
  <2>2. QED
    BY <1>1, <1>14, <2>1, <1>2 DEF Return, TypeOK, Labels, database, world
<1>15. ASSUME NEW id \in Ids, NEW v \in Values, NEW t, Write(id, v, t)
       PROVE  TypeOK'
  <2>1. past \subseteq past' /\ index' = index
    BY <1>15 DEF Write, local
  <2>2. Indexes \subseteq Indexes'
    BY <2>1 DEF Indexes
  <2>3. index' \in [Goroutines -> Indexes']
    BY <2>1, <2>2 DEF TypeOK
  <2>4. /\ rows' \in [Ids -> Values] /\ past' = past \cup {rows'}
        /\ gone' \subseteq Ids /\ writes' \in Nat
    BY <1>15 DEF Write, TypeOK
  <2>5. QED
    BY <1>15, <2>3, <2>4 DEF Write, TypeOK, local
<1>16. CASE UNCHANGED vars
  BY <1>16, <1>2 DEF vars, database, world, local, TypeOK
<1>17. \A c \in Changes : c[1] \in Ids /\ c[2] \in Values
  BY ChangesAssumption
<1>18. QED
  BY <1>3, <1>4, <1>5, <1>6, <1>7, <1>8, <1>9, <1>10, <1>11, <1>12, <1>13, <1>14,
     <1>15, <1>16, <1>17 DEF Next, Step, Upsert, Delete

\* Every variable of a query stays within its type.
THEOREM TypeCorrect == Spec => []TypeOK
BY InitialTypes, TypesKept, PTL DEF Spec

-----------------------------------------------------------------------------
(* The course of a query.                                                  *)

\* Nothing of h has changed.
Same(h) ==
  /\ pc'[h] = pc[h] /\ query'[h] = query[h] /\ index'[h] = index[h]
  /\ todo'[h] = todo[h] /\ found'[h] = found[h] /\ answer'[h] = answer[h]

\* What is true of a query stays true where nothing of it changes.
LEMMA SameKeeps ==
  ASSUME NEW h \in Goroutines, QueryInv(h), Same(h)
  PROVE  QueryInv(h)'
BY DEF Same, QueryInv, PlanInv, LookupInv, ReadInv, AnswerInv, LimitReached

\* A step of g leaves the others alone.
LEMMA OthersSame ==
  ASSUME TypeOK, NEW g \in Goroutines, Call(g) \/ Step(g),
         NEW h \in Goroutines, h # g
  PROVE  Same(h)
<1>1. CASE Call(g)
  BY <1>1 DEF Call, Same, TypeOK, Goto
<1>2. CASE Plan(g) \/ Setup(g) \/ GetIndex(g)
  BY <1>2 DEF Plan, Setup, GetIndex, Same, TypeOK, Goto
<1>3. CASE Lookup(g)
  BY <1>3 DEF Lookup, Same, TypeOK, Goto
<1>4. CASE Scan(g)
  BY <1>4 DEF Scan, Same, TypeOK, Goto
<1>5. CASE TakeRow(g) \/ EndQuery(g)
  BY <1>5 DEF TakeRow, EndQuery, Same, TypeOK, Goto
<1>6. CASE Fetch(g) \/ Fetched(g)
  BY <1>6 DEF Fetch, Fetched, Same, TypeOK, Goto
<1>7. CASE StatementFails(g) \/ Return(g)
  BY <1>7 DEF StatementFails, Return, Same, TypeOK, Goto
<1>8. QED
  BY <1>1, <1>2, <1>3, <1>4, <1>5, <1>6, <1>7 DEF Step

\* The empty sequence has no members, and they are in order.
LEMMA EmptyMembers ==
  Members(<<>>) = {} /\ \A s, w : Ordered(s, w, <<>>)
BY DEF Members, Ordered

\* The index is asked: all that it ranks is still to be looked up.
LEMMA GetIndexKeeps ==
  ASSUME TypeOK, NEW g \in Goroutines, QueryInv(g), GetIndex(g)
  PROVE  QueryInv(g)'
<1>1. /\ pc[g] = "index" /\ query' = query /\ found'[g] = <<>> /\ answer'[g] = <<>>
      /\ IdxNum(query[g].where) = "idxDatasetMatch" /\ Readable(query[g].where)
  BY DEF GetIndex, QueryInv, PlanInv, Early
<1>2. PICK s \in past, kind \in Kinds :
        \/ Goto(g, "failed") /\ UNCHANGED <<index, todo>>
        \/ /\ index' = [index EXCEPT ![g] = Scored(s, kind)]
           /\ todo' = [todo EXCEPT ![g] = Ranked(Scored(s, kind), query[g].where)]
           /\ Goto(g, "lookup")
  BY DEF GetIndex
<1>3. CASE Goto(g, "failed")
  <2>1. pc'[g] = "failed"
    BY <1>3 DEF Goto, TypeOK
  <2>2. QED
    BY <1>1, <2>1 DEF QueryInv, PlanInv, LookupInv, ReadInv, AnswerInv, Early
<1>4. CASE Goto(g, "lookup") /\ ~Goto(g, "failed")
  <2> DEFINE m == Scored(s, kind)
  <2>1. index'[g] = m /\ todo'[g] = Ranked(m, query[g].where) /\ pc'[g] = "lookup"
    BY <1>2, <1>4 DEF Goto, TypeOK
  <2>2. Candidates(m, query[g].where) \subseteq Ranked(m, query[g].where)
    BY <1>1 DEF Candidates
  <2> HIDE DEF m
  <2>3. QED
    BY <1>1, <2>1, <2>2, EmptyMembers
       DEF QueryInv, PlanInv, LookupInv, ReadInv, AnswerInv, Before, Early
<1>5. QED
  BY <1>2, <1>3, <1>4

\* A row is looked up: it is the best of those that were not.
LEMMA LookupKeeps ==
  ASSUME TypeOK, NEW g \in Goroutines, QueryInv(g), Lookup(g)
  PROVE  QueryInv(g)'
<1> DEFINE s == index[g]
           w == query[g].where
<1>1. PICK id \in todo[g] :
        /\ \A other \in todo[g] : s[other] <= s[id]
        /\ todo' = [todo EXCEPT ![g] = @ \ {id}]
        /\ IF TooLow(w, s[id])
           THEN UNCHANGED <<pc, found>>
           ELSE IF rows[id] = Absent
                THEN Goto(g, "failed") /\ UNCHANGED found
                ELSE found' = [found EXCEPT ![g] = Append(@, id)] /\ UNCHANGED pc
  BY DEF Lookup
<1>2. /\ pc[g] = "lookup" /\ todo'[g] = todo[g] \ {id}
      /\ query' = query /\ index' = index /\ answer' = answer
  BY <1>1 DEF Lookup, TypeOK
<1>3. /\ answer[g] = <<>> /\ todo[g] \subseteq Ranked(s, w)
      /\ Members(found[g]) = Candidates(s, w) \ todo[g]
      /\ Ordered(s, w, found[g])
      /\ Before(s, w, Members(found[g]), todo[g])
      /\ IdxNum(w) = "idxDatasetMatch" /\ Readable(w)
  BY <1>2 DEF QueryInv, PlanInv, LookupInv
<1>4. \A x \in todo[g] : s[x] \in Int /\ ScoreOf(s, w, x) = s[x] /\ x \in Ids
  BY <1>3, LocalTypes DEF Ranked, InDataset, Marks, ScoreOf
<1>5. \A x \in todo[g] \ {id} : ScoreOf(s, w, id) >= ScoreOf(s, w, x)
  BY <1>1, <1>4
<1>6. CASE TooLow(w, s[id])
  <2>1. id \notin Candidates(s, w)
    BY <1>3, <1>6 DEF Candidates
  <2>2. pc'[g] = "lookup" /\ found' = found
    BY <1>1, <1>2, <1>6
  <2>3. Members(found[g]) = Candidates(s, w) \ todo'[g]
    BY <1>2, <1>3, <2>1
  <2>4. Before(s, w, Members(found[g]), todo'[g])
    BY <1>2, <1>3 DEF Before
  <2>5. QED
    BY <1>2, <1>3, <2>2, <2>3, <2>4
       DEF QueryInv, PlanInv, LookupInv, ReadInv, AnswerInv, Early
<1>7. CASE ~TooLow(w, s[id]) /\ rows[id] = Absent
  <2>1. pc'[g] = "failed"
    BY <1>1, <1>7 DEF Goto, TypeOK
  <2>2. QED
    BY <1>2, <1>3, <2>1 DEF QueryInv, PlanInv, LookupInv, ReadInv, AnswerInv, Early
<1>8. CASE ~TooLow(w, s[id]) /\ rows[id] # Absent
  <2>1. pc'[g] = "lookup" /\ found'[g] = Append(found[g], id)
    BY <1>1, <1>2, <1>8 DEF TypeOK
  <2>2. id \in Candidates(s, w)
    BY <1>3, <1>8 DEF Candidates
  <2>3. found[g] \in Seq(Ids) /\ id \in Ids
    BY <1>4, LocalTypes
  <2>4. Members(found'[g]) = Members(found[g]) \cup {id}
    BY <2>1, <2>3, AppendMembers
  <2>5. Members(found'[g]) = Candidates(s, w) \ todo'[g]
    BY <1>2, <1>3, <2>2, <2>4
  <2>6. Before(s, w, Members(found[g]), {id})
    BY <1>3 DEF Before
  <2>7. Ordered(s, w, found'[g])
    BY <1>3, <2>1, <2>3, <2>6, AppendOrdered
  <2>8. Before(s, w, Members(found'[g]), todo'[g])
    BY <1>2, <1>3, <1>5, <2>4 DEF Before
  <2>9. QED
    BY <1>2, <1>3, <2>1, <2>5, <2>7, <2>8
       DEF QueryInv, PlanInv, LookupInv, ReadInv, AnswerInv, Early
<1>9. QED
  BY <1>6, <1>7, <1>8

\* A scan takes all rows of the dataset.
LEMMA ScanKeeps ==
  ASSUME TypeOK, NEW g \in Goroutines, QueryInv(g), Scan(g)
  PROVE  QueryInv(g)'
<1> DEFINE w == query[g].where
           S == InDataset(rows, w)
           m == Scored(rows, CHOOSE kind \in Kinds : TRUE)
<1>1. /\ pc[g] = "scan" /\ query' = query /\ answer' = answer /\ answer[g] = <<>>
      /\ IdxNum(w) = "idxDatasetScan" /\ Readable(w)
  BY DEF Scan, QueryInv, PlanInv, Early
<1>2. CASE "shadow" \notin schema
  <2>1. pc'[g] = "refused"
    BY <1>2 DEF Scan, Goto, TypeOK
  <2>2. QED
    BY <2>1 DEF QueryInv, PlanInv, LookupInv, ReadInv, AnswerInv, Early
<1>3. CASE "shadow" \in schema
  <2>1. PICK ids \in Orders(S) : found' = [found EXCEPT ![g] = ids]
    BY <1>3 DEF Scan
  <2>2. pc'[g] = "read" /\ index'[g] = m /\ found'[g] = ids
    BY <1>3, <2>1 DEF Scan, Goto, TypeOK
  <2>3. S = Members(ids) /\ \A i, j \in DOMAIN ids : i # j => ids[i] # ids[j]
    BY <2>1 DEF Orders
  <2>4. Candidates(m, w) = S
    <3>1. InDataset(m, w) = S
      BY ScoredDataset DEF TypeOK
    <3>2. QED
      BY <1>1, <3>1 DEF Candidates
  <2> HIDE DEF m
  <2>5. \A id : ScoreOf(m, w, id) = 0
    BY <1>1 DEF ScoreOf
  <2>6. DOMAIN ids \subseteq Int
    BY <2>1 DEF Orders
  <2>7. Ordered(m, w, ids)
    BY <2>3, <2>5, <2>6 DEF Ordered
  <2>8. Pending(m, w, ids, <<>>)
    BY <2>3, <2>4, <2>7, EmptyMembers DEF Pending, Before, Wanted
  <2>9. QED
    BY <1>1, <2>2, <2>8 DEF QueryInv, PlanInv, LookupInv, ReadInv, AnswerInv, Early
<1>4. QED
  BY <1>2, <1>3

\* When SQLite reads the cursor, what is pending is what it will take.
LEMMA ReadingPending ==
  ASSUME TypeOK, NEW g \in Goroutines, QueryInv(g), Reading(g)
  PROVE  /\ IdxNum(query[g].where) # "error" /\ Readable(query[g].where)
         /\ Pending(index[g], query[g].where, found[g], answer[g])
<1>1. CASE pc[g] = "read"
  BY <1>1 DEF QueryInv, PlanInv, ReadInv
<1>2. CASE pc[g] = "lookup" /\ todo[g] = {}
  BY <1>2, EmptyMembers DEF QueryInv, PlanInv, LookupInv, Pending, Before, Wanted
<1>3. QED
  BY <1>1, <1>2 DEF Reading

\* SQLite takes the best row that is left, or leaves it out.
LEMMA TakeRowKeeps ==
  ASSUME TypeOK, NEW g \in Goroutines, QueryInv(g), TakeRow(g)
  PROVE  QueryInv(g)'
<1> DEFINE s == index[g]
           w == query[g].where
           x == Head(found[g])
           rest == Tail(found[g])
<1>1. /\ found[g] # <<>> /\ found[g] \in Seq(Ids) /\ answer[g] \in Seq(Ids)
      /\ x \in Ids
  BY LocalTypes, HeadTailProperties DEF TakeRow
<1>2. IdxNum(w) # "error" /\ Readable(w) /\ Pending(s, w, found[g], answer[g])
  BY ReadingPending DEF TakeRow
<1>3. Members(found[g]) = {x} \cup Members(rest)
  BY <1>1, TailMembers
<1>4. Ordered(s, w, rest) /\ Before(s, w, {x}, Members(rest))
  BY <1>1, <1>2, TailOrdered DEF Pending
<1>5. /\ pc'[g] = "read" /\ query' = query /\ index' = index /\ found'[g] = rest
      /\ answer'[g] = IF Tested(s, w, x) THEN Append(answer[g], x) ELSE answer[g]
  BY DEF TakeRow, Goto, TypeOK
<1>6. x \in Candidates(s, w)
  BY <1>2, <1>3 DEF Pending
<1>7. CASE Tested(s, w, x)
  <2>1. Members(Append(answer[g], x)) = Members(answer[g]) \cup {x}
    BY <1>1, AppendMembers
  <2>2. Before(s, w, Members(answer[g]), {x})
    BY <1>2, <1>3 DEF Pending, Before
  <2>3. Ordered(s, w, Append(answer[g], x))
    BY <1>1, <1>2, <2>2, AppendOrdered DEF Pending
  <2>4. x \in Wanted(s, w)
    BY <1>6, <1>7 DEF Wanted
  <2>5. Before(s, w, Members(answer[g]) \cup {x}, Members(rest))
    BY <1>2, <1>3, <1>4 DEF Pending, Before
  <2>6. Pending(s, w, rest, Append(answer[g], x))
    BY <1>2, <1>3, <1>4, <2>1, <2>3, <2>4, <2>5 DEF Pending
  <2>7. QED
    BY <1>2, <1>5, <1>7, <2>6
       DEF QueryInv, PlanInv, LookupInv, ReadInv, AnswerInv, Early
<1>8. CASE ~Tested(s, w, x)
  <2>1. x \notin Wanted(s, w)
    BY <1>8 DEF Wanted
  <2>2. Pending(s, w, rest, answer[g])
    BY <1>2, <1>3, <1>4, <2>1 DEF Pending, Before
  <2>3. QED
    BY <1>2, <1>5, <1>8, <2>2
       DEF QueryInv, PlanInv, LookupInv, ReadInv, AnswerInv, Early
<1>9. QED
  BY <1>7, <1>8

\* At the last row all that is wanted is taken; at the LIMIT, the best of it.
LEMMA EndQueryKeeps ==
  ASSUME TypeOK, NEW g \in Goroutines, QueryInv(g), EndQuery(g)
  PROVE  QueryInv(g)'
<1> DEFINE s == index[g]
           w == query[g].where
<1>1. IdxNum(w) # "error" /\ Readable(w) /\ Pending(s, w, found[g], answer[g])
  BY ReadingPending DEF EndQuery
<1>2. /\ pc'[g] = IF query[g].text THEN "fetch" ELSE "answer"
      /\ query' = query /\ index' = index /\ answer' = answer
  BY DEF EndQuery, Goto, TypeOK
<1>3. LimitReached(g)' <=> LimitReached(g)
  BY <1>2 DEF LimitReached
<1>4. \/ Members(answer[g]) = Wanted(s, w)
      \/ /\ Members(answer[g]) \subseteq Wanted(s, w)
         /\ LimitReached(g)
         /\ Before(s, w, Members(answer[g]), Wanted(s, w) \ Members(answer[g]))
  <2>1. CASE found[g] = <<>>
    BY <1>1, <2>1, EmptyMembers DEF Pending
  <2>2. CASE LimitReached(g)
    BY <1>1, <2>2 DEF Pending, Before
  <2>3. QED
    BY <2>1, <2>2 DEF EndQuery
<1>5. Ordered(s, w, answer[g])
  BY <1>1 DEF Pending
<1>6. AnswerInv(g)'
  BY <1>1, <1>2, <1>3, <1>4, <1>5 DEF AnswerInv
<1>7. QED
  BY <1>1, <1>2, <1>6 DEF QueryInv, PlanInv, LookupInv, ReadInv, Early

\* The steps that take no row.
LEMMA OtherStepsKeep ==
  ASSUME TypeOK, NEW g \in Goroutines, QueryInv(g),
         \/ Call(g) \/ Plan(g) \/ Setup(g) \/ Fetch(g) \/ Fetched(g)
         \/ StatementFails(g) \/ Return(g)
  PROVE  QueryInv(g)'
<1>1. CASE Call(g)
  <2>1. /\ pc'[g] = "connect" /\ found'[g] = <<>> /\ answer'[g] = <<>>
    BY <1>1 DEF Call, Goto, TypeOK, QueryInv, PlanInv, Early
  <2>2. QED
    BY <2>1 DEF QueryInv, PlanInv, LookupInv, ReadInv, AnswerInv, Early
<1>2. CASE Plan(g)
  <2>1. found'[g] = <<>> /\ answer'[g] = <<>> /\ query' = query
    BY <1>2 DEF Plan, QueryInv, PlanInv, Early
  <2>2. IdxNum(query[g].where) \in {"error", "idxDatasetScan", "idxDatasetMatch"}
    BY DEF IdxNum
  <2>3. \/ pc'[g] = "refused"
        \/ /\ Readable(query[g].where)
           /\ \/ pc'[g] = "scan" /\ IdxNum(query[g].where) = "idxDatasetScan"
              \/ pc'[g] = "setup" /\ IdxNum(query[g].where) = "idxDatasetMatch"
    BY <1>2, <2>2 DEF Plan, Goto, TypeOK
  <2>4. QED
    BY <2>1, <2>3 DEF QueryInv, PlanInv, LookupInv, ReadInv, AnswerInv, Early
<1>3. CASE Setup(g)
  <2>1. /\ pc'[g] \in {"setup", "index"} /\ pc[g] = "setup"
        /\ UNCHANGED <<query, index, todo, found, answer>>
    BY <1>3 DEF Setup, Goto, TypeOK
  <2>2. QED
    BY <2>1 DEF QueryInv, PlanInv, LookupInv, ReadInv, AnswerInv, Early
<1>4. CASE Fetch(g) \/ Fetched(g)
  <2>1. /\ pc'[g] \in {"fetch", "answer", "failed"} /\ pc[g] = "fetch"
        /\ UNCHANGED <<query, index, found, answer>>
    BY <1>4 DEF Fetch, Fetched, Goto, TypeOK
  <2>2. QED
    BY <2>1 DEF QueryInv, PlanInv, LookupInv, ReadInv, AnswerInv, LimitReached, Early
<1>5. CASE StatementFails(g)
  <2>1. pc'[g] = "failed"
    BY <1>5 DEF StatementFails, Goto, TypeOK
  <2>2. QED
    BY <2>1 DEF QueryInv, PlanInv, LookupInv, ReadInv, AnswerInv, Early
<1>6. CASE Return(g)
  <2>1. pc'[g] = "idle" /\ found'[g] = <<>> /\ answer'[g] = <<>>
    BY <1>6 DEF Return, Goto, TypeOK
  <2>2. QED
    BY <2>1 DEF QueryInv, PlanInv, LookupInv, ReadInv, AnswerInv, Early
<1>7. QED
  BY <1>1, <1>2, <1>3, <1>4, <1>5, <1>6

\* Every query keeps its course whatever step is taken.
LEMMA QueriesKept ==
  ASSUME TypeOK, \A g \in Goroutines : QueryInv(g), [Next]_vars
  PROVE  \A g \in Goroutines : QueryInv(g)'
<1>1. ASSUME NEW g \in Goroutines, Call(g) \/ Step(g), NEW h \in Goroutines
      PROVE  QueryInv(h)'
  <2>1. CASE h # g
    BY <1>1, <2>1, OthersSame, SameKeeps
  <2>2. CASE h = g
    <3>1. QueryInv(g)'
      BY <1>1, GetIndexKeeps, LookupKeeps, ScanKeeps, TakeRowKeeps, EndQueryKeeps,
         OtherStepsKeep DEF Step
    <3>2. QED
      BY <2>2, <3>1
  <2>3. QED
    BY <2>1, <2>2
<1>2. ASSUME UNCHANGED local, NEW h \in Goroutines
      PROVE  QueryInv(h)'
  <2>1. Same(h)
    BY <1>2 DEF local, Same
  <2>2. QED
    BY <2>1, SameKeeps
<1>3. \A id, v, t : Write(id, v, t) => UNCHANGED local
  BY DEF Write
<1>4. CASE UNCHANGED vars
  BY <1>2, <1>4 DEF vars
<1>5. CASE \E c \in Changes : Upsert(c[1], c[2]) \/ Delete(c[1], c[2])
  BY <1>2, <1>3, <1>5 DEF Upsert, Delete
<1>6. QED
  BY <1>1, <1>4, <1>5 DEF Next
-----------------------------------------------------------------------------
(* What makes a query fail.                                                *)

\* What was there is there until it is deleted.
LEMMA NothingElseGoneKept ==
  ASSUME TypeOK, NothingElseGone, [Next]_vars
  PROVE  NothingElseGone'
<1>1. ASSUME NEW i \in Ids, NEW v, NEW t, Write(i, v, t)
      PROVE  NothingElseGone'
  <2>1. /\ rows' = [rows EXCEPT ![i] = v] /\ past' = past \cup {rows'}
        /\ gone' = IF v = Absent THEN gone \cup {i} ELSE gone
    BY <1>1 DEF Write
  <2>2. SUFFICES ASSUME NEW s \in past', NEW id \in Ids, s[id] # Absent
                 PROVE  rows'[id] # Absent \/ id \in gone'
    BY DEF NothingElseGone
  <2>3. CASE s = rows'
    BY <2>2, <2>3
  <2>4. CASE s \in past
    <3>1. rows[id] # Absent \/ id \in gone
      BY <2>2, <2>4 DEF NothingElseGone
    <3>2. CASE id = i
      BY <2>1, <3>1, <3>2 DEF TypeOK
    <3>3. CASE id # i
      BY <2>1, <3>1, <3>3 DEF TypeOK
    <3>4. QED
      BY <3>2, <3>3
  <2>5. QED
    BY <2>1, <2>3, <2>4
<1>2. ASSUME UNCHANGED <<rows, past, gone>>
      PROVE  NothingElseGone'
  BY <1>2 DEF NothingElseGone
<1>3. ASSUME NEW g \in Goroutines, Call(g) \/ Step(g)
      PROVE  UNCHANGED <<rows, past, gone>>
  <2>1. CASE Call(g)
    BY <2>1 DEF Call, database, world
  <2>2. CASE Plan(g) \/ Setup(g) \/ GetIndex(g) \/ Lookup(g) \/ Scan(g) \/ TakeRow(g)
    BY <2>2 DEF Plan, Setup, GetIndex, Lookup, Scan, TakeRow, database, world
  <2>3. CASE EndQuery(g) \/ Fetch(g) \/ Fetched(g) \/ StatementFails(g) \/ Return(g)
    BY <2>3 DEF EndQuery, Fetch, Fetched, StatementFails, Return, database, world
  <2>4. QED
    BY <1>3, <2>1, <2>2, <2>3 DEF Step
<1>4. \A c \in Changes : c[1] \in Ids
  BY ChangesAssumption
<1>5. CASE UNCHANGED vars
  BY <1>2, <1>5 DEF vars, database, world
<1>6. QED
  BY <1>1, <1>2, <1>3, <1>4, <1>5 DEF Next, Upsert, Delete

\* What explains a failure explains it ever after.
LEMMA CausesStay ==
  ASSUME [Next]_vars, NEW q, NEW id, Fails(q, id)
  PROVE  Fails(q, id)'
<1>1. past \subseteq past' /\ gone \subseteq gone'
  <2>1. ASSUME NEW g \in Goroutines, Call(g) \/ Step(g)
        PROVE  UNCHANGED <<past, gone>>
    <3>1. CASE Call(g)
      BY <3>1 DEF Call, database, world
    <3>2. CASE Plan(g) \/ Setup(g) \/ GetIndex(g) \/ Lookup(g) \/ Scan(g) \/ TakeRow(g)
      BY <3>2 DEF Plan, Setup, GetIndex, Lookup, Scan, TakeRow, database, world
    <3>3. CASE EndQuery(g) \/ Fetch(g) \/ Fetched(g) \/ StatementFails(g) \/ Return(g)
      BY <3>3 DEF EndQuery, Fetch, Fetched, StatementFails, Return, database, world
    <3>4. QED
      BY <2>1, <3>1, <3>2, <3>3 DEF Step
  <2>2. \A i, v, t : Write(i, v, t) => past \subseteq past' /\ gone \subseteq gone'
    BY DEF Write
  <2>3. CASE UNCHANGED vars
    BY <2>3 DEF vars, database, world
  <2>4. QED
    BY <2>1, <2>2, <2>3 DEF Next, Upsert, Delete
<1>2. QED
  BY <1>1 DEF Fails

\* What the index ranks is of the dataset, and was ranked in some rows.
LEMMA RankedWas ==
  ASSUME TypeOK, NEW g \in Goroutines, NEW w, NEW id \in Ranked(index[g], w)
  PROVE  /\ id \in Ids /\ DatasetOf[id] = Dataset(w)
         /\ \E s \in past, kind \in Kinds : Ranks(s[id], kind)
<1>1. /\ id \in Ids /\ index[g][id] \notin {Absent, Blank}
      /\ DatasetOf[id] = Dataset(w)
  BY DEF Ranked, InDataset
<1>2. index[g] # NoRows
  BY <1>1 DEF NoRows
<1>3. PICK s \in past, kind \in Kinds : index[g] = Scored(s, kind)
  BY <1>2 DEF TypeOK, Indexes
<1>4. s \in [Ids -> Values]
  BY DEF TypeOK
<1>5. Ranks(s[id], kind)
  BY <1>1, <1>3, <1>4, ScoredMarks
<1>6. QED
  BY <1>1, <1>5

\* If it is no longer in the table, it was deleted; if it is there and QueryText
\* cannot read it, that is what it is now.
LEMMA RankedFails ==
  ASSUME TypeOK, NothingElseGone, NEW g \in Goroutines, NEW q,
         NEW id \in Ranked(index[g], q.where),
         rows[id] = Absent \/ (q.text /\ ~Fit(rows[id]))
  PROVE  id \in Ids /\ Fails(q, id)
<1>1. /\ id \in Ids /\ DatasetOf[id] = Dataset(q.where)
      /\ \E s \in past, kind \in Kinds : Ranks(s[id], kind)
  BY RankedWas
<1>2. CASE rows[id] = Absent
  <2>1. PICK s \in past : s[id] # Absent
    BY <1>1 DEF Ranks
  <2>2. id \in gone
    BY <1>1, <1>2, <2>1 DEF NothingElseGone
  <2>3. QED
    BY <1>1, <2>2 DEF Fails
<1>3. CASE rows[id] # Absent
  <2>1. q.text /\ ~Fit(rows[id]) /\ rows \in past
    BY <1>3 DEF TypeOK
  <2>2. q.text /\ \E s \in past : s[id] # Absent /\ ~Fit(s[id])
    BY <1>3, <2>1
  <2>3. QED
    BY <1>1, <2>2 DEF Fails
<1>4. QED
  BY <1>2, <1>3

\* A query of QueryText has a MATCH.
LEMMA TextMatches ==
  ASSUME NEW q \in Queries, q.text
  PROVE  MatchAt(q.where) # 0
<1> DEFINE S == {i \in DOMAIN q.where : q.where[i].col = "doc_id" /\ q.where[i].op = "MATCH"}
<1>1. PICK i \in S : TRUE
  BY QueriesAssumption
<1>2. S = {i}
  BY <1>1, QueriesAssumption
<1>3. i \in Nat \ {0}
  BY <1>1, QueriesAssumption
<1>4. Highest(S) = i
  BY <1>2, <1>3 DEF Highest
<1>5. QED
  BY <1>3, <1>4 DEF MatchAt

\* A query that fails has met a failure, or a document that explains it.
LEMMA CausesKept ==
  ASSUME TypeOK, \A g \in Goroutines : QueryInv(g), NothingElseGone,
         QueriesFailForCause, [Next]_vars
  PROVE  QueriesFailForCause'
<1>1. faults \in Nat
  BY DEF TypeOK
<1>2. ASSUME NEW h \in Goroutines, faults' = faults, query'[h] = query[h],
             \/ pc[h] = "failed"
             \/ \E id \in Ids : Fails(query[h], id)
      PROVE  faults' > 0 \/ \E id \in Ids : Fails(query[h], id)'
  <2>1. faults > 0 \/ \E id \in Ids : Fails(query[h], id)
    BY <1>2 DEF QueriesFailForCause
  <2>2. CASE faults > 0
    BY <1>2, <2>2
  <2>3. CASE \E id \in Ids : Fails(query[h], id)
    <3>1. PICK id \in Ids : Fails(query[h], id)
      BY <2>3
    <3>2. Fails(query[h], id)'
      <4>1. ASSUME NEW q, Fails(q, id) PROVE Fails(q, id)'
        BY <4>1, CausesStay
      <4>2. QED
        BY <1>2, <3>1, <4>1 DEF Fails
    <3>3. QED
      BY <3>2
  <2>4. QED
    BY <2>1, <2>2, <2>3
<1>3. ASSUME NEW g \in Goroutines, Call(g) \/ Step(g)
      PROVE  QueriesFailForCause'
  <2>1. SUFFICES ASSUME NEW h \in Goroutines, pc'[h] = "failed"
                 PROVE  faults' > 0 \/ \E id \in Ids : Fails(query[h], id)'
    BY DEF QueriesFailForCause
  <2>2. CASE StatementFails(g)
    BY <1>1, <2>2 DEF StatementFails
  <2>3. CASE ~StatementFails(g)
    <3>1. faults' = faults
      <4>1. CASE Call(g)
        BY <4>1 DEF Call, world
      <4>2. CASE Plan(g) \/ Setup(g) \/ GetIndex(g) \/ Lookup(g) \/ Scan(g) \/ TakeRow(g)
        BY <4>2 DEF Plan, Setup, GetIndex, Lookup, Scan, TakeRow, world
      <4>3. CASE EndQuery(g) \/ Fetch(g) \/ Fetched(g) \/ Return(g)
        BY <4>3 DEF EndQuery, Fetch, Fetched, Return, world
      <4>4. QED
        BY <1>3, <2>3, <4>1, <4>2, <4>3 DEF Step
    <3>2. CASE h # g
      <4>1. pc'[h] = pc[h] /\ query'[h] = query[h]
        BY <1>3, <3>2, OthersSame DEF Same
      <4>2. QED
        BY <1>2, <2>1, <3>1, <4>1
    <3>3. CASE h = g /\ GetIndex(g)
      <4>1. PICK s \in past : Unfit(s, query[g].where) \/ Goto(g, "lookup")
        BY <3>3 DEF GetIndex
      <4>2. ~Goto(g, "lookup") /\ query' = query
        BY <2>1, <3>3 DEF GetIndex, Goto, TypeOK
      <4>3. PICK id \in InDataset(s, query[g].where) : s[id].emb = Odd
        BY <4>1, <4>2 DEF Unfit
      <4>4. id \in Ids /\ Fails(query[g], id)
        BY <4>3 DEF Fails, InDataset
      <4>5. QED
        BY <1>2, <3>1, <3>3, <4>2, <4>4
    <3>4. CASE h = g /\ Lookup(g)
      <4>1. PICK id \in todo[g] :
              IF TooLow(query[g].where, index[g][id]) THEN UNCHANGED pc
              ELSE IF rows[id] = Absent THEN Goto(g, "failed") ELSE UNCHANGED pc
        BY <3>4 DEF Lookup
      <4>2. pc[g] = "lookup" /\ query' = query
        BY <3>4 DEF Lookup
      <4>3. rows[id] = Absent
        BY <2>1, <3>4, <4>1, <4>2
      <4>4. id \in Ranked(index[g], query[g].where)
        BY <4>2 DEF QueryInv, LookupInv
      <4>5. id \in Ids /\ Fails(query[g], id)
        BY <4>3, <4>4, RankedFails
      <4>6. QED
        BY <1>2, <3>1, <3>4, <4>2, <4>5
    <3>5. CASE h = g /\ Fetch(g)
      <4>1. pc[g] = "fetch" /\ query' = query
        BY <3>5 DEF Fetch
      <4>2. PICK i \in DOMAIN answer[g] :
              IF Fit(rows[answer[g][i]]) THEN UNCHANGED pc ELSE Goto(g, "failed")
        BY <3>5 DEF Fetch
      <4>3. ~Fit(rows[answer[g][i]])
        BY <2>1, <3>5, <4>1, <4>2
      <4>4. query[g].text /\ IdxNum(query[g].where) = "idxDatasetMatch"
        <5>1. query[g] \in Queries /\ query[g].text /\ IdxNum(query[g].where) # "error"
          BY <4>1, LocalTypes DEF QueryInv, PlanInv, AnswerInv
        <5>2. QED
          BY <5>1, TextMatches DEF IdxNum
      <4>5. answer[g][i] \in Wanted(index[g], query[g].where)
        BY <4>1 DEF QueryInv, AnswerInv, Members
      <4>6. answer[g][i] \in Ranked(index[g], query[g].where)
        BY <4>4, <4>5 DEF Wanted, Candidates
      <4>7. answer[g][i] \in Ids /\ Fails(query[g], answer[g][i])
        BY <4>3, <4>4, <4>6, RankedFails
      <4>8. QED
        BY <1>2, <3>1, <3>5, <4>1, <4>7
    <3>6. CASE h = g /\ ~GetIndex(g) /\ ~Lookup(g) /\ ~Fetch(g)
      <4>1. CASE Call(g) \/ Plan(g) \/ Setup(g) \/ Scan(g)
        BY <2>1, <3>6, <4>1 DEF Call, Plan, Setup, Scan, Goto, TypeOK
      <4>2. CASE TakeRow(g) \/ EndQuery(g) \/ Fetched(g) \/ Return(g)
        BY <2>1, <3>6, <4>2 DEF TakeRow, EndQuery, Fetched, Return, Goto, TypeOK
      <4>3. QED
        BY <1>3, <2>3, <3>6, <4>1, <4>2 DEF Step
    <3>7. QED
      BY <3>2, <3>3, <3>4, <3>5, <3>6
  <2>4. QED
    BY <2>2, <2>3
<1>4. ASSUME UNCHANGED <<pc, query, faults>>
      PROVE  QueriesFailForCause'
  <2>1. SUFFICES ASSUME NEW h \in Goroutines, pc'[h] = "failed"
                 PROVE  faults' > 0 \/ \E id \in Ids : Fails(query[h], id)'
    BY DEF QueriesFailForCause
  <2>2. QED
    BY <1>2, <1>4, <2>1
<1>5. \A i, v, t : Write(i, v, t) => UNCHANGED <<pc, query, faults>>
  BY DEF Write, local
<1>6. CASE UNCHANGED vars
  BY <1>4, <1>6 DEF vars, world, local
<1>7. QED
  BY <1>3, <1>4, <1>5, <1>6 DEF Next, Upsert, Delete

\* Whoever makes the triggers makes the table they name before it goes on.
LEMMA RefusalsKept ==
  ASSUME TypeOK, RefusalsAreBrief, [Next]_vars
  PROVE  RefusalsAreBrief'
<1>1. faults \in Nat
  BY DEF TypeOK
<1>2. ASSUME NEW g \in Goroutines, Setup(g)
      PROVE  RefusalsAreBrief'
  <2>1. CASE pc'[g] = "setup"
    BY <2>1 DEF RefusalsAreBrief
  <2>2. CASE pc'[g] # "setup"
    <3>1. Members(Ddl) \subseteq schema /\ schema' = schema
      BY <1>2, <2>2 DEF Setup
    <3>2. "storage" \in Members(Ddl)
      BY DEF Members, Ddl
    <3>3. QED
      BY <3>1, <3>2 DEF RefusalsAreBrief, Refuses
  <2>3. QED
    BY <2>1, <2>2
<1>3. ASSUME NEW g \in Goroutines, StatementFails(g)
      PROVE  RefusalsAreBrief'
  BY <1>1, <1>3 DEF StatementFails, RefusalsAreBrief
<1>4. ASSUME NEW g \in Goroutines, Call(g) \/ Step(g), ~Setup(g), ~StatementFails(g)
      PROVE  RefusalsAreBrief'
  <2>1. schema' = schema /\ faults' = faults /\ pc[g] # "setup"
    <3>1. CASE Call(g) \/ Plan(g) \/ GetIndex(g) \/ Lookup(g) \/ Scan(g)
      BY <3>1 DEF Call, Plan, GetIndex, Lookup, Scan, database, world
    <3>2. CASE TakeRow(g) \/ EndQuery(g) \/ Fetch(g) \/ Fetched(g) \/ Return(g)
      BY <3>2 DEF TakeRow, EndQuery, Fetch, Fetched, Return, Reading, database, world
    <3>3. QED
      BY <1>4, <3>1, <3>2 DEF Step
  <2>2. \A h \in Goroutines : pc[h] = "setup" => pc'[h] = "setup"
    BY <1>4, <2>1, OthersSame DEF Same
  <2>3. QED
    BY <2>1, <2>2 DEF RefusalsAreBrief, Refuses
<1>5. ASSUME UNCHANGED <<schema, faults, pc>>
      PROVE  RefusalsAreBrief'
  BY <1>5 DEF RefusalsAreBrief, Refuses
<1>6. \A i, v, t : Write(i, v, t) => UNCHANGED <<schema, faults, pc>>
  BY DEF Write, local
<1>7. CASE UNCHANGED vars
  BY <1>5, <1>7 DEF vars, database, world, local
<1>8. QED
  BY <1>2, <1>3, <1>4, <1>5, <1>6, <1>7 DEF Next, Upsert, Delete
-----------------------------------------------------------------------------
(* The theorems.                                                           *)

\* The invariant holds at first.
LEMMA InitialInv == Init => Inv
<1> SUFFICES ASSUME Init PROVE Inv
  OBVIOUS
<1>1. TypeOK
  BY InitialTypes
<1>2. \A g \in Goroutines : QueryInv(g)
  BY DEF Init, QueryInv, PlanInv, LookupInv, ReadInv, AnswerInv, Early
<1>3. NothingElseGone
  BY DEF Init, NothingElseGone
<1>4. QueriesFailForCause
  BY DEF Init, QueriesFailForCause
<1>5. RefusalsAreBrief
  <2>1. schema \subseteq {"shadow", "storage", "locks"}
    BY FirstSchemasAssumption DEF Init
  <2>2. QED
    BY <2>1 DEF RefusalsAreBrief, Refuses, Triggers
<1>6. QED
  BY <1>1, <1>2, <1>3, <1>4, <1>5 DEF Inv

\* Every step keeps the invariant.
LEMMA InvKept == Inv /\ [Next]_vars => Inv'
BY TypesKept, QueriesKept, NothingElseGoneKept, CausesKept, RefusalsKept DEF Inv

\* The invariant makes every answer exact.
LEMMA InvImpliesExact ==
  ASSUME Inv
  PROVE  AnswerIsExact
<1> SUFFICES ASSUME NEW g \in Goroutines, pc[g] \in {"fetch", "answer"},
                    \A i \in DOMAIN query[g].where : query[g].where[i].op # ">"
             PROVE  LET Score(id) == ScoreOf(index[g], query[g].where, id)
                        ids == answer[g]
                    IN  /\ \A i, j \in DOMAIN ids :
                             i < j => ids[i] # ids[j] /\ Score(ids[i]) >= Score(ids[j])
                        /\ \/ Members(ids) = Good(g)
                           \/ /\ Members(ids) \subseteq Good(g)
                              /\ LimitReached(g)
                              /\ \A x \in Members(ids), y \in Good(g) \ Members(ids) :
                                   Score(x) >= Score(y)
  BY DEF AnswerIsExact
<1> DEFINE s == index[g]
           w == query[g].where
<1>1. query[g] \in Queries /\ s \in [Ids -> Marks]
  BY LocalTypes DEF Inv
<1>2. AnswerInv(g) /\ Readable(w)
  BY DEF Inv, QueryInv, PlanInv
<1>3. Wanted(s, w) = Good(g)
  BY <1>1, <1>2, PushDownIsExact DEF AnswerInv, Good
<1>4. QED
  BY <1>2, <1>3 DEF AnswerInv, Ordered, Before

\* Whatever the WHERE clause and the LIMIT, a query answers with the rows of
\* its index that SQL asks for, each once, the best first: what BestIndex
\* takes from SQLite is what Filter does.
THEOREM AnswersAreExact == Spec => []AnswerIsExact
BY InitialInv, InvKept, InvImpliesExact, PTL DEF Spec

\* Whatever others do, a query fails only with a failing statement, or for a
\* document of its dataset that was deleted, that no index can be built with, or
\* that QueryText cannot read.
THEOREM FailuresHaveCauses == Spec => []QueriesFailForCause
<1>1. Inv => QueriesFailForCause
  BY DEF Inv
<1>2. QED
  BY InitialInv, InvKept, <1>1, PTL DEF Spec

\* The triggers stand without their table only while a MATCH is making it.
THEOREM RefusalsEnd == Spec => []RefusalsAreBrief
<1>1. Inv => RefusalsAreBrief
  BY DEF Inv
<1>2. QED
  BY InitialInv, InvKept, <1>1, PTL DEF Spec

-----------------------------------------------------------------------------
(* Connections.                                                            *)

\* The next statement of g waits for a connection.
Waits(g) ==
  \/ pc[g] = "connect" /\ ~Free
  \/ pc[g] \in {"setup", "index", "scan"} /\ ~CanAsk
  \/ pc[g] = "lookup" /\ todo[g] # {} /\ ~CanAsk
  \/ pc[g] = "fetch" /\ todo[g] # {} /\ ~Free

\* Whoever is in the middle of a query, somebody is who need not wait.
SomebodyGoesOn ==
  \A g \in Goroutines : pc[g] # "idle" => \E h \in Goroutines : pc[h] # "idle" /\ ~Waits(h)

\* Queries never all wait for each other's connections, however many run at
\* once: one connection is enough where dbpath= gives the statements of Filter
\* another pool, and otherwise one more than there are queries.
THEOREM QueriesGoOn ==
  ASSUME IsFiniteSet(Goroutines),
         \A p \in Pools : p.open > IF p.own THEN 0 ELSE Cardinality(Goroutines)
  PROVE  Spec => []SomebodyGoesOn
<1>1. TypeOK => SomebodyGoesOn
  <2> SUFFICES ASSUME TypeOK, NEW g \in Goroutines, pc[g] # "idle"
               PROVE  \E h \in Goroutines : pc[h] # "idle" /\ ~Waits(h)
    BY DEF SomebodyGoesOn
  <2>1. /\ pool \in Pools /\ pool.own \in BOOLEAN /\ pool.open \in Nat
        /\ pool.open > IF pool.own THEN 0 ELSE Cardinality(Goroutines)
    BY PoolsAssumption DEF TypeOK
  <2>2. /\ Cardinality(Open) <= Cardinality(Goroutines)
        /\ Cardinality(Open) \in Nat /\ Cardinality(Goroutines) \in Nat
        /\ IsFiniteSet(Open)
    BY FS_Subset, FS_CardinalityType DEF Open
  <2>3. CASE Free
    <3>1. ~Waits(g)
      BY <2>3 DEF Waits, CanAsk
    <3>2. QED
      BY <3>1
  <2>4. CASE ~Free
    <3>1. pool.own /\ CanAsk
      BY <2>1, <2>2, <2>4 DEF Free, CanAsk
    <3>2. Cardinality(Open) # 0
      BY <2>1, <2>2, <2>4, <3>1 DEF Free
    <3>3. Open # {}
      BY <2>2, <3>2, FS_EmptySet
    <3>4. PICK h \in Goroutines : pc[h] \in {"setup", "index", "lookup", "scan", "read"}
      BY <3>3 DEF Open
    <3>5. ~Waits(h)
      BY <3>1, <3>4 DEF Waits
    <3>6. QED
      BY <3>4, <3>5
  <2>5. QED
    BY <2>3, <2>4
<1>2. QED
  BY <1>1, TypeCorrect, PTL

-----------------------------------------------------------------------------
(* The end of a query.                                                     *)

\* How far a query is from its end: the stage it is at, and in a loop the turns
\* that are left.
Stage(g) ==
  CASE pc[g] = "connect" -> 6
    [] pc[g] = "setup" -> 5
    [] pc[g] = "index" -> 4
    [] pc[g] \in {"lookup", "scan"} -> 3
    [] pc[g] = "read" -> 2
    [] pc[g] = "fetch" -> 1
    [] OTHER -> 0

Turns(g) ==
  CASE pc[g] = "setup" -> Cardinality(Members(Ddl) \ schema)
    [] pc[g] \in {"lookup", "fetch"} -> Cardinality(todo[g])
    [] pc[g] = "read" -> Len(found[g])
    [] OTHER -> 0

Nearer(g) == Stage(g)' < Stage(g) \/ (Stage(g)' = Stage(g) /\ Turns(g)' < Turns(g))

\* The sets whose members are taken one by one are finite.
LEMMA FiniteLoops ==
  ASSUME TypeOK, NEW g \in Goroutines
  PROVE  /\ IsFiniteSet(todo[g]) /\ Cardinality(todo[g]) \in Nat
         /\ IsFiniteSet(Members(Ddl) \ schema)
         /\ Cardinality(Members(Ddl) \ schema) \in Nat
         /\ found[g] \in Seq(Ids) /\ Len(found[g]) \in Nat
<1>1. IsFiniteSet(todo[g])
  BY IdsAssumption, FS_Subset DEF TypeOK
<1>2. IsFiniteSet(Members(Ddl))
  <2>1. Members(Ddl) = {"shadow", "ins", "upd", "del", "storage", "locks"}
    <3>1. DOMAIN Ddl = {1, 2, 3, 4, 5, 6}
      BY DEF Ddl
    <3>2. Members(Ddl) = {Ddl[i] : i \in {1, 2, 3, 4, 5, 6}}
      BY <3>1 DEF Members
    <3>3. QED
      BY <3>2 DEF Ddl
  <2>2. IsFiniteSet({"shadow"} \cup {"ins"} \cup {"upd"} \cup {"del"} \cup {"storage"} \cup {"locks"})
    BY FS_Singleton, FS_Union
  <2>3. Members(Ddl) = {"shadow"} \cup {"ins"} \cup {"upd"} \cup {"del"} \cup {"storage"} \cup {"locks"}
    BY <2>1
  <2>4. QED
    BY <2>2, <2>3
<1>3. IsFiniteSet(Members(Ddl) \ schema)
  BY <1>2, FS_Subset
<1>4. QED
  BY <1>1, <1>3, FS_CardinalityType DEF TypeOK

\* What is taken from a set leaves fewer.
LEMMA OneLess ==
  ASSUME NEW S, IsFiniteSet(S), NEW x \in S
  PROVE  Cardinality(S \ {x}) < Cardinality(S)
<1>1. Cardinality(S \ {x}) = Cardinality(S) - 1 /\ Cardinality(S) \in Nat
  BY FS_RemoveElement, FS_CardinalityType
<1>2. QED
  BY <1>1

\* Every step of a query brings it nearer to its end.
LEMMA StepNearer ==
  ASSUME TypeOK, NEW g \in Goroutines, Step(g)
  PROVE  pc'[g] = "idle" \/ Nearer(g)
<1> USE DEF Nearer
<1>1. CASE Plan(g)
  <2>1. pc[g] = "connect" /\ pc'[g] \in {"refused", "scan", "setup"}
    BY <1>1 DEF Plan, Goto, TypeOK
  <2>2. QED
    BY <2>1 DEF Stage
<1>2. CASE Setup(g)
  <2>1. CASE pc'[g] = "index"
    BY <1>2, <2>1 DEF Setup, Stage
  <2>2. CASE pc'[g] # "index"
    <3>1. PICK i \in DOMAIN Ddl : Ddl[i] \notin schema /\ schema' = schema \cup {Ddl[i]}
      BY <1>2, <2>2 DEF Setup, Goto, TypeOK
    <3>2. pc[g] = "setup" /\ pc'[g] = "setup"
      BY <1>2, <2>2 DEF Setup, Goto, TypeOK
    <3>3. Ddl[i] \in Members(Ddl) \ schema
      BY <3>1 DEF Members
    <3>4. Members(Ddl) \ schema' = (Members(Ddl) \ schema) \ {Ddl[i]}
      BY <3>1
    <3>5. Cardinality(Members(Ddl) \ schema') < Cardinality(Members(Ddl) \ schema)
      <4> HIDE DEF Members
      <4>1. QED
        BY <3>3, <3>4, FiniteLoops, OneLess
    <3>6. Turns(g)' < Turns(g) /\ Stage(g)' = Stage(g)
      BY <3>2, <3>5 DEF Turns, Stage, Members, Ddl
    <3>7. QED
      BY <3>6
  <2>3. QED
    BY <2>1, <2>2
<1>3. CASE GetIndex(g)
  <2>1. pc[g] = "index" /\ pc'[g] \in {"lookup", "failed"}
    BY <1>3 DEF GetIndex, Goto, TypeOK
  <2>2. QED
    BY <2>1 DEF Stage
<1>4. CASE Lookup(g)
  <2>1. PICK id \in todo[g] : todo' = [todo EXCEPT ![g] = @ \ {id}]
    BY <1>4 DEF Lookup
  <2>2. pc[g] = "lookup" /\ pc'[g] \in {"lookup", "failed"}
    BY <1>4 DEF Lookup, Goto, TypeOK
  <2>3. Cardinality(todo'[g]) < Cardinality(todo[g])
    BY <2>1, FiniteLoops, OneLess DEF TypeOK
  <2>4. QED
    BY <2>2, <2>3 DEF Stage, Turns
<1>5. CASE Scan(g)
  <2>1. pc[g] = "scan" /\ pc'[g] \in {"read", "refused"}
    BY <1>5 DEF Scan, Goto, TypeOK
  <2>2. QED
    BY <2>1 DEF Stage
<1>6. CASE TakeRow(g)
  <2>1. /\ pc[g] \in {"read", "lookup"} /\ pc'[g] = "read"
        /\ found[g] # <<>> /\ found'[g] = Tail(found[g])
    BY <1>6 DEF TakeRow, Reading, Goto, TypeOK
  <2>2. Len(found'[g]) < Len(found[g])
    BY <2>1, FiniteLoops
  <2>3. QED
    BY <2>1, <2>2 DEF Stage, Turns
<1>7. CASE EndQuery(g)
  <2>1. pc[g] \in {"read", "lookup"} /\ pc'[g] \in {"fetch", "answer"}
    BY <1>7 DEF EndQuery, Reading, Goto, TypeOK
  <2>2. QED
    BY <2>1 DEF Stage
<1>8. CASE Fetch(g)
  <2>1. PICK i \in DOMAIN answer[g] :
          answer[g][i] \in todo[g] /\ todo' = [todo EXCEPT ![g] = @ \ {answer[g][i]}]
    BY <1>8 DEF Fetch
  <2>2. pc[g] = "fetch" /\ pc'[g] \in {"fetch", "failed"}
    BY <1>8 DEF Fetch, Goto, TypeOK
  <2>3. Cardinality(todo'[g]) < Cardinality(todo[g])
    BY <2>1, FiniteLoops, OneLess DEF TypeOK
  <2>4. QED
    BY <2>2, <2>3 DEF Stage, Turns
<1>9. CASE Fetched(g)
  <2>1. pc[g] = "fetch" /\ pc'[g] = "answer"
    BY <1>9 DEF Fetched, Goto, TypeOK
  <2>2. QED
    BY <2>1 DEF Stage
<1>10. CASE StatementFails(g)
  <2>1. pc[g] \in {"setup", "index", "scan", "lookup", "fetch"} /\ pc'[g] = "failed"
    BY <1>10 DEF StatementFails, Goto, TypeOK
  <2>2. QED
    BY <2>1 DEF Stage
<1>11. CASE Return(g)
  BY <1>11 DEF Return, Goto, TypeOK
<1>12. QED
  BY <1>1, <1>2, <1>3, <1>4, <1>5, <1>6, <1>7, <1>8, <1>9, <1>10, <1>11 DEF Step

\* Nobody else's step, and no write, sets it back.
LEMMA OthersHelp ==
  ASSUME TypeOK, NEW g \in Goroutines, pc[g] # "idle", Next, ~Step(g)
  PROVE  Nearer(g) \/ UNCHANGED <<Stage(g), Turns(g)>>
<1>1. UNCHANGED <<pc[g], todo[g], found[g]>> /\ schema \subseteq schema'
  <2>1. ASSUME NEW h \in Goroutines, Call(h) \/ Step(h)
        PROVE  UNCHANGED <<pc[g], todo[g], found[g]>> /\ schema \subseteq schema'
    <3>1. h # g
      BY <2>1 DEF Call
    <3>2. Same(g)
      BY <2>1, <3>1, OthersSame
    <3>3. schema \subseteq schema'
      BY <2>1 DEF Call, Step, Plan, Setup, GetIndex, Lookup, Scan, TakeRow, EndQuery,
                  Fetch, Fetched, StatementFails, Return, database
    <3>4. QED
      BY <3>2, <3>3 DEF Same
  <2>2. ASSUME NEW c \in Changes, Upsert(c[1], c[2]) \/ Delete(c[1], c[2])
        PROVE  UNCHANGED <<pc[g], todo[g], found[g]>> /\ schema \subseteq schema'
    BY <2>2 DEF Upsert, Delete, Write, local
  <2>3. QED
    BY <2>1, <2>2 DEF Next
<1>2. UNCHANGED Stage(g)
  BY <1>1 DEF Stage
<1>3. CASE pc[g] # "setup"
  BY <1>1, <1>2, <1>3 DEF Turns
<1>4. CASE pc[g] = "setup"
  <2> DEFINE Left == Members(Ddl) \ schema
             Then == Members(Ddl) \ schema'
  <2>1. /\ IsFiniteSet(Left) /\ Then \in SUBSET Left
    BY <1>1, FiniteLoops
  <2>2. Cardinality(Then) <= Cardinality(Left) /\ Cardinality(Left) \in Nat /\ Cardinality(Then) \in Nat
    <3> HIDE DEF Left, Then
    <3>1. QED
      BY <2>1, FS_Subset, FS_CardinalityType
  <2>3. Turns(g) = Cardinality(Left) /\ Turns(g)' = Cardinality(Then)
    BY <1>1, <1>4 DEF Turns, Members, Ddl
  <2>4. QED
    BY <1>2, <2>2, <2>3 DEF Nearer
<1>5. QED
  BY <1>3, <1>4

\* A step takes a query to its end, brings it nearer to it, or is somebody
\* else's and leaves it where it is.
OnToTheEnd ==
  \A g \in Goroutines :
    pc[g] # "idle" => \/ pc'[g] = "idle"
                      \/ Nearer(g)
                      \/ ~Step(g) /\ UNCHANGED <<Stage(g), Turns(g)>>

\* Each statement, row and turn of a loop brings a query nearer to its end, and
\* nothing that others do sets it back: a query that does not wait for ever for
\* a connection returns.
THEOREM QueriesEnd == Spec => [][OnToTheEnd]_vars
<1>1. TypeOK /\ [Next]_vars => [OnToTheEnd]_vars
  <2>1. ASSUME TypeOK, Next, NEW g \in Goroutines, pc[g] # "idle"
        PROVE  \/ pc'[g] = "idle"
               \/ Nearer(g)
               \/ ~Step(g) /\ UNCHANGED <<Stage(g), Turns(g)>>
    BY <2>1, StepNearer, OthersHelp
  <2>2. QED
    BY <2>1 DEF OnToTheEnd
<1>2. QED
  BY <1>1, TypeCorrect, PTL DEF Spec

=============================================================================
