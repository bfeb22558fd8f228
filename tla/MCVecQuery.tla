----------------------------- MODULE MCVecQuery -----------------------------
(* Small instances of VecQuery. *)
EXTENDS VecQuery, TLC

CONSTANTS g1, g2, d1, d2, d3

Eq(d) == [col |-> "dataset_id", op |-> "=", val |-> d]
Match(v) == [col |-> "doc_id", op |-> "MATCH", val |-> v]
Score(op, v) == [col |-> "match_score", op |-> op, val |-> v]
Q(where, limit, text) == [where |-> where, limit |-> limit, text |-> text]

ThreeDocs == d1 :> "a" @@ d2 :> "a" @@ d3 :> "b"

Mix == {
  Q(<<Match("v"), Eq("a")>>, 1, TRUE),
  Q(<<Eq("a"), Score(">=", 1), Score(">=", 2), Match("v"), Score("<=", 2)>>, 1, FALSE),
  Q(<<Eq("a")>>, 0, FALSE),
  Q(<<Match("v")>>, 0, FALSE),
  Q(<<Eq("a"), Match(Unreadable)>>, 0, FALSE),
  Q(<<Score(">", Unreadable), Eq("a"), Match("v")>>, 0, FALSE) }

Plain == { Q(<<Eq("a"), Match("v")>>, 0, FALSE) }

Row(emb) == [emb |-> emb, full |-> TRUE]
Untitled(emb) == [emb |-> emb, full |-> FALSE]

Stored == { NoRows, d1 :> Row(1) @@ d2 :> Row(3) @@ d3 :> Untitled(Odd) }

Some == {
  <<d1, Row(2)>>, <<d1, Absent>>, <<d1, Row(Odd)>>,
  <<d2, Untitled(3)>>, <<d2, Row(Zero)>>, <<d2, Row(Blank)>>, <<d3, Row(3)>> }

Schemas == {{}, {"shadow"}}

PathGiven == [own |-> TRUE, open |-> 1]
Enough == {PathGiven, [own |-> FALSE, open |-> 3]}
Two == {[own |-> FALSE, open |-> 2]}
=============================================================================
