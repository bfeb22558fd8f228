----------------------------- MODULE CoverTree -----------------------------
(***************************************************************************)
(* Insertion into the cover tree of internal/cover/tree/tree.go, one turn  *)
(* of its loop at a time.                                                  *)
(*                                                                         *)
(* Distances are whole numbers of steps: a distance of 1, which is the     *)
(* base length of level 0, is Unit steps.  The base is Num / Den, so       *)
(* lengths are compared without rounding; in the code they are float32.    *)
(* Nothing is asked of Distance, which need not be a metric: the cosine    *)
(* distance of the code is none.  A node holds one point for good, so node *)
(* n is the n-th point inserted, which is also its index into values.  The *)
(* length baseLevel that the loop carries along is that of its level.      *)
(***************************************************************************)
EXTENDS Integers, Sequences, FiniteSets

CONSTANTS
  Vectors,          \* what may be inserted
  Distance(_, _),   \* the distance function, in steps
  Unit,             \* the distance 1
  Num, Den,         \* the base of the tree, Num / Den
  MaxPoints         \* bound: insertions

ASSUME DistanceAssumption == \A v, w \in Vectors : Distance(v, w) \in Nat
ASSUME UnitAssumption == Unit \in Nat \ {0}
ASSUME BaseAssumption == Num \in Nat /\ Den \in Nat \ {0} /\ Num > Den

VARIABLES
  at,     \* at[n]: the vector of node n
  kids,   \* kids[n]: the children of node n, in the order they were added
  lvl,    \* lvl[n]: the level of node n
  root,   \* the root, or 0
  new,    \* the point being inserted, or 0
  node,   \* the node the loop of insert is at, while new # 0
  level   \* the level it has got to

tree == <<at, kids, lvl, root>>
loop == <<new, node, level>>
vars == <<tree, loop>>

Points == 1 .. Len(at)

\* The nodes of the tree: every point but the one still being inserted.
Nodes == Points \ {new}

Kids(n) == {kids[n][i] : i \in DOMAIN kids[n]}

Closed(S) == \A m \in S : Kids(m) \subseteq S

\* The subtree of n: what every set with n and all children of its members has.
Subtree(n) == {m \in Nodes : \A S \in SUBSET Nodes : n \in S /\ Closed(S) => m \in S}

\* Distance d is less than the base length of level l.
Below(d, l) ==
  IF l >= 0 THEN d * Den^l < Unit * Num^l ELSE d * Num^(-l) < Unit * Den^(-l)

\* The new point is nearer to node n than the base length of the level.
Near(n) == Below(Distance(at[new], at[n]), level)

CloseBy == new # 0 /\ Near(node)
TooFar == new # 0 /\ ~Near(node)
Done == new' = 0 /\ node' = 0 /\ level' = 0

\* Where the loop goes on: the children of its node that are near as well.
NearKids == {i \in DOMAIN kids[node] : Near(kids[node][i])}

Init ==
  /\ at = <<>>
  /\ kids = <<>>
  /\ lvl = <<>>
  /\ root = 0
  /\ new = 0
  /\ node = 0
  /\ level = 0

-----------------------------------------------------------------------------
(* Mutated forms: the new root forgets the old one, or takes its children  *)
(* over as well, or the loop goes on after it; the loop goes up by         *)
(* starting over at the root.                                              *)

NewRootForgetsOld ==
  /\ TooFar
  /\ level + 1 > lvl[node]
  /\ lvl' = [lvl EXCEPT ![new] = level + 1]
  /\ root' = new
  /\ Done
  /\ UNCHANGED <<at, kids>>

NewRootAdopts ==
  /\ TooFar
  /\ level + 1 > lvl[node]
  /\ kids' = [kids EXCEPT ![new] = <<root>> \o kids[root]]
  /\ lvl' = [lvl EXCEPT ![new] = level + 1]
  /\ root' = new
  /\ Done
  /\ UNCHANGED at

NewRootGoesOn ==
  /\ TooFar
  /\ level + 1 > lvl[node]
  /\ kids' = [kids EXCEPT ![new] = <<root>>]
  /\ lvl' = [lvl EXCEPT ![new] = level + 1]
  /\ root' = new
  /\ level' = level + 1
  /\ UNCHANGED <<at, new, node>>

RiseToRoot ==
  /\ TooFar
  /\ level + 1 <= lvl[node]
  /\ level' = level + 1
  /\ node' = root
  /\ UNCHANGED <<tree, new>>

-----------------------------------------------------------------------------
\* Insert takes the next index for the point.  The first point is the root.
Insert(v) ==
  /\ new = 0
  /\ Len(at) < MaxPoints
  /\ at' = Append(at, v)
  /\ kids' = Append(kids, <<>>)
  /\ lvl' = Append(lvl, 0)
  /\ IF root = 0
     THEN /\ root' = 1
          /\ UNCHANGED loop
     ELSE /\ new' = Len(at) + 1
          /\ node' = root
          /\ level' = 0
          /\ UNCHANGED root

\* Go down to the first child that is near too.
Descend ==
  /\ CloseBy
  /\ \E i \in NearKids :
       /\ \A j \in NearKids : i <= j
       /\ node' = kids[node][i]
  /\ level' = level - 1
  /\ UNCHANGED <<tree, new>>

\* None is: the point becomes a child.
Attach ==
  /\ CloseBy
  /\ NearKids = {}
  /\ kids' = [kids EXCEPT ![node] = Append(@, new)]
  /\ lvl' = [lvl EXCEPT ![new] = level - 1]
  /\ Done
  /\ UNCHANGED <<at, root>>

\* The node is too far away for this level: go up a level at the same node.
Rise ==
  /\ TooFar
  /\ level + 1 <= lvl[node]
  /\ level' = level + 1
  /\ UNCHANGED <<tree, new, node>>

\* Above the level of the node, the point becomes the root of the tree.
NewRoot ==
  /\ TooFar
  /\ level + 1 > lvl[node]
  /\ kids' = [kids EXCEPT ![new] = <<root>>]
  /\ lvl' = [lvl EXCEPT ![new] = level + 1]
  /\ root' = new
  /\ Done
  /\ UNCHANGED at

Turn == Descend \/ Attach \/ Rise \/ NewRoot

Next == (\E v \in Vectors : Insert(v)) \/ Turn

Spec == Init /\ [][Next]_vars

-----------------------------------------------------------------------------
TypeOK ==
  /\ at \in Seq(Vectors)
  /\ kids \in Seq(Seq(Points)) /\ Len(kids) = Len(at)
  /\ lvl \in Seq(Int) /\ Len(lvl) = Len(at)
  /\ root \in Points \cup {0}
  /\ new \in {0, Len(at)}
  /\ node \in Points \cup {0}
  /\ level \in Int
  /\ root = 0 => Points = {} /\ new = 0
  /\ new # 0 => root \in Nodes /\ node \in Nodes /\ kids[new] = <<>>
  /\ root # 0 => root \in Nodes

\* No point is lost, whatever roots come to lie above it: whoever starts at
\* the root and follows children meets every node.
NoPointLost ==
  \A S \in SUBSET Nodes :
    /\ root \in S
    /\ \A n \in S : Kids(n) \subseteq S
    => S = Nodes

\* And meets it once: a node has one parent, in one place, and the root none.
OneParent ==
  /\ \A m, n \in Nodes : \A i \in DOMAIN kids[m], j \in DOMAIN kids[n] :
       kids[m][i] = kids[n][j] => m = n /\ i = j
  /\ \A n \in Nodes : root \notin Kids(n)
  /\ \A n \in Nodes : Kids(n) \subseteq Nodes

\* The nodes the loop may still go down to, and the levels it may still go up.
Ahead == Cardinality(Subtree(node))
Climb == IF lvl[node] > level THEN lvl[node] - level ELSE 0

\* Every turn of the loop is the last, or brings the last one nearer: it goes
\* down to fewer nodes, or up towards the level of the node it stays at.
TurnsBringTheEnd ==
  [][new # 0 => \/ new' = 0
                \/ Ahead' < Ahead
                \/ Ahead' = Ahead /\ Climb' < Climb]_vars

\* Every insertion ends: the loop does not go up and down for ever, though it
\* starts at level 0 wherever the root is.
InsertEnds == new # 0 ~> new = 0

=============================================================================
