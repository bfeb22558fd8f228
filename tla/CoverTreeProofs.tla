-------------------------- MODULE CoverTreeProofs --------------------------
(***************************************************************************)
(* Proofs about insertion into the cover tree, for any vectors, any        *)
(* distance between them, any base and any number of insertions, about the *)
(* encoding of the trees it builds, and about the searches of these trees, *)
(* built or read back.                                                     *)
(***************************************************************************)
EXTENDS CoverTreeSearch, SequenceTheorems, FiniteSetTheorems, WellFoundedInduction, TLAPS

\* The invariant: well formed, and a tree of all the points there are.
Inv == TypeOK /\ NoPointLost /\ OneParent

\* Nodes are points, and what a node has for a child is a node.
LEMMA Family ==
  ASSUME TypeOK
  PROVE  /\ Nodes \subseteq Points
         /\ \A n \in Points : kids[n] \in Seq(Points) /\ Kids(n) \subseteq Points
<1>1. kids \in Seq(Seq(Points)) /\ Len(kids) = Len(at)
  BY DEF TypeOK
<1>2. ASSUME NEW n \in Points
      PROVE  kids[n] \in Seq(Points) /\ Kids(n) \subseteq Points
  <2>1. n \in 1 .. Len(kids)
    BY <1>1, <1>2 DEF Points
  <2>2. kids[n] \in Seq(Points)
    BY <1>1, <2>1, ElementOfSeq
  <2>3. \A i \in DOMAIN kids[n] : kids[n][i] \in Points
    BY <2>2, ElementOfSeq
  <2>4. QED
    BY <2>2, <2>3 DEF Kids
<1>3. QED
  BY <1>2 DEF Nodes

\* While a point is inserted, it is the last one and not yet a node.
LEMMA Inserting ==
  ASSUME TypeOK, new # 0
  PROVE  /\ new \in Points /\ new \notin Nodes /\ Points = Nodes \cup {new}
         /\ node \in Nodes /\ root \in Nodes /\ root # 0
         /\ level \in Int /\ kids[new] = <<>>
<1>1. Len(at) \in Nat /\ new = Len(at) /\ root \in Nodes
  BY DEF TypeOK
<1>2. root \in 1 .. Len(at)
  BY <1>1 DEF Nodes, Points
<1>3. node \in Nodes /\ level \in Int /\ kids[new] = <<>>
  BY DEF TypeOK
<1>4. new \in Points /\ Points = Nodes \cup {new} /\ root # 0
  BY <1>1, <1>2 DEF Nodes, Points
<1>5. QED
  BY <1>1, <1>3, <1>4 DEF Nodes

\* Insert adds a point without children, and touches no other.
LEMMA InsertEffect ==
  ASSUME TypeOK, NEW v \in Vectors, Insert(v)
  PROVE  /\ Points' = Points \cup {Len(at) + 1}
         /\ Len(at) + 1 \in Nat \ Points
         /\ at' \in Seq(Vectors)
         /\ kids' \in Seq(Seq(Points')) /\ Len(kids') = Len(at')
         /\ lvl' \in Seq(Int) /\ Len(lvl') = Len(at')
         /\ \A n \in Points : kids'[n] = kids[n]
         /\ kids'[Len(at) + 1] = <<>>
<1>1. at \in Seq(Vectors) /\ Len(at) \in Nat
  BY DEF TypeOK
<1>2. at' \in Seq(Vectors) /\ Len(at') = Len(at) + 1
  BY <1>1, AppendProperties DEF Insert
<1>3. Points' = Points \cup {Len(at) + 1} /\ Len(at) + 1 \in Nat \ Points
  BY <1>1, <1>2 DEF Points
<1>4. lvl' \in Seq(Int) /\ Len(lvl') = Len(at')
  <2>1. lvl \in Seq(Int) /\ Len(lvl) = Len(at) /\ lvl' = Append(lvl, 0)
    BY DEF TypeOK, Insert
  <2>2. QED
    BY <1>2, <2>1, AppendProperties
<1>5. kids' \in Seq(Seq(Points')) /\ Len(kids') = Len(at')
      /\ (\A n \in Points : kids'[n] = kids[n]) /\ kids'[Len(at) + 1] = <<>>
  <2>1. kids \in Seq(Seq(Points)) /\ Len(kids) = Len(at) /\ kids' = Append(kids, <<>>)
    BY DEF TypeOK, Insert
  <2>2. \A s \in Seq(Points) : s \in Seq(Points')
    BY <1>3
  <2>3. kids \in Seq(Seq(Points'))
    BY <2>1, <2>2
  <2>4. <<>> \in Seq(Points')
    OBVIOUS
  <2>5. QED
    BY <1>1, <1>2, <2>1, <2>3, <2>4, AppendProperties DEF Points
<1>6. QED
  BY <1>2, <1>3, <1>4, <1>5

\* Attach and NewRoot link two nodes and touch nothing else.
LEMMA LinkEffect ==
  ASSUME TypeOK, new \in Points,
         NEW m \in Points, NEW s \in Seq(Points), NEW l \in Int,
         at' = at, kids' = [kids EXCEPT ![m] = s], lvl' = [lvl EXCEPT ![new] = l]
  PROVE  /\ Points' = Points
         /\ kids' \in Seq(Seq(Points')) /\ Len(kids') = Len(at')
         /\ lvl' \in Seq(Int) /\ Len(lvl') = Len(at')
         /\ \A n \in Points : kids'[n] = IF n = m THEN s ELSE kids[n]
<1>1. Points' = Points
  BY DEF Points
<1>2. kids \in Seq(Seq(Points)) /\ Len(kids) = Len(at) /\ lvl \in Seq(Int) /\ Len(lvl) = Len(at)
  BY DEF TypeOK
<1>3. kids' \in Seq(Seq(Points)) /\ Len(kids') = Len(kids)
  BY <1>2, ExceptSeq DEF Points
<1>4. lvl' \in Seq(Int) /\ Len(lvl') = Len(lvl)
  BY <1>2, ExceptSeq DEF Points
<1>5. \A n \in Points : kids'[n] = IF n = m THEN s ELSE kids[n]
  <2>1. Points = DOMAIN kids
    BY <1>2 DEF Points
  <2>2. QED
    BY <2>1
<1>6. QED
  BY <1>1, <1>2, <1>3, <1>4, <1>5

\* At first there is no point.
LEMMA InitInv == Init => Inv
<1>1. Init => TypeOK
  BY EmptySeq DEF Init, TypeOK, Points, Nodes
<1>2. Init => Nodes = {}
  BY DEF Init, Nodes, Points
<1>3. QED
  BY <1>1, <1>2 DEF Inv, NoPointLost, OneParent

\* Every step keeps the tree well formed.
LEMMA StepTypeOK ==
  ASSUME Inv, [Next]_vars
  PROVE  TypeOK'
<1>1. TypeOK /\ (\A n \in Nodes : Kids(n) \subseteq Nodes)
  BY DEF Inv, OneParent
<1>2. ASSUME NEW v \in Vectors, Insert(v) PROVE TypeOK'
  <2>1. CASE root = 0
    BY <1>1, <1>2, <2>1, InsertEffect DEF TypeOK, Insert, Nodes, loop, Points
  <2>2. CASE root # 0
    BY <1>1, <1>2, <2>2, InsertEffect DEF TypeOK, Insert, Nodes, Points
  <2>3. QED
    BY <2>1, <2>2
<1>3. CASE Descend
  <2>1. node' \in Nodes
    BY <1>1, <1>3, Inserting DEF Descend, CloseBy, NearKids, Kids
  <2>2. UNCHANGED <<at, kids, lvl, root, new>> /\ level' = level - 1
    BY <1>3 DEF Descend, tree
  <2>3. Points' = Points /\ Nodes' = Nodes
    BY <2>2 DEF Points, Nodes
  <2>4. QED
    BY <1>1, <2>1, <2>2, <2>3, Family DEF TypeOK
<1>4. CASE Attach
  <2>1. new # 0 /\ node \in Points /\ kids[node] \in Seq(Points)
    BY <1>1, <1>4, Family, Inserting DEF Attach, CloseBy
  <2>2. Append(kids[node], new) \in Seq(Points) /\ level - 1 \in Int
    BY <1>1, <2>1, Inserting, AppendProperties
  <2>3. at' = at /\ root' = root /\ new' = 0 /\ node' = 0 /\ level' = 0
    BY <1>4 DEF Attach, Done
  <2>4. /\ Points' = Points
        /\ kids' \in Seq(Seq(Points')) /\ Len(kids') = Len(at')
        /\ lvl' \in Seq(Int) /\ Len(lvl') = Len(at')
    BY <1>1, <1>4, <2>1, <2>2, <2>3, LinkEffect, Inserting DEF Attach
  <2>5. Nodes' = Points
    BY <2>3, <2>4 DEF Nodes, Points
  <2>6. QED
    BY <1>1, <2>1, <2>3, <2>4, <2>5, Inserting DEF TypeOK
<1>5. CASE Rise
  <2>1. UNCHANGED <<at, kids, lvl, root, new, node>> /\ level' = level + 1
    BY <1>5 DEF Rise, tree
  <2>2. Points' = Points /\ Nodes' = Nodes
    BY <2>1 DEF Points, Nodes
  <2>3. QED
    BY <1>1, <2>1, <2>2 DEF TypeOK
<1>6. CASE NewRoot
  <2>1. new # 0 /\ root \in Points /\ <<root>> \in Seq(Points) /\ level + 1 \in Int
    BY <1>1, <1>6, Inserting DEF NewRoot, TooFar
  <2>2. at' = at /\ root' = new /\ new' = 0 /\ node' = 0 /\ level' = 0
    BY <1>6 DEF NewRoot, Done
  <2>3. /\ Points' = Points
        /\ kids' \in Seq(Seq(Points')) /\ Len(kids') = Len(at')
        /\ lvl' \in Seq(Int) /\ Len(lvl') = Len(at')
    BY <1>1, <1>6, <2>1, <2>2, LinkEffect, Inserting DEF NewRoot
  <2>4. Nodes' = Points
    BY <2>2, <2>3 DEF Nodes, Points
  <2>5. QED
    BY <1>1, <2>1, <2>2, <2>3, <2>4, Inserting DEF TypeOK
<1>7. CASE UNCHANGED vars
  BY <1>1, <1>7 DEF TypeOK, vars, tree, loop, Nodes, Points
<1>8. QED
  BY <1>2, <1>3, <1>4, <1>5, <1>6, <1>7 DEF Next, Turn

-----------------------------------------------------------------------------
(* What each step does to the tree. *)

\* The first point becomes the only node.
LEMMA FirstEffect ==
  ASSUME TypeOK, NEW v \in Vectors, Insert(v), root = 0
  PROVE  Nodes' = {1} /\ root' = 1 /\ kids'[1] = <<>>
<1>1. Points = {} /\ new = 0 /\ Len(at) \in Nat
  BY DEF TypeOK
<1>2. Len(at) = 0
  <2>1. 1 \notin 1 .. Len(at)
    BY <1>1 DEF Points
  <2>2. QED
    BY <1>1, <2>1
<1>3. new' = 0 /\ root' = 1
  BY <1>1 DEF Insert, loop
<1>4. QED
  BY <1>1, <1>2, <1>3, InsertEffect DEF Nodes

\* Until a point is linked, the tree is what it was.
LEMMA QuietEffect ==
  ASSUME TypeOK,
         \/ \E v \in Vectors : Insert(v) /\ root # 0
         \/ Descend \/ Rise \/ UNCHANGED vars
  PROVE  Nodes' = Nodes /\ root' = root /\ \A n \in Nodes : kids'[n] = kids[n]
<1>1. ASSUME NEW v \in Vectors, Insert(v), root # 0
      PROVE  Nodes' = Nodes /\ root' = root /\ \A n \in Nodes : kids'[n] = kids[n]
  <2>1. new = 0 /\ new' = Len(at) + 1 /\ root' = root
    BY <1>1 DEF Insert
  <2>2. 0 \notin Points
    BY DEF Points
  <2>3. Nodes' = Points /\ Nodes = Points
    BY <1>1, <2>1, <2>2, InsertEffect DEF Nodes
  <2>4. QED
    BY <1>1, <2>1, <2>3, InsertEffect
<1>2. CASE Descend \/ Rise \/ UNCHANGED vars
  <2>1. UNCHANGED <<at, kids, root, new>>
    BY <1>2 DEF Descend, Rise, vars, tree, loop
  <2>2. QED
    BY <2>1 DEF Nodes, Points
<1>3. QED
  BY <1>1, <1>2

\* Attach makes the point a node, the last child of the node it came to.
LEMMA AttachEffect ==
  ASSUME TypeOK, Attach
  PROVE  /\ new \notin Nodes /\ Nodes' = Nodes \cup {new} /\ root' = root
         /\ node \in Nodes /\ kids'[node] = Append(kids[node], new)
         /\ kids'[new] = <<>>
         /\ \A n \in Nodes \ {node} : kids'[n] = kids[n]
<1>1. new # 0 /\ new' = 0 /\ at' = at /\ root' = root
  BY DEF Attach, CloseBy, Done
<1>2. node \in Points /\ kids[node] \in Seq(Points) /\ level - 1 \in Int
  BY <1>1, Family, Inserting
<1>3. Append(kids[node], new) \in Seq(Points)
  BY <1>1, <1>2, Inserting, AppendProperties
<1>4. \A n \in Points : kids'[n] = IF n = node THEN Append(kids[node], new) ELSE kids[n]
  BY <1>1, <1>2, <1>3, LinkEffect, Inserting DEF Attach
<1>5. Nodes' = Points
  BY <1>1 DEF Nodes, Points
<1>6. QED
  BY <1>1, <1>4, <1>5, Inserting

\* NewRoot makes the point the root, the old one its only child.
LEMMA NewRootEffect ==
  ASSUME TypeOK, NewRoot
  PROVE  /\ new \notin Nodes /\ Nodes' = Nodes \cup {new} /\ root' = new
         /\ root \in Nodes /\ kids'[new] = <<root>>
         /\ \A n \in Nodes : kids'[n] = kids[n]
<1>1. new # 0 /\ new' = 0 /\ at' = at /\ root' = new
  BY DEF NewRoot, TooFar, Done
<1>2. root \in Points /\ <<root>> \in Seq(Points) /\ level + 1 \in Int
  BY <1>1, Inserting
<1>3. \A n \in Points : kids'[n] = IF n = new THEN <<root>> ELSE kids[n]
  <2>1. kids' = [kids EXCEPT ![new] = <<root>>] /\ lvl' = [lvl EXCEPT ![new] = level + 1]
    BY DEF NewRoot
  <2>2. QED
    BY <1>1, <1>2, <2>1, LinkEffect, Inserting
<1>4. Nodes' = Points
  BY <1>1 DEF Nodes, Points
<1>5. QED
  BY <1>1, <1>3, <1>4, Inserting

\* Children after an append: the old ones and the new.
LEMMA KidsOfAppend ==
  ASSUME TypeOK, NEW n \in Points, NEW c \in Points, kids'[n] = Append(kids[n], c)
  PROVE  Kids(n)' = Kids(n) \cup {c}
<1>1. kids[n] \in Seq(Points) /\ Len(kids[n]) \in Nat
  BY Family
<1>2. /\ DOMAIN kids'[n] = 1 .. Len(kids[n]) + 1
      /\ \A i \in 1 .. Len(kids[n]) : kids'[n][i] = kids[n][i]
      /\ kids'[n][Len(kids[n]) + 1] = c
  BY <1>1, AppendProperties
<1>3. DOMAIN kids[n] = 1 .. Len(kids[n])
  BY <1>1
<1>4. QED
  BY <1>1, <1>2, <1>3 DEF Kids

-----------------------------------------------------------------------------
\* No step loses a point.  A set closed under children after the point is
\* linked is, without the point, closed before.
LEMMA StepNoPointLost ==
  ASSUME Inv, [Next]_vars
  PROVE  NoPointLost'
<1>1. TypeOK /\ NoPointLost /\ \A n \in Nodes : Kids(n) \subseteq Nodes
  BY DEF Inv, OneParent
<1>2. SUFFICES ASSUME NEW S \in SUBSET Nodes', root' \in S,
                      \A n \in S : Kids(n)' \subseteq S
               PROVE  S = Nodes'
  BY DEF NoPointLost
<1>3. CASE Attach
  <2>1. new \in Points /\ node \in Points /\ root \in Nodes
    BY <1>1, <1>3, Inserting, Family DEF Attach, CloseBy
  <2>2. \A n \in Points : n = node => Kids(n)' = Kids(n) \cup {new}
    BY <1>1, <1>3, <2>1, AttachEffect, KidsOfAppend
  <2>3. \A n \in S \ {new} : Kids(n) \subseteq S \ {new}
    BY <1>1, <1>2, <1>3, <2>2, AttachEffect DEF Kids
  <2>4. S \ {new} \subseteq Nodes /\ root \in S \ {new}
    BY <1>1, <1>2, <1>3, <2>1, AttachEffect
  <2>5. S \ {new} = Nodes
    BY <1>1, <2>3, <2>4 DEF NoPointLost
  <2>6. node \in S /\ new \in S
    BY <1>1, <1>2, <1>3, <2>1, <2>2, <2>5, AttachEffect
  <2>7. QED
    BY <1>1, <1>3, <2>5, <2>6, AttachEffect
<1>4. CASE NewRoot
  <2>1. \A n : n = new => Kids(n)' = {root}
    BY <1>1, <1>4, NewRootEffect DEF Kids
  <2>2. \A n \in S \ {new} : Kids(n) \subseteq S \ {new}
    BY <1>1, <1>2, <1>4, NewRootEffect DEF Kids
  <2>3. S \ {new} \subseteq Nodes /\ root \in S \ {new}
    BY <1>1, <1>2, <1>4, <2>1, NewRootEffect
  <2>4. S \ {new} = Nodes
    BY <1>1, <2>2, <2>3 DEF NoPointLost
  <2>5. QED
    BY <1>1, <1>2, <1>4, <2>4, NewRootEffect
<1>5. ASSUME NEW v \in Vectors, Insert(v), root = 0 PROVE S = Nodes'
  BY <1>1, <1>2, <1>5, FirstEffect
<1>6. CASE (\E v \in Vectors : Insert(v) /\ root # 0) \/ Descend \/ Rise \/ UNCHANGED vars
  <2>1. S \subseteq Nodes /\ root \in S /\ \A n \in S : Kids(n) \subseteq S
    BY <1>1, <1>2, <1>6, QuietEffect DEF Kids
  <2>2. QED
    BY <1>1, <1>6, <2>1, QuietEffect DEF NoPointLost
<1>7. QED
  BY <1>3, <1>4, <1>5, <1>6 DEF Next, Turn

\* No step gives a node a second place.  A point that is linked has had none,
\* nor has a root that gets one.
LEMMA StepOneParent ==
  ASSUME Inv, [Next]_vars
  PROVE  OneParent'
<1>1. /\ TypeOK
      /\ \A m \in Nodes : \A i \in DOMAIN kids[m] : kids[m][i] \in Nodes \ {root}
      /\ \A m, n \in Nodes : \A i \in DOMAIN kids[m], j \in DOMAIN kids[n] :
           kids[m][i] = kids[n][j] => m = n /\ i = j
  BY DEF Inv, OneParent, Kids
<1> DEFINE Shape ==
        /\ \A m, n \in Nodes' : \A i \in DOMAIN kids'[m], j \in DOMAIN kids'[n] :
             kids'[m][i] = kids'[n][j] => m = n /\ i = j
        /\ \A m \in Nodes' : \A i \in DOMAIN kids'[m] : kids'[m][i] \in Nodes' \ {root'}
<1>2. SUFFICES Shape
  BY DEF OneParent, Kids
<1>3. CASE Attach
  <2>1. new \in Points /\ node \in Points /\ kids[node] \in Seq(Points) /\ root \in Nodes
    BY <1>1, <1>3, Inserting, Family DEF Attach, CloseBy
  <2>2. /\ DOMAIN kids'[node] = DOMAIN kids[node] \cup {Len(kids[node]) + 1}
        /\ Len(kids[node]) + 1 \notin DOMAIN kids[node]
        /\ \A i \in DOMAIN kids[node] : kids'[node][i] = kids[node][i]
        /\ kids'[node][Len(kids[node]) + 1] = new
    BY <1>1, <1>3, <2>1, AttachEffect, AppendProperties
  <2>3. ASSUME NEW m \in Nodes', NEW i \in DOMAIN kids'[m]
        PROVE  \/ m \in Nodes /\ i \in DOMAIN kids[m] /\ kids'[m][i] = kids[m][i]
               \/ m = node /\ i = Len(kids[node]) + 1 /\ kids'[m][i] = new
    BY <1>1, <1>3, <2>2, <2>3, AttachEffect
  <2>4. QED
    BY <1>1, <1>3, <2>1, <2>3, AttachEffect
<1>4. CASE NewRoot
  <2>1. ASSUME NEW m \in Nodes', NEW i \in DOMAIN kids'[m]
        PROVE  \/ m \in Nodes /\ i \in DOMAIN kids[m] /\ kids'[m][i] = kids[m][i]
               \/ m = new /\ i = 1 /\ kids'[m][i] = root
    BY <1>1, <1>4, <2>1, NewRootEffect
  <2>2. QED
    BY <1>1, <1>4, <2>1, NewRootEffect
<1>5. ASSUME NEW v \in Vectors, Insert(v), root = 0 PROVE Shape
  BY <1>1, <1>5, FirstEffect
<1>6. CASE (\E v \in Vectors : Insert(v) /\ root # 0) \/ Descend \/ Rise \/ UNCHANGED vars
  BY <1>1, <1>6, QuietEffect
<1>7. QED
  <2>1. ASSUME NEW v \in Vectors, Insert(v) PROVE Shape
    BY <1>5, <1>6, <2>1
  <2>2. QED
    BY <1>3, <1>4, <1>6, <2>1 DEF Next, Turn

-----------------------------------------------------------------------------
\* insert keeps a well-formed tree of all the points there are, for any
\* vectors, distance and base: the inductive invariant.
THEOREM Invariance == Spec => []Inv
<1>1. Inv /\ [Next]_vars => Inv'
  BY StepTypeOK, StepNoPointLost, StepOneParent DEF Inv
<1>2. QED
  BY InitInv, <1>1, PTL DEF Spec

\* The tree and the loop of insert stay well formed.
THEOREM TypeCorrect == Spec => []TypeOK
<1>1. Inv => TypeOK
  BY DEF Inv
<1>2. QED
  BY <1>1, Invariance, PTL

\* Whatever roots insert puts above each other, every point can be reached
\* from the root: a search that prunes nothing meets all of them.
THEOREM EveryPointReached == Spec => []NoPointLost
<1>1. Inv => NoPointLost
  BY DEF Inv
<1>2. QED
  BY <1>1, Invariance, PTL

\* insert never puts a point in two places, nor the root below another node.
THEOREM TreeShape == Spec => []OneParent
<1>1. Inv => OneParent
  BY DEF Inv
<1>2. QED
  BY <1>1, Invariance, PTL

-----------------------------------------------------------------------------
(* Least and greatest.                                                     *)

\* A set of natural numbers has a least one.
LEMMA Least ==
  ASSUME NEW T \in SUBSET Nat, T # {}
  PROVE  \E x \in T : \A y \in T : x <= y
<1>1. PICK x \in T : \A y \in T : ~(<<y, x>> \in OpToRel(<, Nat))
  BY NatLessThanWellFounded, WFMin, Zenon
<1>2. ASSUME NEW y \in T PROVE x <= y
  <2>1. <<y, x>> \in OpToRel(<, Nat) <=> y < x
    BY DEF OpToRel
  <2>2. ~(y < x)
    BY <1>1, <2>1
  <2>3. QED
    BY <2>2
<1>3. QED
  BY <1>2

\* Among finitely many whole numbers there is a greatest.
LEMMA Greatest ==
  ASSUME NEW n \in Nat, NEW f,
         NEW S \in SUBSET (1 .. n), S # {}, \A i \in S : f[i] \in Int
  PROVE  \E i \in S : \A j \in S : f[j] <= f[i]
<1> DEFINE Has(R) == \E i \in R : \A j \in R : f[j] <= f[i]
           T == {m \in Nat : \E R \in SUBSET S : R \subseteq 1 .. m /\ R # {} /\ ~Has(R)}
<1>1. SUFFICES ASSUME ~Has(S) PROVE FALSE
  OBVIOUS
<1>2. n \in T
  BY <1>1
<1>3. PICK m \in T : \A l \in T : m <= l
  <2> HIDE DEF T
  <2>1. T \subseteq Nat
    BY DEF T
  <2>2. QED
    BY <1>2, <2>1, Least
<1>4. PICK R \in SUBSET S : R \subseteq 1 .. m /\ R # {} /\ ~Has(R)
  BY DEF T
<1>5. R \ {m} # {}
  BY <1>4
<1>6. m - 1 \in Nat /\ m - 1 \notin T /\ R \ {m} \subseteq 1 .. (m - 1)
  <2>1. m \in Nat /\ m # 0
    <3>1. PICK i \in R : i \in 1 .. m
      BY <1>4
    <3>2. QED
      BY <3>1
  <2>2. m - 1 \in Nat /\ ~(m <= m - 1)
    BY <2>1
  <2>3. m - 1 \notin T
    <3> HIDE DEF T
    <3>1. QED
      BY <1>3, <2>2
  <2>4. R \ {m} \subseteq 1 .. (m - 1)
    BY <1>4, <2>1
  <2>5. QED
    BY <2>2, <2>3, <2>4
<1>7. Has(R \ {m})
  BY <1>5, <1>6
<1>8. PICK i \in R \ {m} : \A j \in R \ {m} : f[j] <= f[i]
  BY <1>7
<1>9. f[i] \in Int /\ (m \in R => f[m] \in Int) /\ \A j \in R : f[j] \in Int
  OBVIOUS
<1>10. CASE m \in R /\ f[i] <= f[m]
  <2>1. \A j \in R : f[j] <= f[m]
    BY <1>8, <1>9, <1>10
  <2>2. QED
    BY <1>4, <1>10, <2>1
<1>11. CASE ~(m \in R /\ f[i] <= f[m])
  <2>1. \A j \in R : f[j] <= f[i]
    BY <1>8, <1>9, <1>11
  <2>2. QED
    BY <1>4, <1>8, <2>1
<1>12. QED
  BY <1>10, <1>11

\* The maximum of finitely many whole numbers is one of them, and none is above it.
LEMMA MaxOf ==
  ASSUME NEW n \in Nat, NEW f,
         NEW S \in SUBSET (1 .. n), S # {}, \A i \in S : f[i] \in Int
  PROVE  /\ \E i \in S : Max({f[j] : j \in S}) = f[i]
         /\ \A j \in S : f[j] <= Max({f[i] : i \in S})
<1>1. PICK g \in S : \A j \in S : f[j] <= f[g]
  BY Greatest
<1> DEFINE M == {f[j] : j \in S}
<1>2. f[g] \in M /\ \A y \in M : f[g] >= y
  BY <1>1
<1>3. Max(M) \in M /\ \A y \in M : Max(M) >= y
  BY <1>2 DEF Max
<1>4. QED
  BY <1>3

-----------------------------------------------------------------------------
(* Recursion.                                                              *)

\* Among things that are ranked there is one of the lowest rank.
LEMMA Lowest ==
  ASSUME NEW N, NEW rank \in [N -> Nat], NEW B \in SUBSET N, B # {}
  PROVE  \E n \in B : \A m \in B : ~(rank[m] < rank[n])
<1> DEFINE T == {rank[n] : n \in B}
<1>1. T \in SUBSET Nat /\ T # {}
  OBVIOUS
<1>2. PICK x \in T : \A y \in T : x <= y
  <2> HIDE DEF T
  <2>1. QED
    BY <1>1, Least
<1>3. PICK n \in B : rank[n] = x
  OBVIOUS
<1>4. ASSUME NEW m \in B PROVE ~(rank[m] < rank[n])
  <2>1. rank[m] \in T /\ rank[m] \in Nat /\ rank[n] \in Nat
    OBVIOUS
  <2>2. x <= rank[m]
    BY <1>2, <2>1
  <2>3. QED
    BY <1>3, <2>1, <2>2
<1>5. QED
  BY <1>4

\* F, which takes n and a function on N, looks that function up in lower ranks only.
Founded(F, N, S, rank) ==
  /\ \A n \in N, f \in [N -> S] : F[<<n, f>>] \in S
  /\ \A n \in N, f, g \in [N -> S] :
       (\A m \in N : rank[m] < rank[n] => f[m] = g[m]) => F[<<n, f>>] = F[<<n, g>>]

Solved(F, N, S) == \E f \in [N -> S] : \A n \in N : f[n] = F[<<n, f>>]

\* What refers to lower ranks only is defined by recursion.
LEMMA Recursion ==
  ASSUME NEW N, NEW S, S # {}, NEW top \in Nat,
         NEW rank \in [N -> Nat], \A n \in N : rank[n] < top,
         NEW F, Founded(F, N, S, rank)
  PROVE  Solved(F, N, S)
<1>0. /\ \A n \in N, f \in [N -> S] : F[<<n, f>>] \in S
      /\ \A n \in N, f, g \in [N -> S] :
           (\A m \in N : rank[m] < rank[n] => f[m] = g[m]) => F[<<n, f>>] = F[<<n, g>>]
  BY DEF Founded
<1> DEFINE Has(m) == \E f \in [N -> S] : \A n \in N : rank[n] < m => f[n] = F[<<n, f>>]
           T == {m \in Nat : ~Has(m)}
<1>1. T = {}
  <2>1. SUFFICES ASSUME T # {} PROVE FALSE
    OBVIOUS
  <2>2. PICK m \in T : \A l \in T : m <= l
    <3>1. T \subseteq Nat
      OBVIOUS
    <3> HIDE DEF T
    <3>2. QED
      BY <2>1, <3>1, Least
  <2>3. m \in Nat /\ ~Has(m)
    OBVIOUS
  <2>4. m # 0
    <3>1. PICK d \in S : TRUE
      OBVIOUS
    <3>2. [n \in N |-> d] \in [N -> S] /\ \A n \in N : ~(rank[n] < 0)
      OBVIOUS
    <3>3. Has(0)
      BY <3>2
    <3>4. QED
      BY <2>3, <3>3
  <2>5. m - 1 \in Nat /\ m - 1 \notin T
    <3>1. m - 1 \in Nat /\ ~(m <= m - 1)
      BY <2>3, <2>4
    <3> HIDE DEF T
    <3>2. QED
      BY <2>2, <3>1
  <2>6. PICK f \in [N -> S] : \A n \in N : rank[n] < m - 1 => f[n] = F[<<n, f>>]
    BY <2>5
  <2> DEFINE g == [n \in N |-> F[<<n, f>>]]
  <2>7. g \in [N -> S]
    BY <1>0
  <2>8. ASSUME NEW n \in N, rank[n] < m PROVE g[n] = F[<<n, g>>]
    <3>1. g[n] = F[<<n, f>>]
      OBVIOUS
    <3>2. ASSUME NEW l \in N, rank[l] < rank[n] PROVE f[l] = g[l]
      <4>1. rank[l] \in Nat /\ rank[n] \in Nat /\ rank[l] < m - 1
        BY <2>3, <2>8, <3>2
      <4>2. QED
        BY <2>6, <4>1
    <3> HIDE DEF g
    <3>3. F[<<n, f>>] = F[<<n, g>>]
      BY <1>0, <2>7, <3>2
    <3>4. QED
      BY <3>1, <3>3
  <2>9. Has(m)
    <3> HIDE DEF g
    <3>1. QED
      BY <2>7, <2>8
  <2>10. QED
    BY <2>3, <2>9
<1>2. Has(top)
  BY <1>1
<1>3. QED
  BY <1>2 DEF Solved

-----------------------------------------------------------------------------
(* The tree has no cycles, so that the radius of every subtree is defined. *)

\* Every node is of a higher rank than its children.
Ranked ==
  \E rank \in [Nodes -> Nat] : \A n \in Nodes : \A c \in Kids(n) : rank[c] < rank[n]

\* No step makes a cycle: the point that is linked goes below all, or above.
LEMMA StepRanked ==
  ASSUME Inv, Ranked, [Next]_vars
  PROVE  Ranked'
<1>1. /\ TypeOK
      /\ \A n \in Nodes : Kids(n) \subseteq Nodes
  BY DEF Inv, OneParent
<1>2. PICK rank \in [Nodes -> Nat] : \A n \in Nodes : \A c \in Kids(n) : rank[c] < rank[n]
  BY DEF Ranked
<1>3. CASE Attach
  <2>1. new \in Points /\ node \in Points
    BY <1>1, <1>3, Inserting, Family DEF Attach, CloseBy
  <2>2. \A n \in Points : n = node => Kids(n)' = Kids(n) \cup {new}
    BY <1>1, <1>3, <2>1, AttachEffect, KidsOfAppend
  <2>3. \A n \in Nodes \ {node} : Kids(n)' = Kids(n)
    BY <1>1, <1>3, AttachEffect DEF Kids
  <2>4. \A n : n = new => Kids(n)' = {}
    BY <1>1, <1>3, AttachEffect DEF Kids
  <2> DEFINE r == [n \in Nodes' |-> IF n = new THEN 0 ELSE rank[n] + 1]
  <2>5. r \in [Nodes' -> Nat]
    BY <1>1, <1>3, AttachEffect
  <2>6. ASSUME NEW n \in Nodes', NEW c \in Kids(n)' PROVE r[c] < r[n]
    <3>1. n \in Nodes /\ c \in Kids(n) \cup {new}
      BY <1>1, <1>3, <2>1, <2>2, <2>3, <2>4, <2>6, AttachEffect
    <3>2. QED
      BY <1>1, <1>2, <1>3, <3>1, AttachEffect
  <2>7. QED
    BY <2>5, <2>6 DEF Ranked
<1>4. CASE NewRoot
  <2>1. \A n : n = new => Kids(n)' = {root}
    BY <1>1, <1>4, NewRootEffect DEF Kids
  <2>2. \A n \in Nodes : Kids(n)' = Kids(n)
    BY <1>1, <1>4, NewRootEffect DEF Kids
  <2> DEFINE r == [n \in Nodes' |-> IF n = new THEN rank[root] + 1 ELSE rank[n]]
  <2>3. r \in [Nodes' -> Nat]
    BY <1>1, <1>4, NewRootEffect
  <2>4. ASSUME NEW n \in Nodes', NEW c \in Kids(n)' PROVE r[c] < r[n]
    BY <1>1, <1>2, <1>4, <2>1, <2>2, <2>4, NewRootEffect
  <2>5. QED
    BY <2>3, <2>4 DEF Ranked
<1>5. ASSUME NEW v \in Vectors, Insert(v), root = 0 PROVE Ranked'
  <2>1. Nodes' = {1} /\ \A n : n = 1 => Kids(n)' = {}
    BY <1>1, <1>5, FirstEffect DEF Kids
  <2>2. [n \in Nodes' |-> 0] \in [Nodes' -> Nat]
    OBVIOUS
  <2>3. QED
    BY <2>1, <2>2 DEF Ranked
<1>6. CASE (\E v \in Vectors : Insert(v) /\ root # 0) \/ Descend \/ Rise \/ UNCHANGED vars
  <2>1. Nodes' = Nodes /\ \A n \in Nodes : Kids(n)' = Kids(n)
    BY <1>1, <1>6, QuietEffect DEF Kids
  <2>2. QED
    BY <1>2, <2>1 DEF Ranked
<1>7. QED
  BY <1>3, <1>4, <1>5, <1>6 DEF Next, Turn

\* The radius of a subtree as a function of the radii below it.
RadiusOf(n, r) ==
  IF kids[n] = <<>> THEN 0
  ELSE Max({Distance(at[n], at[c]) + r[c] : c \in Kids(n)})

\* Nodes are finitely many, and each holds a vector and has nodes for children.
LEMMA Places ==
  ASSUME Inv
  PROVE  /\ Len(at) \in Nat /\ Nodes \subseteq 1 .. Len(at) /\ IsFiniteSet(Nodes)
         /\ \A n \in Nodes : at[n] \in Vectors /\ Kids(n) \subseteq Nodes
         /\ \A n \in Nodes : kids[n] = <<>> <=> Kids(n) = {}
<1>1. TypeOK /\ \A n \in Nodes : Kids(n) \subseteq Nodes
  BY DEF Inv, OneParent
<1>2. at \in Seq(Vectors) /\ Len(at) \in Nat
  BY <1>1 DEF TypeOK
<1>3. Nodes \subseteq 1 .. Len(at)
  BY DEF Nodes, Points
<1>4. IsFiniteSet(Nodes)
  <2>1. IsFiniteSet(1 .. Len(at))
    BY <1>2, FS_Interval
  <2>2. QED
    BY <1>3, <2>1, FS_Subset
<1>5. \A n \in Nodes : at[n] \in Vectors
  BY <1>2, <1>3, ElementOfSeq
<1>6. ASSUME NEW n \in Nodes PROVE kids[n] = <<>> <=> Kids(n) = {}
  <2>1. kids[n] \in Seq(Points)
    BY <1>1, Family
  <2>2. kids[n] = <<>> <=> Len(kids[n]) = 0
    BY <2>1, EmptySeq
  <2>3. DOMAIN kids[n] = 1 .. Len(kids[n]) /\ Len(kids[n]) \in Nat
    BY <2>1
  <2>4. CASE Len(kids[n]) = 0
    BY <2>2, <2>3, <2>4 DEF Kids
  <2>5. CASE Len(kids[n]) # 0
    <3>1. 1 \in DOMAIN kids[n]
      BY <2>3, <2>5
    <3>2. QED
      BY <2>2, <2>5, <3>1 DEF Kids
  <2>6. QED
    BY <2>4, <2>5
<1>7. QED
  BY <1>1, <1>2, <1>3, <1>4, <1>5, <1>6

\* Ranks are bounded, nodes being finitely many.
LEMMA RankBounded ==
  ASSUME Inv, Ranked
  PROVE  \E rank \in [Nodes -> Nat] :
           /\ \A n \in Nodes : \A c \in Kids(n) : rank[c] < rank[n]
           /\ \E top \in Nat : \A n \in Nodes : rank[n] < top
<1>1. PICK rank \in [Nodes -> Nat] : \A n \in Nodes : \A c \in Kids(n) : rank[c] < rank[n]
  BY DEF Ranked
<1>2. PICK top \in Nat : \A n \in Nodes : rank[n] < top
  <2>1. CASE Nodes = {}
    <3>1. 0 \in Nat /\ \A n \in Nodes : rank[n] < 0
      BY <2>1
    <3>2. QED
      BY <3>1
  <2>2. CASE Nodes # {}
    <3>1. PICK i \in Nodes : \A j \in Nodes : rank[j] <= rank[i]
      <4>1. \A j \in Nodes : rank[j] \in Int
        OBVIOUS
      <4>2. Nodes \in SUBSET (1 .. Len(at)) /\ Len(at) \in Nat
        BY Places
      <4>3. QED
        BY <2>2, <4>1, <4>2, Greatest
    <3>2. rank[i] + 1 \in Nat /\ \A j \in Nodes : rank[j] < rank[i] + 1
      BY <3>1
    <3>3. QED
      BY <3>2
  <2>3. QED
    BY <2>1, <2>2
<1>3. QED
  BY <1>1, <1>2

\* It is a whole number, and takes in every child.
LEMMA RadiusOfKids ==
  ASSUME Inv, NEW n \in Nodes, NEW r, \A c \in Kids(n) : r[c] \in Nat
  PROVE  /\ RadiusOf(n, r) \in Nat
         /\ \A c \in Kids(n) : Distance(at[n], at[c]) + r[c] <= RadiusOf(n, r)
<1>1. CASE Kids(n) = {}
  BY <1>1, Places DEF RadiusOf
<1>2. CASE Kids(n) # {}
  <2> DEFINE f == [c \in Kids(n) |-> Distance(at[n], at[c]) + r[c]]
             M == {Distance(at[n], at[c]) + r[c] : c \in Kids(n)}
  <2>1. \A c \in Kids(n) : f[c] \in Nat
    BY Places, DistanceAssumption
  <2>2. Kids(n) \in SUBSET (1 .. Len(at)) /\ Len(at) \in Nat
    BY Places
  <2>3. M = {f[c] : c \in Kids(n)}
    OBVIOUS
  <2>4. RadiusOf(n, r) = Max(M)
    BY <1>2, Places DEF RadiusOf
  <2>5. /\ \E c \in Kids(n) : Max({f[j] : j \in Kids(n)}) = f[c]
        /\ \A c \in Kids(n) : f[c] <= Max({f[j] : j \in Kids(n)})
    <3>1. \A c \in Kids(n) : f[c] \in Int
      BY <2>1
    <3> HIDE DEF f
    <3>2. QED
      BY <1>2, <2>2, <3>1, MaxOf
  <2>6. QED
    BY <2>1, <2>3, <2>4, <2>5
<1>3. QED
  BY <1>1, <1>2

\* ensureRadius ends, and what it returns is the radius of the subtree.
LEMMA RadiusDefined ==
  ASSUME Inv, Ranked
  PROVE  \A n \in Nodes : Radius[n] \in Nat /\ Radius[n] = RadiusOf(n, Radius)
<1>1. PICK rank \in [Nodes -> Nat] :
        /\ \A n \in Nodes : \A c \in Kids(n) : rank[c] < rank[n]
        /\ \E top \in Nat : \A n \in Nodes : rank[n] < top
  BY RankBounded
<1> DEFINE F == [x \in Nodes \X [Nodes -> Nat] |-> RadiusOf(x[1], x[2])]
<1>2. \A n \in Nodes, f \in [Nodes -> Nat] : F[<<n, f>>] = RadiusOf(n, f)
  OBVIOUS
<1> HIDE DEF F
<1>3. Founded(F, Nodes, Nat, rank)
  <2>1. ASSUME NEW n \in Nodes, NEW f \in [Nodes -> Nat] PROVE F[<<n, f>>] \in Nat
    <3>1. \A c \in Kids(n) : f[c] \in Nat
      BY Places
    <3>2. QED
      BY <1>2, <3>1, RadiusOfKids
  <2>2. ASSUME NEW n \in Nodes, NEW f \in [Nodes -> Nat], NEW g \in [Nodes -> Nat],
               \A m \in Nodes : rank[m] < rank[n] => f[m] = g[m]
        PROVE  F[<<n, f>>] = F[<<n, g>>]
    <3>1. \A c \in Kids(n) : f[c] = g[c]
      BY <1>1, <2>2, Places
    <3>2. {Distance(at[n], at[c]) + f[c] : c \in Kids(n)} = {Distance(at[n], at[c]) + g[c] : c \in Kids(n)}
      BY <3>1
    <3>3. QED
      BY <1>2, <3>2 DEF RadiusOf
  <2>3. QED
    BY <2>1, <2>2 DEF Founded
<1>4. PICK f \in [Nodes -> Nat] : \A n \in Nodes : f[n] = RadiusOf(n, f)
  <2>1. PICK top \in Nat : \A n \in Nodes : rank[n] < top
    BY <1>1
  <2>2. Solved(F, Nodes, Nat)
    BY <1>3, <2>1, Recursion
  <2>3. QED
    BY <1>2, <2>2 DEF Solved
<1>5. f = [n \in Nodes |-> RadiusOf(n, f)]
  BY <1>4
<1>6. Radius = [n \in Nodes |-> RadiusOf(n, Radius)]
  BY <1>5 DEF Radius, RadiusOf
<1>7. \A n \in Nodes : Radius[n] = RadiusOf(n, Radius)
  BY <1>6
<1> DEFINE B == {n \in Nodes : Radius[n] \notin Nat}
<1>8. ASSUME B # {} PROVE FALSE
  <2>1. PICK n \in B : \A m \in B : ~(rank[m] < rank[n])
    <3>1. B \in SUBSET Nodes
      OBVIOUS
    <3> HIDE DEF B
    <3>2. QED
      BY <1>8, <3>1, Lowest
  <2>2. ASSUME NEW c \in Kids(n) PROVE Radius[c] \in Nat
    <3>1. c \in Nodes /\ rank[c] < rank[n]
      BY <1>1, Places
    <3>2. c \notin B
      <4> HIDE DEF B
      <4>1. QED
        BY <2>1, <3>1
    <3>3. QED
      BY <3>1, <3>2
  <2>3. QED
    BY <1>7, <2>2, RadiusOfKids
<1>9. QED
  BY <1>7, <1>8

-----------------------------------------------------------------------------
(* Subtrees.                                                               *)

\* A subtree is the smallest set with its node that is closed under children.
LEMMA BelowClosed ==
  ASSUME Inv, NEW n \in Nodes
  PROVE  /\ n \in Subtree(n) /\ Closed(Subtree(n)) /\ Subtree(n) \subseteq Nodes
         /\ \A S \in SUBSET Nodes : n \in S /\ Closed(S) => Subtree(n) \subseteq S
BY Places DEF Subtree, Closed

\* The subtree of a node is the node and the subtrees of its children.
LEMMA BelowKids ==
  ASSUME Inv, NEW n \in Nodes
  PROVE  /\ \A c \in Kids(n) : Subtree(c) \subseteq Subtree(n)
         /\ \A m \in Subtree(n) : m = n \/ \E c \in Kids(n) : m \in Subtree(c)
<1>1. \A c \in Kids(n) : Subtree(c) \subseteq Subtree(n)
  <2>1. Subtree(n) \in SUBSET Nodes /\ Closed(Subtree(n)) /\ Kids(n) \subseteq Subtree(n)
    BY BelowClosed DEF Closed
  <2>2. QED
    BY <2>1, BelowClosed
<1>2. \A m \in Subtree(n) : m = n \/ \E c \in Kids(n) : m \in Subtree(c)
  <2> DEFINE S == {m \in Nodes : m = n \/ \E c \in Kids(n) : m \in Subtree(c)}
  <2>1. ASSUME NEW m \in S, NEW x \in Kids(m) PROVE x \in S
    <3>1. x \in Nodes
      BY <2>1, Places
    <3>2. CASE m = n
      BY <2>1, <3>1, <3>2, BelowClosed
    <3>3. ASSUME NEW c \in Kids(n), m \in Subtree(c) PROVE x \in S
      <4>1. c \in Nodes
        BY Places
      <4>2. x \in Subtree(c)
        BY <2>1, <3>3, <4>1, BelowClosed DEF Closed
      <4>3. QED
        BY <3>1, <4>2
    <3>4. QED
      BY <3>2, <3>3
  <2>2. S \in SUBSET Nodes /\ n \in S /\ Closed(S)
    <3>1. Closed(S)
      <4> HIDE DEF S
      <4>1. QED
        BY <2>1 DEF Closed
    <3>2. QED
      BY <3>1
  <2>3. Subtree(n) \subseteq S
    <3> HIDE DEF S
    <3>1. QED
      BY <2>2, BelowClosed
  <2>4. QED
    BY <2>3
<1>3. QED
  BY <1>1, <1>2

\* Whatever is below a node is the node or has its parent below it.
LEMMA BelowParent ==
  ASSUME Inv, NEW n \in Nodes, NEW m \in Subtree(n), m # n
  PROVE  \E p \in Subtree(n) : m \in Kids(p)
<1> DEFINE S == {x \in Subtree(n) : x = n \/ \E p \in Subtree(n) : x \in Kids(p)}
<1>1. S \in SUBSET Nodes /\ n \in S
  BY BelowClosed
<1>2. ASSUME NEW x \in S, NEW c \in Kids(x) PROVE c \in S
  BY <1>2, BelowClosed DEF Closed
<1>3. Closed(S)
  <2> HIDE DEF S
  <2>1. QED
    BY <1>2 DEF Closed
<1>4. Subtree(n) \subseteq S
  <2> HIDE DEF S
  <2>1. QED
    BY <1>1, <1>3, BelowClosed
<1>5. QED
  BY <1>4

\* No node is the child of two.
LEMMA SameParent ==
  ASSUME Inv, NEW m \in Nodes, NEW n \in Nodes, NEW c \in Kids(m), c \in Kids(n)
  PROVE  m = n
BY DEF Inv, OneParent, Kids

\* No node is below a child of its own.
LEMMA NotBelowKid ==
  ASSUME Inv, Ranked, NEW n \in Nodes, NEW c \in Kids(n)
  PROVE  n \notin Subtree(c)
<1>1. PICK rank \in [Nodes -> Nat] : \A i \in Nodes : \A j \in Kids(i) : rank[j] < rank[i]
  BY DEF Ranked
<1>2. c \in Nodes
  BY Places
<1> DEFINE S == {m \in Nodes : rank[m] <= rank[c]}
<1>3. ASSUME NEW m \in S, NEW x \in Kids(m) PROVE x \in S
  <2>1. x \in Nodes /\ rank[x] < rank[m]
    BY <1>1, <1>3, Places
  <2>2. QED
    BY <1>2, <2>1
<1>4. S \in SUBSET Nodes /\ c \in S
  BY <1>2
<1>5. Closed(S)
  <2> HIDE DEF S
  <2>1. QED
    BY <1>3 DEF Closed
<1>6. Subtree(c) \subseteq S
  <2> HIDE DEF S
  <2>1. QED
    BY <1>2, <1>4, <1>5, BelowClosed
<1>7. rank[c] < rank[n]
  BY <1>1
<1>8. QED
  BY <1>2, <1>6, <1>7

\* The subtrees of two children have nothing in common.
LEMMA SiblingsApart ==
  ASSUME Inv, Ranked, NEW n \in Nodes, NEW c \in Kids(n), NEW d \in Kids(n), c # d
  PROVE  Subtree(c) \cap Subtree(d) = {}
<1>1. c \in Nodes /\ d \in Nodes
  BY Places
<1>2. ASSUME NEW x \in Kids(n), NEW y \in Kids(n), x # y PROVE x \notin Subtree(y)
  <2>1. SUFFICES ASSUME x \in Subtree(y) PROVE FALSE
    OBVIOUS
  <2>2. y \in Nodes
    BY Places
  <2>3. PICK p \in Subtree(y) : x \in Kids(p)
    BY <1>2, <2>1, <2>2, BelowParent
  <2>4. p \in Nodes
    BY DEF Subtree
  <2>5. p = n
    BY <2>3, <2>4, SameParent
  <2>6. QED
    BY <2>5, NotBelowKid
<1> DEFINE S == Subtree(c) \ Subtree(d)
<1>3. ASSUME NEW m \in S, NEW x \in Kids(m) PROVE x \in S
  <2>1. m \in Nodes /\ x \in Subtree(c)
    BY <1>1, <1>3, BelowClosed DEF Closed
  <2>2. ASSUME x \in Subtree(d) PROVE FALSE
    <3>1. x # d
      BY <1>2, <2>1
    <3>2. PICK p \in Subtree(d) : x \in Kids(p)
      BY <1>1, <2>2, <3>1, BelowParent
    <3>3. p \in Nodes
      BY DEF Subtree
    <3>4. QED
      BY <1>3, <2>1, <3>2, <3>3, SameParent
  <2>3. QED
    BY <2>1, <2>2
<1>4. S \in SUBSET Nodes /\ c \in S
  BY <1>1, <1>2, BelowClosed
<1>5. Closed(S)
  <2> HIDE DEF S
  <2>1. QED
    BY <1>3 DEF Closed
<1>6. Subtree(c) \subseteq S
  <2> HIDE DEF S
  <2>1. QED
    BY <1>1, <1>4, <1>5, BelowClosed
<1>7. QED
  BY <1>6

\* Everything is below the root.
LEMMA AllBelowRoot ==
  ASSUME Inv, root \in Nodes
  PROVE  \A n \in Nodes : n \in Subtree(root)
BY DEF Inv, NoPointLost, Subtree, Closed

\* The distance function is a metric.
Metric ==
  \A x, y, z \in Vectors :
    /\ Distance(x, x) = 0
    /\ Distance(x, y) = Distance(y, x)
    /\ Distance(x, z) <= Distance(x, y) + Distance(y, z)

\* What a metric makes of the radius: no point of the subtree is farther away.
LEMMA RadiusCovers ==
  ASSUME Inv, Ranked, Metric, NEW n \in Nodes, NEW m \in Subtree(n)
  PROVE  Distance(at[n], at[m]) <= Radius[n]
<1>1. \A i \in Nodes : /\ Radius[i] \in Nat /\ at[i] \in Vectors /\ Kids(i) \subseteq Nodes
                      /\ \A c \in Kids(i) : Distance(at[i], at[c]) + Radius[c] <= Radius[i]
  BY RadiusDefined, RadiusOfKids, Places
<1> DEFINE S == {i \in Nodes : Distance(at[n], at[i]) + Radius[i] <= Radius[n]}
<1>2. ASSUME NEW i \in S, NEW c \in Kids(i) PROVE c \in S
  <2>1. i \in Nodes /\ c \in Nodes /\ Distance(at[n], at[i]) + Radius[i] <= Radius[n]
    BY <1>1
  <2>2. Distance(at[i], at[c]) + Radius[c] <= Radius[i]
    BY <1>1, <2>1
  <2>3. Distance(at[n], at[c]) <= Distance(at[n], at[i]) + Distance(at[i], at[c])
    BY <1>1, <2>1 DEF Metric
  <2>4. /\ Distance(at[n], at[c]) \in Nat /\ Distance(at[n], at[i]) \in Nat
        /\ Distance(at[i], at[c]) \in Nat
        /\ Radius[i] \in Nat /\ Radius[c] \in Nat /\ Radius[n] \in Nat
    BY <1>1, <2>1, DistanceAssumption
  <2>5. Distance(at[n], at[c]) + Radius[c] <= Radius[n]
    BY <2>1, <2>2, <2>3, <2>4
  <2>6. QED
    BY <2>1, <2>5
<1>3. S \in SUBSET Nodes /\ n \in S
  BY <1>1 DEF Metric
<1>4. Closed(S)
  <2> HIDE DEF S
  <2>1. QED
    BY <1>2 DEF Closed
<1>5. m \in S
  <2> HIDE DEF S
  <2>1. QED
    BY <1>3, <1>4, BelowClosed
<1>6. m \in Nodes
  BY DEF Subtree
<1>7. QED
  BY <1>1, <1>5, <1>6, DistanceAssumption

-----------------------------------------------------------------------------
(* Sequences laid out one after another, as FlattenSeq does.               *)

\* flatten, the recursive function of FlattenSeq, joins one sequence after another.
Joins(flat, seqs) ==
  \A i \in 1 .. Len(seqs) : flat[i] = IF i = 1 THEN seqs[i] ELSE flat[i - 1] \o seqs[i]

\* FlattenSeq is the last of what its recursive function joins.
LEMMA FlattenJoins ==
  ASSUME NEW H, NEW seqs \in Seq(Seq(H)), Len(seqs) # 0
  PROVE  \E flat \in [1 .. Len(seqs) -> Seq(H)] :
           Joins(flat, seqs) /\ FlattenSeq(seqs) = flat[Len(seqs)]
<1> DEFINE L == Len(seqs)
           N == 1 .. L
           S == Seq(H)
           Of(i, f) == IF i = 1 THEN seqs[i] ELSE f[i - 1] \o seqs[i]
           rank == [i \in N |-> i]
           F == [x \in N \X [N -> S] |-> Of(x[1], x[2])]
<1>1. L \in Nat /\ \A i \in N : seqs[i] \in S
  OBVIOUS
<1>2. /\ <<>> \in S /\ L + 1 \in Nat
      /\ rank \in [N -> Nat] /\ \A i \in N : rank[i] = i /\ rank[i] < L + 1
  BY <1>1
<1>3. \A i \in N, f \in [N -> S] : F[<<i, f>>] = Of(i, f)
  OBVIOUS
<1>4. ASSUME NEW i \in N, NEW f \in [N -> S] PROVE Of(i, f) \in S
  <2>1. CASE i = 1
    BY <1>1, <2>1
  <2>2. CASE i # 1
    <3>1. i - 1 \in N
      BY <1>1, <2>2
    <3>2. f[i - 1] \in S /\ seqs[i] \in S
      <4> HIDE DEF N, S
      <4>1. QED
        BY <1>1, <3>1
    <3>3. QED
      BY <2>2, <3>2, ConcatProperties
  <2>3. QED
    BY <2>1, <2>2
<1>5. ASSUME NEW i \in N, NEW f \in [N -> S], NEW g \in [N -> S],
             \A m \in N : m < i => f[m] = g[m]
      PROVE  Of(i, f) = Of(i, g)
  <2>1. CASE i = 1
    BY <2>1
  <2>2. CASE i # 1
    <3>1. i - 1 \in N /\ i - 1 < i
      BY <1>1, <2>2
    <3>2. QED
      BY <1>5, <3>1
  <2>3. QED
    BY <2>1, <2>2
<1>6. PICK f \in [N -> S] : \A i \in N : f[i] = F[<<i, f>>]
  <2> HIDE DEF Of, F, rank, N, S, L
  <2>1. \A i \in N, f \in [N -> S] : F[<<i, f>>] \in S
    BY <1>3, <1>4
  <2>2. ASSUME NEW i \in N, NEW f \in [N -> S], NEW g \in [N -> S],
               \A m \in N : rank[m] < rank[i] => f[m] = g[m]
        PROVE  F[<<i, f>>] = F[<<i, g>>]
    <3>1. \A m \in N : m < i => f[m] = g[m]
      BY <1>2, <2>2
    <3>2. Of(i, f) = Of(i, g)
      BY <1>5, <3>1
    <3>3. QED
      BY <1>3, <3>2
  <2>3. \A i \in N : rank[i] < L + 1
    BY <1>2
  <2>4. Founded(F, N, S, rank)
    BY <2>1, <2>2 DEF Founded
  <2>5. Solved(F, N, S)
    BY <1>2, <2>3, <2>4, Recursion
  <2>6. QED
    BY <2>5 DEF Solved
<1>7. \A i \in N : f[i] = Of(i, f)
  BY <1>3, <1>6
<1> DEFINE fl == CHOOSE fl : fl = [i \in N |-> Of(i, fl)]
<1>8. f = [i \in N |-> Of(i, f)]
  <2> HIDE DEF Of
  <2>1. QED
    BY <1>7
<1>9. fl = [i \in N |-> Of(i, fl)]
  <2> HIDE DEF Of, N
  <2>1. QED
    BY <1>8
<1>10. FlattenSeq(seqs) = fl[L]
  BY DEF FlattenSeq
<1> HIDE DEF fl
<1>11. \A i \in N : fl[i] = Of(i, fl)
  <2> HIDE DEF Of
  <2>1. QED
    BY <1>9
<1>12. \A i \in N : fl[i] \in S
  <2> DEFINE B == {i \in N : fl[i] \notin S}
  <2>1. SUFFICES ASSUME B # {} PROVE FALSE
    OBVIOUS
  <2>2. B \in SUBSET Nat
    OBVIOUS
  <2>3. PICK i \in B : \A j \in B : i <= j
    <3> HIDE DEF B
    <3>1. QED
      BY <2>1, <2>2, Least
  <2>4. i \in N /\ fl[i] \notin S /\ i # 1
    BY <1>1, <1>11
  <2>5. i - 1 \in N /\ ~(i <= i - 1)
    BY <1>1, <2>4
  <2>6. fl[i - 1] \in S
    <3>1. i - 1 \notin B
      <4> HIDE DEF B
      <4>1. QED
        BY <2>3, <2>5
    <3>2. QED
      BY <2>5, <3>1
  <2>7. fl[i] = fl[i - 1] \o seqs[i] /\ seqs[i] \in S
    BY <1>1, <1>11, <2>4
  <2>8. QED
    BY <2>4, <2>6, <2>7, ConcatProperties
<1>13. DOMAIN fl = N
  BY <1>9
<1>14. fl \in [N -> S]
  <2> HIDE DEF N, S
  <2>1. fl = [i \in N |-> fl[i]]
    <3> HIDE DEF Of
    <3>1. QED
      BY <1>9, <1>11
  <2>2. QED
    BY <1>12, <2>1
<1>15. QED
  BY <1>10, <1>11, <1>14 DEF Joins

\* off[j] elements come before the (j+1)-th sequence.
Offsets(off, seqs) ==
  /\ off \in [0 .. Len(seqs) -> Nat]
  /\ off[0] = 0
  /\ \A j \in 1 .. Len(seqs) : off[j] = off[j - 1] + Len(seqs[j])

\* The first m sequences are laid out in t one after another.
Placed(t, off, seqs, m) ==
  /\ Len(t) = off[m]
  /\ \A j \in 1 .. m : \A p \in 1 .. Len(seqs[j]) :
       off[j - 1] + p \in 1 .. off[m] /\ t[off[j - 1] + p] = seqs[j][p]
  /\ \A x \in 1 .. off[m] : \E j \in 1 .. m : \E p \in 1 .. Len(seqs[j]) : x = off[j - 1] + p

\* Sequences have offsets.
LEMMA SomeOffsets ==
  ASSUME NEW H, NEW seqs \in Seq(Seq(H))
  PROVE  \E off : Offsets(off, seqs)
<1> DEFINE L == Len(seqs)
<1>1. L \in Nat /\ \A i \in 1 .. L : seqs[i] \in Seq(H)
  OBVIOUS
<1>2. CASE L = 0
  <2>1. [j \in 0 .. L |-> 0] \in [0 .. L -> Nat] /\ 0 \in 0 .. L /\ 1 .. L = {}
    BY <1>2
  <2>2. Offsets([j \in 0 .. L |-> 0], seqs)
    BY <2>1 DEF Offsets
  <2>3. QED
    BY <2>2
<1>3. CASE L # 0
  <2>1. PICK flat \in [1 .. L -> Seq(H)] : Joins(flat, seqs)
    BY <1>3, FlattenJoins
  <2> DEFINE off == [j \in 0 .. L |-> IF j = 0 THEN 0 ELSE Len(flat[j])]
  <2>2. ASSUME NEW j \in 1 .. L PROVE flat[j] \in Seq(H) /\ Len(flat[j]) \in Nat
    <3> HIDE DEF L
    <3>1. flat[j] \in Seq(H)
      OBVIOUS
    <3>2. QED
      BY <3>1, LenProperties
  <2>3. ASSUME NEW j \in 0 .. L
        PROVE  off[j] = (IF j = 0 THEN 0 ELSE Len(flat[j])) /\ off[j] \in Nat
    <3>1. j = 0 \/ j \in 1 .. L
      BY <1>1
    <3>2. QED
      BY <2>2, <3>1
  <2>4. off \in [0 .. L -> Nat] /\ 0 \in 0 .. L
    <3> HIDE DEF L
    <3>1. off \in [0 .. L -> Nat]
      BY <2>3
    <3>2. QED
      BY <1>1, <3>1
  <2> HIDE DEF off
  <2>5. ASSUME NEW j \in 1 .. L PROVE off[j] = off[j - 1] + Len(seqs[j])
    <3>1. j \in 0 .. L /\ j # 0 /\ j - 1 \in 0 .. L /\ seqs[j] \in Seq(H)
      BY <1>1
    <3>2. off[j] = Len(flat[j])
      BY <2>3, <3>1
    <3>3. CASE j = 1
      <4>1. flat[j] = seqs[j]
        BY <2>1, <3>3 DEF Joins
      <4>2. j - 1 = 0 /\ Len(seqs[j]) \in Nat
        BY <3>1, <3>3, LenProperties
      <4>3. off[j - 1] = 0
        BY <2>3, <3>1, <4>2
      <4>4. QED
        BY <3>2, <4>1, <4>2, <4>3
    <3>4. CASE j # 1
      <4>1. j - 1 \in 1 .. L
        BY <1>1, <3>4
      <4>2. flat[j] = flat[j - 1] \o seqs[j]
        BY <2>1, <3>4 DEF Joins
      <4>3. off[j - 1] = Len(flat[j - 1])
        <5>1. j - 1 # 0
          BY <1>1, <3>4
        <5>2. QED
          BY <2>3, <3>1, <5>1
      <4>4. Len(flat[j - 1] \o seqs[j]) = Len(flat[j - 1]) + Len(seqs[j])
        BY <2>2, <3>1, <4>1, ConcatProperties
      <4>5. QED
        BY <3>2, <4>2, <4>3, <4>4
    <3>5. QED
      BY <3>3, <3>4
  <2>6. Offsets(off, seqs)
    BY <2>3, <2>4, <2>5 DEF Offsets
  <2>7. QED
    BY <2>6
<1>4. QED
  BY <1>2, <1>3

\* One more sequence at the end.
LEMMA PlaceNext ==
  ASSUME NEW H, NEW seqs \in Seq(Seq(H)), NEW off, Offsets(off, seqs),
         NEW m \in 1 .. Len(seqs), m - 1 # 0,
         NEW t \in Seq(H), Placed(t, off, seqs, m - 1)
  PROVE  Placed(t \o seqs[m], off, seqs, m)
<1> DEFINE u == t \o seqs[m]
           o == off[m - 1]
           l == Len(seqs[m])
<1>1. /\ m \in Nat /\ m - 1 \in Nat /\ m - 1 \in 0 .. Len(seqs) /\ m \in 0 .. Len(seqs)
      /\ seqs[m] \in Seq(H) /\ l \in Nat
  OBVIOUS
<1>2. o \in Nat /\ off[m] = o + l /\ Len(t) = o
  BY <1>1 DEF Offsets, Placed
<1>3. /\ Len(u) = o + l
      /\ \A i \in 1 .. (o + l) : u[i] = IF i <= o THEN t[i] ELSE seqs[m][i - o]
  <2>1. /\ Len(u) = Len(t) + l
        /\ \A i \in 1 .. (Len(t) + l) : u[i] = IF i <= Len(t) THEN t[i] ELSE seqs[m][i - Len(t)]
    BY <1>1, ConcatProperties
  <2> HIDE DEF u, o, l
  <2>2. QED
    BY <1>2, <2>1
<1> HIDE DEF u, o, l
<1>4. ASSUME NEW j \in 1 .. m, NEW p \in 1 .. Len(seqs[j])
      PROVE  off[j - 1] + p \in 1 .. off[m] /\ u[off[j - 1] + p] = seqs[j][p]
  <2>1. CASE j = m
    <3>1. o + p \in 1 .. (o + l) /\ ~(o + p <= o) /\ (o + p) - o = p
      BY <1>1, <1>2, <1>4, <2>1 DEF l
    <3>2. QED
      BY <1>2, <1>3, <2>1, <3>1 DEF o
  <2>2. CASE j # m
    <3>1. j \in 1 .. (m - 1)
      BY <1>1, <2>2
    <3>2. off[j - 1] + p \in 1 .. o /\ t[off[j - 1] + p] = seqs[j][p]
      BY <3>1 DEF Placed, o
    <3>3. off[j - 1] + p \in 1 .. (o + l) /\ off[j - 1] + p <= o
      BY <1>1, <1>2, <3>2
    <3>4. QED
      BY <1>2, <1>3, <3>2, <3>3
  <2>3. QED
    BY <2>1, <2>2
<1>5. ASSUME NEW x \in 1 .. off[m]
      PROVE  \E j \in 1 .. m : \E p \in 1 .. Len(seqs[j]) : x = off[j - 1] + p
  <2>1. CASE x <= o
    <3>1. x \in 1 .. o
      BY <1>2, <2>1
    <3>2. PICK j \in 1 .. (m - 1) : \E p \in 1 .. Len(seqs[j]) : x = off[j - 1] + p
      BY <3>1 DEF Placed, o
    <3>3. j \in 1 .. m
      BY <1>1
    <3>4. QED
      BY <3>2, <3>3
  <2>2. CASE ~(x <= o)
    <3>1. m \in 1 .. m /\ x - o \in 1 .. l /\ x = o + (x - o)
      BY <1>1, <1>2, <2>2
    <3>2. QED
      BY <3>1 DEF o, l
  <2>3. QED
    BY <2>1, <2>2
<1>6. Len(u) = off[m]
  BY <1>2, <1>3
<1>7. QED
  BY <1>4, <1>5, <1>6 DEF Placed, u

\* FlattenSeq lays its sequences out one after another.
LEMMA Flattened ==
  ASSUME NEW H, NEW seqs \in Seq(Seq(H)), NEW off, Offsets(off, seqs)
  PROVE  FlattenSeq(seqs) \in Seq(H) /\ Placed(FlattenSeq(seqs), off, seqs, Len(seqs))
<1> DEFINE L == Len(seqs)
<1>1. L \in Nat /\ \A i \in 1 .. L : seqs[i] \in Seq(H) /\ Len(seqs[i]) \in Nat
  OBVIOUS
<1>2. CASE L = 0
  <2>1. FlattenSeq(seqs) = seqs
    BY <1>2 DEF FlattenSeq
  <2>2. seqs = <<>> /\ off[0] = 0
    BY <1>2, EmptySeq DEF Offsets
  <2>3. <<>> \in Seq(H) /\ Len(<<>>) = 0
    OBVIOUS
  <2>4. Placed(<<>>, off, seqs, 0)
    BY <2>2, <2>3 DEF Placed
  <2>5. QED
    BY <1>2, <2>1, <2>2, <2>3, <2>4
<1>3. CASE L # 0
  <2>1. PICK flat \in [1 .. L -> Seq(H)] : Joins(flat, seqs) /\ FlattenSeq(seqs) = flat[L]
    BY <1>3, FlattenJoins
  <2> DEFINE B == {m \in 1 .. L : ~Placed(flat[m], off, seqs, m)}
  <2>2. B = {}
    <3>1. SUFFICES ASSUME B # {} PROVE FALSE
      OBVIOUS
    <3>2. B \in SUBSET Nat
      BY <1>1
    <3>3. PICK m \in B : \A l \in B : m <= l
      <4> HIDE DEF B
      <4>1. QED
        BY <3>1, <3>2, Least
    <3>4. m \in 1 .. L /\ ~Placed(flat[m], off, seqs, m)
      OBVIOUS
    <3>5. CASE m = 1
      <4>1. flat[1] = seqs[1] /\ 1 \in 1 .. L
        BY <2>1, <3>4, <3>5 DEF Joins
      <4>2. off[0] = 0 /\ off[1] = off[1 - 1] + Len(seqs[1]) /\ 1 - 1 = 0
        BY <4>1 DEF Offsets
      <4>3. off[1] = Len(seqs[1]) /\ Len(seqs[1]) \in Nat
        BY <1>1, <4>1, <4>2
      <4>4. \A j \in 1 .. 1 : j = 1
        OBVIOUS
      <4>5. Placed(seqs[1], off, seqs, 1)
        BY <4>2, <4>3, <4>4 DEF Placed
      <4>6. QED
        BY <3>4, <3>5, <4>1, <4>5
    <3>6. CASE m # 1
      <4>1. m - 1 \in 1 .. L /\ ~(m <= m - 1) /\ m - 1 # 0
        BY <1>1, <3>4, <3>6
      <4>2. Placed(flat[m - 1], off, seqs, m - 1)
        <5>1. m - 1 \notin B
          <6> HIDE DEF B
          <6>1. QED
            BY <3>3, <4>1
        <5>2. QED
          BY <4>1, <5>1
      <4>3. flat[m] = flat[m - 1] \o seqs[m] /\ flat[m - 1] \in Seq(H)
        BY <2>1, <3>4, <3>6, <4>1 DEF Joins
      <4>4. Placed(flat[m - 1] \o seqs[m], off, seqs, m)
        BY <3>4, <4>1, <4>2, <4>3, PlaceNext
      <4>5. QED
        BY <3>4, <4>3, <4>4
    <3>7. QED
      BY <3>5, <3>6
  <2>3. L \in 1 .. L
    BY <1>1, <1>3
  <2>4. Placed(flat[L], off, seqs, L) /\ flat[L] \in Seq(H)
    <3>1. L \notin B
      BY <2>2
    <3>2. QED
      BY <2>3, <3>1
  <2>5. QED
    BY <2>1, <2>4
<1>4. QED
  BY <1>2, <1>3

-----------------------------------------------------------------------------
(* What encodeNode writes.                                                 *)

\* What a walk w has written of each child of n.
Parts(w, n) == [i \in DOMAIN kids[n] |-> w[kids[n][i]]]

\* The places of a node for its children.
LEMMA KidPlaces ==
  ASSUME Inv, NEW n \in Nodes
  PROVE  /\ Len(kids[n]) \in Nat /\ DOMAIN kids[n] = 1 .. Len(kids[n])
         /\ \A i \in 1 .. Len(kids[n]) : kids[n][i] \in Kids(n) /\ kids[n][i] \in Nodes
<1>1. kids[n] \in Seq(Points)
  BY Family DEF Inv, Nodes
<1>2. Len(kids[n]) \in Nat /\ DOMAIN kids[n] = 1 .. Len(kids[n])
  BY <1>1, LenProperties
<1>3. \A i \in 1 .. Len(kids[n]) : kids[n][i] \in Kids(n)
  BY <1>2 DEF Kids
<1>4. QED
  BY <1>2, <1>3, Places

\* The walks of the children are as many as the children, in their order.
LEMMA PartsOf ==
  ASSUME Inv, NEW n \in Nodes, NEW H, NEW w \in [Nodes -> Seq(H)]
  PROVE  /\ Parts(w, n) \in Seq(Seq(H)) /\ Len(Parts(w, n)) = Len(kids[n])
         /\ \A i \in 1 .. Len(kids[n]) : Parts(w, n)[i] = w[kids[n][i]]
<1> DEFINE K == Len(kids[n])
           q == [i \in 1 .. K |-> w[kids[n][i]]]
<1>1. K \in Nat /\ Parts(w, n) = q /\ \A i \in 1 .. K : kids[n][i] \in Nodes
  BY KidPlaces DEF Parts
<1>2. \A i \in 1 .. K : w[kids[n][i]] \in Seq(H)
  BY <1>1
<1>3. q \in Seq(Seq(H)) /\ Len(q) = K
  <2> HIDE DEF K
  <2>1. QED
    BY <1>1, <1>2
<1>4. \A i \in 1 .. K : q[i] = w[kids[n][i]]
  OBVIOUS
<1>5. QED
  BY <1>1, <1>3, <1>4

\* A walk writes the node, then the children with all their own.
WalkOf(h, w, n) == <<h[n]>> \o FlattenSeq(Parts(w, n))

\* A walk of sequences is a sequence.
LEMMA WalkType ==
  ASSUME Inv, NEW n \in Nodes, NEW H, NEW h \in [Nodes -> H], NEW w \in [Nodes -> Seq(H)]
  PROVE  WalkOf(h, w, n) \in Seq(H) /\ FlattenSeq(Parts(w, n)) \in Seq(H)
<1>1. PICK off : Offsets(off, Parts(w, n))
  BY PartsOf, SomeOffsets
<1>2. FlattenSeq(Parts(w, n)) \in Seq(H)
  BY <1>1, PartsOf, Flattened
<1>3. <<h[n]>> \in Seq(H)
  OBVIOUS
<1>4. QED
  BY <1>2, <1>3, ConcatProperties DEF WalkOf

\* encodeNode ends, and writes what the walk is to write.
LEMMA Walked ==
  ASSUME Inv, Ranked, NEW H, NEW h \in [Nodes -> H]
  PROVE  /\ Preorder(h) \in [Nodes -> Seq(H)]
         /\ \A n \in Nodes : Preorder(h)[n] = WalkOf(h, Preorder(h), n)
<1>1. PICK rank \in [Nodes -> Nat] :
        /\ \A n \in Nodes : \A c \in Kids(n) : rank[c] < rank[n]
        /\ \E top \in Nat : \A n \in Nodes : rank[n] < top
  BY RankBounded
<1> DEFINE S == Seq(H)
           F == [x \in Nodes \X [Nodes -> S] |-> WalkOf(h, x[2], x[1])]
<1>2. \A n \in Nodes, f \in [Nodes -> S] : F[<<n, f>>] = WalkOf(h, f, n)
  OBVIOUS
<1>3. Founded(F, Nodes, S, rank)
  <2>1. \A n \in Nodes, f \in [Nodes -> S] : F[<<n, f>>] \in S
    BY <1>2, WalkType
  <2>2. ASSUME NEW n \in Nodes, NEW f \in [Nodes -> S], NEW g \in [Nodes -> S],
               \A m \in Nodes : rank[m] < rank[n] => f[m] = g[m]
        PROVE  F[<<n, f>>] = F[<<n, g>>]
    <3> HIDE DEF F, S
    <3>1. \A i \in DOMAIN kids[n] : f[kids[n][i]] = g[kids[n][i]]
      BY <1>1, <2>2, KidPlaces
    <3>2. Parts(f, n) = Parts(g, n)
      BY <3>1 DEF Parts
    <3>3. QED
      BY <1>2, <3>2 DEF WalkOf
  <2> HIDE DEF F, S
  <2>3. QED
    BY <2>1, <2>2 DEF Founded
<1>4. PICK f \in [Nodes -> S] : \A n \in Nodes : f[n] = F[<<n, f>>]
  <2>1. <<>> \in S
    OBVIOUS
  <2> HIDE DEF F, S
  <2>2. S # {}
    BY <2>1
  <2>3. PICK top \in Nat : \A n \in Nodes : rank[n] < top
    BY <1>1
  <2>4. Solved(F, Nodes, S)
    BY <1>3, <2>2, <2>3, Recursion
  <2>5. QED
    BY <2>4 DEF Solved
<1> DEFINE walk == CHOOSE walk : walk = [n \in Nodes |->
                     <<h[n]>> \o FlattenSeq([i \in DOMAIN kids[n] |-> walk[kids[n][i]]])]
<1>5. f = [n \in Nodes |-> WalkOf(h, f, n)]
  <2> HIDE DEF F, S
  <2>1. QED
    BY <1>2, <1>4
<1>6. walk = [n \in Nodes |-> WalkOf(h, walk, n)]
  BY <1>5 DEF WalkOf, Parts
<1>7. Preorder(h) = walk
  BY DEF Preorder
<1> HIDE DEF walk
<1>8. \A n \in Nodes : walk[n] = WalkOf(h, walk, n)
  BY <1>6
<1> DEFINE B == {n \in Nodes : walk[n] \notin S}
<1>9. ASSUME B # {} PROVE FALSE
  <2>1. PICK n \in B : \A m \in B : ~(rank[m] < rank[n])
    <3> HIDE DEF B
    <3>1. B \in SUBSET Nodes
      BY DEF B
    <3>2. QED
      BY <1>9, <3>1, Lowest
  <2>2. n \in Nodes /\ walk[n] \notin S
    OBVIOUS
  <2> DEFINE g == [m \in Nodes |-> IF walk[m] \in S THEN walk[m] ELSE f[m]]
  <2>3. g \in [Nodes -> S]
    <3> HIDE DEF S
    <3>1. QED
      OBVIOUS
  <2>4. \A i \in DOMAIN kids[n] : walk[kids[n][i]] = g[kids[n][i]]
    <3> SUFFICES ASSUME NEW i \in DOMAIN kids[n] PROVE walk[kids[n][i]] = g[kids[n][i]]
      OBVIOUS
    <3>1. kids[n][i] \in Nodes /\ rank[kids[n][i]] < rank[n]
      BY <1>1, <2>2, KidPlaces
    <3>2. kids[n][i] \notin B
      <4> HIDE DEF B
      <4>1. QED
        BY <2>1, <3>1
    <3>3. QED
      BY <3>1, <3>2
  <2> HIDE DEF g, B, S
  <2>5. Parts(walk, n) = Parts(g, n)
    BY <2>4 DEF Parts
  <2>6. walk[n] = WalkOf(h, g, n)
    BY <1>8, <2>2, <2>5 DEF WalkOf
  <2>7. QED
    BY <2>2, <2>3, <2>6, WalkType DEF S
<1>10. \A n \in Nodes : walk[n] \in S
  BY <1>9
<1>11. walk \in [Nodes -> S]
  <2> HIDE DEF S
  <2>1. walk = [n \in Nodes |-> walk[n]]
    BY <1>6
  <2>2. QED
    BY <1>10, <2>1
<1>12. QED
  BY <1>7, <1>8, <1>11

-----------------------------------------------------------------------------
\* Which node is written at each place.
Walk == Preorder([n \in Nodes |-> n])

Size(n) == Len(Walk[n])

\* In the walk of n, how far its j-th child is from it; off tells the lengths of
\* what is written of the children.
Starts(n) == CHOOSE off : Offsets(off, Parts(Walk, n))
Start(n, j) == 1 + Starts(n)[j - 1]

\* What is written of n is laid out like its walk.
Laid(w, n) ==
  /\ Len(w[n]) = Size(n)
  /\ \A j \in 1 .. Len(kids[n]) : \A p \in 1 .. Size(kids[n][j]) :
       w[n][Start(n, j) + p] = w[kids[n][j]][p]

\* The walk of a node: the node, and then the walks of its children.
LEMMA WalkLayout ==
  ASSUME Inv, Ranked
  PROVE  /\ Walk \in [Nodes -> Seq(Nodes)]
         /\ \A n \in Nodes :
              /\ Size(n) \in Nat \ {0} /\ Walk[n][1] = n
              /\ Start(n, 1) = 1 /\ Start(n, Len(kids[n]) + 1) = Size(n)
              /\ \A j \in 1 .. Len(kids[n]) :
                   /\ Start(n, j) \in Nat \ {0}
                   /\ Start(n, j + 1) = Start(n, j) + Size(kids[n][j])
                   /\ \A p \in 1 .. Size(kids[n][j]) : Start(n, j) + p \in 1 .. Size(n)
              /\ \A x \in 1 .. Size(n) :
                   \/ x = 1
                   \/ \E j \in 1 .. Len(kids[n]) : \E p \in 1 .. Size(kids[n][j]) :
                        x = Start(n, j) + p
              /\ Laid(Walk, n)
<1> DEFINE h == [n \in Nodes |-> n]
<1>1. Walk \in [Nodes -> Seq(Nodes)] /\ \A n \in Nodes : Walk[n] = WalkOf(h, Walk, n)
  <2>1. h \in [Nodes -> Nodes]
    OBVIOUS
  <2>2. Walk = Preorder(h)
    BY DEF Walk
  <2> HIDE DEF h
  <2>3. QED
    BY <2>1, <2>2, Walked
<1>2. SUFFICES ASSUME NEW n \in Nodes
               PROVE  /\ Size(n) \in Nat \ {0} /\ Walk[n][1] = n
                      /\ Start(n, 1) = 1 /\ Start(n, Len(kids[n]) + 1) = Size(n)
                      /\ \A j \in 1 .. Len(kids[n]) :
                           /\ Start(n, j) \in Nat \ {0}
                           /\ Start(n, j + 1) = Start(n, j) + Size(kids[n][j])
                           /\ \A p \in 1 .. Size(kids[n][j]) : Start(n, j) + p \in 1 .. Size(n)
                      /\ \A x \in 1 .. Size(n) :
                           \/ x = 1
                           \/ \E j \in 1 .. Len(kids[n]) : \E p \in 1 .. Size(kids[n][j]) :
                                x = Start(n, j) + p
                      /\ Laid(Walk, n)
  BY <1>1
<1> DEFINE K == Len(kids[n])
           q == Parts(Walk, n)
           off == Starts(n)
           t == FlattenSeq(q)
<1>3. /\ K \in Nat /\ q \in Seq(Seq(Nodes)) /\ Len(q) = K
      /\ \A j \in 1 .. K : q[j] = Walk[kids[n][j]] /\ kids[n][j] \in Nodes
  BY <1>1, PartsOf, KidPlaces
<1>4. Offsets(off, q)
  BY <1>3, SomeOffsets DEF Starts
<1> HIDE DEF off, q
<1>5. t \in Seq(Nodes) /\ Placed(t, off, q, K)
  BY <1>3, <1>4, Flattened
<1>6. Walk[n] = <<n>> \o t
  BY <1>1 DEF WalkOf, q
<1> HIDE DEF t, h
<1>7. \A j : Start(n, j) = 1 + off[j - 1]
  BY DEF Start, off
<1>8. /\ off \in [0 .. K -> Nat] /\ off[0] = 0
      /\ \A j \in 1 .. K : off[j] = off[j - 1] + Len(q[j])
  BY <1>3, <1>4 DEF Offsets
<1>9. /\ Len(t) = off[K] /\ off[K] \in Nat
      /\ \A j \in 1 .. K : \A p \in 1 .. Len(q[j]) :
           off[j - 1] + p \in 1 .. off[K] /\ t[off[j - 1] + p] = q[j][p]
      /\ \A x \in 1 .. off[K] : \E j \in 1 .. K : \E p \in 1 .. Len(q[j]) : x = off[j - 1] + p
  <2>1. K \in 0 .. K
    BY <1>3
  <2> HIDE DEF K
  <2>2. QED
    BY <1>5, <1>8, <2>1 DEF Placed
<1>10. \A j \in 1 .. K : Len(q[j]) = Size(kids[n][j]) /\ Size(kids[n][j]) \in Nat
  BY <1>1, <1>3, LenProperties DEF Size
<1>11. /\ Size(n) = 1 + off[K]
       /\ \A x \in 1 .. 1 + off[K] : Walk[n][x] = IF x = 1 THEN n ELSE t[x - 1]
  <2>1. <<n>> \in Seq(Nodes) /\ Len(<<n>>) = 1 /\ <<n>>[1] = n
    OBVIOUS
  <2>2. /\ Len(<<n>> \o t) = 1 + Len(t)
        /\ \A x \in 1 .. 1 + Len(t) : (<<n>> \o t)[x] = IF x <= 1 THEN <<n>>[x] ELSE t[x - 1]
    BY <1>5, <2>1, ConcatProperties
  <2>3. \A x \in 1 .. 1 + off[K] : x <= 1 <=> x = 1
    BY <1>9
  <2> HIDE DEF K
  <2>4. QED
    BY <1>6, <1>9, <2>1, <2>2, <2>3 DEF Size
<1>12. /\ Size(n) \in Nat \ {0} /\ Walk[n][1] = n
       /\ Start(n, 1) = 1 /\ Start(n, K + 1) = Size(n)
  <2>1. 1 - 1 = 0 /\ K + 1 - 1 = K /\ 1 \in 1 .. 1 + off[K]
    BY <1>3, <1>9
  <2>2. Start(n, 1) = 1 + off[0] /\ Start(n, K + 1) = 1 + off[K]
    BY <1>7, <2>1
  <2> HIDE DEF K
  <2>3. Size(n) \in Nat \ {0} /\ Walk[n][1] = n
    BY <1>9, <1>11, <2>1
  <2>4. QED
    BY <1>8, <1>11, <2>2, <2>3
<1>13. ASSUME NEW j \in 1 .. K
       PROVE  /\ Start(n, j) \in Nat \ {0}
              /\ Start(n, j + 1) = Start(n, j) + Size(kids[n][j])
              /\ \A p \in 1 .. Size(kids[n][j]) :
                   /\ Start(n, j) + p \in 1 .. Size(n)
                   /\ Walk[n][Start(n, j) + p] = Walk[kids[n][j]][p]
  <2>1. j - 1 \in 0 .. K /\ (j + 1) - 1 = j
    BY <1>3
  <2>2. off[j - 1] \in Nat
    <3> HIDE DEF K
    <3>1. QED
      BY <1>8, <2>1
  <2>3. off[j] = off[j - 1] + Size(kids[n][j]) /\ Size(kids[n][j]) \in Nat
    BY <1>8, <1>10
  <2>4. Start(n, j) = 1 + off[j - 1] /\ Start(n, j + 1) = 1 + off[j]
    BY <1>7, <2>1
  <2>5. ASSUME NEW p \in 1 .. Size(kids[n][j])
        PROVE  /\ Start(n, j) + p \in 1 .. Size(n)
               /\ Walk[n][Start(n, j) + p] = Walk[kids[n][j]][p]
    <3>1. p \in 1 .. Len(q[j])
      BY <1>10
    <3>2. off[j - 1] + p \in 1 .. off[K] /\ t[off[j - 1] + p] = q[j][p]
      BY <1>9, <3>1
    <3>3. p \in Nat /\ off[K] \in Nat
      BY <1>9, <2>3
    <3>4. /\ Start(n, j) + p \in 1 .. 1 + off[K] /\ Start(n, j) + p # 1
          /\ (Start(n, j) + p) - 1 = off[j - 1] + p
      <4> HIDE DEF K
      <4>1. QED
        BY <2>2, <2>4, <3>2, <3>3
    <3>5. QED
      BY <1>3, <1>11, <3>2, <3>4
  <2>6. QED
    BY <2>2, <2>3, <2>4, <2>5
<1>14. ASSUME NEW x \in 1 .. Size(n), x # 1
       PROVE  \E j \in 1 .. K : \E p \in 1 .. Size(kids[n][j]) : x = Start(n, j) + p
  <2>1. x - 1 \in 1 .. off[K]
    BY <1>9, <1>11, <1>14
  <2>2. PICK j \in 1 .. K : \E p \in 1 .. Len(q[j]) : x - 1 = off[j - 1] + p
    BY <1>9, <2>1
  <2>3. PICK p \in 1 .. Len(q[j]) : x - 1 = off[j - 1] + p
    BY <2>2
  <2>4. p \in 1 .. Size(kids[n][j])
    BY <1>10
  <2>5. off[j - 1] \in Nat
    <3>1. j - 1 \in 0 .. K
      BY <1>3
    <3> HIDE DEF K
    <3>2. QED
      BY <1>8, <3>1
  <2>6. x = Start(n, j) + p
    <3>1. Start(n, j) = 1 + off[j - 1] /\ x \in Int /\ p \in Int
      BY <1>7
    <3>2. QED
      BY <2>3, <2>5, <3>1
  <2>7. QED
    BY <2>4, <2>6
<1>15. Laid(Walk, n)
  BY <1>13 DEF Laid, Size
<1>16. QED
  <2> HIDE DEF K
  <2>1. QED
    BY <1>12, <1>13, <1>14, <1>15 DEF K

\* Whatever is written of the nodes, it is what h makes of the walk.
LEMMA WrittenWalk ==
  ASSUME Inv, Ranked, NEW H, NEW h \in [Nodes -> H]
  PROVE  \A n \in Nodes :
           /\ Len(Preorder(h)[n]) = Size(n)
           /\ \A x \in 1 .. Size(n) : Preorder(h)[n][x] = h[Walk[n][x]]
<1>1. PICK rank \in [Nodes -> Nat] : \A n \in Nodes : \A c \in Kids(n) : rank[c] < rank[n]
  BY DEF Ranked
<1> DEFINE w == Preorder(h)
           Good(n) == Len(w[n]) = Size(n) /\ \A x \in 1 .. Size(n) : w[n][x] = h[Walk[n][x]]
           B == {n \in Nodes : ~Good(n)}
<1>2. SUFFICES ASSUME B # {} PROVE FALSE
  OBVIOUS
<1>3. PICK n \in B : \A m \in B : ~(rank[m] < rank[n])
  <2>1. B \in SUBSET Nodes
    OBVIOUS
  <2> HIDE DEF B
  <2>2. QED
    BY <1>2, <2>1, Lowest
<1>4. n \in Nodes /\ ~Good(n)
  OBVIOUS
<1>5. ASSUME NEW j \in 1 .. Len(kids[n]) PROVE Good(kids[n][j])
  <2>1. kids[n][j] \in Nodes /\ rank[kids[n][j]] < rank[n]
    BY <1>1, <1>4, KidPlaces
  <2>2. kids[n][j] \notin B
    <3> HIDE DEF B
    <3>1. QED
      BY <1>3, <2>1
  <2> HIDE DEF Good
  <2>3. QED
    BY <2>1, <2>2
<1> HIDE DEF B
<1>6. w \in [Nodes -> Seq(H)] /\ w[n] = <<h[n]>> \o FlattenSeq(Parts(w, n))
  BY <1>4, Walked DEF WalkOf
<1> HIDE DEF w
<1> DEFINE K == Len(kids[n])
           q == Parts(w, n)
           off == Starts(n)
           t == FlattenSeq(q)
<1>7. /\ K \in Nat /\ q \in Seq(Seq(H)) /\ Len(q) = K
      /\ \A j \in 1 .. K : q[j] = w[kids[n][j]] /\ kids[n][j] \in Nodes
  BY <1>4, <1>6, PartsOf, KidPlaces
<1>8. /\ Parts(Walk, n) \in Seq(Seq(Nodes)) /\ Len(Parts(Walk, n)) = K
      /\ \A j \in 1 .. K : Parts(Walk, n)[j] = Walk[kids[n][j]]
  <2>1. Walk \in [Nodes -> Seq(Nodes)]
    BY WalkLayout
  <2>2. QED
    BY <1>4, <2>1, PartsOf
<1>9. Offsets(off, Parts(Walk, n))
  BY <1>8, SomeOffsets DEF Starts
<1> HIDE DEF q, off
<1>10. \A j \in 1 .. K : Len(q[j]) = Len(Parts(Walk, n)[j]) /\ Len(q[j]) = Size(kids[n][j])
  <2> HIDE DEF K
  <2>1. \A j \in 1 .. K : Len(w[kids[n][j]]) = Size(kids[n][j])
    BY <1>5 DEF K
  <2>2. QED
    BY <1>7, <1>8, <2>1 DEF Size
<1>11. Offsets(off, q)
  <2> HIDE DEF K
  <2>1. QED
    BY <1>7, <1>8, <1>9, <1>10 DEF Offsets
<1>12. t \in Seq(H) /\ Placed(t, off, q, K)
  BY <1>7, <1>11, Flattened
<1> HIDE DEF t
<1>13. w[n] = <<h[n]>> \o t
  BY <1>6 DEF t, q
<1>14. /\ Start(n, K + 1) = Size(n) /\ Size(n) \in Nat \ {0} /\ Walk[n][1] = n
       /\ Laid(Walk, n)
       /\ \A x \in 1 .. Size(n) :
            \/ x = 1
            \/ \E j \in 1 .. K : \E p \in 1 .. Size(kids[n][j]) : x = Start(n, j) + p
       /\ \A j \in 1 .. K : Start(n, j) \in Nat \ {0}
  BY <1>4, WalkLayout
<1>15. \A j : Start(n, j) = 1 + off[j - 1]
  BY DEF Start, off
<1>16. Len(t) = off[K] /\ off[K] \in Nat /\ Size(n) = 1 + off[K]
  <2>1. Len(t) = off[K] /\ Len(t) \in Nat
    BY <1>12, LenProperties DEF Placed
  <2>2. K + 1 - 1 = K
    BY <1>7
  <2>3. QED
    BY <1>14, <1>15, <2>1, <2>2
<1>17. /\ Len(w[n]) = Size(n)
       /\ \A x \in 1 .. Size(n) : w[n][x] = IF x = 1 THEN h[n] ELSE t[x - 1]
  <2>1. <<h[n]>> \in Seq(H) /\ Len(<<h[n]>>) = 1 /\ <<h[n]>>[1] = h[n]
    BY <1>4
  <2>2. /\ Len(<<h[n]>> \o t) = 1 + Len(t)
        /\ \A x \in 1 .. 1 + Len(t) : (<<h[n]>> \o t)[x] = IF x <= 1 THEN <<h[n]>>[x] ELSE t[x - 1]
    BY <1>12, <2>1, ConcatProperties
  <2>3. \A x \in 1 .. Size(n) : x <= 1 <=> x = 1
    BY <1>14
  <2> HIDE DEF K
  <2>4. QED
    BY <1>13, <1>16, <2>1, <2>2, <2>3
<1>18. ASSUME NEW x \in 1 .. Size(n) PROVE w[n][x] = h[Walk[n][x]]
  <2>1. CASE x = 1
    BY <1>14, <1>17, <2>1
  <2>2. CASE x # 1
    <3>1. PICK j \in 1 .. K : \E p \in 1 .. Size(kids[n][j]) : x = Start(n, j) + p
      BY <1>14, <2>2
    <3>2. PICK p \in 1 .. Size(kids[n][j]) : x = Start(n, j) + p
      BY <3>1
    <3>3. t[off[j - 1] + p] = q[j][p]
      BY <1>10, <1>12 DEF Placed
    <3>4. x - 1 = off[j - 1] + p
      <4>1. Start(n, j) = 1 + off[j - 1] /\ off[j - 1] \in Nat
        <5>1. j - 1 \in 0 .. K
          BY <1>7
        <5>2. off[j - 1] \in Nat
          BY <1>7, <1>11, <5>1 DEF Offsets
        <5>3. QED
          BY <1>15, <5>2
      <4>2. p \in Int
        OBVIOUS
      <4>3. QED
        BY <3>2, <4>1, <4>2
    <3>5. w[n][x] = w[kids[n][j]][p]
      BY <1>7, <1>17, <2>2, <3>3, <3>4
    <3>6. Walk[n][x] = Walk[kids[n][j]][p]
      BY <1>14, <3>2 DEF Laid
    <3>7. w[kids[n][j]][p] = h[Walk[kids[n][j]][p]]
      BY <1>5
    <3>8. QED
      BY <3>5, <3>6, <3>7
  <2>3. QED
    BY <2>1, <2>2
<1>19. QED
  BY <1>4, <1>17, <1>18

\* The walk of a node that the walk of n meets is the part of it that begins there.
Aligned(n) ==
  \A x \in 1 .. Size(n) :
    /\ (x - 1) + Size(Walk[n][x]) <= Size(n)
    /\ \A p \in 1 .. Size(Walk[n][x]) : Walk[n][(x - 1) + p] = Walk[Walk[n][x]][p]

\* In the walk of n each node follows its parent.
Parented(n) ==
  \A x \in 1 .. Size(n) :
    x = 1 \/ \E y \in 1 .. Size(n) :
               y < x /\ \E j \in 1 .. Len(kids[Walk[n][y]]) : x = y + Start(Walk[n][y], j)

\* The walk of n stays below n, and meets no node twice.
Within(n) == \A x \in 1 .. Size(n) : Walk[n][x] \in Subtree(n)
Once(n) == \A x, y \in 1 .. Size(n) : Walk[n][x] = Walk[n][y] => x = y

\* What a walk meets are nodes.
LEMMA InWalk ==
  ASSUME Inv, Ranked, NEW n \in Nodes, NEW x \in 1 .. Size(n)
  PROVE  Walk[n][x] \in Nodes /\ x \in Nat /\ Size(n) \in Nat
<1>1. Walk[n] \in Seq(Nodes) /\ Size(n) \in Nat
  BY WalkLayout
<1>2. Walk[n][x] \in Nodes
  BY <1>1, ElementOfSeq DEF Size
<1>3. QED
  BY <1>1, <1>2

\* Where the walk of n is in that of its j-th child.
LEMMA InKid ==
  ASSUME Inv, Ranked, NEW n \in Nodes, NEW x \in 1 .. Size(n), x # 1
  PROVE  \E j \in 1 .. Len(kids[n]), y \in Nat \ {0} :
           /\ y \in 1 .. Size(kids[n][j])
           /\ x = Start(n, j) + y /\ Start(n, j) \in Nat \ {0}
           /\ Walk[n][x] = Walk[kids[n][j]][y]
<1>1. PICK j \in 1 .. Len(kids[n]) : \E y \in 1 .. Size(kids[n][j]) : x = Start(n, j) + y
  BY WalkLayout
<1>2. PICK y \in 1 .. Size(kids[n][j]) : x = Start(n, j) + y
  BY <1>1
<1>3. Start(n, j) \in Nat \ {0} /\ Laid(Walk, n)
  BY WalkLayout
<1>4. Start(n, j) \in Nat \ {0} /\ Walk[n][x] = Walk[kids[n][j]][y]
  BY <1>2, <1>3 DEF Laid
<1>5. y \in Nat \ {0}
  OBVIOUS
<1>6. QED
  BY <1>2, <1>4, <1>5

\* In every walk, the walk of a node it meets follows at once.
LEMMA WalkAligned ==
  ASSUME Inv, Ranked
  PROVE  \A n \in Nodes : Aligned(n)
<1>1. PICK rank \in [Nodes -> Nat] : \A n \in Nodes : \A c \in Kids(n) : rank[c] < rank[n]
  BY DEF Ranked
<1> DEFINE B == {n \in Nodes : ~Aligned(n)}
<1>2. SUFFICES ASSUME B # {} PROVE FALSE
  OBVIOUS
<1>3. PICK n \in B : \A m \in B : ~(rank[m] < rank[n])
  <2>1. B \in SUBSET Nodes
    OBVIOUS
  <2> HIDE DEF B
  <2>2. QED
    BY <1>2, <2>1, Lowest
<1>4. n \in Nodes /\ ~Aligned(n)
  OBVIOUS
<1>5. ASSUME NEW j \in 1 .. Len(kids[n]) PROVE Aligned(kids[n][j]) /\ kids[n][j] \in Nodes
  <2>1. kids[n][j] \in Nodes /\ rank[kids[n][j]] < rank[n]
    BY <1>1, <1>4, KidPlaces
  <2>2. kids[n][j] \notin B
    <3> HIDE DEF B
    <3>1. QED
      BY <1>3, <2>1
  <2>3. QED
    BY <2>1, <2>2
<1> HIDE DEF B
<1>6. ASSUME NEW x \in 1 .. Size(n)
      PROVE  /\ (x - 1) + Size(Walk[n][x]) <= Size(n)
             /\ \A p \in 1 .. Size(Walk[n][x]) : Walk[n][(x - 1) + p] = Walk[Walk[n][x]][p]
  <2>1. CASE x = 1
    <3>1. Walk[n][x] = n /\ Size(n) \in Nat
      BY <1>4, <2>1, WalkLayout
    <3>2. \A p \in 1 .. Size(n) : (x - 1) + p = p
      BY <2>1, <3>1
    <3>3. (x - 1) + Size(n) = Size(n)
      BY <2>1, <3>1
    <3>4. QED
      BY <3>1, <3>2, <3>3
  <2>2. CASE x # 1
    <3>1. PICK j \in 1 .. Len(kids[n]), y \in Nat \ {0} :
            /\ y \in 1 .. Size(kids[n][j])
            /\ x = Start(n, j) + y /\ Start(n, j) \in Nat \ {0}
            /\ Walk[n][x] = Walk[kids[n][j]][y]
      BY <1>4, <2>2, InKid
    <3> DEFINE c == kids[n][j]
               m == Walk[c][y]
    <3>2. c \in Nodes /\ Aligned(c) /\ Size(c) \in Nat \ {0} /\ Size(n) \in Nat
      BY <1>4, <1>5, WalkLayout
    <3>3. /\ (y - 1) + Size(m) <= Size(c)
          /\ \A p \in 1 .. Size(m) : Walk[c][(y - 1) + p] = Walk[m][p]
      BY <3>1, <3>2 DEF Aligned
    <3>4. m \in Nodes /\ Size(m) \in Nat
      BY <3>1, <3>2, InWalk, WalkLayout
    <3>5. \A p \in 1 .. Size(c) : /\ Start(n, j) + p \in 1 .. Size(n)
                                  /\ Walk[n][Start(n, j) + p] = Walk[c][p]
      BY <1>4, WalkLayout DEF Laid
    <3>6. Walk[n][x] = m
      BY <3>1
    <3> HIDE DEF c, m
    <3>7. (x - 1) + Size(m) <= Size(n)
      <4>1. Start(n, j) + Size(c) <= Size(n)
        BY <3>1, <3>2, <3>5
      <4>2. QED
        BY <3>1, <3>2, <3>3, <3>4, <4>1
    <3>8. ASSUME NEW p \in 1 .. Size(m) PROVE Walk[n][(x - 1) + p] = Walk[m][p]
      <4>1. /\ (y - 1) + p \in 1 .. Size(c)
            /\ (x - 1) + p = Start(n, j) + ((y - 1) + p)
        BY <3>1, <3>2, <3>3, <3>4
      <4>2. QED
        BY <3>3, <3>5, <4>1
    <3>9. QED
      BY <3>6, <3>7, <3>8
  <2>3. QED
    BY <2>1, <2>2
<1>7. QED
  BY <1>4, <1>6 DEF Aligned

\* Every walk meets a node after its parent, where the parent has it.
LEMMA WalkParented ==
  ASSUME Inv, Ranked
  PROVE  \A n \in Nodes : Parented(n)
<1>1. PICK rank \in [Nodes -> Nat] : \A n \in Nodes : \A c \in Kids(n) : rank[c] < rank[n]
  BY DEF Ranked
<1> DEFINE B == {n \in Nodes : ~Parented(n)}
<1>2. SUFFICES ASSUME B # {} PROVE FALSE
  OBVIOUS
<1>3. PICK n \in B : \A m \in B : ~(rank[m] < rank[n])
  <2>1. B \in SUBSET Nodes
    OBVIOUS
  <2> HIDE DEF B
  <2>2. QED
    BY <1>2, <2>1, Lowest
<1>4. n \in Nodes /\ ~Parented(n)
  OBVIOUS
<1>5. ASSUME NEW j \in 1 .. Len(kids[n]) PROVE Parented(kids[n][j]) /\ kids[n][j] \in Nodes
  <2>1. kids[n][j] \in Nodes /\ rank[kids[n][j]] < rank[n]
    BY <1>1, <1>4, KidPlaces
  <2>2. kids[n][j] \notin B
    <3> HIDE DEF B
    <3>1. QED
      BY <1>3, <2>1
  <2>3. QED
    BY <2>1, <2>2
<1> HIDE DEF B
<1>6. ASSUME NEW x \in 1 .. Size(n), x # 1
      PROVE  \E y \in 1 .. Size(n) :
               y < x /\ \E j \in 1 .. Len(kids[Walk[n][y]]) : x = y + Start(Walk[n][y], j)
  <2>1. PICK j \in 1 .. Len(kids[n]), y \in Nat \ {0} :
          /\ y \in 1 .. Size(kids[n][j])
          /\ x = Start(n, j) + y /\ Start(n, j) \in Nat \ {0}
          /\ Walk[n][x] = Walk[kids[n][j]][y]
    BY <1>4, <1>6, InKid
  <2>2. CASE y = 1
    <3>1. Walk[n][1] = n /\ 1 \in 1 .. Size(n) /\ 1 < x /\ x = 1 + Start(n, j)
      <4>1. Walk[n][1] = n /\ Size(n) \in Nat \ {0}
        BY <1>4, WalkLayout
      <4>2. QED
        BY <2>1, <2>2, <4>1
    <3>2. QED
      BY <3>1
  <2>3. CASE y # 1
    <3>1. PICK z \in 1 .. Size(kids[n][j]) :
            /\ z < y
            /\ \E i \in 1 .. Len(kids[Walk[kids[n][j]][z]]) :
                 y = z + Start(Walk[kids[n][j]][z], i)
      BY <1>5, <2>1, <2>3 DEF Parented
    <3>2. PICK i \in 1 .. Len(kids[Walk[kids[n][j]][z]]) :
            y = z + Start(Walk[kids[n][j]][z], i)
      BY <3>1
    <3>3. /\ Start(n, j) + z \in 1 .. Size(n)
          /\ Walk[n][Start(n, j) + z] = Walk[kids[n][j]][z]
      BY <1>4, WalkLayout DEF Laid
    <3>4. kids[n][j] \in Nodes /\ Walk[kids[n][j]][z] \in Nodes
      BY <1>5, InWalk
    <3>5. Start(Walk[kids[n][j]][z], i) \in Nat
      BY <3>4, WalkLayout
    <3>6. z \in Int /\ Start(n, j) + z < x
      BY <2>1, <3>1
    <3>7. x = (Start(n, j) + z) + Start(Walk[kids[n][j]][z], i)
      BY <2>1, <3>2, <3>5, <3>6
    <3>8. QED
      BY <3>3, <3>6, <3>7
  <2>4. QED
    BY <2>2, <2>3
<1>7. QED
  BY <1>4, <1>6 DEF Parented

\* No walk leaves the subtree of its node, or meets a node twice.
LEMMA WalkOnce ==
  ASSUME Inv, Ranked
  PROVE  \A n \in Nodes : Within(n) /\ Once(n)
<1>1. PICK rank \in [Nodes -> Nat] : \A n \in Nodes : \A c \in Kids(n) : rank[c] < rank[n]
  BY DEF Ranked
<1> DEFINE B == {n \in Nodes : ~(Within(n) /\ Once(n))}
<1>2. SUFFICES ASSUME B # {} PROVE FALSE
  OBVIOUS
<1>3. PICK n \in B : \A m \in B : ~(rank[m] < rank[n])
  <2>1. B \in SUBSET Nodes
    OBVIOUS
  <2> HIDE DEF B
  <2>2. QED
    BY <1>2, <2>1, Lowest
<1>4. n \in Nodes /\ ~(Within(n) /\ Once(n))
  OBVIOUS
<1>5. ASSUME NEW j \in 1 .. Len(kids[n])
      PROVE  /\ Within(kids[n][j]) /\ Once(kids[n][j])
             /\ kids[n][j] \in Nodes /\ kids[n][j] \in Kids(n)
  <2>1. kids[n][j] \in Nodes /\ kids[n][j] \in Kids(n) /\ rank[kids[n][j]] < rank[n]
    BY <1>1, <1>4, KidPlaces
  <2>2. kids[n][j] \notin B
    <3> HIDE DEF B
    <3>1. QED
      BY <1>3, <2>1
  <2>3. QED
    BY <2>1, <2>2
<1> HIDE DEF B
<1>6. Walk[n][1] = n /\ n \in Subtree(n)
  BY <1>4, WalkLayout, BelowClosed
<1>7. ASSUME NEW x \in 1 .. Size(n) PROVE Walk[n][x] \in Subtree(n)
  <2>1. CASE x = 1
    BY <1>6, <2>1
  <2>2. CASE x # 1
    <3>1. PICK j \in 1 .. Len(kids[n]), y \in Nat \ {0} :
            y \in 1 .. Size(kids[n][j]) /\ Walk[n][x] = Walk[kids[n][j]][y]
      BY <1>4, <2>2, InKid
    <3>2. Walk[n][x] \in Subtree(kids[n][j])
      BY <1>5, <3>1 DEF Within
    <3>3. QED
      BY <1>4, <1>5, <3>2, BelowKids
  <2>3. QED
    BY <2>1, <2>2
<1>8. ASSUME NEW x \in 1 .. Size(n), x # 1 PROVE Walk[n][x] # n
  <2>1. PICK j \in 1 .. Len(kids[n]), y \in Nat \ {0} :
          y \in 1 .. Size(kids[n][j]) /\ Walk[n][x] = Walk[kids[n][j]][y]
    BY <1>4, <1>8, InKid
  <2>2. Walk[n][x] \in Subtree(kids[n][j])
    BY <1>5, <2>1 DEF Within
  <2>3. QED
    BY <1>4, <1>5, <2>2, NotBelowKid
<1>9. ASSUME NEW x \in 1 .. Size(n), NEW y \in 1 .. Size(n), x # 1, y # 1,
             Walk[n][x] = Walk[n][y]
      PROVE  x = y
  <2>1. PICK i \in 1 .. Len(kids[n]), p \in Nat \ {0} :
          /\ p \in 1 .. Size(kids[n][i])
          /\ x = Start(n, i) + p /\ Start(n, i) \in Nat \ {0}
          /\ Walk[n][x] = Walk[kids[n][i]][p]
    BY <1>4, <1>9, InKid
  <2>2. PICK j \in 1 .. Len(kids[n]), q \in Nat \ {0} :
          /\ q \in 1 .. Size(kids[n][j])
          /\ y = Start(n, j) + q /\ Start(n, j) \in Nat \ {0}
          /\ Walk[n][y] = Walk[kids[n][j]][q]
    BY <1>4, <1>9, InKid
  <2>3. /\ Walk[n][x] \in Subtree(kids[n][i]) /\ Walk[n][x] \in Subtree(kids[n][j])
        /\ kids[n][i] \in Kids(n) /\ kids[n][j] \in Kids(n)
    BY <1>5, <1>9, <2>1, <2>2 DEF Within
  <2>4. kids[n][i] = kids[n][j]
    BY <1>4, <2>3, SiblingsApart
  <2>5. i = j
    BY <1>4, <2>4, KidPlaces DEF Inv, OneParent
  <2>6. p = q
    BY <1>5, <1>9, <2>1, <2>2, <2>5 DEF Once
  <2>7. QED
    BY <2>1, <2>2, <2>5, <2>6
<1>10. Once(n)
  BY <1>6, <1>8, <1>9 DEF Once
<1>11. QED
  BY <1>4, <1>7, <1>10 DEF Within

-----------------------------------------------------------------------------
\* Where the walk of the root is at n, the j-th child of n is Start(n, j) on.
LEMMA KidAt ==
  ASSUME Inv, Ranked, root \in Nodes, NEW i \in 1 .. Size(root)
  PROVE  /\ Walk[root][i] \in Nodes /\ i \in Nat /\ Size(root) \in Nat
         /\ (i - 1) + Size(Walk[root][i]) <= Size(root)
         /\ \A j \in 1 .. Len(kids[Walk[root][i]]) :
              /\ Start(Walk[root][i], j) \in Nat \ {0}
              /\ i + Start(Walk[root][i], j) \in 1 .. Size(root)
              /\ Walk[root][i + Start(Walk[root][i], j)] = kids[Walk[root][i]][j]
<1> DEFINE n == Walk[root][i]
<1>1. n \in Nodes /\ i \in Nat /\ Size(root) \in Nat
  BY InWalk
<1>2. /\ (i - 1) + Size(n) <= Size(root)
      /\ \A p \in 1 .. Size(n) : Walk[root][(i - 1) + p] = Walk[n][p]
  BY WalkAligned DEF Aligned
<1> HIDE DEF n
<1>3. ASSUME NEW j \in 1 .. Len(kids[n])
      PROVE  /\ Start(n, j) \in Nat \ {0}
             /\ i + Start(n, j) \in 1 .. Size(root)
             /\ Walk[root][i + Start(n, j)] = kids[n][j]
  <2>1. /\ Start(n, j) \in Nat \ {0} /\ kids[n][j] \in Nodes /\ Size(n) \in Nat
        /\ \A p \in 1 .. Size(kids[n][j]) : Start(n, j) + p \in 1 .. Size(n)
        /\ \A p \in 1 .. Size(kids[n][j]) : Walk[n][Start(n, j) + p] = Walk[kids[n][j]][p]
    BY <1>1, WalkLayout, KidPlaces DEF Laid
  <2>2. Walk[kids[n][j]][1] = kids[n][j] /\ 1 \in 1 .. Size(kids[n][j])
    BY <2>1, WalkLayout
  <2>3. Start(n, j) + 1 \in 1 .. Size(n) /\ Walk[n][Start(n, j) + 1] = kids[n][j]
    BY <2>1, <2>2
  <2>4. (i - 1) + (Start(n, j) + 1) = i + Start(n, j)
    BY <1>1, <2>1
  <2>5. i + Start(n, j) \in 1 .. Size(root)
    BY <1>1, <1>2, <2>1, <2>3
  <2>6. QED
    BY <1>2, <2>1, <2>3, <2>4, <2>5
<1>4. QED
  BY <1>1, <1>2, <1>3 DEF n

\* Every node is met.
LEMMA WalkMeetsAll ==
  ASSUME Inv, Ranked, root \in Nodes, NEW m \in Nodes
  PROVE  \E x \in 1 .. Size(root) : Walk[root][x] = m
<1> DEFINE S == {Walk[root][x] : x \in 1 .. Size(root)}
<1>1. ASSUME NEW x \in 1 .. Size(root), NEW c \in Kids(Walk[root][x]) PROVE c \in S
  <2>1. Walk[root][x] \in Nodes
    BY KidAt
  <2>2. PICK j \in 1 .. Len(kids[Walk[root][x]]) : c = kids[Walk[root][x]][j]
    BY <2>1, KidPlaces DEF Kids
  <2>3. /\ x + Start(Walk[root][x], j) \in 1 .. Size(root)
        /\ Walk[root][x + Start(Walk[root][x], j)] = c
    BY <2>2, KidAt
  <2>4. QED
    BY <2>3
<1>2. S \in SUBSET Nodes
  BY KidAt
<1>3. root \in S
  BY WalkLayout
<1>4. Closed(S)
  BY <1>1 DEF Closed
<1>5. m \in S
  <2> HIDE DEF S
  <2>1. QED
    BY <1>2, <1>3, <1>4, AllBelowRoot, BelowClosed
<1>6. QED
  BY <1>5

-----------------------------------------------------------------------------
(* What decodeNode makes of it.                                            *)

\* after, the recursive function of Children.
AfterOf(s, f, i) ==
  [m \in Nat |-> IF m = 0 \/ i > Len(s) THEN i ELSE f[i + 1][s[i].kids + m - 1]]

\* Children places the children by f, which is such a function.
Decodes(f, s) ==
  /\ \A i \in 1 .. Len(s) + 1 : f[i] = AfterOf(s, f, i)
  /\ Children(s) = [i \in DOMAIN s |-> [j \in 1 .. s[i].kids |-> f[i + 1][j - 1]]]

\* There is a function after, and decodeNode places the children by it.
LEMMA AfterDefined ==
  ASSUME NEW R, NEW s \in Seq(R), \A i \in 1 .. Len(s) : s[i].kids \in Nat
  PROVE  \E f : Decodes(f, s)
<1> DEFINE L == Len(s)
           N == 1 .. L + 1
           S == [Nat -> Nat]
           rank == [i \in N |-> L + 1 - i]
           F == [y \in N \X [N -> S] |-> AfterOf(s, y[2], y[1])]
<1>1. L \in Nat /\ L + 1 \in Nat /\ \A i \in N : i \in Nat
  OBVIOUS
<1>2. rank \in [N -> Nat] /\ \A i \in N : rank[i] = L + 1 - i /\ rank[i] < L + 1
  BY <1>1
<1>3. \A f \in [N -> S], i \in N : F[<<i, f>>] = AfterOf(s, f, i)
  OBVIOUS
<1>4. ASSUME NEW i \in N, NEW m \in Nat, ~(m = 0 \/ i > L)
      PROVE  i + 1 \in N /\ rank[i + 1] < rank[i] /\ s[i].kids + m - 1 \in Nat
  <2>1. i \in 1 .. L /\ i + 1 \in N /\ m - 1 \in Nat
    BY <1>1, <1>4
  <2>2. s[i].kids + m - 1 \in Nat
    BY <2>1
  <2>3. rank[i + 1] < rank[i]
    BY <1>1, <1>2, <2>1
  <2>4. QED
    BY <2>1, <2>2, <2>3
<1>5. ASSUME NEW f \in [N -> S], NEW i \in N PROVE AfterOf(s, f, i) \in S
  <2>1. ASSUME NEW m \in Nat
        PROVE  (IF m = 0 \/ i > L THEN i ELSE f[i + 1][s[i].kids + m - 1]) \in Nat
    <3>1. CASE m = 0 \/ i > L
      BY <1>1, <3>1
    <3>2. CASE ~(m = 0 \/ i > L)
      <4>1. i + 1 \in N /\ s[i].kids + m - 1 \in Nat
        BY <1>4, <3>2
      <4> HIDE DEF N
      <4>2. f[i + 1] \in S
        BY <4>1
      <4>3. f[i + 1][s[i].kids + m - 1] \in Nat
        BY <4>1, <4>2
      <4>4. QED
        BY <3>2, <4>3
    <3>3. QED
      BY <3>1, <3>2
  <2>2. QED
    BY <2>1 DEF AfterOf
<1>6. ASSUME NEW i \in N, NEW f \in [N -> S], NEW g \in [N -> S],
             \A j \in N : rank[j] < rank[i] => f[j] = g[j]
      PROVE  AfterOf(s, f, i) = AfterOf(s, g, i)
  <2>1. ASSUME NEW m \in Nat
        PROVE  (IF m = 0 \/ i > L THEN i ELSE f[i + 1][s[i].kids + m - 1])
                 = (IF m = 0 \/ i > L THEN i ELSE g[i + 1][s[i].kids + m - 1])
    <3> HIDE DEF N, rank, S
    <3>1. CASE ~(m = 0 \/ i > L)
      <4>1. f[i + 1] = g[i + 1]
        BY <1>4, <1>6, <3>1
      <4>2. QED
        BY <4>1
    <3>2. QED
      BY <3>1
  <2> HIDE DEF N, rank, S
  <2>2. QED
    BY <2>1 DEF AfterOf
<1>7. Solved(F, N, S)
  <2> HIDE DEF N, F, rank, S
  <2>1. Founded(F, N, S, rank)
    <3>1. \A i \in N, f \in [N -> S] : F[<<i, f>>] \in S
      BY <1>3, <1>5
    <3>2. ASSUME NEW i \in N, NEW f \in [N -> S], NEW g \in [N -> S],
                 \A j \in N : rank[j] < rank[i] => f[j] = g[j]
          PROVE  F[<<i, f>>] = F[<<i, g>>]
      BY <1>3, <1>6, <3>2
    <3>3. QED
      BY <3>1, <3>2 DEF Founded
  <2>2. S # {}
    <3>1. [m \in Nat |-> 0] \in S
      BY DEF S
    <3>2. QED
      BY <3>1
  <2>3. QED
    BY <1>1, <1>2, <2>1, <2>2, Recursion
<1>8. PICK f \in [N -> S] : \A i \in N : f[i] = F[<<i, f>>]
  BY <1>7 DEF Solved
<1> DEFINE af == CHOOSE af : af = [i \in 1 .. Len(s) + 1 |->
                   [m \in Nat |-> IF m = 0 \/ i > Len(s) THEN i
                                  ELSE af[i + 1][s[i].kids + m - 1]]]
<1>9. f = [i \in N |-> AfterOf(s, f, i)]
  <2> HIDE DEF N, F, S
  <2>1. QED
    BY <1>3, <1>8
<1>10. af = [i \in N |-> AfterOf(s, af, i)]
  BY <1>9 DEF AfterOf
<1>11. Children(s) = [i \in DOMAIN s |-> [j \in 1 .. s[i].kids |-> af[i + 1][j - 1]]]
  BY DEF Children
<1>12. \A i \in N : af[i] = AfterOf(s, af, i)
  <2> HIDE DEF af
  <2>1. QED
    BY <1>10
<1>13. QED
  <2> HIDE DEF af
  <2>1. QED
    BY <1>11, <1>12 DEF Decodes

\* A function on the first numbers is a sequence.
LEMMA FunctionSeq ==
  ASSUME NEW S, NEW l \in Nat, NEW q \in [1 .. l -> S]
  PROVE  q \in Seq(S) /\ Len(q) = l /\ DOMAIN q = 1 .. l
OBVIOUS

\* What is written of a node.
Records == [at : Vectors, lvl : Int, kids : Nat]

\* A record is written of every node.
LEMMA WrittenIs ==
  ASSUME Inv
  PROVE  /\ Written \in [Nodes -> Records]
         /\ \A n \in Nodes : /\ Written[n].at = at[n] /\ Written[n].lvl = lvl[n]
                             /\ Written[n].kids = Len(kids[n])
                             /\ at[n] \in Vectors /\ lvl[n] \in Int
<1>1. ASSUME NEW n \in Nodes
      PROVE  at[n] \in Vectors /\ lvl[n] \in Int /\ Len(kids[n]) \in Nat
  <2>1. lvl \in Seq(Int) /\ Len(lvl) = Len(at)
    BY DEF Inv, TypeOK
  <2>2. n \in 1 .. Len(lvl)
    BY <2>1, Places
  <2>3. lvl[n] \in Int
    BY <2>1, <2>2, ElementOfSeq
  <2>4. QED
    BY <2>3, Places, KidPlaces
<1>2. QED
  BY <1>1 DEF Written, Records

\* The encoding has a record for every node the walk of the root meets.
LEMMA EncodingIs ==
  ASSUME Inv, Ranked, root \in Nodes
  PROVE  /\ Encoding \in Seq(Records) /\ Len(Encoding) = Size(root)
         /\ \A x \in 1 .. Size(root) : Encoding[x] = Written[Walk[root][x]]
<1>1. root # 0
  BY Places
<1>2. Encoding = Preorder(Written)[root]
  BY <1>1 DEF Encoding
<1>3. Preorder(Written) \in [Nodes -> Seq(Records)]
  BY WrittenIs, Walked
<1>4. /\ Len(Preorder(Written)[root]) = Size(root)
      /\ \A x \in 1 .. Size(root) : Preorder(Written)[root][x] = Written[Walk[root][x]]
  <2>1. Written \in [Nodes -> Records]
    BY WrittenIs
  <2>2. QED
    BY <2>1, WrittenWalk
<1>5. QED
  BY <1>2, <1>3, <1>4

\* decodeNode, where it reads the subtree of n, goes on behind it.
Skips(f, n) ==
  \A i \in 1 .. Size(root) :
    Walk[root][i] = n => \A m \in Nat : f[i][m + 1] = f[i + Size(n)][m]
SkipsBelow(f, n) == \A j \in 1 .. Len(kids[n]) : Skips(f, kids[n][j])

\* Where it has read node n, it skips one child after another.
Follows(f, i, n) ==
  \A a \in 0 .. Len(kids[n]) : \A m \in Nat :
    f[i + 1][a + m] = f[i + Start(n, a + 1)][m]

\* Decoding skips the children of a node one by one, if it skips each of them.
LEMMA SkipKids ==
  ASSUME Inv, Ranked, root \in Nodes, NEW f, NEW i \in 1 .. Size(root),
         SkipsBelow(f, Walk[root][i])
  PROVE  Follows(f, i, Walk[root][i])
<1> DEFINE n == Walk[root][i]
<1>0. \A j \in 1 .. Len(kids[n]) : Skips(f, kids[n][j])
  BY DEF SkipsBelow
<1> HIDE DEF n
<1> DEFINE Good(a) == \A m \in Nat : f[i + 1][a + m] = f[i + Start(n, a + 1)][m]
           B == {a \in 0 .. Len(kids[n]) : ~Good(a)}
<1>1. n \in Nodes /\ Len(kids[n]) \in Nat /\ i \in Nat
  BY KidAt, KidPlaces DEF n
<1>2. SUFFICES ASSUME B # {} PROVE FALSE
  BY DEF Follows, n
<1>3. PICK a \in B : \A b \in B : a <= b
  <2>1. B \in SUBSET Nat
    BY <1>1
  <2> HIDE DEF B
  <2>2. QED
    BY <1>2, <2>1, Least
<1>4. a \in 0 .. Len(kids[n]) /\ ~Good(a)
  OBVIOUS
<1>5. a # 0
  <2>1. Start(n, 0 + 1) = 1 /\ \A m \in Nat : 0 + m = m
    BY <1>1, WalkLayout
  <2>2. Good(0)
    BY <2>1
  <2>3. QED
    BY <1>4, <2>2
<1>6. a \in 1 .. Len(kids[n]) /\ a - 1 \in 0 .. Len(kids[n]) /\ ~(a <= a - 1) /\ (a - 1) + 1 = a
  BY <1>1, <1>4, <1>5
<1>7. Good(a - 1)
  <2>1. a - 1 \notin B
    <3> HIDE DEF B
    <3>1. QED
      BY <1>3, <1>6
  <2>2. QED
    BY <1>6, <2>1
<1>8. /\ i + Start(n, a) \in 1 .. Size(root)
      /\ Walk[root][i + Start(n, a)] = kids[n][a]
      /\ Start(n, a) \in Nat
  BY <1>6, KidAt DEF n
<1>9. Start(n, a + 1) = Start(n, a) + Size(kids[n][a]) /\ Size(kids[n][a]) \in Nat
  BY <1>1, <1>6, WalkLayout, KidPlaces
<1>10. i + Start(n, a + 1) = (i + Start(n, a)) + Size(kids[n][a])
  BY <1>1, <1>8, <1>9
<1>11. ASSUME NEW m \in Nat PROVE f[i + 1][a + m] = f[i + Start(n, a + 1)][m]
  <2>1. m + 1 \in Nat /\ (a - 1) + (m + 1) = a + m
    <3>1. a \in Int
      BY <1>1, <1>6
    <3>2. QED
      BY <3>1
  <2>2. f[i + 1][(a - 1) + (m + 1)] = f[i + Start(n, a)][m + 1]
    BY <1>6, <1>7, <2>1
  <2>3. f[i + Start(n, a)][m + 1] = f[(i + Start(n, a)) + Size(kids[n][a])][m]
    BY <1>0, <1>6, <1>8 DEF Skips
  <2>4. QED
    BY <1>10, <2>1, <2>2, <2>3
<1>12. QED
  BY <1>4, <1>11

\* And it skips every node with all that is below it.
LEMMA SkipNodes ==
  ASSUME Inv, Ranked, root \in Nodes, NEW s, s = Encoding, NEW f,
         \A i \in 1 .. Len(s) + 1 : f[i] = AfterOf(s, f, i)
  PROVE  \A n \in Nodes : Skips(f, n)
<1>1. PICK rank \in [Nodes -> Nat] : \A n \in Nodes : \A c \in Kids(n) : rank[c] < rank[n]
  BY DEF Ranked
<1> DEFINE B == {n \in Nodes : ~Skips(f, n)}
<1>2. SUFFICES ASSUME B # {} PROVE FALSE
  OBVIOUS
<1>3. PICK n \in B : \A m \in B : ~(rank[m] < rank[n])
  <2>1. B \in SUBSET Nodes
    OBVIOUS
  <2> HIDE DEF B
  <2>2. QED
    BY <1>2, <2>1, Lowest
<1>4. n \in Nodes /\ ~Skips(f, n)
  OBVIOUS
<1>5. ASSUME NEW j \in 1 .. Len(kids[n]) PROVE Skips(f, kids[n][j])
  <2>1. kids[n][j] \in Nodes /\ rank[kids[n][j]] < rank[n]
    BY <1>1, <1>4, KidPlaces
  <2>2. kids[n][j] \notin B
    <3> HIDE DEF B
    <3>1. QED
      BY <1>3, <2>1
  <2>3. QED
    BY <2>1, <2>2
<1> HIDE DEF B
<1>6. ASSUME NEW i \in 1 .. Size(root), Walk[root][i] = n, NEW m \in Nat
      PROVE  f[i][m + 1] = f[i + Size(n)][m]
  <2> DEFINE K == Len(kids[n])
  <2>1. Len(s) = Size(root) /\ Size(root) \in Nat /\ i \in Nat /\ K \in Nat
    BY <1>4, EncodingIs, KidAt, KidPlaces
  <2>2. s[i].kids = K
    BY <1>4, <1>6, EncodingIs, WrittenIs
  <2>3. f[i] = AfterOf(s, f, i) /\ ~(i > Len(s))
    BY <2>1
  <2>4. m + 1 \in Nat /\ m + 1 # 0 /\ K + (m + 1) - 1 = K + m
    BY <2>1
  <2>5. f[i][m + 1] = f[i + 1][K + m]
    <3>1. f[i][m + 1] = f[i + 1][s[i].kids + (m + 1) - 1]
      BY <2>3, <2>4 DEF AfterOf
    <3>2. QED
      BY <2>2, <2>4, <3>1
  <2>6. K \in 0 .. K
    BY <2>1
  <2>7. f[i + 1][K + m] = f[i + Start(n, K + 1)][m]
    <3>1. SkipsBelow(f, n)
      BY <1>5 DEF SkipsBelow
    <3>2. Follows(f, i, n)
      BY <1>6, <3>1, SkipKids
    <3>3. QED
      BY <2>6, <3>2 DEF Follows
  <2>8. Start(n, K + 1) = Size(n)
    BY <1>4, WalkLayout
  <2>9. QED
    BY <2>5, <2>7, <2>8
<1>7. QED
  BY <1>4, <1>6 DEF Skips

\* decodeNode finds every child where encodeNode has written it.
LEMMA ChildrenAre ==
  ASSUME Inv, Ranked, root \in Nodes
  PROVE  /\ DOMAIN Children(Encoding) = 1 .. Size(root)
         /\ \A i \in 1 .. Size(root) :
              Children(Encoding)[i] =
                [j \in 1 .. Len(kids[Walk[root][i]]) |-> i + Start(Walk[root][i], j)]
<1> DEFINE s == Encoding
<1>1. /\ s \in Seq(Records) /\ Len(s) = Size(root) /\ DOMAIN s = 1 .. Size(root)
      /\ \A i \in 1 .. Size(root) : Walk[root][i] \in Nodes /\ s[i].kids = Len(kids[Walk[root][i]])
  <2>1. s \in Seq(Records) /\ Len(s) = Size(root)
    BY EncodingIs
  <2>2. DOMAIN s = 1 .. Size(root)
    BY <2>1, LenProperties
  <2>3. ASSUME NEW i \in 1 .. Size(root)
        PROVE  Walk[root][i] \in Nodes /\ s[i].kids = Len(kids[Walk[root][i]])
    BY KidAt, EncodingIs, WrittenIs
  <2>4. QED
    BY <2>1, <2>2, <2>3
<1>2. \A i \in 1 .. Len(s) : s[i].kids \in Nat
  BY <1>1, KidPlaces
<1>3. PICK f : Decodes(f, s)
  <2> HIDE DEF s
  <2>1. QED
    BY <1>1, <1>2, AfterDefined
<1>4. /\ \A i \in 1 .. Len(s) + 1 : f[i] = AfterOf(s, f, i)
      /\ Children(s) = [i \in DOMAIN s |-> [j \in 1 .. s[i].kids |-> f[i + 1][j - 1]]]
  BY <1>3 DEF Decodes
<1>5. \A n \in Nodes : Skips(f, n)
  BY <1>4, SkipNodes
<1> HIDE DEF s
<1>6. ASSUME NEW i \in 1 .. Size(root), NEW j \in 1 .. Len(kids[Walk[root][i]])
      PROVE  f[i + 1][j - 1] = i + Start(Walk[root][i], j)
  <2> DEFINE n == Walk[root][i]
             K == Len(kids[n])
  <2>1. n \in Nodes /\ K \in Nat /\ i + Start(n, j) \in 1 .. Size(root) /\ Size(root) \in Nat
    BY <1>1, KidAt, KidPlaces
  <2>2. j - 1 \in 0 .. K /\ (j - 1) + 0 = j - 1 /\ (j - 1) + 1 = j
    BY <2>1
  <2>3. \A a \in 0 .. K : \A m \in Nat : f[i + 1][a + m] = f[i + Start(n, a + 1)][m]
    <3>1. SkipsBelow(f, n)
      BY <1>5, <2>1, KidPlaces DEF SkipsBelow
    <3>2. Follows(f, i, n)
      BY <3>1, SkipKids
    <3>3. QED
      BY <3>2 DEF Follows
  <2> HIDE DEF n, K
  <2>4. f[i + 1][(j - 1) + 0] = f[i + Start(n, (j - 1) + 1)][0]
    BY <2>2, <2>3
  <2>5. f[i + Start(n, j)] = AfterOf(s, f, i + Start(n, j))
    BY <1>1, <1>4, <2>1
  <2>6. f[i + Start(n, j)][0] = i + Start(n, j)
    BY <2>5 DEF AfterOf
  <2>7. QED
    BY <2>2, <2>4, <2>6 DEF n
<1>7. ASSUME NEW i \in 1 .. Size(root)
      PROVE  Children(s)[i] =
               [j \in 1 .. Len(kids[Walk[root][i]]) |-> i + Start(Walk[root][i], j)]
  <2>1. Children(s)[i] = [j \in 1 .. Len(kids[Walk[root][i]]) |-> f[i + 1][j - 1]]
    BY <1>1, <1>4
  <2>2. QED
    BY <1>6, <2>1
<1>8. DOMAIN Children(s) = 1 .. Size(root)
  BY <1>1, <1>4
<1>9. QED
  BY <1>7, <1>8 DEF s

-----------------------------------------------------------------------------
\* The tree after Reload: node x is the x-th of the walk.
LEMMA ReloadEffect ==
  ASSUME Inv, Ranked, Reload
  PROVE  /\ root \in Nodes /\ root' = 1 /\ new = 0 /\ new' = 0
         /\ Size(root) \in Nat \ {0}
         /\ at' = [x \in 1 .. Size(root) |-> at[Walk[root][x]]]
         /\ lvl' = [x \in 1 .. Size(root) |-> lvl[Walk[root][x]]]
         /\ at' \in Seq(Vectors) /\ Len(at') = Size(root)
         /\ lvl' \in Seq(Int) /\ Len(lvl') = Size(root)
         /\ Points' = 1 .. Size(root) /\ Nodes' = 1 .. Size(root)
         /\ DOMAIN kids' = 1 .. Size(root)
         /\ \A x \in 1 .. Size(root) :
              kids'[x] = [j \in 1 .. Len(kids[Walk[root][x]]) |-> x + Start(Walk[root][x], j)]
<1>1. root \in Nodes /\ root' = 1 /\ new = 0 /\ new' = 0
  BY DEF Reload, Inv, TypeOK, loop
<1>2. Size(root) \in Nat \ {0}
  BY <1>1, WalkLayout
<1>3. /\ at' = [i \in DOMAIN Encoding |-> Encoding[i].at]
      /\ lvl' = [i \in DOMAIN Encoding |-> Encoding[i].lvl]
      /\ kids' = Children(Encoding)
  BY DEF Reload
<1>4. DOMAIN Encoding = 1 .. Size(root)
  BY <1>1, EncodingIs, LenProperties
<1>5. \A x \in 1 .. Size(root) :
        /\ Walk[root][x] \in Nodes
        /\ Encoding[x].at = at[Walk[root][x]] /\ Encoding[x].lvl = lvl[Walk[root][x]]
        /\ at[Walk[root][x]] \in Vectors /\ lvl[Walk[root][x]] \in Int
  <2>1. \A x \in 1 .. Size(root) : Walk[root][x] \in Nodes /\ Encoding[x] = Written[Walk[root][x]]
    BY <1>1, EncodingIs, KidAt
  <2>2. QED
    BY <2>1, WrittenIs
<1>6. /\ at' = [x \in 1 .. Size(root) |-> at[Walk[root][x]]]
      /\ lvl' = [x \in 1 .. Size(root) |-> lvl[Walk[root][x]]]
  BY <1>3, <1>4, <1>5
<1>7. /\ at' \in Seq(Vectors) /\ Len(at') = Size(root)
      /\ lvl' \in Seq(Int) /\ Len(lvl') = Size(root)
  <2> DEFINE L == Size(root)
  <2>1. L \in Nat
    BY <1>2
  <2> HIDE DEF L
  <2>2. [x \in 1 .. L |-> at[Walk[root][x]]] \in [1 .. L -> Vectors]
    BY <1>5 DEF L
  <2>3. [x \in 1 .. L |-> lvl[Walk[root][x]]] \in [1 .. L -> Int]
    BY <1>5 DEF L
  <2>4. QED
    BY <1>6, <2>1, <2>2, <2>3, FunctionSeq DEF L
<1>8. Points' = 1 .. Size(root)
  BY <1>7 DEF Points
<1>9. Nodes' = 1 .. Size(root)
  <2>1. 0 \notin 1 .. Size(root)
    OBVIOUS
  <2>2. QED
    BY <1>1, <1>8, <2>1 DEF Nodes
<1>10. QED
  BY <1>1, <1>2, <1>3, <1>6, <1>7, <1>8, <1>9, ChildrenAre

\* The children of a node are what its children were.
LEMMA ReloadKids ==
  ASSUME Inv, Ranked, Reload, NEW x \in 1 .. Size(root)
  PROVE  /\ Walk[root][x] \in Nodes
         /\ kids'[x] \in Seq(1 .. Size(root)) /\ Len(kids'[x]) = Len(kids[Walk[root][x]])
         /\ DOMAIN kids'[x] = DOMAIN kids[Walk[root][x]]
         /\ \A j \in DOMAIN kids'[x] :
              /\ kids'[x][j] = x + Start(Walk[root][x], j)
              /\ kids'[x][j] \in 1 .. Size(root) /\ x < kids'[x][j]
              /\ Walk[root][kids'[x][j]] = kids[Walk[root][x]][j]
<1> DEFINE n == Walk[root][x]
           K == Len(kids[n])
<1>1. root \in Nodes
  BY ReloadEffect
<1>2. n \in Nodes /\ K \in Nat /\ DOMAIN kids[n] = 1 .. K /\ x \in Nat
  BY <1>1, KidAt, KidPlaces
<1>3. kids'[x] = [j \in 1 .. K |-> x + Start(n, j)]
  BY ReloadEffect
<1>4. ASSUME NEW j \in 1 .. K
      PROVE  /\ x + Start(n, j) \in 1 .. Size(root) /\ x < x + Start(n, j)
             /\ Walk[root][x + Start(n, j)] = kids[n][j]
  <2>1. /\ Start(n, j) \in Nat \ {0} /\ x + Start(n, j) \in 1 .. Size(root)
        /\ Walk[root][x + Start(n, j)] = kids[n][j]
    BY <1>1, KidAt
  <2>2. QED
    BY <1>2, <2>1
<1> HIDE DEF n, K
<1>5. kids'[x] \in [1 .. K -> 1 .. Size(root)]
  BY <1>3, <1>4
<1>6. kids'[x] \in Seq(1 .. Size(root)) /\ Len(kids'[x]) = K /\ DOMAIN kids'[x] = 1 .. K
  BY <1>2, <1>5, FunctionSeq
<1>7. ASSUME NEW j \in 1 .. K
      PROVE  /\ kids'[x][j] = x + Start(n, j)
             /\ kids'[x][j] \in 1 .. Size(root) /\ x < kids'[x][j]
             /\ Walk[root][kids'[x][j]] = kids[n][j]
  BY <1>3, <1>4
<1>8. QED
  BY <1>2, <1>6, <1>7 DEF n, K

\* Every node is written once.
LEMMA SizeIs ==
  ASSUME Inv, Ranked, root \in Nodes, new = 0
  PROVE  Size(root) = Len(at)
<1> DEFINE L == Size(root)
           N == 1 .. Len(at)
<1>1. Nodes = N /\ Len(at) \in Nat /\ L \in Nat
  <2>1. Len(at) \in Nat
    BY Places
  <2>2. L \in Nat
    BY WalkLayout
  <2>3. QED
    BY <2>1, <2>2 DEF Nodes, Points
<1>2. \A x \in 1 .. L : Walk[root][x] \in N
  BY <1>1, KidAt
<1>3. \A x, y \in 1 .. L : Walk[root][x] = Walk[root][y] => x = y
  BY WalkOnce DEF Once
<1>4. \A n \in N : \E x \in 1 .. L : Walk[root][x] = n
  BY <1>1, WalkMeetsAll
<1> DEFINE w == [x \in 1 .. L |-> Walk[root][x]]
<1> HIDE DEF L, N
<1>5. w \in Bijection(1 .. L, N)
  BY <1>2, <1>3, <1>4 DEF Bijection, Injection, Surjection, IsInjective
<1>6. IsFiniteSet(1 .. L) /\ Cardinality(1 .. L) = L
  BY <1>1, FS_Interval
<1>7. IsFiniteSet(N) /\ Cardinality(N) = Len(at)
  <2> DEFINE M == Len(at)
  <2>1. N = 1 .. M /\ M \in Nat
    BY <1>1 DEF N
  <2> HIDE DEF M
  <2>2. IsFiniteSet(1 .. M) /\ Cardinality(1 .. M) = M
    BY <2>1, FS_Interval
  <2>3. QED
    BY <2>1, <2>2 DEF M
<1>8. Cardinality(1 .. L) = Cardinality(N)
  BY <1>5, <1>6, FS_Bijection DEF ExistsBijection
<1>9. QED
  BY <1>6, <1>7, <1>8 DEF L

\* The tree that was loaded is as well formed as the one that was built.
LEMMA ReloadInv ==
  ASSUME Inv, Ranked, Reload
  PROVE  Inv' /\ Ranked'
<1> DEFINE L == Size(root)
<1>1. /\ root \in Nodes /\ L \in Nat \ {0} /\ Points' = 1 .. L /\ Nodes' = 1 .. L
      /\ root' = 1 /\ new = 0 /\ new' = 0 /\ L = Len(at) /\ 1 \in 1 .. L
  BY ReloadEffect, SizeIs
<1>2. \A x \in 1 .. L :
        /\ Walk[root][x] \in Nodes /\ kids'[x] \in Seq(1 .. L)
        /\ DOMAIN kids'[x] = DOMAIN kids[Walk[root][x]]
        /\ \A j \in DOMAIN kids'[x] :
             /\ kids'[x][j] = x + Start(Walk[root][x], j)
             /\ kids'[x][j] \in 1 .. L /\ x < kids'[x][j]
             /\ Walk[root][kids'[x][j]] = kids[Walk[root][x]][j]
  BY ReloadKids
<1>3. \A x \in 1 .. L : DOMAIN kids[Walk[root][x]] = 1 .. Len(kids[Walk[root][x]])
  BY <1>2, KidPlaces
<1> HIDE DEF L
<1>4. TypeOK'
  <2>1. kids' \in Seq(Seq(1 .. L)) /\ Len(kids') = L
    <3>1. DOMAIN kids' = 1 .. L
      BY ReloadEffect DEF L
    <3>2. kids' = [x \in 1 .. L |-> kids'[x]]
      <4>1. kids' = Children(Encoding)
        BY DEF Reload
      <4>2. QED
        BY <3>1, <4>1 DEF Children
    <3>3. kids' \in [1 .. L -> Seq(1 .. L)]
      BY <1>2, <3>2
    <3>4. QED
      BY <1>1, <3>3, FunctionSeq
  <2>2. node' = node /\ level' = level /\ node \in Points \cup {0} /\ level \in Int
    BY DEF Reload, loop, Inv, TypeOK
  <2>3. node' \in Points' \cup {0}
    BY <1>1, <2>2 DEF Points
  <2>4. /\ at' \in Seq(Vectors) /\ Len(at') = L
        /\ lvl' \in Seq(Int) /\ Len(lvl') = L
    BY ReloadEffect DEF L
  <2>5. QED
    BY <1>1, <2>1, <2>2, <2>3, <2>4 DEF TypeOK
<1>5. NoPointLost'
  <2>1. SUFFICES ASSUME NEW S \in SUBSET (1 .. L), 1 \in S,
                        \A x \in S : Kids(x)' \subseteq S
                 PROVE  S = 1 .. L
    BY <1>1 DEF NoPointLost
  <2>2. SUFFICES ASSUME (1 .. L) \ S # {} PROVE FALSE
    OBVIOUS
  <2>3. PICK x \in (1 .. L) \ S : \A y \in (1 .. L) \ S : x <= y
    <3>1. (1 .. L) \ S \in SUBSET Nat
      BY <1>1
    <3>2. QED
      BY <2>2, <3>1, Least
  <2>4. x \in 1 .. L /\ x # 1
    BY <2>1
  <2>5. PICK y \in 1 .. L :
          y < x /\ \E j \in 1 .. Len(kids[Walk[root][y]]) : x = y + Start(Walk[root][y], j)
    BY <1>1, <2>4, WalkParented DEF Parented, L
  <2>6. y \in S
    BY <1>1, <2>3, <2>4, <2>5
  <2>7. PICK j \in DOMAIN kids'[y] : x = kids'[y][j]
    BY <1>2, <1>3, <2>5
  <2>8. x \in Kids(y)'
    BY <2>7 DEF Kids
  <2>9. QED
    BY <2>1, <2>3, <2>6, <2>8
<1>6. OneParent'
  <2>1. ASSUME NEW x \in 1 .. L, NEW y \in 1 .. L,
               NEW i \in DOMAIN kids'[x], NEW j \in DOMAIN kids'[y], kids'[x][i] = kids'[y][j]
        PROVE  x = y /\ i = j
    <3>1. kids[Walk[root][x]][i] = kids[Walk[root][y]][j]
      BY <1>2, <2>1
    <3>2. /\ Walk[root][x] \in Nodes /\ Walk[root][y] \in Nodes
          /\ i \in DOMAIN kids[Walk[root][x]] /\ j \in DOMAIN kids[Walk[root][y]]
      BY <1>2
    <3>3. Walk[root][x] = Walk[root][y] /\ i = j
      BY <3>1, <3>2 DEF Inv, OneParent
    <3>4. x = y
      BY <1>1, <3>3, WalkOnce DEF Once, L
    <3>5. QED
      BY <3>3, <3>4
  <2>2. ASSUME NEW x \in 1 .. L, NEW i \in DOMAIN kids'[x]
        PROVE  kids'[x][i] # 1 /\ kids'[x][i] \in 1 .. L
    BY <1>1, <1>2
  <2>3. QED
    BY <1>1, <2>1, <2>2 DEF OneParent, Kids
<1>7. Ranked'
  <2> DEFINE r == [x \in 1 .. L |-> L - x]
  <2>1. r \in [1 .. L -> Nat]
    BY <1>1
  <2>2. ASSUME NEW x \in 1 .. L, NEW c \in Kids(x)' PROVE r[c] < r[x]
    <3>1. PICK j \in DOMAIN kids'[x] : c = kids'[x][j]
      BY <2>2 DEF Kids
    <3>2. c \in 1 .. L /\ x < c
      BY <1>2, <3>1
    <3>3. QED
      BY <1>1, <3>2
  <2> HIDE DEF r
  <2>3. QED
    BY <1>1, <2>1, <2>2 DEF Ranked
<1>8. QED
  BY <1>4, <1>5, <1>6, <1>7 DEF Inv

\* It is encoded as the one that was built.
LEMMA ReloadEncoding ==
  ASSUME Inv, Ranked, Reload
  PROVE  Encoding' = Encoding /\ Len(at') = Len(at)
<1> DEFINE L == Size(root)
           w == Preorder(Written)
           f == [x \in 1 .. L |-> w[Walk[root][x]]]
<1>1. /\ root \in Nodes /\ L \in Nat \ {0} /\ Nodes' = 1 .. L /\ 1 \in 1 .. L
      /\ root' = 1 /\ new = 0 /\ Len(at') = L /\ L = Len(at)
      /\ at' = [x \in 1 .. L |-> at[Walk[root][x]]]
      /\ lvl' = [x \in 1 .. L |-> lvl[Walk[root][x]]]
  BY ReloadEffect, SizeIs
<1>2. \A x \in 1 .. L :
        /\ Walk[root][x] \in Nodes /\ Len(kids'[x]) = Len(kids[Walk[root][x]])
        /\ DOMAIN kids'[x] = DOMAIN kids[Walk[root][x]]
        /\ \A j \in DOMAIN kids'[x] :
             /\ kids'[x][j] \in 1 .. L /\ x < kids'[x][j]
             /\ Walk[root][kids'[x][j]] = kids[Walk[root][x]][j]
  BY ReloadKids
<1>3. \A n \in Nodes : w[n] = <<Written[n]>> \o FlattenSeq([i \in DOMAIN kids[n] |-> w[kids[n][i]]])
  <2>1. Written \in [Nodes -> Records]
    BY WrittenIs
  <2>2. QED
    BY <2>1, Walked DEF WalkOf, Parts
<1> HIDE DEF L, w
<1>4. Written' = [x \in 1 .. L |-> Written[Walk[root][x]]]
  <2>1. \A x \in 1 .. L : Written[Walk[root][x]] =
          [at |-> at[Walk[root][x]], lvl |-> lvl[Walk[root][x]], kids |-> Len(kids[Walk[root][x]])]
    BY <1>2 DEF Written
  <2>2. Written' = [x \in 1 .. L |-> [at |-> at'[x], lvl |-> lvl'[x], kids |-> Len(kids'[x])]]
    BY <1>1 DEF Written
  <2>3. \A x \in 1 .. L : [at |-> at'[x], lvl |-> lvl'[x], kids |-> Len(kids'[x])] =
          Written[Walk[root][x]]
    BY <1>1, <1>2, <2>1
  <2>4. QED
    BY <2>2, <2>3
<1> DEFINE Of(g, x) == <<Written'[x]>> \o FlattenSeq([i \in DOMAIN kids'[x] |-> g[kids'[x][i]]])
<1>5. ASSUME NEW x \in 1 .. L PROVE f[x] = Of(f, x)
  <2> DEFINE n == Walk[root][x]
  <2>1. f[x] = <<Written[n]>> \o FlattenSeq([i \in DOMAIN kids[n] |-> w[kids[n][i]]])
    BY <1>2, <1>3
  <2>2. \A i \in DOMAIN kids'[x] : f[kids'[x][i]] = w[kids[n][i]]
    BY <1>2
  <2>3. Written'[x] = Written[n]
    BY <1>4
  <2>4. [i \in DOMAIN kids'[x] |-> f[kids'[x][i]]] = [i \in DOMAIN kids[n] |-> w[kids[n][i]]]
    <3> HIDE DEF f, n
    <3>1. DOMAIN kids'[x] = DOMAIN kids[n]
      BY <1>2 DEF n
    <3>2. QED
      BY <2>2, <3>1
  <2> HIDE DEF f, n
  <2>5. QED
    BY <2>1, <2>3, <2>4
<1> DEFINE u == CHOOSE u : u = [x \in Nodes' |-> Of(u, x)]
<1>6. u = [x \in 1 .. L |-> Of(u, x)]
  <2>1. f = [x \in 1 .. L |-> Of(f, x)]
    <3>1. f = [x \in 1 .. L |-> f[x]]
      OBVIOUS
    <3> HIDE DEF f, Of
    <3>2. QED
      BY <1>5, <3>1
  <2> HIDE DEF f, Of
  <2>2. QED
    BY <1>1, <2>1
<1>7. Encoding' = u[1]
  BY <1>1 DEF Encoding, Preorder
<1> HIDE DEF u
<1>8. \A x \in 1 .. L : u[x] = Of(u, x)
  <2> HIDE DEF Of
  <2>1. QED
    BY <1>6
<1>9. \A x \in 1 .. L : u[x] = f[x]
  <2> DEFINE r == [x \in 1 .. L |-> L - x]
             B == {x \in 1 .. L : u[x] # f[x]}
  <2>1. SUFFICES ASSUME B # {} PROVE FALSE
    OBVIOUS
  <2>2. r \in [1 .. L -> Nat] /\ B \in SUBSET (1 .. L)
    BY <1>1
  <2>3. PICK x \in B : \A y \in B : ~(r[y] < r[x])
    <3> HIDE DEF B, r
    <3>1. QED
      BY <2>1, <2>2, Lowest
  <2>4. x \in 1 .. L /\ u[x] # f[x]
    OBVIOUS
  <2>5. ASSUME NEW i \in DOMAIN kids'[x] PROVE u[kids'[x][i]] = f[kids'[x][i]]
    <3>1. kids'[x][i] \in 1 .. L /\ x < kids'[x][i]
      BY <1>2, <2>4
    <3>2. r[kids'[x][i]] < r[x]
      BY <1>1, <2>4, <3>1
    <3>3. kids'[x][i] \notin B
      <4> HIDE DEF B, r
      <4>1. QED
        BY <2>3, <3>2
    <3> HIDE DEF f
    <3>4. QED
      BY <3>1, <3>3
  <2> HIDE DEF f
  <2>6. Of(u, x) = Of(f, x)
    <3>1. [i \in DOMAIN kids'[x] |-> u[kids'[x][i]]] = [i \in DOMAIN kids'[x] |-> f[kids'[x][i]]]
      BY <2>5
    <3>2. QED
      BY <3>1
  <2> HIDE DEF Of, B
  <2>7. QED
    BY <1>5, <1>8, <2>4, <2>6
<1>10. u[1] = w[Walk[root][1]]
  BY <1>1, <1>9
<1>11. Walk[root][1] = root
  BY <1>1, WalkLayout
<1>12. Encoding = w[root]
  BY <1>1, Places DEF Encoding, w
<1>13. QED
  BY <1>1, <1>7, <1>10, <1>11, <1>12

-----------------------------------------------------------------------------
(* Searching.                                                              *)

\* The search goes by the radii of subtrees, and distances are a metric.
Exact == strategy = "node" /\ Metric

Asked == query \in Queries /\ k \in Nat \ {0}

\* The heap F has no room for n, and no use for it.
Settled(F, n) == Full(F) /\ (Exact => Worst(F) <= Dist(n))

\* F are the points found and P the nodes whose subtrees are yet to come: these
\* are disjoint and untouched, and whatever is outside is settled.
Pending(P, F) ==
  /\ P \subseteq Nodes /\ F \subseteq Nodes /\ Cardinality(F) <= k
  /\ \A p \in P : F \cap Subtree(p) = {}
  /\ \A p, q \in P : p # q => Subtree(p) \cap Subtree(q) = {}
  /\ \A n \in Nodes \ F : (\E p \in P : n \in Subtree(p)) \/ Settled(F, n)

\* Distances from the query are natural numbers.
LEMMA DistNat ==
  ASSUME Inv, Asked, NEW n \in Nodes
  PROVE  Dist(n) \in Nat
BY Places, DistanceAssumption, QueriesAssumption DEF Dist, Asked

\* The worst of a heap is the distance of one of its points, and none is farther.
LEMMA WorstIs ==
  ASSUME Inv, Asked, NEW F \in SUBSET Nodes, F # {}
  PROVE  /\ \E w \in F : Worst(F) = Dist(w)
         /\ \A n \in F : Dist(n) <= Worst(F)
<1> DEFINE f == [n \in F |-> Dist(n)]
<1>1. \A n \in F : f[n] = Dist(n) /\ f[n] \in Int
  BY DistNat
<1>2. F \in SUBSET (1 .. Len(at)) /\ Len(at) \in Nat
  BY Places
<1>3. /\ \E n \in F : Max({f[j] : j \in F}) = f[n]
      /\ \A n \in F : f[n] <= Max({f[j] : j \in F})
  <2> HIDE DEF f
  <2>1. QED
    BY <1>1, <1>2, MaxOf
<1>4. Worst(F) = Max({f[j] : j \in F})
  <2>1. {f[j] : j \in F} = {Dist(n) : n \in F}
    BY <1>1
  <2>2. QED
    BY <2>1 DEF Worst
<1>5. QED
  BY <1>1, <1>3, <1>4

\* A heap is finite, and a full one has a point.
LEMMA FullIsNot ==
  ASSUME Inv, Asked, NEW F \in SUBSET Nodes
  PROVE  IsFiniteSet(F) /\ Cardinality(F) \in Nat /\ (Full(F) => F # {})
<1>1. IsFiniteSet(F)
  BY Places, FS_Subset
<1>2. QED
  BY <1>1, FS_CardinalityType, FS_EmptySet DEF Full, Asked

\* A subtree that is pruned has nothing that the heap has use for.
LEMMA PrunedIsSettled ==
  ASSUME Inv, Ranked, Asked, NEW F \in SUBSET Nodes,
         NEW n \in Nodes, Pruned(n, F), NEW m \in Subtree(n)
  PROVE  Settled(F, m)
<1>1. Full(F) /\ LowerBound(n) >= Worst(F) /\ F # {}
  BY FullIsNot DEF Pruned
<1>2. ASSUME Exact PROVE Worst(F) <= Dist(m)
  <2>1. m \in Nodes /\ at[m] \in Vectors /\ at[n] \in Vectors /\ query \in Vectors
    BY Places, QueriesAssumption DEF Subtree, Asked
  <2>2. Distance(at[n], at[m]) <= Radius[n] /\ Radius[n] \in Nat
    BY <1>2, RadiusCovers, RadiusDefined DEF Exact
  <2>3. Dist(n) <= Dist(m) + Distance(at[n], at[m])
    BY <1>2, <2>1 DEF Exact, Metric, Dist
  <2>4. /\ Dist(n) \in Nat /\ Dist(m) \in Nat /\ Distance(at[n], at[m]) \in Nat
        /\ Worst(F) \in Nat
    BY <1>1, <2>1, DistNat, WorstIs, DistanceAssumption
  <2>5. Dist(n) - Radius[n] >= Worst(F)
    BY <1>1, <1>2 DEF LowerBound, BoundRadius, Exact
  <2>6. QED
    BY <2>2, <2>3, <2>4, <2>5
<1>3. QED
  BY <1>1, <1>2 DEF Settled

\* A point that the heap turns away or drops is settled, and what was settled
\* stays so.
LEMMA AfterSettles ==
  ASSUME Inv, Asked, NEW F \in SUBSET Nodes, Cardinality(F) <= k,
         NEW n \in Nodes \ F, NEW G \in After(F, n)
  PROVE  /\ G \subseteq F \cup {n} /\ Cardinality(G) <= k
         /\ \A m \in (F \cup {n}) \ G : Settled(G, m)
         /\ \A m \in Nodes : Settled(F, m) => Settled(G, m)
<1>0. /\ IsFiniteSet(F) /\ Cardinality(F) \in Nat /\ k \in Nat
      /\ (Full(F) => F # {})
  BY FullIsNot DEF Asked
<1>1. CASE ~Full(F)
  <2>1. G = F \cup {n} /\ Cardinality(G) = Cardinality(F) + 1
    BY <1>0, <1>1, FS_AddElement DEF After
  <2>2. QED
    BY <1>0, <1>1, <2>1 DEF Full, Settled
<1>2. CASE Full(F) /\ Dist(n) < Worst(F)
  <2>1. PICK w \in F : Dist(w) = Worst(F) /\ G = (F \ {w}) \cup {n}
    BY <1>2 DEF After
  <2>2. Full(G)
    <3>1. IsFiniteSet(F \ {w}) /\ Cardinality(F \ {w}) = Cardinality(F) - 1
      BY <1>0, FS_RemoveElement
    <3>2. Cardinality(G) = Cardinality(F \ {w}) + 1
      BY <2>1, <3>1, FS_AddElement
    <3>3. QED
      BY <1>0, <1>2, <3>1, <3>2 DEF Full
  <2>3. G \in SUBSET Nodes /\ G # {} /\ F # {}
    BY <2>1
  <2>4. Worst(G) <= Worst(F) /\ Worst(G) \in Nat /\ Worst(F) \in Nat
    <3>1. PICK g \in G : Worst(G) = Dist(g)
      BY <2>3, WorstIs
    <3>2. Dist(g) \in Nat /\ Worst(F) \in Nat
      BY <2>1, <2>3, DistNat
    <3>3. g \in F \/ g = n
      BY <2>1
    <3>4. Dist(g) <= Worst(F)
      BY <1>2, <2>3, <3>2, <3>3, WorstIs
    <3>5. QED
      BY <3>1, <3>2, <3>4
  <2>5. ASSUME NEW m \in Nodes, Settled(F, m) PROVE Settled(G, m)
    BY <2>2, <2>4, <2>5, DistNat DEF Settled
  <2>6. Settled(G, w)
    BY <2>1, <2>2, <2>4 DEF Settled
  <2>7. QED
    BY <1>0, <2>1, <2>2, <2>5, <2>6 DEF Full
<1>3. CASE Full(F) /\ ~(Dist(n) < Worst(F))
  <2>1. G = F
    BY <1>3 DEF After
  <2>2. Worst(F) \in Nat /\ Dist(n) \in Nat
    BY <1>0, <1>3, WorstIs, DistNat
  <2>3. QED
    BY <1>3, <2>1, <2>2 DEF Settled
<1>4. QED
  BY <1>1, <1>2, <1>3

\* Visiting a pending node, of whose children those left out are pruned.
LEMMA VisitKeeps ==
  ASSUME Inv, Ranked, Asked, NEW P, NEW F, Pending(P, F),
         NEW n \in P, NEW G \in After(F, n),
         NEW K \in SUBSET Kids(n), \A c \in Kids(n) \ K : Pruned(c, G)
  PROVE  Pending((P \ {n}) \cup K, G)
<1> DEFINE Q == (P \ {n}) \cup K
<1>1. /\ P \subseteq Nodes /\ F \in SUBSET Nodes /\ Cardinality(F) <= k
      /\ n \in Nodes /\ Kids(n) \subseteq Nodes
  BY Places DEF Pending
<1>2. n \in Subtree(n)
  BY <1>1, BelowClosed
<1>3. n \notin F
  BY <1>2 DEF Pending
<1>4. /\ G \subseteq F \cup {n} /\ Cardinality(G) <= k
      /\ \A m \in (F \cup {n}) \ G : Settled(G, m)
      /\ \A m \in Nodes : Settled(F, m) => Settled(G, m)
  BY <1>1, <1>3, AfterSettles
<1>5. Q \subseteq Nodes /\ G \subseteq Nodes
  BY <1>1, <1>4
<1>6. ASSUME NEW q \in Q PROVE G \cap Subtree(q) = {}
  <2>1. CASE q \in P \ {n}
    BY <1>2, <1>4, <2>1 DEF Pending
  <2>2. CASE q \in K
    <3>1. Subtree(q) \subseteq Subtree(n) /\ n \notin Subtree(q)
      BY <1>1, <2>2, BelowKids, NotBelowKid
    <3>2. QED
      BY <1>4, <3>1 DEF Pending
  <2>3. QED
    BY <2>1, <2>2
<1>7. ASSUME NEW p \in Q, NEW q \in Q, p # q PROVE Subtree(p) \cap Subtree(q) = {}
  <2>1. ASSUME NEW c \in Kids(n) PROVE Subtree(c) \subseteq Subtree(n)
    BY <1>1, BelowKids
  <2>2. CASE p \in P \ {n} /\ q \in P \ {n}
    BY <1>7, <2>2 DEF Pending
  <2>3. CASE p \in P \ {n} /\ q \in K
    BY <2>1, <2>3 DEF Pending
  <2>4. CASE p \in K /\ q \in P \ {n}
    BY <2>1, <2>4 DEF Pending
  <2>5. CASE p \in K /\ q \in K
    BY <1>1, <1>7, <2>5, SiblingsApart
  <2>6. QED
    BY <2>2, <2>3, <2>4, <2>5
<1>8. ASSUME NEW m \in Nodes \ G PROVE (\E q \in Q : m \in Subtree(q)) \/ Settled(G, m)
  <2>1. CASE m \in F \cup {n}
    BY <1>4, <1>8, <2>1
  <2>2. ASSUME m \notin F \cup {n}, NEW p \in P, m \in Subtree(p)
        PROVE  (\E q \in Q : m \in Subtree(q)) \/ Settled(G, m)
    <3>1. CASE p # n
      BY <2>2, <3>1
    <3>2. CASE p = n
      <4>1. PICK c \in Kids(n) : m \in Subtree(c)
        BY <1>1, <2>2, <3>2, BelowKids
      <4>2. CASE c \in K
        BY <4>1, <4>2
      <4>3. CASE c \notin K
        <5>1. Pruned(c, G) /\ c \in Nodes /\ G \in SUBSET Nodes
          BY <1>1, <1>5, <4>3
        <5>2. QED
          BY <4>1, <5>1, PrunedIsSettled
      <4>4. QED
        BY <4>2, <4>3
    <3>3. QED
      BY <3>1, <3>2
  <2>3. QED
    BY <1>4, <2>1, <2>2 DEF Pending
<1>9. QED
  BY <1>4, <1>5, <1>6, <1>7, <1>8 DEF Pending

\* Leaving a pruned node out.
LEMMA SkipKeeps ==
  ASSUME Inv, Ranked, Asked, NEW P, NEW F, Pending(P, F), NEW n \in P, Pruned(n, F)
  PROVE  Pending(P \ {n}, F)
<1>1. n \in Nodes /\ F \in SUBSET Nodes
  BY DEF Pending
<1>2. \A m \in Subtree(n) : Settled(F, m)
  BY <1>1, PrunedIsSettled
<1>3. QED
  BY <1>2 DEF Pending

\* Leaving the rest of the queue out, when its best node is pruned.
LEMMA EndKeeps ==
  ASSUME Inv, Ranked, Asked, NEW F, Pending(queue, F), NEW n \in Tops, Pruned(n, F)
  PROVE  Pending({}, F)
<1>1. /\ queue \subseteq Nodes /\ F \in SUBSET Nodes /\ F # {} /\ Full(F)
      /\ n \in queue /\ \A m \in queue : LowerBound(n) <= LowerBound(m)
  BY FullIsNot DEF Pending, Tops, Pruned
<1>2. ASSUME NEW q \in queue, Exact PROVE Pruned(q, F)
  <2>1. \A m \in queue : LowerBound(m) \in Int
    <3>1. \A m \in Nodes : Dist(m) \in Nat /\ Radius[m] \in Nat
      BY DistNat, RadiusDefined
    <3>2. QED
      BY <1>1, <1>2, <3>1 DEF LowerBound, BoundRadius, Exact
  <2>2. Worst(F) \in Nat
    BY <1>1, WorstIs, DistNat
  <2>3. QED
    BY <1>1, <2>1, <2>2 DEF Pruned
<1>3. ASSUME NEW q \in queue, NEW m \in Subtree(q) PROVE Settled(F, m)
  BY <1>1, <1>2, <1>3, PrunedIsSettled DEF Settled
<1>4. QED
  BY <1>3 DEF Pending

-----------------------------------------------------------------------------
(* The search of a tree that was built or loaded.                          *)

\* What is below the stack is pending once.
StackIs(s, P) ==
  /\ s \in Seq(Nodes) /\ P = {s[i] : i \in DOMAIN s}
  /\ \A i, j \in DOMAIN s : s[i] = s[j] => i = j

Searching ==
  /\ phase = "idle" => found = {}
  /\ phase # "idle" => new = 0 /\ Asked /\ k <= Len(at)
  /\ phase # "best" => queue = {}
  /\ phase # "depth" => stack = <<>>
  /\ phase = "best" => Pending(queue, found)
  /\ phase = "depth" => \E P : StackIs(stack, P) /\ Pending(P, found)
  /\ phase = "answer" => Pending({}, found)

SearchInv == Inv /\ Ranked /\ Searching

\* A search changes neither the tree nor what is asked.
LEMMA PendingStays ==
  ASSUME UNCHANGED <<vars, strategy, query, k>>
  PROVE  /\ Pending(queue', found') => Pending(queue, found)'
         /\ Pending({}, found') => Pending({}, found)'
         /\ (\E P : StackIs(stack', P) /\ Pending(P, found'))
              => (\E P : StackIs(stack, P) /\ Pending(P, found))'
<1>1. /\ at' = at /\ kids' = kids /\ new' = new
      /\ strategy' = strategy /\ query' = query /\ k' = k
  BY DEF vars, tree, loop
<1>2. Nodes' = Nodes /\ \A n : Kids(n)' = Kids(n)
  BY <1>1 DEF Nodes, Points, Kids
<1>3. \A n : Subtree(n)' = Subtree(n)
  BY <1>2 DEF Subtree, Closed
<1>4. \A n : Dist(n)' = Dist(n)
  BY <1>1 DEF Dist
<1>5. \A n : Settled(found, n)' = Settled(found', n)
  BY <1>1, <1>4 DEF Settled, Full, Worst, Exact, Metric
<1>6. \A P : Pending(P, found)' = Pending(P, found')
  BY <1>1, <1>2, <1>3, <1>5 DEF Pending
<1>7. Pending(queue, found)' = Pending(queue', found')
  BY <1>1, <1>2, <1>3, <1>5 DEF Pending
<1>8. Pending({}, found)' = Pending({}, found')
  BY <1>1, <1>2, <1>3, <1>5 DEF Pending
<1>9. \A P : StackIs(stack, P)' = StackIs(stack', P)
  BY <1>2 DEF StackIs
<1>10. QED
  BY <1>6, <1>7, <1>8, <1>9

\* The root is where a search begins: all is below it, nothing is found.
LEMMA BeginPending ==
  ASSUME Inv, new = 0, NEW n \in 1 .. Len(at)
  PROVE  /\ root \in Nodes
         /\ Nodes = 1 .. Len(at)
         /\ \A i \in Nodes : i \in Subtree(root)
<1>1. TypeOK /\ Len(at) \in Nat
  BY Places DEF Inv
<1>2. Nodes = 1 .. Len(at)
  BY <1>1 DEF Nodes, Points
<1>3. root \in Nodes
  BY <1>1, <1>2 DEF TypeOK, Points
<1>4. QED
  BY <1>2, <1>3, AllBelowRoot

\* The stack without its head has the rest pending.
LEMMA TailIs ==
  ASSUME NEW s, NEW P, StackIs(s, P), s # <<>>
  PROVE  Head(s) \in P /\ StackIs(Tail(s), P \ {Head(s)})
<1>1. /\ s \in Seq(Nodes) /\ P = {s[i] : i \in DOMAIN s}
      /\ \A i, j \in DOMAIN s : s[i] = s[j] => i = j
  BY DEF StackIs
<1>2. /\ Tail(s) \in Seq(Nodes) /\ Len(s) \in Nat \ {0} /\ Len(Tail(s)) = Len(s) - 1
      /\ DOMAIN s = 1 .. Len(s) /\ DOMAIN Tail(s) = 1 .. (Len(s) - 1)
      /\ \A i \in DOMAIN Tail(s) : Tail(s)[i] = s[i + 1]
      /\ Head(s) = s[1]
  BY <1>1, EmptySeq, HeadTailProperties
<1>3. Head(s) \in P
  BY <1>1, <1>2
<1>4. P \ {Head(s)} = {Tail(s)[i] : i \in DOMAIN Tail(s)}
  <2>1. ASSUME NEW x \in P \ {Head(s)} PROVE x \in {Tail(s)[i] : i \in DOMAIN Tail(s)}
    <3>1. PICK i \in DOMAIN s : x = s[i]
      BY <1>1
    <3>2. i - 1 \in DOMAIN Tail(s) /\ (i - 1) + 1 = i
      BY <1>2, <2>1, <3>1
    <3>3. QED
      BY <1>2, <3>1, <3>2
  <2>2. ASSUME NEW i \in DOMAIN Tail(s) PROVE Tail(s)[i] \in P \ {Head(s)}
    <3>1. i + 1 \in DOMAIN s /\ 1 \in DOMAIN s /\ i + 1 # 1
      BY <1>2
    <3>2. QED
      BY <1>1, <1>2, <3>1
  <2>3. QED
    BY <2>1, <2>2
<1>5. \A i, j \in DOMAIN Tail(s) : Tail(s)[i] = Tail(s)[j] => i = j
  <2>1. SUFFICES ASSUME NEW i \in DOMAIN Tail(s), NEW j \in DOMAIN Tail(s),
                        Tail(s)[i] = Tail(s)[j]
                 PROVE  i = j
    OBVIOUS
  <2>2. i + 1 \in DOMAIN s /\ j + 1 \in DOMAIN s /\ i \in Int /\ j \in Int
    BY <1>2
  <2>3. i + 1 = j + 1
    BY <1>1, <1>2, <2>1, <2>2
  <2>4. QED
    BY <2>2, <2>3
<1>6. QED
  BY <1>2, <1>3, <1>4, <1>5 DEF StackIs

\* Two stacks with nothing in common, one on the other.
LEMMA OnTop ==
  ASSUME NEW s, NEW t, NEW P, NEW Q, StackIs(s, P), StackIs(t, Q), P \cap Q = {}
  PROVE  StackIs(s \o t, P \cup Q)
<1>1. /\ s \in Seq(Nodes) /\ P = {s[i] : i \in DOMAIN s}
      /\ t \in Seq(Nodes) /\ Q = {t[i] : i \in DOMAIN t}
      /\ \A i, j \in DOMAIN s : s[i] = s[j] => i = j
      /\ \A i, j \in DOMAIN t : t[i] = t[j] => i = j
  BY DEF StackIs
<1> DEFINE u == s \o t
<1>2. /\ u \in Seq(Nodes) /\ Len(s) \in Nat /\ Len(t) \in Nat
      /\ DOMAIN s = 1 .. Len(s) /\ DOMAIN t = 1 .. Len(t)
      /\ DOMAIN u = 1 .. (Len(s) + Len(t))
      /\ \A i \in 1 .. (Len(s) + Len(t)) :
           u[i] = IF i <= Len(s) THEN s[i] ELSE t[i - Len(s)]
  BY <1>1, ConcatProperties
<1>3. \A i \in DOMAIN u :
        \/ (i \in DOMAIN s /\ u[i] = s[i] /\ u[i] \in P)
        \/ (i - Len(s) \in DOMAIN t /\ u[i] = t[i - Len(s)] /\ u[i] \in Q)
  <2> HIDE DEF u
  <2>1. SUFFICES ASSUME NEW i \in DOMAIN u
                 PROVE  \/ (i \in DOMAIN s /\ u[i] = s[i] /\ u[i] \in P)
                        \/ (i - Len(s) \in DOMAIN t /\ u[i] = t[i - Len(s)] /\ u[i] \in Q)
    OBVIOUS
  <2>2. i \in 1 .. (Len(s) + Len(t))
    BY <1>2
  <2>3. CASE i <= Len(s)
    <3>1. i \in DOMAIN s /\ u[i] = s[i]
      BY <1>2, <2>2, <2>3
    <3>2. QED
      BY <1>1, <3>1
  <2>4. CASE ~(i <= Len(s))
    <3>1. i - Len(s) \in DOMAIN t /\ u[i] = t[i - Len(s)]
      BY <1>2, <2>2, <2>4
    <3>2. QED
      BY <1>1, <3>1
  <2>5. QED
    BY <2>3, <2>4
<1>4. \A x \in P \cup Q : \E i \in DOMAIN u : u[i] = x
  <2> HIDE DEF u
  <2>1. \A i \in DOMAIN s : i \in DOMAIN u /\ u[i] = s[i]
    BY <1>2
  <2>2. ASSUME NEW i \in DOMAIN t PROVE i + Len(s) \in DOMAIN u /\ u[i + Len(s)] = t[i]
    BY <1>2
  <2>3. QED
    BY <1>1, <2>1, <2>2
<1>5. P \cup Q = {u[i] : i \in DOMAIN u}
  <2> HIDE DEF u
  <2>1. QED
    BY <1>3, <1>4
<1>6. ASSUME NEW i \in DOMAIN u, NEW j \in DOMAIN u, u[i] = u[j] PROVE i = j
  <2> HIDE DEF u
  <2>1. i \in Int /\ j \in Int /\ Len(s) \in Int
    BY <1>2
  <2>2. QED
    BY <1>1, <1>3, <1>6, <2>1
<1>7. QED
  BY <1>2, <1>5, <1>6 DEF StackIs

\* The children of a node by distance, each once.
LEMMA SortedIs ==
  ASSUME Inv, NEW n \in Nodes, NEW s \in SortedKids(n)
  PROVE  StackIs(s, Kids(n))
<1> DEFINE D == DOMAIN kids[n]
<1>1. /\ kids[n] \in Seq(Points) /\ Kids(n) \subseteq Nodes
      /\ Len(kids[n]) \in Nat /\ D = 1 .. Len(kids[n])
  BY Family, Places DEF Inv, Nodes
<1>2. s \in Injection(D, Kids(n))
  BY DEF SortedKids, Injection, IsInjective
<1>3. kids[n] \in Bijection(D, Kids(n))
  <2>1. \A i, j \in D : kids[n][i] = kids[n][j] => i = j
    BY DEF Inv, OneParent
  <2>2. kids[n] \in [D -> Kids(n)]
    BY <1>1 DEF Kids
  <2>3. \A c \in Kids(n) : \E i \in D : kids[n][i] = c
    BY DEF Kids
  <2>4. QED
    BY <2>1, <2>2, <2>3 DEF Bijection, Injection, Surjection, IsInjective
<1>4. IsFiniteSet(D)
  BY <1>1, FS_Interval
<1>5. IsFiniteSet(Kids(n)) /\ Cardinality(D) = Cardinality(Kids(n))
  BY <1>3, <1>4, FS_Bijection DEF ExistsBijection
<1>6. s \in Surjection(D, Kids(n))
  BY <1>2, <1>5, FS_Injection
<1>7. DOMAIN s = D /\ s \in [1 .. Len(kids[n]) -> Nodes]
  BY <1>1 DEF SortedKids
<1>8. s \in Seq(Nodes)
  BY <1>1, <1>7
<1>9. Kids(n) = {s[i] : i \in DOMAIN s}
  BY <1>6, <1>7 DEF Surjection
<1>10. QED
  BY <1>7, <1>8, <1>9 DEF StackIs, SortedKids

-----------------------------------------------------------------------------
(* The steps of a search.                                                  *)

\* The tree stays as it is, or grows as Insert makes it.
LEMMA TreeKept ==
  ASSUME Inv, Ranked, [Next]_vars
  PROVE  Inv' /\ Ranked'
BY StepTypeOK, StepNoPointLost, StepOneParent, StepRanked DEF Inv

\* At first there is nothing to search.
LEMMA InitSearchInv == InitSearch => SearchInv
<1> SUFFICES ASSUME InitSearch PROVE SearchInv
  OBVIOUS
<1>1. Inv /\ Nodes = {}
  BY InitInv DEF InitSearch, Init, Nodes, Points
<1>2. Ranked
  <2>1. [n \in Nodes |-> 0] \in [Nodes -> Nat]
    OBVIOUS
  <2>2. QED
    BY <1>1, <2>1 DEF Ranked
<1>3. Searching
  BY DEF InitSearch, Init, Searching
<1>4. QED
  BY <1>1, <1>2, <1>3 DEF SearchInv

\* Begin: all is below the root.
LEMMA StepBegin ==
  ASSUME Inv, Ranked, Searching,
         NEW s \in Strategies, NEW q \in Queries, NEW n \in 1 .. MaxK, Begin(s, q, n)
  PROVE  Searching'
<1>1. /\ vars' = vars /\ found' = found /\ found = {}
      /\ n \in 1 .. Len(at) /\ query' = q /\ k' = n /\ new = 0
  BY DEF Begin, Searching
<1>2. /\ at' = at /\ kids' = kids /\ new' = new
  BY <1>1 DEF vars, tree, loop
<1>3. /\ Nodes' = Nodes /\ \A i : Kids(i)' = Kids(i)
      /\ Len(at) \in Nat /\ Len(at') = Len(at)
  BY <1>2, Places DEF Nodes, Points, Kids
<1>4. \A i : Subtree(i)' = Subtree(i)
  BY <1>3 DEF Subtree, Closed
<1>5. root \in Nodes /\ \A i \in Nodes : i \in Subtree(root)
  BY <1>1, BeginPending
<1>6. k' \in Nat \ {0} /\ k' <= Len(at') /\ Asked' /\ new' = 0
  BY <1>1, <1>2, <1>3 DEF Asked
<1>7. Cardinality({}) = 0
  BY FS_EmptySet
<1>8. CASE phase' = "best" /\ queue' = {root} /\ stack' = <<>>
  <2>1. Pending(queue, found)'
    BY <1>1, <1>3, <1>4, <1>5, <1>6, <1>7, <1>8 DEF Pending
  <2>2. QED
    BY <1>6, <1>8, <2>1 DEF Searching
<1>9. CASE phase' = "depth" /\ stack' = <<root>> /\ queue' = {}
  <2>1. ASSUME NEW P, P = {root} PROVE StackIs(stack, P)' /\ Pending(P, found)'
    <3>1. Pending(P, found)'
      BY <1>1, <1>3, <1>4, <1>5, <1>6, <1>7, <2>1 DEF Pending
    <3>2. StackIs(stack, P)'
      BY <1>3, <1>5, <1>9, <2>1 DEF StackIs
    <3>3. QED
      BY <3>1, <3>2
  <2>2. QED
    BY <1>6, <1>9, <2>1 DEF Searching
<1>10. QED
  BY <1>8, <1>9 DEF Begin

\* What the visiting steps leave alone.
LEMMA SearchStays ==
  ASSUME Searching, phase # "idle", UNCHANGED <<vars, asked>>
  PROVE  /\ UNCHANGED <<vars, strategy, query, k>>
         /\ new' = 0 /\ Asked' /\ (k <= Len(at))'
         /\ Asked
BY DEF Searching, Asked, asked, vars, tree, loop

\* VisitBest: the node that was popped is in the heap or settled, and the
\* children that it does not queue are pruned.
LEMMA StepVisitBest ==
  ASSUME Inv, Ranked, Searching, VisitBest
  PROVE  Searching'
<1>1. /\ phase = "best" /\ phase' = phase /\ stack' = stack /\ stack = <<>>
      /\ UNCHANGED <<vars, asked>> /\ Pending(queue, found)
  BY DEF VisitBest, Searching
<1>2. /\ UNCHANGED <<vars, strategy, query, k>>
      /\ new' = 0 /\ Asked' /\ (k <= Len(at))' /\ Asked
  BY <1>1, SearchStays
<1>3. PICK top \in Tops :
        /\ found' \in After(found, top)
        /\ queue' = (queue \ {top}) \cup {c \in Kids(top) : ~Pruned(c, found')}
  BY DEF VisitBest
<1>4. top \in queue
  BY DEF Tops
<1>5. Pending(queue', found')
  <2> DEFINE K == {c \in Kids(top) : ~Pruned(c, found')}
  <2>1. K \in SUBSET Kids(top) /\ \A c \in Kids(top) \ K : Pruned(c, found')
    OBVIOUS
  <2> HIDE DEF K
  <2>2. Pending((queue \ {top}) \cup K, found')
    BY <1>1, <1>2, <1>3, <1>4, <2>1, VisitKeeps
  <2>3. QED
    BY <1>3, <2>2 DEF K
<1>6. Pending(queue, found)'
  BY <1>2, <1>5, PendingStays
<1>7. QED
  BY <1>1, <1>2, <1>6 DEF Searching

\* EndBest: what is still queued is no better than the node that is pruned.
LEMMA StepEndBest ==
  ASSUME Inv, Ranked, Searching, EndBest
  PROVE  Searching'
<1>1. /\ phase = "best" /\ phase' = "answer" /\ stack' = stack /\ stack = <<>>
      /\ UNCHANGED <<vars, asked>> /\ Pending(queue, found)
      /\ queue' = {} /\ found' = found
  BY DEF EndBest, Searching
<1>2. /\ UNCHANGED <<vars, strategy, query, k>>
      /\ new' = 0 /\ Asked' /\ (k <= Len(at))' /\ Asked
  BY <1>1, SearchStays
<1>3. Pending({}, found)
  <2>1. CASE queue = {}
    BY <1>1, <2>1
  <2>2. ASSUME NEW top \in Tops, Pruned(top, found) PROVE Pending({}, found)
    BY <1>1, <1>2, <2>2, EndKeeps
  <2>3. QED
    BY <2>1, <2>2 DEF EndBest
<1>4. Pending({}, found)'
  BY <1>1, <1>2, <1>3, PendingStays
<1>5. QED
  BY <1>1, <1>2, <1>4 DEF Searching

\* VisitDepth: the children take the place of the node on the stack.
LEMMA StepVisitDepth ==
  ASSUME Inv, Ranked, Searching, VisitDepth
  PROVE  Searching'
<1>1. /\ phase = "depth" /\ phase' = phase /\ queue' = queue /\ queue = {}
      /\ UNCHANGED <<vars, asked>> /\ stack # <<>>
      /\ found' \in After(found, Head(stack))
  BY DEF VisitDepth, Searching
<1>2. /\ UNCHANGED <<vars, strategy, query, k>>
      /\ new' = 0 /\ Asked' /\ (k <= Len(at))' /\ Asked
  BY <1>1, SearchStays
<1>3. PICK P : StackIs(stack, P) /\ Pending(P, found)
  BY <1>1 DEF Searching
<1>4. PICK s \in SortedKids(Head(stack)) : stack' = s \o Tail(stack)
  BY DEF VisitDepth
<1> DEFINE n == Head(stack)
<1>5. n \in P /\ StackIs(Tail(stack), P \ {n}) /\ n \in Nodes
  BY <1>1, <1>3, TailIs DEF Pending
<1> HIDE DEF n
<1>6. StackIs(s, Kids(n))
  BY <1>4, <1>5, SortedIs DEF n
<1>7. Kids(n) \cap (P \ {n}) = {}
  <2>1. ASSUME NEW c \in Kids(n), c \in P, c # n PROVE FALSE
    <3>1. c \in Nodes /\ c \in Subtree(c) /\ Subtree(c) \subseteq Subtree(n)
      BY <1>5, <2>1, Places, BelowClosed, BelowKids
    <3>2. QED
      BY <1>3, <1>5, <2>1, <3>1 DEF Pending
  <2>2. QED
    BY <2>1
<1>8. StackIs(stack', Kids(n) \cup (P \ {n}))
  BY <1>4, <1>5, <1>6, <1>7, OnTop
<1>9. Pending((P \ {n}) \cup Kids(n), found')
  <2>1. /\ Kids(n) \in SUBSET Kids(n)
        /\ \A c \in Kids(n) \ Kids(n) : Pruned(c, found')
        /\ found' \in After(found, n)
    BY <1>1 DEF n
  <2>2. QED
    BY <1>2, <1>3, <1>5, <2>1, VisitKeeps
<1>10. Kids(n) \cup (P \ {n}) = (P \ {n}) \cup Kids(n)
  OBVIOUS
<1>11. (\E R : StackIs(stack, R) /\ Pending(R, found))'
  BY <1>2, <1>8, <1>9, <1>10, PendingStays
<1>12. QED
  BY <1>1, <1>2, <1>11 DEF Searching

\* SkipDepth: the node that is pruned comes off the stack.
LEMMA StepSkipDepth ==
  ASSUME Inv, Ranked, Searching, SkipDepth
  PROVE  Searching'
<1>1. /\ phase = "depth" /\ phase' = phase /\ queue' = queue /\ queue = {}
      /\ UNCHANGED <<vars, asked>> /\ stack # <<>>
      /\ found' = found /\ stack' = Tail(stack) /\ Pruned(Head(stack), found)
  BY DEF SkipDepth, Searching
<1>2. /\ UNCHANGED <<vars, strategy, query, k>>
      /\ new' = 0 /\ Asked' /\ (k <= Len(at))' /\ Asked
  BY <1>1, SearchStays
<1>3. PICK P : StackIs(stack, P) /\ Pending(P, found)
  BY <1>1 DEF Searching
<1>4. Head(stack) \in P /\ StackIs(Tail(stack), P \ {Head(stack)})
  BY <1>1, <1>3, TailIs
<1>5. Pending(P \ {Head(stack)}, found)
  BY <1>1, <1>2, <1>3, <1>4, SkipKeeps
<1>6. (\E R : StackIs(stack, R) /\ Pending(R, found))'
  BY <1>1, <1>2, <1>4, <1>5, PendingStays
<1>7. QED
  BY <1>1, <1>2, <1>6 DEF Searching

\* EndDepth: nothing is left on the stack.
LEMMA StepEndDepth ==
  ASSUME Inv, Ranked, Searching, EndDepth
  PROVE  Searching'
<1>1. /\ phase = "depth" /\ phase' = "answer" /\ queue' = queue /\ queue = {}
      /\ UNCHANGED <<vars, asked>> /\ stack = <<>>
      /\ found' = found /\ stack' = stack
  BY DEF EndDepth, Searching
<1>2. /\ UNCHANGED <<vars, strategy, query, k>>
      /\ new' = 0 /\ Asked' /\ (k <= Len(at))' /\ Asked
  BY <1>1, SearchStays
<1>3. PICK P : StackIs(stack, P) /\ Pending(P, found)
  BY <1>1 DEF Searching
<1>4. P = {}
  BY <1>1, <1>3 DEF StackIs
<1>5. Pending({}, found)'
  BY <1>1, <1>2, <1>3, <1>4, PendingStays
<1>6. QED
  BY <1>1, <1>2, <1>5 DEF Searching

\* Build, Reload and Return: no search is under way after them.
LEMMA StepIdle ==
  ASSUME Searching, Build \/ Reload \/ Return
  PROVE  Searching'
BY DEF Searching, Build, Reload, Return, loop, search, asked

\* Every step of a search, of Insert, of Return and of Reload keeps the invariant.
LEMMA StepSearch ==
  ASSUME SearchInv, [NextSearch]_allVars
  PROVE  SearchInv'
<1>1. Inv /\ Ranked /\ Searching
  BY DEF SearchInv
<1>2. CASE Reload
  BY <1>1, <1>2, ReloadInv, StepIdle DEF SearchInv
<1>3. CASE ~Reload
  <2>1. [Next]_vars
    BY <1>3 DEF NextSearch, Build, Begin, VisitBest, EndBest, VisitDepth, SkipDepth,
                EndDepth, Return, allVars
  <2>2. Inv' /\ Ranked'
    BY <1>1, <2>1, TreeKept
  <2>3. Searching'
    <3>1. CASE Build \/ Return
      BY <1>1, <3>1, StepIdle
    <3>2. CASE \E s \in Strategies, q \in Queries, n \in 1 .. MaxK : Begin(s, q, n)
      BY <1>1, <3>2, StepBegin
    <3>3. CASE VisitBest
      BY <1>1, <3>3, StepVisitBest
    <3>4. CASE EndBest
      BY <1>1, <3>4, StepEndBest
    <3>5. CASE VisitDepth
      BY <1>1, <3>5, StepVisitDepth
    <3>6. CASE SkipDepth
      BY <1>1, <3>6, StepSkipDepth
    <3>7. CASE EndDepth
      BY <1>1, <3>7, StepEndDepth
    <3>8. CASE UNCHANGED allVars
      <4>1. UNCHANGED <<vars, strategy, query, k>> /\ UNCHANGED <<phase, found, queue, stack>>
        BY <3>8 DEF allVars, search, asked
      <4>2. at' = at /\ new' = new
        BY <4>1 DEF vars, tree, loop
      <4>3. QED
        BY <1>1, <4>1, <4>2, PendingStays DEF Searching, Asked
    <3>9. QED
      BY <1>3, <3>1, <3>2, <3>3, <3>4, <3>5, <3>6, <3>7, <3>8 DEF NextSearch
  <2>4. QED
    BY <2>2, <2>3 DEF SearchInv
<1>4. QED
  BY <1>2, <1>3

\* The invariant of the searches.
LEMMA SearchInvariance == SpecSearch => []SearchInv
<1>1. SearchInv /\ [NextSearch]_allVars => SearchInv'
  BY StepSearch
<1>2. QED
  BY InitSearchInv, <1>1, PTL DEF SpecSearch

-----------------------------------------------------------------------------
\* Whatever it prunes by, and whatever the distance function, a search of a
\* tree that was built or loaded returns as many points as it is asked for.
THEOREM AnswersFull == SpecSearch => []AnswerIsFull
<1>1. SearchInv => AnswerIsFull
  <2> SUFFICES ASSUME SearchInv, phase = "answer" PROVE Full(found)
    BY DEF AnswerIsFull
  <2>1. Inv /\ Asked /\ k <= Len(at) /\ new = 0 /\ Pending({}, found)
    BY DEF SearchInv, Searching
  <2>2. CASE \E n \in Nodes : n \notin found
    BY <2>1, <2>2 DEF Pending, Settled
  <2>3. CASE \A n \in Nodes : n \in found
    <3>1. found = Nodes /\ Cardinality(found) <= k /\ k \in Nat
      BY <2>1, <2>3 DEF Pending, Asked
    <3>2. Len(at) \in Nat /\ Nodes = 1 .. Len(at)
      BY <2>1, Places DEF Nodes, Points
    <3>3. Cardinality(Nodes) = Len(at)
      <4> DEFINE M == Len(at)
      <4>1. M \in Nat /\ Nodes = 1 .. M
        BY <3>2
      <4> HIDE DEF M
      <4>2. Cardinality(1 .. M) = M
        BY <4>1, FS_Interval
      <4>3. QED
        BY <4>1, <4>2 DEF M
    <3>4. QED
      BY <2>1, <3>1, <3>2, <3>3 DEF Full
  <2>4. QED
    BY <2>2, <2>3
<1>2. QED
  BY <1>1, SearchInvariance, PTL

\* When the distance is a metric and the bounds are those of subtrees, both
\* searches answer as a scan of all points would, of a tree that was built and
\* of the tree that was loaded in its place.
THEOREM SearchesExact ==
  ASSUME Metric
  PROVE  SpecSearch => []SearchIsExact
<1>1. SearchInv => SearchIsExact
  <2> SUFFICES ASSUME SearchInv, phase = "answer", strategy = "node",
                      NEW f \in found, NEW n \in Nodes \ found
               PROVE  Dist(f) <= Dist(n)
    BY DEF SearchIsExact
  <2>1. Inv /\ Asked /\ found \in SUBSET Nodes /\ Settled(found, n)
    BY DEF SearchInv, Searching, Pending
  <2>2. Worst(found) <= Dist(n) /\ found # {}
    BY <2>1 DEF Settled, Exact
  <2>3. Dist(f) <= Worst(found) /\ Worst(found) \in Nat
    BY <2>1, <2>2, WorstIs, DistNat
  <2>4. Dist(f) \in Nat /\ Dist(n) \in Nat
    BY <2>1, DistNat
  <2>5. QED
    BY <2>2, <2>3, <2>4
<1>2. QED
  BY <1>1, SearchInvariance, PTL

\* decodeNode gives back what encodeNode was given: every node of the tree with
\* its vector, its level and its children in their order.
THEOREM ReloadKeepsTree == SpecSearch => TreeSurvivesReload
<1>1. SearchInv /\ [NextSearch]_allVars =>
        [loaded' # loaded => Encoding' = Encoding /\ Len(at') = Len(at)]_allVars
  <2> SUFFICES ASSUME SearchInv, [NextSearch]_allVars, loaded' # loaded
               PROVE  Encoding' = Encoding /\ Len(at') = Len(at)
    OBVIOUS
  <2>1. Reload
    BY DEF NextSearch, Build, Begin, VisitBest, EndBest, VisitDepth, SkipDepth,
           EndDepth, Return, allVars, search
  <2>2. QED
    BY <2>1, ReloadEncoding DEF SearchInv
<1>2. QED
  BY <1>1, SearchInvariance, PTL DEF SpecSearch, TreeSurvivesReload

\* And it gives a tree back: of all the points, each met once from the root.
THEOREM LoadedTree == SpecSearch => [](TypeOK /\ NoPointLost /\ OneParent)
<1>1. SearchInv => TypeOK /\ NoPointLost /\ OneParent
  BY DEF SearchInv, Inv
<1>2. QED
  BY <1>1, SearchInvariance, PTL

\* Every turn of the loop that is not its last goes down into a smaller subtree
\* or up by a level towards the node it stays at, whatever the distances are: so
\* the loop of insert ends.
THEOREM TurnsEnd == SpecSearch => TurnsBringTheEnd
<1> DEFINE Nearer == \/ new' = 0
                     \/ Ahead' < Ahead
                     \/ Ahead' = Ahead /\ Climb' < Climb
<1>1. ASSUME SearchInv, [NextSearch]_allVars, new # 0, vars' # vars
      PROVE  Nearer
  <2>1. Inv /\ Ranked /\ TypeOK
    BY <1>1 DEF SearchInv, Inv
  <2>2. Turn
    BY <1>1 DEF NextSearch, Build, Next, Insert, Reload, Begin, VisitBest, EndBest,
       VisitDepth, SkipDepth, EndDepth, Return, allVars
  <2>3. node \in Nodes /\ lvl[node] \in Int /\ level \in Int
    <3>1. node \in Nodes /\ level \in Int /\ node \in Points
      BY <1>1, <2>1, Inserting, Family
    <3>2. lvl \in Seq(Int) /\ node \in 1 .. Len(lvl)
      BY <2>1, <3>1 DEF TypeOK, Points
    <3>3. QED
      BY <3>1, <3>2, ElementOfSeq
  <2>4. IsFiniteSet(Nodes)
    <3>1. Len(at) \in Nat
      BY <2>1 DEF TypeOK
    <3>2. IsFiniteSet(Points)
      <4> DEFINE M == Len(at)
      <4> HIDE DEF M
      <4>1. M \in Nat /\ Points = 1 .. M
        BY <3>1 DEF M, Points
      <4>2. QED
        BY <4>1, FS_Interval
    <3>3. QED
      BY <3>2, FS_Subset DEF Nodes
  <2>5. CASE Descend
    <3>1. node' \in Kids(node) /\ Nodes' = Nodes /\ kids' = kids
      BY <2>5 DEF Descend, CloseBy, NearKids, Kids, tree, Nodes, Points
    <3>2. Subtree(node)' = Subtree(node')
      BY <3>1 DEF Subtree, Closed, Kids
    <3>3. /\ Subtree(node') \subseteq Subtree(node) /\ Subtree(node) \subseteq Nodes
          /\ node \in Subtree(node) /\ node \notin Subtree(node')
      BY <2>1, <2>3, <3>1, BelowKids, BelowClosed, NotBelowKid
    <3>4. IsFiniteSet(Subtree(node))
      BY <2>4, <3>3, FS_Subset
    <3>5. Cardinality(Subtree(node')) < Cardinality(Subtree(node))
      <4>1. /\ Cardinality(Subtree(node')) <= Cardinality(Subtree(node))
            /\ Cardinality(Subtree(node)) # Cardinality(Subtree(node'))
            /\ IsFiniteSet(Subtree(node'))
        BY <3>3, <3>4, FS_Subset
      <4>2. Cardinality(Subtree(node')) \in Nat /\ Cardinality(Subtree(node)) \in Nat
        BY <3>4, <4>1, FS_CardinalityType
      <4>3. QED
        BY <4>1, <4>2
    <3>6. QED
      BY <3>2, <3>5 DEF Ahead
  <2>6. CASE Rise
    <3>1. /\ UNCHANGED <<kids, lvl, at, new, node>>
          /\ level' = level + 1 /\ level + 1 <= lvl[node]
      BY <2>6 DEF Rise, tree
    <3>2. Ahead' = Ahead
      BY <3>1 DEF Ahead, Subtree, Closed, Kids, Nodes, Points
    <3>3. Climb' < Climb
      BY <2>3, <3>1 DEF Climb
    <3>4. QED
      BY <3>2, <3>3
  <2>7. CASE Attach \/ NewRoot
    BY <2>7 DEF Attach, NewRoot, Done
  <2>8. QED
    BY <2>2, <2>5, <2>6, <2>7 DEF Turn
<1>2. SearchInv /\ [NextSearch]_allVars => [new # 0 => Nearer]_vars
  BY <1>1
<1>3. QED
  BY <1>2, SearchInvariance, PTL DEF SpecSearch, TurnsBringTheEnd

=============================================================================
