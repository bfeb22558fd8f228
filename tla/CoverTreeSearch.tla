-------------------------- MODULE CoverTreeSearch --------------------------
(***************************************************************************)
(* The k-nearest-neighbour searches of internal/cover/tree/tree.go on the  *)
(* trees that CoverTree builds: best-first, with a queue of nodes ordered  *)
(* by their lower bound, and depth-first.  Both drop a subtree when k      *)
(* neighbours are known and the lower bound of the subtree is no better    *)
(* than the worst of them; the bound is its distance less a radius, which  *)
(* the strategy takes from the subtree or from the level of its node.      *)
(*                                                                         *)
(* The tree is locked while it is searched or inserted into, so operations *)
(* follow one another.  The cached radius of a node is the radius: it is   *)
(* keyed by the version of the tree, which every insertion changes.        *)
(*                                                                         *)
(* A tree that was built can also be encoded and decoded, which numbers    *)
(* its nodes anew.  The encoding of a node stands for its vector, value    *)
(* and level; how these are written as bytes is left out.                  *)
(***************************************************************************)
EXTENDS CoverTree, FiniteSetsExt, SequencesExt

CONSTANTS
  Strategies,  \* of "node", BoundPerNode, and "level", BoundLevel
  Queries,     \* what may be asked for: vectors of the tree's own kind
  MaxK         \* bound: neighbours asked for

ASSUME StrategiesAssumption == Strategies \subseteq {"node", "level"}
ASSUME QueriesAssumption == Queries \subseteq Vectors

VARIABLES
  phase,     \* "idle", "best" or "depth" while a search runs, "answer"
  strategy,  \* the strategy of the search
  query,     \* the vector of the query
  k,         \* how many neighbours it asks for
  found,     \* the heap: the nearest points so far, at most k
  queue,     \* best-first: the nodes in the queue
  stack,     \* depth-first: the nodes yet to visit, next one first
  loaded     \* the tree has been decoded

asked == <<strategy, query, k>>
search == <<phase, asked, found, queue, stack, loaded>>
allVars == <<vars, search>>

-----------------------------------------------------------------------------
\* ensureRadius: how far the points below a node may be from its own, by
\* way of the nodes in between.
Radius[n \in Nodes] ==
  IF kids[n] = <<>> THEN 0
  ELSE Max({Distance(at[n], at[c]) + Radius[c] : c \in Kids(n)})

Ceiling(a, b) == (a + b - 1) \div b

\* levelCoverRadius: baseLevel * base / (base - 1), rounded up to whole steps.
LevelRadius(n) ==
  IF lvl[n] >= 0
  THEN Ceiling(Unit * Num^(lvl[n] + 1), Den^lvl[n] * (Num - Den))
  ELSE Ceiling(Unit * Num * Den^(-lvl[n]), Num^(-lvl[n]) * (Num - Den))

BoundRadius(n) == IF strategy = "level" THEN LevelRadius(n) ELSE Radius[n]

Dist(n) == Distance(query, at[n])
LowerBound(n) == Dist(n) - BoundRadius(n)

Full(heap) == Cardinality(heap) = k
Worst(heap) == Max({Dist(n) : n \in heap})

-----------------------------------------------------------------------------
(* Mutated forms: the subtree of a node is taken to be as far as the node; *)
(* a subtree is pruned while there is still room; the children of a node   *)
(* are taken to follow it at once.                                         *)

PrunedByCentre(n, heap) == Full(heap) /\ Dist(n) >= Worst(heap)

PrunedTooSoon(n, heap) == heap # {} /\ LowerBound(n) >= Worst(heap)

ChildrenAdjacent(s) == [i \in DOMAIN s |-> [j \in 1 .. s[i].kids |-> i + j]]

-----------------------------------------------------------------------------
\* The subtree of n cannot improve a full heap.
Pruned(n, heap) == Full(heap) /\ LowerBound(n) >= Worst(heap)

\* The heap after node n: n is added while there is room, or takes the place
\* of one of the worst when it is nearer.
After(heap, n) ==
  IF ~Full(heap) THEN {heap \cup {n}}
  ELSE IF Dist(n) < Worst(heap)
       THEN {(heap \ {w}) \cup {n} : w \in {m \in heap : Dist(m) = Worst(heap)}}
       ELSE {heap}

\* The children of n by distance; sort.Slice leaves ties in any order.
SortedKids(n) ==
  {s \in [DOMAIN kids[n] -> Kids(n)] :
     /\ \A i, j \in DOMAIN s : s[i] = s[j] => i = j
     /\ \A i, j \in DOMAIN s : i < j => Dist(s[i]) <= Dist(s[j])}

-----------------------------------------------------------------------------
\* encodeNode walks the tree: a node, then each child with all its own.  What
\* it writes of a node is h[n].
Preorder(h) ==
  LET walk[n \in Nodes] ==
        <<h[n]>> \o FlattenSeq([i \in DOMAIN kids[n] |-> walk[kids[n][i]]])
  IN  walk

Written ==
  [n \in Nodes |-> [at |-> at[n], lvl |-> lvl[n], kids |-> Len(kids[n])]]

Encoding == IF root = 0 THEN <<>> ELSE Preorder(Written)[root]

\* decodeNode: the children of each node, which is numbered as it is read.
\* after[i][m] is where m subtrees end that begin at i: when a node is read,
\* its children are to come, and then the others.
Children(s) ==
  LET after[i \in 1 .. Len(s) + 1] ==
        [m \in Nat |-> IF m = 0 \/ i > Len(s) THEN i
                       ELSE after[i + 1][s[i].kids + m - 1]]
  IN  [i \in DOMAIN s |-> [j \in 1 .. s[i].kids |-> after[i + 1][j - 1]]]

-----------------------------------------------------------------------------
InitSearch ==
  /\ Init
  /\ phase = "idle"
  /\ strategy = "node"
  /\ query = 0
  /\ k = 0
  /\ found = {}
  /\ queue = {}
  /\ stack = <<>>
  /\ loaded = FALSE

\* Nothing is inserted into a tree that was decoded.
Build ==
  /\ phase = "idle"
  /\ ~loaded
  /\ Next
  /\ UNCHANGED search

\* MarshalBinary, and UnmarshalBinary into a new index.
Reload ==
  /\ phase = "idle"
  /\ ~loaded
  /\ new = 0
  /\ root # 0
  /\ LET s == Encoding IN
     /\ at' = [i \in DOMAIN s |-> s[i].at]
     /\ lvl' = [i \in DOMAIN s |-> s[i].lvl]
     /\ kids' = Children(s)
  /\ root' = 1
  /\ loaded' = TRUE
  /\ UNCHANGED <<loop, phase, asked, found, queue, stack>>

\* Index.Query asks for 1 to all points of a tree that has any.
Begin(s, q, n) ==
  /\ phase = "idle"
  /\ new = 0
  /\ n \in 1 .. Len(at)
  /\ strategy' = s
  /\ query' = q
  /\ k' = n
  /\ \/ phase' = "best" /\ queue' = {root} /\ stack' = <<>>
     \/ phase' = "depth" /\ stack' = <<root>> /\ queue' = {}
  /\ UNCHANGED <<vars, found, loaded>>

\* The nodes the queue may pop: those with the least lower bound.
Tops == {top \in queue : \A n \in queue : LowerBound(top) <= LowerBound(n)}

\* Pop a node, and queue those of its children that are not pruned.
VisitBest ==
  /\ phase = "best"
  /\ \E top \in Tops :
       /\ ~Pruned(top, found)
       /\ found' \in After(found, top)
       /\ queue' = (queue \ {top}) \cup {c \in Kids(top) : ~Pruned(c, found')}
  /\ UNCHANGED <<vars, phase, asked, stack, loaded>>

\* The queue is empty, or the node popped is no better than the worst found.
EndBest ==
  /\ phase = "best"
  /\ queue = {} \/ \E top \in Tops : Pruned(top, found)
  /\ phase' = "answer"
  /\ queue' = {}
  /\ UNCHANGED <<vars, asked, found, stack, loaded>>

\* Visit the next node, then its children before its siblings.
VisitDepth ==
  /\ phase = "depth"
  /\ stack # <<>>
  /\ ~Pruned(Head(stack), found)
  /\ found' \in After(found, Head(stack))
  /\ \E s \in SortedKids(Head(stack)) : stack' = s \o Tail(stack)
  /\ UNCHANGED <<vars, phase, asked, queue, loaded>>

SkipDepth ==
  /\ phase = "depth"
  /\ stack # <<>>
  /\ Pruned(Head(stack), found)
  /\ stack' = Tail(stack)
  /\ UNCHANGED <<vars, phase, asked, found, queue, loaded>>

EndDepth ==
  /\ phase = "depth"
  /\ stack = <<>>
  /\ phase' = "answer"
  /\ UNCHANGED <<vars, asked, found, queue, stack, loaded>>

Return ==
  /\ phase = "answer"
  /\ phase' = "idle"
  /\ strategy' = "node"
  /\ query' = 0
  /\ k' = 0
  /\ found' = {}
  /\ UNCHANGED <<vars, queue, stack, loaded>>

NextSearch ==
  \/ Build \/ Reload
  \/ \E s \in Strategies, q \in Queries, n \in 1 .. MaxK : Begin(s, q, n)
  \/ VisitBest \/ EndBest
  \/ VisitDepth \/ SkipDepth \/ EndDepth
  \/ Return

SpecSearch == InitSearch /\ [][NextSearch]_allVars

\* The loop of insert goes on while it can.
FairSearch == SpecSearch /\ WF_allVars(Turn /\ UNCHANGED search)

-----------------------------------------------------------------------------
\* Pruned by the radii of subtrees, a search answers as a scan of all points
\* would: no point it leaves out is nearer than one that it returns.
SearchIsExact ==
  phase = "answer" /\ strategy = "node" =>
    \A f \in found, n \in Nodes \ found : Dist(f) <= Dist(n)

\* What was persisted is what was built: decoding gives every node its vector,
\* its level and its children back, in their order, and there are as many.
TreeSurvivesReload ==
  [][loaded' # loaded => Encoding' = Encoding /\ Len(at') = Len(at)]_allVars

\* Whatever it prunes by, it returns as many points as it is asked for.
AnswerIsFull == phase = "answer" => Full(found)

=============================================================================
