---------------------------- MODULE RedBlackShapes ----------------------------
(***************************************************************************)
(* What the operations of RedBlack do to the shape of the tree, with no      *)
(* regard to colors: it stays a search tree, and holds what it should.       *)
(*                                                                          *)
(* A tree is described from outside: D[n] is the set of the elements below   *)
(* the pointer n, n among them.  Nothing here is proved by induction over     *)
(* the tree: a statement that fails below some pointer fails below one that   *)
(* has the fewest elements below it, and its children are a counterexample.  *)
(***************************************************************************)
EXTENDS RedBlack, FiniteSetTheorems, SequenceTheorems, WellFoundedInduction, TLAPS

(* The least of a set of naturals.                                          *)
LEMMA LeastNatural ==
  ASSUME NEW T \in SUBSET Nat, T # {}
  PROVE  \E x \in T : \A y \in T : x <= y
<1> DEFINE R == OpToRel(<, Nat)
<1>1. IsWellFoundedOn(R, Nat)
  BY NatLessThanWellFounded
<1>2. \A y, x \in Nat : y < x => <<y, x>> \in R
  BY DEF OpToRel
<1> HIDE DEF R
<1>3. PICK x \in T : \A y \in T : ~ (<<y, x>> \in R)
  BY <1>1, WFMin
<1>4. \A y \in T : x \in Nat /\ y \in Nat /\ ~ (y < x)
  BY <1>2, <1>3
<1> QED
  BY <1>3, <1>4

(* An element with the least measure among those of a set.                   *)
LEMMA LeastByMeasure ==
  ASSUME NEW A, NEW mu \in [A -> Nat], NEW T \in SUBSET A, T # {}
  PROVE  \E x \in T : \A y \in A : mu[y] < mu[x] => y \notin T
<1> DEFINE M == {mu[x] : x \in T}
<1>1. M \in SUBSET Nat /\ M # {}
  OBVIOUS
<1>2. PICK k \in M : \A j \in M : k <= j
  <2> HIDE DEF M
  <2> QED
    BY <1>1, LeastNatural
<1>3. PICK x \in T : k = mu[x]
  BY <1>2
<1>4. ASSUME NEW y \in A, mu[y] < mu[x], y \in T PROVE FALSE
  <2>1. mu[y] \in M /\ mu[x] \in Nat /\ mu[y] \in Nat
    BY <1>4
  <2>2. mu[x] <= mu[y]
    BY <1>2, <1>3, <2>1
  <2> QED
    BY <1>4, <2>1, <2>2
<1> QED
  BY <1>3, <1>4

(* A recursion on a measure defines a function: G[x] gives the value at x from *)
(* those at arguments of a smaller measure.                                 *)
Decreasing(A, V, mu, G) ==
  \A x \in A, f, g \in [A -> V] :
    (\A y \in A : mu[y] < mu[x] => f[y] = g[y]) => G[x][f] = G[x][g]

SolvesBelow(k, f, A, V, mu, G) ==
  f \in [A -> V] /\ \A x \in A : mu[x] < k => f[x] = G[x][f]

Solves(f, A, V, G) == f \in [A -> V] /\ \A x \in A : f[x] = G[x][f]

LEMMA RecursionUnique ==
  ASSUME NEW A, NEW V, NEW mu \in [A -> Nat], NEW G, Decreasing(A, V, mu, G),
         NEW k \in Nat, NEW f, SolvesBelow(k, f, A, V, mu, G),
         NEW g, SolvesBelow(k, g, A, V, mu, G)
  PROVE  \A x \in A : mu[x] < k => f[x] = g[x]
<1> DEFINE T == {x \in A : mu[x] < k /\ f[x] # g[x]}
<1>0. f \in [A -> V] /\ g \in [A -> V]
  BY DEF SolvesBelow
<1> SUFFICES ASSUME T # {} PROVE FALSE
  OBVIOUS
<1>1. T \in SUBSET A /\ T # {}
  OBVIOUS
<1>2. PICK x \in T : \A y \in A : mu[y] < mu[x] => y \notin T
  <2> HIDE DEF T
  <2> QED
    BY <1>1, LeastByMeasure
<1>3. \A y \in A : mu[y] < mu[x] => f[y] = g[y]
  <2> SUFFICES ASSUME NEW y \in A, mu[y] < mu[x] PROVE f[y] = g[y]
    OBVIOUS
  <2>1. mu[y] \in Nat /\ mu[x] \in Nat /\ mu[x] < k
    BY <1>2
  <2> QED
    BY <1>2, <2>1
<1>4. G[x][f] = G[x][g]
  BY <1>0, <1>2, <1>3 DEF Decreasing
<1> QED
  BY <1>2, <1>4 DEF SolvesBelow

LEMMA RecursionBelow ==
  ASSUME NEW A, NEW V, NEW v \in V, NEW mu \in [A -> Nat], NEW G \in [A -> [[A -> V] -> V]],
         Decreasing(A, V, mu, G), NEW k \in Nat
  PROVE  \E f : SolvesBelow(k, f, A, V, mu, G)
<1> DEFINE Bad == {j \in Nat : ~ \E f : SolvesBelow(j, f, A, V, mu, G)}
<1>1. \E f : SolvesBelow(0, f, A, V, mu, G)
  <2> DEFINE c == [x \in A |-> v]
  <2>1. c \in [A -> V] /\ \A x \in A : mu[x] \in Nat /\ ~ (mu[x] < 0)
    OBVIOUS
  <2> HIDE DEF c
  <2> QED
    BY <2>1 DEF SolvesBelow
<1>2. ASSUME NEW j \in Nat, NEW f, SolvesBelow(j, f, A, V, mu, G)
      PROVE  \E g : SolvesBelow(j + 1, g, A, V, mu, G)
  <2>1. f \in [A -> V] /\ \A x \in A : mu[x] < j => f[x] = G[x][f]
    BY <1>2 DEF SolvesBelow
  <2> DEFINE g == [x \in A |-> G[x][f]]
  <2>2. g \in [A -> V]
    BY <2>1
  <2>3. \A y \in A : mu[y] < j => f[y] = g[y]
    BY <2>1
  <2>4. ASSUME NEW x \in A, mu[x] < j + 1 PROVE g[x] = G[x][g]
    <3>1. mu[x] \in Nat /\ \A y \in A : mu[y] \in Nat
      OBVIOUS
    <3>2. \A y \in A : mu[y] < mu[x] => mu[y] < j
      BY <2>4, <3>1
    <3>3. \A y \in A : mu[y] < mu[x] => f[y] = g[y]
      BY <2>3, <3>2
    <3>4. g[x] = G[x][f]
      OBVIOUS
    <3> HIDE DEF g
    <3>5. G[x][f] = G[x][g]
      BY <2>1, <2>2, <3>3 DEF Decreasing
    <3> QED
      BY <3>4, <3>5
  <2> HIDE DEF g
  <2> QED
    BY <2>2, <2>4 DEF SolvesBelow
<1>3. Bad = {}
  <2> SUFFICES ASSUME Bad # {} PROVE FALSE
    OBVIOUS
  <2>0. Bad \in SUBSET Nat /\ Bad # {}
    OBVIOUS
  <2>1. PICK j \in Bad : \A i \in Bad : j <= i
    <3> HIDE DEF Bad
    <3> QED
      BY <2>0, LeastNatural
  <2>2. j # 0 /\ j \in Nat
    BY <1>1, <2>1
  <2>3. j - 1 \in Nat /\ j - 1 \notin Bad /\ (j - 1) + 1 = j
    <3> HIDE DEF Bad
    <3> QED
      BY <2>1, <2>2
  <2>4. \E f : SolvesBelow(j - 1, f, A, V, mu, G)
    BY <2>3
  <2>5. \E f : SolvesBelow(j, f, A, V, mu, G)
    BY <1>2, <2>3, <2>4
  <2> QED
    BY <2>1, <2>5
<1> QED
  BY <1>3

LEMMA Recursion ==
  ASSUME NEW A, NEW V, NEW v \in V, NEW mu \in [A -> Nat], NEW G \in [A -> [[A -> V] -> V]],
         Decreasing(A, V, mu, G)
  PROVE  \E f : Solves(f, A, V, G)
<1> DEFINE F == [j \in Nat |-> CHOOSE f : SolvesBelow(j, f, A, V, mu, G)]
           f == [x \in A |-> F[mu[x] + 1][x]]
<1>1. ASSUME NEW j \in Nat PROVE SolvesBelow(j, F[j], A, V, mu, G)
  <2>1. \E g : SolvesBelow(j, g, A, V, mu, G)
    BY RecursionBelow
  <2>2. F[j] = CHOOSE g : SolvesBelow(j, g, A, V, mu, G)
    OBVIOUS
  <2> QED
    BY <2>1, <2>2, Zenon
<1> HIDE DEF F
<1>2. ASSUME NEW i \in Nat, NEW j \in Nat, i <= j, NEW x \in A, mu[x] < i
      PROVE  F[i][x] = F[j][x]
  <2>1. \A y \in A : mu[y] \in Nat
    OBVIOUS
  <2>2. SolvesBelow(i, F[i], A, V, mu, G) /\ SolvesBelow(j, F[j], A, V, mu, G)
    BY <1>1
  <2>3. SolvesBelow(i, F[j], A, V, mu, G)
    BY <1>2, <2>1, <2>2 DEF SolvesBelow
  <2>4. \A y \in A : mu[y] < i => F[i][y] = F[j][y]
    BY <2>2, <2>3, RecursionUnique
  <2> QED
    BY <1>2, <2>4
<1>3. f \in [A -> V]
  <2>1. \A x \in A : mu[x] + 1 \in Nat
    OBVIOUS
  <2> QED
    BY <1>1, <2>1 DEF SolvesBelow
<1>4. ASSUME NEW x \in A PROVE f[x] = G[x][f]
  <2> DEFINE g == F[mu[x] + 1]
  <2>1. mu[x] + 1 \in Nat /\ mu[x] < mu[x] + 1
    OBVIOUS
  <2>2. SolvesBelow(mu[x] + 1, g, A, V, mu, G)
    BY <1>1, <2>1
  <2>3. g[x] = G[x][g] /\ g \in [A -> V]
    BY <2>1, <2>2 DEF SolvesBelow
  <2>4. ASSUME NEW y \in A, mu[y] < mu[x] PROVE g[y] = f[y]
    <3>1. mu[y] \in Nat /\ mu[x] \in Nat
      OBVIOUS
    <3>2. mu[y] + 1 \in Nat /\ mu[y] + 1 <= mu[x] + 1 /\ mu[y] < mu[y] + 1
      BY <2>4, <3>1
    <3>3. F[mu[y] + 1][y] = F[mu[x] + 1][y]
      BY <1>2, <2>1, <3>2
    <3> QED
      BY <3>3
  <2>5. f[x] = g[x]
    OBVIOUS
  <2> HIDE DEF g, f
  <2>6. G[x][g] = G[x][f]
    BY <1>3, <2>3, <2>4 DEF Decreasing
  <2> QED
    BY <2>3, <2>5, <2>6
<1> HIDE DEF f
<1> QED
  BY <1>3, <1>4 DEF Solves

NodeColors == {"red", "black"}

Trees ==
  [root : Pointer, child : [Sides -> [Node -> Pointer]],
   parent : [Node -> Pointer], color : [Node -> NodeColors]]

LEMMA Nodes ==
  /\ \A n \in Node : n \in Nat /\ n # NULL /\ n \in Pointer /\ Key[n] \in Int
  /\ NULL \in Pointer /\ NULL \notin Node
  /\ \A n \in Pointer : n # NULL => n \in Node
  BY NodesAndKeys DEF NULL, Pointer

LEMMA SidesOther ==
  /\ "left" \in Sides /\ "right" \in Sides
  /\ \A s \in Sides : Other(s) \in Sides /\ Other(s) # s /\ Other(Other(s)) = s
  /\ \A s, d \in Sides : d # s => d = Other(s)
  BY DEF Sides, Other

LEMMA TreeFields ==
  ASSUME NEW t \in Trees
  PROVE  /\ t.root \in Pointer
         /\ t.child \in [Sides -> [Node -> Pointer]]
         /\ \A s \in Sides, n \in Node : t.child[s][n] \in Pointer
         /\ t.parent \in [Node -> Pointer]
         /\ \A n \in Node : t.parent[n] \in Pointer
         /\ t.color \in [Node -> NodeColors]
         /\ \A n \in Node : t.color[n] \in NodeColors
  BY DEF Trees

LEMMA SameTree ==
  ASSUME NEW t \in Trees, NEW u \in Trees, t.root = u.root,
         \A s \in Sides, n \in Node : t.child[s][n] = u.child[s][n],
         \A n \in Node : t.parent[n] = u.parent[n],
         \A n \in Node : t.color[n] = u.color[n]
  PROVE  t = u
<1>1. t.child = u.child
  <2>1. \A s \in Sides : t.child[s] \in [Node -> Pointer] /\ u.child[s] \in [Node -> Pointer]
    BY TreeFields
  <2>2. \A s \in Sides : t.child[s] = u.child[s]
    BY <2>1
  <2> QED
    BY <2>2, TreeFields
<1>2. t.parent = u.parent
  BY TreeFields
<1>3. t.color = u.color
  BY TreeFields
<1> QED
  BY <1>1, <1>2, <1>3 DEF Trees

(* f is g but for n, where it is v; likewise for one side of n.               *)
But(f, g, n, v) == \A m \in Node : f[m] = IF m = n THEN v ELSE g[m]

SideBut(f, g, d, n, v) ==
  \A e \in Sides, m \in Node : f[e][m] = IF m = n /\ e = d THEN v ELSE g[e][m]

LEMMA PaintFields ==
  ASSUME NEW t \in Trees, NEW n \in Pointer, NEW c \in NodeColors
  PROVE  LET u == Paint(t, n, c)
         IN /\ u \in Trees /\ u.root = t.root /\ u.child = t.child /\ u.parent = t.parent
            /\ But(u.color, t.color, n, c)
<1>1. CASE n = NULL
  BY <1>1, Nodes DEF Paint, But
<1>2. CASE n # NULL
  <2>1. n \in Node
    BY <1>2, Nodes
  <2>2. Paint(t, n, c) = [t EXCEPT !.color[n] = c]
    BY <1>2 DEF Paint
  <2> QED
    BY <2>1, <2>2 DEF Trees, But
<1> QED
  BY <1>1, <1>2

LEMMA SetParentFields ==
  ASSUME NEW t \in Trees, NEW n \in Pointer, NEW p \in Pointer
  PROVE  LET u == SetParent(t, n, p)
         IN /\ u \in Trees /\ u.root = t.root /\ u.child = t.child /\ u.color = t.color
            /\ But(u.parent, t.parent, n, p)
<1>1. CASE n = NULL
  BY <1>1, Nodes DEF SetParent, But
<1>2. CASE n # NULL
  <2>1. n \in Node
    BY <1>2, Nodes
  <2>2. SetParent(t, n, p) = [t EXCEPT !.parent[n] = p]
    BY <1>2 DEF SetParent
  <2> QED
    BY <2>1, <2>2 DEF Trees, But
<1> QED
  BY <1>1, <1>2

LEMMA SetChildFields ==
  ASSUME NEW t \in Trees, NEW d \in Sides, NEW n \in Node, NEW c \in Pointer
  PROVE  LET u == SetChild(t, n, d, c)
         IN /\ u \in Trees /\ u.root = t.root /\ u.parent = t.parent /\ u.color = t.color
            /\ SideBut(u.child, t.child, d, n, c)
  BY DEF Trees, SideBut, SetChild

LEMMA ReplaceFields ==
  ASSUME NEW t \in Trees, NEW p \in Pointer, NEW n, NEW m \in Pointer
  PROVE  LET u == Replace(t, p, n, m)
         IN /\ u \in Trees /\ u.parent = t.parent /\ u.color = t.color
            /\ u.root = IF p = NULL THEN m ELSE t.root
            /\ SideBut(u.child, t.child, IF t.child["left"][p] = n THEN "left" ELSE "right", p, m)
<1> DEFINE d == IF t.child["left"][p] = n THEN "left" ELSE "right"
<1>1. CASE p = NULL
  <2>1. Replace(t, p, n, m) = [t EXCEPT !.root = m]
    BY <1>1 DEF Replace
  <2>2. SideBut(t.child, t.child, d, p, m)
    BY <1>1, Nodes DEF SideBut
  <2> QED
    BY <1>1, <2>1, <2>2 DEF Trees
<1>2. CASE p # NULL
  <2>1. p \in Node /\ d \in Sides
    BY <1>2, Nodes, SidesOther
  <2>2. Replace(t, p, n, m) = SetChild(t, p, d, m)
    BY <1>2 DEF Replace
  <2> HIDE DEF d
  <2>3. LET u == SetChild(t, p, d, m)
        IN /\ u \in Trees /\ u.root = t.root /\ u.parent = t.parent /\ u.color = t.color
           /\ SideBut(u.child, t.child, d, p, m)
    BY <2>1, SetChildFields
  <2> USE DEF d
  <2> QED
    BY <1>2, <2>2, <2>3
<1> QED
  BY <1>1, <1>2

Members(t) == {n \in Node : InTree(t, n)}

OnSide(k, n, s) == k # Key[n] /\ Side(k, n) = s

Links(t) ==
  /\ \A n \in Node, s \in Sides : t.child[s][n] # NULL => t.parent[t.child[s][n]] = n
  /\ \A n \in Node : t.parent[n] # NULL => \E s \in Sides : t.child[s][t.parent[n]] = n
  /\ t.root # NULL => t.parent[t.root] = NULL
  /\ \A n \in Node : ~ InTree(t, n) => \A s \in Sides : t.child[s][n] = NULL

Subtrees(t, D) ==
  /\ D \in [Pointer -> SUBSET Node] /\ D[NULL] = {}
  /\ \A n \in Node, s \in Sides :
       D[n] = {n} \cup D[t.child[s][n]] \cup D[t.child[Other(s)][n]]
  /\ \A n \in Node : IsFiniteSet(D[n])
  /\ D[t.root] = Members(t)

Ordered(t, D) ==
  \A n \in Node, s \in Sides : \A m \in D[t.child[s][n]] : OnSide(Key[m], n, s)

IsTree(t, D) == t \in Trees /\ Links(t) /\ Subtrees(t, D) /\ Ordered(t, D)

-----------------------------------------------------------------------------
LEMMA SidesOfKeys ==
  ASSUME NEW i \in Node, NEW j \in Node, NEW k \in Node, NEW s \in Sides
  PROVE  /\ ~ OnSide(Key[i], i, s)
         /\ ~ (OnSide(Key[i], j, s) /\ OnSide(Key[i], j, Other(s)))
         /\ OnSide(Key[i], j, s) <=> OnSide(Key[j], i, Other(s))
         /\ OnSide(Key[i], j, s) /\ OnSide(Key[j], k, s) => OnSide(Key[i], k, s)
  BY Nodes DEF OnSide, Side, Sides, Other

LEMMA SubtreeOf ==
  ASSUME NEW t, NEW D, IsTree(t, D), NEW n \in Node, NEW s \in Sides
  PROVE  /\ t.child[s][n] \in Pointer /\ D[t.child[s][n]] \in SUBSET Node
         /\ n \in D[n] /\ D[n] \in SUBSET Node
         /\ D[t.child[s][n]] \subseteq D[n]
         /\ n \notin D[t.child[s][n]]
         /\ D[t.child[s][n]] \cap D[t.child[Other(s)][n]] = {}
<1>1. t.child[s][n] \in Pointer /\ t.child[Other(s)][n] \in Pointer
  BY TreeFields, SidesOther DEF IsTree
<1>2. /\ D \in [Pointer -> SUBSET Node]
      /\ D[n] = {n} \cup D[t.child[s][n]] \cup D[t.child[Other(s)][n]]
  BY DEF IsTree, Subtrees
<1>3. D[t.child[s][n]] \in SUBSET Node
  BY <1>1, <1>2
<1>4. n \notin D[t.child[s][n]]
  BY SidesOfKeys DEF IsTree, Ordered
<1>5. \A m \in Node : m \in D[t.child[s][n]] => m \notin D[t.child[Other(s)][n]]
  BY SidesOfKeys, SidesOther DEF IsTree, Ordered
<1> QED
  BY <1>1, <1>2, <1>3, <1>4, <1>5, Nodes

(* The number of elements of a subtree, on which recursions down the tree go. *)
Size(D) == [n \in Pointer |-> Cardinality(D[n])]

LEMMA SizeDecreases ==
  ASSUME NEW t, NEW D, IsTree(t, D)
  PROVE  /\ Size(D) \in [Pointer -> Nat]
         /\ \A n \in Node, s \in Sides : Size(D)[t.child[s][n]] < Size(D)[n]
<1>1. \A n \in Pointer : IsFiniteSet(D[n])
  BY FS_EmptySet, Nodes DEF IsTree, Subtrees
<1>2. \A n \in Pointer : Size(D)[n] = Cardinality(D[n]) /\ Cardinality(D[n]) \in Nat
  BY <1>1, FS_CardinalityType DEF Size
<1>3. ASSUME NEW n \in Node, NEW s \in Sides
      PROVE  Size(D)[t.child[s][n]] < Size(D)[n]
  <2>1. /\ t.child[s][n] \in Pointer /\ n \in Pointer
        /\ D[t.child[s][n]] \subseteq D[n] /\ D[t.child[s][n]] # D[n]
    BY SubtreeOf, Nodes
  <2>2. Cardinality(D[t.child[s][n]]) <= Cardinality(D[n])
        /\ Cardinality(D[t.child[s][n]]) # Cardinality(D[n])
    BY <1>1, <2>1, FS_Subset
  <2> QED
    BY <1>2, <2>1, <2>2
<1> QED
  BY <1>2, <1>3 DEF Size

(* What is below what is below n is below n.                                *)
LEMMA SubtreesNest ==
  ASSUME NEW t, NEW D, IsTree(t, D)
  PROVE  \A n \in Pointer : \A m \in D[n] : D[m] \subseteq D[n]
<1> DEFINE T == {n \in Pointer : \E m \in D[n] : ~ (D[m] \subseteq D[n])}
<1> SUFFICES ASSUME T # {} PROVE FALSE
  OBVIOUS
<1>1. T \in SUBSET Pointer /\ T # {}
  OBVIOUS
<1>2. PICK n \in T : \A c \in Pointer : Size(D)[c] < Size(D)[n] => c \notin T
  <2> HIDE DEF T
  <2> QED
    BY <1>1, SizeDecreases, LeastByMeasure
<1>3. PICK m \in D[n] : ~ (D[m] \subseteq D[n])
  OBVIOUS
<1>4. n \in Node
  BY <1>3, Nodes DEF IsTree, Subtrees
<1>5. m # n
  BY <1>3
<1>6. PICK s \in Sides : m \in D[t.child[s][n]]
  BY <1>3, <1>4, <1>5, SidesOther DEF IsTree, Subtrees
<1>7. t.child[s][n] \in Pointer /\ D[t.child[s][n]] \subseteq D[n]
  BY <1>4, SubtreeOf
<1>8. t.child[s][n] \notin T
  BY <1>2, <1>4, <1>7, SizeDecreases
<1> QED
  BY <1>3, <1>6, <1>7, <1>8

(* The tree, its elements and their parents.                                *)
LEMMA TreeMembers ==
  ASSUME NEW t, NEW D, IsTree(t, D)
  PROVE  /\ t.root # NULL => t.root \in Node /\ t.root \in Members(t)
         /\ t.root = NULL => Members(t) = {}
         /\ \A n \in Node, s \in Sides :
              LET c == t.child[s][n]
              IN c # NULL => /\ c \in Node /\ c # n /\ c \in Members(t) /\ n \in Members(t)
                             /\ t.parent[c] = n /\ c # t.root
                             /\ c # t.child[Other(s)][n]
         /\ \A n \in Node : t.parent[n] # NULL =>
              /\ t.parent[n] \in Node /\ t.parent[n] # n /\ t.parent[n] \in Members(t)
              /\ n \in Members(t) /\ n # t.root
              /\ \E s \in Sides : t.child[s][t.parent[n]] = n
<1>0. t \in Trees /\ Links(t) /\ D[NULL] = {} /\ D[t.root] = Members(t)
  BY DEF IsTree, Subtrees
<1>1. t.root # NULL => t.root \in Node /\ t.root \in Members(t)
  BY <1>0, TreeFields, Nodes DEF Members, InTree
<1>2. t.root = NULL => Members(t) = {}
  BY <1>0
<1>3. ASSUME NEW n \in Node, NEW s \in Sides, t.child[s][n] # NULL
      PROVE  LET c == t.child[s][n]
             IN /\ c \in Node /\ c # n /\ c \in Members(t) /\ n \in Members(t)
                /\ t.parent[c] = n /\ c # t.root /\ c # t.child[Other(s)][n]
  <2> DEFINE c == t.child[s][n]
  <2>1. c \in Node /\ t.parent[c] = n
    BY <1>0, <1>3, TreeFields, Nodes DEF Links
  <2>2. c \in D[c]
    BY <2>1, SubtreeOf
  <2>3. c # n /\ c # t.child[Other(s)][n]
    BY <2>2, SubtreeOf
  <2>4. n \in Members(t)
    BY <1>0, <1>3 DEF Links, Members
  <2>5. c \in Members(t) /\ c # t.root
    BY <1>0, <2>1, Nodes DEF Links, Members, InTree
  <2> QED
    BY <2>1, <2>3, <2>4, <2>5
<1>4. ASSUME NEW n \in Node, t.parent[n] # NULL
      PROVE  /\ t.parent[n] \in Node /\ t.parent[n] # n /\ t.parent[n] \in Members(t)
             /\ n \in Members(t) /\ n # t.root
             /\ \E s \in Sides : t.child[s][t.parent[n]] = n
  <2>1. t.parent[n] \in Node
    BY <1>0, <1>4, TreeFields, Nodes
  <2>2. PICK s \in Sides : t.child[s][t.parent[n]] = n
    BY <1>0, <1>4 DEF Links
  <2> QED
    BY <1>3, <2>1, <2>2, Nodes
<1> QED
  BY <1>1, <1>2, <1>3, <1>4

(* A function that is defined by recursion down a tree.                      *)
Downwards(t, V, G) ==
  \A n \in Node, f, g \in [Node -> V] :
    (\A s \in Sides : t.child[s][n] # NULL => f[t.child[s][n]] = g[t.child[s][n]])
      => G[n][f] = G[n][g]

LEMMA DownTheTree ==
  ASSUME NEW t, NEW D, IsTree(t, D), NEW V, NEW v \in V, NEW G \in [Node -> [[Node -> V] -> V]],
         Downwards(t, V, G)
  PROVE  \E f : Solves(f, Node, V, G)
<1> DEFINE mu == [n \in Node |-> Size(D)[n]]
<1>1. mu \in [Node -> Nat]
  BY SizeDecreases, Nodes
<1>2. \A n \in Node, s \in Sides : t.child[s][n] # NULL =>
        t.child[s][n] \in Node /\ mu[t.child[s][n]] < mu[n]
  BY SizeDecreases, TreeMembers
<1> HIDE DEF mu
<1>3. Decreasing(Node, V, mu, G)
  <2> SUFFICES ASSUME NEW n \in Node, NEW f \in [Node -> V], NEW g \in [Node -> V],
                      \A y \in Node : mu[y] < mu[n] => f[y] = g[y]
               PROVE  G[n][f] = G[n][g]
    BY DEF Decreasing
  <2>1. \A s \in Sides : t.child[s][n] # NULL => f[t.child[s][n]] = g[t.child[s][n]]
    BY <1>2
  <2> QED
    BY <2>1 DEF Downwards
<1> QED
  BY <1>1, <1>3, Recursion

LEMMA ExtremeIs ==
  ASSUME NEW t, NEW D, IsTree(t, D), NEW s \in Sides, NEW n \in Node
  PROVE  Extreme(t, n, s) = IF t.child[s][n] = NULL THEN n ELSE Extreme(t, t.child[s][n], s)
<1> DEFINE G == [m \in Node |-> [f \in [Node -> Node] |->
                   IF t.child[s][m] = NULL THEN m ELSE f[t.child[s][m]]]]
           Is(f) == f = [m \in Node |-> IF t.child[s][m] = NULL THEN m ELSE f[t.child[s][m]]]
           end == CHOOSE f : Is(f)
<1>1. \A m \in Node : t.child[s][m] # NULL => t.child[s][m] \in Node
  BY TreeMembers
<1>2. G \in [Node -> [[Node -> Node] -> Node]]
  BY <1>1
<1>3. Downwards(t, Node, G)
  BY DEF Downwards
<1>4. \A m \in Node, f \in [Node -> Node] :
        G[m][f] = IF t.child[s][m] = NULL THEN m ELSE f[t.child[s][m]]
  OBVIOUS
<1>5. \E f : Solves(f, Node, Node, G)
  <2> HIDE DEF G
  <2> QED
    BY <1>2, <1>3, DownTheTree
<1>6. PICK f : Solves(f, Node, Node, G)
  BY <1>5
<1>7. f \in [Node -> Node] /\ \A m \in Node : f[m] = IF t.child[s][m] = NULL THEN m ELSE f[t.child[s][m]]
  <2> HIDE DEF G
  <2> QED
    BY <1>4, <1>6 DEF Solves
<1>8. Is(f)
  BY <1>7
<1>9. Is(end)
  BY <1>8, Zenon
<1>10. \A m \in Node : Extreme(t, m, s) = end[m]
  BY DEF Extreme
<1> HIDE DEF end
<1>11. \A m \in Node : end[m] = IF t.child[s][m] = NULL THEN m ELSE end[t.child[s][m]]
  BY <1>9
<1> QED
  BY <1>1, <1>10, <1>11

(* Extreme() finds the element at the end of a subtree, which has no child    *)
(* there: all others are on the other side of it.                           *)
LEMMA ExtremeFinds ==
  ASSUME NEW t, NEW D, IsTree(t, D), NEW s \in Sides, NEW n \in Node
  PROVE  LET x == Extreme(t, n, s)
         IN /\ x \in D[n] /\ t.child[s][x] = NULL
            /\ \A m \in D[n] : m # x => OnSide(Key[m], x, Other(s))
<1> DEFINE Found(m, x) == /\ x \in D[m] /\ t.child[s][x] = NULL
                          /\ \A k \in D[m] : k # x => OnSide(Key[k], x, Other(s))
           T == {m \in Node : ~ Found(m, Extreme(t, m, s))}
<1> SUFFICES ASSUME T # {} PROVE FALSE
  OBVIOUS
<1>1. T \in SUBSET Pointer /\ T # {}
  BY Nodes
<1>2. PICK m \in T : \A c \in Pointer : Size(D)[c] < Size(D)[m] => c \notin T
  <2> HIDE DEF T
  <2> QED
    BY <1>1, SizeDecreases, LeastByMeasure
<1>3. m \in Node /\ m \in D[m] /\ ~ Found(m, Extreme(t, m, s))
  BY SubtreeOf
<1> DEFINE c == t.child[s][m]
<1>4. CASE c = NULL
  <2>1. Extreme(t, m, s) = m
    BY <1>3, <1>4, ExtremeIs
  <2>2. D[m] = {m} \cup D[NULL] \cup D[t.child[Other(s)][m]] /\ D[NULL] = {}
    BY <1>3, <1>4 DEF IsTree, Subtrees
  <2>3. \A k \in D[m] : k # m => OnSide(Key[k], m, Other(s))
    BY <1>3, <2>2, SidesOther DEF IsTree, Ordered
  <2> QED
    BY <1>3, <1>4, <2>1, <2>3
<1>5. CASE c # NULL
  <2> DEFINE x == Extreme(t, c, s)
  <2>1. c \in Node /\ Extreme(t, m, s) = x
    BY <1>3, <1>5, ExtremeIs, TreeMembers
  <2>2. c \notin T
    BY <1>2, <1>3, <2>1, SizeDecreases, Nodes
  <2>3. Found(c, x)
    BY <2>1, <2>2
  <2>4. /\ D[m] = {m} \cup D[c] \cup D[t.child[Other(s)][m]] /\ D[c] \subseteq D[m]
        /\ D[m] \in SUBSET Node /\ x \in Node
    <3>1. D[m] \in SUBSET Node /\ D[c] \subseteq D[m]
      BY <1>3, SubtreeOf
    <3>2. D[m] = {m} \cup D[c] \cup D[t.child[Other(s)][m]]
      BY <1>3 DEF IsTree, Subtrees
    <3>3. x \in D[m]
      BY <2>3, <3>1
    <3> QED
      BY <3>1, <3>2, <3>3
  <2>5. OnSide(Key[x], m, s) /\ \A k \in D[t.child[Other(s)][m]] : OnSide(Key[k], m, Other(s))
    BY <1>3, <2>3, SidesOther DEF IsTree, Ordered
  <2>6. OnSide(Key[m], x, Other(s))
    BY <1>3, <2>4, <2>5, SidesOfKeys
  <2>7. ASSUME NEW k \in D[t.child[Other(s)][m]]
        PROVE  OnSide(Key[k], x, Other(s))
    <3>1. k \in Node /\ OnSide(Key[k], m, Other(s)) /\ Other(s) \in Sides
      BY <2>4, <2>5, SidesOther
    <3> QED
      BY <1>3, <2>4, <2>6, <3>1, SidesOfKeys
  <2>8. \A k \in D[m] : k # x => OnSide(Key[k], x, Other(s))
    BY <2>3, <2>4, <2>6, <2>7
  <2>9. Found(m, x)
    BY <2>3, <2>4, <2>8
  <2> QED
    BY <1>3, <2>1, <2>9
<1> QED
  BY <1>4, <1>5

(* Where RB_INSERT ends its way down for a key.                              *)
LastIn(t, k) ==
  CHOOSE last :
    last = [m \in Node |-> LET c == t.child[Side(k, m)][m]
                           IN IF Key[m] = k \/ c = NULL THEN m ELSE last[c]]

LEMMA SideIn == \A k, n : Side(k, n) \in Sides
  BY DEF Side, Sides

LEMMA LastIs ==
  ASSUME NEW t, NEW D, IsTree(t, D), NEW k, NEW n \in Node
  PROVE  LET c == t.child[Side(k, n)][n]
         IN LastIn(t, k)[n] = IF Key[n] = k \/ c = NULL THEN n ELSE LastIn(t, k)[c]
<1> DEFINE c(m) == t.child[Side(k, m)][m]
           G == [m \in Node |-> [f \in [Node -> Node] |->
                   IF Key[m] = k \/ c(m) = NULL THEN m ELSE f[c(m)]]]
           Is(f) == f = [m \in Node |-> IF Key[m] = k \/ c(m) = NULL THEN m ELSE f[c(m)]]
<1>1. \A m \in Node : c(m) # NULL => c(m) \in Node
  BY TreeMembers, SideIn
<1>2. G \in [Node -> [[Node -> Node] -> Node]]
  <2> HIDE DEF c
  <2> QED
    BY <1>1
<1>3. Downwards(t, Node, G)
  BY SideIn DEF Downwards
<1>4. \A m \in Node, f \in [Node -> Node] :
        G[m][f] = IF Key[m] = k \/ c(m) = NULL THEN m ELSE f[c(m)]
  OBVIOUS
<1>5. \E f : Solves(f, Node, Node, G)
  <2> HIDE DEF G
  <2> QED
    BY <1>2, <1>3, DownTheTree
<1>6. PICK f : Solves(f, Node, Node, G)
  BY <1>5
<1>7. f \in [Node -> Node] /\ \A m \in Node : f[m] = IF Key[m] = k \/ c(m) = NULL THEN m ELSE f[c(m)]
  <2> HIDE DEF G, c
  <2> QED
    BY <1>4, <1>6 DEF Solves
<1>8. Is(f)
  <2> HIDE DEF c
  <2> QED
    BY <1>7
<1>9. Is(CHOOSE g : Is(g))
  BY <1>8, Zenon
<1>10. LastIn(t, k) = CHOOSE g : Is(g)
  BY DEF LastIn
<1>11. Is(LastIn(t, k))
  <2> HIDE DEF Is
  <2> QED
    BY <1>9, <1>10
<1> QED
  BY <1>11

(* The way down goes to the side of the key at each element it passes.        *)
LEMMA LastFinds ==
  ASSUME NEW t, NEW D, IsTree(t, D), NEW k, NEW n \in Node
  PROVE  LET q == LastIn(t, k)[n]
         IN /\ q \in D[n] /\ (Key[q] = k \/ t.child[Side(k, q)][q] = NULL)
            /\ \A a \in D[n] : q \in D[a] /\ a # q =>
                 Key[a] # k /\ q \in D[t.child[Side(k, a)][a]]
<1> DEFINE Found(m, q) ==
             /\ q \in D[m] /\ (Key[q] = k \/ t.child[Side(k, q)][q] = NULL)
             /\ \A a \in D[m] : q \in D[a] /\ a # q =>
                  Key[a] # k /\ q \in D[t.child[Side(k, a)][a]]
           T == {m \in Node : ~ Found(m, LastIn(t, k)[m])}
<1> SUFFICES ASSUME T # {} PROVE FALSE
  OBVIOUS
<1>1. T \in SUBSET Pointer /\ T # {}
  BY Nodes
<1>2. PICK m \in T : \A c \in Pointer : Size(D)[c] < Size(D)[m] => c \notin T
  <2> HIDE DEF T
  <2> QED
    BY <1>1, SizeDecreases, LeastByMeasure
<1>3. m \in Node /\ m \in D[m] /\ ~ Found(m, LastIn(t, k)[m])
  <2>1. m \in Node /\ ~ Found(m, LastIn(t, k)[m])
    OBVIOUS
  <2> QED
    BY <2>1, SubtreeOf, SideIn
<1> DEFINE s == Side(k, m)
           c == t.child[s][m]
<1>s. s \in Sides
  BY SideIn
<1>4. /\ D[m] = {m} \cup D[c] \cup D[t.child[Other(s)][m]]
      /\ D[m] \in SUBSET Node /\ D[c] \subseteq D[m] /\ m \notin D[c]
      /\ D[c] \cap D[t.child[Other(s)][m]] = {}
      /\ m \notin D[t.child[Other(s)][m]]
  <2> HIDE DEF s
  <2> QED
    <3>1. D[m] = {m} \cup D[c] \cup D[t.child[Other(s)][m]]
      BY <1>3, <1>s DEF IsTree, Subtrees
    <3>2. /\ D[m] \in SUBSET Node /\ D[c] \subseteq D[m] /\ m \notin D[c]
          /\ D[c] \cap D[t.child[Other(s)][m]] = {}
      BY <1>3, <1>s, SubtreeOf
    <3>3. m \notin D[t.child[Other(s)][m]]
      BY <1>3, <1>s, SubtreeOf, SidesOther
    <3> QED
      BY <3>1, <3>2, <3>3
<1>5. CASE Key[m] = k \/ c = NULL
  <2>1. LastIn(t, k)[m] = m
    BY <1>3, <1>5, LastIs
  <2>2. ASSUME NEW a \in D[m], m \in D[a], a # m PROVE FALSE
    <3>1. PICK e \in Sides : a \in D[t.child[e][m]]
      BY <1>4, <1>s, <2>2, SidesOther
    <3>2. t.child[e][m] \in Pointer /\ m \notin D[t.child[e][m]]
      BY <1>3, SubtreeOf
    <3>3. D[a] \subseteq D[t.child[e][m]]
      BY <3>1, <3>2, SubtreesNest
    <3> QED
      BY <2>2, <3>2, <3>3
  <2>3. Found(m, m)
    BY <1>3, <1>5, <2>2
  <2> QED
    BY <1>3, <2>1, <2>3
<1>6. CASE Key[m] # k /\ c # NULL
  <2> DEFINE q == LastIn(t, k)[c]
  <2>1. c \in Node /\ LastIn(t, k)[m] = q
    <3>1. c \in Node
      BY <1>3, <1>6, <1>s, TreeMembers
    <3>2. LastIn(t, k)[m] = IF Key[m] = k \/ c = NULL THEN m ELSE LastIn(t, k)[c]
      BY <1>3, LastIs
    <3> QED
      BY <1>6, <3>1, <3>2
  <2>2. c \notin T
    BY <1>2, <1>3, <1>s, <2>1, SizeDecreases, Nodes
  <2>3. Found(c, q)
    BY <2>1, <2>2
  <2>4. ASSUME NEW a \in D[m], q \in D[a], a # q
        PROVE  Key[a] # k /\ q \in D[t.child[Side(k, a)][a]]
    <3>1. CASE a = m
      BY <1>6, <2>3, <3>1
    <3>2. CASE a \in D[c]
      BY <2>3, <2>4, <3>2
    <3>3. CASE a \in D[t.child[Other(s)][m]]
      <4>1. t.child[Other(s)][m] \in Pointer
        BY <1>3, <1>s, SubtreeOf, SidesOther
      <4>2. D[a] \subseteq D[t.child[Other(s)][m]]
        BY <3>3, <4>1, SubtreesNest
      <4> QED
        BY <1>4, <2>3, <2>4, <4>2
    <3> QED
      BY <1>4, <3>1, <3>2, <3>3
  <2>5. Found(m, q)
    BY <1>4, <2>3, <2>4
  <2> QED
    BY <1>3, <2>1, <2>5
<1> QED
  BY <1>5, <1>6

(* The tree after a rotation, at a glance.                                   *)
Turned(t, x, s) ==
  LET y == t.child[Other(s)][x]
      middle == t.child[s][y]
  IN [root |-> IF t.root = x THEN y ELSE t.root,
      child |-> [d \in Sides |-> [n \in Node |->
                   IF n = x /\ d = Other(s) THEN middle
                   ELSE IF n = y /\ d = s THEN x
                   ELSE IF t.child[d][n] = x THEN y ELSE t.child[d][n]]],
      parent |-> [n \in Node |->
                    IF n = x THEN y ELSE IF n = y THEN t.parent[x]
                    ELSE IF n = middle THEN x ELSE t.parent[n]],
      color |-> t.color]

(* The elements that take part in a rotation are different ones.             *)
LEMMA Rotating ==
  ASSUME NEW t, NEW D, IsTree(t, D), NEW s \in Sides, NEW x \in Node,
         t.child[Other(s)][x] # NULL
  PROVE  LET y == t.child[Other(s)][x]
             middle == t.child[s][y]
             p == t.parent[x]
         IN /\ y \in Node /\ y # x /\ t.parent[y] = x /\ y # t.root
            /\ x \in Members(t) /\ y \in Members(t)
            /\ t.child[s][x] # x /\ t.child[s][x] # y
            /\ middle \in Pointer /\ middle # x /\ middle # y
            /\ middle # NULL => middle \in Node /\ t.parent[middle] = y /\ middle \in Members(t)
                                /\ middle # t.root
            /\ t.child[Other(s)][y] # x /\ t.child[Other(s)][y] # y
            /\ p \in Pointer /\ p # x /\ p # y
            /\ t.root = x <=> p = NULL
            /\ \A n \in Node, d \in Sides : t.child[d][n] = x => n = p
            /\ \A n \in Node, d \in Sides : t.child[d][n] = y => n = x
            /\ \A n \in Node, d \in Sides : middle # NULL /\ t.child[d][n] = middle => n = y
<1> DEFINE y == t.child[Other(s)][x]
           middle == t.child[s][y]
           p == t.parent[x]
<1>0. t \in Trees /\ Other(s) \in Sides
  BY SidesOther DEF IsTree
<1>1. /\ y \in Node /\ y # x /\ t.parent[y] = x /\ y # t.root
      /\ x \in Members(t) /\ y \in Members(t)
  BY <1>0, TreeMembers
<1>2. /\ middle \in Pointer /\ p \in Pointer
      /\ middle # NULL => middle \in Node /\ t.parent[middle] = y /\ middle \in Members(t)
                          /\ middle # t.root
  BY <1>0, <1>1, TreeFields, TreeMembers
<1>3. p # x /\ (t.root = x <=> p = NULL)
  <2>1. p # NULL => p # x /\ t.root # x
    BY TreeMembers
  <2>2. p = NULL => t.root = x
    BY <1>1 DEF Members, InTree
  <2> QED
    BY <2>1, <2>2, Nodes
<1>4. p # y
  <2> SUFFICES ASSUME p = y PROVE FALSE
    OBVIOUS
  <2>1. p # NULL
    BY <1>1, Nodes
  <2>2. PICK d \in Sides : t.child[d][y] = x
    BY <2>1, TreeMembers
  <2>3. x \in D[y] /\ x \notin D[y]
    BY <1>0, <1>1, <2>2, SubtreeOf, SubtreesNest, Nodes
  <2> QED
    BY <2>3
<1>5. t.child[s][x] # x /\ t.child[s][x] # y
  <2>1. t.child[s][x] # NULL => t.child[s][x] # x /\ t.child[s][x] # y
    BY TreeMembers
  <2> QED
    BY <1>1, <2>1, Nodes
<1>6. middle # x /\ middle # y
  BY <1>1, <1>2, <1>4, Nodes
<1>7. t.child[Other(s)][y] # x /\ t.child[Other(s)][y] # y
  <2>1. t.child[Other(s)][y] # NULL => t.parent[t.child[Other(s)][y]] = y
    BY <1>0, <1>1, TreeMembers
  <2> QED
    BY <1>1, <1>4, <2>1, Nodes
<1>8. \A n \in Node, d \in Sides : t.child[d][n] # NULL => t.parent[t.child[d][n]] = n
  BY TreeMembers
<1>9. /\ \A n \in Node, d \in Sides : t.child[d][n] = x => n = p
      /\ \A n \in Node, d \in Sides : t.child[d][n] = y => n = x
      /\ \A n \in Node, d \in Sides : middle # NULL /\ t.child[d][n] = middle => n = y
  BY <1>1, <1>2, <1>8, Nodes
<1> QED
  BY <1>1, <1>2, <1>3, <1>4, <1>5, <1>6, <1>7, <1>9

Around(t, s, x, y, middle, p) ==
  /\ t.child[Other(s)][x] = y /\ t.child[s][y] = middle /\ t.parent[x] = p
  /\ x # y /\ middle # x /\ middle # y /\ p # x /\ p # y

LEMMA RotateFields ==
  ASSUME NEW t \in Trees, NEW s \in Sides, NEW x \in Node, NEW y \in Node,
         NEW middle \in Pointer, NEW p \in Pointer, Around(t, s, x, y, middle, p)
  PROVE  LET u == Rotate(t, x, s)
             d == IF t.child["left"][p] = x THEN "left" ELSE "right"
         IN /\ u \in Trees /\ u.color = t.color
            /\ u.root = IF p = NULL THEN y ELSE t.root
            /\ \A e \in Sides, n \in Node :
                 u.child[e][n] = IF n = y /\ e = s THEN x ELSE IF n = p /\ e = d THEN y
                                 ELSE IF n = x /\ e = Other(s) THEN middle ELSE t.child[e][n]
            /\ \A n \in Node :
                 u.parent[n] = IF n = x THEN y ELSE IF n = y THEN p
                               ELSE IF n = middle THEN x ELSE t.parent[n]
<1>0. Other(s) \in Sides /\ x \in Pointer /\ y \in Pointer /\ y # NULL
  BY SidesOther, Nodes
<1>1. PICK t1 : t1 = SetChild(t, x, Other(s), middle)
  OBVIOUS
<1>2. /\ t1 \in Trees /\ t1.root = t.root /\ t1.parent = t.parent /\ t1.color = t.color
      /\ SideBut(t1.child, t.child, Other(s), x, middle)
  <2>1. Other(s) \in Sides
    BY <1>0
  <2> QED
    BY <1>1, <2>1, SetChildFields
<1>3. PICK t2 : t2 = SetParent(t1, middle, x)
  OBVIOUS
<1>4. /\ t2 \in Trees /\ t2.root = t1.root /\ t2.child = t1.child /\ t2.color = t1.color
      /\ But(t2.parent, t1.parent, middle, x)
  BY <1>0, <1>2, <1>3, SetParentFields
<1>6. PICK t3 : t3 = SetParent(t2, y, p)
  OBVIOUS
<1>7. /\ t3 \in Trees /\ t3.root = t2.root /\ t3.child = t2.child /\ t3.color = t2.color
      /\ But(t3.parent, t2.parent, y, p)
  BY <1>0, <1>4, <1>6, SetParentFields
<1>8. PICK t4 : t4 = Replace(t3, p, x, y)
  OBVIOUS
<1>9. PICK d : d = IF t3.child["left"][p] = x THEN "left" ELSE "right"
  OBVIOUS
<1>10. /\ t4 \in Trees /\ t4.parent = t3.parent /\ t4.color = t3.color
       /\ t4.root = IF p = NULL THEN y ELSE t3.root
       /\ SideBut(t4.child, t3.child, d, p, y)
  BY <1>0, <1>7, <1>8, <1>9, ReplaceFields
<1>11. PICK t5 : t5 = SetChild(t4, y, s, x)
  OBVIOUS
<1>11a. /\ t5 \in Trees /\ t5.root = t4.root /\ t5.parent = t4.parent /\ t5.color = t4.color
       /\ SideBut(t5.child, t4.child, s, y, x)
  <2>1. t4 \in Trees /\ x \in Pointer
    BY <1>0, <1>10
  <2> QED
    BY <1>11, <2>1, SetChildFields
<1>11b. PICK t6 : t6 = SetParent(t5, x, y)
  OBVIOUS
<1>12. /\ t6 \in Trees /\ t6.root = t5.root /\ t6.child = t5.child /\ t6.color = t5.color
       /\ But(t6.parent, t5.parent, x, y)
  BY <1>0, <1>11a, <1>11b, SetParentFields
<1>13. Rotate(t, x, s) = t6
  <2>1. t.child[Other(s)][x] = y /\ t.child[s][y] = middle /\ t.parent[x] = p
    BY DEF Around
  <2> QED
    BY <2>1, <1>1, <1>3, <1>6, <1>8, <1>11, <1>11b DEF Rotate
<1>14. p # NULL => t3.child["left"][p] = t.child["left"][p]
  BY <1>2, <1>4, <1>7, SidesOther, Nodes DEF Around, SideBut
<1>15. p # NULL => d = IF t.child["left"][p] = x THEN "left" ELSE "right"
  BY <1>9, <1>14
<1>16. \A n \in Node : n = p => p # NULL
  BY Nodes
<1>17. t6.root = (IF p = NULL THEN y ELSE t.root) /\ t6.color = t.color
  BY <1>2, <1>4, <1>7, <1>10, <1>11a, <1>12 DEF Around, But, SideBut
<1>18. \A e \in Sides, n \in Node :
         t6.child[e][n] = IF n = y /\ e = s THEN x ELSE IF n = p /\ e = d THEN y
                          ELSE IF n = x /\ e = Other(s) THEN middle ELSE t.child[e][n]
  BY <1>2, <1>4, <1>7, <1>10, <1>11a, <1>12 DEF Around, But, SideBut
<1>19. \A n \in Node :
         t6.parent[n] = IF n = x THEN y ELSE IF n = y THEN p
                        ELSE IF n = middle THEN x ELSE t.parent[n]
  BY <1>2, <1>4, <1>7, <1>10, <1>11a, <1>12 DEF Around, But, SideBut
<1> QED
  BY <1>12, <1>13, <1>15, <1>16, <1>17, <1>18, <1>19

LEMMA TurnedFields ==
  ASSUME NEW t \in Trees, NEW s \in Sides, NEW x \in Node, NEW y \in Node,
         NEW middle \in Pointer, NEW p \in Pointer,
         t.child[Other(s)][x] = y, t.child[s][y] = middle, t.parent[x] = p
  PROVE  LET u == Turned(t, x, s)
         IN /\ u \in Trees /\ u.color = t.color
            /\ u.root = IF t.root = x THEN y ELSE t.root
            /\ \A e \in Sides, n \in Node :
                 u.child[e][n] = IF n = x /\ e = Other(s) THEN middle
                                 ELSE IF n = y /\ e = s THEN x
                                 ELSE IF t.child[e][n] = x THEN y ELSE t.child[e][n]
            /\ \A n \in Node :
                 u.parent[n] = IF n = x THEN y ELSE IF n = y THEN p
                               ELSE IF n = middle THEN x ELSE t.parent[n]
<1>1. /\ \A e \in Sides, n \in Node : t.child[e][n] \in Pointer
      /\ t.root \in Pointer /\ t.color \in [Node -> NodeColors]
      /\ \A n \in Node : t.parent[n] \in Pointer
      /\ x \in Pointer /\ y \in Pointer
  BY TreeFields, Nodes
<1> QED
  BY <1>1 DEF Turned, Trees

LEMMA RotateTurns ==
  ASSUME NEW t, NEW D, IsTree(t, D), NEW s \in Sides, NEW x \in Node,
         t.child[Other(s)][x] # NULL
  PROVE  Rotate(t, x, s) = Turned(t, x, s) /\ Turned(t, x, s) \in Trees
<1>1. PICK y, middle, p :
        t.child[Other(s)][x] = y /\ t.child[s][y] = middle /\ t.parent[x] = p
  OBVIOUS
<1>2. /\ y \in Node /\ y # x /\ middle \in Pointer /\ middle # x /\ middle # y
      /\ p \in Pointer /\ p # x /\ p # y
      /\ (t.root = x <=> p = NULL) /\ Other(s) # s
      /\ \A n \in Node, e \in Sides : t.child[e][n] = x => n = p
      /\ t \in Trees
  BY <1>1, Rotating, SidesOther DEF IsTree
<1>3. PICK u : u = Turned(t, x, s)
  OBVIOUS
<1>4. PICK r : r = Rotate(t, x, s)
  OBVIOUS
<1>5. PICK d : d = IF t.child["left"][p] = x THEN "left" ELSE "right"
  OBVIOUS
<1>6. /\ u \in Trees /\ u.color = t.color
      /\ u.root = IF t.root = x THEN y ELSE t.root
      /\ \A e \in Sides, n \in Node :
           u.child[e][n] = IF n = x /\ e = Other(s) THEN middle
                           ELSE IF n = y /\ e = s THEN x
                           ELSE IF t.child[e][n] = x THEN y ELSE t.child[e][n]
      /\ \A n \in Node :
           u.parent[n] = IF n = x THEN y ELSE IF n = y THEN p
                         ELSE IF n = middle THEN x ELSE t.parent[n]
  BY <1>1, <1>2, <1>3, TurnedFields
<1>7. /\ r \in Trees /\ r.color = t.color
      /\ r.root = IF p = NULL THEN y ELSE t.root
      /\ \A e \in Sides, n \in Node :
           r.child[e][n] = IF n = y /\ e = s THEN x ELSE IF n = p /\ e = d THEN y
                           ELSE IF n = x /\ e = Other(s) THEN middle ELSE t.child[e][n]
      /\ \A n \in Node :
           r.parent[n] = IF n = x THEN y ELSE IF n = y THEN p
                         ELSE IF n = middle THEN x ELSE t.parent[n]
  <2>1. Around(t, s, x, y, middle, p)
    BY <1>1, <1>2 DEF Around
  <2> QED
    BY <1>1, <1>2, <1>4, <1>5, <2>1, RotateFields
<1>8. \A n \in Node, e \in Sides : t.child[e][n] = x <=> n = p /\ e = d
  <2>1. ASSUME NEW n \in Node, n = p, NEW e \in Sides PROVE t.child[e][n] = x <=> e = d
    <3>1. \E c \in Sides : t.child[c][p] = x
      BY <1>1, <2>1, Nodes, TreeMembers
    <3>2. t.child["left"][p] = x => t.child["right"][p] # x
      BY <2>1, Nodes, TreeMembers, SidesOther
    <3> QED
      BY <1>5, <2>1, <3>1, <3>2 DEF Sides
  <2> QED
    BY <1>2, <2>1
<1>9. r = u
  <2>1. \A e \in Sides, n \in Node : r.child[e][n] = u.child[e][n]
    BY <1>2, <1>6, <1>7, <1>8
  <2>2. \A n \in Node : r.parent[n] = u.parent[n] /\ r.color[n] = u.color[n]
    BY <1>6, <1>7
  <2>3. r.root = u.root
    BY <1>2, <1>6, <1>7
  <2> QED
    BY <1>6, <1>7, <2>1, <2>2, <2>3, SameTree
<1> QED
  BY <1>3, <1>4, <1>6, <1>9

TurnedBelow(t, D, x, s) ==
  LET y == t.child[Other(s)][x]
  IN [n \in Pointer |->
        IF n = x THEN {x} \cup D[t.child[s][x]] \cup D[t.child[s][y]]
        ELSE IF n = y THEN D[x] ELSE D[n]]

LEMMA TurnedIsTree ==
  ASSUME NEW t, NEW D, IsTree(t, D), NEW s \in Sides, NEW x \in Node,
         t.child[Other(s)][x] # NULL
  PROVE  /\ IsTree(Turned(t, x, s), TurnedBelow(t, D, x, s))
         /\ Members(Turned(t, x, s)) = Members(t)
<1>1. PICK y, m, p, o, r : /\ t.child[Other(s)][x] = y /\ t.child[s][y] = m /\ t.parent[x] = p
                          /\ t.child[s][x] = o /\ t.child[Other(s)][y] = r
  OBVIOUS
<1>2. /\ y \in Node /\ y # x /\ t.parent[y] = x /\ y # t.root
      /\ x \in Members(t) /\ y \in Members(t)
      /\ o \in Pointer /\ o # x /\ o # y /\ m \in Pointer /\ m # x /\ m # y
      /\ r \in Pointer /\ r # x /\ r # y /\ p \in Pointer /\ p # x /\ p # y
      /\ t \in Trees /\ Other(s) \in Sides /\ Other(s) # s
  BY <1>1, Rotating, TreeFields, SidesOther DEF IsTree
<1>3. /\ m # NULL => m \in Node /\ t.parent[m] = y /\ m \in Members(t) /\ m # t.root
      /\ t.root = x <=> p = NULL
  BY <1>1, Rotating
<1>4. /\ \A n \in Node, d \in Sides : t.child[d][n] = x => n = p
      /\ \A n \in Node, d \in Sides : t.child[d][n] = y => n = x
      /\ \A n \in Node, d \in Sides : m # NULL /\ t.child[d][n] = m => n = y
  BY <1>1, Rotating
<1>5. PICK u : u = Turned(t, x, s)
  OBVIOUS
<1>6. PICK E : E = TurnedBelow(t, D, x, s)
  OBVIOUS
<1>7. /\ u \in Trees /\ u.color = t.color
      /\ u.root = IF t.root = x THEN y ELSE t.root
      /\ \A e \in Sides, n \in Node :
           u.child[e][n] = IF n = x /\ e = Other(s) THEN m
                           ELSE IF n = y /\ e = s THEN x
                           ELSE IF t.child[e][n] = x THEN y ELSE t.child[e][n]
      /\ \A n \in Node :
           u.parent[n] = IF n = x THEN y ELSE IF n = y THEN p
                         ELSE IF n = m THEN x ELSE t.parent[n]
  BY <1>1, <1>2, <1>5, TurnedFields
<1>8. /\ u.child[s][x] = o /\ u.child[Other(s)][x] = m
      /\ u.child[s][y] = x /\ u.child[Other(s)][y] = r
  BY <1>1, <1>2, <1>7
<1>9. \A n \in Node, d \in Sides : n # x /\ n # y =>
        /\ u.child[d][n] = IF t.child[d][n] = x THEN y ELSE t.child[d][n]
        /\ t.child[d][n] # y
  BY <1>4, <1>7
<1>10. \A d \in Sides : d = s \/ d = Other(s)
  BY SidesOther
<1>11. /\ E \in [Pointer -> SUBSET Node] /\ E[x] = {x} \cup D[o] \cup D[m] /\ E[y] = D[x]
       /\ \A n \in Pointer : n # x /\ n # y => E[n] = D[n]
  <2>1. D \in [Pointer -> SUBSET Node]
    BY DEF IsTree, Subtrees
  <2>2. x \in Pointer /\ y \in Pointer
    BY <1>2, Nodes
  <2> QED
    BY <1>1, <1>2, <1>6, <2>1, <2>2 DEF TurnedBelow
<1>12. /\ E[o] = D[o] /\ E[m] = D[m] /\ E[r] = D[r]
       /\ \A n \in Node, d \in Sides : n # x /\ n # y => E[u.child[d][n]] = D[t.child[d][n]]
  <2>1. \A n \in Node, d \in Sides : t.child[d][n] \in Pointer
    BY <1>2, TreeFields
  <2> QED
    BY <1>2, <1>9, <1>11, <2>1
<1>13. /\ D[x] = {x} \cup D[o] \cup D[y] /\ D[y] = {y} \cup D[m] \cup D[r]
  BY <1>1, <1>2 DEF IsTree, Subtrees
<1>14. Members(u) = Members(t)
  <2>1. ASSUME NEW n \in Node PROVE InTree(u, n) <=> InTree(t, n)
    <3>1. CASE n = x
      BY <1>2, <1>7, <3>1, Nodes DEF InTree, Members
    <3>2. CASE n = y
      BY <1>2, <1>3, <1>7, <3>2, Nodes DEF InTree, Members
    <3>3. CASE n = m
      BY <1>2, <1>3, <1>7, <3>3, Nodes DEF InTree, Members
    <3>4. CASE n # x /\ n # y /\ n # m
      BY <1>2, <1>7, <3>4, Nodes DEF InTree
    <3> QED
      BY <3>1, <3>2, <3>3, <3>4
  <2> QED
    BY <2>1 DEF Members
<1>15. Links(u)
  <2>1. ASSUME NEW n \in Node, NEW d \in Sides, u.child[d][n] # NULL
        PROVE  u.parent[u.child[d][n]] = n
    <3>0. t.child[d][n] # NULL => /\ t.child[d][n] \in Node /\ t.parent[t.child[d][n]] = n
      BY TreeMembers
    <3>1. CASE n = x
      <4>1. CASE d = s
        <5>1. o \in Node /\ t.parent[o] = x /\ o # m
          BY <1>1, <1>2, <1>3, <1>8, <2>1, <3>0, <3>1, <4>1
        <5> QED
          BY <1>2, <1>7, <1>8, <3>1, <4>1, <5>1
      <4>2. CASE d = Other(s)
        BY <1>2, <1>3, <1>7, <1>8, <2>1, <3>1, <4>2
      <4> QED
        BY <1>10, <4>1, <4>2
    <3>2. CASE n = y
      <4>1. CASE d = s
        BY <1>2, <1>7, <1>8, <3>2, <4>1
      <4>2. CASE d = Other(s)
        <5>1. r \in Node /\ t.parent[r] = y
          BY <1>1, <1>8, <2>1, <3>0, <3>2, <4>2
        <5>2. r # m
          BY <1>1, <1>2, <5>1, TreeMembers, Nodes
        <5> QED
          BY <1>2, <1>7, <1>8, <3>2, <4>2, <5>1, <5>2
      <4> QED
        BY <1>10, <4>1, <4>2
    <3>3. CASE n # x /\ n # y
      <4>1. CASE t.child[d][n] = x
        <5>1. n = p /\ u.child[d][n] = y
          BY <1>4, <1>9, <3>3, <4>1
        <5> QED
          BY <1>2, <1>7, <5>1
      <4>2. CASE t.child[d][n] # x
        <5>1. u.child[d][n] = t.child[d][n] /\ t.child[d][n] # y /\ t.child[d][n] \in Node
              /\ t.parent[t.child[d][n]] = n
          BY <1>9, <2>1, <3>0, <3>3, <4>2
        <5>2. t.child[d][n] # m
          BY <1>4, <3>3, <5>1, Nodes
        <5> QED
          BY <1>7, <4>2, <5>1, <5>2
      <4> QED
        BY <4>1, <4>2
    <3> QED
      BY <3>1, <3>2, <3>3
  <2>2. ASSUME NEW n \in Node, u.parent[n] # NULL
        PROVE  \E d \in Sides : u.child[d][u.parent[n]] = n
    <3>1. CASE n = x
      BY <1>2, <1>7, <1>8, <3>1
    <3>2. CASE n = y
      <4>1. u.parent[n] = p /\ p \in Node
        BY <1>2, <1>7, <2>2, <3>2, Nodes
      <4>2. PICK d \in Sides : t.child[d][p] = x
        BY <1>1, <4>1, TreeMembers, Nodes
      <4> QED
        BY <1>2, <1>9, <3>2, <4>1, <4>2
    <3>3. CASE n = m
      BY <1>2, <1>7, <1>8, <3>3
    <3>4. CASE n # x /\ n # y /\ n # m
      <4>1. u.parent[n] = t.parent[n]
        BY <1>7, <3>4
      <4>2. PICK d \in Sides : t.parent[n] \in Node /\ t.child[d][t.parent[n]] = n
        BY <2>2, <4>1, TreeMembers
      <4>3. CASE t.parent[n] = x
        BY <1>1, <1>8, <1>10, <3>4, <4>1, <4>2, <4>3
      <4>4. CASE t.parent[n] = y
        BY <1>1, <1>8, <1>10, <3>4, <4>1, <4>2, <4>4
      <4>5. CASE t.parent[n] # x /\ t.parent[n] # y
        BY <1>9, <3>4, <4>1, <4>2, <4>5
      <4> QED
        BY <4>3, <4>4, <4>5
    <3> QED
      BY <3>1, <3>2, <3>3, <3>4
  <2>3. u.root # NULL => u.parent[u.root] = NULL
    <3>1. CASE t.root = x
      BY <1>2, <1>3, <1>7, <3>1
    <3>2. CASE t.root # x
      <4>1. u.root = t.root /\ t.root # y
        BY <1>2, <1>7, <3>2
      <4>2. t.root # NULL => t.root \in Node /\ t.parent[t.root] = NULL
        BY TreeMembers DEF IsTree, Links
      <4>3. t.root # NULL => t.root # m
        BY <1>3
      <4> QED
        BY <1>7, <3>2, <4>1, <4>2, <4>3
    <3> QED
      BY <3>1, <3>2
  <2>4. ASSUME NEW n \in Node, ~ InTree(u, n), NEW d \in Sides
        PROVE  u.child[d][n] = NULL
    <3>1. ~ InTree(t, n) /\ n # x /\ n # y
      BY <1>2, <1>14, <2>4 DEF Members
    <3>2. t.child[d][n] = NULL
      BY <3>1 DEF IsTree, Links
    <3> QED
      BY <1>9, <3>1, <3>2, Nodes
  <2> QED
    BY <2>1, <2>2, <2>3, <2>4 DEF Links
<1>16. Subtrees(u, E)
  <2>1. E[NULL] = {}
    BY <1>2, <1>11, Nodes DEF IsTree, Subtrees
  <2>2. ASSUME NEW n \in Node, NEW d \in Sides
        PROVE  E[n] = {n} \cup E[u.child[d][n]] \cup E[u.child[Other(d)][n]]
    <3>0. Other(Other(s)) = s /\ Other(d) \in Sides
      BY SidesOther
    <3>1. CASE n = x
      <4>1. E[x] = {x} \cup E[u.child[s][x]] \cup E[u.child[Other(s)][x]]
        BY <1>8, <1>11, <1>12
      <4> QED
        BY <1>10, <3>0, <3>1, <4>1
    <3>2. CASE n = y
      <4>1. E[y] = {y} \cup E[u.child[s][y]] \cup E[u.child[Other(s)][y]]
        BY <1>8, <1>11, <1>12, <1>13
      <4> QED
        BY <1>10, <3>0, <3>2, <4>1
    <3>3. CASE n # x /\ n # y
      <4>1. D[n] = {n} \cup D[t.child[d][n]] \cup D[t.child[Other(d)][n]]
        BY DEF IsTree, Subtrees
      <4>2. E[n] = D[n]
        BY <1>11, <3>3, Nodes
      <4> QED
        BY <1>12, <3>0, <3>3, <4>1, <4>2
    <3> QED
      BY <3>1, <3>2, <3>3
  <2>3. ASSUME NEW n \in Node PROVE IsFiniteSet(E[n])
    <3>1. \A a \in Pointer : IsFiniteSet(D[a])
      BY FS_EmptySet, Nodes DEF IsTree, Subtrees
    <3>2. IsFiniteSet({x} \cup D[o] \cup D[m])
      BY <1>2, <3>1, FS_Union, FS_Singleton
    <3> QED
      BY <1>11, <3>1, <3>2, Nodes
  <2>4. E[u.root] = Members(u)
    <3>1. D[t.root] = Members(t) /\ t.root \in Pointer
      BY <1>2, TreeFields DEF IsTree, Subtrees
    <3> QED
      BY <1>2, <1>7, <1>11, <1>14, <3>1
  <2> QED
    BY <1>11, <2>1, <2>2, <2>3, <2>4 DEF Subtrees
<1>17. Ordered(u, E)
  <2>0. \A n \in Node, d \in Sides : \A k \in D[t.child[d][n]] : OnSide(Key[k], n, d)
    BY DEF IsTree, Ordered
  <2>1. D[o] \in SUBSET Node /\ D[m] \in SUBSET Node /\ D[r] \in SUBSET Node
        /\ D[y] \in SUBSET Node
    BY <1>2, Nodes DEF IsTree, Subtrees
  <2>2. /\ \A k \in D[o] : OnSide(Key[k], x, s)
        /\ \A k \in D[y] : OnSide(Key[k], x, Other(s))
        /\ \A k \in D[m] : OnSide(Key[k], y, s)
        /\ \A k \in D[r] : OnSide(Key[k], y, Other(s))
    BY <1>1, <1>2, <2>0
  <2>3. OnSide(Key[y], x, Other(s)) /\ OnSide(Key[x], y, s)
    <3>1. OnSide(Key[y], x, Other(s))
      BY <1>13, <2>2
    <3> QED
      BY <1>2, <3>1, SidesOfKeys
  <2>4. \A k \in D[o] : OnSide(Key[k], y, s)
    BY <1>2, <2>1, <2>2, <2>3, SidesOfKeys
  <2>5. /\ \A k \in E[u.child[s][x]] : OnSide(Key[k], x, s)
        /\ \A k \in E[u.child[Other(s)][x]] : OnSide(Key[k], x, Other(s))
    BY <1>8, <1>12, <1>13, <2>2
  <2>6. /\ \A k \in E[u.child[s][y]] : OnSide(Key[k], y, s)
        /\ \A k \in E[u.child[Other(s)][y]] : OnSide(Key[k], y, Other(s))
    BY <1>8, <1>11, <1>12, <2>2, <2>3, <2>4
  <2>7. \A n \in Node, d \in Sides : n # x /\ n # y =>
          \A k \in E[u.child[d][n]] : OnSide(Key[k], n, d)
    BY <1>12, <2>0
  <2>8. ASSUME NEW n \in Node, NEW d \in Sides, NEW k \in E[u.child[d][n]]
        PROVE  OnSide(Key[k], n, d)
    BY <1>10, <2>5, <2>6, <2>7, <2>8
  <2> QED
    BY <2>8 DEF Ordered
<1> QED
  BY <1>5, <1>6, <1>7, <1>14, <1>15, <1>16, <1>17 DEF IsTree

(* u is t with n as the child of p.                                         *)
Hung(t, u, n, p) ==
  /\ u \in Trees /\ u.root = IF p = NULL THEN n ELSE t.root
  /\ SideBut(u.child, t.child, Side(Key[n], p), p, n)
  /\ But(u.parent, t.parent, n, p)
  /\ But(u.color, t.color, n, "red")

(* Where n is to be hung.                                                   *)
Below(t, n) == IF t.root = NULL THEN NULL ELSE LastIn(t, Key[n])[t.root]

LEMMA BelowIs ==
  ASSUME NEW t, NEW D, IsTree(t, D), NEW n \in Node
  PROVE  LET p == Below(t, n)
         IN /\ p \in Pointer
            /\ p = NULL => t.root = NULL
            /\ p # NULL => t.root \in Node /\ p \in Node /\ p = LastIn(t, Key[n])[t.root]
<1>1. CASE t.root = NULL
  BY <1>1, Nodes DEF Below
<1>2. CASE t.root # NULL
  <2>1. t.root \in Node
    BY <1>2, TreeMembers
  <2>2. LastIn(t, Key[n])[t.root] \in D[t.root] /\ D[t.root] \in SUBSET Node
    BY <2>1, LastFinds, SubtreeOf, SidesOther
  <2> QED
    BY <1>2, <2>1, <2>2, Nodes DEF Below
<1> QED
  BY <1>1, <1>2

LEMMA InsertHangs ==
  ASSUME NEW D, IsTree(tree, D), NEW n \in Node, Insert(n)
  PROVE  LET p == Below(tree, n)
         IN Hung(tree, tree', n, p) /\ (p # NULL => Key[p] # Key[n])
<1>1. PICK p : p = Below(tree, n)
  OBVIOUS
<1>2. /\ p \in Pointer /\ (p = NULL => tree.root = NULL) /\ n \in Pointer /\ n # NULL
      /\ tree \in Trees
  BY <1>1, BelowIs, Nodes DEF IsTree
<1>3. PICK a : a = SetParent(tree, n, p)
  OBVIOUS
<1>4. PICK b : b = Paint(a, n, "red")
  OBVIOUS
<1>5. \/ p = NULL /\ tree' = [b EXCEPT !.root = n]
      \/ /\ p # NULL /\ Key[p] # Key[n]
         /\ tree' = SetChild(b, p, Side(Key[n], p), n)
  <2> DEFINE P == IF tree.root = NULL THEN NULL ELSE LastIn(tree, Key[n])[tree.root]
             B == Paint(SetParent(tree, n, P), n, "red")
  <2>1. \/ P = NULL /\ tree' = [B EXCEPT !.root = n]
        \/ /\ P # NULL /\ Key[P] # Key[n]
           /\ tree' = SetChild(B, P, Side(Key[n], P), n)
    BY Zenon DEF Insert, LastIn
  <2>2. P = p
    BY <1>1 DEF Below
  <2>3. B = b
    BY <1>3, <1>4, <2>2
  <2> HIDE DEF P, B
  <2> QED
    BY <2>1, <2>2, <2>3
<1>6. /\ a \in Trees /\ a.root = tree.root /\ a.child = tree.child /\ a.color = tree.color
      /\ But(a.parent, tree.parent, n, p)
  BY <1>2, <1>3, SetParentFields
<1>7. "red" \in NodeColors
  BY DEF NodeColors
<1>8. /\ b \in Trees /\ b.root = a.root /\ b.child = a.child /\ b.parent = a.parent
      /\ But(b.color, a.color, n, "red")
  BY <1>2, <1>4, <1>6, <1>7, PaintFields
<1>9. CASE p = NULL
  <2>1. tree' = [b EXCEPT !.root = n]
    BY <1>5, <1>9
  <2>2. /\ tree' \in Trees /\ tree'.root = n /\ tree'.child = b.child
        /\ tree'.parent = b.parent /\ tree'.color = b.color
    BY <1>2, <1>8, <2>1 DEF Trees
  <2>3. SideBut(tree.child, tree.child, Side(Key[n], p), p, n)
    BY <1>9, Nodes DEF SideBut
  <2> QED
    BY <1>1, <1>6, <1>8, <1>9, <2>2, <2>3 DEF Hung
<1>10. CASE p # NULL
  <2>1. p \in Node /\ tree' = SetChild(b, p, Side(Key[n], p), n) /\ Key[p] # Key[n]
    BY <1>2, <1>5, <1>10, Nodes
  <2>2. /\ tree' \in Trees /\ tree'.root = b.root /\ tree'.parent = b.parent
        /\ tree'.color = b.color
        /\ SideBut(tree'.child, b.child, Side(Key[n], p), p, n)
    BY <1>2, <1>8, <2>1, SetChildFields, SideIn
  <2> QED
    BY <1>1, <1>6, <1>8, <1>10, <2>1, <2>2 DEF Hung
<1> QED
  BY <1>9, <1>10

(* No element of the tree has the key for which the way down ends elsewhere.   *)
LEMMA NotThere ==
  ASSUME NEW t, NEW D, IsTree(t, D), NEW k \in Int, t.root # NULL,
         Key[LastIn(t, k)[t.root]] # k
  PROVE  \A m \in Members(t) : Key[m] # k
<1> SUFFICES ASSUME NEW n \in Members(t), Key[n] = k PROVE FALSE
  OBVIOUS
<1>1. PICK q : q = LastIn(t, k)[t.root]
  OBVIOUS
<1>2. /\ t.root \in Node /\ n \in Node /\ n \in D[t.root] /\ t.root \in D[t.root]
      /\ D[t.root] \in SUBSET Node
  BY TreeMembers, SubtreeOf, SidesOther DEF IsTree, Subtrees, Members
<1>3. /\ q \in D[t.root] /\ t.child[Side(k, q)][q] = NULL /\ n # q
      /\ \A a \in D[t.root] : q \in D[a] /\ a # q =>
           Key[a] # k /\ q \in D[t.child[Side(k, a)][a]]
  BY <1>1, <1>2, LastFinds
<1> DEFINE T == {a \in D[t.root] : n \in D[a] /\ q \in D[a]}
<1>4. T \in SUBSET Pointer /\ T # {}
  BY <1>2, <1>3, Nodes
<1>5. PICK a \in T : \A c \in Pointer : Size(D)[c] < Size(D)[a] => c \notin T
  <2> HIDE DEF T
  <2> QED
    BY <1>4, SizeDecreases, LeastByMeasure
<1>6. a \in Node /\ a \in D[t.root] /\ n \in D[a] /\ q \in D[a]
  BY <1>2, <1>5
<1>7. Side(k, a) \in Sides /\ D[a] = {a} \cup D[t.child[Side(k, a)][a]] \cup D[t.child[Other(Side(k, a))][a]]
  BY <1>6, SideIn DEF IsTree, Subtrees
<1>8. n # a
  BY <1>3, <1>6
<1>9. n \in D[t.child[Side(k, a)][a]]
  <2>1. Other(Side(k, a)) \in Sides /\ Other(Side(k, a)) # Side(k, a)
    BY <1>7, SidesOther
  <2>2. n \notin D[t.child[Other(Side(k, a))][a]]
    BY <1>6, <2>1 DEF IsTree, Ordered, OnSide
  <2> QED
    BY <1>6, <1>7, <1>8, <2>2
<1>10. CASE a = q
  BY <1>3, <1>9, <1>10 DEF IsTree, Subtrees
<1>11. CASE a # q
  <2> DEFINE c == t.child[Side(k, a)][a]
  <2>1. q \in D[c] /\ n \in D[c] /\ c \in Pointer
    BY <1>3, <1>6, <1>7, <1>9, <1>11, SubtreeOf
  <2>2. c # NULL
    BY <2>1 DEF IsTree, Subtrees
  <2>3. c \in D[c] /\ D[c] \subseteq D[a]
    BY <1>6, <1>7, <2>1, <2>2, SubtreeOf, Nodes
  <2>4. c \in D[t.root] /\ c \in T
    <3>1. D[a] \subseteq D[t.root]
      BY <1>2, <1>6, SubtreesNest, Nodes
    <3> QED
      BY <2>1, <2>3, <3>1
  <2>5. Size(D)[c] < Size(D)[a]
    BY <1>6, <1>7, SizeDecreases
  <2> QED
    BY <1>5, <2>1, <2>4, <2>5
<1> QED
  BY <1>10, <1>11

HungBelow(D, n, p) == [a \in Pointer |-> IF p \in D[a] THEN D[a] \cup {n} ELSE D[a]]

(* An element that is not in the tree is a tree of its own.                  *)
LEMMA OutsideAlone ==
  ASSUME NEW t, NEW D, IsTree(t, D), NEW n \in Node, n \notin Members(t)
  PROVE  D[n] = {n} /\ t.parent[n] = NULL /\ \A s \in Sides : t.child[s][n] = NULL
<1>1. ~ InTree(t, n)
  BY DEF Members
<1>2. t.parent[n] = NULL /\ \A s \in Sides : t.child[s][n] = NULL
  BY <1>1 DEF InTree, IsTree, Links
<1> QED
  BY <1>2, SidesOther DEF IsTree, Subtrees

(* The members of a tree are below its root only.                            *)
LEMMA OutsideApart ==
  ASSUME NEW t, NEW D, IsTree(t, D), NEW a \in Node, a \notin Members(t),
         NEW p \in Members(t)
  PROVE  p \notin D[a]
  BY OutsideAlone

LEMMA HungIsTree ==
  ASSUME NEW t, NEW D, IsTree(t, D), NEW n \in Node, NEW u, Hung(t, u, n, Below(t, n)),
         Below(t, n) # NULL => Key[Below(t, n)] # Key[n]
  PROVE  /\ n \notin Members(t) /\ \A m \in Members(t) : Key[m] # Key[n]
         /\ IsTree(u, HungBelow(D, n, Below(t, n)))
         /\ Members(u) = Members(t) \cup {n}
         /\ t.root # NULL => Below(t, n) \in Members(t)
                             /\ t.child[Side(Key[n], Below(t, n))][Below(t, n)] = NULL
<1>1. PICK p, d, E : p = Below(t, n) /\ d = Side(Key[n], p) /\ E = HungBelow(D, n, p)
  OBVIOUS
<1>2. /\ p \in Pointer /\ (p = NULL => t.root = NULL) /\ d \in Sides /\ t \in Trees /\ u \in Trees
      /\ p # NULL => t.root \in Node /\ p \in Node /\ p = LastIn(t, Key[n])[t.root]
      /\ n \in Pointer /\ n # NULL /\ Key[n] \in Int
      /\ D \in [Pointer -> SUBSET Node] /\ D[NULL] = {} /\ D[t.root] = Members(t)
  BY <1>1, BelowIs, SideIn, Nodes DEF IsTree, Subtrees, Hung
<1>3. /\ u.root = IF p = NULL THEN n ELSE t.root
      /\ \A e \in Sides, m \in Node :
           u.child[e][m] = IF m = p /\ e = d THEN n ELSE t.child[e][m]
      /\ \A m \in Node : u.parent[m] = IF m = n THEN p ELSE t.parent[m]
  BY <1>1 DEF Hung, SideBut, But
<1>4. \A m \in Members(t) : Key[m] # Key[n]
  <2>1. CASE p = NULL
    BY <1>2, <2>1, TreeMembers
  <2>2. CASE p # NULL
    BY <1>1, <1>2, <2>2, NotThere, Nodes
  <2> QED
    BY <2>1, <2>2
<1>5. n \notin Members(t)
  BY <1>4
<1>6. D[n] = {n} /\ t.parent[n] = NULL /\ \A s \in Sides : t.child[s][n] = NULL
  BY <1>5, OutsideAlone
<1>7. p # NULL => p \in Members(t) /\ p # n /\ t.child[d][p] = NULL /\ Key[p] # Key[n]
  <2>1. p # NULL => p \in D[t.root] /\ (Key[p] = Key[n] \/ t.child[d][p] = NULL)
    BY <1>1, <1>2, LastFinds
  <2> QED
    BY <1>1, <1>2, <1>5, <2>1
<1>8. p \notin D[n]
  BY <1>2, <1>5, <1>6, <1>7
<1>9. /\ E \in [Pointer -> SUBSET Node] /\ E[n] = {n}
      /\ \A a \in Pointer : E[a] = IF p \in D[a] THEN D[a] \cup {n} ELSE D[a]
  BY <1>1, <1>2, <1>6, <1>8 DEF HungBelow
<1>10. \A a \in Node, s \in Sides :
         /\ D[a] = {a} \cup D[t.child[s][a]] \cup D[t.child[Other(s)][a]]
         /\ t.child[s][a] \in Pointer
  BY <1>2, TreeFields DEF IsTree, Subtrees
<1>11. \A a \in Node, s \in Sides : ~ (a = p /\ s = d) => E[u.child[s][a]] = E[t.child[s][a]]
  BY <1>3
<1>12. p # NULL => E[u.child[d][p]] = {n}
  BY <1>2, <1>3, <1>9
<1>13. Members(u) = Members(t) \cup {n}
  <2>1. CASE p = NULL
    <3>1. \A m \in Node : t.parent[m] = NULL
      BY <1>2, <2>1, TreeMembers
    <3>2. \A m \in Node : InTree(u, m) <=> m = n
      BY <1>2, <1>3, <2>1, <3>1 DEF InTree
    <3>3. Members(t) = {}
      BY <1>2, <2>1, TreeMembers
    <3> QED
      BY <3>2, <3>3 DEF Members
  <2>2. CASE p # NULL
    <3>1. \A m \in Node : InTree(u, m) <=> InTree(t, m) \/ m = n
      BY <1>3, <2>2 DEF InTree
    <3> QED
      BY <3>1 DEF Members
  <2> QED
    BY <2>1, <2>2
<1>14. Links(u)
  <2>1. ASSUME NEW m \in Node, NEW s \in Sides, u.child[s][m] # NULL
        PROVE  u.parent[u.child[s][m]] = m
    <3>1. CASE m = p /\ s = d
      BY <1>3, <3>1
    <3>2. CASE ~ (m = p /\ s = d)
      <4>1. /\ u.child[s][m] = t.child[s][m] /\ t.child[s][m] \in Node
            /\ t.parent[t.child[s][m]] = m /\ t.child[s][m] \in Members(t)
        BY <1>3, <2>1, <3>2, TreeMembers
      <4> QED
        BY <1>3, <1>5, <4>1
    <3> QED
      BY <3>1, <3>2
  <2>2. ASSUME NEW m \in Node, u.parent[m] # NULL
        PROVE  \E s \in Sides : u.child[s][u.parent[m]] = m
    <3>1. CASE m = n
      BY <1>2, <1>3, <2>2, <3>1
    <3>2. CASE m # n
      <4>1. PICK s \in Sides : /\ u.parent[m] = t.parent[m] /\ t.parent[m] \in Node
                               /\ t.child[s][t.parent[m]] = m
        BY <1>3, <2>2, <3>2, TreeMembers
      <4>2. ~ (t.parent[m] = p /\ s = d)
        BY <1>7, <4>1, Nodes
      <4> QED
        BY <1>3, <4>1, <4>2
    <3> QED
      BY <3>1, <3>2
  <2>3. u.root # NULL => u.parent[u.root] = NULL
    <3>1. CASE p = NULL
      BY <1>2, <1>3, <3>1
    <3>2. CASE p # NULL
      <4>1. t.root \in Node /\ t.root \in Members(t) /\ t.parent[t.root] = NULL
        BY <1>2, <3>2, TreeMembers, Nodes DEF IsTree, Links
      <4> QED
        BY <1>3, <1>5, <3>2, <4>1
    <3> QED
      BY <3>1, <3>2
  <2>4. ASSUME NEW m \in Node, ~ InTree(u, m), NEW s \in Sides
        PROVE  u.child[s][m] = NULL
    <3>1. m \notin Members(t) /\ m # n
      BY <1>13, <2>4 DEF Members
    <3>2. t.child[s][m] = NULL /\ m # p
      BY <1>2, <1>7, <3>1, OutsideAlone, Nodes
    <3> QED
      BY <1>3, <3>2
  <2> QED
    BY <2>1, <2>2, <2>3, <2>4 DEF Links
<1>15. Subtrees(u, E)
  <2>1. E[NULL] = {}
    BY <1>2, <1>9, Nodes
  <2>2. ASSUME NEW a \in Node, NEW s \in Sides
        PROVE  E[a] = {a} \cup E[u.child[s][a]] \cup E[u.child[Other(s)][a]]
    <3>0. a \in Pointer /\ Other(s) \in Sides /\ (d = s \/ d = Other(s)) /\ Other(Other(s)) = s
          /\ Other(d) \in Sides /\ Other(d) # d
      BY <1>2, SidesOther, Nodes
    <3>1. CASE a = p
      <4>1. p \in D[p] /\ p \notin D[t.child[Other(d)][p]] /\ t.child[Other(d)][p] \in Pointer
        BY <3>0, <3>1, SubtreeOf
      <4>2. E[p] = D[p] \cup {n} /\ E[u.child[Other(d)][p]] = D[t.child[Other(d)][p]]
        BY <1>9, <1>11, <3>0, <3>1, <4>1
      <4>3. D[p] = {p} \cup D[t.child[Other(d)][p]]
        BY <1>2, <1>7, <1>10, <3>1, Nodes
      <4>4. E[p] = {p} \cup E[u.child[d][p]] \cup E[u.child[Other(d)][p]]
        BY <1>12, <3>1, <4>2, <4>3, Nodes
      <4> QED
        BY <3>0, <3>1, <4>4
    <3>2. CASE a # p
      <4>1. E[u.child[s][a]] = E[t.child[s][a]] /\ E[u.child[Other(s)][a]] = E[t.child[Other(s)][a]]
        BY <1>11, <3>0, <3>2
      <4>2. D[a] = {a} \cup D[t.child[s][a]] \cup D[t.child[Other(s)][a]]
        BY <1>10
      <4>3. t.child[s][a] \in Pointer /\ t.child[Other(s)][a] \in Pointer
        BY <1>10, <3>0
      <4> QED
        BY <1>9, <3>0, <3>2, <4>1, <4>2, <4>3
    <3> QED
      BY <3>1, <3>2
  <2>3. ASSUME NEW a \in Node PROVE IsFiniteSet(E[a])
    <3>1. IsFiniteSet(D[a]) /\ a \in Pointer
      BY Nodes DEF IsTree, Subtrees
    <3>2. IsFiniteSet(D[a] \cup {n})
      BY <3>1, FS_AddElement
    <3> QED
      BY <1>9, <3>1, <3>2
  <2>4. E[u.root] = Members(u)
    <3>1. CASE p = NULL
      <4>1. Members(t) = {}
        BY <1>2, <3>1, TreeMembers
      <4> QED
        BY <1>3, <1>9, <1>13, <3>1, <4>1
    <3>2. CASE p # NULL
      <4>1. t.root \in Pointer
        BY <1>2, <3>2, Nodes
      <4> QED
        BY <1>2, <1>3, <1>7, <1>9, <1>13, <3>2, <4>1
    <3> QED
      BY <3>1, <3>2
  <2> QED
    BY <1>9, <2>1, <2>2, <2>3, <2>4 DEF Subtrees
<1>16. Ordered(u, E)
  <2>1. ASSUME NEW a \in Node, NEW s \in Sides, NEW k \in E[u.child[s][a]]
        PROVE  OnSide(Key[k], a, s)
    <3>1. CASE a = p /\ s = d
      <4>1. k = n /\ Key[a] # Key[n]
        BY <1>7, <1>12, <2>1, <3>1, Nodes
      <4> QED
        BY <1>1, <3>1, <4>1 DEF OnSide
    <3>2. CASE ~ (a = p /\ s = d)
      <4>1. k \in E[t.child[s][a]] /\ t.child[s][a] \in Pointer
        BY <1>10, <1>11, <2>1, <3>2
      <4>2. CASE k \in D[t.child[s][a]]
        BY <4>2 DEF IsTree, Ordered
      <4>3. CASE k \notin D[t.child[s][a]]
        <5>1. k = n /\ p \in D[t.child[s][a]]
          BY <1>9, <4>1, <4>3
        <5>2. p # NULL /\ p \in D[a] /\ a # p /\ OnSide(Key[p], a, s)
          <6>1. OnSide(Key[p], a, s) /\ p \in D[a]
            BY <1>10, <5>1 DEF IsTree, Ordered
          <6>2. a \notin D[t.child[s][a]] /\ D[t.child[s][a]] \in SUBSET Node
            BY SubtreeOf
          <6> QED
            BY <5>1, <6>1, <6>2, Nodes
        <5>3. a \in Members(t)
          BY <1>7, <5>2, OutsideApart
        <5>4. Key[a] # Key[n] /\ p \in D[t.child[Side(Key[n], a)][a]]
          <6>1. \A b \in D[t.root] : p \in D[b] /\ b # p =>
                  Key[b] # Key[n] /\ p \in D[t.child[Side(Key[n], b)][b]]
            BY <1>2, <5>2, LastFinds
          <6> QED
            BY <1>2, <5>2, <5>3, <6>1
        <5>5. OnSide(Key[p], a, Side(Key[n], a))
          BY <5>4, SideIn DEF IsTree, Ordered
        <5> QED
          BY <5>1, <5>2, <5>4, <5>5 DEF OnSide
      <4> QED
        BY <4>2, <4>3
    <3> QED
      BY <3>1, <3>2
  <2> QED
    BY <2>1 DEF Ordered
<1>17. t.root # NULL => p # NULL
  BY <1>2
<1> QED
  BY <1>1, <1>2, <1>4, <1>5, <1>7, <1>13, <1>14, <1>15, <1>16, <1>17 DEF IsTree

(* The side of its parent p on which x hangs.                               *)
HangsOn(t, x, p) == IF t.child["left"][p] = x THEN "left" ELSE "right"

LEMMA ParentSide ==
  ASSUME NEW t, NEW D, IsTree(t, D), NEW x \in Node, NEW n \in Node, NEW e \in Sides
  PROVE  t.child[e][n] = x <=> n = t.parent[x] /\ e = HangsOn(t, x, t.parent[x])
<1>1. ASSUME t.child[e][n] = x PROVE n = t.parent[x] /\ e = HangsOn(t, x, t.parent[x])
  <2>1. n = t.parent[x] /\ x # t.child[Other(e)][n]
    BY <1>1, TreeMembers, Nodes
  <2>2. e = "left" \/ (e = "right" /\ Other(e) = "left")
    BY DEF Sides, Other
  <2> QED
    BY <1>1, <2>1, <2>2 DEF HangsOn
<1>2. ASSUME n = t.parent[x], e = HangsOn(t, x, t.parent[x]) PROVE t.child[e][n] = x
  <2>1. PICK d \in Sides : t.child[d][n] = x
    BY <1>2, TreeMembers, Nodes
  <2>2. d = "left" \/ d = "right"
    BY DEF Sides
  <2> QED
    BY <1>2, <2>1, <2>2 DEF HangsOn
<1> QED
  BY <1>1, <1>2

(* An element m that is not below n has all that is below n on one side.      *)
LEMMA Beside ==
  ASSUME NEW t, NEW D, IsTree(t, D), NEW n \in Members(t), NEW m \in Members(t), m \notin D[n]
  PROVE  \E s \in Sides : \A b \in D[n] : OnSide(Key[m], b, s)
<1> DEFINE T == {a \in D[t.root] : n \in D[a] /\ m \in D[a]}
<1>1. /\ t.root \in Node /\ n \in Node /\ m \in Node /\ D[t.root] = Members(t) /\ t.root \in D[t.root]
      /\ n \in D[n]
  <2>1. n \in Node /\ m \in Node /\ D[t.root] = Members(t)
    BY DEF IsTree, Subtrees, Members
  <2> QED
    BY <2>1, TreeMembers, SubtreeOf, SidesOther
<1>2. T \in SUBSET Pointer /\ T # {}
  BY <1>1, Nodes DEF Members
<1>3. PICK a \in T : \A c \in Pointer : Size(D)[c] < Size(D)[a] => c \notin T
  <2> HIDE DEF T
  <2> QED
    BY <1>2, SizeDecreases, LeastByMeasure
<1>4. a \in Node /\ a \in D[t.root] /\ n \in D[a] /\ m \in D[a]
  BY <1>1, <1>3 DEF Members
<1>5. a # n
  BY <1>4
<1>6. PICK e \in Sides : n \in D[t.child[e][a]]
  BY <1>4, <1>5, SidesOther DEF IsTree, Subtrees
<1> DEFINE c == t.child[e][a]
<1>7. c \in Pointer /\ D[c] \in SUBSET Node /\ D[c] \subseteq D[a]
  BY <1>4, <1>6, SubtreeOf
<1>8. c # NULL
  BY <1>6 DEF IsTree, Subtrees
<1>9. m \notin D[c]
  <2> SUFFICES ASSUME m \in D[c] PROVE FALSE
    OBVIOUS
  <2>1. c \in D[c] /\ D[a] \subseteq D[t.root]
    BY <1>1, <1>4, <1>7, <1>8, SubtreeOf, SubtreesNest, Nodes, SidesOther
  <2>2. c \in T
    BY <1>6, <1>7, <2>1
  <2> QED
    BY <1>3, <1>4, <1>7, <2>2, SizeDecreases
<1>10. D[n] \subseteq D[c] /\ D[n] \in SUBSET Node
  BY <1>6, <1>7, SubtreesNest
<1>11. \A b \in D[c] : OnSide(Key[b], a, e)
  BY <1>4 DEF IsTree, Ordered
<1>12. m = a \/ OnSide(Key[m], a, Other(e))
  <2>1. m = a \/ m \in D[t.child[Other(e)][a]]
    BY <1>4, <1>9 DEF IsTree, Subtrees
  <2> QED
    BY <1>4, <2>1, SidesOther DEF IsTree, Ordered
<1>13. ASSUME NEW b \in D[n] PROVE OnSide(Key[m], b, Other(e))
  <2>1. b \in Node /\ OnSide(Key[b], a, e) /\ OnSide(Key[a], b, Other(e))
    BY <1>4, <1>10, <1>11, SidesOfKeys
  <2> QED
    BY <1>1, <1>4, <1>12, <2>1, SidesOfKeys, SidesOther
<1> QED
  BY <1>13, SidesOther

-----------------------------------------------------------------------------
LEMMA SpliceFields ==
  ASSUME NEW t, NEW D, IsTree(t, D), NEW x \in Members(t), NEW c \in Pointer
  PROVE  LET u == Splice(t, x, c)
         IN /\ u \in Trees /\ u.color = t.color
            /\ u.root = IF t.root = x THEN c ELSE t.root
            /\ \A e \in Sides, n \in Node :
                 u.child[e][n] = IF t.child[e][n] = x THEN c ELSE t.child[e][n]
            /\ But(u.parent, t.parent, c, t.parent[x])
<1>1. PICK p, d, a, u : /\ p = t.parent[x] /\ d = HangsOn(t, x, p)
                        /\ a = SetParent(t, c, p) /\ u = Replace(a, p, x, c)
  OBVIOUS
<1>2. u = Splice(t, x, c)
  BY <1>1 DEF Splice
<1>3. t \in Trees /\ x \in Node /\ p \in Pointer /\ (p = NULL <=> t.root = x)
  <2>1. t \in Trees /\ x \in Node /\ InTree(t, x)
    BY DEF IsTree, Members
  <2>2. p \in Pointer /\ (p # NULL => t.root # x)
    BY <1>1, <2>1, TreeFields, TreeMembers
  <2> QED
    BY <1>1, <2>1, <2>2 DEF InTree
<1>4. /\ a \in Trees /\ a.root = t.root /\ a.child = t.child /\ a.color = t.color
      /\ But(a.parent, t.parent, c, p)
  BY <1>1, <1>3, SetParentFields
<1>5. d = IF a.child["left"][p] = x THEN "left" ELSE "right"
  BY <1>1, <1>4 DEF HangsOn
<1>6. /\ u \in Trees /\ u.parent = a.parent /\ u.color = a.color
      /\ u.root = IF p = NULL THEN c ELSE a.root
      /\ SideBut(u.child, a.child, d, p, c)
  BY <1>1, <1>3, <1>4, <1>5, ReplaceFields
<1>7. \A e \in Sides, n \in Node : t.child[e][n] = x <=> n = p /\ e = d
  BY <1>1, <1>3, ParentSide
<1>8. \A e \in Sides, n \in Node :
        u.child[e][n] = IF t.child[e][n] = x THEN c ELSE t.child[e][n]
  BY <1>4, <1>6, <1>7 DEF SideBut
<1> QED
  BY <1>1, <1>2, <1>3, <1>4, <1>6, <1>8

LEMMA ForgetFields ==
  ASSUME NEW t \in Trees, NEW x \in Node
  PROVE  LET u == Forget(t, x)
         IN /\ u \in Trees /\ u.root = t.root
            /\ \A e \in Sides, n \in Node :
                 u.child[e][n] = IF n = x THEN NULL ELSE t.child[e][n]
            /\ But(u.parent, t.parent, x, NULL)
            /\ But(u.color, t.color, x, "black")
<1>1. PICK u : u = Forget(t, x)
  OBVIOUS
<1>2. u = [t EXCEPT !.child["left"][x] = NULL, !.child["right"][x] = NULL,
                    !.parent[x] = NULL, !.color[x] = "black"]
  BY <1>1 DEF Forget
<1>3. "black" \in NodeColors /\ NULL \in Pointer /\ "left" # "right"
  BY Nodes DEF NodeColors
<1>4. PICK a : a = SetChild(t, x, "left", NULL)
  OBVIOUS
<1>5. PICK b : b = SetChild(a, x, "right", NULL)
  OBVIOUS
<1>6. /\ a \in Trees /\ a.root = t.root /\ a.parent = t.parent /\ a.color = t.color
      /\ SideBut(a.child, t.child, "left", x, NULL)
  BY <1>3, <1>4, SetChildFields, SidesOther
<1>7. /\ b \in Trees /\ b.root = a.root /\ b.parent = a.parent /\ b.color = a.color
      /\ SideBut(b.child, a.child, "right", x, NULL)
  BY <1>3, <1>5, <1>6, SetChildFields, SidesOther
<1>8. u = [b EXCEPT !.parent[x] = NULL, !.color[x] = "black"]
  BY <1>2, <1>4, <1>5 DEF SetChild
<1>9. /\ u \in Trees /\ u.root = b.root /\ u.child = b.child
      /\ But(u.parent, b.parent, x, NULL) /\ But(u.color, b.color, x, "black")
  BY <1>3, <1>7, <1>8 DEF Trees, But
<1>10. ASSUME NEW e \in Sides, NEW n \in Node
       PROVE  u.child[e][n] = IF n = x THEN NULL ELSE t.child[e][n]
  <2>1. e = "left" \/ e = "right"
    BY DEF Sides
  <2> QED
    BY <1>3, <1>6, <1>7, <1>9, <2>1, SidesOther DEF SideBut
<1> QED
  BY <1>1, <1>6, <1>7, <1>9, <1>10

(* u is t without x, whose place its only child c has.                       *)
Unlinked(t, u, x, c) ==
  /\ u \in Trees
  /\ u.root = IF t.root = x THEN c ELSE t.root
  /\ \A e \in Sides, n \in Node :
       u.child[e][n] = IF n = x THEN NULL ELSE IF t.child[e][n] = x THEN c ELSE t.child[e][n]
  /\ \A n \in Node :
       u.parent[n] = IF n = x THEN NULL ELSE IF n = c THEN t.parent[x] ELSE t.parent[n]
  /\ But(u.color, t.color, x, "black")

LEMMA SpliceUnlinks ==
  ASSUME NEW t, NEW D, IsTree(t, D), NEW x \in Members(t), NEW c \in Pointer
  PROVE  Unlinked(t, Forget(Splice(t, x, c), x), x, c)
<1>1. PICK a, u : a = Splice(t, x, c) /\ u = Forget(a, x)
  OBVIOUS
<1>2. x \in Node
  BY DEF Members
<1>3. /\ a \in Trees /\ a.color = t.color
      /\ a.root = IF t.root = x THEN c ELSE t.root
      /\ \A e \in Sides, n \in Node :
           a.child[e][n] = IF t.child[e][n] = x THEN c ELSE t.child[e][n]
      /\ But(a.parent, t.parent, c, t.parent[x])
  BY <1>1, SpliceFields
<1>4. /\ u \in Trees /\ u.root = a.root
      /\ \A e \in Sides, n \in Node : u.child[e][n] = IF n = x THEN NULL ELSE a.child[e][n]
      /\ But(u.parent, a.parent, x, NULL)
      /\ But(u.color, a.color, x, "black")
  BY <1>1, <1>2, <1>3, ForgetFields
<1>5. Unlinked(t, u, x, c)
  BY <1>3, <1>4 DEF Unlinked, But
<1> QED
  BY <1>1, <1>5

UnlinkedBelow(D, x) == [a \in Pointer |-> IF a = x THEN {x} ELSE D[a] \ {x}]

OnlyChild(t, x, c) ==
  \E s \in Sides : t.child[s][x] = c /\ t.child[Other(s)][x] = NULL

LEMMA OnlyChildIs ==
  ASSUME NEW t, NEW D, IsTree(t, D), NEW x \in Members(t), NEW c, OnlyChild(t, x, c)
  PROVE  /\ x \in Node /\ c \in Pointer /\ c # x /\ D[x] = {x} \cup D[c] /\ x \notin D[c]
         /\ D[c] \in SUBSET Node
         /\ c # NULL => c \in Node /\ t.parent[c] = x /\ c \in Members(t) /\ c # t.root
         /\ \A s \in Sides : t.child[s][x] = c \/ t.child[s][x] = NULL
         /\ \A n \in Node, s \in Sides : c # NULL /\ t.child[s][n] = c => n = x
<1>1. PICK s \in Sides : t.child[s][x] = c /\ t.child[Other(s)][x] = NULL
  BY DEF OnlyChild
<1>2. x \in Node /\ c \in Pointer /\ x \notin D[c] /\ D[c] \in SUBSET Node
  <2>1. x \in Node
    BY DEF Members
  <2> QED
    BY <1>1, <2>1, SubtreeOf
<1>3. D[x] = {x} \cup D[c]
  BY <1>1, <1>2 DEF IsTree, Subtrees
<1>4. c # NULL => c \in Node /\ c # x /\ t.parent[c] = x /\ c \in Members(t) /\ c # t.root
  BY <1>1, <1>2, TreeMembers
<1>5. \A n \in Node, e \in Sides : c # NULL /\ t.child[e][n] = c => n = x
  BY <1>4, TreeMembers
<1>6. \A e \in Sides : t.child[e][x] = c \/ t.child[e][x] = NULL
  BY <1>1, SidesOther
<1> QED
  BY <1>2, <1>3, <1>4, <1>5, <1>6, Nodes

LEMMA UnlinkedIsTree ==
  ASSUME NEW t, NEW D, IsTree(t, D), NEW x \in Members(t), NEW c, OnlyChild(t, x, c),
         NEW u, Unlinked(t, u, x, c)
  PROVE  IsTree(u, UnlinkedBelow(D, x)) /\ Members(u) = Members(t) \ {x}
<1>1. /\ x \in Node /\ c \in Pointer /\ c # x /\ D[x] = {x} \cup D[c] /\ x \notin D[c]
      /\ D[c] \in SUBSET Node
      /\ c # NULL => c \in Node /\ t.parent[c] = x /\ c \in Members(t) /\ c # t.root
      /\ \A s \in Sides : t.child[s][x] = c \/ t.child[s][x] = NULL
      /\ \A n \in Node, s \in Sides : c # NULL /\ t.child[s][n] = c => n = x
  BY OnlyChildIs
<1>2. /\ t \in Trees /\ u \in Trees /\ x \in Pointer /\ x # NULL
      /\ D \in [Pointer -> SUBSET Node] /\ D[NULL] = {} /\ D[t.root] = Members(t)
  BY <1>1, Nodes DEF IsTree, Subtrees, Unlinked
<1>3. /\ u.root = IF t.root = x THEN c ELSE t.root
      /\ \A e \in Sides, n \in Node :
           u.child[e][n] = IF n = x THEN NULL ELSE IF t.child[e][n] = x THEN c ELSE t.child[e][n]
      /\ \A n \in Node :
           u.parent[n] = IF n = x THEN NULL ELSE IF n = c THEN t.parent[x] ELSE t.parent[n]
  BY DEF Unlinked
<1>4. PICK E : E = UnlinkedBelow(D, x)
  OBVIOUS
<1>5. /\ E \in [Pointer -> SUBSET Node] /\ E[x] = {x} /\ E[c] = D[c] /\ E[NULL] = {}
      /\ \A a \in Pointer : a # x => E[a] = D[a] \ {x}
  BY <1>1, <1>2, <1>4, Nodes DEF UnlinkedBelow
<1>6. \A a \in Node, s \in Sides :
        /\ D[a] = {a} \cup D[t.child[s][a]] \cup D[t.child[Other(s)][a]]
        /\ t.child[s][a] \in Pointer
  BY <1>2, TreeFields DEF IsTree, Subtrees
<1>7. \A a \in Node, s \in Sides : a # x => E[u.child[s][a]] = D[t.child[s][a]] \ {x}
  BY <1>1, <1>3, <1>5, <1>6
<1>8. t.root \in Pointer /\ (t.root = x <=> t.parent[x] = NULL) /\ t.parent[x] # x
  <2>1. t.root \in Pointer /\ (t.parent[x] # NULL => t.root # x /\ t.parent[x] # x)
    BY <1>1, <1>2, TreeFields, TreeMembers
  <2>2. InTree(t, x)
    BY DEF Members
  <2> QED
    BY <1>2, <2>1, <2>2 DEF InTree
<1>9. Members(u) = Members(t) \ {x}
  <2>1. ~ InTree(u, x)
    BY <1>1, <1>3, <1>8 DEF InTree
  <2>2. ASSUME NEW n \in Node, n # x PROVE InTree(u, n) <=> InTree(t, n)
    <3>1. CASE n = c
      BY <1>1, <1>3, <1>8, <2>2, <3>1, Nodes DEF InTree, Members
    <3>2. CASE n # c
      BY <1>3, <2>2, <3>2 DEF InTree
    <3> QED
      BY <3>1, <3>2
  <2> QED
    BY <2>1, <2>2 DEF Members
<1>10. Links(u)
  <2>1. ASSUME NEW n \in Node, NEW s \in Sides, u.child[s][n] # NULL
        PROVE  u.parent[u.child[s][n]] = n
    <3>1. n # x
      BY <1>3, <2>1
    <3>2. CASE t.child[s][n] = x
      <4>1. u.child[s][n] = c /\ t.parent[x] = n
        BY <1>2, <1>3, <3>1, <3>2, TreeMembers
      <4> QED
        BY <1>1, <1>3, <2>1, <4>1
    <3>3. CASE t.child[s][n] # x
      <4>1. /\ u.child[s][n] = t.child[s][n] /\ t.child[s][n] \in Node
            /\ t.parent[t.child[s][n]] = n
        BY <1>3, <2>1, <3>1, <3>3, TreeMembers
      <4>2. t.child[s][n] # c
        BY <1>1, <3>1, <4>1, Nodes
      <4> QED
        BY <1>3, <3>3, <4>1, <4>2
    <3> QED
      BY <3>2, <3>3
  <2>2. ASSUME NEW n \in Node, u.parent[n] # NULL
        PROVE  \E s \in Sides : u.child[s][u.parent[n]] = n
    <3>1. n # x
      BY <1>3, <2>2
    <3>2. CASE n = c
      <4>1. u.parent[n] = t.parent[x]
        BY <1>3, <3>1, <3>2
      <4>2. PICK s \in Sides : t.child[s][t.parent[x]] = x /\ t.parent[x] \in Node
        BY <1>1, <2>2, <4>1, TreeMembers
      <4> QED
        BY <1>3, <1>8, <3>2, <4>1, <4>2
    <3>3. CASE n # c
      <4>1. u.parent[n] = t.parent[n]
        BY <1>3, <3>1, <3>3
      <4>2. PICK s \in Sides : t.child[s][t.parent[n]] = n /\ t.parent[n] \in Node
        BY <2>2, <4>1, TreeMembers
      <4>3. t.parent[n] # x
        BY <1>1, <3>3, <4>2, Nodes
      <4> QED
        BY <1>3, <3>1, <4>1, <4>2, <4>3
    <3> QED
      BY <3>2, <3>3
  <2>3. u.root # NULL => u.parent[u.root] = NULL
    <3>1. CASE t.root = x
      BY <1>1, <1>3, <1>8, <3>1
    <3>2. CASE t.root # x
      <4>1. t.root # NULL => t.root \in Node /\ t.parent[t.root] = NULL
        BY TreeMembers DEF IsTree, Links
      <4> QED
        BY <1>1, <1>3, <3>2, <4>1
    <3> QED
      BY <3>1, <3>2
  <2>4. ASSUME NEW n \in Node, ~ InTree(u, n), NEW s \in Sides
        PROVE  u.child[s][n] = NULL
    <3>1. CASE n = x
      BY <1>3, <3>1
    <3>2. CASE n # x
      <4>1. n \notin Members(t)
        BY <1>9, <2>4, <3>2 DEF Members
      <4>2. t.child[s][n] = NULL
        BY <4>1, OutsideAlone
      <4> QED
        BY <1>2, <1>3, <3>2, <4>2
    <3> QED
      BY <3>1, <3>2
  <2> QED
    BY <2>1, <2>2, <2>3, <2>4 DEF Links
<1>11. Subtrees(u, E)
  <2>1. ASSUME NEW a \in Node, NEW s \in Sides
        PROVE  E[a] = {a} \cup E[u.child[s][a]] \cup E[u.child[Other(s)][a]]
    <3>0. Other(s) \in Sides /\ a \in Pointer
      BY SidesOther, Nodes
    <3>1. CASE a = x
      BY <1>3, <1>5, <3>0, <3>1
    <3>2. CASE a # x
      <4>1. /\ E[u.child[s][a]] = D[t.child[s][a]] \ {x}
            /\ E[u.child[Other(s)][a]] = D[t.child[Other(s)][a]] \ {x}
        BY <1>7, <3>0, <3>2
      <4>2. E[a] = D[a] \ {x} /\ D[a] = {a} \cup D[t.child[s][a]] \cup D[t.child[Other(s)][a]]
        BY <1>5, <1>6, <3>0, <3>2
      <4> QED
        BY <3>2, <4>1, <4>2
    <3> QED
      BY <3>1, <3>2
  <2>2. ASSUME NEW a \in Node PROVE IsFiniteSet(E[a])
    <3>1. IsFiniteSet(D[a]) /\ a \in Pointer /\ E[a] \subseteq D[a]
      <4>1. IsFiniteSet(D[a]) /\ a \in Pointer
        BY Nodes DEF IsTree, Subtrees
      <4> QED
        BY <1>1, <1>5, <4>1
    <3> QED
      BY <3>1, FS_Subset
  <2>3. E[u.root] = Members(u)
    <3>1. CASE t.root = x
      BY <1>1, <1>2, <1>3, <1>5, <1>9, <3>1
    <3>2. CASE t.root # x
      BY <1>2, <1>3, <1>5, <1>8, <1>9, <3>2
    <3> QED
      BY <3>1, <3>2
  <2> QED
    BY <1>5, <2>1, <2>2, <2>3 DEF Subtrees
<1>12. Ordered(u, E)
  <2>1. ASSUME NEW a \in Node, NEW s \in Sides, NEW k \in E[u.child[s][a]]
        PROVE  OnSide(Key[k], a, s)
    <3>1. CASE a = x
      BY <1>3, <1>5, <2>1, <3>1
    <3>2. CASE a # x
      <4>1. k \in D[t.child[s][a]]
        BY <1>7, <2>1, <3>2
      <4> QED
        BY <4>1 DEF IsTree, Ordered
    <3> QED
      BY <3>1, <3>2
  <2> QED
    BY <2>1 DEF Ordered
<1> QED
  BY <1>2, <1>4, <1>9, <1>10, <1>11, <1>12 DEF IsTree

(* u is v with x in the place of old.                                       *)
TookPlace(v, u, old, x) ==
  /\ u \in Trees
  /\ u.root = IF v.root = old THEN x ELSE v.root
  /\ \A e \in Sides, n \in Node :
       u.child[e][n] = IF n = old THEN NULL ELSE IF n = x THEN v.child[e][old]
                       ELSE IF v.child[e][n] = old THEN x ELSE v.child[e][n]
  /\ \A n \in Node :
       u.parent[n] = IF n = old THEN NULL ELSE IF n = x THEN v.parent[old]
                     ELSE IF v.parent[n] = old THEN x ELSE v.parent[n]
  /\ \A n \in Node :
       u.color[n] = IF n = old THEN "black" ELSE IF n = x THEN v.color[old] ELSE v.color[n]

Exchange(S, old, x) == IF old \in S THEN (S \ {old}) \cup {x} ELSE S

ExchangedBelow(D, old, x) ==
  [a \in Pointer |-> IF a = old THEN {old} ELSE Exchange(D[IF a = x THEN old ELSE a], old, x)]

Fits(t, old, x) ==
  \A m \in Members(t), s \in Sides : m # old /\ OnSide(Key[m], old, s) => OnSide(Key[m], x, s)

LEMMA TookPlaceIsTree ==
  ASSUME NEW v, NEW D, IsTree(v, D), NEW old \in Members(v), NEW x \in Node, x \notin Members(v),
         Fits(v, old, x), NEW u, TookPlace(v, u, old, x)
  PROVE  /\ IsTree(u, ExchangedBelow(D, old, x))
         /\ Members(u) = (Members(v) \ {old}) \cup {x}
<1>1. /\ old \in Node /\ old # NULL /\ x # NULL /\ x # old /\ old \in Pointer /\ x \in Pointer
      /\ v \in Trees /\ u \in Trees
      /\ D \in [Pointer -> SUBSET Node] /\ D[NULL] = {} /\ D[v.root] = Members(v)
      /\ v.root # x /\ v.root \in Pointer
  <2>1. old \in Node /\ x # old
    BY DEF Members
  <2>2. v.root # x
    BY TreeMembers, Nodes
  <2> QED
    BY <2>1, <2>2, Nodes, TreeFields DEF IsTree, Subtrees, TookPlace
<1>2. /\ u.root = IF v.root = old THEN x ELSE v.root
      /\ \A e \in Sides, n \in Node :
           u.child[e][n] = IF n = old THEN NULL ELSE IF n = x THEN v.child[e][old]
                           ELSE IF v.child[e][n] = old THEN x ELSE v.child[e][n]
      /\ \A n \in Node :
           u.parent[n] = IF n = old THEN NULL ELSE IF n = x THEN v.parent[old]
                         ELSE IF v.parent[n] = old THEN x ELSE v.parent[n]
  BY DEF TookPlace
<1>3. /\ v.parent[x] = NULL /\ \A s \in Sides : v.child[s][x] = NULL
      /\ \A n \in Node, s \in Sides : v.child[s][n] # x /\ (n = old => v.child[s][n] # old)
      /\ \A n \in Node : v.parent[n] # x
      /\ v.parent[old] # old
      /\ v.root = old <=> v.parent[old] = NULL
  <2>1. v.parent[x] = NULL /\ \A s \in Sides : v.child[s][x] = NULL
    BY OutsideAlone
  <2>2. \A n \in Node, s \in Sides : v.child[s][n] # x /\ (n = old => v.child[s][n] # old)
    BY <1>1, TreeMembers
  <2>3. \A n \in Node : v.parent[n] # x
    BY <1>1, TreeMembers
  <2>4. v.parent[old] # old /\ (v.parent[old] # NULL => v.root # old)
    BY <1>1, TreeMembers
  <2>5. InTree(v, old)
    BY DEF Members
  <2> QED
    BY <2>1, <2>2, <2>3, <2>4, <2>5 DEF InTree
<1>4. PICK E : E = ExchangedBelow(D, old, x)
  OBVIOUS
<1>5. \A S, T : Exchange(S \cup T, old, x) = Exchange(S, old, x) \cup Exchange(T, old, x)
  BY DEF Exchange
<1>6. /\ E \in [Pointer -> SUBSET Node] /\ E[old] = {old} /\ E[x] = Exchange(D[old], old, x)
      /\ \A a \in Pointer : a # old /\ a # x => E[a] = Exchange(D[a], old, x)
      /\ E[NULL] = {}
  <2>1. \A S \in SUBSET Node : Exchange(S, old, x) \in SUBSET Node
    BY <1>1 DEF Exchange
  <2>2. E = [a \in Pointer |-> IF a = old THEN {old}
                              ELSE Exchange(D[IF a = x THEN old ELSE a], old, x)]
    BY <1>4 DEF ExchangedBelow
  <2>3. \A a \in Pointer : D[IF a = x THEN old ELSE a] \in SUBSET Node
    BY <1>1
  <2>4. E \in [Pointer -> SUBSET Node]
    BY <1>1, <2>1, <2>2, <2>3
  <2>5. /\ E[old] = {old} /\ E[x] = Exchange(D[old], old, x)
        /\ \A a \in Pointer : a # old /\ a # x => E[a] = Exchange(D[a], old, x)
    BY <1>1, <2>2
  <2>6. E[NULL] = {}
    BY <1>1, <2>5, Nodes DEF Exchange
  <2> QED
    BY <2>4, <2>5, <2>6
<1>7. \A a \in Node, s \in Sides :
        /\ D[a] = {a} \cup D[v.child[s][a]] \cup D[v.child[Other(s)][a]]
        /\ v.child[s][a] \in Pointer
  BY <1>1, TreeFields DEF IsTree, Subtrees
<1>8. \A a \in Node, s \in Sides : a # old /\ a # x =>
        E[u.child[s][a]] = Exchange(D[v.child[s][a]], old, x)
  BY <1>1, <1>2, <1>3, <1>6, <1>7
<1>9. \A s \in Sides : /\ E[u.child[s][x]] = Exchange(D[v.child[s][old]], old, x)
                       /\ old \notin D[v.child[s][old]]
                       /\ E[u.child[s][old]] = {}
  <2>1. \A s \in Sides : old \notin D[v.child[s][old]]
    BY <1>1, SubtreeOf
  <2> QED
    BY <1>1, <1>2, <1>3, <1>6, <1>7, <2>1
<1>10. Members(u) = (Members(v) \ {old}) \cup {x}
  <2>1. ~ InTree(u, old)
    BY <1>1, <1>2 DEF InTree
  <2>2. InTree(u, x)
    BY <1>1, <1>2, <1>3 DEF InTree
  <2>3. ASSUME NEW n \in Node, n # old, n # x PROVE InTree(u, n) <=> InTree(v, n)
    BY <1>1, <1>2, <2>3 DEF InTree
  <2> QED
    BY <1>1, <2>1, <2>2, <2>3 DEF Members
<1>11. Links(u)
  <2>1. ASSUME NEW n \in Node, NEW s \in Sides, u.child[s][n] # NULL
        PROVE  u.parent[u.child[s][n]] = n
    <3>1. n # old
      BY <1>2, <2>1
    <3>2. CASE n = x
      <4>1. /\ u.child[s][n] = v.child[s][old] /\ v.child[s][old] \in Node
            /\ v.parent[v.child[s][old]] = old
        BY <1>1, <1>2, <2>1, <3>1, <3>2, TreeMembers
      <4> QED
        BY <1>1, <1>2, <1>3, <3>2, <4>1
    <3>3. CASE n # x /\ v.child[s][n] = old
      <4>1. u.child[s][n] = x /\ v.parent[old] = n
        BY <1>1, <1>2, <3>1, <3>3, TreeMembers
      <4> QED
        BY <1>1, <1>2, <4>1
    <3>4. CASE n # x /\ v.child[s][n] # old
      <4>1. /\ u.child[s][n] = v.child[s][n] /\ v.child[s][n] \in Node
            /\ v.parent[v.child[s][n]] = n
        BY <1>2, <2>1, <3>1, <3>4, TreeMembers
      <4> QED
        BY <1>2, <1>3, <3>1, <3>4, <4>1
    <3> QED
      BY <3>2, <3>3, <3>4
  <2>2. ASSUME NEW n \in Node, u.parent[n] # NULL
        PROVE  \E s \in Sides : u.child[s][u.parent[n]] = n
    <3>1. n # old
      BY <1>2, <2>2
    <3>2. CASE n = x
      <4>1. PICK p : p = v.parent[old]
        OBVIOUS
      <4>2. u.parent[n] = p /\ p # NULL
        BY <1>1, <1>2, <2>2, <3>1, <3>2, <4>1
      <4>3. p \in Node /\ p # x /\ p # old /\ \E s \in Sides : v.child[s][p] = old
        BY <1>1, <1>3, <4>1, <4>2, TreeMembers
      <4>4. PICK s \in Sides : v.child[s][p] = old
        BY <4>3
      <4>5. u.child[s][p] = x
        BY <1>2, <4>3, <4>4
      <4>6. u.child[s][u.parent[n]] = n
        BY <3>2, <4>2, <4>5
      <4> QED
        BY <4>6
    <3>3. CASE n # x
      <4>1. v.parent[n] # NULL
        BY <1>1, <1>2, <2>2, <3>1, <3>3
      <4>2. PICK s \in Sides : v.child[s][v.parent[n]] = n /\ v.parent[n] \in Node
        BY <4>1, TreeMembers
      <4>3. CASE v.parent[n] = old
        BY <1>1, <1>2, <3>1, <3>3, <4>2, <4>3
      <4>4. CASE v.parent[n] # old
        BY <1>2, <1>3, <3>1, <3>3, <4>2, <4>4
      <4> QED
        BY <4>3, <4>4
    <3> QED
      BY <3>2, <3>3
  <2>3. u.root # NULL => u.parent[u.root] = NULL
    <3>1. CASE v.root = old
      BY <1>1, <1>2, <1>3, <3>1
    <3>2. CASE v.root # old
      <4>1. v.root # NULL => v.root \in Node /\ v.parent[v.root] = NULL
        BY TreeMembers DEF IsTree, Links
      <4> QED
        BY <1>1, <1>2, <3>2, <4>1
    <3> QED
      BY <3>1, <3>2
  <2>4. ASSUME NEW n \in Node, ~ InTree(u, n), NEW s \in Sides
        PROVE  u.child[s][n] = NULL
    <3>1. CASE n = old
      BY <1>2, <3>1
    <3>2. CASE n # old
      <4>1. n \notin Members(v) /\ n # x
        BY <1>10, <2>4, <3>2 DEF Members
      <4>2. v.child[s][n] = NULL
        BY <4>1, OutsideAlone
      <4> QED
        BY <1>1, <1>2, <3>2, <4>1, <4>2
    <3> QED
      BY <3>1, <3>2
  <2> QED
    BY <2>1, <2>2, <2>3, <2>4 DEF Links
<1>12. Subtrees(u, E)
  <2>1. ASSUME NEW a \in Node, NEW s \in Sides
        PROVE  E[a] = {a} \cup E[u.child[s][a]] \cup E[u.child[Other(s)][a]]
    <3>0. Other(s) \in Sides /\ a \in Pointer
      BY SidesOther, Nodes
    <3>1. CASE a = old
      BY <1>6, <1>9, <3>0, <3>1
    <3>2. CASE a = x
      <4>1. D[old] = {old} \cup D[v.child[s][old]] \cup D[v.child[Other(s)][old]]
        BY <1>1, <1>7
      <4>2. old \notin D[v.child[s][old]] /\ old \notin D[v.child[Other(s)][old]]
        BY <1>9, <3>0
      <4>3. /\ E[u.child[s][x]] = D[v.child[s][old]]
            /\ E[u.child[Other(s)][x]] = D[v.child[Other(s)][old]]
        BY <1>9, <3>0, <4>2 DEF Exchange
      <4>4. E[x] = {x} \cup D[v.child[s][old]] \cup D[v.child[Other(s)][old]]
        BY <1>6, <4>1, <4>2 DEF Exchange
      <4> QED
        BY <3>2, <4>3, <4>4
    <3>3. CASE a # old /\ a # x
      <4> DEFINE l == D[v.child[s][a]]
                 r == D[v.child[Other(s)][a]]
      <4>1. E[u.child[s][a]] = Exchange(l, old, x) /\ E[u.child[Other(s)][a]] = Exchange(r, old, x)
        BY <1>8, <3>0, <3>3
      <4>2. D[a] = {a} \cup l \cup r /\ E[a] = Exchange(D[a], old, x)
        BY <1>6, <1>7, <3>0, <3>3
      <4>3. Exchange({a}, old, x) = {a}
        BY <3>3 DEF Exchange
      <4>4. Exchange(({a} \cup l) \cup r, old, x) = {a} \cup Exchange(l, old, x) \cup Exchange(r, old, x)
        <5> HIDE DEF l, r
        <5>1. Exchange(({a} \cup l) \cup r, old, x)
                = Exchange({a} \cup l, old, x) \cup Exchange(r, old, x)
          BY <1>5
        <5>2. Exchange({a} \cup l, old, x) = Exchange({a}, old, x) \cup Exchange(l, old, x)
          BY <1>5
        <5> QED
          BY <4>3, <5>1, <5>2
      <4> QED
        BY <4>1, <4>2, <4>4
    <3> QED
      BY <3>1, <3>2, <3>3
  <2>2. ASSUME NEW a \in Node PROVE IsFiniteSet(E[a])
    <3>1. \A b \in Node : IsFiniteSet(D[b])
      BY DEF IsTree, Subtrees
    <3>2. \A S : IsFiniteSet(S) => IsFiniteSet(Exchange(S, old, x))
      <4> SUFFICES ASSUME NEW S, IsFiniteSet(S) PROVE IsFiniteSet(Exchange(S, old, x))
        OBVIOUS
      <4>1. IsFiniteSet(S \ {old})
        BY FS_Subset
      <4>2. IsFiniteSet((S \ {old}) \cup {x})
        BY <4>1, FS_AddElement
      <4> QED
        BY <4>2 DEF Exchange
    <3>3. IsFiniteSet({old})
      BY FS_Singleton
    <3>4. a \in Pointer
      BY Nodes
    <3>5. CASE a = old
      BY <1>6, <3>3, <3>5
    <3>6. CASE a = x
      BY <1>1, <1>6, <3>1, <3>2, <3>6
    <3>7. CASE a # old /\ a # x
      BY <1>6, <3>1, <3>2, <3>4, <3>7
    <3> QED
      BY <3>5, <3>6, <3>7
  <2>3. E[u.root] = Members(u)
    <3>1. CASE v.root = old
      <4>1. E[u.root] = Exchange(Members(v), old, x)
        BY <1>1, <1>2, <1>6, <3>1
      <4> QED
        BY <1>10, <4>1 DEF Exchange
    <3>2. CASE v.root # old
      <4>1. E[u.root] = Exchange(Members(v), old, x)
        BY <1>1, <1>2, <1>6, <3>2
      <4> QED
        BY <1>10, <4>1 DEF Exchange
    <3> QED
      BY <3>1, <3>2
  <2> QED
    BY <1>6, <2>1, <2>2, <2>3 DEF Subtrees
<1>13. Ordered(u, E)
  <2>1. ASSUME NEW a \in Node, NEW s \in Sides, NEW k \in E[u.child[s][a]]
        PROVE  OnSide(Key[k], a, s)
    <3>1. a # old
      BY <1>9, <2>1
    <3>2. CASE a = x
      <4>1. k \in D[v.child[s][old]] /\ k # old
        BY <1>9, <2>1, <3>2 DEF Exchange
      <4>2. OnSide(Key[k], old, s)
        BY <1>1, <4>1 DEF IsTree, Ordered
      <4>3. k \in Members(v)
        <5>1. D[v.child[s][old]] \subseteq D[old] /\ D[old] \subseteq D[v.root]
          BY <1>1, SubtreeOf, SubtreesNest
        <5> QED
          BY <1>1, <4>1, <5>1
      <4> QED
        BY <3>2, <4>1, <4>2, <4>3 DEF Fits
    <3>3. CASE a # x
      <4>1. k \in Exchange(D[v.child[s][a]], old, x)
        BY <1>8, <2>1, <3>1, <3>3
      <4>2. CASE k \in D[v.child[s][a]]
        BY <4>2 DEF IsTree, Ordered
      <4>3. CASE k \notin D[v.child[s][a]]
        <5>1. k = x /\ old \in D[v.child[s][a]]
          BY <4>1, <4>3 DEF Exchange
        <5>2. OnSide(Key[old], a, s) /\ old \in D[a]
          BY <1>7, <5>1 DEF IsTree, Ordered
        <5>3. a \in Members(v)
          BY <5>2, OutsideApart
        <5>4. OnSide(Key[a], old, Other(s)) /\ Other(s) \in Sides /\ Other(Other(s)) = s
          BY <1>1, <5>2, SidesOfKeys, SidesOther
        <5>5. OnSide(Key[a], x, Other(s))
          BY <3>1, <5>3, <5>4 DEF Fits
        <5> QED
          BY <5>1, <5>4, <5>5, SidesOfKeys
      <4> QED
        BY <4>2, <4>3
    <3> QED
      BY <3>2, <3>3
  <2> QED
    BY <2>1 DEF Ordered
<1> QED
  BY <1>1, <1>4, <1>10, <1>11, <1>12, <1>13 DEF IsTree

ChildrenOf(f, g, n, x) ==
  \A e \in Sides, m \in Node : f[e][m] = IF m = x THEN g[e][n] ELSE g[e][m]

LEMMA TakeFieldsFields ==
  ASSUME NEW t \in Trees, NEW old \in Node, NEW x \in Node
  PROVE  LET u == TakeFields(t, old, x)
         IN /\ u \in Trees /\ u.root = t.root
            /\ ChildrenOf(u.child, t.child, old, x)
            /\ But(u.parent, t.parent, x, t.parent[old])
            /\ But(u.color, t.color, x, t.color[old])
<1>1. PICK u, l, r, p, k : /\ u = TakeFields(t, old, x)
                           /\ l = t.child["left"][old] /\ r = t.child["right"][old]
                           /\ p = t.parent[old] /\ k = t.color[old]
  OBVIOUS
<1>2. u = [t EXCEPT !.child["left"][x] = l, !.child["right"][x] = r,
                    !.parent[x] = p, !.color[x] = k]
  BY <1>1 DEF TakeFields
<1>3. /\ l \in Pointer /\ r \in Pointer /\ p \in Pointer /\ k \in NodeColors
      /\ "left" # "right"
  BY <1>1, TreeFields, SidesOther
<1>4. PICK a : a = SetChild(t, x, "left", l)
  OBVIOUS
<1>5. PICK b : b = SetChild(a, x, "right", r)
  OBVIOUS
<1>6. /\ a \in Trees /\ a.root = t.root /\ a.parent = t.parent /\ a.color = t.color
      /\ SideBut(a.child, t.child, "left", x, l)
  <2>1. "left" \in Sides /\ l \in Pointer
    BY <1>3, SidesOther
  <2> QED
    BY <1>4, <2>1, SetChildFields
<1>7. /\ b \in Trees /\ b.root = a.root /\ b.parent = a.parent /\ b.color = a.color
      /\ SideBut(b.child, a.child, "right", x, r)
  <2>1. a \in Trees /\ "right" \in Sides /\ r \in Pointer
    BY <1>3, <1>6, SidesOther
  <2> QED
    BY <1>5, <2>1, SetChildFields
<1>8. u = [b EXCEPT !.parent[x] = p, !.color[x] = k]
  BY <1>2, <1>4, <1>5 DEF SetChild
<1>9. /\ u \in Trees /\ u.root = b.root /\ u.child = b.child
      /\ But(u.parent, b.parent, x, p) /\ But(u.color, b.color, x, k)
  <2>1. PICK f : f = [b EXCEPT !.parent[x] = p]
    OBVIOUS
  <2>2. /\ f \in Trees /\ f.root = b.root /\ f.child = b.child /\ f.color = b.color
        /\ But(f.parent, b.parent, x, p)
    BY <1>3, <1>7, <2>1 DEF Trees, But
  <2>3. u = [f EXCEPT !.color[x] = k]
    BY <1>8, <2>1
  <2> QED
    BY <1>3, <2>2, <2>3 DEF Trees, But
<1>10. ASSUME NEW e \in Sides, NEW n \in Node
       PROVE  u.child[e][n] = IF n = x THEN t.child[e][old] ELSE t.child[e][n]
  <2>1. e = "left" \/ e = "right"
    BY DEF Sides
  <2> QED
    BY <1>1, <1>3, <1>6, <1>7, <1>9, <2>1, SidesOther DEF SideBut
<1> QED
  BY <1>1, <1>6, <1>7, <1>9, <1>10 DEF ChildrenOf

(* The successor of an inner element.                                       *)
LEMMA SuccessorFits ==
  ASSUME NEW t, NEW D, IsTree(t, D), NEW old \in Members(t),
         t.child["left"][old] # NULL, t.child["right"][old] # NULL
  PROVE  LET x == Extreme(t, t.child["right"][old], "left")
         IN /\ x \in Members(t) /\ x # old /\ x # t.child["left"][old]
            /\ t.child["left"][x] = NULL /\ OnlyChild(t, x, t.child["right"][x])
            /\ \A m \in Members(t), s \in Sides :
                 m # old /\ m # x /\ OnSide(Key[m], old, s) => OnSide(Key[m], x, s)
<1>1. PICK l, r, x : /\ l = t.child["left"][old] /\ r = t.child["right"][old]
                     /\ x = Extreme(t, r, "left")
  OBVIOUS
<1>2. /\ old \in Node /\ l \in Node /\ r \in Node /\ l \in Members(t) /\ r \in Members(t)
      /\ Other("left") = "right" /\ Other("right") = "left"
  BY <1>1, TreeMembers, SidesOther DEF Members, Other
<1>3. /\ x \in D[r] /\ t.child["left"][x] = NULL
      /\ \A m \in D[r] : m # x => OnSide(Key[m], x, "right")
  BY <1>1, <1>2, ExtremeFinds, SidesOther
<1>4. /\ D[r] \in SUBSET Node /\ D[r] \subseteq D[old] /\ D[l] \in SUBSET Node
      /\ old \notin D[r] /\ l \in D[l] /\ D[l] \cap D[r] = {} /\ old \in D[old]
      /\ D[old] = {old} \cup D[l] \cup D[r]
  <2>1. /\ D[r] \in SUBSET Node /\ D[r] \subseteq D[old]
        /\ old \notin D[r] /\ D[r] \cap D[l] = {} /\ old \in D[old]
    BY <1>1, <1>2, SubtreeOf, SidesOther
  <2>2. D[l] \in SUBSET Node /\ l \in D[l]
    BY <1>2, SubtreeOf, SidesOther
  <2>3. D[old] = {old} \cup D[l] \cup D[r]
    BY <1>1, <1>2, SidesOther DEF IsTree, Subtrees
  <2> QED
    BY <2>1, <2>2, <2>3
<1>5. D[old] \subseteq Members(t)
  <2>1. D[t.root] = Members(t) /\ t.root \in Pointer
    BY TreeFields DEF IsTree, Subtrees
  <2> QED
    BY <2>1, SubtreesNest
<1>6. x \in Node /\ x \in Members(t) /\ x # old /\ x # l
  BY <1>3, <1>4, <1>5
<1>7. OnlyChild(t, x, t.child["right"][x])
  BY <1>2, <1>3, SidesOther DEF OnlyChild
<1>8. /\ \A m \in D[r] : OnSide(Key[m], old, "right")
      /\ \A m \in D[l] : OnSide(Key[m], old, "left")
  BY <1>1, <1>2, SidesOther DEF IsTree, Ordered
<1>9. ASSUME NEW m \in Members(t), NEW s \in Sides, m # old, OnSide(Key[m], old, s), m # x
      PROVE  OnSide(Key[m], x, s)
  <2>0. m \in Node /\ OnSide(Key[old], x, "left")
    BY <1>2, <1>3, <1>6, <1>8, SidesOfKeys, SidesOther DEF Members
  <2>1. CASE m \in D[l]
    <3>1. s = "left"
      BY <1>2, <1>8, <1>9, <2>0, <2>1, SidesOfKeys, SidesOther
    <3> QED
      BY <1>2, <1>6, <1>9, <2>0, <3>1, SidesOfKeys
  <2>2. CASE m \in D[r]
    <3>1. s = "right"
      BY <1>2, <1>8, <1>9, <2>0, <2>2, SidesOfKeys, SidesOther
    <3> QED
      BY <1>3, <1>9, <2>2, <3>1
  <2>3. CASE m \notin D[old]
    <3>1. PICK d \in Sides : \A b \in D[old] : OnSide(Key[m], b, d)
      BY <2>3, Beside
    <3>2. OnSide(Key[m], old, d) /\ OnSide(Key[m], x, d)
      BY <1>3, <1>4, <3>1
    <3>3. s = d
      BY <1>2, <1>9, <2>0, <3>2, SidesOfKeys, SidesOther
    <3> QED
      BY <3>2, <3>3
  <2> QED
    BY <1>4, <1>9, <2>1, <2>2, <2>3
<1> QED
  BY <1>1, <1>3, <1>6, <1>7, <1>9

InnerSteps(t, old, x, w, y1, y2, y3, y4) ==
  /\ x = Extreme(t, t.child["right"][old], "left")
  /\ w = Splice(t, x, t.child["right"][x])
  /\ y1 = TakeFields(w, old, x)
  /\ y2 = Replace(y1, w.parent[old], old, x)
  /\ y3 = SetParent(y2, t.child["left"][old], x)
  /\ y4 = SetParent(y3, w.child["right"][old], x)

(* What RemoveInner() does with the elements: x, unlinked from its place,     *)
(* takes that of old.                                                       *)
LEMMA InnerTakesPlace ==
  ASSUME NEW t, NEW D, IsTree(t, D), NEW old \in Members(t),
         t.child["left"][old] # NULL, t.child["right"][old] # NULL,
         NEW x, NEW w, NEW y1, NEW y2, NEW y3, NEW y4,
         InnerSteps(t, old, x, w, y1, y2, y3, y4)
  PROVE  TookPlace(Forget(w, x), Forget(y4, old), old, x)
<1>0. /\ x = Extreme(t, t.child["right"][old], "left")
      /\ w = Splice(t, x, t.child["right"][x])
      /\ y1 = TakeFields(w, old, x)
      /\ y2 = Replace(y1, w.parent[old], old, x)
      /\ y3 = SetParent(y2, t.child["left"][old], x)
      /\ y4 = SetParent(y3, w.child["right"][old], x)
  BY DEF InnerSteps
<1>1. PICK c, l, r, p, v, u : /\ c = t.child["right"][x] /\ l = t.child["left"][old]
                              /\ r = w.child["right"][old] /\ p = w.parent[old]
                              /\ v = Forget(w, x) /\ u = Forget(y4, old)
  OBVIOUS
<1>2. /\ x \in Members(t) /\ x # old /\ x # l /\ OnlyChild(t, x, c)
      /\ old \in Node /\ old \in Pointer /\ old # NULL
  <2>1. old \in Node
    BY DEF Members
  <2> QED
    BY <1>0, <1>1, <2>1, SuccessorFits, Nodes
<1>3. x \in Node /\ x \in Pointer /\ c \in Pointer /\ x # NULL
  BY <1>2, OnlyChildIs, Nodes
<1>4. Unlinked(t, v, x, c) /\ w \in Trees
      /\ \A e \in Sides, n \in Node :
           w.child[e][n] = IF t.child[e][n] = x THEN c ELSE t.child[e][n]
  <2>1. w = Splice(t, x, c)
    BY <1>0, <1>1
  <2> QED
    BY <1>1, <1>2, <1>3, <2>1, SpliceUnlinks, SpliceFields
<1>5. IsTree(v, UnlinkedBelow(D, x)) /\ Members(v) = Members(t) \ {x}
  BY <1>2, <1>4, UnlinkedIsTree
<1>6. old \in Members(v) /\ x \notin Members(v) /\ v \in Trees
  BY <1>2, <1>5 DEF IsTree
<1>7. /\ v.root = w.root
      /\ \A e \in Sides, n \in Node : v.child[e][n] = IF n = x THEN NULL ELSE w.child[e][n]
      /\ \A n \in Node : v.parent[n] = IF n = x THEN NULL ELSE w.parent[n]
      /\ \A n \in Node : v.color[n] = IF n = x THEN "black" ELSE w.color[n]
  BY <1>1, <1>3, <1>4, ForgetFields DEF But
<1>8. /\ y1 \in Trees /\ y1.root = w.root
      /\ \A e \in Sides, n \in Node : y1.child[e][n] = IF n = x THEN w.child[e][old] ELSE w.child[e][n]
      /\ But(y1.parent, w.parent, x, p)
      /\ But(y1.color, w.color, x, w.color[old])
  <2>1. y1 = TakeFields(w, old, x)
    BY <1>0
  <2>2. old \in Node /\ x \in Node /\ w \in Trees
    BY <1>2, <1>3, <1>4
  <2>3. w.parent[old] = p
    BY <1>1
  <2>4. /\ y1 \in Trees /\ y1.root = w.root
        /\ ChildrenOf(y1.child, w.child, old, x)
        /\ But(y1.parent, w.parent, x, w.parent[old])
        /\ But(y1.color, w.color, x, w.color[old])
    BY <2>1, <2>2, TakeFieldsFields
  <2> QED
    BY <2>3, <2>4 DEF ChildrenOf
<1>9. /\ p \in Pointer /\ p # x /\ p = v.parent[old] /\ (v.root = old <=> p = NULL) /\ p # old
  <2>1. p = v.parent[old] /\ p \in Pointer
    BY <1>1, <1>2, <1>4, <1>7, TreeFields
  <2>2. p # NULL => p \in Members(v) /\ v.root # old /\ p # old
    BY <1>2, <1>5, <2>1, TreeMembers
  <2>3. InTree(v, old)
    BY <1>6 DEF Members
  <2> QED
    BY <1>2, <1>3, <1>6, <2>1, <2>2, <2>3 DEF InTree
<1>10. PICK d : d = IF y1.child["left"][p] = old THEN "left" ELSE "right"
  OBVIOUS
<1>11. /\ y2 \in Trees /\ y2.parent = y1.parent /\ y2.color = y1.color
       /\ y2.root = IF p = NULL THEN x ELSE y1.root
       /\ SideBut(y2.child, y1.child, d, p, x)
  <2>1. y2 = Replace(y1, p, old, x)
    BY <1>0, <1>1
  <2>2. y1 \in Trees /\ p \in Pointer /\ x \in Pointer
    BY <1>3, <1>8, <1>9
  <2> QED
    BY <2>1, <2>2, <1>10, ReplaceFields
<1>12. l \in Pointer /\ r \in Pointer /\ l = v.child["left"][old] /\ r = v.child["right"][old]
  <2>1. l \in Pointer /\ r \in Pointer
    BY <1>1, <1>2, <1>4, TreeFields, SidesOther DEF IsTree
  <2>2. w.child["left"][old] = l
    BY <1>1, <1>2, <1>4, SidesOther
  <2> QED
    BY <1>1, <1>2, <1>7, <2>1, <2>2, SidesOther
<1>13. /\ y3 \in Trees /\ y3.root = y2.root /\ y3.child = y2.child /\ y3.color = y2.color
       /\ But(y3.parent, y2.parent, l, x)
  <2>1. y3 = SetParent(y2, l, x)
    BY <1>0, <1>1
  <2>2. y2 \in Trees /\ l \in Pointer /\ x \in Pointer
    BY <1>3, <1>11, <1>12
  <2> QED
    BY <2>1, <2>2, SetParentFields
<1>14. /\ y4 \in Trees /\ y4.root = y3.root /\ y4.child = y3.child /\ y4.color = y3.color
       /\ But(y4.parent, y3.parent, r, x)
  <2>1. y4 = SetParent(y3, r, x)
    BY <1>0, <1>1
  <2>2. y3 \in Trees /\ r \in Pointer /\ x \in Pointer
    BY <1>3, <1>13, <1>12
  <2> QED
    BY <2>1, <2>2, SetParentFields
<1>15. /\ u \in Trees /\ u.root = y4.root
       /\ \A e \in Sides, n \in Node : u.child[e][n] = IF n = old THEN NULL ELSE y4.child[e][n]
       /\ But(u.parent, y4.parent, old, NULL)
       /\ But(u.color, y4.color, old, "black")
  BY <1>1, <1>2, <1>14, ForgetFields
<1>16. u.root = IF v.root = old THEN x ELSE v.root
  BY <1>7, <1>8, <1>9, <1>11, <1>13, <1>14, <1>15
<1>17. \A e \in Sides, n \in Node : v.child[e][n] = old <=> n = p /\ e = d
  <2>1. p # NULL => d = HangsOn(v, old, p)
    <3>1. p # NULL => p \in Node
      BY <1>9, Nodes
    <3> QED
      BY <1>7, <1>8, <1>9, <1>10, <3>1, SidesOther DEF HangsOn
  <2>2. \A e \in Sides, n \in Node : v.child[e][n] = old <=> n = p /\ e = HangsOn(v, old, p)
    BY <1>2, <1>5, <1>9, ParentSide
  <2> QED
    BY <2>1, <2>2, Nodes
<1>18. ASSUME NEW e \in Sides, NEW n \in Node
       PROVE  u.child[e][n] = IF n = old THEN NULL ELSE IF n = x THEN v.child[e][old]
                              ELSE IF v.child[e][n] = old THEN x ELSE v.child[e][n]
  <2>1. u.child[e][n] = IF n = old THEN NULL ELSE y2.child[e][n]
    BY <1>13, <1>14, <1>15
  <2>2. y2.child[e][n] = IF n = p /\ e = d THEN x ELSE y1.child[e][n]
    BY <1>11 DEF SideBut
  <2>3. y1.child[e][n] = IF n = x THEN w.child[e][old] ELSE w.child[e][n]
    BY <1>8
  <2>4. w.child[e][old] = v.child[e][old] /\ (n # x => w.child[e][n] = v.child[e][n])
    BY <1>2, <1>7
  <2> QED
    BY <1>9, <1>17, <2>1, <2>2, <2>3, <2>4
<1>19. \A n \in Node : v.parent[n] = old <=> n = l \/ n = r
  <2>1. ASSUME NEW n \in Node, v.parent[n] = old PROVE n = l \/ n = r
    <3>1. PICK s \in Sides : v.child[s][old] = n
      BY <1>2, <1>5, <2>1, TreeMembers
    <3>2. s = "left" \/ s = "right"
      BY DEF Sides
    <3> QED
      BY <1>12, <3>1, <3>2
  <2>2. ASSUME NEW n \in Node, n = l \/ n = r PROVE v.parent[n] = old
    <3>1. \A s \in Sides : v.child[s][old] # NULL => v.parent[v.child[s][old]] = old
      BY <1>2, <1>5, TreeMembers
    <3>2. n # NULL
      BY Nodes
    <3> QED
      BY <1>12, <2>2, <3>1, <3>2, SidesOther
  <2> QED
    BY <2>1, <2>2
<1>20. ASSUME NEW n \in Node
       PROVE  u.parent[n] = IF n = old THEN NULL ELSE IF n = x THEN v.parent[old]
                            ELSE IF v.parent[n] = old THEN x ELSE v.parent[n]
  <2>1. u.parent[n] = IF n = old THEN NULL ELSE IF n = r THEN x ELSE IF n = l THEN x
                      ELSE IF n = x THEN p ELSE w.parent[n]
    BY <1>8, <1>11, <1>13, <1>14, <1>15 DEF But
  <2>2. n # x => v.parent[n] = w.parent[n]
    BY <1>7
  <2>3. v.parent[x] = NULL
    BY <1>3, <1>7
  <2>4. x # l /\ x # r
    BY <1>2, <1>3, <1>19, <2>3
  <2> QED
    BY <1>9, <1>19, <2>1, <2>2, <2>4
<1>21. ASSUME NEW n \in Node
       PROVE  u.color[n] = IF n = old THEN "black" ELSE IF n = x THEN v.color[old] ELSE v.color[n]
  BY <1>2, <1>7, <1>8, <1>11, <1>13, <1>14, <1>15 DEF But
<1>22. TookPlace(v, u, old, x)
  BY <1>15, <1>16, <1>18, <1>20, <1>21 DEF TookPlace
<1> QED
  BY <1>1, <1>22

SameShape(t, u) ==
  u \in Trees /\ u.root = t.root /\ u.child = t.child /\ u.parent = t.parent

LEMMA SameShapeIsTree ==
  ASSUME NEW t, NEW D, IsTree(t, D), NEW u, SameShape(t, u)
  PROVE  IsTree(u, D) /\ Members(u) = Members(t)
<1>1. \A n : InTree(u, n) <=> InTree(t, n)
  BY DEF SameShape, InTree
<1>2. Members(u) = Members(t)
  BY <1>1 DEF Members
<1> QED
  BY <1>1, <1>2 DEF SameShape, IsTree, Links, Subtrees, Ordered

Weight(t, n) == IF IsRed(t, n) THEN 0 ELSE 1
Gap(n, s, g, d) == IF n = g /\ s = d THEN 1 ELSE 0

(* h counts the black elements on the ways down from an element, where one    *)
(* may be missing below g on its side d.                                    *)
Heights(t, h, g, d) ==
  /\ h \in [Pointer -> Nat] /\ h[NULL] = 0
  /\ \A n \in Node, s \in Sides : h[n] = h[t.child[s][n]] + Gap(n, s, g, d) + Weight(t, n)

(* No red element but e has a red parent, or none; but a child of e if below.  *)
Reds(t, e, below) ==
  \A n \in Node : IsRed(t, n) /\ n # e =>
    t.parent[n] # NULL /\ (IsRed(t, t.parent[n]) => below /\ t.parent[n] = e)

LEMMA HeightsAt ==
  ASSUME NEW t, NEW D, IsTree(t, D), NEW h, NEW g, NEW d, Heights(t, h, g, d),
         NEW n \in Node, NEW s \in Sides
  PROVE  /\ h[n] \in Nat /\ t.child[s][n] \in Pointer /\ h[t.child[s][n]] \in Nat
         /\ h[n] = h[t.child[s][n]] + Gap(n, s, g, d) + Weight(t, n)
         /\ Gap(n, s, g, d) \in {0, 1} /\ Weight(t, n) \in {0, 1}
<1>1. t.child[s][n] \in Pointer /\ n \in Pointer
  BY TreeFields, Nodes DEF IsTree
<1> QED
  BY <1>1 DEF Heights, Gap, Weight

LEMMA PaintBlackRedFields ==
  ASSUME NEW t \in Trees, NEW y \in Node, NEW x \in Node, x # y
  PROVE  LET v == PaintBlackRed(t, y, x)
         IN /\ SameShape(t, v)
            /\ \A n \in Node : IsRed(v, n) <=> n = x \/ (n # y /\ IsRed(t, n))
<1>1. PICK a : a = Paint(t, y, "black")
  OBVIOUS
<1>2. PICK v : v = Paint(a, x, "red")
  OBVIOUS
<1>3. v = PaintBlackRed(t, y, x)
  BY <1>1, <1>2 DEF PaintBlackRed
<1>4. "black" \in NodeColors /\ "red" \in NodeColors /\ "black" # "red" /\ x \in Pointer /\ y \in Pointer
  BY Nodes DEF NodeColors
<1>5. /\ a \in Trees /\ a.root = t.root /\ a.child = t.child /\ a.parent = t.parent
      /\ But(a.color, t.color, y, "black")
  BY <1>1, <1>4, PaintFields
<1>6. /\ v \in Trees /\ v.root = a.root /\ v.child = a.child /\ v.parent = a.parent
      /\ But(v.color, a.color, x, "red")
  BY <1>2, <1>4, <1>5, PaintFields
<1>7. \A n \in Node : IsRed(v, n) <=> n = x \/ (n # y /\ IsRed(t, n))
  BY <1>4, <1>5, <1>6, Nodes DEF But, IsRed
<1> QED
  BY <1>3, <1>5, <1>6, <1>7 DEF SameShape

-----------------------------------------------------------------------------
(* What a rotation changes, where o, m and r are the other subtrees.          *)
Turns(t, u, s, x, y) ==
  /\ u.child[s][x] = t.child[s][x] /\ u.child[Other(s)][x] = t.child[s][y]
  /\ u.child[s][y] = x /\ u.child[Other(s)][y] = t.child[Other(s)][y]
  /\ \A e \in Sides, n \in Node : n # x /\ n # y =>
       u.child[e][n] = IF t.child[e][n] = x THEN y ELSE t.child[e][n]
  /\ u.root = IF t.root = x THEN y ELSE t.root
  /\ \A n \in Node :
       u.parent[n] = IF n = x THEN y ELSE IF n = y THEN t.parent[x]
                     ELSE IF n = t.child[s][y] THEN x ELSE t.parent[n]

LEMMA RotateGives ==
  ASSUME NEW t, NEW D, IsTree(t, D), NEW s \in Sides, NEW x \in Node, NEW y \in Node,
         t.child[Other(s)][x] = y
  PROVE  LET u == Rotate(t, x, s)
         IN /\ \E E : IsTree(u, E)
            /\ Members(u) = Members(t) /\ u.color = t.color /\ Turns(t, u, s, x, y)
<1>1. PICK u : u = Turned(t, x, s)
  OBVIOUS
<1>2. PICK m, p : m = t.child[s][y] /\ p = t.parent[x]
  OBVIOUS
<1>3. t.child[Other(s)][x] # NULL /\ t \in Trees /\ Other(s) \in Sides /\ Other(s) # s
  BY Nodes, SidesOther DEF IsTree
<1>4. Rotate(t, x, s) = u
  BY <1>1, <1>3, RotateTurns
<1>5. IsTree(u, TurnedBelow(t, D, x, s)) /\ Members(u) = Members(t)
  BY <1>1, <1>3, TurnedIsTree
<1>6. /\ m \in Pointer /\ p \in Pointer /\ y # x /\ t.child[s][x] # x
      /\ t.child[Other(s)][y] # x
  <2>1. m \in Pointer /\ p \in Pointer
    BY <1>2, <1>3, TreeFields
  <2> QED
    BY <1>3, <2>1, Rotating
<1>7. /\ u \in Trees /\ u.color = t.color
      /\ u.root = IF t.root = x THEN y ELSE t.root
      /\ \A e \in Sides, n \in Node :
           u.child[e][n] = IF n = x /\ e = Other(s) THEN m
                           ELSE IF n = y /\ e = s THEN x
                           ELSE IF t.child[e][n] = x THEN y ELSE t.child[e][n]
      /\ \A n \in Node :
           u.parent[n] = IF n = x THEN y ELSE IF n = y THEN p
                         ELSE IF n = m THEN x ELSE t.parent[n]
  BY <1>1, <1>2, <1>3, <1>6, TurnedFields
<1>8. Turns(t, u, s, x, y)
  BY <1>2, <1>3, <1>6, <1>7 DEF Turns
<1> QED
  BY <1>4, <1>5, <1>7, <1>8

(* The elements around x and its child y on the side that is rotated up.       *)
LEMMA AroundFacts ==
  ASSUME NEW t, NEW D, IsTree(t, D), NEW s \in Sides, NEW x \in Node, NEW y \in Node,
         t.child[Other(s)][x] = y
  PROVE  /\ y # x /\ t.parent[y] = x /\ x \in Pointer /\ y \in Pointer
         /\ Other(s) \in Sides /\ Other(s) # s /\ Other(Other(s)) = s
         /\ t.child[s][x] \in Pointer /\ t.child[s][x] # x /\ t.child[s][x] # y
         /\ t.child[s][y] \in Pointer /\ t.child[s][y] # x /\ t.child[s][y] # y
         /\ t.child[Other(s)][y] \in Pointer /\ t.child[Other(s)][y] # x /\ t.child[Other(s)][y] # y
         /\ \A n \in Node, e \in Sides : t.child[e][n] = y => n = x
         /\ \A n \in Node : t.parent[n] = x => n = y \/ n = t.child[s][x]
         /\ t.child[s][y] # NULL => t.child[s][y] \in Node /\ t.parent[t.child[s][y]] = y
         /\ t.parent[x] # x /\ t.parent[x] # y
<1>1. t.child[Other(s)][x] # NULL /\ t \in Trees /\ Other(s) \in Sides /\ Other(s) # s
      /\ x \in Pointer /\ y \in Pointer /\ Other(Other(s)) = s
  BY Nodes, SidesOther DEF IsTree
<1>2. /\ t.child[s][x] \in Pointer /\ t.child[s][y] \in Pointer /\ t.child[Other(s)][y] \in Pointer
  BY <1>1, TreeFields
<1>3. /\ y # x /\ t.parent[y] = x /\ t.child[s][x] # x /\ t.child[s][x] # y
      /\ t.child[s][y] # x /\ t.child[s][y] # y
      /\ t.child[Other(s)][y] # x /\ t.child[Other(s)][y] # y
      /\ \A n \in Node, e \in Sides : t.child[e][n] = y => n = x
      /\ t.child[s][y] # NULL => t.child[s][y] \in Node /\ t.parent[t.child[s][y]] = y
      /\ t.parent[x] # x /\ t.parent[x] # y
  BY <1>1, Rotating
<1>4. ASSUME NEW n \in Node, t.parent[n] = x PROVE n = y \/ n = t.child[s][x]
  <2>1. PICK e \in Sides : t.child[e][x] = n
    BY <1>4, TreeMembers, Nodes
  <2> QED
    BY <2>1, SidesOther
<1> QED
  BY <1>1, <1>2, <1>3, <1>4

Swapping(t, s, x, y, g, d, e) ==
  /\ t.child[Other(s)][x] = y /\ IsRed(t, y) /\ ~ IsRed(t, x) /\ ~ IsRed(t, t.child[s][x])
  /\ g # y /\ (g = x => d = s)
  /\ e # NULL => e # t.child[s][y]

Swapped(h, x, y) == [n \in Pointer |-> IF n = x THEN h[y] ELSE IF n = y THEN h[x] ELSE h[n]]

SwapResult(t, u, s, x, y, h, g, d, e) ==
  /\ \E E : IsTree(u, E)
  /\ Members(u) = Members(t)
  /\ Heights(u, Swapped(h, x, y), g, d)
  /\ Reds(u, e, FALSE)
  /\ Turns(t, u, s, x, y)
  /\ \A n \in Node : IsRed(u, n) <=> n = x \/ (n # y /\ IsRed(t, n))

(* A rotation of the black x and its red child y that exchange their colors.   *)
LEMMA SwapRotate ==
  ASSUME NEW t, NEW D, IsTree(t, D), NEW s \in Sides, NEW x \in Node, NEW y \in Node,
         NEW h, NEW g, NEW d, Heights(t, h, g, d), NEW e, Reds(t, e, FALSE),
         Swapping(t, s, x, y, g, d, e)
  PROVE  SwapResult(t, Rotate(PaintBlackRed(t, y, x), x, s), s, x, y, h, g, d, e)
<1>1. PICK v, u, o, m, r : /\ v = PaintBlackRed(t, y, x) /\ u = Rotate(v, x, s)
                           /\ o = t.child[s][x] /\ m = t.child[s][y] /\ r = t.child[Other(s)][y]
  OBVIOUS
<1>2. /\ t.child[Other(s)][x] = y /\ IsRed(t, y) /\ ~ IsRed(t, x) /\ ~ IsRed(t, o)
      /\ g # y /\ (g = x => d = s) /\ (e # NULL => e # m)
  BY <1>1 DEF Swapping
<1>3. /\ y # x /\ t.parent[y] = x /\ x \in Pointer /\ y \in Pointer
      /\ Other(s) \in Sides /\ Other(s) # s /\ Other(Other(s)) = s
      /\ o \in Pointer /\ o # x /\ o # y /\ m \in Pointer /\ m # x /\ m # y
      /\ r \in Pointer /\ r # x /\ r # y
      /\ \A n \in Node, f \in Sides : t.child[f][n] = y => n = x
      /\ \A n \in Node : t.parent[n] = x => n = y \/ n = o
      /\ m # NULL => m \in Node /\ t.parent[m] = y
      /\ t.parent[x] # x /\ t.parent[x] # y
  BY <1>1, <1>2, AroundFacts
<1>4. SameShape(t, v) /\ \A n \in Node : IsRed(v, n) <=> n = x \/ (n # y /\ IsRed(t, n))
  BY <1>1, <1>3, PaintBlackRedFields DEF IsTree
<1>5. IsTree(v, D) /\ Members(v) = Members(t) /\ v.child = t.child /\ v.parent = t.parent
      /\ v.root = t.root
  BY <1>4, SameShapeIsTree DEF SameShape
<1>6. /\ \E E : IsTree(u, E)
      /\ Members(u) = Members(v) /\ u.color = v.color /\ Turns(v, u, s, x, y)
  BY <1>1, <1>2, <1>5, RotateGives
<1>7. Turns(t, u, s, x, y)
  BY <1>5, <1>6 DEF Turns
<1>8. \A n \in Node : IsRed(u, n) <=> n = x \/ (n # y /\ IsRed(t, n))
  BY <1>4, <1>6 DEF IsRed
<1>9. /\ u.child[s][x] = o /\ u.child[Other(s)][x] = m
      /\ u.child[s][y] = x /\ u.child[Other(s)][y] = r
      /\ \A f \in Sides, n \in Node : n # x /\ n # y =>
           u.child[f][n] = IF t.child[f][n] = x THEN y ELSE t.child[f][n]
      /\ \A n \in Node :
           u.parent[n] = IF n = x THEN y ELSE IF n = y THEN t.parent[x]
                         ELSE IF n = m THEN x ELSE t.parent[n]
  BY <1>1, <1>7 DEF Turns
<1>10. PICK k : k = Swapped(h, x, y)
  OBVIOUS
<1>11. /\ k \in [Pointer -> Nat] /\ k[NULL] = 0 /\ k[x] = h[y] /\ k[y] = h[x]
       /\ \A n \in Pointer : n # x /\ n # y => k[n] = h[n]
  BY <1>3, <1>10, Nodes DEF Swapped, Heights
<1>12. /\ h[y] \in Nat /\ h[x] \in Nat /\ h[m] = h[y] /\ h[r] = h[y]
       /\ h[x] = h[y] + 1 /\ h[x] = h[o] + Gap(x, s, g, d) + 1
       /\ Gap(x, Other(s), g, d) = 0 /\ Gap(y, s, g, d) = 0 /\ Gap(y, Other(s), g, d) = 0
  <2>1. Gap(x, Other(s), g, d) = 0 /\ Gap(y, s, g, d) = 0 /\ Gap(y, Other(s), g, d) = 0
    BY <1>2, <1>3 DEF Gap
  <2>2. Weight(t, x) = 1 /\ Weight(t, y) = 0
    BY <1>2 DEF Weight
  <2>3. /\ h[y] \in Nat /\ h[x] \in Nat /\ h[m] \in Nat /\ h[r] \in Nat
        /\ h[y] = h[m] + Gap(y, s, g, d) + Weight(t, y)
        /\ h[y] = h[r] + Gap(y, Other(s), g, d) + Weight(t, y)
        /\ h[x] = h[y] + Gap(x, Other(s), g, d) + Weight(t, x)
        /\ h[x] = h[o] + Gap(x, s, g, d) + Weight(t, x)
    BY <1>1, <1>2, <1>3, HeightsAt
  <2> QED
    BY <2>1, <2>2, <2>3
<1>13. ASSUME NEW n \in Node, NEW f \in Sides
       PROVE  k[n] = k[u.child[f][n]] + Gap(n, f, g, d) + Weight(u, n)
  <2>0. f = s \/ f = Other(s)
    BY SidesOther
  <2>1. CASE n = x
    <3>1. Weight(u, x) = 0
      BY <1>8 DEF Weight
    <3>2. k[o] = h[o] /\ k[m] = h[m] /\ h[o] \in Nat /\ Gap(x, s, g, d) \in {0, 1}
      BY <1>3, <1>11 DEF Heights, Gap
    <3>3. h[y] = h[o] + Gap(x, s, g, d)
      BY <1>12, <3>2
    <3>4. CASE f = s
      BY <1>9, <1>11, <2>1, <3>1, <3>2, <3>3, <3>4
    <3>5. CASE f = Other(s)
      BY <1>9, <1>11, <1>12, <2>1, <3>1, <3>2, <3>5
    <3> QED
      BY <2>0, <3>4, <3>5
  <2>2. CASE n = y
    <3>1. Weight(u, y) = 1
      BY <1>3, <1>8 DEF Weight
    <3>2. k[r] = h[r] /\ k[x] = h[y] /\ k[y] = h[x]
      BY <1>3, <1>11
    <3>3. CASE f = s
      BY <1>9, <1>12, <2>2, <3>1, <3>2, <3>3
    <3>4. CASE f = Other(s)
      BY <1>9, <1>12, <2>2, <3>1, <3>2, <3>4
    <3> QED
      BY <2>0, <3>3, <3>4
  <2>3. CASE n # x /\ n # y
    <3>1. Weight(u, n) = Weight(t, n)
      BY <1>8, <2>3 DEF Weight
    <3>2. k[n] = h[n] /\ t.child[f][n] \in Pointer /\ t.child[f][n] # y
      BY <1>3, <1>11, <2>3, HeightsAt, Nodes
    <3>3. k[u.child[f][n]] = h[t.child[f][n]]
      BY <1>9, <1>11, <2>3, <3>2
    <3> QED
      BY <3>1, <3>2, <3>3, HeightsAt
  <2> QED
    BY <2>1, <2>2, <2>3
<1>14. Heights(u, k, g, d)
  BY <1>11, <1>13 DEF Heights
<1>15. ASSUME NEW n \in Node, IsRed(u, n), n # e
       PROVE  u.parent[n] # NULL /\ ~ IsRed(u, u.parent[n])
  <2>1. CASE n = x
    BY <1>3, <1>8, <1>9, <2>1, Nodes
  <2>2. CASE n # x
    <3>1. n # y /\ IsRed(t, n)
      BY <1>8, <1>15, <2>2
    <3>2. t.parent[n] # NULL /\ ~ IsRed(t, t.parent[n])
      BY <1>15, <3>1 DEF Reds
    <3>3. n # m /\ n # o
      BY <1>2, <1>3, <3>1, <3>2, Nodes
    <3>4. u.parent[n] = t.parent[n] /\ t.parent[n] # x /\ t.parent[n] \in Node
      <4>1. t.parent[n] \in Node
        BY <3>2, TreeMembers
      <4> QED
        BY <1>3, <1>9, <2>2, <3>1, <3>3, <4>1
    <3> QED
      BY <1>8, <3>2, <3>4
  <2> QED
    BY <2>1, <2>2
<1>16. Reds(u, e, FALSE)
  BY <1>15 DEF Reds
<1> QED
  BY <1>1, <1>5, <1>6, <1>7, <1>8, <1>10, <1>14, <1>16 DEF SwapResult

(* The rotation of a red x and its red child y.                              *)
LEMMA InnerRotate ==
  ASSUME NEW t, NEW D, IsTree(t, D), NEW s \in Sides, NEW x \in Node, NEW y \in Node,
         t.child[Other(s)][x] = y, IsRed(t, x), IsRed(t, y),
         NEW h, NEW g, Heights(t, h, NULL, g), Reds(t, y, FALSE)
  PROVE  LET u == Rotate(t, x, s)
         IN /\ \E E : IsTree(u, E)
            /\ Members(u) = Members(t) /\ u.color = t.color
            /\ Heights(u, h, NULL, g) /\ Reds(u, x, FALSE) /\ Turns(t, u, s, x, y)
<1>1. PICK u, o, m, r : /\ u = Rotate(t, x, s)
                        /\ o = t.child[s][x] /\ m = t.child[s][y] /\ r = t.child[Other(s)][y]
  OBVIOUS
<1>2. /\ y # x /\ t.parent[y] = x /\ x \in Pointer /\ y \in Pointer
      /\ Other(s) \in Sides /\ Other(s) # s /\ Other(Other(s)) = s
      /\ o \in Pointer /\ o # x /\ o # y /\ m \in Pointer /\ m # x /\ m # y
      /\ r \in Pointer /\ r # x /\ r # y
      /\ \A n \in Node, f \in Sides : t.child[f][n] = y => n = x
      /\ m # NULL => m \in Node /\ t.parent[m] = y
      /\ t.parent[x] # x /\ t.parent[x] # y
  BY <1>1, AroundFacts
<1>3. /\ \E E : IsTree(u, E)
      /\ Members(u) = Members(t) /\ u.color = t.color /\ Turns(t, u, s, x, y)
  BY <1>1, RotateGives
<1>4. \A n : IsRed(u, n) <=> IsRed(t, n)
  BY <1>3 DEF IsRed
<1>5. /\ u.child[s][x] = o /\ u.child[Other(s)][x] = m
      /\ u.child[s][y] = x /\ u.child[Other(s)][y] = r
      /\ \A f \in Sides, n \in Node : n # x /\ n # y =>
           u.child[f][n] = IF t.child[f][n] = x THEN y ELSE t.child[f][n]
      /\ \A n \in Node :
           u.parent[n] = IF n = x THEN y ELSE IF n = y THEN t.parent[x]
                         ELSE IF n = m THEN x ELSE t.parent[n]
  BY <1>1, <1>3 DEF Turns
<1>6. \A n \in Node, f \in Sides : Gap(n, f, NULL, g) = 0
  BY Nodes DEF Gap
<1>7. \A n \in Node : Weight(u, n) = Weight(t, n)
  BY <1>4 DEF Weight
<1>8. /\ h[x] \in Nat /\ h[y] = h[x] /\ h[o] = h[x] /\ h[m] = h[x] /\ h[r] = h[x]
  <2>1. Weight(t, x) = 0 /\ Weight(t, y) = 0
    BY DEF Weight
  <2>2. /\ h[x] \in Nat /\ h[y] \in Nat /\ h[o] \in Nat /\ h[m] \in Nat /\ h[r] \in Nat
        /\ h[x] = h[o] + Gap(x, s, NULL, g) + Weight(t, x)
        /\ h[x] = h[y] + Gap(x, Other(s), NULL, g) + Weight(t, x)
        /\ h[y] = h[m] + Gap(y, s, NULL, g) + Weight(t, y)
        /\ h[y] = h[r] + Gap(y, Other(s), NULL, g) + Weight(t, y)
    BY <1>1, <1>2, HeightsAt
  <2> QED
    BY <1>2, <1>6, <2>1, <2>2
<1>9. ASSUME NEW n \in Node, NEW f \in Sides
      PROVE  h[n] = h[u.child[f][n]] + Gap(n, f, NULL, g) + Weight(u, n)
  <2>0. f = s \/ f = Other(s)
    BY SidesOther
  <2>1. CASE n = x \/ n = y
    <3>1. Weight(u, n) = 0
      BY <1>4, <2>1 DEF Weight
    <3>2. h[u.child[f][n]] = h[n] /\ h[n] \in Nat
      BY <1>5, <1>8, <2>0, <2>1
    <3> QED
      BY <1>6, <3>1, <3>2
  <2>2. CASE n # x /\ n # y
    <3>1. h[u.child[f][n]] = h[t.child[f][n]]
      BY <1>5, <1>8, <2>2
    <3> QED
      BY <1>7, <3>1, HeightsAt
  <2> QED
    BY <2>1, <2>2
<1>10. Heights(u, h, NULL, g)
  BY <1>9 DEF Heights
<1>11. t.parent[x] # NULL /\ ~ IsRed(t, t.parent[x])
  BY <1>2 DEF Reds
<1>12. ASSUME NEW n \in Node, IsRed(u, n), n # x
       PROVE  u.parent[n] # NULL /\ ~ IsRed(u, u.parent[n])
  <2>1. CASE n = y
    BY <1>2, <1>4, <1>5, <1>11, <2>1
  <2>2. CASE n # y
    <3>1. t.parent[n] # NULL /\ ~ IsRed(t, t.parent[n])
      BY <1>4, <1>12, <2>2 DEF Reds
    <3>2. n # m
      BY <1>2, <3>1, Nodes
    <3> QED
      BY <1>4, <1>5, <1>12, <2>2, <3>1, <3>2
  <2> QED
    BY <2>1, <2>2
<1>13. Reds(u, x, FALSE)
  BY <1>12 DEF Reds
<1> QED
  BY <1>1, <1>3, <1>10, <1>13

-----------------------------------------------------------------------------
(* What holds while RB_INSERT_COLOR climbs: the red e may have a red parent.   *)
Inserting(t, e) ==
  /\ \E D : IsTree(t, D)
  /\ \E h : Heights(t, h, NULL, "left")
  /\ Reds(t, e, FALSE) /\ e \in Members(t) /\ IsRed(t, e)

Uncles(t, e, p, g, s, w) ==
  /\ p = t.parent[e] /\ g = t.parent[p] /\ s = SideOf(t, p)
  /\ w = t.child[Other(s)][g]
  /\ e \in Node /\ p \in Node /\ g \in Node /\ s \in Sides /\ w \in Pointer
  /\ t.child[s][g] = p /\ w # p /\ p # e /\ p # g /\ g # e /\ g # w
  /\ ~ IsRed(t, g) /\ g \in Members(t) /\ w = Uncle(t, p)

LEMMA UnclesAre ==
  ASSUME NEW t, NEW e, Inserting(t, e), IsRed(t, t.parent[e])
  PROVE  \E p, g, s, w : Uncles(t, e, p, g, s, w)
<1>1. PICK D : IsTree(t, D)
  BY DEF Inserting
<1>2. PICK p, g, s : p = t.parent[e] /\ g = t.parent[p] /\ s = SideOf(t, p)
  OBVIOUS
<1>3. PICK w : w = t.child[Other(s)][g]
  OBVIOUS
<1>4. e \in Node /\ t \in Trees
  BY <1>1 DEF Inserting, Members, IsTree
<1>5. p \in Node /\ p # e
  <2>1. p # NULL
    BY <1>2 DEF IsRed
  <2> QED
    BY <1>1, <1>2, <1>4, <2>1, TreeMembers
<1>6. g # NULL /\ ~ IsRed(t, g)
  BY <1>2, <1>5 DEF Inserting, Reds
<1>7. g \in Node /\ g # p /\ g \in Members(t)
  BY <1>1, <1>2, <1>5, <1>6, TreeMembers
<1>8. s = HangsOn(t, p, g) /\ s \in Sides
  BY <1>2, SidesOther DEF SideOf, HangsOn
<1>9. t.child[s][g] = p
  BY <1>1, <1>2, <1>5, <1>7, <1>8, ParentSide
<1>10. Other(s) \in Sides /\ w \in Pointer
  BY <1>3, <1>4, <1>7, <1>8, SidesOther, TreeFields
<1>11. w # p /\ w # g
  <2>1. w # p
    BY <1>1, <1>3, <1>5, <1>7, <1>8, <1>9, TreeMembers, Nodes
  <2>2. w = NULL \/ w # g
    BY <1>1, <1>3, <1>7, <1>10, TreeMembers
  <2> QED
    BY <1>7, <2>1, <2>2, Nodes
<1>12. g # e
  BY <1>6 DEF Inserting
<1>13. w = Uncle(t, p)
  BY <1>2, <1>3 DEF Uncle
<1> QED
  BY <1>2, <1>3, <1>4, <1>5, <1>6, <1>7, <1>8, <1>9, <1>10, <1>11, <1>12, <1>13 DEF Uncles

==============================================================================
