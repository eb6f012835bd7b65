----------------------------- MODULE TreesProofs -----------------------------
(***************************************************************************)
(* Proofs about trees.  RedBlack: insertion and removal keep a tree of every  *)
(* size ordered and balanced, do what they are called for, end, and leave a   *)
(* tree in which searches and walks find what is there.  Enums and TextStyle, *)
(* which keep their records in two such trees: these stay one set, names and  *)
(* codes are found by each other, and a style shows what it names.            *)
(***************************************************************************)
EXTENDS RedBlackShapes, TextStyle

LEMMA RecolorInserts ==
  ASSUME NEW t, NEW e, Inserting(t, e), NEW p, NEW g, NEW s, NEW w, Uncles(t, e, p, g, s, w),
         IsRed(t, p), IsRed(t, w)
  PROVE  LET u == PaintBlackRed(Paint(t, w, "black"), p, g)
         IN /\ Inserting(u, g) /\ SameShape(t, u)
            /\ \A n \in Node : IsRed(u, n) <=> n = g \/ (n # p /\ n # w /\ IsRed(t, n))
<1>1. PICK D, h : IsTree(t, D) /\ Heights(t, h, NULL, "left")
  BY DEF Inserting
<1>2. /\ p = t.parent[e] /\ g = t.parent[p] /\ w = t.child[Other(s)][g]
      /\ e \in Node /\ p \in Node /\ g \in Node /\ s \in Sides /\ w \in Pointer
      /\ t.child[s][g] = p /\ w # p /\ p # e /\ p # g /\ g # e /\ g # w
      /\ ~ IsRed(t, g) /\ g \in Members(t)
  BY DEF Uncles
<1>t. /\ e \in Node /\ p \in Node /\ g \in Node /\ s \in Sides /\ w \in Pointer
      /\ w # p /\ p # e /\ p # g /\ g # e /\ g # w
  BY <1>2
<1>3. w \in Node /\ w # NULL
  BY <1>2, Nodes DEF IsRed
<1>4. PICK a, u : a = Paint(t, w, "black") /\ u = PaintBlackRed(a, p, g)
  OBVIOUS
<1>5. "black" \in NodeColors /\ "black" # "red" /\ t \in Trees
  BY <1>1 DEF NodeColors, IsTree
<1>6. /\ a \in Trees /\ a.root = t.root /\ a.child = t.child /\ a.parent = t.parent
      /\ But(a.color, t.color, w, "black")
  <2>1. t \in Trees /\ w \in Pointer /\ "black" \in NodeColors
    BY <1>2, <1>5
  <2> QED
    BY <1>4, <2>1, PaintFields
<1>7. \A n \in Node : IsRed(a, n) <=> n # w /\ IsRed(t, n)
  BY <1>5, <1>6, Nodes DEF But, IsRed
<1>8. /\ SameShape(a, u)
      /\ \A n \in Node : IsRed(u, n) <=> n = g \/ (n # p /\ IsRed(a, n))
  BY <1>t, <1>4, <1>6, PaintBlackRedFields
<1>9. SameShape(t, u) /\ \A n \in Node : IsRed(u, n) <=> n = g \/ (n # p /\ n # w /\ IsRed(t, n))
  BY <1>6, <1>7, <1>8 DEF SameShape
<1>10. /\ u.child = t.child /\ u.parent = t.parent
       /\ IsTree(u, D) /\ Members(u) = Members(t)
  BY <1>1, <1>9, SameShapeIsTree DEF SameShape
<1> DEFINE k == [n \in Pointer |-> IF n = p \/ n = w THEN h[n] + 1 ELSE h[n]]
<1>11. /\ k \in [Pointer -> Nat] /\ k[NULL] = 0 /\ k[p] = h[p] + 1 /\ k[w] = h[w] + 1
       /\ \A n \in Pointer : n # p /\ n # w => k[n] = h[n]
  BY <1>1, <1>t, <1>3, Nodes DEF Heights
<1> HIDE DEF k
<1>12. ASSUME NEW n \in Node, NEW f \in Sides
       PROVE  k[n] = k[u.child[f][n]] + Gap(n, f, NULL, "left") + Weight(u, n)
  <2>1. /\ h[n] \in Nat /\ t.child[f][n] \in Pointer /\ h[t.child[f][n]] \in Nat
        /\ h[n] = h[t.child[f][n]] + Gap(n, f, NULL, "left") + Weight(t, n)
    BY <1>1, HeightsAt
  <2>2. Gap(n, f, NULL, "left") = 0
    BY Nodes DEF Gap
  <2>3. n # g => t.child[f][n] # p /\ t.child[f][n] # w
    <3>0. /\ t.child[s][g] # NULL => t.parent[t.child[s][g]] = g
          /\ t.child[Other(s)][g] # NULL => t.parent[t.child[Other(s)][g]] = g
      BY <1>1, <1>t, SidesOther, TreeMembers
    <3>1. t.parent[p] = g /\ t.parent[w] = g
      BY <1>2, <1>3, <3>0, Nodes
    <3>2. t.child[f][n] # NULL => t.parent[t.child[f][n]] = n
      BY <1>1, TreeMembers
    <3> QED
      BY <1>t, <1>3, <3>1, <3>2, Nodes
  <2>4. CASE n = p \/ n = w
    <3>1. Weight(u, n) = 1 /\ Weight(t, n) = 0
      BY <1>2, <1>9, <2>4 DEF Weight
    <3>2. k[n] = h[n] + 1 /\ k[t.child[f][n]] = h[t.child[f][n]]
      BY <1>2, <1>11, <2>1, <2>3, <2>4
    <3> QED
      BY <1>10, <2>1, <2>2, <3>1, <3>2
  <2>5. CASE n = g
    <3>1. Weight(u, n) = 0 /\ Weight(t, n) = 1
      BY <1>2, <1>9, <2>5 DEF Weight
    <3>2. t.child[f][n] = p \/ t.child[f][n] = w
      BY <1>2, <2>5, SidesOther
    <3>3. k[n] = h[n] /\ k[t.child[f][n]] = h[t.child[f][n]] + 1
      BY <1>2, <1>11, <2>5, <3>2, Nodes
    <3> QED
      BY <1>10, <2>1, <2>2, <3>1, <3>3
  <2>6. CASE n # p /\ n # w /\ n # g
    <3>1. Weight(u, n) = Weight(t, n)
      BY <1>9, <2>6 DEF Weight
    <3>2. k[n] = h[n] /\ k[t.child[f][n]] = h[t.child[f][n]]
      BY <1>11, <2>1, <2>3, <2>6, Nodes
    <3> QED
      BY <1>10, <2>1, <3>1, <3>2
  <2> QED
    BY <2>4, <2>5, <2>6
<1>13. Heights(u, k, NULL, "left")
  BY <1>11, <1>12 DEF Heights
<1>14. ASSUME NEW n \in Node, IsRed(u, n), n # g
       PROVE  u.parent[n] # NULL /\ ~ IsRed(u, u.parent[n])
  <2>1. n # p /\ n # w /\ IsRed(t, n)
    BY <1>9, <1>14
  <2>2. CASE n = e
    BY <1>2, <1>9, <1>10, <2>2, Nodes
  <2>3. CASE n # e
    <3>1. t.parent[n] # NULL /\ ~ IsRed(t, t.parent[n])
      BY <2>1, <2>3 DEF Inserting, Reds
    <3>2. PICK f \in Sides : t.parent[n] \in Node /\ t.child[f][t.parent[n]] = n
      BY <1>1, <3>1, TreeMembers
    <3>3. t.parent[n] # g
      BY <1>2, <2>1, <3>2, SidesOther
    <3> QED
      BY <1>9, <1>10, <3>1, <3>2, <3>3
  <2> QED
    BY <2>2, <2>3
<1>15. Inserting(u, g)
  <2>1. Reds(u, g, FALSE)
    BY <1>14 DEF Reds
  <2> QED
    BY <1>2, <1>9, <1>10, <1>13, <2>1 DEF Inserting
<1> QED
  BY <1>4, <1>9, <1>15

(* The second rotation of RB_INSERT_COLOR, or its only one.                   *)
LEMMA OuterInserts ==
  ASSUME NEW t, NEW e, Inserting(t, e), NEW p, NEW g, NEW s, NEW w, Uncles(t, e, p, g, s, w),
         IsRed(t, p), ~ IsRed(t, w), t.child[Other(s)][p] # e
  PROVE  LET u == Rotate(PaintBlackRed(t, p, g), g, Other(s))
         IN Inserting(u, e) /\ Members(u) = Members(t) /\ ~ IsRed(u, u.parent[e])
<1>1. PICK D, h : IsTree(t, D) /\ Heights(t, h, NULL, "left")
  BY DEF Inserting
<1>2. /\ p = t.parent[e] /\ g = t.parent[p] /\ w = t.child[Other(s)][g]
      /\ e \in Node /\ p \in Node /\ g \in Node /\ s \in Sides /\ w \in Pointer
      /\ t.child[s][g] = p /\ w # p /\ p # e /\ p # g /\ g # e /\ g # w
      /\ ~ IsRed(t, g) /\ g \in Members(t)
  BY DEF Uncles
<1>t. /\ e \in Node /\ p \in Node /\ g \in Node /\ s \in Sides /\ w \in Pointer
      /\ w # p /\ p # e /\ p # g /\ g # e /\ g # w
  BY <1>2
<1>3. Other(s) \in Sides /\ Other(Other(s)) = s
  BY <1>2, SidesOther
<1>4. Swapping(t, Other(s), g, p, NULL, "left", e)
  BY <1>2, <1>3, Nodes DEF Swapping
<1>5. PICK u : u = Rotate(PaintBlackRed(t, p, g), g, Other(s))
  OBVIOUS
<1>6. Reds(t, e, FALSE) /\ e \in Members(t) /\ IsRed(t, e)
  BY DEF Inserting
<1>7. /\ \E E : IsTree(u, E)
      /\ Members(u) = Members(t)
      /\ Heights(u, Swapped(h, g, p), NULL, "left")
      /\ Reds(u, e, FALSE)
      /\ Turns(t, u, Other(s), g, p)
      /\ \A n \in Node : IsRed(u, n) <=> n = g \/ (n # p /\ IsRed(t, n))
  <2>1. SwapResult(t, u, Other(s), g, p, h, NULL, "left", e)
    BY <1>1, <1>t, <1>3, <1>4, <1>5, <1>6, SwapRotate
  <2> QED
    BY <2>1 DEF SwapResult
<1>8. IsRed(u, e)
  BY <1>2, <1>6, <1>7
<1>9. u.parent[e] = p
  BY <1>2, <1>7 DEF Turns
<1>10. ~ IsRed(u, p)
  BY <1>2, <1>7
<1> QED
  BY <1>5, <1>6, <1>7, <1>8, <1>9, <1>10 DEF Inserting

(* The first one.                                                           *)
LEMMA InnerInserts ==
  ASSUME NEW t, NEW e, Inserting(t, e), NEW p, NEW g, NEW s, NEW w, Uncles(t, e, p, g, s, w),
         IsRed(t, p), ~ IsRed(t, w), t.child[Other(s)][p] = e
  PROVE  LET u == Rotate(t, p, s)
         IN /\ Inserting(u, p) /\ Members(u) = Members(t) /\ Uncles(u, p, e, g, s, w)
            /\ IsRed(u, e) /\ ~ IsRed(u, w) /\ u.child[Other(s)][e] # p
<1>1. PICK D, h : IsTree(t, D) /\ Heights(t, h, NULL, "left")
  BY DEF Inserting
<1>2. /\ p = t.parent[e] /\ g = t.parent[p] /\ w = t.child[Other(s)][g]
      /\ e \in Node /\ p \in Node /\ g \in Node /\ s \in Sides /\ w \in Pointer
      /\ t.child[s][g] = p /\ w # p /\ p # e /\ p # g /\ g # e /\ g # w
      /\ ~ IsRed(t, g) /\ g \in Members(t)
  BY DEF Uncles
<1>t. /\ e \in Node /\ p \in Node /\ g \in Node /\ s \in Sides /\ w \in Pointer
      /\ w # p /\ p # e /\ p # g /\ g # e /\ g # w
  BY <1>2
<1>3. Other(s) \in Sides /\ Other(Other(s)) = s /\ Other(s) # s
  BY <1>2, SidesOther
<1>4. PICK u : u = Rotate(t, p, s)
  OBVIOUS
<1>5. Reds(t, e, FALSE) /\ e \in Members(t) /\ IsRed(t, e)
  BY DEF Inserting
<1>6. /\ \E E : IsTree(u, E)
      /\ Members(u) = Members(t) /\ u.color = t.color
      /\ Heights(u, h, NULL, "left") /\ Reds(u, p, FALSE) /\ Turns(t, u, s, p, e)
  BY <1>1, <1>2, <1>4, <1>5, InnerRotate
<1>7. \A n : IsRed(u, n) <=> IsRed(t, n)
  BY <1>6 DEF IsRed
<1>8. p \in Members(t)
  BY <1>1, <1>2, TreeMembers, Nodes
<1>9. Inserting(u, p)
  BY <1>6, <1>7, <1>8 DEF Inserting
<1>10. /\ u.parent[p] = e /\ u.parent[e] = g
       /\ u.child[s][g] = e /\ u.child[Other(s)][g] = w
  BY <1>2, <1>3, <1>6 DEF Turns
<1>11. u.child[Other(s)][e] # p
  <2>1. u.child[Other(s)][e] = t.child[Other(s)][e]
    BY <1>6 DEF Turns
  <2>2. t.child[Other(s)][e] # p
    <3>1. t.child[Other(s)][p] = e
      OBVIOUS
    <3> QED
      BY <1>1, <1>t, <3>1, AroundFacts
  <2> QED
    BY <2>1, <2>2
<1>12. IsRed(u, u.parent[p])
  BY <1>5, <1>7, <1>10
<1>13. PICK p1, g1, s1, w1 : Uncles(u, p, p1, g1, s1, w1)
  BY <1>9, <1>12, UnclesAre
<1>14. p1 = e /\ g1 = g /\ w1 = u.child[Other(s1)][g] /\ s1 \in Sides /\ w1 # e
  BY <1>10, <1>13 DEF Uncles
<1>15. s1 = s
  BY <1>2, <1>3, <1>10, <1>14, SidesOther
<1>16. w1 = w
  BY <1>10, <1>14, <1>15
<1> QED
  BY <1>4, <1>5, <1>6, <1>7, <1>9, <1>11, <1>13, <1>14, <1>15, <1>16

(* What holds between the operations.                                       *)
Resting(t) ==
  /\ \E D : IsTree(t, D)
  /\ \E h : Heights(t, h, NULL, "left")
  /\ Reds(t, NULL, FALSE)

LEMMA Blackened ==
  ASSUME NEW t \in Trees, NEW n \in Pointer
  PROVE  LET u == Paint(t, n, "black")
         IN SameShape(t, u) /\ \A m \in Node : IsRed(u, m) <=> m # n /\ IsRed(t, m)
<1>1. PICK u : u = Paint(t, n, "black")
  OBVIOUS
<1>2. "black" \in NodeColors /\ "black" # "red"
  BY DEF NodeColors
<1>3. /\ u \in Trees /\ u.root = t.root /\ u.child = t.child /\ u.parent = t.parent
      /\ But(u.color, t.color, n, "black")
  BY <1>1, <1>2, PaintFields
<1>4. \A m \in Node : IsRed(u, m) <=> m # n /\ IsRed(t, m)
  BY <1>2, <1>3, Nodes DEF But, IsRed
<1> QED
  BY <1>1, <1>3, <1>4 DEF SameShape

LEMMA NoGap == \A n \in Node : \A s, d : Gap(n, s, NULL, d) = 0
  BY Nodes DEF Gap

(* The root may be painted black.                                           *)
LEMMA RootBlackened ==
  ASSUME NEW t, NEW D, IsTree(t, D), NEW h, Heights(t, h, NULL, "left")
  PROVE  \E k : Heights(Paint(t, t.root, "black"), k, NULL, "left")
<1>1. PICK u, r : u = Paint(t, t.root, "black") /\ r = t.root
  OBVIOUS
<1>2. t \in Trees /\ r \in Pointer
  BY <1>1, TreeFields DEF IsTree
<1>3. SameShape(t, u) /\ \A m \in Node : IsRed(u, m) <=> m # r /\ IsRed(t, m)
  BY <1>1, <1>2, Blackened
<1>4. u.child = t.child
  BY <1>3 DEF SameShape
<1> DEFINE k == [n \in Pointer |-> IF n = r /\ IsRed(t, r) THEN h[n] + 1 ELSE h[n]]
<1>5. /\ k \in [Pointer -> Nat] /\ k[NULL] = 0
      /\ IsRed(t, r) => k[r] = h[r] + 1
      /\ \A n \in Pointer : n # r \/ ~ IsRed(t, r) => k[n] = h[n]
  <2>1. h \in [Pointer -> Nat] /\ h[NULL] = 0
    BY DEF Heights
  <2>2. IsRed(t, r) => r # NULL
    BY DEF IsRed
  <2>3. NULL \in Pointer
    BY Nodes
  <2>4. k \in [Pointer -> Nat]
    BY <2>1
  <2> QED
    BY <1>2, <2>1, <2>2, <2>3, <2>4
<1> HIDE DEF k
<1>6. ASSUME NEW n \in Node, NEW f \in Sides
      PROVE  k[n] = k[u.child[f][n]] + Gap(n, f, NULL, "left") + Weight(u, n)
  <2>1. /\ h[n] \in Nat /\ t.child[f][n] \in Pointer /\ h[t.child[f][n]] \in Nat
        /\ h[n] = h[t.child[f][n]] + Gap(n, f, NULL, "left") + Weight(t, n)
    BY HeightsAt
  <2>2. t.child[f][n] # r \/ ~ IsRed(t, r)
    BY <1>1, TreeMembers DEF IsRed
  <2>3. k[t.child[f][n]] = h[t.child[f][n]]
    BY <1>5, <2>1, <2>2
  <2>4. CASE n = r /\ IsRed(t, r)
    <3>1. Weight(u, n) = 1 /\ Weight(t, n) = 0
      BY <1>3, <2>4 DEF Weight
    <3> QED
      BY <1>4, <1>5, <2>1, <2>3, <2>4, <3>1, NoGap
  <2>5. CASE ~ (n = r /\ IsRed(t, r))
    <3>1. Weight(u, n) = Weight(t, n) /\ k[n] = h[n]
      BY <1>3, <1>5, <2>5, Nodes DEF Weight
    <3> QED
      BY <1>4, <2>1, <2>3, <3>1
  <2> QED
    BY <2>4, <2>5
<1>7. Heights(u, k, NULL, "left")
  BY <1>5, <1>6 DEF Heights
<1> QED
  BY <1>1, <1>7

LEMMA InsertEnds ==
  ASSUME NEW t, NEW e, Inserting(t, e), ~ IsRed(t, t.parent[e])
  PROVE  LET u == Paint(t, t.root, "black") IN Resting(u) /\ Members(u) = Members(t)
<1>1. PICK D, h : IsTree(t, D) /\ Heights(t, h, NULL, "left")
  BY DEF Inserting
<1>2. PICK u : u = Paint(t, t.root, "black")
  OBVIOUS
<1>3. t \in Trees /\ t.root \in Pointer
  BY <1>1, TreeFields DEF IsTree
<1>4. SameShape(t, u) /\ \A m \in Node : IsRed(u, m) <=> m # t.root /\ IsRed(t, m)
  BY <1>2, <1>3, Blackened
<1>5. IsTree(u, D) /\ Members(u) = Members(t) /\ u.parent = t.parent
  BY <1>1, <1>4, SameShapeIsTree DEF SameShape
<1>6. \E k : Heights(u, k, NULL, "left")
  BY <1>1, <1>2, RootBlackened
<1>7. ASSUME NEW n \in Node, IsRed(u, n) PROVE u.parent[n] # NULL /\ ~ IsRed(u, u.parent[n])
  <2>1. n # t.root /\ IsRed(t, n)
    BY <1>4, <1>7
  <2>2. t.parent[n] # NULL /\ ~ IsRed(t, t.parent[n])
    <3>1. CASE n = e
      BY <2>1, <3>1 DEF Inserting, Members, InTree
    <3>2. CASE n # e
      BY <2>1, <3>2 DEF Inserting, Reds
    <3> QED
      BY <3>1, <3>2
  <2>3. t.parent[n] \in Node
    BY <1>3, <2>2, TreeFields, Nodes
  <2> QED
    BY <1>4, <1>5, <2>2, <2>3
<1>8. Reds(u, NULL, FALSE)
  BY <1>7 DEF Reds
<1> QED
  BY <1>2, <1>5, <1>6, <1>8 DEF Resting

LEMMA InsertStarts ==
  ASSUME NEW t, Resting(t), NEW n \in Node, NEW u, Hung(t, u, n, Below(t, n)),
         Below(t, n) # NULL => Key[Below(t, n)] # Key[n]
  PROVE  /\ Inserting(u, n) /\ Members(u) = Members(t) \cup {n}
         /\ \A m \in Members(t) : Key[m] # Key[n]
<1>1. PICK D, h : IsTree(t, D) /\ Heights(t, h, NULL, "left")
  BY DEF Resting
<1>2. PICK p, d : p = Below(t, n) /\ d = Side(Key[n], p)
  OBVIOUS
<1>3. /\ n \notin Members(t) /\ \A m \in Members(t) : Key[m] # Key[n]
      /\ IsTree(u, HungBelow(D, n, p))
      /\ Members(u) = Members(t) \cup {n}
      /\ p # NULL => t.root # NULL
      /\ t.root # NULL => p \in Members(t) /\ t.child[d][p] = NULL
  <2>1. p # NULL => t.root # NULL
    BY <1>1, <1>2, BelowIs, TreeMembers, Nodes
  <2> QED
    BY <1>1, <1>2, <2>1, HungIsTree
<1>4. /\ \A e \in Sides, m \in Node :
           u.child[e][m] = IF m = p /\ e = d THEN n ELSE t.child[e][m]
      /\ \A m \in Node : u.parent[m] = IF m = n THEN p ELSE t.parent[m]
      /\ \A m \in Node : u.color[m] = IF m = n THEN "red" ELSE t.color[m]
      /\ d \in Sides
  BY <1>2, SideIn DEF Hung, SideBut, But
<1>5. t.parent[n] = NULL /\ \A s \in Sides : t.child[s][n] = NULL
  BY <1>1, <1>3, OutsideAlone
<1>6. /\ \A m \in Node : t.parent[m] # n
      /\ \A m \in Node, s \in Sides : t.child[s][m] # n
  BY <1>1, <1>3, TreeMembers, Nodes
<1>7. \A m \in Node : IsRed(u, m) <=> m = n \/ IsRed(t, m)
  BY <1>4, Nodes DEF IsRed
<1> DEFINE k == [m \in Pointer |-> IF m = n THEN 0 ELSE h[m]]
<1>8. /\ k \in [Pointer -> Nat] /\ k[NULL] = 0 /\ k[n] = 0
      /\ \A m \in Pointer : m # n => k[m] = h[m]
  BY <1>1, Nodes DEF Heights
<1> HIDE DEF k
<1>9. ASSUME NEW m \in Node, NEW f \in Sides
      PROVE  k[m] = k[u.child[f][m]] + Gap(m, f, NULL, "left") + Weight(u, m)
  <2>1. /\ h[m] \in Nat /\ t.child[f][m] \in Pointer /\ h[t.child[f][m]] \in Nat
        /\ h[m] = h[t.child[f][m]] + Gap(m, f, NULL, "left") + Weight(t, m)
    BY <1>1, HeightsAt
  <2>2. CASE m = n
    <3>1. u.child[f][m] = NULL
      <4>1. n # p
        BY <1>3, Nodes
      <4> QED
        BY <1>4, <1>5, <2>2, <4>1
    <3>2. Weight(u, m) = 0
      BY <1>7, <2>2 DEF Weight
    <3> QED
      BY <1>8, <2>2, <3>1, <3>2, NoGap
  <2>3. CASE m # n
    <3>1. Weight(u, m) = Weight(t, m) /\ k[m] = h[m]
      BY <1>7, <1>8, <2>3, Nodes DEF Weight
    <3>2. k[u.child[f][m]] = h[t.child[f][m]]
      <4>1. CASE m = p /\ f = d
        <5>1. t.child[f][m] = NULL /\ u.child[f][m] = n
          BY <1>3, <1>4, <4>1, Nodes
        <5> QED
          BY <1>1, <1>8, <5>1 DEF Heights
      <4>2. CASE ~ (m = p /\ f = d)
        BY <1>4, <1>6, <1>8, <2>1, <4>2
      <4> QED
        BY <4>1, <4>2
    <3> QED
      BY <2>1, <3>1, <3>2
  <2> QED
    BY <2>2, <2>3
<1>10. Heights(u, k, NULL, "left")
  BY <1>8, <1>9 DEF Heights
<1>11. ASSUME NEW m \in Node, IsRed(u, m), m # n PROVE u.parent[m] # NULL /\ ~ IsRed(u, u.parent[m])
  <2>1. t.parent[m] # NULL /\ ~ IsRed(t, t.parent[m])
    BY <1>7, <1>11, Nodes DEF Resting, Reds
  <2>2. t.parent[m] \in Node
    BY <1>1, <2>1, TreeMembers
  <2> QED
    BY <1>4, <1>6, <1>7, <1>11, <2>1, <2>2
<1>12. Reds(u, n, FALSE)
  BY <1>11 DEF Reds
<1>13. n \in Members(u) /\ IsRed(u, n)
  BY <1>3, <1>7
<1> QED
  BY <1>3, <1>10, <1>12, <1>13 DEF Inserting

(* What holds while RB_REMOVE_COLOR climbs: a black element is missing on the  *)
(* side of p where e is, unless e is the root; and a red e may have a red child. *)
Removing(t, e, p) ==
  /\ \E D : IsTree(t, D)
  /\ Reds(t, e, TRUE) /\ e \in Members(t) \cup {NULL}
  /\ e = t.root => \E h : Heights(t, h, NULL, "left")
  /\ e # t.root => p \in Members(t) /\ \E d \in Sides : \E h : t.child[d][p] = e /\ Heights(t, h, p, d)

LEMMA HeightsNoGap ==
  ASSUME NEW t, NEW h, NEW d, Heights(t, h, NULL, d)
  PROVE  Heights(t, h, NULL, "left")
  BY NoGap DEF Heights

LeavesGap(t, u, x, c, p, d) ==
  /\ \E k : Heights(u, k, IF IsRed(t, x) THEN NULL ELSE p, d)
  /\ Reds(u, c, TRUE)
  /\ IsRed(t, x) => Reds(u, NULL, FALSE)
  /\ p # NULL => p \in Members(t) /\ p # x /\ u.child[d][p] = c /\ u.root = t.root /\ c # u.root
  /\ p = NULL => u.root = c

LEMMA UnlinkedHeights ==
  ASSUME NEW t, NEW D, IsTree(t, D), NEW h, Heights(t, h, NULL, "left"), Reds(t, NULL, FALSE),
         NEW x \in Members(t), NEW c, OnlyChild(t, x, c), NEW u, Unlinked(t, u, x, c)
  PROVE  LET p == t.parent[x]
             d == HangsOn(t, x, p)
         IN LeavesGap(t, u, x, c, p, d)
<1>1. /\ x \in Node /\ c \in Pointer /\ c # x
      /\ c # NULL => c \in Node /\ t.parent[c] = x /\ c \in Members(t) /\ c # t.root
      /\ \A s \in Sides : t.child[s][x] = c \/ t.child[s][x] = NULL
      /\ \A n \in Node, s \in Sides : c # NULL /\ t.child[s][n] = c => n = x
  BY OnlyChildIs
<1>2. PICK p, d : p = t.parent[x] /\ d = HangsOn(t, x, p)
  OBVIOUS
<1>3. /\ \A n \in Node, e \in Sides : t.child[e][n] = x <=> n = p /\ e = d
      /\ d \in Sides
  BY <1>1, <1>2, ParentSide, SidesOther DEF HangsOn
<1>4. /\ p \in Pointer /\ p # x /\ (p = NULL <=> t.root = x)
      /\ p # NULL => p \in Node /\ p \in Members(t)
      /\ t \in Trees /\ t.root \in Pointer
  <2>1. t \in Trees /\ p \in Pointer /\ t.root \in Pointer
    BY <1>1, <1>2, TreeFields DEF IsTree
  <2>2. p # NULL => p \in Node /\ p # x /\ p \in Members(t) /\ t.root # x
    BY <1>1, <1>2, TreeMembers
  <2>3. InTree(t, x) /\ x # NULL
    BY <1>1, Nodes DEF Members
  <2> QED
    BY <1>2, <2>1, <2>2, <2>3 DEF InTree
<1>5. /\ u.root = IF t.root = x THEN c ELSE t.root
      /\ \A e \in Sides, n \in Node :
           u.child[e][n] = IF n = x THEN NULL ELSE IF t.child[e][n] = x THEN c ELSE t.child[e][n]
      /\ \A n \in Node :
           u.parent[n] = IF n = x THEN NULL ELSE IF n = c THEN p ELSE t.parent[n]
      /\ \A n \in Node : u.color[n] = IF n = x THEN "black" ELSE t.color[n]
  BY <1>2 DEF Unlinked, But
<1>6. \A n \in Node : IsRed(u, n) <=> n # x /\ IsRed(t, n)
  BY <1>5, Nodes DEF IsRed
<1>7. PICK g : g = IF IsRed(t, x) THEN NULL ELSE p
  OBVIOUS
<1> DEFINE k == [n \in Pointer |-> IF n = x THEN 1 ELSE h[n]]
<1>8. /\ k \in [Pointer -> Nat] /\ k[NULL] = 0 /\ k[x] = 1
      /\ \A n \in Pointer : n # x => k[n] = h[n]
  BY <1>1, Nodes DEF Heights
<1>9. h[x] = h[c] + Weight(t, x) /\ h[c] \in Nat
  <2>1. PICK s \in Sides : t.child[s][x] = c
    BY DEF OnlyChild
  <2> QED
    BY <1>1, <2>1, HeightsAt, NoGap
<1> HIDE DEF k
<1>10. ASSUME NEW n \in Node, NEW f \in Sides
       PROVE  k[n] = k[u.child[f][n]] + Gap(n, f, g, d) + Weight(u, n)
  <2>1. /\ h[n] \in Nat /\ t.child[f][n] \in Pointer /\ h[t.child[f][n]] \in Nat
        /\ h[n] = h[t.child[f][n]] + Weight(t, n) /\ Weight(t, n) \in {0, 1}
    BY HeightsAt, NoGap
  <2>2. CASE n = x
    <3>1. Weight(u, n) = 1 /\ Gap(n, f, g, d) = 0 /\ u.child[f][n] = NULL
      <4>1. g # x
        BY <1>1, <1>4, <1>7, Nodes
      <4> QED
        BY <1>5, <1>6, <2>2, <4>1 DEF Weight, Gap
    <3> QED
      BY <1>8, <2>2, <3>1
  <2>3. CASE n # x /\ t.child[f][n] = x
    <3>1. n = p /\ f = d /\ u.child[f][n] = c
      BY <1>3, <1>5, <2>3
    <3>2. Gap(n, f, g, d) = Weight(t, x)
      BY <1>7, <3>1, Nodes DEF Gap, Weight
    <3>3. Weight(u, n) = Weight(t, n) /\ k[n] = h[n] /\ k[c] = h[c]
      BY <1>1, <1>6, <1>8, <2>3, Nodes DEF Weight
    <3>4. Weight(t, x) \in {0, 1}
      BY DEF Weight
    <3> QED
      BY <1>9, <2>1, <2>3, <3>1, <3>2, <3>3, <3>4
  <2>4. CASE n # x /\ t.child[f][n] # x
    <3>1. ~ (n = p /\ f = d) /\ u.child[f][n] = t.child[f][n]
      BY <1>3, <1>5, <2>4
    <3>2. Gap(n, f, g, d) = 0
      BY <1>7, <3>1, Nodes DEF Gap
    <3>3. Weight(u, n) = Weight(t, n) /\ k[n] = h[n] /\ k[t.child[f][n]] = h[t.child[f][n]]
      BY <1>6, <1>8, <2>1, <2>4, Nodes DEF Weight
    <3> QED
      BY <2>1, <3>1, <3>2, <3>3
  <2> QED
    BY <2>2, <2>3, <2>4
<1>11. Heights(u, k, g, d)
  BY <1>8, <1>10 DEF Heights
<1>12. ASSUME NEW n \in Node, IsRed(u, n), n # c \/ IsRed(t, x)
       PROVE  u.parent[n] # NULL /\ ~ IsRed(u, u.parent[n])
  <2>1. n # x /\ IsRed(t, n)
    BY <1>6, <1>12
  <2>2. t.parent[n] # NULL /\ ~ IsRed(t, t.parent[n])
    BY <2>1, Nodes DEF Reds
  <2>3. n # c
    BY <1>1, <1>12, <2>2, Nodes
  <2>4. t.parent[n] \in Node
    BY <2>2, TreeMembers
  <2> QED
    BY <1>5, <1>6, <2>1, <2>2, <2>3, <2>4
<1>13. Reds(u, c, TRUE) /\ (IsRed(t, x) => Reds(u, NULL, FALSE))
  BY <1>12 DEF Reds
<1>14. p # NULL => /\ p \in Members(t) /\ p # x /\ u.child[d][p] = c /\ u.root = t.root
                   /\ c # u.root
  <2> SUFFICES ASSUME p # NULL
               PROVE  p \in Members(t) /\ p # x /\ u.child[d][p] = c /\ u.root = t.root /\ c # u.root
    OBVIOUS
  <2>1. u.child[d][p] = c
    BY <1>3, <1>4, <1>5
  <2>2. u.root = t.root
    BY <1>4, <1>5
  <2>3. t.root # NULL
    BY TreeMembers
  <2> QED
    BY <1>1, <1>4, <2>1, <2>2, <2>3
<1>15. p = NULL => u.root = c
  BY <1>4, <1>5
<1> QED
  BY <1>2, <1>7, <1>11, <1>13, <1>14, <1>15 DEF LeavesGap

Replaced(h, old, x) == [n \in Pointer |-> IF n = x THEN h[old] ELSE IF n = old THEN 1 ELSE h[n]]

LEMMA TookPlaceHeights ==
  ASSUME NEW v, NEW D, IsTree(v, D), NEW old \in Members(v), NEW x \in Node, x \notin Members(v),
         NEW u, TookPlace(v, u, old, x),
         NEW h, NEW g, NEW d, Heights(v, h, g, d), g # x,
         NEW e, NEW b, Reds(v, e, b), e # old, e # x
  PROVE  /\ Heights(u, Replaced(h, old, x), IF g = old THEN x ELSE g, d)
         /\ Reds(u, e, b)
<1>1. /\ old \in Node /\ old # NULL /\ x # NULL /\ x # old /\ old \in Pointer /\ x \in Pointer
      /\ v \in Trees
  BY Nodes DEF Members, IsTree
<1>2. /\ \A f \in Sides, n \in Node :
           u.child[f][n] = IF n = old THEN NULL ELSE IF n = x THEN v.child[f][old]
                           ELSE IF v.child[f][n] = old THEN x ELSE v.child[f][n]
      /\ \A n \in Node :
           u.parent[n] = IF n = old THEN NULL ELSE IF n = x THEN v.parent[old]
                         ELSE IF v.parent[n] = old THEN x ELSE v.parent[n]
      /\ \A n \in Node :
           u.color[n] = IF n = old THEN "black" ELSE IF n = x THEN v.color[old] ELSE v.color[n]
  BY DEF TookPlace
<1>3. \A n \in Node : IsRed(u, n) <=> n # old /\ IsRed(v, IF n = x THEN old ELSE n)
  BY <1>1, <1>2, Nodes DEF IsRed
<1>4. /\ \A n \in Node, f \in Sides : v.child[f][n] # x /\ (n = old => v.child[f][n] # old)
      /\ \A n \in Node : v.parent[n] # x /\ (n = old => v.parent[n] # old)
  BY <1>1, TreeMembers
<1>5. PICK k : k = Replaced(h, old, x)
  OBVIOUS
<1>6. PICK q : q = IF g = old THEN x ELSE g
  OBVIOUS
<1>7. /\ k \in [Pointer -> Nat] /\ k[NULL] = 0 /\ k[x] = h[old] /\ k[old] = 1
      /\ \A n \in Pointer : n # x /\ n # old => k[n] = h[n]
  <2>1. h \in [Pointer -> Nat] /\ h[NULL] = 0
    BY DEF Heights
  <2> QED
    BY <1>1, <1>5, <2>1, Nodes DEF Replaced
<1>8. ASSUME NEW n \in Node, NEW f \in Sides
      PROVE  k[n] = k[u.child[f][n]] + Gap(n, f, q, d) + Weight(u, n)
  <2>1. /\ v.child[f][n] \in Pointer /\ v.child[f][old] \in Pointer
        /\ h[n] = h[v.child[f][n]] + Gap(n, f, g, d) + Weight(v, n)
        /\ h[old] = h[v.child[f][old]] + Gap(old, f, g, d) + Weight(v, old)
    BY <1>1, HeightsAt
  <2>2. CASE n = old
    <3>1. Weight(u, n) = 1 /\ Gap(n, f, q, d) = 0 /\ u.child[f][n] = NULL
      BY <1>1, <1>2, <1>3, <1>6, <2>2 DEF Weight, Gap
    <3> QED
      BY <1>7, <2>2, <3>1
  <2>3. CASE n = x
    <3>1. u.child[f][n] = v.child[f][old] /\ k[u.child[f][n]] = h[v.child[f][old]]
      BY <1>1, <1>2, <1>4, <1>7, <2>1, <2>3
    <3>2. Gap(n, f, q, d) = Gap(old, f, g, d)
      BY <1>1, <1>6, <2>3 DEF Gap
    <3>3. Weight(u, n) = Weight(v, old)
      BY <1>1, <1>3, <2>3 DEF Weight
    <3> QED
      BY <1>7, <2>1, <2>3, <3>1, <3>2, <3>3
  <2>4. CASE n # old /\ n # x
    <3>1. k[u.child[f][n]] = h[v.child[f][n]]
      BY <1>1, <1>2, <1>4, <1>7, <2>1, <2>4
    <3>2. Gap(n, f, q, d) = Gap(n, f, g, d)
      BY <1>6, <2>4 DEF Gap
    <3>3. Weight(u, n) = Weight(v, n) /\ k[n] = h[n]
      BY <1>3, <1>7, <2>4, Nodes DEF Weight
    <3> QED
      BY <2>1, <3>1, <3>2, <3>3
  <2> QED
    BY <2>2, <2>3, <2>4
<1>9. Heights(u, k, q, d)
  BY <1>7, <1>8 DEF Heights
<1>10. ASSUME NEW n \in Node, IsRed(u, n), n # e
       PROVE  u.parent[n] # NULL /\ (IsRed(u, u.parent[n]) => b /\ u.parent[n] = e)
  <2>1. PICK m : m = IF n = x THEN old ELSE n
    OBVIOUS
  <2>2. m \in Node /\ IsRed(v, m) /\ m # e /\ n # old
    BY <1>1, <1>3, <1>10, <2>1
  <2>3. v.parent[m] # NULL /\ (IsRed(v, v.parent[m]) => b /\ v.parent[m] = e)
    BY <2>2 DEF Reds
  <2>4. v.parent[m] \in Node
    BY <2>2, <2>3, TreeMembers
  <2>5. u.parent[n] = IF v.parent[m] = old THEN x ELSE v.parent[m]
    BY <1>2, <1>4, <2>1, <2>2, <1>1
  <2>6. CASE v.parent[m] = old
    <3>1. u.parent[n] = x /\ (IsRed(u, x) <=> IsRed(v, old))
      BY <1>1, <1>3, <2>5, <2>6
    <3> QED
      BY <1>1, <2>3, <2>6, <3>1
  <2>7. CASE v.parent[m] # old
    <3>1. u.parent[n] = v.parent[m] /\ v.parent[m] # x
      BY <1>4, <2>2, <2>5, <2>7
    <3>2. IsRed(u, v.parent[m]) <=> IsRed(v, v.parent[m])
      BY <1>3, <2>4, <2>7, <3>1
    <3> QED
      BY <2>3, <3>1, <3>2
  <2> QED
    BY <2>6, <2>7
<1>11. Reds(u, e, b)
  BY <1>10 DEF Reds
<1> QED
  BY <1>5, <1>6, <1>9, <1>11

(* An element with at most one child, c, has been taken out.                 *)
LEMMA UnlinkedRests ==
  ASSUME NEW t, Resting(t), NEW x \in Members(t), NEW c, OnlyChild(t, x, c),
         NEW u, Unlinked(t, u, x, c)
  PROVE  /\ Members(u) = Members(t) \ {x}
         /\ IsRed(t, x) => Resting(u)
         /\ ~ IsRed(t, x) => Removing(u, c, t.parent[x])
<1>1. PICK D, h : IsTree(t, D) /\ Heights(t, h, NULL, "left")
  BY DEF Resting
<1>2. PICK p, d : p = t.parent[x] /\ d = HangsOn(t, x, p)
  OBVIOUS
<1>3. IsTree(u, UnlinkedBelow(D, x)) /\ Members(u) = Members(t) \ {x}
  BY <1>1, UnlinkedIsTree
<1>4. /\ \E k : Heights(u, k, IF IsRed(t, x) THEN NULL ELSE p, d)
      /\ Reds(u, c, TRUE)
      /\ IsRed(t, x) => Reds(u, NULL, FALSE)
      /\ p # NULL => p \in Members(t) /\ p # x /\ u.child[d][p] = c /\ u.root = t.root /\ c # u.root
      /\ p = NULL => u.root = c
  <2>1. Reds(t, NULL, FALSE)
    BY DEF Resting
  <2>2. LeavesGap(t, u, x, c, t.parent[x], HangsOn(t, x, t.parent[x]))
    BY <1>1, <2>1, UnlinkedHeights
  <2> QED
    BY <1>2, <2>2 DEF LeavesGap
<1>5. d \in Sides
  BY <1>2, SidesOther DEF HangsOn
<1>6. c \in Members(u) \cup {NULL}
  BY <1>1, <1>3, OnlyChildIs
<1>7. CASE IsRed(t, x)
  <2>1. \E k : Heights(u, k, NULL, "left")
    BY <1>4, <1>7, HeightsNoGap
  <2> QED
    BY <1>3, <1>4, <1>7, <2>1 DEF Resting
<1>8. CASE ~ IsRed(t, x)
  <2>1. PICK k : Heights(u, k, p, d)
    BY <1>4, <1>8
  <2>2. CASE p = NULL
    <3>1. Heights(u, k, NULL, "left")
      BY <2>1, <2>2, HeightsNoGap
    <3> QED
      BY <1>2, <1>3, <1>4, <1>6, <1>8, <2>2, <3>1 DEF Removing
  <2>3. CASE p # NULL
    <3>1. p \in Members(u) /\ u.child[d][p] = c /\ c # u.root
      BY <1>3, <1>4, <2>3
    <3>2. Removing(u, c, p)
      BY <1>3, <1>4, <1>5, <1>6, <2>1, <3>1 DEF Removing
    <3> QED
      BY <1>2, <1>3, <1>8, <3>2
  <2> QED
    BY <2>2, <2>3
<1> QED
  BY <1>7, <1>8, <1>3

(* An element with two children has been replaced by its successor x.         *)
LEMMA InnerRests ==
  ASSUME NEW t, Resting(t), NEW old \in Members(t),
         t.child["left"][old] # NULL, t.child["right"][old] # NULL,
         NEW x, NEW w, NEW y1, NEW y2, NEW y3, NEW y4,
         InnerSteps(t, old, x, w, y1, y2, y3, y4)
  PROVE  LET u == Forget(y4, old)
             c == t.child["right"][x]
             p == IF t.parent[x] = old THEN x ELSE t.parent[x]
         IN /\ Members(u) = Members(t) \ {old}
            /\ IsRed(t, x) => Resting(u)
            /\ ~ IsRed(t, x) => Removing(u, c, p)
<1>1. PICK D, h : IsTree(t, D) /\ Heights(t, h, NULL, "left")
  BY DEF Resting
<1>2. PICK v, u, c, q, d : /\ v = Forget(w, x) /\ u = Forget(y4, old) /\ c = t.child["right"][x]
                           /\ q = t.parent[x] /\ d = HangsOn(t, x, q)
  OBVIOUS
<1>3. x = Extreme(t, t.child["right"][old], "left") /\ w = Splice(t, x, c)
  BY <1>2 DEF InnerSteps
<1>4. /\ x \in Members(t) /\ x # old /\ OnlyChild(t, x, c)
      /\ \A m \in Members(t), s \in Sides :
           m # old /\ m # x /\ OnSide(Key[m], old, s) => OnSide(Key[m], x, s)
  BY <1>1, <1>2, <1>3, SuccessorFits
<1>5. /\ x \in Node /\ c \in Pointer /\ c # x /\ D[x] = {x} \cup D[c] /\ x \notin D[c]
      /\ c # NULL => c \in Node /\ c \in Members(t)
  BY <1>1, <1>4, OnlyChildIs
<1>6. Unlinked(t, v, x, c)
  BY <1>1, <1>2, <1>3, <1>4, <1>5, SpliceUnlinks
<1>7. IsTree(v, UnlinkedBelow(D, x)) /\ Members(v) = Members(t) \ {x}
  BY <1>1, <1>4, <1>6, UnlinkedIsTree
<1>8. TookPlace(v, u, old, x)
  BY <1>1, <1>2, InnerTakesPlace
<1>9. old \in Members(v) /\ x \notin Members(v) /\ Fits(v, old, x)
  BY <1>4, <1>7 DEF Fits
<1>10. /\ IsTree(u, ExchangedBelow(UnlinkedBelow(D, x), old, x))
       /\ Members(u) = (Members(v) \ {old}) \cup {x}
  BY <1>5, <1>7, <1>8, <1>9, TookPlaceIsTree
<1>11. Members(u) = Members(t) \ {old}
  BY <1>4, <1>7, <1>10
<1>12. old \in Node /\ old \notin D[x]
  <2>0. old \in Node /\ old \in Pointer /\ x \in Pointer
    BY <1>5, Nodes DEF Members
  <2>1. t.child["right"][old] \in Node
    BY <1>1, <2>0, SidesOther, TreeMembers
  <2>2. x \in D[t.child["right"][old]]
    BY <1>1, <1>3, <2>1, SidesOther, ExtremeFinds
  <2>3. x \in D[old]
    BY <1>1, <2>0, <2>2, SidesOther, SubtreeOf
  <2>4. old \in D[c] => D[old] \subseteq D[c]
    BY <1>1, <1>5, SubtreesNest
  <2> QED
    BY <1>4, <1>5, <2>0, <2>3, <2>4
<1>13. c # old
  <2>1. c # NULL => c \in D[c]
    BY <1>1, <1>5, SidesOther, SubtreeOf
  <2> QED
    BY <1>5, <1>12, <2>1, Nodes
<1>14. q \in Node /\ q \in Members(t) /\ q # x
  <2>1. t.root # x
    BY <1>1, <1>12 DEF IsTree, Subtrees
  <2>2. q # NULL
    BY <1>2, <1>4, <2>1 DEF Members, InTree
  <2> QED
    BY <1>1, <1>2, <1>5, <2>2, TreeMembers
<1>15. PICK g : g = IF IsRed(t, x) THEN NULL ELSE q
  OBVIOUS
<1>16. /\ \E k : Heights(v, k, g, d)
       /\ Reds(v, c, TRUE)
       /\ IsRed(t, x) => Reds(v, NULL, FALSE)
       /\ v.child[d][q] = c /\ c # v.root
  <2>1. /\ \E k : Heights(v, k, IF IsRed(t, x) THEN NULL ELSE q, d)
        /\ Reds(v, c, TRUE)
        /\ IsRed(t, x) => Reds(v, NULL, FALSE)
        /\ q # NULL => v.child[d][q] = c /\ c # v.root
    <3>1. Reds(t, NULL, FALSE)
      BY DEF Resting
    <3>2. LeavesGap(t, v, x, c, t.parent[x], HangsOn(t, x, t.parent[x]))
      BY <1>1, <1>4, <1>6, <3>1, UnlinkedHeights
    <3> QED
      BY <1>2, <3>2 DEF LeavesGap
  <2> QED
    BY <1>14, <1>15, <2>1, Nodes
<1>17. PICK k : Heights(v, k, g, d)
  BY <1>16
<1>18. d \in Sides
  BY <1>2, SidesOther DEF HangsOn
<1>19. g # x /\ NULL # old /\ NULL # x
  BY <1>5, <1>12, <1>14, <1>15, Nodes
<1>20. /\ Heights(u, Replaced(k, old, x), IF g = old THEN x ELSE g, d)
       /\ Reds(u, c, TRUE)
  <2>1. /\ IsTree(v, UnlinkedBelow(D, x)) /\ old \in Members(v) /\ x \in Node /\ x \notin Members(v)
        /\ TookPlace(v, u, old, x) /\ Heights(v, k, g, d) /\ g # x
        /\ Reds(v, c, TRUE) /\ c # old /\ c # x
    BY <1>5, <1>7, <1>8, <1>9, <1>13, <1>16, <1>17, <1>19
  <2> QED
    BY <2>1, TookPlaceHeights
<1>21. CASE IsRed(t, x)
  <2>1. Reds(v, NULL, FALSE)
    BY <1>16, <1>21
  <2>2. Reds(u, NULL, FALSE)
    BY <1>5, <1>7, <1>8, <1>9, <1>17, <1>19, <2>1, TookPlaceHeights
  <2>3. (IF g = old THEN x ELSE g) = NULL
    BY <1>15, <1>19, <1>21
  <2>4. \E k1 : Heights(u, k1, NULL, "left")
    BY <1>20, <2>3, HeightsNoGap
  <2> QED
    BY <1>2, <1>10, <1>11, <1>21, <2>2, <2>4 DEF Resting
<1>22. CASE ~ IsRed(t, x)
  <2>1. PICK p : p = IF q = old THEN x ELSE q
    OBVIOUS
  <2>2. p \in Members(u)
    BY <1>4, <1>11, <1>14, <2>1
  <2>3. Heights(u, Replaced(k, old, x), p, d)
    BY <1>15, <1>20, <1>22, <2>1
  <2>4. /\ \A e \in Sides, n \in Node :
             u.child[e][n] = IF n = old THEN NULL ELSE IF n = x THEN v.child[e][old]
                             ELSE IF v.child[e][n] = old THEN x ELSE v.child[e][n]
        /\ u.root = IF v.root = old THEN x ELSE v.root
    BY <1>8 DEF TookPlace
  <2>5. u.child[d][p] = c
    <3>1. CASE q = old
      BY <1>4, <1>5, <1>16, <1>18, <2>1, <2>4, <3>1
    <3>2. CASE q # old
      BY <1>13, <1>14, <1>16, <1>18, <2>1, <2>4, <3>2
    <3> QED
      BY <3>1, <3>2
  <2>6. c # u.root
    BY <1>5, <1>16, <2>4
  <2>7. c \in Members(u) \cup {NULL}
    BY <1>5, <1>11, <1>13
  <2>8. Removing(u, c, p)
    BY <1>10, <1>18, <1>20, <2>2, <2>3, <2>5, <2>6, <2>7 DEF Removing
  <2> QED
    BY <1>2, <1>11, <1>22, <2>1, <2>8
<1> QED
  BY <1>21, <1>22

(* RB_REMOVE_COLOR ends.                                                    *)
LEMMA RemovalEnds ==
  ASSUME NEW t, NEW e, NEW p, Removing(t, e, p), IsRed(t, e) \/ e = t.root
  PROVE  LET u == Paint(t, e, "black") IN Resting(u) /\ Members(u) = Members(t)
<1>1. PICK D : IsTree(t, D)
  BY DEF Removing
<1>2. PICK u : u = Paint(t, e, "black")
  OBVIOUS
<1>3. t \in Trees /\ e \in Pointer
  BY <1>1, Nodes DEF IsTree, Removing, Members
<1>4. SameShape(t, u) /\ \A m \in Node : IsRed(u, m) <=> m # e /\ IsRed(t, m)
  BY <1>2, <1>3, Blackened
<1>5. /\ u.child = t.child /\ u.parent = t.parent
      /\ IsTree(u, D) /\ Members(u) = Members(t)
  BY <1>1, <1>4, SameShapeIsTree DEF SameShape
<1>6. Reds(u, NULL, FALSE)
  <2>1. ASSUME NEW n \in Node, IsRed(u, n) PROVE u.parent[n] # NULL /\ ~ IsRed(u, u.parent[n])
    <3>1. n # e /\ IsRed(t, n)
      BY <1>4, <2>1
    <3>2. t.parent[n] # NULL /\ (IsRed(t, t.parent[n]) => t.parent[n] = e)
      BY <3>1 DEF Removing, Reds
    <3>3. t.parent[n] \in Node
      BY <1>1, <3>2, TreeMembers
    <3> QED
      BY <1>4, <1>5, <3>2, <3>3
  <2> QED
    BY <2>1 DEF Reds
<1>7. \E k : Heights(u, k, NULL, "left")
  <2>1. CASE e = t.root
    <3>1. PICK h : Heights(t, h, NULL, "left")
      BY <2>1 DEF Removing
    <3> QED
      BY <1>1, <1>2, <2>1, <3>1, RootBlackened
  <2>2. CASE e # t.root /\ IsRed(t, e)
    <3>1. PICK d, h : d \in Sides /\ p \in Members(t) /\ t.child[d][p] = e /\ Heights(t, h, p, d)
      BY <2>2 DEF Removing
    <3>2. e # NULL /\ e \in Node /\ p \in Node
      BY <1>3, <2>2, <3>1, Nodes DEF IsRed, Members
    <3>3. /\ t.parent[e] = p /\ e # p /\ e # t.child[Other(d)][p]
          /\ \A n \in Node, f \in Sides : t.child[f][n] = e => n = p
      BY <1>1, <3>1, <3>2, TreeMembers
    <3> DEFINE k == [n \in Pointer |-> IF n = e THEN h[n] + 1 ELSE h[n]]
    <3>4. /\ k \in [Pointer -> Nat] /\ k[NULL] = 0 /\ k[e] = h[e] + 1
          /\ \A n \in Pointer : n # e => k[n] = h[n]
      BY <1>3, <3>1, <3>2, Nodes DEF Heights
    <3> HIDE DEF k
    <3>5. ASSUME NEW n \in Node, NEW f \in Sides
          PROVE  k[n] = k[u.child[f][n]] + Gap(n, f, NULL, "left") + Weight(u, n)
      <4>1. /\ h[n] \in Nat /\ t.child[f][n] \in Pointer /\ h[t.child[f][n]] \in Nat
            /\ h[n] = h[t.child[f][n]] + Gap(n, f, p, d) + Weight(t, n)
            /\ Gap(n, f, p, d) \in {0, 1} /\ Weight(t, n) \in {0, 1}
        BY <1>1, <3>1, HeightsAt
      <4>2. CASE n = e
        <5>1. Weight(u, n) = 1 /\ Weight(t, n) = 0 /\ Gap(n, f, p, d) = 0
          BY <1>4, <2>2, <3>3, <4>2 DEF Weight, Gap
        <5>2. k[n] = h[n] + 1 /\ k[t.child[f][n]] = h[t.child[f][n]]
          BY <3>3, <3>4, <4>1, <4>2
        <5> QED
          BY <1>5, <4>1, <5>1, <5>2, NoGap
      <4>3. CASE n # e /\ t.child[f][n] = e
        <5>1. n = p /\ f = d
          BY <3>1, <3>3, <4>3, SidesOther
        <5>2. Gap(n, f, p, d) = 1 /\ Weight(u, n) = Weight(t, n)
          BY <1>4, <4>3, <5>1 DEF Gap, Weight
        <5>3. k[n] = h[n] /\ k[t.child[f][n]] = h[t.child[f][n]] + 1
          BY <3>4, <4>3, Nodes
        <5> QED
          BY <1>5, <4>1, <5>2, <5>3, NoGap
      <4>4. CASE n # e /\ t.child[f][n] # e
        <5>1. Gap(n, f, p, d) = 0 /\ Weight(u, n) = Weight(t, n)
          BY <1>4, <3>1, <4>4 DEF Gap, Weight
        <5>2. k[n] = h[n] /\ k[t.child[f][n]] = h[t.child[f][n]]
          BY <3>4, <4>1, <4>4, Nodes
        <5> QED
          BY <1>5, <4>1, <5>1, <5>2, NoGap
      <4> QED
        BY <4>2, <4>3, <4>4
    <3>6. Heights(u, k, NULL, "left")
      BY <3>4, <3>5 DEF Heights
    <3> QED
      BY <3>6
  <2> QED
    BY <2>1, <2>2
<1> QED
  BY <1>2, <1>5, <1>6, <1>7 DEF Resting

(* A black element is missing where the black e is, on the side d of p.        *)
Deficit(t, e, p, d, h) ==
  /\ \E D : IsTree(t, D)
  /\ Heights(t, h, p, d) /\ Reds(t, NULL, FALSE)
  /\ d \in Sides /\ p \in Members(t) /\ t.child[d][p] = e /\ ~ IsRed(t, e)

(* So e has a sibling, even if it is NULL.                                   *)
LEMMA SiblingIs ==
  ASSUME NEW t, NEW e, NEW p, NEW d, NEW h, Deficit(t, e, p, d, h)
  PROVE  LET w == t.child[Other(d)][p]
         IN /\ p \in Node /\ e \in Pointer /\ e # p /\ Other(d) \in Sides /\ Other(d) # d
            /\ w \in Node /\ w # e /\ w # p /\ t.parent[w] = p /\ w \in Members(t)
            /\ h[e] \in Nat /\ h[w] = h[e] + 1 /\ h[p] = h[w] + Weight(t, p)
<1>1. PICK D : IsTree(t, D)
  BY DEF Deficit
<1>2. PICK w : w = t.child[Other(d)][p]
  OBVIOUS
<1>3. /\ Heights(t, h, p, d) /\ d \in Sides /\ p \in Node /\ p \in Members(t) /\ t.child[d][p] = e
      /\ Other(d) \in Sides /\ Other(d) # d /\ t \in Trees
  BY <1>1, SidesOther DEF Deficit, Members, IsTree
<1>4. /\ h[p] = h[e] + Gap(p, d, p, d) + Weight(t, p)
      /\ h[p] = h[w] + Gap(p, Other(d), p, d) + Weight(t, p)
      /\ h[e] \in Nat /\ h[w] \in Nat /\ e \in Pointer /\ w \in Pointer
      /\ Weight(t, p) \in {0, 1}
  BY <1>1, <1>2, <1>3, HeightsAt
<1>5. Gap(p, d, p, d) = 1 /\ Gap(p, Other(d), p, d) = 0
  BY <1>3 DEF Gap
<1>6. h[w] = h[e] + 1 /\ h[p] = h[w] + Weight(t, p)
  BY <1>4, <1>5
<1>7. w # NULL
  BY <1>3, <1>4, <1>6 DEF Heights
<1>8. w \in Node /\ w # p /\ t.parent[w] = p /\ w \in Members(t)
  BY <1>1, <1>2, <1>3, <1>7, TreeMembers
<1>9. w # e
  BY <1>4, <1>6
<1>10. e # p
  BY <1>1, <1>3, TreeMembers, Nodes
<1> QED
  BY <1>2, <1>3, <1>4, <1>6, <1>8, <1>9, <1>10

LEMMA DeficitIs ==
  ASSUME Removing(tree, elm, up), Deficient
  PROVE  \E h : Deficit(tree, elm, up, DeficientSide, h)
<1>1. ~ IsRed(tree, elm) /\ elm # tree.root
  BY DEF Deficient
<1>2. PICK d, h : d \in Sides /\ up \in Members(tree) /\ tree.child[d][up] = elm /\ Heights(tree, h, up, d)
  BY <1>1 DEF Removing
<1>3. Reds(tree, NULL, FALSE)
  BY <1>1 DEF Removing, Reds
<1>4. Deficit(tree, elm, up, d, h)
  BY <1>1, <1>2, <1>3 DEF Deficit, Removing
<1>5. tree.child[Other(d)][up] # elm
  BY <1>4, SiblingIs
<1>6. DeficientSide = d
  BY <1>2, <1>5 DEF DeficientSide, Sides, Other
<1> QED
  BY <1>4, <1>6

-----------------------------------------------------------------------------
(* The first if of the loop.                                                *)
BlackSibling(t, p, d) ==
  LET w == t.child[Other(d)][p]
  IN IF IsRed(t, w) THEN Rotate(PaintBlackRed(t, w, p), p, d) ELSE t

LEMMA SiblingBlackened ==
  ASSUME NEW t, NEW e, NEW p, NEW d, NEW h, Deficit(t, e, p, d, h)
  PROVE  LET u == BlackSibling(t, p, d)
             w == u.child[Other(d)][p]
         IN /\ \E k : Deficit(u, e, p, d, k)
            /\ Members(u) = Members(t) /\ ~ IsRed(u, w)
            /\ u = t \/ IsRed(u, p)
<1>1. PICK w : w = t.child[Other(d)][p]
  OBVIOUS
<1>2. PICK D : IsTree(t, D)
  BY DEF Deficit
<1>3. /\ p \in Node /\ e \in Pointer /\ e # p /\ Other(d) \in Sides /\ Other(d) # d
      /\ w \in Node /\ w # e /\ w # p /\ t.parent[w] = p
  BY <1>1, SiblingIs
<1>4. /\ Heights(t, h, p, d) /\ Reds(t, NULL, FALSE)
      /\ d \in Sides /\ p \in Members(t) /\ t.child[d][p] = e /\ ~ IsRed(t, e)
  BY DEF Deficit
<1>5. CASE ~ IsRed(t, w)
  BY <1>1, <1>5 DEF BlackSibling
<1>6. CASE IsRed(t, w)
  <2>1. PICK u, m : u = Rotate(PaintBlackRed(t, w, p), p, d) /\ m = t.child[d][w]
    OBVIOUS
  <2>2. u = BlackSibling(t, p, d)
    BY <1>1, <1>6, <2>1 DEF BlackSibling
  <2>3. ~ IsRed(t, p)
    BY <1>3, <1>4, <1>6, Nodes DEF Reds
  <2>4. Swapping(t, d, p, w, p, d, NULL)
    BY <1>1, <1>3, <1>4, <1>6, <2>3 DEF Swapping
  <2>5. SwapResult(t, u, d, p, w, h, p, d, NULL)
    BY <1>2, <1>3, <1>4, <2>1, <2>4, SwapRotate
  <2>6. /\ \E E : IsTree(u, E)
        /\ Members(u) = Members(t)
        /\ Heights(u, Swapped(h, p, w), p, d)
        /\ Reds(u, NULL, FALSE)
        /\ u.child[d][p] = e /\ u.child[Other(d)][p] = m
        /\ \A n \in Node : IsRed(u, n) <=> n = p \/ (n # w /\ IsRed(t, n))
    BY <1>4, <2>1, <2>5 DEF SwapResult, Turns
  <2>7. ~ IsRed(u, e)
    <3>1. e # NULL => e \in Node
      BY <1>3, Nodes
    <3> QED
      BY <1>3, <1>4, <2>6, <3>1 DEF IsRed
  <2>8. Deficit(u, e, p, d, Swapped(h, p, w))
    BY <1>4, <2>6, <2>7 DEF Deficit
  <2>9. m \in Node /\ m # p
    BY <2>6, <2>8, SiblingIs
  <2>10. t.parent[m] = w
    BY <1>2, <1>3, <1>4, <2>1, <2>9, TreeMembers, Nodes
  <2>11. ~ IsRed(t, m)
    BY <1>4, <1>6, <2>9, <2>10, Nodes DEF Reds
  <2> QED
    BY <1>3, <2>2, <2>6, <2>8, <2>9, <2>11
<1> QED
  BY <1>5, <1>6

(* The sibling is black and has no red child: the deficit goes up.            *)
LEMMA DeficitRises ==
  ASSUME NEW t, NEW e, NEW p, NEW d, NEW h, Deficit(t, e, p, d, h),
         NEW w, w = t.child[Other(d)][p], ~ IsRed(t, w), ~ RedNephew(t, w)
  PROVE  LET u == Paint(t, w, "red")
         IN /\ Removing(u, p, t.parent[p]) /\ SameShape(t, u) /\ Members(u) = Members(t)
            /\ IsRed(t, p) => IsRed(u, p)
<1>1. PICK D : IsTree(t, D)
  BY DEF Deficit
<1>2. PICK u, q, f : u = Paint(t, w, "red") /\ q = t.parent[p] /\ f = HangsOn(t, p, q)
  OBVIOUS
<1>3. /\ p \in Node /\ e \in Pointer /\ e # p /\ Other(d) \in Sides /\ Other(d) # d
      /\ w \in Node /\ w # e /\ w # p /\ t.parent[w] = p
      /\ h[e] \in Nat /\ h[w] = h[e] + 1 /\ h[p] = h[w] + Weight(t, p)
  BY SiblingIs
<1>4. /\ Heights(t, h, p, d) /\ Reds(t, NULL, FALSE)
      /\ d \in Sides /\ p \in Members(t) /\ t.child[d][p] = e /\ ~ IsRed(t, e)
      /\ t.child[Other(d)][p] = w
  BY DEF Deficit
<1>5. /\ SameShape(t, u) /\ \A n \in Node : IsRed(u, n) <=> n = w \/ IsRed(t, n)
  <2>1. "red" \in NodeColors /\ t \in Trees /\ w \in Pointer
    BY <1>1, <1>3, Nodes DEF NodeColors, IsTree
  <2>2. /\ u \in Trees /\ u.root = t.root /\ u.child = t.child /\ u.parent = t.parent
        /\ But(u.color, t.color, w, "red")
    BY <1>2, <2>1, PaintFields
  <2> QED
    BY <2>2, Nodes DEF SameShape, But, IsRed
<1>6. /\ u.child = t.child /\ u.parent = t.parent /\ u.root = t.root
      /\ IsTree(u, D) /\ Members(u) = Members(t)
  BY <1>1, <1>5, SameShapeIsTree DEF SameShape
<1>7. /\ \A n \in Node, s \in Sides : t.child[s][n] = w => n = p /\ s = Other(d)
      /\ \A n \in Node, s \in Sides : t.child[s][n] = p <=> n = q /\ s = f
      /\ q # p /\ q # w /\ q \in Pointer /\ f \in Sides
  <2>1. \A n \in Node, s \in Sides : t.child[s][n] = w => n = p
    BY <1>1, <1>3, TreeMembers, Nodes
  <2>2. \A s \in Sides : t.child[s][p] = w => s = Other(d)
    BY <1>3, <1>4, SidesOther
  <2>3. \A n \in Node, s \in Sides : t.child[s][n] = p <=> n = q /\ s = f
    BY <1>1, <1>2, <1>3, ParentSide
  <2>4. q # p /\ q # w
    BY <1>1, <1>2, <1>3, <1>4, AroundFacts
  <2>5. q \in Pointer /\ f \in Sides
    BY <1>1, <1>2, <1>3, TreeFields, SidesOther DEF IsTree, HangsOn
  <2> QED
    BY <2>1, <2>2, <2>3, <2>4, <2>5
<1>8. h[p] \in Nat /\ h[p] - 1 \in Nat /\ h[w] - 1 \in Nat /\ Weight(t, p) \in {0, 1}
  <2>1. Weight(t, p) \in {0, 1}
    BY DEF Weight
  <2> QED
    BY <1>3, <2>1
<1> DEFINE k == [n \in Pointer |-> IF n = w \/ n = p THEN h[n] - 1 ELSE h[n]]
<1>9. /\ k \in [Pointer -> Nat] /\ k[NULL] = 0 /\ k[w] = h[w] - 1 /\ k[p] = h[p] - 1
      /\ \A n \in Pointer : n # w /\ n # p => k[n] = h[n]
  <2>1. h \in [Pointer -> Nat] /\ h[NULL] = 0 /\ NULL \in Pointer /\ NULL # w /\ NULL # p
    BY <1>3, <1>4, Nodes DEF Heights
  <2>2. w \in Pointer /\ p \in Pointer
    BY <1>3, Nodes
  <2>3. k \in [Pointer -> Nat]
    BY <1>8, <2>1
  <2> QED
    BY <2>1, <2>2, <2>3
<1> HIDE DEF k
<1>10. ASSUME NEW n \in Node, NEW s \in Sides
       PROVE  k[n] = k[u.child[s][n]] + Gap(n, s, q, f) + Weight(u, n)
  <2>1. /\ h[n] \in Nat /\ t.child[s][n] \in Pointer /\ h[t.child[s][n]] \in Nat
        /\ h[n] = h[t.child[s][n]] + Gap(n, s, p, d) + Weight(t, n)
    BY <1>1, <1>4, HeightsAt
  <2>2. CASE n = p
    <3>1. Gap(n, s, q, f) = 0 /\ Weight(u, n) = Weight(t, n)
      BY <1>3, <1>5, <1>7, <2>2 DEF Gap, Weight
    <3>2. CASE s = d
      <4>1. k[e] = h[e]
        BY <1>3, <1>9
      <4> QED
        BY <1>3, <1>4, <1>6, <1>8, <1>9, <2>2, <3>1, <3>2, <4>1
    <3>3. CASE s = Other(d)
      BY <1>3, <1>4, <1>6, <1>8, <1>9, <2>2, <3>1, <3>3
    <3> QED
      BY <1>4, <3>2, <3>3, SidesOther
  <2>3. CASE n = w
    <3>1. Gap(n, s, q, f) = 0 /\ Gap(n, s, p, d) = 0 /\ Weight(t, n) = 1 /\ Weight(u, n) = 0
      BY <1>3, <1>5, <1>7, <2>3 DEF Gap, Weight
    <3>2. t.child[s][n] # w /\ t.child[s][n] # p
      BY <1>3, <1>7, <2>3
    <3>3. k[t.child[s][n]] = h[t.child[s][n]]
      BY <1>9, <2>1, <3>2
    <3> QED
      <4>1. k[n] = h[n] - 1
        BY <1>9, <2>3
      <4>2. h[n] = h[t.child[s][n]] + 1
        BY <2>1, <3>1
      <4> QED
        BY <1>6, <2>1, <3>1, <3>3, <4>1, <4>2
  <2>4. CASE n # p /\ n # w
    <3>1. Gap(n, s, p, d) = 0 /\ Weight(u, n) = Weight(t, n) /\ k[n] = h[n]
      BY <1>5, <1>9, <2>4, Nodes DEF Gap, Weight
    <3>2. t.child[s][n] # w
      BY <1>7, <2>4
    <3>3. CASE t.child[s][n] = p
      <4>1. Gap(n, s, q, f) = 1
        BY <1>7, <3>3 DEF Gap
      <4> QED
        BY <1>6, <1>8, <1>9, <2>1, <3>1, <3>3, <4>1
    <3>4. CASE t.child[s][n] # p
      <4>1. Gap(n, s, q, f) = 0 /\ k[t.child[s][n]] = h[t.child[s][n]]
        BY <1>7, <1>9, <2>1, <3>2, <3>4 DEF Gap
      <4> QED
        BY <1>6, <2>1, <3>1, <4>1
    <3> QED
      BY <3>3, <3>4
  <2> QED
    BY <2>2, <2>3, <2>4
<1>11. Heights(u, k, q, f)
  BY <1>9, <1>10 DEF Heights
<1>12. ASSUME NEW n \in Node, IsRed(u, n), n # p
       PROVE  u.parent[n] # NULL /\ (IsRed(u, u.parent[n]) => u.parent[n] = p)
  <2>1. CASE n = w
    BY <1>3, <1>6, <2>1, Nodes
  <2>2. CASE n # w
    <3>1. t.parent[n] # NULL /\ ~ IsRed(t, t.parent[n])
      BY <1>4, <1>5, <1>12, <2>2, Nodes DEF Reds
    <3>2. PICK s \in Sides : t.parent[n] \in Node /\ t.child[s][t.parent[n]] = n
      BY <1>1, <3>1, TreeMembers
    <3>3. t.parent[n] # w
      BY <1>5, <1>12, <2>2, <3>2 DEF RedNephew
    <3> QED
      BY <1>5, <1>6, <3>1, <3>2, <3>3
  <2> QED
    BY <2>1, <2>2
<1>13. Reds(u, p, TRUE)
  BY <1>12 DEF Reds
<1>14. p = u.root => \E k1 : Heights(u, k1, NULL, "left")
  <2> SUFFICES ASSUME p = u.root PROVE \E k1 : Heights(u, k1, NULL, "left")
    OBVIOUS
  <2>1. t.root # NULL => t.parent[t.root] = NULL
    BY <1>1 DEF IsTree, Links
  <2>2. q = NULL
    BY <1>2, <1>3, <1>6, <2>1, Nodes
  <2> QED
    BY <1>11, <2>2, HeightsNoGap
<1>15. p # u.root => q \in Members(u) /\ u.child[f][q] = p
  <2> SUFFICES ASSUME p # u.root PROVE q \in Members(u) /\ u.child[f][q] = p
    OBVIOUS
  <2>1. q # NULL
    BY <1>2, <1>4, <1>6 DEF Members, InTree
  <2>2. q \in Members(t) /\ q \in Node
    <3>1. p \in Node
      BY <1>3
    <3>2. t.parent[p] # NULL => t.parent[p] \in Members(t) /\ t.parent[p] \in Node
      BY <1>1, <3>1, TreeMembers
    <3> QED
      BY <1>2, <2>1, <3>2
  <2> QED
    BY <1>6, <1>7, <2>2
<1>16. Removing(u, p, q)
  BY <1>4, <1>6, <1>7, <1>11, <1>13, <1>14, <1>15 DEF Removing
<1> QED
  BY <1>2, <1>3, <1>5, <1>6, <1>16

(* The second if: the nephew on the far side is red.                          *)
FarNephew(t, p, d) ==
  LET w == t.child[Other(d)][p]
  IN IF IsRed(t, t.child[Other(d)][w]) THEN t
     ELSE Rotate(PaintBlackRed(t, t.child[d][w], w), w, Other(d))

LEMMA NephewTurned ==
  ASSUME NEW t, NEW e, NEW p, NEW d, NEW h, Deficit(t, e, p, d, h),
         ~ IsRed(t, t.child[Other(d)][p]), RedNephew(t, t.child[Other(d)][p])
  PROVE  LET u == FarNephew(t, p, d)
             top == u.child[Other(d)][p]
         IN /\ \E k : Deficit(u, e, p, d, k)
            /\ Members(u) = Members(t) /\ ~ IsRed(u, top) /\ IsRed(u, u.child[Other(d)][top])
<1>1. PICK w, y, o : w = t.child[Other(d)][p] /\ y = t.child[d][w] /\ o = Other(d)
  OBVIOUS
<1>2. PICK D : IsTree(t, D)
  BY DEF Deficit
<1>3. /\ p \in Node /\ e \in Pointer /\ e # p /\ o \in Sides /\ o # d
      /\ w \in Node /\ w # e /\ w # p /\ t.parent[w] = p
  BY <1>1, SiblingIs
<1>4. /\ Heights(t, h, p, d) /\ Reds(t, NULL, FALSE) /\ t.child[o][p] = w
      /\ d \in Sides /\ p \in Members(t) /\ t.child[d][p] = e /\ ~ IsRed(t, e)
  BY <1>1 DEF Deficit
<1>5. ~ IsRed(t, w) /\ RedNephew(t, w)
  BY <1>1
<1>6. CASE IsRed(t, t.child[o][w])
  <2>1. FarNephew(t, p, d) = t
    BY <1>1, <1>6 DEF FarNephew
  <2> QED
    BY <1>1, <1>5, <1>6, <2>1
<1>7. CASE ~ IsRed(t, t.child[o][w])
  <2>1. IsRed(t, y) /\ Other(o) = d
    <3>1. \E s \in Sides : IsRed(t, t.child[s][w])
      BY <1>5 DEF RedNephew
    <3> QED
      BY <1>1, <1>3, <1>4, <1>7, <3>1, SidesOther
  <2>2. y \in Node
    <3>1. y \in Pointer
      BY <1>1, <1>2, <1>3, <1>4, TreeFields DEF IsTree
    <3> QED
      BY <2>1, <3>1, Nodes DEF IsRed
  <2>3. PICK u : u = Rotate(PaintBlackRed(t, y, w), w, o)
    OBVIOUS
  <2>4. u = FarNephew(t, p, d)
    BY <1>1, <1>7, <2>3 DEF FarNephew
  <2>5. t.child[Other(o)][w] = y
    BY <1>1, <2>1
  <2>6. t.child[o][p] = w /\ t.child[d][w] = y /\ y # p
    <3>1. y # p
      BY <1>1, <1>2, <1>3, <1>4, AroundFacts
    <3> QED
      BY <1>1, <1>4, <3>1
  <2>7. Swapping(t, o, w, y, p, d, NULL)
    BY <1>3, <1>5, <1>7, <2>1, <2>5, <2>6 DEF Swapping
  <2>8. SwapResult(t, u, o, w, y, h, p, d, NULL)
    BY <1>2, <1>3, <1>4, <2>2, <2>3, <2>5, <2>7, SwapRotate
  <2>9. /\ \E E : IsTree(u, E)
        /\ Members(u) = Members(t)
        /\ Heights(u, Swapped(h, w, y), p, d)
        /\ Reds(u, NULL, FALSE)
        /\ Turns(t, u, o, w, y)
        /\ \A n \in Node : IsRed(u, n) <=> n = w \/ (n # y /\ IsRed(t, n))
    BY <2>8 DEF SwapResult
  <2>10. u.child[o][y] = w
    BY <2>9 DEF Turns
  <2>11. /\ \A s \in Sides, n \in Node : n # w /\ n # y =>
              u.child[s][n] = IF t.child[s][n] = w THEN y ELSE t.child[s][n]
    BY <2>9 DEF Turns
  <2>12. u.child[o][p] = y /\ u.child[d][p] = e
    BY <1>3, <1>4, <2>6, <2>11
  <2>13. ~ IsRed(u, e)
    <3>1. e # NULL => e \in Node
      BY <1>3, Nodes
    <3> QED
      BY <1>3, <1>4, <2>9, <3>1 DEF IsRed
  <2>14. Deficit(u, e, p, d, Swapped(h, w, y))
    BY <1>4, <2>9, <2>12, <2>13 DEF Deficit
  <2>15. ~ IsRed(u, y) /\ IsRed(u, w)
    <3>1. y # w
      BY <1>5, <2>1
    <3> QED
      BY <1>3, <2>2, <2>9, <3>1
  <2> QED
    BY <1>1, <2>4, <2>9, <2>10, <2>12, <2>14, <2>15
<1> QED
  BY <1>1, <1>6, <1>7

-----------------------------------------------------------------------------
(* The last rotation, where T is the black sibling and F the red nephew.       *)
Mended(t, p, d) ==
  LET top == t.child[Other(d)][p]
  IN Rotate(Paint(Paint(Paint(t, top, t.color[p]), p, "black"), t.child[Other(d)][top], "black"),
            p, d)

LEMMA MendedColors ==
  ASSUME NEW t \in Trees, NEW p \in Node, NEW a \in Node, NEW b \in Node, a # p, b # p, a # b
  PROVE  LET v == Paint(Paint(Paint(t, a, t.color[p]), p, "black"), b, "black")
         IN /\ SameShape(t, v)
            /\ \A n \in Node : IsRed(v, n) <=> n # p /\ n # b /\ IsRed(t, IF n = a THEN p ELSE n)
<1>1. PICK c : c = t.color[p]
  OBVIOUS
<1>2. PICK v1 : v1 = Paint(t, a, c)
  OBVIOUS
<1>3. PICK v2 : v2 = Paint(v1, p, "black")
  OBVIOUS
<1>4. PICK v : v = Paint(v2, b, "black")
  OBVIOUS
<1>5. v = Paint(Paint(Paint(t, a, t.color[p]), p, "black"), b, "black")
  BY <1>1, <1>2, <1>3, <1>4
<1>6. "black" \in NodeColors /\ "black" # "red" /\ p \in Pointer /\ a \in Pointer /\ b \in Pointer
  BY Nodes DEF NodeColors
<1>7. c \in NodeColors
  BY <1>1, TreeFields
<1>8. /\ v1 \in Trees /\ v1.root = t.root /\ v1.child = t.child /\ v1.parent = t.parent
      /\ But(v1.color, t.color, a, c)
  BY <1>2, <1>6, <1>7, PaintFields
<1>9. /\ v2 \in Trees /\ v2.root = v1.root /\ v2.child = v1.child /\ v2.parent = v1.parent
      /\ But(v2.color, v1.color, p, "black")
  BY <1>3, <1>6, <1>8, PaintFields
<1>10. /\ v \in Trees /\ v.root = v2.root /\ v.child = v2.child /\ v.parent = v2.parent
       /\ But(v.color, v2.color, b, "black")
  BY <1>4, <1>6, <1>9, PaintFields
<1>11. \A n \in Node : v.color[n] = IF n = p \/ n = b THEN "black" ELSE IF n = a THEN c ELSE t.color[n]
  BY <1>8, <1>9, <1>10 DEF But
<1>12. \A n \in Node : IsRed(v, n) <=> n # p /\ n # b /\ IsRed(t, IF n = a THEN p ELSE n)
  BY <1>1, <1>6, <1>11, Nodes DEF IsRed
<1> QED
  BY <1>5, <1>8, <1>9, <1>10, <1>12 DEF SameShape

Raised(h, p, a, b) ==
  [n \in Pointer |-> IF n = p THEN h[a] ELSE IF n = a THEN h[p]
                     ELSE IF n = b THEN h[a] ELSE h[n]]

LEMMA DeficitMended ==
  ASSUME NEW t, NEW e, NEW p, NEW d, NEW h, Deficit(t, e, p, d, h),
         ~ IsRed(t, t.child[Other(d)][p]),
         IsRed(t, t.child[Other(d)][t.child[Other(d)][p]])
  PROVE  LET u == Mended(t, p, d)
         IN Removing(u, u.root, p) /\ Members(u) = Members(t)
<1>1. PICK a, b, m, o : /\ a = t.child[Other(d)][p] /\ b = t.child[Other(d)][a]
                        /\ m = t.child[d][a] /\ o = Other(d)
  OBVIOUS
<1>2. PICK D : IsTree(t, D)
  BY DEF Deficit
<1>3. /\ p \in Node /\ e \in Pointer /\ e # p /\ o \in Sides /\ o # d
      /\ a \in Node /\ a # e /\ a # p /\ t.parent[a] = p
      /\ h[e] \in Nat /\ h[a] = h[e] + 1 /\ h[p] = h[a] + Weight(t, p)
  BY <1>1, SiblingIs
<1>4. /\ Heights(t, h, p, d) /\ Reds(t, NULL, FALSE) /\ t.child[o][p] = a
      /\ d \in Sides /\ p \in Members(t) /\ t.child[d][p] = e /\ ~ IsRed(t, e)
      /\ t.child[o][a] = b /\ t.child[d][a] = m
  BY <1>1 DEF Deficit
<1>5. ~ IsRed(t, a) /\ IsRed(t, b)
  BY <1>1
<1>6. /\ b \in Pointer /\ b # p /\ b # a /\ m \in Pointer /\ m # p /\ m # a
      /\ \A n \in Node, s \in Sides : t.child[s][n] = a => n = p
      /\ \A n \in Node : t.parent[n] = p => n = a \/ n = e
      /\ t.parent[p] # p /\ t.parent[p] # a
  BY <1>1, <1>2, <1>3, <1>4, AroundFacts
<1>7. b \in Node /\ b # NULL /\ p # NULL /\ a # NULL /\ m # b /\ t.parent[b] = a
  <2>1. b # NULL /\ b \in Node
    BY <1>5, <1>6, Nodes DEF IsRed
  <2>2. m # b /\ t.parent[b] = a
    BY <1>1, <1>2, <1>3, <1>4, <2>1, TreeMembers
  <2> QED
    BY <1>3, <2>1, <2>2, Nodes
<1>8. PICK v : v = Paint(Paint(Paint(t, a, t.color[p]), p, "black"), b, "black")
  OBVIOUS
<1>9. PICK u : u = Rotate(v, p, d)
  OBVIOUS
<1>10. u = Mended(t, p, d)
  BY <1>1, <1>8, <1>9 DEF Mended
<1>11. /\ SameShape(t, v)
       /\ \A n \in Node : IsRed(v, n) <=> n # p /\ n # b /\ IsRed(t, IF n = a THEN p ELSE n)
  BY <1>2, <1>3, <1>6, <1>7, <1>8, MendedColors DEF IsTree
<1>12. IsTree(v, D) /\ Members(v) = Members(t) /\ v.child = t.child /\ v.parent = t.parent
  BY <1>2, <1>11, SameShapeIsTree DEF SameShape
<1>13. v.child[Other(d)][p] = a
  BY <1>1, <1>12
<1>14. /\ \E E : IsTree(u, E)
       /\ Members(u) = Members(v) /\ u.color = v.color /\ Turns(v, u, d, p, a)
  BY <1>3, <1>4, <1>9, <1>12, <1>13, RotateGives
<1>15. \A n \in Node : IsRed(u, n) <=> n # p /\ n # b /\ IsRed(t, IF n = a THEN p ELSE n)
  BY <1>11, <1>14 DEF IsRed
<1>16. /\ u.child[d][p] = e /\ u.child[o][p] = m
       /\ u.child[d][a] = p /\ u.child[o][a] = b
       /\ \A s \in Sides, n \in Node : n # p /\ n # a =>
            u.child[s][n] = IF t.child[s][n] = p THEN a ELSE t.child[s][n]
       /\ \A n \in Node :
            u.parent[n] = IF n = p THEN a ELSE IF n = a THEN t.parent[p]
                          ELSE IF n = m THEN p ELSE t.parent[n]
  <2>1. Turns(v, u, d, p, a) /\ v.child = t.child /\ v.parent = t.parent /\ o = Other(d)
        /\ t.child[d][p] = e /\ t.child[o][a] = b /\ t.child[d][a] = m
    BY <1>1, <1>4, <1>12, <1>14
  <2> QED
    BY <2>1 DEF Turns
<1>17. PICK k : k = Raised(h, p, a, b)
  OBVIOUS
<1>18. /\ h[p] \in Nat /\ h[a] \in Nat /\ Weight(t, p) \in {0, 1}
       /\ h[m] + 1 = h[a] /\ h[b] + 1 = h[a] /\ h[b] \in Nat
       /\ \A s \in Sides : t.child[s][b] \in Pointer /\ h[t.child[s][b]] = h[b]
  <2>1. Weight(t, p) \in {0, 1} /\ Weight(t, a) = 1 /\ Weight(t, b) = 0
    BY <1>5 DEF Weight
  <2>2. \A s : Gap(a, s, p, d) = 0 /\ Gap(b, s, p, d) = 0
    BY <1>3, <1>6 DEF Gap
  <2>3. /\ h[p] \in Nat /\ h[a] \in Nat /\ h[m] \in Nat /\ h[b] \in Nat
        /\ h[a] = h[m] + Gap(a, d, p, d) + Weight(t, a)
        /\ h[a] = h[b] + Gap(a, o, p, d) + Weight(t, a)
    BY <1>2, <1>3, <1>4, HeightsAt
  <2>4. ASSUME NEW s \in Sides
        PROVE  t.child[s][b] \in Pointer /\ h[t.child[s][b]] = h[b]
    <3>1. /\ t.child[s][b] \in Pointer /\ h[t.child[s][b]] \in Nat
          /\ h[b] = h[t.child[s][b]] + Gap(b, s, p, d) + Weight(t, b)
      BY <1>2, <1>4, <1>7, HeightsAt
    <3> QED
      BY <2>1, <2>2, <3>1
  <2>5. h[m] + 1 = h[a] /\ h[b] + 1 = h[a]
    BY <2>1, <2>2, <2>3
  <2> QED
    BY <2>1, <2>3, <2>4, <2>5
<1>19. /\ k \in [Pointer -> Nat] /\ k[NULL] = 0 /\ k[p] = h[a] /\ k[a] = h[p] /\ k[b] = h[a]
       /\ \A n \in Pointer : n # p /\ n # a /\ n # b => k[n] = h[n]
  <2>1. h \in [Pointer -> Nat] /\ h[NULL] = 0 /\ NULL \in Pointer
        /\ p \in Pointer /\ a \in Pointer /\ b \in Pointer
    BY <1>3, <1>4, <1>7, Nodes DEF Heights
  <2>2. k = [n \in Pointer |-> IF n = p THEN h[a] ELSE IF n = a THEN h[p]
                               ELSE IF n = b THEN h[a] ELSE h[n]]
    BY <1>17 DEF Raised
  <2>3. k \in [Pointer -> Nat]
    BY <1>18, <2>1, <2>2
  <2> QED
    BY <1>3, <1>6, <1>7, <2>1, <2>2, <2>3
<1>20. ASSUME NEW n \in Node, NEW s \in Sides
       PROVE  k[n] = k[u.child[s][n]] + Gap(n, s, NULL, "left") + Weight(u, n)
  <2>0. s = d \/ s = o
    BY <1>1, <1>4, SidesOther
  <2>1. CASE n = p
    <3>1. Weight(u, n) = 1
      BY <1>15, <2>1 DEF Weight
    <3>2. e # b
      BY <1>4, <1>5
    <3>3. k[e] = h[e] /\ k[m] = h[m]
      BY <1>3, <1>6, <1>7, <1>19, <3>2
    <3>4. h[m] = h[e] /\ u.child[s][n] \in {e, m}
      <4>1. h[m] \in Nat
        BY <1>4, <1>6 DEF Heights
      <4> QED
        BY <1>3, <1>16, <1>18, <2>0, <2>1, <4>1
    <3> QED
      BY <1>3, <1>19, <2>1, <3>1, <3>3, <3>4, NoGap
  <2>2. CASE n = a
    <3>1. Weight(u, n) = Weight(t, p)
      BY <1>3, <1>6, <1>15, <2>2 DEF Weight
    <3>2. k[u.child[s][n]] = h[a]
      BY <1>16, <1>19, <2>0, <2>2
    <3> QED
      BY <1>3, <1>18, <1>19, <2>2, <3>1, <3>2, NoGap
  <2>3. CASE n = b
    <3>1. Weight(u, n) = 1
      BY <1>15, <2>3 DEF Weight
    <3>2. t.child[s][n] # p /\ t.child[s][n] # a /\ t.child[s][n] # b
      <4>1. t.child[s][n] # a
        BY <1>6, <1>7, <2>3
      <4>2. t.child[s][n] # b
        BY <1>2, <1>7, <2>3, TreeMembers
      <4>3. t.child[s][n] # p
        <5> SUFFICES ASSUME t.child[s][n] = p PROVE FALSE
          OBVIOUS
        <5>1. t.parent[p] = b /\ b \in Node /\ t.child[s][b] = p
          BY <1>2, <1>7, <2>3, TreeMembers
        <5>2. D[p] \subseteq D[b] /\ b \notin D[p] /\ D[a] \subseteq D[p] /\ D[b] \subseteq D[a]
          <6>1. D[p] \subseteq D[b] /\ b \notin D[p]
            BY <1>2, <5>1, SubtreeOf
          <6>2. D[a] \subseteq D[p]
            BY <1>2, <1>3, <1>4, SubtreeOf
          <6>3. D[b] \subseteq D[a]
            BY <1>2, <1>3, <1>4, SubtreeOf
          <6> QED
            BY <6>1, <6>2, <6>3
        <5>3. b \in D[b]
          BY <1>2, <1>7, SidesOther, SubtreeOf
        <5> QED
          BY <5>2, <5>3
      <4> QED
        BY <4>1, <4>2, <4>3
    <3>3. k[u.child[s][n]] = h[b]
      BY <1>6, <1>7, <1>16, <1>18, <1>19, <2>3, <3>2
    <3> QED
      BY <1>18, <1>19, <2>3, <3>1, <3>3, NoGap
  <2>4. CASE n # p /\ n # a /\ n # b
    <3>1. Weight(u, n) = Weight(t, n) /\ k[n] = h[n]
      BY <1>15, <1>19, <2>4, Nodes DEF Weight
    <3>2. /\ h[n] \in Nat /\ t.child[s][n] \in Pointer /\ h[t.child[s][n]] \in Nat
          /\ h[n] = h[t.child[s][n]] + Gap(n, s, p, d) + Weight(t, n)
      BY <1>2, <1>4, HeightsAt
    <3>3. Gap(n, s, p, d) = 0
      BY <2>4 DEF Gap
    <3>4. t.child[s][n] # a /\ t.child[s][n] # b
      <4>1. t.child[s][n] = b => n = a
        BY <1>2, <1>7, TreeMembers
      <4> QED
        BY <1>6, <2>4, <4>1
    <3>5. k[u.child[s][n]] = h[t.child[s][n]]
      BY <1>16, <1>19, <2>4, <3>2, <3>4
    <3> QED
      BY <3>1, <3>2, <3>3, <3>5, NoGap
  <2> QED
    BY <2>1, <2>2, <2>3, <2>4
<1>21. Heights(u, k, NULL, "left")
  BY <1>19, <1>20 DEF Heights
<1>22. ASSUME NEW n \in Node, IsRed(u, n)
       PROVE  u.parent[n] # NULL /\ ~ IsRed(u, u.parent[n])
  <2>1. n # p /\ n # b /\ IsRed(t, IF n = a THEN p ELSE n)
    BY <1>15, <1>22
  <2>2. CASE n = a
    <3>1. IsRed(t, p)
      BY <2>1, <2>2
    <3>2. t.parent[p] # NULL /\ ~ IsRed(t, t.parent[p])
      <4>1. \A i \in Node : IsRed(t, i) /\ i # NULL => t.parent[i] # NULL /\ ~ IsRed(t, t.parent[i])
        BY <1>4 DEF Reds
      <4> QED
        BY <1>3, <1>7, <3>1, <4>1
    <3>3. t.parent[p] \in Node
      BY <1>2, <1>3, <3>2, TreeMembers
    <3> QED
      BY <1>6, <1>15, <1>16, <1>3, <2>2, <3>2, <3>3
  <2>3. CASE n = m
    BY <1>3, <1>6, <1>7, <1>15, <1>16, <2>3
  <2>4. CASE n # a /\ n # m
    <3>1. t.parent[n] # NULL /\ ~ IsRed(t, t.parent[n])
      <4>1. IsRed(t, n) /\ n # NULL
        BY <2>1, <2>4, Nodes
      <4> QED
        BY <1>4, <4>1 DEF Reds
    <3>2. PICK s \in Sides : t.parent[n] \in Node /\ t.child[s][t.parent[n]] = n
      BY <1>2, <3>1, TreeMembers
    <3>3. t.parent[n] # a
      BY <1>1, <1>4, <2>1, <2>4, <3>2, SidesOther
    <3>4. u.parent[n] = t.parent[n]
      BY <1>16, <2>1, <2>4
    <3> QED
      BY <1>15, <3>1, <3>2, <3>3, <3>4
  <2> QED
    BY <2>2, <2>3, <2>4
<1>23. u.root \in Members(u) \cup {NULL}
  BY <1>14, TreeMembers
<1>24. Reds(u, u.root, TRUE)
  BY <1>22 DEF Reds
<1>25. Removing(u, u.root, p)
  BY <1>14, <1>21, <1>23, <1>24 DEF Removing
<1> QED
  BY <1>10, <1>12, <1>14, <1>25

(* A tree that keeps its elements goes on resting, or being mended.           *)
LEMMA InsertStep ==
  ASSUME Resting(tree), NEW n \in Node, Insert(n)
  PROVE  /\ pc' = "insert_color" /\ Inserting(tree', elm')
         /\ \A m \in Members(tree) : Key[m] # Key[n]
         /\ Members(tree') = Members(tree) \cup {n}
<1>1. PICK D : IsTree(tree, D)
  BY DEF Resting
<1>2. Hung(tree, tree', n, Below(tree, n)) /\ (Below(tree, n) # NULL => Key[Below(tree, n)] # Key[n])
  BY <1>1, InsertHangs
<1>3. /\ Inserting(tree', n) /\ Members(tree') = Members(tree) \cup {n}
      /\ \A m \in Members(tree) : Key[m] # Key[n]
  BY <1>2, InsertStarts
<1>4. pc' = "insert_color" /\ elm' = n
  BY DEF Insert
<1> QED
  BY <1>3, <1>4

LEMMA RecolorStep ==
  ASSUME Inserting(tree, elm), InsertRecolor
  PROVE  /\ Inserting(tree', elm') /\ Members(tree') = Members(tree) /\ SameShape(tree, tree')
         /\ elm' = tree.parent[tree.parent[elm]] /\ elm \in Node /\ tree.parent[elm] \in Node
         /\ elm' \in Node
<1>1. IsRed(tree, tree.parent[elm]) /\ IsRed(tree, Uncle(tree, tree.parent[elm]))
  BY DEF InsertRecolor
<1>2. PICK p, g, s, w : Uncles(tree, elm, p, g, s, w)
  BY <1>1, UnclesAre
<1>3. p = tree.parent[elm] /\ g = tree.parent[p] /\ w = Uncle(tree, p)
      /\ elm \in Node /\ p \in Node /\ g \in Node
  BY <1>2 DEF Uncles
<1>4. IsRed(tree, p) /\ IsRed(tree, w)
  BY <1>1, <1>3
<1>5. tree' = PaintBlackRed(Paint(tree, w, "black"), p, g) /\ elm' = g
  BY <1>3 DEF InsertRecolor
<1>6. Inserting(tree', g) /\ SameShape(tree, tree')
  BY <1>2, <1>4, <1>5, RecolorInserts
<1>7. PICK D : IsTree(tree, D)
  BY DEF Inserting
<1>8. Members(tree') = Members(tree)
  BY <1>6, <1>7, SameShapeIsTree
<1> QED
  BY <1>3, <1>5, <1>6, <1>8

LEMMA InsertRotateStep ==
  ASSUME Inserting(tree, elm), InsertRotate
  PROVE  /\ Inserting(tree', elm') /\ Members(tree') = Members(tree)
         /\ ~ IsRed(tree', tree'.parent[elm'])
<1>1. IsRed(tree, tree.parent[elm]) /\ ~ IsRed(tree, Uncle(tree, tree.parent[elm]))
  BY DEF InsertRotate
<1>2. PICK p, g, s, w : Uncles(tree, elm, p, g, s, w)
  BY <1>1, UnclesAre
<1>3. p = tree.parent[elm] /\ g = tree.parent[p] /\ w = Uncle(tree, p) /\ s = SideOf(tree, p)
  BY <1>2 DEF Uncles
<1>4. IsRed(tree, p) /\ ~ IsRed(tree, w)
  BY <1>1, <1>3
<1>5. LET inner == tree.child[Other(s)][p] = elm
          outward == IF inner THEN Rotate(tree, p, s) ELSE tree
      IN /\ tree' = Rotate(PaintBlackRed(outward, IF inner THEN elm ELSE p, g), g, Other(s))
         /\ elm' = IF inner THEN p ELSE elm
  BY <1>3 DEF InsertRotate
<1>6. CASE tree.child[Other(s)][p] # elm
  <2>1. tree' = Rotate(PaintBlackRed(tree, p, g), g, Other(s)) /\ elm' = elm
    BY <1>5, <1>6
  <2>2. Inserting(tree', elm) /\ Members(tree') = Members(tree) /\ ~ IsRed(tree', tree'.parent[elm])
    BY <1>2, <1>4, <1>6, <2>1, OuterInserts
  <2> QED
    BY <2>1, <2>2
<1>7. CASE tree.child[Other(s)][p] = elm
  <2>1. PICK t : t = Rotate(tree, p, s)
    OBVIOUS
  <2>2. tree' = Rotate(PaintBlackRed(t, elm, g), g, Other(s)) /\ elm' = p
    BY <1>5, <1>7, <2>1
  <2>3. /\ Inserting(t, p) /\ Members(t) = Members(tree) /\ Uncles(t, p, elm, g, s, w)
        /\ IsRed(t, elm) /\ ~ IsRed(t, w) /\ t.child[Other(s)][elm] # p
    BY <1>2, <1>4, <1>7, <2>1, InnerInserts
  <2>4. Inserting(tree', p) /\ Members(tree') = Members(t) /\ ~ IsRed(tree', tree'.parent[p])
    BY <2>2, <2>3, OuterInserts
  <2> QED
    BY <2>2, <2>3, <2>4
<1> QED
  BY <1>6, <1>7

LEMMA InsertDoneStep ==
  ASSUME Inserting(tree, elm), InsertDone
  PROVE  Resting(tree') /\ Members(tree') = Members(tree)
  BY InsertEnds DEF InsertDone

-----------------------------------------------------------------------------
(* A removal leaves a tree that rests, or one that is to be mended.           *)
LEMMA OuterStep ==
  ASSUME Resting(tree), NEW old \in Node, RemoveOuter(old)
  PROVE  /\ old \in Members(tree) /\ Members(tree') = Members(tree) \ {old}
         /\ \/ Resting(tree') /\ UNCHANGED <<pc, elm, up>>
            \/ pc' = "remove_color" /\ Removing(tree', elm', up')
<1>1. PICK l, r, c : /\ l = tree.child["left"][old] /\ r = tree.child["right"][old]
                     /\ c = IF l = NULL THEN r ELSE l
  OBVIOUS
<1>2. /\ old \in Members(tree) /\ NULL \in {l, r}
      /\ tree' = Forget(Splice(tree, old, c), old)
      /\ Rebalance(tree.color[old], c, tree.parent[old])
  BY <1>1 DEF RemoveOuter, Members
<1>3. OnlyChild(tree, old, c)
  <2>1. Other("left") = "right" /\ Other("right") = "left"
    BY DEF Other
  <2>2. CASE l = NULL
    BY <1>1, <2>1, <2>2, SidesOther DEF OnlyChild
  <2>3. CASE l # NULL
    BY <1>1, <1>2, <2>1, <2>3, SidesOther DEF OnlyChild
  <2> QED
    BY <2>2, <2>3
<1>4. PICK D : IsTree(tree, D)
  BY DEF Resting
<1>5. c \in Pointer
  BY <1>2, <1>3, <1>4, OnlyChildIs
<1>6. Unlinked(tree, tree', old, c)
  BY <1>2, <1>4, <1>5, SpliceUnlinks
<1>7. /\ Members(tree') = Members(tree) \ {old}
      /\ IsRed(tree, old) => Resting(tree')
      /\ ~ IsRed(tree, old) => Removing(tree', c, tree.parent[old])
  BY <1>2, <1>3, <1>6, UnlinkedRests
<1>8. IsRed(tree, old) <=> tree.color[old] # "black"
  BY <1>4, TreeFields, Nodes DEF IsTree, IsRed, NodeColors
<1> QED
  BY <1>2, <1>7, <1>8 DEF Rebalance

LEMMA InnerStep ==
  ASSUME Resting(tree), NEW old \in Node, RemoveInner(old)
  PROVE  /\ old \in Members(tree) /\ Members(tree') = Members(tree) \ {old}
         /\ \/ Resting(tree') /\ UNCHANGED <<pc, elm, up>>
            \/ pc' = "remove_color" /\ Removing(tree', elm', up')
<1>1. PICK x : x = Extreme(tree, tree.child["right"][old], "left")
  OBVIOUS
<1>2. PICK w : w = Splice(tree, x, tree.child["right"][x])
  OBVIOUS
<1>3. PICK y1 : y1 = TakeFields(w, old, x)
  OBVIOUS
<1>4. PICK y2 : y2 = Replace(y1, w.parent[old], old, x)
  OBVIOUS
<1>5. PICK y3 : y3 = SetParent(y2, tree.child["left"][old], x)
  OBVIOUS
<1>6. PICK y4 : y4 = SetParent(y3, w.child["right"][old], x)
  OBVIOUS
<1>7. InnerSteps(tree, old, x, w, y1, y2, y3, y4)
  BY <1>1, <1>2, <1>3, <1>4, <1>5, <1>6 DEF InnerSteps
<1>8. /\ old \in Members(tree)
      /\ tree.child["left"][old] # NULL /\ tree.child["right"][old] # NULL
  BY DEF RemoveInner, Members
<1>9. /\ tree' = Forget(y4, old)
      /\ Rebalance(tree.color[x], tree.child["right"][x],
                   IF tree.parent[x] = old THEN x ELSE tree.parent[x])
  BY <1>1, <1>2, <1>3, <1>4, <1>5, <1>6 DEF RemoveInner
<1>10. /\ Members(tree') = Members(tree) \ {old}
       /\ IsRed(tree, x) => Resting(tree')
       /\ ~ IsRed(tree, x) => Removing(tree', tree.child["right"][x],
                                       IF tree.parent[x] = old THEN x ELSE tree.parent[x])
  BY <1>7, <1>8, <1>9, InnerRests
<1>11. PICK D : IsTree(tree, D)
  BY DEF Resting
<1>12. x \in Node
  BY <1>1, <1>8, <1>11, SuccessorFits DEF Members
<1>13. IsRed(tree, x) <=> tree.color[x] # "black"
  BY <1>11, <1>12, TreeFields, Nodes DEF IsTree, IsRed, NodeColors
<1> QED
  BY <1>8, <1>9, <1>10, <1>13 DEF Rebalance

-----------------------------------------------------------------------------
(* The loop of RB_REMOVE_COLOR.                                             *)
LEMMA UpwardsStep ==
  ASSUME Removing(tree, elm, up), RemoveUpwards
  PROVE  /\ Removing(tree', elm', up') /\ Members(tree') = Members(tree)
         /\ elm' = up /\ up \in Node /\ up' = tree'.parent[up]
         /\ IsRed(tree', up) \/ SameShape(tree, tree')
<1>1. PICK d : d = DeficientSide
  OBVIOUS
<1>2. PICK t : t = BlackSibling(tree, up, d)
  OBVIOUS
<1>3. PICK w : w = t.child[Other(d)][up]
  OBVIOUS
<1>4. WithBlackSibling = t
  BY <1>1, <1>2 DEF WithBlackSibling, BlackSibling
<1>5. /\ Deficient /\ ~ RedNephew(t, w)
      /\ tree' = Paint(t, w, "red") /\ elm' = up /\ up' = t.parent[up]
  BY <1>1, <1>3, <1>4 DEF RemoveUpwards
<1>6. PICK h : Deficit(tree, elm, up, d, h)
  BY <1>1, <1>5, DeficitIs
<1>7. /\ \E k : Deficit(t, elm, up, d, k)
      /\ Members(t) = Members(tree) /\ ~ IsRed(t, w)
      /\ t = tree \/ IsRed(t, up)
  BY <1>2, <1>3, <1>6, SiblingBlackened
<1>8. PICK k : Deficit(t, elm, up, d, k)
  BY <1>7
<1>9. /\ Removing(tree', up, t.parent[up]) /\ SameShape(t, tree') /\ Members(tree') = Members(t)
      /\ IsRed(t, up) => IsRed(tree', up)
  BY <1>3, <1>5, <1>7, <1>8, DeficitRises
<1>10. tree'.parent = t.parent
  BY <1>9 DEF SameShape
<1>11. up \in Node
  BY <1>8 DEF Deficit, Members
<1> QED
  BY <1>5, <1>7, <1>9, <1>10, <1>11

LEMMA RemoveRotateStep ==
  ASSUME Removing(tree, elm, up), RemoveRotate
  PROVE  /\ Removing(tree', elm', up') /\ Members(tree') = Members(tree)
         /\ elm' = tree'.root
<1>1. PICK d : d = DeficientSide
  OBVIOUS
<1>2. PICK t : t = BlackSibling(tree, up, d)
  OBVIOUS
<1>3. PICK w : w = t.child[Other(d)][up]
  OBVIOUS
<1>4. PICK u : u = FarNephew(t, up, d)
  OBVIOUS
<1>5. WithBlackSibling = t
  BY <1>1, <1>2 DEF WithBlackSibling, BlackSibling
<1>6. /\ Deficient /\ RedNephew(t, w)
      /\ tree' = Mended(u, up, d) /\ elm' = tree'.root /\ up' = up
  BY <1>1, <1>3, <1>4, <1>5 DEF RemoveRotate, FarNephew, Mended
<1>7. PICK h : Deficit(tree, elm, up, d, h)
  BY <1>1, <1>6, DeficitIs
<1>8. /\ \E k : Deficit(t, elm, up, d, k)
      /\ Members(t) = Members(tree) /\ ~ IsRed(t, w)
  BY <1>2, <1>3, <1>7, SiblingBlackened
<1>9. PICK k : Deficit(t, elm, up, d, k)
  BY <1>8
<1>10. /\ \E j : Deficit(u, elm, up, d, j)
       /\ Members(u) = Members(t) /\ ~ IsRed(u, u.child[Other(d)][up])
       /\ IsRed(u, u.child[Other(d)][u.child[Other(d)][up]])
  BY <1>3, <1>4, <1>6, <1>8, <1>9, NephewTurned
<1>11. PICK j : Deficit(u, elm, up, d, j)
  BY <1>10
<1>12. Removing(tree', tree'.root, up) /\ Members(tree') = Members(u)
  BY <1>6, <1>10, <1>11, DeficitMended
<1> QED
  BY <1>6, <1>8, <1>10, <1>12

LEMMA RemoveDoneStep ==
  ASSUME Removing(tree, elm, up), RemoveDone
  PROVE  Resting(tree') /\ Members(tree') = Members(tree)
<1>1. IsRed(tree, elm) \/ elm = tree.root
  BY DEF RemoveDone, Deficient
<1>2. tree' = Paint(tree, elm, "black")
  BY DEF RemoveDone
<1> QED
  BY <1>1, <1>2, RemovalEnds

(* The invariant of RB_INSERT and RB_REMOVE.                                 *)
RBInv ==
  \/ pc = "idle" /\ elm = NULL /\ Resting(tree)
  \/ pc = "insert_color" /\ Inserting(tree, elm)
  \/ pc = "remove_color" /\ Removing(tree, elm, up)

LEMMA EmptyRests == Init => RBInv /\ Members(tree) = {}
<1> SUFFICES ASSUME Init PROVE RBInv /\ Members(tree) = {}
  OBVIOUS
<1>1. tree = Empty /\ pc = "idle" /\ elm = NULL
  BY DEF Init
<1>2. /\ tree.root = NULL /\ tree \in Trees
      /\ \A n \in Node, s \in Sides : tree.child[s][n] = NULL
      /\ \A n \in Node : tree.parent[n] = NULL /\ tree.color[n] = "black"
  BY <1>1, Nodes DEF Empty, Trees, NodeColors
<1>3. \A n \in Node : ~ InTree(tree, n) /\ ~ IsRed(tree, n)
  BY <1>2, Nodes DEF InTree, IsRed
<1>4. Members(tree) = {}
  BY <1>3 DEF Members
<1>5. Links(tree)
  BY <1>2, <1>3 DEF Links
<1> DEFINE D == [n \in Pointer |-> IF n = NULL THEN {} ELSE {n}]
           h == [n \in Pointer |-> IF n = NULL THEN 0 ELSE 1]
<1>6. /\ D \in [Pointer -> SUBSET Node] /\ D[NULL] = {}
      /\ \A n \in Node : D[n] = {n}
      /\ h \in [Pointer -> Nat] /\ h[NULL] = 0
      /\ \A n \in Node : h[n] = 1
  <2>1. \A n \in Pointer : (IF n = NULL THEN {} ELSE {n}) \in SUBSET Node
    BY Nodes
  <2> QED
    BY <2>1, Nodes
<1> HIDE DEF D, h
<1>7. Subtrees(tree, D)
  <2>1. \A n \in Node : IsFiniteSet(D[n])
    BY <1>6, FS_Singleton
  <2>2. \A n \in Node, s \in Sides : D[tree.child[s][n]] = {} /\ D[tree.child[Other(s)][n]] = {}
    BY <1>2, <1>6, SidesOther
  <2>3. \A n \in Node, s \in Sides :
          D[n] = {n} \cup D[tree.child[s][n]] \cup D[tree.child[Other(s)][n]]
    BY <1>6, <2>2
  <2>4. D[tree.root] = Members(tree)
    BY <1>2, <1>4, <1>6
  <2> QED
    BY <1>6, <2>1, <2>3, <2>4 DEF Subtrees
<1>8. Ordered(tree, D)
  BY <1>2, <1>6 DEF Ordered
<1>9. Heights(tree, h, NULL, "left")
  <2>1. \A n \in Node : Weight(tree, n) = 1
    BY <1>3 DEF Weight
  <2> QED
    BY <1>2, <1>6, <2>1, NoGap DEF Heights
<1>10. Reds(tree, NULL, FALSE)
  BY <1>3 DEF Reds
<1>11. \E E : IsTree(tree, E)
  BY <1>2, <1>5, <1>7, <1>8 DEF IsTree
<1> QED
  BY <1>1, <1>4, <1>9, <1>10, <1>11 DEF RBInv, Resting

(* What a step does to the elements of the tree.                             *)
Effect ==
  \/ Members(tree') = Members(tree)
  \/ \E n \in Node : /\ \A m \in Members(tree) : Key[m] # Key[n]
                     /\ Members(tree') = Members(tree) \cup {n}
  \/ \E n \in Members(tree) : Members(tree') = Members(tree) \ {n}

LEMMA RBStep ==
  ASSUME RBInv, [Next]_vars
  PROVE  RBInv' /\ Effect
<1>1. CASE UNCHANGED vars
  BY <1>1 DEF vars, RBInv, Effect
<1>2. CASE InsertRecolor
  <2>1. Inserting(tree, elm)
    BY <1>2 DEF RBInv, InsertRecolor
  <2>2. Inserting(tree', elm') /\ Members(tree') = Members(tree)
    BY <1>2, <2>1, RecolorStep
  <2> QED
    BY <1>2, <2>2 DEF RBInv, Effect, InsertRecolor
<1>3. CASE InsertRotate
  <2>1. Inserting(tree, elm)
    BY <1>3 DEF RBInv, InsertRotate
  <2>2. Inserting(tree', elm') /\ Members(tree') = Members(tree)
    BY <1>3, <2>1, InsertRotateStep
  <2>3. pc' = "insert_color"
    BY <1>3 DEF InsertRotate
  <2> QED
    BY <2>2, <2>3 DEF RBInv, Effect
<1>4. CASE InsertDone
  <2>1. Inserting(tree, elm)
    BY <1>4 DEF RBInv, InsertDone
  <2>2. Resting(tree') /\ Members(tree') = Members(tree)
    BY <1>4, <2>1, InsertDoneStep
  <2> QED
    BY <1>4, <2>2 DEF RBInv, Effect, InsertDone
<1>5. CASE RemoveUpwards
  <2>1. Removing(tree, elm, up)
    BY <1>5 DEF RBInv, RemoveUpwards, Deficient
  <2>2. Removing(tree', elm', up') /\ Members(tree') = Members(tree)
    BY <1>5, <2>1, UpwardsStep
  <2>3. pc' = "remove_color"
    BY <1>5 DEF RemoveUpwards, Deficient
  <2> QED
    BY <2>2, <2>3 DEF RBInv, Effect
<1>6. CASE RemoveRotate
  <2>1. Removing(tree, elm, up)
    BY <1>6 DEF RBInv, RemoveRotate, Deficient
  <2>2. Removing(tree', elm', up') /\ Members(tree') = Members(tree)
    BY <1>6, <2>1, RemoveRotateStep
  <2>3. pc' = "remove_color"
    BY <1>6 DEF RemoveRotate, Deficient
  <2> QED
    BY <2>2, <2>3 DEF RBInv, Effect
<1>7. CASE RemoveDone
  <2>1. Removing(tree, elm, up)
    BY <1>7 DEF RBInv, RemoveDone
  <2>2. Resting(tree') /\ Members(tree') = Members(tree)
    BY <1>7, <2>1, RemoveDoneStep
  <2> QED
    BY <1>7, <2>2 DEF RBInv, Effect, RemoveDone
<1>8. ASSUME NEW n \in Node, Insert(n) PROVE RBInv' /\ Effect
  <2>1. Resting(tree)
    BY <1>8 DEF RBInv, Insert
  <2>2. /\ pc' = "insert_color" /\ Inserting(tree', elm')
        /\ \A m \in Members(tree) : Key[m] # Key[n]
        /\ Members(tree') = Members(tree) \cup {n}
    BY <1>8, <2>1, InsertStep
  <2> QED
    BY <2>2 DEF RBInv, Effect
<1>9. ASSUME NEW n \in Node, RemoveOuter(n) PROVE RBInv' /\ Effect
  <2>1. Resting(tree) /\ pc = "idle" /\ elm = NULL
    BY <1>9 DEF RBInv, RemoveOuter
  <2>2. /\ n \in Members(tree) /\ Members(tree') = Members(tree) \ {n}
        /\ \/ Resting(tree') /\ UNCHANGED <<pc, elm, up>>
           \/ pc' = "remove_color" /\ Removing(tree', elm', up')
    BY <1>9, <2>1, OuterStep
  <2> QED
    BY <2>1, <2>2 DEF RBInv, Effect
<1>10. ASSUME NEW n \in Node, RemoveInner(n) PROVE RBInv' /\ Effect
  <2>1. Resting(tree) /\ pc = "idle" /\ elm = NULL
    BY <1>10 DEF RBInv, RemoveInner
  <2>2. /\ n \in Members(tree) /\ Members(tree') = Members(tree) \ {n}
        /\ \/ Resting(tree') /\ UNCHANGED <<pc, elm, up>>
           \/ pc' = "remove_color" /\ Removing(tree', elm', up')
    BY <1>10, <2>1, InnerStep
  <2> QED
    BY <2>1, <2>2 DEF RBInv, Effect
<1> QED
  BY <1>1, <1>2, <1>3, <1>4, <1>5, <1>6, <1>7, <1>8, <1>9, <1>10 DEF Next, Loop

(* At rest, in the loop of RB_INSERT_COLOR or in that of RB_REMOVE_COLOR the   *)
(* tree is a search tree whose parents and children agree; what the loop has  *)
(* still to mend is in one place, where elm and parent point                 *)
(* (tree.h:402, 445).                                                       *)
THEOREM RBInvariant == Spec => []RBInv
<1>1. Init => RBInv
  BY EmptyRests
<1>2. RBInv /\ [Next]_vars => RBInv'
  BY RBStep
<1> QED
  BY <1>1, <1>2, PTL DEF Spec

LEMMA HasTree ==
  ASSUME RBInv
  PROVE  \E D : IsTree(tree, D)
  BY DEF RBInv, Resting, Inserting, Removing

-----------------------------------------------------------------------------
ContentOf(t) ==
  LET below[n \in Pointer] ==
        IF n = NULL THEN {} ELSE {n} \cup UNION {below[t.child[s][n]] : s \in Sides}
  IN below[t.root]

LEMMA ContentIs ==
  ASSUME NEW t, NEW D, IsTree(t, D)
  PROVE  ContentOf(t) = Members(t)
<1> DEFINE Is(f) == f = [n \in Pointer |->
                           IF n = NULL THEN {} ELSE {n} \cup UNION {f[t.child[s][n]] : s \in Sides}]
<1>0. /\ D \in [Pointer -> SUBSET Node] /\ D[NULL] = {} /\ t \in Trees
      /\ D[t.root] = Members(t) /\ t.root \in Pointer
  BY TreeFields DEF IsTree, Subtrees
<1>1. ASSUME NEW n \in Pointer
      PROVE  D[n] = IF n = NULL THEN {} ELSE {n} \cup UNION {D[t.child[s][n]] : s \in Sides}
  <2>1. CASE n = NULL
    BY <1>0, <2>1
  <2>2. CASE n # NULL
    <3>1. D[n] = {n} \cup D[t.child["left"][n]] \cup D[t.child["right"][n]]
      BY <2>2, Nodes DEF IsTree, Subtrees, Sides, Other
    <3> QED
      BY <2>2, <3>1 DEF Sides
  <2> QED
    BY <2>1, <2>2
<1>2. Is(D)
  <2>1. D = [n \in Pointer |-> D[n]]
    BY <1>0
  <2> QED
    BY <1>1, <2>1
<1>3. \E f : Is(f)
  BY <1>2
<1>4. Is(CHOOSE f : Is(f))
  <2> HIDE DEF Is
  <2> QED
    BY <1>3, Zenon
<1>5. PICK f : f = CHOOSE g : Is(g)
  OBVIOUS
<1>6. Is(f)
  <2> HIDE DEF Is
  <2> QED
    BY <1>4, <1>5
<1>7. ContentOf(t) = f[t.root]
  BY <1>5, Zenon DEF ContentOf
<1>8. \A n \in Pointer : f[n] = D[n]
  <2> DEFINE T == {n \in Pointer : f[n] # D[n]}
  <2> SUFFICES ASSUME T # {} PROVE FALSE
    OBVIOUS
  <2>1. PICK n \in T : \A c \in Pointer : Size(D)[c] < Size(D)[n] => c \notin T
    <3>1. T \in SUBSET Pointer /\ T # {}
      OBVIOUS
    <3> HIDE DEF T
    <3> QED
      BY <3>1, SizeDecreases, LeastByMeasure
  <2>2. f[n] = IF n = NULL THEN {} ELSE {n} \cup UNION {f[t.child[s][n]] : s \in Sides}
    BY <1>6
  <2>3. n # NULL
    BY <1>0, <2>2
  <2>4. \A s \in Sides : f[t.child[s][n]] = D[t.child[s][n]]
    <3>1. n \in Node
      BY <2>3, Nodes
    <3>2. \A s \in Sides : t.child[s][n] \in Pointer /\ Size(D)[t.child[s][n]] < Size(D)[n]
      BY <1>0, <3>1, SizeDecreases, TreeFields
    <3> QED
      BY <2>1, <3>2
  <2>5. UNION {f[t.child[s][n]] : s \in Sides} = UNION {D[t.child[s][n]] : s \in Sides}
    BY <2>4
  <2> QED
    BY <1>1, <2>2, <2>3, <2>5
<1> QED
  BY <1>0, <1>7, <1>8

LEMMA ContentMembers ==
  ASSUME RBInv
  PROVE  Content = Members(tree)
<1>1. Content = ContentOf(tree)
  BY Zenon DEF Content, ContentOf
<1> QED
  BY <1>1, HasTree, ContentIs

(* RB_INSERT and RB_REMOVE, with all rotations of their loops, implement an    *)
(* ordered set: RB_INSERT adds its element unless an equal one is there       *)
(* (tree.h:587), RB_REMOVE takes out the one it is given (tree.h:521), and an  *)
(* iteration of RB_INSERT_COLOR or RB_REMOVE_COLOR changes nothing.           *)
THEOREM RBImplements == Spec => ImplementsOrderedSet
<1>1. Init => Elements!Init
  <2> SUFFICES ASSUME Init PROVE Content = {}
    BY DEF Elements!Init
  <2> QED
    BY EmptyRests, ContentMembers
<1>2. RBInv /\ RBInv' /\ [Next]_vars => [Elements!Next]_Content
  <2> SUFFICES ASSUME RBInv, RBInv', [Next]_vars
               PROVE  [Elements!Next]_Content
    OBVIOUS
  <2>1. Effect
    BY RBStep
  <2>2. Content = Members(tree)
    BY ContentMembers
  <2>3. RBInv => Content = Members(tree)
    BY ContentMembers
  <2>4. Content' = Members(tree')
    <3>1. Content' = ContentOf(tree')
      BY Zenon DEF Content, ContentOf
    <3>2. \E D : IsTree(tree', D)
      BY DEF RBInv, Resting, Inserting, Removing
    <3> QED
      BY <3>1, <3>2, ContentIs
  <2>5. Members(tree) \subseteq Node
    BY DEF Members
  <2> QED
    BY <2>1, <2>2, <2>4, <2>5 DEF Effect, Elements!Next, Elements!Insert, Elements!Remove
<1> QED
  BY <1>1, <1>2, RBInvariant, PTL DEF Spec, ImplementsOrderedSet, Elements!Spec

LEMMA CountsAre ==
  ASSUME NEW D, IsTree(tree, D), NEW h \in [Pointer -> Nat], h[NULL] = 0,
         \A n \in Node, s \in Sides :
           h[n] = h[tree.child[s][n]] + (IF Missing(n, s) THEN 1 ELSE 0) + Weight(tree, n)
  PROVE  BlackCounts = {h[tree.root]}
<1> DEFINE Is(f) ==
      f = [n \in Pointer |->
             IF n = NULL THEN {0}
             ELSE LET here == IF IsRed(tree, n) THEN 0 ELSE 1
                  IN UNION {{here + i + (IF Missing(n, s) THEN 1 ELSE 0) :
                               i \in f[tree.child[s][n]]} : s \in Sides}]
<1> DEFINE Sums(f, n) == UNION {{(IF IsRed(tree, n) THEN 0 ELSE 1) + i + (IF Missing(n, s) THEN 1 ELSE 0) :
                                  i \in f[tree.child[s][n]]} : s \in Sides}
<1>0. /\ tree \in Trees /\ tree.root \in Pointer
      /\ \A n \in Node, s \in Sides : tree.child[s][n] \in Pointer
  BY TreeFields DEF IsTree
<1>1. ASSUME NEW n \in Node, NEW f, \A s \in Sides : f[tree.child[s][n]] = {h[tree.child[s][n]]}
      PROVE  Sums(f, n) = {h[n]}
  <2>1. ASSUME NEW s \in Sides
        PROVE  {(IF IsRed(tree, n) THEN 0 ELSE 1) + i + (IF Missing(n, s) THEN 1 ELSE 0) :
                       i \in f[tree.child[s][n]]} = {h[n]}
    <3>1. h[tree.child[s][n]] \in Nat
      BY <1>0
    <3>2. (IF IsRed(tree, n) THEN 0 ELSE 1) + h[tree.child[s][n]] + (IF Missing(n, s) THEN 1 ELSE 0)
            = h[n]
      BY <3>1 DEF Weight
    <3>3. f[tree.child[s][n]] = {h[tree.child[s][n]]}
      BY <1>1
    <3> QED
      BY <3>2, <3>3
  <2> QED
    BY <2>1 DEF Sides
<1> DEFINE c == [n \in Pointer |-> {h[n]}]
<1>2. Is(c)
  <2>1. ASSUME NEW n \in Node PROVE \A s \in Sides : c[tree.child[s][n]] = {h[tree.child[s][n]]}
    BY <1>0
  <2>2. c = [n \in Pointer |-> {h[n]}]
    OBVIOUS
  <2> HIDE DEF c
  <2>3. ASSUME NEW n \in Node
        PROVE Sums(c, n) = {h[n]}
    <3>1. \A s \in Sides : c[tree.child[s][n]] = {h[tree.child[s][n]]}
      BY <2>1
    <3> HIDE DEF Sums
    <3> QED
      BY <1>1, <3>1
  <2> DEFINE F(n) == IF n = NULL THEN {0}
             ELSE LET here == IF IsRed(tree, n) THEN 0 ELSE 1
                  IN UNION {{here + i + (IF Missing(n, s) THEN 1 ELSE 0) :
                               i \in c[tree.child[s][n]]} : s \in Sides}
  <2>4. ASSUME NEW n \in Pointer PROVE F(n) = {h[n]}
    <3>1. CASE n = NULL
      BY <3>1
    <3>2. CASE n # NULL
      BY <2>3, <3>2, Nodes
    <3> QED
      BY <3>1, <3>2
  <2>5. c = [n \in Pointer |-> F(n)]
    <3> HIDE DEF F
    <3> QED
      BY <2>2, <2>4
  <2> QED
    BY <2>5
<1>3. \E f : Is(f)
  <2> HIDE DEF Is, c
  <2> QED
    BY <1>2
<1>4. Is(CHOOSE f : Is(f))
  <2> HIDE DEF Is
  <2> QED
    BY <1>3, Zenon
<1>5. PICK f : f = CHOOSE g : Is(g)
  OBVIOUS
<1>6. Is(f)
  <2> HIDE DEF Is
  <2> QED
    BY <1>4, <1>5
<1>7. BlackCounts = f[tree.root]
  BY <1>5, Zenon DEF BlackCounts
<1>8. \A n \in Pointer : f[n] = {h[n]}
  <2> DEFINE T == {n \in Pointer : f[n] # {h[n]}}
  <2> SUFFICES ASSUME T # {} PROVE FALSE
    OBVIOUS
  <2>1. PICK n \in T : \A a \in Pointer : Size(D)[a] < Size(D)[n] => a \notin T
    <3>1. T \in SUBSET Pointer /\ T # {}
      OBVIOUS
    <3> HIDE DEF T
    <3> QED
      BY <3>1, SizeDecreases, LeastByMeasure
  <2>2. f[n] = IF n = NULL THEN {0}
               ELSE UNION {{(IF IsRed(tree, n) THEN 0 ELSE 1) + i + (IF Missing(n, s) THEN 1 ELSE 0) :
                            i \in f[tree.child[s][n]]} : s \in Sides}
    BY <1>6
  <2>3. n # NULL /\ n \in Node
    <3>1. n = NULL => f[n] = {h[n]}
      BY <2>2
    <3> QED
      BY <3>1, Nodes
  <2>4. \A s \in Sides : f[tree.child[s][n]] = {h[tree.child[s][n]]}
    <3>1. \A s \in Sides : tree.child[s][n] \in Pointer /\ Size(D)[tree.child[s][n]] < Size(D)[n]
      BY <1>0, <2>3, SizeDecreases
    <3> QED
      BY <2>1, <3>1
  <2>5. f[n] = {h[n]}
    <3> HIDE DEF Is, T
    <3>1. f[n] = Sums(f, n)
      BY <2>2, <2>3
    <3> HIDE DEF Sums
    <3>2. Sums(f, n) = {h[n]}
      BY <1>1, <2>3, <2>4
    <3> QED
      BY <3>1, <3>2
  <2> QED
    BY <2>5
<1> QED
  BY <1>0, <1>7, <1>8

(* Where a black element is missing.                                        *)
LEMMA MissingIs ==
  ASSUME RBInv
  PROVE  \E h, g, d : /\ Heights(tree, h, g, d)
                      /\ \A n \in Node, s \in Sides : Missing(n, s) <=> n = g /\ s = d
<1>1. CASE pc # "remove_color" \/ elm = tree.root
  <2>1. \E h : Heights(tree, h, NULL, "left")
    BY <1>1 DEF RBInv, Resting, Inserting, Removing
  <2>2. \A n \in Node, s \in Sides : Missing(n, s) <=> n = NULL /\ s = "left"
    BY <1>1, Nodes DEF Missing
  <2> QED
    BY <2>1, <2>2
<1>2. CASE pc = "remove_color" /\ elm # tree.root
  <2>1. Removing(tree, elm, up)
    BY <1>2 DEF RBInv
  <2>2. PICK d, h : d \in Sides /\ up \in Members(tree) /\ tree.child[d][up] = elm /\ Heights(tree, h, up, d)
    BY <1>2, <2>1 DEF Removing
  <2>3. DeficientSide = d
    <3>1. CASE IsRed(tree, elm)
      <4>1. elm # NULL
        BY <3>1 DEF IsRed
      <4>2. tree.child[d][up] # tree.child[Other(d)][up]
        BY <2>2, <4>1, HasTree, TreeMembers DEF Members
      <4> QED
        BY <2>2, <4>2 DEF DeficientSide, Sides, Other
    <3>2. CASE ~ IsRed(tree, elm)
      <4>1. Reds(tree, NULL, FALSE)
        BY <2>1, <3>2 DEF Removing, Reds
      <4>2. Deficit(tree, elm, up, d, h)
        BY <2>1, <2>2, <3>2, <4>1 DEF Deficit, Removing
      <4>3. tree.child[Other(d)][up] # elm
        BY <4>2, SiblingIs
      <4> QED
        BY <2>2, <4>3 DEF DeficientSide, Sides, Other
    <3> QED
      BY <3>1, <3>2
  <2>4. \A n \in Node, s \in Sides : Missing(n, s) <=> n = up /\ s = d
    BY <1>2, <2>3 DEF Missing
  <2> QED
    BY <2>2, <2>4
<1> QED
  BY <1>1, <1>2

LEMMA RBBalanced == RBInv => Balanced
<1> SUFFICES ASSUME RBInv PROVE Balanced
  OBVIOUS
<1>1. PICK D : IsTree(tree, D)
  BY HasTree
<1>2. PICK h, g, d : /\ Heights(tree, h, g, d)
                     /\ \A n \in Node, s \in Sides : Missing(n, s) <=> n = g /\ s = d
  BY MissingIs
<1>3. Cardinality(BlackCounts) = 1
  <2>1. \A n \in Node, s \in Sides : Gap(n, s, g, d) = IF Missing(n, s) THEN 1 ELSE 0
    BY <1>2 DEF Gap
  <2>2. /\ h \in [Pointer -> Nat] /\ h[NULL] = 0
        /\ \A n \in Node, s \in Sides :
             h[n] = h[tree.child[s][n]] + Gap(n, s, g, d) + Weight(tree, n)
    BY <1>2 DEF Heights
  <2>3. \A n \in Node, s \in Sides :
          h[n] = h[tree.child[s][n]] + (IF Missing(n, s) THEN 1 ELSE 0) + Weight(tree, n)
    BY <2>1, <2>2
  <2>4. BlackCounts = {h[tree.root]}
    BY <1>1, <2>2, <2>3, CountsAre
  <2> QED
    BY <2>4, FS_Singleton
<1>4. ASSUME NEW n \in Content \ {elm}, IsRed(tree, n)
      PROVE  /\ n # tree.root
             /\ IsRed(tree, tree.parent[n]) => tree.parent[n] = elm /\ pc = "remove_color"
  <2>1. n \in Node /\ n # NULL
    BY ContentMembers, Nodes DEF Members
  <2>2. tree.parent[n] # NULL
    BY <1>4, <2>1 DEF RBInv, Resting, Inserting, Removing, Reds
  <2>3. n # tree.root
    BY <1>1, <2>1, <2>2, TreeMembers
  <2>4. IsRed(tree, tree.parent[n]) => tree.parent[n] = elm /\ pc = "remove_color"
    BY <1>4, <2>1 DEF RBInv, Resting, Inserting, Removing, Reds
  <2> QED
    BY <2>3, <2>4
<1>5. Deficient => up # NULL /\ tree.child[Other(DeficientSide)][up] # NULL
  <2> SUFFICES ASSUME Deficient PROVE up # NULL /\ tree.child[Other(DeficientSide)][up] # NULL
    OBVIOUS
  <2>1. Removing(tree, elm, up)
    BY DEF RBInv, Deficient
  <2>2. PICK k : Deficit(tree, elm, up, DeficientSide, k)
    BY <2>1, DeficitIs
  <2> QED
    BY <2>2, SiblingIs, Nodes
<1> QED
  BY <1>3, <1>4, <1>5 DEF Balanced

(* The tree is balanced between operations, and in each iteration of the loops  *)
(* all but where they work; RB_REMOVE_COLOR finds the sibling whose color and *)
(* children it reads without a test for NULL (tree.h:451).                    *)
THEOREM RBStaysBalanced == Spec => []Balanced
  BY RBInvariant, RBBalanced, PTL

(* How deep n is if p has the parents.                                       *)
DepthBy(p, n) ==
  LET d[m \in Pointer] == IF m = NULL THEN 0 ELSE 1 + d[p[m]]
  IN d[n]

(* The number of elements that are not below n.                              *)
Outside(t, D) ==
  [n \in Pointer |->
     IF n = NULL THEN 0
     ELSE IF n \in Members(t) THEN 1 + (Cardinality(Members(t)) - Cardinality(D[n])) ELSE 1]

LEMMA ParentIsOutside ==
  ASSUME NEW t, NEW D, IsTree(t, D)
  PROVE  /\ Outside(t, D) \in [Pointer -> Nat]
         /\ \A n \in Node : t.parent[n] \in Pointer /\ Outside(t, D)[t.parent[n]] < Outside(t, D)[n]
<1>1. \A n \in Pointer : IsFiniteSet(D[n])
  BY FS_EmptySet, Nodes DEF IsTree, Subtrees
<1>2. /\ t.root \in Pointer /\ D[t.root] = Members(t) /\ D[NULL] = {} /\ D \in [Pointer -> SUBSET Node]
      /\ \A n \in Node : t.parent[n] \in Pointer
  BY TreeFields DEF IsTree, Subtrees
<1>3. \A n \in Members(t) : D[n] \subseteq Members(t) /\ n \in Node /\ n # NULL /\ n \in Pointer
  <2>1. \A n \in D[t.root] : D[n] \subseteq D[t.root]
    BY <1>2, SubtreesNest
  <2> QED
    BY <1>2, <2>1, Nodes DEF Members
<1>4. IsFiniteSet(Members(t))
  BY <1>1, <1>2
<1>5. \A n \in Members(t) : /\ Cardinality(D[n]) \in Nat /\ Cardinality(Members(t)) \in Nat
                            /\ Cardinality(D[n]) <= Cardinality(Members(t))
  BY <1>1, <1>3, <1>4, FS_Subset, FS_CardinalityType
<1>6. \A n \in Pointer : Outside(t, D)[n] =
        IF n = NULL THEN 0
        ELSE IF n \in Members(t) THEN 1 + (Cardinality(Members(t)) - Cardinality(D[n])) ELSE 1
  BY DEF Outside
<1>7. \A n \in Pointer : Outside(t, D)[n] \in Nat
  BY <1>5, <1>6
<1>8. \A n \in Node : Outside(t, D)[n] >= 1
  <2>1. \A n \in Node : n # NULL /\ n \in Pointer
    BY Nodes
  <2> QED
    BY <1>5, <1>6, <2>1
<1>9. ASSUME NEW n \in Node PROVE Outside(t, D)[t.parent[n]] < Outside(t, D)[n]
  <2>1. CASE t.parent[n] = NULL
    BY <1>6, <1>7, <1>8, <2>1, Nodes
  <2>2. CASE t.parent[n] # NULL
    <3>1. PICK p : p = t.parent[n]
      OBVIOUS
    <3>2. p \in Node /\ p \in Members(t) /\ n \in Members(t)
      BY <2>2, <3>1, TreeMembers
    <3>3. PICK s \in Sides : t.child[s][p] = n
      BY <2>2, <3>1, TreeMembers
    <3>4. D[n] \subseteq D[p] /\ D[n] # D[p]
      <4>1. D[t.child[s][p]] \subseteq D[p] /\ p \notin D[t.child[s][p]] /\ p \in D[p]
        BY <3>2, SubtreeOf
      <4> QED
        BY <3>3, <4>1
    <3>5. Cardinality(D[n]) <= Cardinality(D[p]) /\ Cardinality(D[n]) # Cardinality(D[p])
      BY <1>1, <1>3, <3>2, <3>4, FS_Subset
    <3>6. /\ Outside(t, D)[n] = 1 + (Cardinality(Members(t)) - Cardinality(D[n]))
          /\ Outside(t, D)[p] = 1 + (Cardinality(Members(t)) - Cardinality(D[p]))
      BY <1>3, <1>6, <3>2
    <3> QED
      BY <1>5, <3>1, <3>2, <3>5, <3>6
  <2> QED
    BY <2>1, <2>2
<1> QED
  BY <1>2, <1>7, <1>9 DEF Outside

LEMMA DepthIs ==
  ASSUME NEW t, NEW D, IsTree(t, D)
  PROVE  /\ \A n \in Pointer : DepthBy(t.parent, n) \in Nat
         /\ \A n \in Node : DepthBy(t.parent, n) = 1 + DepthBy(t.parent, t.parent[n])
<1> DEFINE Is(f) == f = [m \in Pointer |-> IF m = NULL THEN 0 ELSE 1 + f[t.parent[m]]]
           G == [m \in Pointer |-> [f \in [Pointer -> Nat] |->
                   IF m = NULL THEN 0 ELSE 1 + f[t.parent[m]]]]
<1>0. t \in Trees /\ \A n \in Node : t.parent[n] \in Pointer
  BY TreeFields DEF IsTree
<1>1. \A m \in Pointer, f \in [Pointer -> Nat] :
        (IF m = NULL THEN 0 ELSE 1 + f[t.parent[m]]) \in Nat
  BY <1>0, Nodes
<1>2. G \in [Pointer -> [[Pointer -> Nat] -> Nat]]
  BY <1>1
<1>3. Decreasing(Pointer, Nat, Outside(t, D), G)
  <2>1. ASSUME NEW m \in Pointer, NEW f \in [Pointer -> Nat], NEW g \in [Pointer -> Nat],
               \A y \in Pointer : Outside(t, D)[y] < Outside(t, D)[m] => f[y] = g[y]
        PROVE  G[m][f] = G[m][g]
    <3>1. m # NULL => f[t.parent[m]] = g[t.parent[m]]
      BY <2>1, ParentIsOutside, Nodes
    <3> QED
      BY <3>1
  <2> QED
    BY <2>1 DEF Decreasing
<1>4. \E f : Solves(f, Pointer, Nat, G)
  <2> HIDE DEF G
  <2> QED
    BY <1>2, <1>3, ParentIsOutside, Recursion
<1>5. PICK e : Solves(e, Pointer, Nat, G)
  BY <1>4
<1>6. Is(e)
  <2>1. e \in [Pointer -> Nat] /\ \A m \in Pointer : e[m] = G[m][e]
    <3> HIDE DEF G
    <3> QED
      BY <1>5 DEF Solves
  <2>2. e = [m \in Pointer |-> e[m]]
    BY <2>1
  <2>3. \A m \in Pointer : e[m] = IF m = NULL THEN 0 ELSE 1 + e[t.parent[m]]
    BY <2>1
  <2> QED
    BY <2>2, <2>3
<1>7. \E f : Is(f)
  <2> HIDE DEF Is
  <2> QED
    BY <1>6
<1>8. Is(CHOOSE f : Is(f))
  <2> HIDE DEF Is
  <2> QED
    BY <1>7, Zenon
<1>9. PICK f : f = CHOOSE g : Is(g)
  OBVIOUS
<1>10. Is(f)
  <2> HIDE DEF Is
  <2> QED
    BY <1>8, <1>9
<1>11. \A n : DepthBy(t.parent, n) = f[n]
  BY <1>9, Zenon DEF DepthBy
<1>12. \A m \in Pointer : f[m] = IF m = NULL THEN 0 ELSE 1 + f[t.parent[m]]
  BY <1>10
<1>13. \A m \in Pointer : f[m] \in Nat
  <2> HIDE DEF Is, G
  <2> DEFINE T == {m \in Pointer : f[m] \notin Nat}
  <2> SUFFICES ASSUME T # {} PROVE FALSE
    OBVIOUS
  <2>1. PICK n \in T : \A c \in Pointer : Outside(t, D)[c] < Outside(t, D)[n] => c \notin T
    <3>1. T \in SUBSET Pointer /\ T # {}
      OBVIOUS
    <3> HIDE DEF T
    <3> QED
      BY <3>1, ParentIsOutside, LeastByMeasure
  <2>2. n # NULL
    BY <1>12
  <2>3. f[t.parent[n]] \in Nat
    BY <2>1, <2>2, ParentIsOutside, Nodes
  <2> QED
    BY <1>12, <2>2, <2>3
<1> QED
  BY <1>11, <1>12, <1>13, Nodes

LEMMA RemainingIs ==
  /\ Remaining = IF pc = "insert_color" /\ IsRed(tree, tree.parent[elm]) THEN DepthBy(tree.parent, elm)
                 ELSE IF Deficient THEN 1 + DepthBy(tree.parent, up) ELSE 0
  /\ Remaining' = IF pc' = "insert_color" /\ IsRed(tree', tree'.parent[elm'])
                  THEN DepthBy(tree'.parent, elm')
                  ELSE IF Deficient' THEN 1 + DepthBy(tree'.parent, up') ELSE 0
<1>1. \A n : Depth(n) = DepthBy(tree.parent, n)
  BY Zenon DEF Depth, DepthBy
<1>2. Depth(elm)' = DepthBy(tree'.parent, elm') /\ Depth(up)' = DepthBy(tree'.parent, up')
  BY Zenon DEF Depth, DepthBy
<1>3. Remaining = IF pc = "insert_color" /\ IsRed(tree, tree.parent[elm]) THEN Depth(elm)
                  ELSE IF Deficient THEN 1 + Depth(up) ELSE 0
  BY DEF Remaining
<1>4. Remaining' = IF pc' = "insert_color" /\ IsRed(tree', tree'.parent[elm']) THEN Depth(elm)'
                   ELSE IF Deficient' THEN 1 + Depth(up)' ELSE 0
  BY DEF Remaining, IsRed
<1> QED
  BY <1>1, <1>2, <1>3, <1>4

(* Each iteration ends the loop or goes on further up.                        *)
LEMMA LoopStep ==
  ASSUME RBInv, Loop, pc' # "idle"
  PROVE  Remaining' < Remaining
<1>1. PICK D : IsTree(tree, D)
  BY HasTree
<1>2. /\ \A n \in Pointer : DepthBy(tree.parent, n) \in Nat
      /\ \A n \in Node : DepthBy(tree.parent, n) = 1 + DepthBy(tree.parent, tree.parent[n])
  BY <1>1, DepthIs
<1>3. \A n \in Node : tree.parent[n] \in Pointer
  BY <1>1, TreeFields DEF IsTree
<1>4. CASE InsertRecolor
  <2>1. pc = "insert_color" /\ pc' = "insert_color" /\ IsRed(tree, tree.parent[elm])
    BY <1>4 DEF InsertRecolor
  <2>2. Inserting(tree, elm)
    BY <2>1 DEF RBInv
  <2>3. /\ SameShape(tree, tree') /\ elm' = tree.parent[tree.parent[elm]]
        /\ elm \in Node /\ tree.parent[elm] \in Node /\ elm' \in Node
    BY <1>4, <2>2, RecolorStep
  <2>4. tree'.parent = tree.parent
    BY <2>3 DEF SameShape
  <2>5. /\ DepthBy(tree.parent, elm') \in Nat
        /\ DepthBy(tree.parent, elm) = 2 + DepthBy(tree.parent, elm')
    BY <1>2, <2>3, Nodes
  <2>6. ~ Deficient'
    BY <2>1 DEF Deficient
  <2>7. Remaining = DepthBy(tree.parent, elm)
    BY <2>1, RemainingIs
  <2>8. Remaining' \in {0, DepthBy(tree.parent, elm')}
    BY <2>4, <2>6, RemainingIs
  <2> QED
    BY <2>5, <2>7, <2>8
<1>5. CASE InsertRotate
  <2>1. pc = "insert_color" /\ pc' = "insert_color" /\ IsRed(tree, tree.parent[elm])
    BY <1>5 DEF InsertRotate
  <2>2. Inserting(tree, elm)
    BY <2>1 DEF RBInv
  <2>3. ~ IsRed(tree', tree'.parent[elm'])
    BY <1>5, <2>2, InsertRotateStep
  <2>4. ~ Deficient'
    BY <2>1 DEF Deficient
  <2>5. elm \in Node
    BY <2>2 DEF Inserting, Members
  <2>6. Remaining = DepthBy(tree.parent, elm) /\ Remaining' = 0
    BY <2>1, <2>3, <2>4, RemainingIs
  <2> QED
    BY <1>2, <1>3, <2>5, <2>6
<1>6. CASE RemoveUpwards
  <2>1. Deficient /\ pc = "remove_color" /\ pc' = "remove_color"
    BY <1>6 DEF RemoveUpwards, Deficient
  <2>2. Removing(tree, elm, up)
    BY <2>1 DEF RBInv
  <2>3. /\ elm' = up /\ up \in Node /\ up' = tree'.parent[up]
        /\ IsRed(tree', up) \/ SameShape(tree, tree')
    BY <1>6, <2>2, UpwardsStep
  <2>4. Remaining = 1 + DepthBy(tree.parent, up)
    BY <2>1, RemainingIs
  <2>5. CASE IsRed(tree', up)
    <3>1. ~ Deficient'
      BY <2>3, <2>5 DEF Deficient, IsRed
    <3>2. Remaining' = 0
      BY <2>1, <3>1, RemainingIs
    <3> QED
      BY <1>2, <2>3, <2>4, <3>2, Nodes
  <2>6. CASE SameShape(tree, tree')
    <3>1. tree'.parent = tree.parent
      BY <2>6 DEF SameShape
    <3>2. Remaining' \in {0, 1 + DepthBy(tree.parent, up')}
      BY <2>1, <3>1, RemainingIs
    <3>3. up' = tree.parent[up]
      BY <2>3, <3>1
    <3> QED
      BY <1>2, <1>3, <2>3, <2>4, <3>2, <3>3
  <2> QED
    BY <2>3, <2>5, <2>6
<1>7. CASE RemoveRotate
  <2>1. Deficient /\ pc = "remove_color" /\ pc' = "remove_color"
    BY <1>7 DEF RemoveRotate, Deficient
  <2>2. Removing(tree, elm, up)
    BY <2>1 DEF RBInv
  <2>3. elm' = tree'.root
    BY <1>7, <2>2, RemoveRotateStep
  <2>4. ~ Deficient'
    BY <2>3 DEF Deficient
  <2>5. up \in Node
    BY <2>1, <2>2 DEF Removing, Deficient, Members
  <2>6. Remaining = 1 + DepthBy(tree.parent, up) /\ Remaining' = 0
    BY <2>1, <2>4, RemainingIs
  <2> QED
    BY <1>2, <2>5, <2>6, Nodes
<1> QED
  BY <1>4, <1>5, <1>6, <1>7 DEF Loop, InsertDone, RemoveDone

(* The loops of RB_INSERT_COLOR and RB_REMOVE_COLOR (tree.h:402, 448) end: each *)
(* iteration is the last or leaves fewer to go, in a tree of any size.        *)
THEOREM RBLoopsEnd == Spec => LoopsEnd
<1>1. RBInv /\ [Next]_vars => [Loop /\ pc' # "idle" => Remaining' < Remaining]_vars
  BY LoopStep
<1> QED
  BY <1>1, RBInvariant, PTL DEF Spec, LoopsEnd

(* Elements of one tree have different keys.                                 *)
LEMMA KeysDiffer ==
  ASSUME NEW t, NEW D, IsTree(t, D), NEW a \in Members(t), NEW b \in Members(t), a # b
  PROVE  Key[a] # Key[b]
<1>1. a \in Node /\ b \in Node
  BY DEF Members
<1>2. CASE a \notin D[b]
  <2>1. PICK s \in Sides : \A m \in D[b] : OnSide(Key[a], m, s)
    BY <1>2, Beside
  <2>2. b \in D[b]
    BY <1>1, SidesOther, SubtreeOf
  <2> QED
    BY <2>1, <2>2 DEF OnSide
<1>3. CASE a \in D[b]
  <2>1. PICK s \in Sides : a \in D[t.child[s][b]]
    BY <1>1, <1>3, SidesOther DEF IsTree, Subtrees
  <2>2. OnSide(Key[a], b, s)
    BY <1>1, <2>1 DEF IsTree, Ordered
  <2> QED
    BY <2>2 DEF OnSide
<1> QED
  BY <1>2, <1>3

LEMMA LeastIs ==
  ASSUME NEW S \in SUBSET Node, \A a, b \in S : a # b => Key[a] # Key[b],
         NEW x \in S
  PROVE  /\ (\A m \in S : Key[x] <= Key[m]) => Elements!Least(S) = x
         /\ (\A m \in S : Key[m] <= Key[x]) => Elements!Greatest(S) = x
<1>0. \A m \in S : Key[m] \in Int
  BY Nodes
<1>1. ASSUME \A m \in S : Key[x] <= Key[m] PROVE Elements!Least(S) = x
  <2> DEFINE P(n) == \A m \in S : Key[n] <= Key[m]
  <2>1. \A n \in S : P(n) => n = x
    BY <1>0, <1>1
  <2>2. P(x)
    BY <1>1
  <2>3. (CHOOSE n \in S : P(n)) = x
    <3> HIDE DEF P
    <3> QED
      BY <2>1, <2>2
  <2> QED
    BY <2>3 DEF Elements!Least
<1>2. ASSUME \A m \in S : Key[m] <= Key[x] PROVE Elements!Greatest(S) = x
  <2> DEFINE P(n) == \A m \in S : Key[m] <= Key[n]
  <2>1. \A n \in S : P(n) => n = x
    BY <1>0, <1>2
  <2>2. P(x)
    BY <1>2
  <2>3. (CHOOSE n \in S : P(n)) = x
    <3> HIDE DEF P
    <3> QED
      BY <2>1, <2>2
  <2> QED
    BY <2>3 DEF Elements!Greatest
<1> QED
  BY <1>1, <1>2

(* The ways down are typed: on which subtrees a key k can be.                 *)
LEMMA OnTheWay ==
  ASSUME NEW t, NEW D, IsTree(t, D), NEW k \in Int, NEW n \in Node
  PROVE  LET c == t.child[Side(k, n)][n]
             o == t.child[Other(Side(k, n))][n]
         IN /\ c \in Pointer /\ Size(D)[c] < Size(D)[n]
            /\ D[n] = {n} \cup D[c] \cup D[o] /\ D[n] \in SUBSET Node
            /\ k < Key[n] => /\ \A m \in D[c] : Key[m] < Key[n]
                             /\ \A m \in D[o] : Key[n] < Key[m]
            /\ ~ k < Key[n] => /\ \A m \in D[c] : Key[n] < Key[m]
                               /\ \A m \in D[o] : Key[m] < Key[n]
<1>1. PICK s, c, o : s = Side(k, n) /\ c = t.child[s][n] /\ o = t.child[Other(s)][n]
  OBVIOUS
<1>2. s \in Sides /\ Other(s) \in Sides
  BY <1>1, SideIn, SidesOther
<1>3. c \in Pointer /\ Size(D)[c] < Size(D)[n] /\ D[n] \in SUBSET Node
  BY <1>1, <1>2, SizeDecreases, SubtreeOf
<1>4. D[n] = {n} \cup D[c] \cup D[o]
  BY <1>1, <1>2 DEF IsTree, Subtrees
<1>5. /\ \A m \in D[c] : OnSide(Key[m], n, s)
      /\ \A m \in D[o] : OnSide(Key[m], n, Other(s))
  BY <1>1, <1>2 DEF IsTree, Ordered
<1>6. \A m \in D[n] : Key[m] \in Int
  BY <1>3, Nodes
<1>7. s = IF k < Key[n] THEN "left" ELSE "right"
  BY <1>1 DEF Side
<1>8. Key[n] \in Int
  BY Nodes
<1>9. /\ \A m \in D[c] : Key[m] # Key[n] /\ (Key[m] < Key[n] <=> s = "left")
      /\ \A m \in D[o] : Key[m] # Key[n] /\ (Key[m] < Key[n] <=> s = "right")
  BY <1>2, <1>5 DEF OnSide, Side, Sides, Other
<1>10. /\ \A m \in D[c] : Key[m] \in Int
       /\ \A m \in D[o] : Key[m] \in Int
  BY <1>4, <1>6
<1>11. ASSUME k < Key[n]
       PROVE  /\ \A m \in D[c] : Key[m] < Key[n]
              /\ \A m \in D[o] : Key[n] < Key[m]
  <2>1. s = "left"
    BY <1>7, <1>11
  <2> QED
    BY <2>1, <1>8, <1>9, <1>10
<1>12. ASSUME ~ k < Key[n]
       PROVE  /\ \A m \in D[c] : Key[n] < Key[m]
              /\ \A m \in D[o] : Key[m] < Key[n]
  <2>1. s = "right"
    BY <1>7, <1>12
  <2> QED
    BY <2>1, <1>8, <1>9, <1>10
<1> QED
  BY <1>1, <1>3, <1>4, <1>11, <1>12, Zenon

-----------------------------------------------------------------------------
Found(D, n, k, r) ==
  \/ r = NULL /\ \A m \in D[n] : Key[m] # k
  \/ r \in D[n] /\ Key[r] = k

LEMMA FindFinds ==
  ASSUME NEW t, NEW D, IsTree(t, D), NEW k \in Int
  PROVE  Found(D, t.root, k, Find(t, k))
<1> DEFINE Is(f) == f = [n \in Pointer |->
                           IF n = NULL THEN NULL
                           ELSE IF Key[n] = k THEN n ELSE f[t.child[Side(k, n)][n]]]
           G == [n \in Pointer |-> [f \in [Pointer -> Pointer] |->
                   IF n = NULL THEN NULL
                   ELSE IF Key[n] = k THEN n ELSE f[t.child[Side(k, n)][n]]]]
<1>0. /\ t.root \in Pointer /\ D \in [Pointer -> SUBSET Node] /\ D[NULL] = {}
      /\ \A n \in Node : t.child[Side(k, n)][n] \in Pointer
                         /\ Size(D)[t.child[Side(k, n)][n]] < Size(D)[n]
  BY TreeFields, OnTheWay DEF IsTree, Subtrees
<1>1. \A n \in Pointer, f \in [Pointer -> Pointer] :
        (IF n = NULL THEN NULL ELSE IF Key[n] = k THEN n ELSE f[t.child[Side(k, n)][n]]) \in Pointer
  BY <1>0, Nodes
<1>2. G \in [Pointer -> [[Pointer -> Pointer] -> Pointer]]
  BY <1>1
<1>3. Decreasing(Pointer, Pointer, Size(D), G)
  <2>1. ASSUME NEW m \in Pointer, NEW f \in [Pointer -> Pointer], NEW g \in [Pointer -> Pointer],
               \A y \in Pointer : Size(D)[y] < Size(D)[m] => f[y] = g[y]
        PROVE  G[m][f] = G[m][g]
    <3>1. m # NULL => f[t.child[Side(k, m)][m]] = g[t.child[Side(k, m)][m]]
      BY <1>0, <2>1, Nodes
    <3> QED
      BY <3>1
  <2> QED
    BY <2>1 DEF Decreasing
<1>4. \E f : Solves(f, Pointer, Pointer, G)
  <2> HIDE DEF G
  <2> QED
    BY <1>2, <1>3, SizeDecreases, Recursion, Nodes
<1>5. PICK e : Solves(e, Pointer, Pointer, G)
  BY <1>4
<1>6. Is(e)
  <2>1. e \in [Pointer -> Pointer] /\ \A m \in Pointer : e[m] = G[m][e]
    <3> HIDE DEF G
    <3> QED
      BY <1>5 DEF Solves
  <2>2. e = [m \in Pointer |-> e[m]]
    BY <2>1
  <2>3. \A n \in Pointer : e[n] = IF n = NULL THEN NULL
                                  ELSE IF Key[n] = k THEN n ELSE e[t.child[Side(k, n)][n]]
    BY <2>1
  <2> QED
    BY <2>2, <2>3
<1>7. \E f : Is(f)
  <2> HIDE DEF Is
  <2> QED
    BY <1>6
<1>8. Is(CHOOSE f : Is(f))
  <2> HIDE DEF Is
  <2> QED
    BY <1>7, Zenon
<1>9. PICK f : f = CHOOSE g : Is(g)
  OBVIOUS
<1>10. Is(f)
  <2> HIDE DEF Is
  <2> QED
    BY <1>8, <1>9
<1>11. Find(t, k) = f[t.root]
  BY <1>9, Zenon DEF Find
<1>12. \A n \in Pointer : f[n] = IF n = NULL THEN NULL
                                 ELSE IF Key[n] = k THEN n ELSE f[t.child[Side(k, n)][n]]
  BY <1>10
<1>13. \A n \in Pointer : Found(D, n, k, f[n])
  <2> HIDE DEF Is, G
  <2> DEFINE T == {m \in Pointer : ~ Found(D, m, k, f[m])}
  <2> SUFFICES ASSUME T # {} PROVE FALSE
    OBVIOUS
  <2>1. PICK n \in T : \A c \in Pointer : Size(D)[c] < Size(D)[n] => c \notin T
    <3>1. T \in SUBSET Pointer /\ T # {}
      OBVIOUS
    <3> HIDE DEF T
    <3> QED
      BY <3>1, SizeDecreases, LeastByMeasure
  <2>2. n # NULL
    BY <1>0, <1>12 DEF Found
  <2>3. n \in Node /\ n \in D[n]
    BY <2>2, Nodes, SidesOther, SubtreeOf
  <2>4. Key[n] # k
    BY <1>12, <2>2, <2>3 DEF Found
  <2>5. PICK c, o : c = t.child[Side(k, n)][n] /\ o = t.child[Other(Side(k, n))][n]
    OBVIOUS
  <2>6. c \in Pointer /\ Found(D, c, k, f[c]) /\ f[n] = f[c]
    BY <1>0, <1>12, <2>1, <2>2, <2>3, <2>4, <2>5
  <2>7. /\ D[n] = {n} \cup D[c] \cup D[o] /\ D[n] \in SUBSET Node
        /\ k < Key[n] => \A m \in D[o] : Key[n] < Key[m]
        /\ ~ k < Key[n] => \A m \in D[o] : Key[m] < Key[n]
    BY <2>3, <2>5, OnTheWay
  <2>8. \A m \in D[o] : Key[m] # k
    <3>1. \A m \in D[n] : Key[m] \in Int
      BY <2>7, Nodes
    <3>2. Key[n] \in Int
      BY <2>3, Nodes
    <3> QED
      BY <2>7, <3>1, <3>2
  <2>9. Found(D, n, k, f[n])
    BY <2>4, <2>6, <2>7, <2>8 DEF Found
  <2> QED
    BY <2>9
<1> QED
  BY <1>0, <1>11, <1>13

FoundFrom(D, n, k, r) ==
  \/ r = NULL /\ \A m \in D[n] : Key[m] < k
  \/ r \in D[n] /\ k <= Key[r] /\ \A m \in D[n] : k <= Key[m] => Key[r] <= Key[m]

LEMMA NFindFinds ==
  ASSUME NEW t, NEW D, IsTree(t, D), NEW k \in Int
  PROVE  FoundFrom(D, t.root, k, NFind(t, k))
<1> DEFINE Is(f) == f = [n \in Pointer |->
                           IF n = NULL THEN NULL
                           ELSE IF Key[n] = k THEN n
                           ELSE LET res == f[t.child[Side(k, n)][n]]
                                IN IF res = NULL /\ k < Key[n] THEN n ELSE res]
           G == [n \in Pointer |-> [f \in [Pointer -> Pointer] |->
                   IF n = NULL THEN NULL
                   ELSE IF Key[n] = k THEN n
                   ELSE IF f[t.child[Side(k, n)][n]] = NULL /\ k < Key[n] THEN n
                        ELSE f[t.child[Side(k, n)][n]]]]
<1>0. /\ t.root \in Pointer /\ D \in [Pointer -> SUBSET Node] /\ D[NULL] = {}
      /\ \A n \in Node : t.child[Side(k, n)][n] \in Pointer
                         /\ Size(D)[t.child[Side(k, n)][n]] < Size(D)[n]
  BY TreeFields, OnTheWay DEF IsTree, Subtrees
<1>1. \A n \in Pointer, f \in [Pointer -> Pointer] :
        (IF n = NULL THEN NULL
         ELSE IF Key[n] = k THEN n
         ELSE IF f[t.child[Side(k, n)][n]] = NULL /\ k < Key[n] THEN n
              ELSE f[t.child[Side(k, n)][n]]) \in Pointer
  BY <1>0, Nodes
<1>2. G \in [Pointer -> [[Pointer -> Pointer] -> Pointer]]
  BY <1>1
<1>3. Decreasing(Pointer, Pointer, Size(D), G)
  <2>1. ASSUME NEW m \in Pointer, NEW f \in [Pointer -> Pointer], NEW g \in [Pointer -> Pointer],
               \A y \in Pointer : Size(D)[y] < Size(D)[m] => f[y] = g[y]
        PROVE  G[m][f] = G[m][g]
    <3>1. m # NULL => f[t.child[Side(k, m)][m]] = g[t.child[Side(k, m)][m]]
      BY <1>0, <2>1, Nodes
    <3> QED
      BY <3>1
  <2> QED
    BY <2>1 DEF Decreasing
<1>4. \E f : Solves(f, Pointer, Pointer, G)
  <2> HIDE DEF G
  <2> QED
    BY <1>2, <1>3, SizeDecreases, Recursion, Nodes
<1>5. PICK e : Solves(e, Pointer, Pointer, G)
  BY <1>4
<1>6. Is(e)
  <2>1. e \in [Pointer -> Pointer] /\ \A m \in Pointer : e[m] = G[m][e]
    <3> HIDE DEF G
    <3> QED
      BY <1>5 DEF Solves
  <2>2. e = [m \in Pointer |-> e[m]]
    BY <2>1
  <2>3. \A n \in Pointer : e[n] = IF n = NULL THEN NULL
                                  ELSE IF Key[n] = k THEN n
                                  ELSE LET res == e[t.child[Side(k, n)][n]]
                                       IN IF res = NULL /\ k < Key[n] THEN n ELSE res
    BY <2>1
  <2> QED
    BY <2>2, <2>3
<1>7. \E f : Is(f)
  <2> HIDE DEF Is
  <2> QED
    BY <1>6
<1>8. Is(CHOOSE f : Is(f))
  <2> HIDE DEF Is
  <2> QED
    BY <1>7, Zenon
<1>9. PICK f : f = CHOOSE g : Is(g)
  OBVIOUS
<1>10. Is(f)
  <2> HIDE DEF Is
  <2> QED
    BY <1>8, <1>9
<1>11. NFind(t, k) = f[t.root]
  BY <1>9, Zenon DEF NFind
<1>12. \A n \in Pointer : f[n] = IF n = NULL THEN NULL
                                 ELSE IF Key[n] = k THEN n
                                 ELSE IF f[t.child[Side(k, n)][n]] = NULL /\ k < Key[n] THEN n
                                      ELSE f[t.child[Side(k, n)][n]]
  BY <1>10
<1>13. \A n \in Pointer : FoundFrom(D, n, k, f[n])
  <2> HIDE DEF Is, G
  <2> DEFINE T == {m \in Pointer : ~ FoundFrom(D, m, k, f[m])}
  <2> SUFFICES ASSUME T # {} PROVE FALSE
    OBVIOUS
  <2>1. PICK n \in T : \A c \in Pointer : Size(D)[c] < Size(D)[n] => c \notin T
    <3>1. T \in SUBSET Pointer /\ T # {}
      OBVIOUS
    <3> HIDE DEF T
    <3> QED
      BY <3>1, SizeDecreases, LeastByMeasure
  <2>2. n # NULL
    BY <1>0, <1>12 DEF FoundFrom
  <2>3. n \in Node /\ n \in D[n] /\ Key[n] \in Int
    BY <2>2, Nodes, SidesOther, SubtreeOf
  <2>4. Key[n] # k
    <3> SUFFICES ASSUME Key[n] = k PROVE FALSE
      OBVIOUS
    <3>1. f[n] = n
      BY <1>12, <2>2
    <3>2. FoundFrom(D, n, k, n)
      BY <2>3 DEF FoundFrom
    <3> QED
      BY <3>1, <3>2
  <2>5. PICK c, o : c = t.child[Side(k, n)][n] /\ o = t.child[Other(Side(k, n))][n]
    OBVIOUS
  <2>6. c \in Pointer /\ FoundFrom(D, c, k, f[c])
        /\ f[n] = IF f[c] = NULL /\ k < Key[n] THEN n ELSE f[c]
    BY <1>0, <1>12, <2>1, <2>2, <2>3, <2>4, <2>5
  <2>7. /\ D[n] = {n} \cup D[c] \cup D[o] /\ D[n] \in SUBSET Node
        /\ k < Key[n] => /\ \A m \in D[c] : Key[m] < Key[n]
                         /\ \A m \in D[o] : Key[n] < Key[m]
        /\ ~ k < Key[n] => /\ \A m \in D[c] : Key[n] < Key[m]
                           /\ \A m \in D[o] : Key[m] < Key[n]
    BY <2>3, <2>5, OnTheWay
  <2>8. \A m \in D[n] : Key[m] \in Int
    BY <2>7, Nodes
  <2>9. NULL \notin D[c]
    BY <2>7, Nodes
  <2>10. CASE k < Key[n] /\ f[c] = NULL
    <3>1. f[n] = n /\ \A m \in D[c] : Key[m] < k
      BY <2>6, <2>9, <2>10 DEF FoundFrom
    <3>2. \A m \in D[n] : k <= Key[m] => Key[n] <= Key[m]
      BY <2>3, <2>7, <2>8, <2>10, <3>1
    <3>3. FoundFrom(D, n, k, n)
      BY <2>3, <2>10, <3>2 DEF FoundFrom
    <3> QED
      BY <3>1, <3>3
  <2>11. CASE k < Key[n] /\ f[c] # NULL
    <3>1. f[n] = f[c] /\ f[c] \in D[c] /\ k <= Key[f[c]]
          /\ \A m \in D[c] : k <= Key[m] => Key[f[c]] <= Key[m]
      BY <2>6, <2>11 DEF FoundFrom
    <3>2. f[c] \in D[n] /\ Key[f[c]] \in Int /\ Key[f[c]] < Key[n]
      BY <2>7, <2>8, <2>11, <3>1
    <3>3. \A m \in D[n] : k <= Key[m] => Key[f[c]] <= Key[m]
      BY <2>3, <2>7, <2>8, <2>11, <3>1, <3>2
    <3>4. FoundFrom(D, n, k, f[c])
      BY <3>1, <3>2, <3>3 DEF FoundFrom
    <3> QED
      BY <3>1, <3>4
  <2>12. CASE ~ k < Key[n]
    <3>1. f[n] = f[c] /\ Key[n] < k /\ \A m \in D[o] : Key[m] < k
      BY <2>3, <2>4, <2>6, <2>7, <2>8, <2>12
    <3>2. \A m \in D[n] : k <= Key[m] => m \in D[c]
      BY <2>3, <2>7, <2>8, <3>1
    <3>3. FoundFrom(D, n, k, f[c])
      <4>1. CASE f[c] = NULL /\ \A m \in D[c] : Key[m] < k
        BY <2>7, <3>1, <4>1 DEF FoundFrom
      <4>2. CASE f[c] \in D[c] /\ k <= Key[f[c]] /\ \A m \in D[c] : k <= Key[m] => Key[f[c]] <= Key[m]
        BY <2>7, <3>2, <4>2 DEF FoundFrom
      <4> QED
        BY <2>6, <4>1, <4>2 DEF FoundFrom
    <3> QED
      BY <3>1, <3>3
  <2> QED
    BY <2>10, <2>11, <2>12
<1> QED
  BY <1>0, <1>11, <1>13

LEMMA RBSearchesAgree == RBInv => SearchesAgree
<1> SUFFICES ASSUME RBInv PROVE SearchesAgree
  OBVIOUS
<1>1. PICK D : IsTree(tree, D)
  BY HasTree
<1>2. /\ Content = Members(tree) /\ D[tree.root] = Members(tree) /\ tree \in Trees
      /\ Members(tree) \in SUBSET Node
      /\ \A a, b \in Members(tree) : a # b => Key[a] # Key[b]
  BY <1>1, ContentMembers, KeysDiffer DEF IsTree, Subtrees, Members
<1>3. \A m \in Members(tree) : Key[m] \in Int
  BY <1>2, Nodes
<1>4. ASSUME NEW k \in Keys PROVE Find(tree, k) = Elements!Least(Elements!At(Content, k))
  <2>1. k \in Int
    BY Nodes DEF Keys
  <2>2. PICK S, r : S = {n \in Content : Key[n] = k} /\ r = Find(tree, k)
    OBVIOUS
  <2>3. Elements!At(Content, k) = S
    BY <2>2 DEF Elements!At
  <2>4. Found(D, tree.root, k, r)
    BY <1>1, <2>1, <2>2, FindFinds
  <2>5. CASE r = NULL /\ \A m \in D[tree.root] : Key[m] # k
    <3>1. S = {}
      BY <1>2, <2>2, <2>5
    <3> QED
      BY <2>2, <2>3, <2>5, <3>1 DEF Elements!Least, Elements!NULL, NULL
  <2>6. CASE r \in D[tree.root] /\ Key[r] = k
    <3>1. r \in S /\ S \in SUBSET Node /\ \A m \in S : Key[r] <= Key[m]
      BY <1>2, <1>3, <2>1, <2>2, <2>6
    <3>2. \A a, b \in S : a # b => Key[a] # Key[b]
      BY <1>2, <2>2
    <3>3. Elements!Least(S) = r
      BY <3>1, <3>2, LeastIs
    <3> QED
      BY <2>2, <2>3, <3>3
  <2> QED
    BY <2>4, <2>5, <2>6 DEF Found
<1>5. ASSUME NEW k \in Keys PROVE NFind(tree, k) = Elements!Least(Elements!From(Content, k))
  <2>1. k \in Int
    BY Nodes DEF Keys
  <2>2. PICK S, r : S = {n \in Content : k <= Key[n]} /\ r = NFind(tree, k)
    OBVIOUS
  <2>3. Elements!From(Content, k) = S
    BY <2>2 DEF Elements!From
  <2>4. FoundFrom(D, tree.root, k, r)
    BY <1>1, <2>1, <2>2, NFindFinds
  <2>5. CASE r = NULL /\ \A m \in D[tree.root] : Key[m] < k
    <3>1. S = {}
      BY <1>2, <1>3, <2>1, <2>2, <2>5
    <3> QED
      BY <2>2, <2>3, <2>5, <3>1 DEF Elements!Least, Elements!NULL, NULL
  <2>6. CASE r \in D[tree.root] /\ k <= Key[r] /\ \A m \in D[tree.root] : k <= Key[m] => Key[r] <= Key[m]
    <3>1. r \in S /\ S \in SUBSET Node /\ \A m \in S : Key[r] <= Key[m]
      BY <1>2, <1>3, <2>1, <2>2, <2>6
    <3>2. \A a, b \in S : a # b => Key[a] # Key[b]
      BY <1>2, <2>2
    <3>3. Elements!Least(S) = r
      BY <3>1, <3>2, LeastIs
    <3> QED
      BY <2>2, <2>3, <3>3
  <2> QED
    BY <2>4, <2>5, <2>6 DEF FoundFrom
<1>6. MinMax(tree, "left") = Elements!Least(Content) /\ MinMax(tree, "right") = Elements!Greatest(Content)
  <2>1. CASE tree.root = NULL
    <3>1. Content = {}
      BY <1>1, <1>2, <2>1, TreeMembers
    <3> QED
      BY <2>1, <3>1 DEF MinMax, Elements!Least, Elements!Greatest, Elements!NULL, NULL
  <2>2. CASE tree.root # NULL
    <3>1. tree.root \in Node
      BY <1>1, <2>2, TreeMembers
    <3>2. PICK a, b : a = Extreme(tree, tree.root, "left") /\ b = Extreme(tree, tree.root, "right")
      OBVIOUS
    <3>3. MinMax(tree, "left") = a /\ MinMax(tree, "right") = b
      BY <2>2, <3>2 DEF MinMax
    <3>4. a \in Members(tree) /\ \A m \in Members(tree) : m # a => OnSide(Key[m], a, "right")
      <4>1. Other("left") = "right"
        BY DEF Other
      <4> QED
        BY <1>1, <1>2, <3>1, <3>2, <4>1, SidesOther, ExtremeFinds
    <3>5. b \in Members(tree) /\ \A m \in Members(tree) : m # b => OnSide(Key[m], b, "left")
      <4>1. Other("right") = "left"
        BY DEF Other
      <4> QED
        BY <1>1, <1>2, <3>1, <3>2, <4>1, SidesOther, ExtremeFinds
    <3>6. \A m \in Members(tree) : Key[a] <= Key[m] /\ Key[m] <= Key[b]
      BY <1>3, <3>4, <3>5 DEF OnSide, Side
    <3>7. Elements!Least(Members(tree)) = a /\ Elements!Greatest(Members(tree)) = b
      BY <1>2, <3>4, <3>5, <3>6, LeastIs
    <3> QED
      BY <1>2, <3>3, <3>7
  <2> QED
    BY <2>1, <2>2
<1> QED
  BY <1>4, <1>5, <1>6 DEF SearchesAgree

Beyond(t, n, s) == {m \in Members(t) : OnSide(Key[m], n, s)}

(* r is the first after n on the side s, among the elements of A.              *)
NextIn(A, n, s, r) ==
  \/ r = NULL /\ \A a \in A : ~ OnSide(Key[a], n, s)
  \/ /\ r \in A /\ OnSide(Key[r], n, s)
     /\ \A a \in A : OnSide(Key[a], n, s) /\ a # r => OnSide(Key[a], r, s)

ClimbIn(t, s) ==
  CHOOSE climb :
    climb = [m \in Node |-> LET p == t.parent[m]
                            IN IF p = NULL \/ t.child[s][p] # m THEN p ELSE climb[p]]

LEMMA ClimbIs ==
  ASSUME NEW t, NEW D, IsTree(t, D), NEW s \in Sides
  PROVE  \A m \in Node : ClimbIn(t, s)[m] =
           IF t.parent[m] = NULL \/ t.child[s][t.parent[m]] # m THEN t.parent[m]
           ELSE ClimbIn(t, s)[t.parent[m]]
<1> DEFINE Is(f) == f = [m \in Node |-> LET p == t.parent[m]
                                        IN IF p = NULL \/ t.child[s][p] # m THEN p ELSE f[p]]
           G == [m \in Pointer |-> [f \in [Pointer -> Pointer] |->
                   IF m = NULL THEN NULL
                   ELSE IF t.parent[m] = NULL \/ t.child[s][t.parent[m]] # m THEN t.parent[m]
                   ELSE f[t.parent[m]]]]
<1>0. \A m \in Node : t.parent[m] \in Pointer
  BY TreeFields DEF IsTree
<1>1. \A m \in Pointer, f \in [Pointer -> Pointer] :
        (IF m = NULL THEN NULL
         ELSE IF t.parent[m] = NULL \/ t.child[s][t.parent[m]] # m THEN t.parent[m]
         ELSE f[t.parent[m]]) \in Pointer
  BY <1>0, Nodes
<1>2. G \in [Pointer -> [[Pointer -> Pointer] -> Pointer]]
  BY <1>1
<1>3. Decreasing(Pointer, Pointer, Outside(t, D), G)
  <2>1. ASSUME NEW m \in Pointer, NEW f \in [Pointer -> Pointer], NEW g \in [Pointer -> Pointer],
               \A y \in Pointer : Outside(t, D)[y] < Outside(t, D)[m] => f[y] = g[y]
        PROVE  G[m][f] = G[m][g]
    <3>1. m # NULL => f[t.parent[m]] = g[t.parent[m]]
      BY <2>1, ParentIsOutside, Nodes
    <3> QED
      BY <3>1
  <2> QED
    BY <2>1 DEF Decreasing
<1>4. \E f : Solves(f, Pointer, Pointer, G)
  <2> HIDE DEF G
  <2> QED
    BY <1>2, <1>3, ParentIsOutside, Recursion, Nodes
<1>5. PICK e : Solves(e, Pointer, Pointer, G)
  BY <1>4
<1> DEFINE c == [m \in Node |-> e[m]]
<1>6. Is(c)
  <2>1. e \in [Pointer -> Pointer] /\ \A m \in Pointer : e[m] = G[m][e]
    <3> HIDE DEF G
    <3> QED
      BY <1>5 DEF Solves
  <2>2. \A m \in Node : e[m] = IF t.parent[m] = NULL \/ t.child[s][t.parent[m]] # m THEN t.parent[m]
                               ELSE e[t.parent[m]]
    BY <2>1, Nodes
  <2>3. \A m \in Node : t.parent[m] # NULL => c[t.parent[m]] = e[t.parent[m]]
    BY <1>0, Nodes
  <2>4. \A m \in Node : c[m] = IF t.parent[m] = NULL \/ t.child[s][t.parent[m]] # m THEN t.parent[m]
                               ELSE c[t.parent[m]]
    BY <2>2, <2>3
  <2>5. c = [m \in Node |-> c[m]]
    OBVIOUS
  <2> HIDE DEF c
  <2> QED
    BY <2>4, <2>5
<1>7. \E f : Is(f)
  <2> HIDE DEF Is, c
  <2> QED
    BY <1>6
<1>8. Is(CHOOSE f : Is(f))
  <2> HIDE DEF Is
  <2> QED
    BY <1>7, Zenon
<1>9. PICK f : f = CHOOSE g : Is(g)
  OBVIOUS
<1>10. Is(f)
  <2> HIDE DEF Is
  <2> QED
    BY <1>8, <1>9
<1>11. ClimbIn(t, s) = f
  BY <1>9, Zenon DEF ClimbIn
<1>12. \A m \in Node : f[m] = IF t.parent[m] = NULL \/ t.child[s][t.parent[m]] # m THEN t.parent[m]
                              ELSE f[t.parent[m]]
  BY <1>10
<1> QED
  BY <1>11, <1>12

(* Climbing finds the next among the elements that are not below.             *)
LEMMA ClimbFinds ==
  ASSUME NEW t, NEW D, IsTree(t, D), NEW s \in Sides
  PROVE  \A n \in Members(t) : NextIn(Members(t) \ D[n], n, s, ClimbIn(t, s)[n])
<1> DEFINE T == {n \in Pointer : n \in Members(t) /\ ~ NextIn(Members(t) \ D[n], n, s, ClimbIn(t, s)[n])}
<1> SUFFICES ASSUME T # {} PROVE FALSE
  BY Nodes DEF Members
<1>1. PICK n \in T : \A c \in Pointer : Outside(t, D)[c] < Outside(t, D)[n] => c \notin T
  <2>1. T \in SUBSET Pointer /\ T # {}
    OBVIOUS
  <2> HIDE DEF T
  <2> QED
    BY <2>1, ParentIsOutside, LeastByMeasure
<1>2. n \in Node /\ n \in Members(t)
  BY DEF Members
<1>3. PICK p : p = t.parent[n]
  OBVIOUS
<1>4. ClimbIn(t, s)[n] = IF p = NULL \/ t.child[s][p] # n THEN p ELSE ClimbIn(t, s)[p]
  BY <1>2, <1>3, ClimbIs
<1>5. CASE p = NULL
  <2>1. t.root = n
    BY <1>2, <1>3, <1>5 DEF Members, InTree
  <2>2. D[n] = Members(t)
    BY <2>1 DEF IsTree, Subtrees
  <2>3. NextIn(Members(t) \ D[n], n, s, p)
    BY <1>5, <2>2 DEF NextIn
  <2> QED
    BY <1>4, <1>5, <2>3
<1>6. CASE p # NULL
  <2>1. p \in Node /\ p \in Members(t) /\ p # n /\ p \in Pointer
    BY <1>2, <1>3, <1>6, TreeMembers, Nodes
  <2>2. PICK e \in Sides : t.child[e][p] = n
    BY <1>2, <1>3, <1>6, TreeMembers
  <2>3. /\ D[p] = {p} \cup D[n] \cup D[t.child[Other(e)][p]] /\ D[n] \subseteq D[p] /\ p \notin D[n]
        /\ n \in D[n] /\ p \in D[p] /\ D[n] \cap D[t.child[Other(e)][p]] = {}
        /\ D[p] \in SUBSET Node
    <3>1. /\ D[t.child[e][p]] \subseteq D[p] /\ p \notin D[t.child[e][p]]
          /\ D[t.child[e][p]] \cap D[t.child[Other(e)][p]] = {}
          /\ p \in D[p] /\ D[p] \in SUBSET Node
      BY <2>1, <2>2, SubtreeOf
    <3>2. D[p] = {p} \cup D[t.child[e][p]] \cup D[t.child[Other(e)][p]]
      BY <2>1, <2>2 DEF IsTree, Subtrees
    <3>3. n \in D[n]
      BY <1>2, SidesOther, SubtreeOf
    <3> QED
      BY <2>2, <3>1, <3>2, <3>3
  <2>4. OnSide(Key[n], p, e) /\ OnSide(Key[p], n, Other(e))
    <3>1. OnSide(Key[n], p, e)
      BY <2>1, <2>2, <2>3 DEF IsTree, Ordered
    <3> QED
      BY <1>2, <2>1, <2>2, <3>1, SidesOfKeys
  <2>5. \A a \in D[t.child[Other(e)][p]] : OnSide(Key[a], p, Other(e)) /\ OnSide(Key[a], n, Other(e))
    <3>1. \A a \in D[t.child[Other(e)][p]] : OnSide(Key[a], p, Other(e)) /\ a \in Node
      BY <2>1, <2>2, <2>3, SidesOther DEF IsTree, Ordered
    <3>2. Other(e) \in Sides
      BY <2>2, SidesOther
    <3> QED
      BY <1>2, <2>1, <2>4, <3>1, <3>2, SidesOfKeys
  <2>6. ASSUME NEW a \in Members(t), a \notin D[p]
        PROVE  \A f \in Sides : OnSide(Key[a], n, f) <=> OnSide(Key[a], p, f)
    <3>1. PICK g \in Sides : \A b \in D[p] : OnSide(Key[a], b, g)
      BY <2>1, <2>6, Beside
    <3>2. a \in Node
      BY DEF Members
    <3>3. OnSide(Key[a], n, g) /\ OnSide(Key[a], p, g)
      BY <2>3, <3>1
    <3>4. \A f \in Sides : f = g \/ f = Other(g)
      BY <3>1, SidesOther
    <3> QED
      BY <1>2, <2>1, <3>1, <3>2, <3>3, <3>4, SidesOfKeys
  <2>7. \A a \in Members(t) \ D[n] : a = p \/ a \in D[t.child[Other(e)][p]] \/ a \notin D[p]
    BY <2>3
  <2>8. CASE e # s
    <3>1. Other(e) = s /\ t.child[s][p] # n
      <4>1. Other(e) = s
        BY <2>2, <2>8, SidesOther
      <4>2. t.child[e][p] # NULL
        BY <1>2, <2>2, Nodes
      <4>3. t.child[e][p] # t.child[Other(e)][p]
        BY <2>1, <2>2, <4>2, TreeMembers
      <4> QED
        BY <2>2, <4>1, <4>3
    <3>2. ClimbIn(t, s)[n] = p
      BY <1>4, <3>1
    <3>3. p \in Members(t) \ D[n] /\ OnSide(Key[p], n, s)
      BY <2>1, <2>3, <2>4, <3>1
    <3>4. \A a \in Members(t) \ D[n] : OnSide(Key[a], n, s) /\ a # p => OnSide(Key[a], p, s)
      BY <2>5, <2>6, <2>7, <3>1
    <3> QED
      BY <3>2, <3>3, <3>4 DEF NextIn
  <2>9. CASE e = s
    <3>1. PICK r : r = ClimbIn(t, s)[n]
      OBVIOUS
    <3>2. r = ClimbIn(t, s)[p]
      BY <1>4, <1>6, <2>2, <2>9, <3>1
    <3>3. NextIn(Members(t) \ D[p], p, s, r)
      <4>1. Outside(t, D)[p] < Outside(t, D)[n]
        BY <1>2, <1>3, ParentIsOutside
      <4> QED
        BY <1>1, <2>1, <3>2, <4>1
    <3>4. ASSUME NEW a \in Members(t) \ D[n], OnSide(Key[a], n, s)
          PROVE  a \notin D[p] /\ OnSide(Key[a], p, s)
      <4>1. a # p /\ a \notin D[t.child[Other(e)][p]]
        <5>1. a \in Node
          BY DEF Members
        <5>2. ~ OnSide(Key[a], n, Other(s))
          BY <1>2, <3>4, <5>1, SidesOfKeys
        <5> QED
          BY <2>4, <2>5, <2>9, <5>2
      <4> QED
        BY <2>6, <2>7, <3>4, <4>1
    <3>5. CASE r = NULL /\ \A a \in Members(t) \ D[p] : ~ OnSide(Key[a], p, s)
      <4>1. NextIn(Members(t) \ D[n], n, s, r)
        BY <3>4, <3>5 DEF NextIn
      <4> QED
        BY <3>1, <4>1
    <3>6. CASE /\ r \in Members(t) \ D[p] /\ OnSide(Key[r], p, s)
               /\ \A a \in Members(t) \ D[p] : OnSide(Key[a], p, s) /\ a # r => OnSide(Key[a], r, s)
      <4>1. r \in Members(t) \ D[n] /\ OnSide(Key[r], n, s)
        BY <2>3, <2>6, <3>6
      <4>2. NextIn(Members(t) \ D[n], n, s, r)
        BY <3>4, <3>6, <4>1 DEF NextIn
      <4> QED
        BY <3>1, <4>2
    <3> QED
      BY <3>3, <3>5, <3>6 DEF NextIn
  <2> QED
    BY <2>8, <2>9
<1> QED
  BY <1>5, <1>6

(* RB_NEXT and RB_PREV.                                                     *)
LEMMA StepFinds ==
  ASSUME NEW t, NEW D, IsTree(t, D), NEW s \in Sides, NEW n \in Node
  PROVE  /\ n \in Members(t) => NextIn(Members(t), n, s, Step(t, n, s))
         /\ n \notin Members(t) => Step(t, n, s) = NULL
<1>1. Step(t, n, s) = IF t.child[s][n] # NULL THEN Extreme(t, t.child[s][n], Other(s))
                      ELSE ClimbIn(t, s)[n]
  BY Zenon DEF Step, ClimbIn
<1>2. CASE n \notin Members(t)
  <2>1. t.parent[n] = NULL /\ t.child[s][n] = NULL
    BY <1>2, OutsideAlone
  <2>2. ClimbIn(t, s)[n] = NULL
    BY <2>1, ClimbIs
  <2> QED
    BY <1>1, <1>2, <2>1, <2>2
<1>3. CASE n \in Members(t)
  <2>1. PICK c, r : c = t.child[s][n] /\ r = Step(t, n, s)
    OBVIOUS
  <2>2. /\ D[n] = {n} \cup D[c] \cup D[t.child[Other(s)][n]] /\ D[c] \subseteq D[n]
        /\ D[n] \in SUBSET Node /\ n \in D[n]
    <3>1. D[n] = {n} \cup D[t.child[s][n]] \cup D[t.child[Other(s)][n]]
      BY DEF IsTree, Subtrees
    <3>2. D[t.child[s][n]] \subseteq D[n] /\ D[n] \in SUBSET Node /\ n \in D[n]
      BY SubtreeOf
    <3> QED
      BY <2>1, <3>1, <3>2
  <2>3. D[n] \subseteq Members(t)
    <3>1. t.root \in Pointer /\ D[t.root] = Members(t)
      BY TreeFields DEF IsTree, Subtrees
    <3> QED
      BY <1>3, <3>1, SubtreesNest
  <2>4. \A a \in D[n] : OnSide(Key[a], n, s) => a \in D[c]
    <3>1. \A a \in D[t.child[Other(s)][n]] : OnSide(Key[a], n, Other(s)) /\ a \in Node
      BY <2>2, SidesOther DEF IsTree, Ordered
    <3> QED
      BY <2>2, <3>1, SidesOfKeys
  <2>5. CASE c = NULL
    <3>1. r = ClimbIn(t, s)[n]
      BY <1>1, <2>1, <2>5
    <3>2. NextIn(Members(t) \ D[n], n, s, r)
      BY <1>3, <3>1, ClimbFinds
    <3>3. D[c] = {}
      BY <2>5 DEF IsTree, Subtrees
    <3>4. \A a \in Members(t) : OnSide(Key[a], n, s) => a \in Members(t) \ D[n]
      BY <2>4, <3>3
    <3>5. NextIn(Members(t), n, s, r)
      BY <3>2, <3>4 DEF NextIn
    <3> QED
      BY <1>3, <2>1, <3>5
  <2>6. CASE c # NULL
    <3>1. c \in Node /\ r = Extreme(t, c, Other(s)) /\ Other(s) \in Sides /\ Other(Other(s)) = s
      <4>1. c \in Node
        BY <2>1, <2>6, TreeMembers
      <4> QED
        BY <1>1, <2>1, <2>6, <4>1, SidesOther
    <3>2. r \in D[c] /\ \A m \in D[c] : m # r => OnSide(Key[m], r, s)
      BY <3>1, ExtremeFinds
    <3>3. OnSide(Key[r], n, s)
      BY <2>1, <3>2 DEF IsTree, Ordered
    <3>4. ASSUME NEW a \in Members(t), OnSide(Key[a], n, s), a # r
          PROVE  OnSide(Key[a], r, s)
      <4>1. CASE a \in D[n]
        BY <2>4, <3>2, <3>4, <4>1
      <4>2. CASE a \notin D[n]
        <5>1. PICK g \in Sides : \A b \in D[n] : OnSide(Key[a], b, g)
          BY <1>3, <4>2, Beside
        <5>2. g = s
          <6>1. OnSide(Key[a], n, g) /\ a \in Node
            BY <2>2, <5>1 DEF Members
          <6>2. g = s \/ g = Other(s)
            BY <5>1, SidesOther
          <6> QED
            BY <3>4, <6>1, <6>2, SidesOfKeys
        <5> QED
          BY <2>2, <3>2, <5>1, <5>2
      <4> QED
        BY <4>1, <4>2
    <3>5. NextIn(Members(t), n, s, r)
      BY <2>2, <2>3, <3>2, <3>3, <3>4 DEF NextIn
    <3> QED
      BY <1>3, <2>1, <3>5
  <2> QED
    BY <2>5, <2>6
<1> QED
  BY <1>2, <1>3

(* n, and what is beyond it.                                                *)
From(t, n, s) == IF n = NULL THEN {} ELSE IF n \in Members(t) THEN {n} \cup Beyond(t, n, s) ELSE {n}

Ahead(t, s) == [n \in Pointer |-> Cardinality(From(t, n, s))]

LEMMA StepAhead ==
  ASSUME NEW t, NEW D, IsTree(t, D), NEW s \in Sides
  PROVE  /\ \A n \in Pointer : IsFiniteSet(From(t, n, s)) /\ Cardinality(From(t, n, s)) \in Nat
         /\ Ahead(t, s) \in [Pointer -> Nat]
         /\ \A n \in Node : LET r == Step(t, n, s)
                            IN /\ r \in Pointer /\ (r # NULL => r \in Members(t))
                               /\ From(t, n, s) = {n} \cup From(t, r, s) /\ n \notin From(t, r, s)
                               /\ \A a \in From(t, r, s) : OnSide(Key[a], n, s)
                               /\ Ahead(t, s)[n] = 1 + Ahead(t, s)[r]
<1>1. IsFiniteSet(Members(t))
  <2>1. D[t.root] = Members(t)
    BY DEF IsTree, Subtrees
  <2>2. CASE t.root = NULL
    BY <2>2, TreeMembers, FS_EmptySet
  <2>3. CASE t.root # NULL
    <3>1. t.root \in Node
      BY <2>3, TreeMembers
    <3> QED
      BY <2>1, <3>1 DEF IsTree, Subtrees
  <2> QED
    BY <2>2, <2>3
<1>2. ASSUME NEW n \in Pointer
      PROVE  IsFiniteSet(From(t, n, s)) /\ Cardinality(From(t, n, s)) \in Nat
  <2>1. CASE n \in Members(t)
    <3>1. From(t, n, s) \subseteq Members(t)
      BY <2>1 DEF From, Beyond
    <3> QED
      BY <1>1, <3>1, FS_Subset, FS_CardinalityType
  <2>2. CASE n \notin Members(t)
    <3>1. From(t, n, s) = {} \/ From(t, n, s) = {n}
      BY <2>2 DEF From
    <3> QED
      BY <3>1, FS_EmptySet, FS_Singleton
  <2> QED
    BY <2>1, <2>2
<1>3. \A n \in Pointer : Ahead(t, s)[n] = Cardinality(From(t, n, s))
  BY DEF Ahead
<1>4. ASSUME NEW n \in Node
      PROVE  LET r == Step(t, n, s)
             IN /\ r \in Pointer /\ (r # NULL => r \in Members(t))
                /\ From(t, n, s) = {n} \cup From(t, r, s) /\ n \notin From(t, r, s)
                /\ \A a \in From(t, r, s) : OnSide(Key[a], n, s)
                /\ Ahead(t, s)[n] = 1 + Ahead(t, s)[r]
  <2>1. PICK r : r = Step(t, n, s)
    OBVIOUS
  <2>2. n # NULL /\ n \in Pointer
    BY Nodes
  <2>3. /\ r \in Pointer /\ (r # NULL => r \in Members(t))
        /\ From(t, n, s) = {n} \cup From(t, r, s)
        /\ \A a \in From(t, r, s) : OnSide(Key[a], n, s)
    <3>1. CASE n \notin Members(t)
      <4>1. r = NULL
        BY <2>1, <3>1, StepFinds
      <4> QED
        BY <2>2, <3>1, <4>1, Nodes DEF From
    <3>2. CASE n \in Members(t)
      <4>1. NextIn(Members(t), n, s, r)
        BY <2>1, <3>2, StepFinds
      <4>2. CASE r = NULL /\ \A a \in Members(t) : ~ OnSide(Key[a], n, s)
        <5>1. Beyond(t, n, s) = {}
          BY <4>2 DEF Beyond
        <5> QED
          BY <2>2, <3>2, <4>2, <5>1, Nodes DEF From
      <4>3. CASE /\ r \in Members(t) /\ OnSide(Key[r], n, s)
                 /\ \A a \in Members(t) : OnSide(Key[a], n, s) /\ a # r => OnSide(Key[a], r, s)
        <5>1. \A a \in Members(t) : OnSide(Key[a], r, s) => OnSide(Key[a], n, s)
          <6>1. \A a \in Members(t) : a \in Node
            BY DEF Members
          <6>2. r \in Node
            BY <4>3, <6>1
          <6> QED
            BY <4>3, <6>1, <6>2, SidesOfKeys
        <5>2. Beyond(t, n, s) = {r} \cup Beyond(t, r, s)
          BY <4>3, <5>1 DEF Beyond
        <5>3. r # NULL /\ r \in Pointer
          BY <4>3, Nodes DEF Members
        <5>4. From(t, n, s) = {n} \cup Beyond(t, n, s) /\ From(t, r, s) = {r} \cup Beyond(t, r, s)
          BY <2>2, <3>2, <4>3, <5>3 DEF From
        <5> QED
          BY <4>3, <5>2, <5>3, <5>4 DEF Beyond
      <4> QED
        BY <4>1, <4>2, <4>3 DEF NextIn
    <3> QED
      BY <3>1, <3>2
  <2>4. n \notin From(t, r, s)
    BY <2>3 DEF OnSide
  <2>5. Ahead(t, s)[n] = 1 + Ahead(t, s)[r]
    <3>1. From(t, n, s) = From(t, r, s) \cup {n}
      BY <2>3
    <3>2. IsFiniteSet(From(t, r, s)) /\ Cardinality(From(t, r, s)) \in Nat
      BY <1>2, <2>3
    <3>3. Cardinality(From(t, r, s) \cup {n}) = Cardinality(From(t, r, s)) + 1
      BY <2>4, <3>2, FS_AddElement
    <3> QED
      BY <1>3, <2>2, <2>3, <3>1, <3>2, <3>3
  <2> QED
    BY <2>1, <2>3, <2>4, <2>5
<1> QED
  BY <1>2, <1>3, <1>4 DEF Ahead

-----------------------------------------------------------------------------
WalkIn(t, s) ==
  CHOOSE from : from = [n \in Pointer |-> IF n = NULL THEN <<>> ELSE <<n>> \o from[Step(t, n, s)]]

LEMMA WalkIs ==
  ASSUME NEW t, NEW D, IsTree(t, D), NEW s \in Sides
  PROVE  /\ WalkIn(t, s)[NULL] = <<>>
         /\ \A n \in Node : WalkIn(t, s)[n] = <<n>> \o WalkIn(t, s)[Step(t, n, s)]
<1> DEFINE Is(f) == f = [n \in Pointer |-> IF n = NULL THEN <<>> ELSE <<n>> \o f[Step(t, n, s)]]
           G == [n \in Pointer |-> [f \in [Pointer -> Seq(Node)] |->
                   IF n = NULL THEN <<>> ELSE <<n>> \o f[Step(t, n, s)]]]
<1>0. /\ Ahead(t, s) \in [Pointer -> Nat]
      /\ \A n \in Node : Step(t, n, s) \in Pointer /\ Ahead(t, s)[Step(t, n, s)] < Ahead(t, s)[n]
  <2>1. /\ Ahead(t, s) \in [Pointer -> Nat]
        /\ \A n \in Node : LET r == Step(t, n, s)
                           IN r \in Pointer /\ Ahead(t, s)[n] = 1 + Ahead(t, s)[r]
    BY StepAhead
  <2> QED
    BY <2>1
<1>1. ASSUME NEW n \in Pointer, NEW f \in [Pointer -> Seq(Node)]
      PROVE  (IF n = NULL THEN <<>> ELSE <<n>> \o f[Step(t, n, s)]) \in Seq(Node)
  <2>1. CASE n = NULL
    BY <2>1
  <2>2. CASE n # NULL
    <3>1. n \in Node /\ f[Step(t, n, s)] \in Seq(Node)
      BY <1>0, <2>2, Nodes
    <3>2. <<n>> \in Seq(Node)
      BY <3>1
    <3> QED
      BY <2>2, <3>1, <3>2, ConcatProperties
  <2> QED
    BY <2>1, <2>2
<1>2. G \in [Pointer -> [[Pointer -> Seq(Node)] -> Seq(Node)]]
  BY <1>1
<1>3. Decreasing(Pointer, Seq(Node), Ahead(t, s), G)
  <2>1. ASSUME NEW m \in Pointer, NEW f \in [Pointer -> Seq(Node)], NEW g \in [Pointer -> Seq(Node)],
               \A y \in Pointer : Ahead(t, s)[y] < Ahead(t, s)[m] => f[y] = g[y]
        PROVE  G[m][f] = G[m][g]
    <3>1. m # NULL => f[Step(t, m, s)] = g[Step(t, m, s)]
      BY <1>0, <2>1, Nodes
    <3> QED
      BY <3>1
  <2> QED
    BY <2>1 DEF Decreasing
<1>4. \E f : Solves(f, Pointer, Seq(Node), G)
  <2>1. <<>> \in Seq(Node)
    OBVIOUS
  <2> HIDE DEF G
  <2> QED
    BY <1>0, <1>2, <1>3, <2>1, Recursion
<1>5. PICK e : Solves(e, Pointer, Seq(Node), G)
  BY <1>4
<1>6. Is(e)
  <2>1. e \in [Pointer -> Seq(Node)] /\ \A m \in Pointer : e[m] = G[m][e]
    <3> HIDE DEF G
    <3> QED
      BY <1>5 DEF Solves
  <2>2. e = [m \in Pointer |-> e[m]]
    BY <2>1
  <2>3. \A n \in Pointer : e[n] = IF n = NULL THEN <<>> ELSE <<n>> \o e[Step(t, n, s)]
    BY <2>1
  <2> QED
    BY <2>2, <2>3
<1>7. \E f : Is(f)
  <2> HIDE DEF Is
  <2> QED
    BY <1>6
<1>8. Is(CHOOSE f : Is(f))
  <2> HIDE DEF Is
  <2> QED
    BY <1>7, Zenon
<1>9. PICK f : f = CHOOSE g : Is(g)
  OBVIOUS
<1>10. Is(f)
  <2> HIDE DEF Is
  <2> QED
    BY <1>8, <1>9
<1>11. WalkIn(t, s) = f
  BY <1>9, Zenon DEF WalkIn
<1>12. \A n \in Pointer : f[n] = IF n = NULL THEN <<>> ELSE <<n>> \o f[Step(t, n, s)]
  BY <1>10
<1> QED
  BY <1>11, <1>12, Nodes

(* w runs through S in the order of the side s.                              *)
Runs(w, S, s) ==
  /\ w \in Seq(Node) /\ Len(w) = Cardinality(S)
  /\ S = {w[i] : i \in 1 .. Len(w)}
  /\ \A i, j \in 1 .. Len(w) : i < j => OnSide(Key[w[j]], w[i], s)

LEMMA RunsOn ==
  ASSUME NEW n \in Node, NEW v, NEW S, NEW s \in Sides, Runs(v, S, s), IsFiniteSet(S),
         n \notin S, \A a \in S : OnSide(Key[a], n, s)
  PROVE  Runs(<<n>> \o v, {n} \cup S, s)
<1>1. v \in Seq(Node) /\ Len(v) = Cardinality(S) /\ S = {v[i] : i \in 1 .. Len(v)}
      /\ \A i, j \in 1 .. Len(v) : i < j => OnSide(Key[v[j]], v[i], s)
  BY DEF Runs
<1>2. PICK w : w = <<n>> \o v
  OBVIOUS
<1>3. /\ w \in Seq(Node) /\ Len(v) \in Nat /\ Len(w) = 1 + Len(v)
      /\ w[1] = n /\ \A i \in 1 .. Len(v) : w[i + 1] = v[i]
  <2>1. <<n>> \in Seq(Node) /\ Len(<<n>>) = 1 /\ <<n>>[1] = n
    OBVIOUS
  <2>2. /\ w \in Seq(Node) /\ Len(w) = 1 + Len(v) /\ Len(v) \in Nat
        /\ \A i \in 1 .. 1 + Len(v) : w[i] = IF i <= 1 THEN <<n>>[i] ELSE v[i - 1]
    <3>1. v \in Seq(Node) /\ Len(v) \in Nat
      BY <1>1, LenProperties
    <3>2. <<n>> \o v \in Seq(Node)
      BY <2>1, <3>1
    <3>3. Len(<<n>> \o v) = 1 + Len(v)
      BY <2>1, <3>1
    <3>4. \A i \in 1 .. 1 + Len(v) :
             (<<n>> \o v)[i] = IF i <= 1 THEN <<n>>[i] ELSE v[i - 1]
      BY <2>1, <3>1
    <3> QED
      BY <1>2, <3>1, <3>2, <3>3, <3>4, Zenon
  <2>3. w[1] = n
    BY <2>1, <2>2
  <2>4. ASSUME NEW i \in 1 .. Len(v) PROVE w[i + 1] = v[i]
    <3>1. i + 1 \in 1 .. 1 + Len(v) /\ ~ (i + 1 <= 1) /\ (i + 1) - 1 = i
      BY <2>2
    <3> QED
      BY <2>2, <3>1
  <2> QED
    BY <2>2, <2>3, <2>4
<1>4. Cardinality({n} \cup S) = Len(w)
  <2>1. Cardinality(S \cup {n}) = Cardinality(S) + 1
    BY FS_AddElement
  <2>2. S \cup {n} = {n} \cup S
    OBVIOUS
  <2>3. Cardinality({n} \cup S) = Cardinality(S) + 1
    BY <2>1, <2>2, Zenon
  <2>4. Len(v) = Cardinality(S) /\ Len(v) \in Nat /\ Len(w) = 1 + Len(v)
    BY <1>1, <1>3, Zenon
  <2> DEFINE C == Cardinality({n} \cup S)
  <2>5. C = Len(v) + 1
    BY <2>3, <2>4, Zenon
  <2> HIDE DEF C
  <2>6. C = Len(w)
    BY <2>4, <2>5
  <2> QED
    BY <2>6 DEF C
<1>5. \A i \in 1 .. Len(w) : i # 1 => i - 1 \in 1 .. Len(v) /\ w[i] = v[i - 1]
  <2> SUFFICES ASSUME NEW i \in 1 .. Len(w), i # 1
               PROVE  i - 1 \in 1 .. Len(v) /\ w[i] = v[i - 1]
    OBVIOUS
  <2>1. i - 1 \in 1 .. Len(v) /\ (i - 1) + 1 = i
    BY <1>3
  <2> QED
    BY <1>3, <2>1
<1>6. {n} \cup S = {w[i] : i \in 1 .. Len(w)}
  <2>1. ASSUME NEW a \in S PROVE \E i \in 1 .. Len(w) : w[i] = a
    <3>1. PICK i \in 1 .. Len(v) : v[i] = a
      BY <1>1
    <3>2. i + 1 \in 1 .. Len(w)
      BY <1>3
    <3> QED
      BY <1>3, <3>1, <3>2
  <2>2. 1 \in 1 .. Len(w)
    BY <1>3
  <2>3. ASSUME NEW i \in 1 .. Len(w) PROVE w[i] \in {n} \cup S
    BY <1>1, <1>3, <1>5
  <2> QED
    BY <1>3, <2>1, <2>2, <2>3
<1>7. ASSUME NEW i \in 1 .. Len(w), NEW j \in 1 .. Len(w), i < j
      PROVE  OnSide(Key[w[j]], w[i], s)
  <2>1. j # 1 /\ j - 1 \in 1 .. Len(v) /\ w[j] = v[j - 1]
    BY <1>5, <1>7
  <2>2. CASE i = 1
    BY <1>1, <1>3, <2>1, <2>2
  <2>3. CASE i # 1
    <3>1. i - 1 \in 1 .. Len(v) /\ w[i] = v[i - 1] /\ i - 1 < j - 1
      BY <1>5, <1>7, <2>3
    <3> QED
      BY <1>1, <2>1, <3>1
  <2> QED
    BY <2>2, <2>3
<1>8. w \in Seq(Node)
  BY <1>3
<1>9. Runs(w, {n} \cup S, s)
  BY <1>4, <1>6, <1>7, <1>8, Zenon DEF Runs
<1> QED
  BY <1>2, <1>9, Zenon

LEMMA WalkRuns ==
  ASSUME NEW t, NEW D, IsTree(t, D), NEW s \in Sides
  PROVE  \A n \in Pointer : Runs(WalkIn(t, s)[n], From(t, n, s), s)
<1> DEFINE T == {n \in Pointer : ~ Runs(WalkIn(t, s)[n], From(t, n, s), s)}
<1> SUFFICES ASSUME T # {} PROVE FALSE
  OBVIOUS
<1>1. PICK n \in T : \A c \in Pointer : Ahead(t, s)[c] < Ahead(t, s)[n] => c \notin T
  <2>1. T \in SUBSET Pointer /\ T # {} /\ Ahead(t, s) \in [Pointer -> Nat]
    BY StepAhead
  <2> HIDE DEF T
  <2> QED
    BY <2>1, LeastByMeasure
<1>2. CASE n = NULL
  <2>1. From(t, n, s) = {} /\ WalkIn(t, s)[n] = <<>>
    BY <1>2, WalkIs DEF From
  <2>2. Runs(<<>>, {}, s)
    <3>1. <<>> \in Seq(Node) /\ Len(<<>>) = 0 /\ Cardinality({}) = 0
      BY FS_EmptySet
    <3> QED
      BY <3>1 DEF Runs
  <2> QED
    BY <2>1, <2>2
<1>3. CASE n # NULL
  <2>1. n \in Node
    BY <1>3, Nodes
  <2>2. PICK r : r = Step(t, n, s)
    OBVIOUS
  <2>3. /\ r \in Pointer
        /\ From(t, n, s) = {n} \cup From(t, r, s) /\ n \notin From(t, r, s)
        /\ \A a \in From(t, r, s) : OnSide(Key[a], n, s)
        /\ Ahead(t, s)[n] = 1 + Ahead(t, s)[r]
    BY <2>1, <2>2, StepAhead
  <2>4. Ahead(t, s)[r] < Ahead(t, s)[n] /\ IsFiniteSet(From(t, r, s))
    <3>1. Ahead(t, s)[r] \in Nat /\ IsFiniteSet(From(t, r, s))
      BY <2>3, StepAhead
    <3> QED
      BY <2>3, <3>1
  <2>5. Runs(WalkIn(t, s)[r], From(t, r, s), s)
    BY <1>1, <2>3, <2>4
  <2>6. Runs(<<n>> \o WalkIn(t, s)[r], {n} \cup From(t, r, s), s)
    BY <2>1, <2>3, <2>4, <2>5, RunsOn
  <2>7. WalkIn(t, s)[n] = <<n>> \o WalkIn(t, s)[r]
    BY <2>1, <2>2, WalkIs
  <2> QED
    BY <2>3, <2>6, <2>7
<1> QED
  BY <1>2, <1>3

LEMMA RBWalksInOrder ==
  ASSUME RBInv, NEW s \in Sides
  PROVE  WalkInOrder(s)
<1>1. PICK D : IsTree(tree, D)
  BY HasTree
<1>2. Content = Members(tree) /\ D[tree.root] = Members(tree)
  BY <1>1, ContentMembers DEF IsTree, Subtrees
<1>3. PICK x, w : x = MinMax(tree, Other(s)) /\ w = Walk(tree, s)
  OBVIOUS
<1>4. w = WalkIn(tree, s)[x]
  BY <1>3, Zenon DEF Walk, WalkIn
<1>5. x \in Pointer /\ From(tree, x, s) = Members(tree)
  <2>1. CASE tree.root = NULL
    <3>1. x = NULL /\ Members(tree) = {}
      BY <1>1, <1>3, <2>1, TreeMembers DEF MinMax
    <3> QED
      BY <3>1, Nodes DEF From
  <2>2. CASE tree.root # NULL
    <3>1. tree.root \in Node /\ x = Extreme(tree, tree.root, Other(s))
          /\ Other(s) \in Sides /\ Other(Other(s)) = s
      BY <1>1, <1>3, <2>2, SidesOther, TreeMembers DEF MinMax
    <3>2. x \in Members(tree) /\ \A m \in Members(tree) : m # x => OnSide(Key[m], x, s)
      BY <1>1, <1>2, <3>1, ExtremeFinds
    <3>3. x # NULL /\ x \in Pointer
      BY <3>2, Nodes DEF Members
    <3> QED
      BY <3>2, <3>3 DEF From, Beyond
  <2> QED
    BY <2>1, <2>2
<1>6. Runs(w, Members(tree), s)
  BY <1>1, <1>4, <1>5, WalkRuns
<1>7. /\ w \in Seq(Node) /\ Len(w) = Cardinality(Members(tree))
      /\ Members(tree) = {w[i] : i \in 1 .. Len(w)}
      /\ \A i, j \in 1 .. Len(w) : i < j => OnSide(Key[w[j]], w[i], s)
  BY <1>6 DEF Runs
<1>8. ASSUME NEW i \in 1 .. Len(w), NEW j \in 1 .. Len(w), i < j
      PROVE  Key[w[i]] < Key[w[j]] <=> s = "right"
  <2>1. OnSide(Key[w[j]], w[i], s)
    BY <1>7, <1>8
  <2>2. w[i] \in Node /\ w[j] \in Node
    BY <1>7 DEF Members
  <2>3. Key[w[i]] \in Int /\ Key[w[j]] \in Int
    BY <2>2, Nodes
  <2> QED
    BY <2>1, <2>3 DEF OnSide, Side
<1> QED
  BY <1>2, <1>3, <1>7, <1>8 DEF WalkInOrder

(* RB_FIND, RB_NFIND, RB_MIN and RB_MAX find what they should, and RB_FOREACH  *)
(* and RB_FOREACH_REVERSE visit every element once in the order of the keys   *)
(* (tree.h:618, 636, 657, 701), also in the middle of an operation.           *)
THEOREM RBReadsAgree == Spec => []ReadsAgree
<1>1. RBInv => ReadsAgree
  BY RBSearchesAgree, RBWalksInOrder DEF ReadsAgree
<1> QED
  BY <1>1, RBInvariant, PTL

-----------------------------------------------------------------------------

KeyOf(i) == CodeKey(Table[i].domain, Table[i].code)

(* What enums_new() checks before it inserts: no two records of a tree have   *)
(* the same key there.                                                      *)
DifferentCodes == \A i, j \in codeTree : KeyOf(i) = KeyOf(j) => i = j

DifferentNames ==
  \A i, j \in stringTree :
    Table[i].domain = Table[j].domain /\ Table[i].str = Table[j].str => i = j

EnumsInv == TreesAgree /\ codeTree \subseteq Recs /\ DifferentCodes /\ DifferentNames

LEMMA Fields ==
  \A i \in Recs : Table[i].domain \in Nat /\ Table[i].code \in Nat /\ Table[i].str \in STRING
<1> DEFINE Entry == [domain : Nat, code : 0 .. 999, str : STRING]
<1> SUFFICES ASSUME NEW i \in Recs
             PROVE  Table[i].domain \in Nat /\ Table[i].code \in Nat /\ Table[i].str \in STRING
  OBVIOUS
<1>1. Table \in Seq(Entry) /\ i \in 1 .. Len(Table)
  BY TableAssumption DEF Recs
<1>2. Table[i] \in Entry
  <2> HIDE DEF Entry
  <2> QED
    BY <1>1, ElementOfSeq
<1>3. Table[i].str \in STRING
  BY <1>2, Zenon
<1>4. Table[i].domain \in Nat /\ Table[i].code \in Nat
  BY <1>2
<1> QED
  BY <1>3, <1>4

LEMMA Records ==
  /\ Len(Table) \in Nat
  /\ \A i \in Recs : i \in Nat /\ i # NULL /\ KeyOf(i) \in Nat
<1>1. Len(Table) \in Nat
  BY TableAssumption, LenProperties
<1> QED
  BY <1>1, Fields DEF Recs, NULL, KeyOf, CodeKey

-----------------------------------------------------------------------------
(* Searches.                                                                *)

(* Of records with keys that are naturals one has the least.                 *)
LEMMA LeastRecord ==
  ASSUME NEW S \in SUBSET Recs, S # {}
  PROVE  ByCode!Least(S) \in S /\ \A j \in S : KeyOf(ByCode!Least(S)) <= KeyOf(j)
<1> DEFINE R == OpToRel(<, Nat)
           T == {KeyOf(i) : i \in S}
<1>1. IsWellFoundedOn(R, Nat)
  BY NatLessThanWellFounded
<1>2. \A y, x \in Nat : y < x => <<y, x>> \in R
  BY DEF OpToRel
<1>3. T \in SUBSET Nat /\ T # {}
  BY Records
<1> HIDE DEF R
<1>4. PICK x \in T : \A y \in T : ~ (<<y, x>> \in R)
  <2> HIDE DEF T
  <2> QED
    BY <1>1, <1>3, WFMin
<1>5. PICK i \in S : x = KeyOf(i)
  BY <1>4
<1>6. ASSUME NEW j \in S PROVE KeyOf(i) <= KeyOf(j)
  <2>1. KeyOf(i) \in Nat /\ KeyOf(j) \in Nat /\ ~ (KeyOf(j) < KeyOf(i))
    BY <1>2, <1>4, <1>5, <1>6, Records
  <2> QED
    BY <2>1
<1> DEFINE First(n) ==
      \A m \in S : [k \in Recs |-> KeyOf(k)][n] <= [k \in Recs |-> KeyOf(k)][m]
<1>7. \E n \in S : First(n)
  BY <1>6
<1>8. ByCode!Least(S) = CHOOSE n \in S : First(n)
  BY Zenon DEF ByCode!Least, KeyOf
<1>9. ByCode!Least(S) \in S /\ First(ByCode!Least(S))
  <2> HIDE DEF First
  <2> QED
    BY <1>7, <1>8, Zenon
<1> QED
  BY <1>9

(* code_search() finds a record with the code if there is one.               *)
LEMMA CodeFound ==
  ASSUME codeTree \subseteq Recs, NEW d, NEW c
  PROVE  LET i == code_search(d, c)
         IN IF \E j \in codeTree : KeyOf(j) = CodeKey(d, c)
            THEN i \in codeTree /\ KeyOf(i) = CodeKey(d, c)
            ELSE i = NULL
<1> DEFINE S == ByCode!At(codeTree, CodeKey(d, c))
<1>1. S = {j \in codeTree : KeyOf(j) = CodeKey(d, c)}
  BY DEF ByCode!At, KeyOf
<1>2. S \in SUBSET Recs
  BY <1>1
<1> HIDE DEF S
<1>3. S = {} => ByCode!Least(S) = NULL
  BY DEF ByCode!Least, ByCode!NULL, NULL
<1>4. S # {} => ByCode!Least(S) \in S
  BY <1>2, LeastRecord
<1> QED
  BY <1>1, <1>3, <1>4 DEF code_search, S

(* code_first(0, 0) finds a record if there is one: no code is less.          *)
LEMMA FirstFound ==
  ASSUME codeTree \subseteq Recs
  PROVE  IF codeTree = {} THEN code_first(0, 0) = NULL ELSE code_first(0, 0) \in codeTree
<1> DEFINE S == ByCode!From(codeTree, CodeKey(0, 0))
<1>1. S = {j \in codeTree : CodeKey(0, 0) <= KeyOf(j)}
  BY DEF ByCode!From, KeyOf
<1>2. CodeKey(0, 0) = 0
  BY DEF CodeKey
<1>3. \A j \in codeTree : 0 <= KeyOf(j)
  BY Records
<1>4. S = codeTree
  BY <1>1, <1>2, <1>3
<1> HIDE DEF S
<1>5. S = {} => ByCode!Least(S) = NULL
  BY DEF ByCode!Least, ByCode!NULL, NULL
<1>6. S # {} => ByCode!Least(S) \in S
  BY <1>4, LeastRecord
<1> QED
  BY <1>4, <1>5, <1>6 DEF code_first, S

(* str_search() finds a record with the name if there is one.                *)
LEMMA NameFound ==
  ASSUME stringTree \subseteq Recs, NEW d, NEW s
  PROVE  LET i == str_search(d, s)
         IN IF \E j \in stringTree : Table[j].domain = d /\ Table[j].str = s
            THEN i \in stringTree /\ Table[i].domain = d /\ Table[i].str = s
            ELSE i = NULL
<1> DEFINE found == {i \in stringTree : Table[i].domain = d /\ Table[i].str = s}
<1>1. found # {} => (CHOOSE i \in found : TRUE) \in found
  OBVIOUS
<1> QED
  BY <1>1 DEF str_search

-----------------------------------------------------------------------------
(* Steps.                                                                   *)

LEMMA NewInv == ASSUME EnumsInv, New PROVE EnumsInv'
<1> DEFINE new == Table[adding]
<1>1. CASE UNCHANGED <<adding, codeTree, stringTree, heap>>
  BY <1>1 DEF EnumsInv, TreesAgree, DifferentCodes, DifferentNames
<1>2. CASE /\ code_search(new.domain, new.code) = NULL /\ str_search(new.domain, new.str) = NULL
           /\ codeTree' = codeTree \cup {adding} /\ stringTree' = stringTree \cup {adding}
           /\ heap' = heap \cup {RecordOf(adding), NameOf(adding)}
  <2>1. adding \in Recs /\ codeTree \subseteq Recs /\ stringTree = codeTree
    BY DEF New, EnumsInv, TreesAgree
  <2>2. \A j \in codeTree : j # NULL
    BY <2>1, Records
  <2>3. \A j \in codeTree : KeyOf(j) # KeyOf(adding)
    BY <1>2, <2>1, <2>2, CodeFound DEF KeyOf
  <2>4. \A j \in stringTree : ~ (Table[j].domain = new.domain /\ Table[j].str = new.str)
    BY <1>2, <2>1, <2>2, NameFound
  <2>5. DifferentCodes'
    BY <1>2, <2>3 DEF EnumsInv, DifferentCodes
  <2>6. DifferentNames'
    BY <1>2, <2>4 DEF EnumsInv, DifferentNames
  <2>7. TreesAgree'
    BY <1>2 DEF EnumsInv, TreesAgree
  <2> QED
    BY <1>2, <2>1, <2>5, <2>6, <2>7 DEF EnumsInv
<1> QED
  BY <1>1, <1>2 DEF New

(* enums_free() finds the record itself in both trees.                       *)
LEMMA FreeInv == ASSUME EnumsInv, Free PROVE EnumsInv'
<1> DEFINE rec == code_first(0, 0)
<1>1. codeTree \subseteq Recs /\ stringTree = codeTree
  BY DEF EnumsInv, TreesAgree
<1>2. rec \in codeTree
  BY <1>1, FirstFound DEF Free
<1>3. code_search(Table[rec].domain, Table[rec].code) = rec
  BY <1>1, <1>2, CodeFound DEF EnumsInv, DifferentCodes, KeyOf
<1>4. str_search(Table[rec].domain, Table[rec].str) = rec
  BY <1>1, <1>2, NameFound DEF EnumsInv, DifferentNames
<1>5. /\ codeTree' = codeTree \ {rec} /\ stringTree' = stringTree \ {rec}
      /\ heap' = heap \ {RecordOf(rec), NameOf(rec)} /\ adding' = adding
  BY <1>3, <1>4 DEF Free
<1> HIDE DEF rec
<1>6. DifferentCodes' /\ DifferentNames' /\ codeTree' \subseteq Recs /\ codeTree' = stringTree'
  BY <1>1, <1>5 DEF EnumsInv, DifferentCodes, DifferentNames
<1>7. /\ \A i : i # rec => RecordOf(i) # RecordOf(rec) /\ NameOf(i) # NameOf(rec)
      /\ \A i, j : RecordOf(i) # NameOf(j)
  BY DEF RecordOf, NameOf
<1>8. TreesAgree'
  BY <1>1, <1>2, <1>5, <1>7 DEF EnumsInv, TreesAgree
<1> QED
  BY <1>6, <1>8 DEF EnumsInv

LEMMA OutOfMemoryInv == ASSUME EnumsInv, OutOfMemory PROVE EnumsInv'
  BY DEF OutOfMemory, EnumsInv, TreesAgree, DifferentCodes, DifferentNames

LEMMA StylesLeaveTheTrees == [StyleNext]_styleVars => [EnumsNext]_enumsVars
  BY DEF StyleNext, Library, Text_style_enable, Set_text_style, Reset_text_style, styleVars, enumsVars

LEMMA EnumsNextInv == EnumsInv /\ [EnumsNext]_enumsVars => EnumsInv'
<1> SUFFICES ASSUME EnumsInv, [EnumsNext]_enumsVars PROVE EnumsInv'
  OBVIOUS
<1>1. CASE UNCHANGED <<adding, codeTree, stringTree, heap>>
  BY <1>1 DEF EnumsInv, TreesAgree, DifferentCodes, DifferentNames
<1>2. CASE Open \/ Opened \/ Exit \/ Exited \/ UNCHANGED enumsVars
  BY <1>1, <1>2 DEF Open, Opened, Exit, Exited, enumsVars
<1> QED
  BY <1>2, NewInv, FreeInv, OutOfMemoryInv DEF EnumsNext

LEMMA EnumsInvariant == StyleSpec => []EnumsInv
<1>1. StyleInit => EnumsInv
  BY DEF StyleInit, EnumsInit, EnumsInv, TreesAgree, DifferentCodes, DifferentNames
<1>2. EnumsInv /\ [StyleNext]_styleVars => EnumsInv'
  BY StylesLeaveTheTrees, EnumsNextInv
<1> QED
  BY <1>1, <1>2, PTL DEF StyleSpec

-----------------------------------------------------------------------------
(* The two trees hold the same records and all that is allocated is in them,  *)
(* but for the record of a failed Strdup(): for a table with duplicates too,  *)
(* on which enums_new() fails (enums.c:108, 129).                           *)
THEOREM TreesStayTogether == StyleSpec => []TreesAgree
<1>1. EnumsInv => TreesAgree
  BY DEF EnumsInv
<1> QED
  BY <1>1, EnumsInvariant, PTL

(* When the loop of enums_free_all() has ended, no record is left: it starts   *)
(* from the least code there may be (enums.c:139).                          *)
Emptied == stage = "exited" => codeTree = {} /\ heap \subseteq {RecordOf(adding)}

THEOREM ExitLeavesNoRecord == StyleSpec => []Emptied
<1>1. StyleInit => Emptied
  BY DEF StyleInit, EnumsInit, Emptied
<1>2. ASSUME EnumsInv, Emptied, [EnumsNext]_enumsVars PROVE Emptied'
  <2>1. CASE Exited
    <3>1. codeTree = {}
      BY <1>2, <2>1, FirstFound, Records DEF EnumsInv, Exited
    <3> QED
      BY <1>2, <2>1, <3>1 DEF EnumsInv, TreesAgree, Exited, Emptied
  <2>2. CASE UNCHANGED enumsVars
    BY <1>2, <2>2 DEF Emptied, enumsVars
  <2>3. CASE Open \/ New \/ OutOfMemory \/ Opened \/ Exit \/ Free
    BY <2>3 DEF Open, New, OutOfMemory, Opened, Exit, Free, Emptied
  <2> QED
    BY <1>2, <2>1, <2>2, <2>3 DEF EnumsNext
<1>3. EnumsInv /\ Emptied /\ [StyleNext]_styleVars => Emptied'
  BY <1>2, StylesLeaveTheTrees
<1> QED
  BY <1>1, <1>3, EnumsInvariant, PTL DEF StyleSpec

(* What is in the tree of codes while the library is loaded, and after.      *)
Loading ==
  /\ stage \in {"unloaded", "adding"} =>
       adding \in 1 .. Len(Table) + 1 /\ codeTree = 1 .. adding - 1
  /\ stage = "loaded" => codeTree = Recs

LEMMA LoadingIsKept == EnumsInv /\ Loading /\ [EnumsNext]_enumsVars => Loading'
<1> SUFFICES ASSUME EnumsInv, Loading, [EnumsNext]_enumsVars PROVE Loading'
  OBVIOUS
<1>0. Len(Table) \in Nat /\ Recs = 1 .. Len(Table)
  BY Records DEF Recs
<1>1. CASE New
  <2>1. stage = "adding" /\ adding \in Recs
    BY <1>1 DEF New
  <2>2. adding \in 1 .. Len(Table) + 1 /\ codeTree = 1 .. adding - 1
    BY <2>1 DEF Loading
  <2>3. CASE stage' = "failed"
    BY <2>3 DEF Loading
  <2>4. CASE stage' = stage /\ codeTree' = codeTree \cup {adding} /\ adding' = adding + 1
    <3>1. adding' \in 1 .. Len(Table) + 1
      BY <1>0, <2>1, <2>2, <2>4
    <3>2. 1 .. (adding + 1) - 1 = (1 .. adding - 1) \cup {adding}
      BY <2>2
    <3>3. codeTree' = 1 .. adding' - 1
      BY <2>2, <2>4, <3>2
    <3> QED
      BY <2>1, <2>4, <3>1, <3>3 DEF Loading
  <2> QED
    BY <1>1, <2>3, <2>4 DEF New
<1>2. CASE Opened
  <2>1. /\ adding \in 1 .. Len(Table) + 1 /\ codeTree = 1 .. adding - 1
        /\ adding \notin Recs /\ codeTree' = codeTree /\ stage' \in {"loaded", "failed"}
    BY <1>2 DEF Opened, Loading
  <2>2. adding = Len(Table) + 1 /\ (Len(Table) + 1) - 1 = Len(Table)
    BY <1>0, <2>1
  <2>3. codeTree' = Recs
    BY <1>0, <2>1, <2>2
  <2> QED
    BY <2>1, <2>3 DEF Loading
<1>3. CASE Open \/ UNCHANGED enumsVars
  BY <1>3 DEF Open, Loading, enumsVars
<1>4. CASE OutOfMemory \/ Exit \/ Free \/ Exited
  BY <1>4 DEF OutOfMemory, Exit, Free, Exited, Loading
<1> QED
  BY <1>1, <1>2, <1>3, <1>4 DEF EnumsNext

LEMMA LoadingInvariant == StyleSpec => []Loading
<1>1. StyleInit => Loading
  <2>1. 1 .. 1 - 1 = {} /\ 1 \in 1 .. Len(Table) + 1
    BY Records
  <2> QED
    BY <2>1 DEF StyleInit, EnumsInit, Loading
<1>2. EnumsInv /\ Loading /\ [StyleNext]_styleVars => Loading'
  BY LoadingIsKept, StylesLeaveTheTrees
<1> QED
  BY <1>1, <1>2, EnumsInvariant, PTL DEF StyleSpec

-----------------------------------------------------------------------------
(* The library is loaded.                                                   *)
Loaded == EnumsInv /\ codeTree = Recs

(* The records from i on.                                                   *)
RecordsFrom(i) == IF i = NULL THEN {} ELSE {j \in Recs : KeyOf(i) <= KeyOf(j)}

LEMMA NextRecord ==
  ASSUME Loaded, NEW i \in Recs
  PROVE  /\ code_next(i) \in Recs \cup {NULL}
         /\ RecordsFrom(i) = {i} \cup RecordsFrom(code_next(i))
         /\ \A j \in RecordsFrom(code_next(i)) : KeyOf(i) < KeyOf(j)
<1> DEFINE S == {j \in Recs : KeyOf(i) < KeyOf(j)}
<1>1. PICK r : r = code_next(i)
  OBVIOUS
<1>2. r = ByCode!Least(S)
  BY <1>1 DEF Loaded, code_next, ByCode!Above, KeyOf
<1>3. RecordsFrom(i) = {i} \cup S
  <2>1. \A j \in Recs : KeyOf(j) = KeyOf(i) => j = i
    BY DEF Loaded, EnumsInv, DifferentCodes
  <2>2. i # NULL /\ KeyOf(i) \in Nat /\ \A j \in Recs : KeyOf(j) \in Nat
    BY Records
  <2>3. \A j \in Recs : KeyOf(i) <= KeyOf(j) <=> KeyOf(i) < KeyOf(j) \/ KeyOf(i) = KeyOf(j)
    BY <2>2
  <2> QED
    BY <2>1, <2>2, <2>3 DEF RecordsFrom
<1>4. r \in Recs \cup {NULL} /\ RecordsFrom(r) = S
  <2>1. CASE S = {}
    <3> HIDE DEF S
    <3>1. r = NULL
      BY <1>2, <2>1 DEF ByCode!Least, ByCode!NULL, NULL
    <3> QED
      BY <2>1, <3>1 DEF RecordsFrom
  <2>2. CASE S # {}
    <3>1. r \in S /\ \A j \in S : KeyOf(r) <= KeyOf(j)
      <4>1. S \in SUBSET Recs
        OBVIOUS
      <4> HIDE DEF S
      <4> QED
        BY <1>2, <2>2, <4>1, LeastRecord
    <3>2. r \in Recs /\ r # NULL
      BY <3>1, Records
    <3>3. \A j \in Recs : KeyOf(r) <= KeyOf(j) => j \in S
      <4>1. \A j \in Recs : KeyOf(j) \in Nat
        BY Records
      <4>2. KeyOf(i) < KeyOf(r)
        BY <3>1
      <4> QED
        BY <3>2, <4>1, <4>2
    <3> QED
      BY <3>1, <3>2, <3>3 DEF RecordsFrom
  <2> QED
    BY <2>1, <2>2
<1> QED
  BY <1>1, <1>3, <1>4

(* The walk that enum() starts in a domain comes to all records of it.        *)
LEMMA FirstOfDomain ==
  ASSUME Loaded, NEW d \in Nat
  PROVE  /\ code_first(d, 0) \in Recs \cup {NULL}
         /\ \A j \in Recs : Table[j].domain = d => j \in RecordsFrom(code_first(d, 0))
<1> DEFINE S == {j \in Recs : CodeKey(d, 0) <= KeyOf(j)}
<1>1. PICK r : r = code_first(d, 0)
  OBVIOUS
<1>2. r = ByCode!Least(S)
  BY <1>1 DEF Loaded, code_first, ByCode!From, KeyOf
<1>3. ASSUME NEW j \in Recs, Table[j].domain = d PROVE j \in S
  <2>1. Table[j].code \in Nat /\ Table[j].domain \in Nat
    BY Fields
  <2> QED
    BY <1>3, <2>1 DEF KeyOf, CodeKey
<1>4. CASE S = {}
  <2>1. r = NULL
    <3> HIDE DEF S
    <3> QED
      BY <1>2, <1>4 DEF ByCode!Least, ByCode!NULL, NULL
  <2> QED
    BY <1>1, <1>3, <1>4, <2>1
<1>5. CASE S # {}
  <2>1. r \in S /\ \A j \in S : KeyOf(r) <= KeyOf(j)
    <3>1. S \in SUBSET Recs
      OBVIOUS
    <3> HIDE DEF S
    <3> QED
      BY <1>2, <1>5, <3>1, LeastRecord
  <2> QED
    BY <1>1, <1>3, <2>1, Records DEF RecordsFrom
<1> QED
  BY <1>4, <1>5

RecordsLeft == [i \in Recs \cup {NULL} |-> Cardinality(RecordsFrom(i))]

LEMMA NextIsLess ==
  ASSUME Loaded
  PROVE  /\ RecordsLeft \in [Recs \cup {NULL} -> Nat]
         /\ \A i \in Recs : RecordsLeft[code_next(i)] < RecordsLeft[i]
<1>1. IsFiniteSet(Recs)
  BY Records, FS_Interval DEF Recs
<1>2. ASSUME NEW i \in Recs \cup {NULL}
      PROVE  IsFiniteSet(RecordsFrom(i)) /\ Cardinality(RecordsFrom(i)) \in Nat
  <2>1. RecordsFrom(i) \subseteq Recs
    BY DEF RecordsFrom
  <2> QED
    BY <1>1, <2>1, FS_Subset, FS_CardinalityType
<1>3. ASSUME NEW i \in Recs PROVE RecordsLeft[code_next(i)] < RecordsLeft[i]
  <2>1. PICK r : r = code_next(i)
    OBVIOUS
  <2>2. r \in Recs \cup {NULL} /\ RecordsFrom(i) = {i} \cup RecordsFrom(r) /\ i \notin RecordsFrom(r)
    <3>1. /\ r \in Recs \cup {NULL} /\ RecordsFrom(i) = {i} \cup RecordsFrom(r)
          /\ \A j \in RecordsFrom(r) : KeyOf(i) < KeyOf(j)
      BY <2>1, NextRecord
    <3>2. ~ (KeyOf(i) < KeyOf(i))
      BY Records
    <3> QED
      BY <3>1, <3>2
  <2>3. IsFiniteSet(RecordsFrom(r)) /\ Cardinality(RecordsFrom(r)) \in Nat
    BY <1>2, <2>2
  <2>4. Cardinality(RecordsFrom(r) \cup {i}) = Cardinality(RecordsFrom(r)) + 1
    BY <2>2, <2>3, FS_AddElement
  <2>5. RecordsFrom(i) = RecordsFrom(r) \cup {i}
    BY <2>2
  <2>6. Cardinality(RecordsFrom(i)) = Cardinality(RecordsFrom(r)) + 1
    BY <2>4, <2>5, Zenon
  <2>7. RecordsLeft[i] = Cardinality(RecordsFrom(i)) /\ RecordsLeft[r] = Cardinality(RecordsFrom(r))
    BY <2>2 DEF RecordsLeft
  <2> QED
    BY <2>1, <2>3, <2>6, <2>7
<1> QED
  BY <1>2, <1>3 DEF RecordsLeft

(* The names of a domain from each record on.                                *)
ValuesIn(d) ==
  CHOOSE values :
    values = [i \in Recs \cup {NULL} |->
                IF i = NULL THEN <<>>
                ELSE (IF Table[i].domain = d THEN <<Table[i].str>> ELSE <<>>) \o values[code_next(i)]]

LEMMA ValuesAre ==
  ASSUME Loaded, NEW d
  PROVE  /\ ValuesIn(d) \in [Recs \cup {NULL} -> Seq(STRING)] /\ ValuesIn(d)[NULL] = <<>>
         /\ \A i \in Recs : LET v == ValuesIn(d)[code_next(i)]
                            IN ValuesIn(d)[i] = IF Table[i].domain = d
                                                THEN <<Table[i].str>> \o v ELSE v
<1> DEFINE A == Recs \cup {NULL}
           This(i) == IF Table[i].domain = d THEN <<Table[i].str>> ELSE <<>>
           Is(f) == f = [i \in A |-> IF i = NULL THEN <<>> ELSE This(i) \o f[code_next(i)]]
           G == [i \in A |-> [f \in [A -> Seq(STRING)] |->
                   IF i = NULL THEN <<>> ELSE This(i) \o f[code_next(i)]]]
<1>0. /\ RecordsLeft \in [A -> Nat]
      /\ \A i \in Recs : /\ code_next(i) \in A /\ RecordsLeft[code_next(i)] < RecordsLeft[i]
                         /\ i # NULL /\ This(i) \in Seq(STRING)
  <2>1. ASSUME NEW i \in Recs PROVE This(i) \in Seq(STRING)
    <3>1. Table[i].str \in STRING
      BY Fields
    <3>2. <<Table[i].str>> \in Seq(STRING) /\ <<>> \in Seq(STRING)
      BY <3>1
    <3> QED
      BY <3>2, Zenon
  <2> HIDE DEF This
  <2> QED
    BY <2>1, NextIsLess, NextRecord, Records
<1>1. ASSUME NEW i \in A, NEW f \in [A -> Seq(STRING)]
      PROVE  (IF i = NULL THEN <<>> ELSE This(i) \o f[code_next(i)]) \in Seq(STRING)
  <2>1. CASE i = NULL
    BY <2>1
  <2>2. CASE i # NULL
    <3>1. This(i) \in Seq(STRING) /\ f[code_next(i)] \in Seq(STRING)
      <4> HIDE DEF This
      <4> QED
        BY <1>0, <2>2
    <3> HIDE DEF This
    <3>2. This(i) \o f[code_next(i)] \in Seq(STRING)
      BY <3>1, ConcatProperties
    <3> QED
      BY <2>2, <3>2
  <2> HIDE DEF This
  <2> QED
    BY <2>1, <2>2
<1> HIDE DEF This
<1>2. G \in [A -> [[A -> Seq(STRING)] -> Seq(STRING)]]
  BY <1>1
<1>3. Decreasing(A, Seq(STRING), RecordsLeft, G)
  <2>1. ASSUME NEW i \in A, NEW f \in [A -> Seq(STRING)], NEW g \in [A -> Seq(STRING)],
               \A j \in A : RecordsLeft[j] < RecordsLeft[i] => f[j] = g[j]
        PROVE  G[i][f] = G[i][g]
    <3>1. i # NULL => f[code_next(i)] = g[code_next(i)]
      BY <1>0, <2>1
    <3> QED
      BY <3>1
  <2> QED
    BY <2>1 DEF Decreasing
<1>4. \E f : Solves(f, A, Seq(STRING), G)
  <2>1. <<>> \in Seq(STRING)
    OBVIOUS
  <2> HIDE DEF G, A
  <2> QED
    BY <1>0, <1>2, <1>3, <2>1, Recursion
<1>5. PICK e : Solves(e, A, Seq(STRING), G)
  BY <1>4
<1>6. Is(e) /\ e \in [A -> Seq(STRING)]
  <2>1. e \in [A -> Seq(STRING)] /\ \A m \in A : e[m] = G[m][e]
    <3> HIDE DEF G, A
    <3> QED
      BY <1>5 DEF Solves
  <2>2. e = [m \in A |-> e[m]]
    BY <2>1
  <2>3. \A i \in A : e[i] = IF i = NULL THEN <<>> ELSE This(i) \o e[code_next(i)]
    BY <2>1
  <2> QED
    BY <2>1, <2>2, <2>3
<1>7. \E f : Is(f)
  <2> HIDE DEF Is
  <2> QED
    BY <1>6
<1>8. Is(CHOOSE f : Is(f))
  <2> HIDE DEF Is
  <2> QED
    BY <1>7, Zenon
<1>9. PICK f : f = CHOOSE g : Is(g)
  OBVIOUS
<1>10. Is(f)
  <2> HIDE DEF Is
  <2> QED
    BY <1>8, <1>9
<1>11. ValuesIn(d) = f
  BY <1>9, Zenon DEF ValuesIn, This
<1>12. f \in [A -> Seq(STRING)]
  <2>0. /\ RecordsLeft \in [A -> Nat] /\ \A i \in A : i # NULL => code_next(i) \in A /\ RecordsLeft[code_next(i)] < RecordsLeft[i]
    BY <1>0
  <2>1. \A i \in A : f[i] = IF i = NULL THEN <<>> ELSE This(i) \o f[code_next(i)]
    BY <1>10
  <2> DEFINE T == {i \in A : f[i] \notin Seq(STRING)}
  <2>2. T = {}
    <3> SUFFICES ASSUME T # {} PROVE FALSE
      OBVIOUS
    <3>1. T \in SUBSET A /\ T # {}
      OBVIOUS
    <3>2. PICK i \in T : \A j \in A : RecordsLeft[j] < RecordsLeft[i] => j \notin T
      <4> HIDE DEF T, A
      <4> QED
        BY <2>0, <3>1, LeastByMeasure
    <3>3. CASE i = NULL
      <4>1. <<>> \in Seq(STRING)
        OBVIOUS
      <4>2. f[i] = <<>> /\ f[i] \notin Seq(STRING)
        BY <2>1, <3>2, <3>3
      <4> QED
        BY <4>1, <4>2, Zenon
    <3>4. CASE i # NULL
      <4>1. code_next(i) \in A /\ f[code_next(i)] \in Seq(STRING) /\ This(i) \in Seq(STRING)
        BY <1>0, <2>0, <3>2, <3>4
      <4>2. This(i) \o f[code_next(i)] \in Seq(STRING)
        BY <4>1, ConcatProperties
      <4> QED
        BY <2>1, <3>2, <3>4, <4>2
    <3> QED
      BY <3>3, <3>4
  <2>3. f = [m \in A |-> f[m]]
    BY <1>10
  <2> QED
    BY <2>2, <2>3
<1>13. f[NULL] = <<>> /\ \A i \in Recs : f[i] = This(i) \o f[code_next(i)]
  BY <1>0, <1>10
<1>14. ASSUME NEW i \in Recs
       PROVE  LET v == f[code_next(i)]
              IN f[i] = IF Table[i].domain = d THEN <<Table[i].str>> \o v ELSE v
  <2>1. PICK v : v = f[code_next(i)]
    OBVIOUS
  <2>2. v \in Seq(STRING)
    BY <1>0, <1>12, <2>1
  <2>3. <<>> \o v = v
    BY <2>2, ConcatEmptySeq
  <2>4. f[i] = This(i) \o v
    BY <1>13, <2>1
  <2>5. CASE Table[i].domain = d
    BY <2>1, <2>4, <2>5 DEF This
  <2>6. CASE Table[i].domain # d
    BY <2>1, <2>3, <2>4, <2>6 DEF This
  <2> QED
    BY <2>5, <2>6
<1> QED
  BY <1>11, <1>12, <1>13, <1>14

(* The searches, once the library is loaded.                                 *)
LEMMA NamesFound ==
  ASSUME Loaded, NEW i \in Recs
  PROVE  /\ str_search(Table[i].domain, Table[i].str) = i
         /\ code_search(Table[i].domain, Table[i].code) = i
<1>1. codeTree = Recs /\ stringTree = Recs
  BY DEF Loaded, EnumsInv, TreesAgree
<1>2. str_search(Table[i].domain, Table[i].str) = i
  BY <1>1, NameFound DEF Loaded, EnumsInv, DifferentNames
<1>3. code_search(Table[i].domain, Table[i].code) = i
  BY <1>1, CodeFound DEF Loaded, EnumsInv, DifferentCodes, KeyOf
<1> QED
  BY <1>2, <1>3

(* v lists the names of the records of S, by their codes.                     *)
Lists(v, d, S) ==
  LET names == {Table[i].str : i \in {j \in S : Table[j].domain = d}}
  IN /\ v \in Seq(STRING) /\ IsFiniteSet(names)
     /\ Len(v) = Cardinality(names) /\ names = {v[n] : n \in 1 .. Len(v)}
     /\ \A n \in 1 .. Len(v) - 1 : enums_check(d, v[n]) < enums_check(d, v[n + 1])

LEMMA ListsOn ==
  ASSUME Loaded, NEW d, NEW S \in SUBSET Recs, NEW i \in Recs, Table[i].domain = d,
         \A j \in S : KeyOf(i) < KeyOf(j),
         NEW v, Lists(v, d, S)
  PROVE  Lists(<<Table[i].str>> \o v, d, {i} \cup S)
<1> DEFINE Names(Q) == {Table[j].str : j \in {k \in Q : Table[k].domain = d}}
<1>1. /\ v \in Seq(STRING) /\ IsFiniteSet(Names(S))
      /\ Len(v) = Cardinality(Names(S)) /\ Names(S) = {v[n] : n \in 1 .. Len(v)}
      /\ \A n \in 1 .. Len(v) - 1 : enums_check(d, v[n]) < enums_check(d, v[n + 1])
  BY Zenon DEF Lists
<1>2. PICK s : s = Table[i].str
  OBVIOUS
<1>3. PICK w : w = <<s>> \o v
  OBVIOUS
<1>4. /\ w \in Seq(STRING) /\ Len(v) \in Nat /\ Len(w) = 1 + Len(v)
      /\ w[1] = s /\ \A n \in 1 .. Len(v) : w[n + 1] = v[n]
  <2>1. <<s>> \in Seq(STRING) /\ Len(<<s>>) = 1 /\ <<s>>[1] = s
    BY <1>2, Fields
  <2>2. v \in Seq(STRING) /\ Len(v) \in Nat
    BY <1>1, LenProperties
  <2>3. w \in Seq(STRING) /\ Len(w) = 1 + Len(v)
    BY <1>3, <2>1, <2>2, ConcatProperties
  <2>4. \A n \in 1 .. 1 + Len(v) : w[n] = IF n <= 1 THEN <<s>>[n] ELSE v[n - 1]
    BY <1>3, <2>1, <2>2, ConcatProperties
  <2>5. w[1] = s
    BY <2>1, <2>2, <2>4
  <2>6. ASSUME NEW n \in 1 .. Len(v) PROVE w[n + 1] = v[n]
    <3>1. n + 1 \in 1 .. 1 + Len(v) /\ ~ (n + 1 <= 1) /\ (n + 1) - 1 = n
      BY <2>2
    <3> QED
      BY <2>4, <3>1
  <2> QED
    BY <2>2, <2>3, <2>5, <2>6
<1>5. Names({i} \cup S) = Names(S) \cup {s}
  BY <1>2
<1>6. s \notin Names(S)
  <2> SUFFICES ASSUME NEW j \in S, Table[j].domain = d, Table[j].str = s PROVE FALSE
    OBVIOUS
  <2>1. j = i
    BY <1>2 DEF Loaded, EnumsInv, DifferentNames, TreesAgree
  <2>2. KeyOf(i) \in Nat /\ KeyOf(i) < KeyOf(i)
    BY <2>1, Records
  <2> QED
    BY <2>2
<1>7. \A j \in Recs : Table[j].domain = d => enums_check(d, Table[j].str) = Table[j].code
  BY NamesFound DEF enums_check
<1>8. \A a \in Names(S) : enums_check(d, s) < enums_check(d, a)
  <2> SUFFICES ASSUME NEW j \in S, Table[j].domain = d
               PROVE  enums_check(d, s) < enums_check(d, Table[j].str)
    OBVIOUS
  <2>1. enums_check(d, s) = Table[i].code /\ enums_check(d, Table[j].str) = Table[j].code
    BY <1>2, <1>7
  <2>2. KeyOf(i) < KeyOf(j) /\ KeyOf(i) = 1000 * d + Table[i].code
        /\ KeyOf(j) = 1000 * d + Table[j].code
    BY DEF KeyOf, CodeKey
  <2>3. d \in Nat /\ Table[i].code \in Nat /\ Table[j].code \in Nat
    BY Fields
  <2> QED
    BY <2>1, <2>2, <2>3
<1> HIDE DEF Names
<1>9. IsFiniteSet(Names(S) \cup {s}) /\ Len(w) = Cardinality(Names(S) \cup {s})
  <2>1. IsFiniteSet(Names(S) \cup {s})
        /\ Cardinality(Names(S) \cup {s}) = Cardinality(Names(S)) + 1
    BY <1>1, <1>6, FS_AddElement
  <2>2. Len(v) = Cardinality(Names(S))
    BY <1>1
  <2> QED
    BY <1>4, <2>1, <2>2
<1>10. \A n \in 1 .. Len(v) : v[n] \in Names(S)
  <2>1. Names(S) = {v[n] : n \in 1 .. Len(v)}
    BY <1>1
  <2> QED
    BY <2>1, Zenon
<1>11. Names(S) \cup {s} = {w[n] : n \in 1 .. Len(w)}
  <2>1. \A a \in Names(S) : \E n \in 1 .. Len(v) : v[n] = a
    BY <1>1
  <2>2. \A n \in 1 .. Len(v) : v[n] \in Names(S) /\ n + 1 \in 1 .. Len(w)
    <3>1. \A n \in 1 .. Len(v) : n + 1 \in 1 .. Len(w)
      BY <1>4
    <3> QED
      BY <1>10, <3>1
  <2>3. \A n \in 1 .. Len(w) : n = 1 \/ (n - 1 \in 1 .. Len(v) /\ (n - 1) + 1 = n)
    BY <1>4
  <2>4. 1 \in 1 .. Len(w)
    BY <1>4
  <2>5. ASSUME NEW a \in Names(S) PROVE \E n \in 1 .. Len(w) : w[n] = a
    <3>1. PICK n \in 1 .. Len(v) : v[n] = a
      BY <2>1
    <3> QED
      BY <1>4, <2>2, <3>1
  <2>6. ASSUME NEW n \in 1 .. Len(w) PROVE w[n] \in Names(S) \cup {s}
    BY <1>4, <2>2, <2>3
  <2> QED
    BY <1>4, <2>4, <2>5, <2>6
<1>12. ASSUME NEW n \in 1 .. Len(w) - 1
       PROVE  enums_check(d, w[n]) < enums_check(d, w[n + 1])
  <2>1. n \in 1 .. Len(v) /\ w[n + 1] = v[n] /\ v[n] \in Names(S)
    <3>1. n \in 1 .. Len(v)
      BY <1>4
    <3> QED
      BY <1>4, <1>10, <3>1
  <2>2. CASE n = 1
    BY <1>4, <1>8, <2>1, <2>2
  <2>3. CASE n # 1
    <3>1. n - 1 \in 1 .. Len(v) - 1 /\ n - 1 \in 1 .. Len(v) /\ (n - 1) + 1 = n
      BY <1>4, <2>1, <2>3
    <3>2. w[n] = v[n - 1]
      BY <1>4, <3>1
    <3>3. enums_check(d, v[n - 1]) < enums_check(d, v[n])
      BY <1>1, <3>1
    <3> QED
      BY <2>1, <3>2, <3>3
  <2> QED
    BY <2>2, <2>3
<1>13. Lists(w, d, {i} \cup S)
  <2>1. PICK N : N = Names({i} \cup S)
    OBVIOUS
  <2>2. w \in Seq(STRING) /\ IsFiniteSet(N) /\ Len(w) = Cardinality(N)
        /\ N = {w[n] : n \in 1 .. Len(w)}
        /\ \A n \in 1 .. Len(w) - 1 : enums_check(d, w[n]) < enums_check(d, w[n + 1])
    <3>1. N = Names(S) \cup {s}
      BY <1>5, <2>1
    <3> QED
      BY <1>4, <1>9, <1>11, <1>12, <3>1, Zenon
  <2> QED
    BY <2>1, <2>2, Zenon DEF Lists, Names
<1> QED
  BY <1>2, <1>3, <1>13

LEMMA ListsSkip ==
  ASSUME NEW d, NEW S, NEW i, Table[i].domain # d, NEW v, Lists(v, d, S)
  PROVE  Lists(v, d, {i} \cup S)
<1>1. {j \in {i} \cup S : Table[j].domain = d} = {j \in S : Table[j].domain = d}
  OBVIOUS
<1> QED
  BY <1>1, Zenon DEF Lists

LEMMA ValuesList ==
  ASSUME Loaded, NEW d
  PROVE  \A i \in Recs \cup {NULL} : Lists(ValuesIn(d)[i], d, RecordsFrom(i))
<1> DEFINE A == Recs \cup {NULL}
           T == {i \in A : ~ Lists(ValuesIn(d)[i], d, RecordsFrom(i))}
<1> SUFFICES ASSUME T # {} PROVE FALSE
  OBVIOUS
<1>1. PICK i \in T : \A j \in A : RecordsLeft[j] < RecordsLeft[i] => j \notin T
  <2>1. T \in SUBSET A /\ T # {} /\ RecordsLeft \in [A -> Nat]
    BY NextIsLess
  <2> HIDE DEF T, A
  <2> QED
    BY <2>1, LeastByMeasure
<1>2. CASE i = NULL
  <2>1. RecordsFrom(i) = {} /\ ValuesIn(d)[i] = <<>>
    BY <1>2, ValuesAre DEF RecordsFrom
  <2>2. Lists(<<>>, d, {})
    <3>1. <<>> \in Seq(STRING) /\ Len(<<>>) = 0 /\ Cardinality({}) = 0 /\ IsFiniteSet({})
      BY FS_EmptySet
    <3>2. {Table[j].str : j \in {k \in {} : Table[k].domain = d}} = {}
      OBVIOUS
    <3>3. 1 .. 0 = {} /\ 1 .. 0 - 1 = {}
      OBVIOUS
    <3> QED
      BY <3>1, <3>2, <3>3 DEF Lists
  <2> QED
    BY <1>1, <2>1, <2>2
<1>3. CASE i # NULL
  <2>1. i \in Recs
    BY <1>1, <1>3
  <2>2. PICK r : r = code_next(i)
    OBVIOUS
  <2>3. r \in A /\ RecordsFrom(i) = {i} \cup RecordsFrom(r) /\ \A j \in RecordsFrom(r) : KeyOf(i) < KeyOf(j)
    BY <2>1, <2>2, NextRecord
  <2>4. RecordsLeft[r] < RecordsLeft[i]
    BY <2>1, <2>2, NextIsLess
  <2>5. Lists(ValuesIn(d)[r], d, RecordsFrom(r))
    BY <1>1, <2>3, <2>4
  <2>6. ValuesIn(d)[i] = IF Table[i].domain = d THEN <<Table[i].str>> \o ValuesIn(d)[r]
                                               ELSE ValuesIn(d)[r]
    BY <2>1, <2>2, ValuesAre
  <2>7. RecordsFrom(r) \in SUBSET Recs
    BY DEF RecordsFrom
  <2> HIDE DEF T
  <2>8. Lists(ValuesIn(d)[i], d, {i} \cup RecordsFrom(r))
    BY <2>1, <2>3, <2>5, <2>6, <2>7, ListsOn, ListsSkip
  <2>9. Lists(ValuesIn(d)[i], d, RecordsFrom(i))
    BY <2>3, <2>8
  <2> USE DEF T
  <2> QED
    BY <1>1, <2>9
<1> QED
  BY <1>2, <1>3

(* Once the library is loaded, names and codes are mapped to each other and   *)
(* enum() lists all names of an enumeration by their codes (enums.c:172), for *)
(* any table that is loaded without an error: enums_new() fails on a name or *)
(* a code that it knows already, so both are different in each domain.        *)
THEOREM NamesHaveCodes == StyleSpec => []NamesAndCodes
<1>1. EnumsInv /\ Loading => NamesAndCodes
  <2> SUFFICES ASSUME EnumsInv, Loading, stage = "loaded", NEW d \in Domains
               PROVE  LET names == {Table[i].str : i \in {j \in Recs : Table[j].domain = d}}
                          values == enums_values(d)
                      IN /\ \A s \in names : enums_push(d, enums_check(d, s)) = s
                         /\ Len(values) = Cardinality(names)
                         /\ names = {values[n] : n \in 1 .. Len(values)}
                         /\ \A n \in 1 .. Len(values) - 1 :
                              enums_check(d, values[n]) < enums_check(d, values[n + 1])
                         /\ enums_checklist(d, values)
                              = [n \in 1 .. Len(values) |-> enums_check(d, values[n])]
    BY Zenon DEF NamesAndCodes
  <2> DEFINE names == {Table[i].str : i \in {j \in Recs : Table[j].domain = d}}
  <2>1. Loaded /\ d \in Nat
    BY DEF Loading, Loaded, Domains, TEXT_MODE, BG_COLOR, FG_COLOR
  <2>2. PICK first : first = code_first(d, 0)
    OBVIOUS
  <2>3. PICK v : v = ValuesIn(d)[first]
    OBVIOUS
  <2>4. enums_values(d) = v
    BY <2>2, <2>3, Zenon DEF enums_values, ValuesIn
  <2>5. Lists(v, d, RecordsFrom(first))
    BY <2>1, <2>2, <2>3, FirstOfDomain, ValuesList
  <2>6. {j \in RecordsFrom(first) : Table[j].domain = d} = {j \in Recs : Table[j].domain = d}
    BY <2>1, <2>2, FirstOfDomain DEF RecordsFrom
  <2>7. /\ v \in Seq(STRING) /\ Len(v) = Cardinality(names)
        /\ names = {v[n] : n \in 1 .. Len(v)}
        /\ \A n \in 1 .. Len(v) - 1 : enums_check(d, v[n]) < enums_check(d, v[n + 1])
    BY <2>5, <2>6, Zenon DEF Lists
  <2>8. \A s \in names : enums_push(d, enums_check(d, s)) = s /\ str_search(d, s) # NULL
    <3> SUFFICES ASSUME NEW i \in Recs, Table[i].domain = d
                 PROVE  /\ enums_push(d, enums_check(d, Table[i].str)) = Table[i].str
                        /\ str_search(d, Table[i].str) # NULL
      OBVIOUS
    <3>1. str_search(d, Table[i].str) = i /\ code_search(d, Table[i].code) = i
      BY <2>1, NamesFound
    <3> QED
      BY <3>1, Records DEF enums_push, enums_check
  <2>9. enums_checklist(d, v) = [n \in 1 .. Len(v) |-> enums_check(d, v[n])]
    <3>1. DOMAIN v = 1 .. Len(v)
      BY <2>7, LenProperties
    <3>2. \A n \in 1 .. Len(v) : v[n] \in names
      BY <2>7, Zenon
    <3> HIDE DEF names
    <3>3. ~ \E n \in DOMAIN v : str_search(d, v[n]) = NULL
      BY <2>8, <3>1, <3>2
    <3> QED
      BY <3>1, <3>3 DEF enums_checklist
  <2> QED
    BY <2>4, <2>7, <2>8, <2>9, Zenon
<1> QED
  BY <1>1, EnumsInvariant, LoadingInvariant, PTL

(* The codes of colors are not those of modes.                               *)
Apart(rec) ==
  /\ rec.domain = FG_COLOR => rec.code \in (30 .. 37) \cup (90 .. 97)
  /\ rec.domain = BG_COLOR => rec.code \in (40 .. 47) \cup (100 .. 107)
  /\ rec.domain = TEXT_MODE => IF rec.str = "normal" THEN rec.code = 22 ELSE rec.code \in 1 .. 7

CodesApart == \A i \in Recs : Apart(Table[i])

Words == {Modes[i] : i \in 1 .. 7} \cup {Colors[i] : i \in 1 .. 16}
Distinct == {rec \in [domain : Domains, code : Nat, str : Words] : Apart(rec)}

LEMMA FunctionIsSequence ==
  ASSUME NEW S, NEW n \in Nat, NEW f \in [1 .. n -> S]
  PROVE  f \in Seq(S) /\ Len(f) = n
<1>1. f \in Seq(S)
  <2>1. Seq(S) = UNION {[1 .. k -> S] : k \in Nat}
    BY SeqDef, Zenon
  <2> QED
    BY <2>1
<1>2. 1 .. n = 1 .. Len(f) /\ Len(f) \in Nat
  BY <1>1, LenProperties
<1> QED
  BY <1>1, <1>2

LEMMA BackgroundsApart == ColorRecords(BG_COLOR, 40, 100) \in Seq(Distinct)
<1>1. ColorRecords(BG_COLOR, 40, 100)
        = [i \in 1 .. 16 |-> Record(BG_COLOR, IF i <= 8 THEN 40 + i - 1 ELSE 100 + i - 9, Colors[i])]
  <2>1. Len(Colors) = 16
    BY DEF Colors
  <2> QED
    BY <2>1 DEF ColorRecords
<1>2. \A i \in 1 .. 16 :
        Record(BG_COLOR, IF i <= 8 THEN 40 + i - 1 ELSE 100 + i - 9, Colors[i]) \in Distinct
  <2> SUFFICES ASSUME NEW i \in 1 .. 16, NEW c, c = IF i <= 8 THEN 40 + i - 1 ELSE 100 + i - 9
               PROVE  Record(BG_COLOR, c, Colors[i]) \in Distinct
    BY Zenon
  <2>1. c \in Nat /\ c \in (40 .. 47) \cup (100 .. 107)
    OBVIOUS
  <2>2. Colors[i] \in Words
    BY Zenon DEF Words
  <2>3. BG_COLOR \in Domains /\ BG_COLOR # FG_COLOR /\ BG_COLOR # TEXT_MODE
    BY DEF Domains, BG_COLOR, FG_COLOR, TEXT_MODE
  <2> QED
    BY <2>1, <2>2, <2>3 DEF Distinct, Apart, Record
<1> QED
  BY <1>1, <1>2, FunctionIsSequence

LEMMA ForegroundsApart == ColorRecords(FG_COLOR, 30, 90) \in Seq(Distinct)
<1>1. ColorRecords(FG_COLOR, 30, 90)
        = [i \in 1 .. 16 |-> Record(FG_COLOR, IF i <= 8 THEN 30 + i - 1 ELSE 90 + i - 9, Colors[i])]
  <2>1. Len(Colors) = 16
    BY DEF Colors
  <2> QED
    BY <2>1 DEF ColorRecords
<1>2. \A i \in 1 .. 16 :
        Record(FG_COLOR, IF i <= 8 THEN 30 + i - 1 ELSE 90 + i - 9, Colors[i]) \in Distinct
  <2> SUFFICES ASSUME NEW i \in 1 .. 16, NEW c, c = IF i <= 8 THEN 30 + i - 1 ELSE 90 + i - 9
               PROVE  Record(FG_COLOR, c, Colors[i]) \in Distinct
    BY Zenon
  <2>1. c \in Nat /\ c \in (30 .. 37) \cup (90 .. 97)
    OBVIOUS
  <2>2. Colors[i] \in Words
    BY Zenon DEF Words
  <2>3. FG_COLOR \in Domains /\ BG_COLOR # FG_COLOR /\ FG_COLOR # TEXT_MODE
    BY DEF Domains, BG_COLOR, FG_COLOR, TEXT_MODE
  <2> QED
    BY <2>1, <2>2, <2>3 DEF Distinct, Apart, Record
<1> QED
  BY <1>1, <1>2, FunctionIsSequence

LEMMA ModesApart ==
  [i \in 1 .. Len(Modes) |-> Record(TEXT_MODE, ModeCodes[i], Modes[i])] \in Seq(Distinct)
<1>1. Len(Modes) = 7
  BY DEF Modes
<1>2. ASSUME NEW i \in 1 .. 7 PROVE Record(TEXT_MODE, ModeCodes[i], Modes[i]) \in Distinct
  <2>1. /\ Modes[1] = "normal" /\ ModeCodes[1] = 22
        /\ Modes[2] # "normal" /\ Modes[3] # "normal" /\ Modes[4] # "normal"
        /\ Modes[5] # "normal" /\ Modes[6] # "normal" /\ Modes[7] # "normal"
    BY DEF Modes, ModeCodes
  <2>2. /\ ModeCodes[2] = 1 /\ ModeCodes[3] = 2 /\ ModeCodes[4] = 3 /\ ModeCodes[5] = 4
        /\ ModeCodes[6] = 5 /\ ModeCodes[7] = 7
    BY DEF ModeCodes
  <2>3. i = 1 \/ i = 2 \/ i = 3 \/ i = 4 \/ i = 5 \/ i = 6 \/ i = 7
    OBVIOUS
  <2>4. IF Modes[i] = "normal" THEN ModeCodes[i] = 22 ELSE ModeCodes[i] \in 1 .. 7
    BY <2>1, <2>2, <2>3
  <2>5. Modes[i] \in Words
    BY Zenon DEF Words
  <2>6. TEXT_MODE \in Domains /\ TEXT_MODE # FG_COLOR /\ BG_COLOR # TEXT_MODE
    BY DEF Domains, BG_COLOR, FG_COLOR, TEXT_MODE
  <2> QED
    BY <2>4, <2>5, <2>6 DEF Distinct, Apart, Record
<1> QED
  BY <1>1, <1>2, FunctionIsSequence

LEMMA EnumerationsApart == Table = Enumerations => CodesApart
<1>1. Enumerations \in Seq(Distinct)
  BY ModesApart, BackgroundsApart, ForegroundsApart, ConcatProperties DEF Enumerations
<1>2. \A i \in 1 .. Len(Enumerations) : Enumerations[i] \in Distinct
  BY <1>1, ElementOfSeq
<1> QED
  BY <1>2, Zenon DEF CodesApart, Recs, Distinct

Terminals == [fg : Int, bg : Int, attributes : SUBSET Int]

LEMMA RenditionType ==
  ASSUME NEW t \in Terminals, NEW c \in Int
  PROVE  /\ Rendition(t, c) \in Terminals
         /\ c \in (30 .. 37) \cup (90 .. 97) => Rendition(t, c) = [t EXCEPT !.fg = c]
         /\ c \in (40 .. 47) \cup (100 .. 107) => Rendition(t, c) = [t EXCEPT !.bg = c]
         /\ c = 22 => Rendition(t, c) = [t EXCEPT !.attributes = @ \ {1, 2}]
         /\ c \in 1 .. 7 => Rendition(t, c) = [t EXCEPT !.attributes = @ \cup {c}]
<1>1. /\ [t EXCEPT !.fg = c] \in Terminals /\ [t EXCEPT !.bg = c] \in Terminals
      /\ [t EXCEPT !.attributes = @ \ {1, 2}] \in Terminals
      /\ [t EXCEPT !.attributes = @ \cup {c}] \in Terminals
  BY DEF Terminals
<1>2. CASE c \in (30 .. 37) \cup (90 .. 97)
  BY <1>1, <1>2 DEF Rendition
<1>3. CASE c \in (40 .. 47) \cup (100 .. 107)
  BY <1>1, <1>3 DEF Rendition
<1>4. CASE c = 22
  BY <1>1, <1>4 DEF Rendition
<1>5. CASE c \in 1 .. 7
  BY <1>1, <1>5 DEF Rendition
<1>6. CASE /\ c \notin (30 .. 37) \cup (90 .. 97) /\ c \notin (40 .. 47) \cup (100 .. 107)
           /\ c # 22 /\ c \notin 1 .. 7
  BY <1>6 DEF Rendition
<1> QED
  BY <1>2, <1>3, <1>4, <1>5, <1>6

(* The terminal after each of the numbers.                                   *)
After(t, codes) ==
  CHOOSE after :
    after = [i \in 0 .. Len(codes) |-> IF i = 0 THEN t ELSE Rendition(after[i - 1], codes[i])]

LEMMA ShownBySteps ==
  ASSUME NEW t \in Terminals, NEW codes \in Seq(Int)
  PROVE  /\ Shown(t, codes) = After(t, codes)[Len(codes)]
         /\ After(t, codes)[0] = t
         /\ \A i \in 1 .. Len(codes) :
              After(t, codes)[i] = Rendition(After(t, codes)[i - 1], codes[i])
<1> DEFINE A == 0 .. Len(codes)
           mu == [i \in A |-> i]
           Is(f) == f = [i \in A |-> IF i = 0 THEN t ELSE Rendition(f[i - 1], codes[i])]
           G == [i \in A |-> [f \in [A -> Terminals] |->
                   IF i = 0 THEN t ELSE Rendition(f[i - 1], codes[i])]]
<1>0. /\ Len(codes) \in Nat /\ mu \in [A -> Nat]
      /\ \A i \in A : i # 0 => i - 1 \in A /\ mu[i - 1] < mu[i] /\ i \in 1 .. Len(codes)
                               /\ codes[i] \in Int
  <2>1. Len(codes) \in Nat
    BY LenProperties
  <2>2. \A i \in A : i # 0 => i - 1 \in A /\ mu[i - 1] < mu[i] /\ i \in 1 .. Len(codes)
    BY <2>1
  <2>3. \A i \in 1 .. Len(codes) : codes[i] \in Int
    BY ElementOfSeq
  <2>4. mu \in [A -> Nat]
    BY <2>1
  <2> HIDE DEF mu, A
  <2> QED
    BY <2>1, <2>2, <2>3, <2>4
<1>1. ASSUME NEW i \in A, NEW f \in [A -> Terminals]
      PROVE  (IF i = 0 THEN t ELSE Rendition(f[i - 1], codes[i])) \in Terminals
  <2>1. CASE i = 0
    BY <2>1
  <2>2. CASE i # 0
    <3>1. f[i - 1] \in Terminals /\ codes[i] \in Int
      BY <1>0, <2>2
    <3>2. Rendition(f[i - 1], codes[i]) \in Terminals
      BY <3>1, RenditionType
    <3> QED
      BY <2>2, <3>2
  <2> QED
    BY <2>1, <2>2
<1>2. G \in [A -> [[A -> Terminals] -> Terminals]]
  BY <1>1
<1>3. Decreasing(A, Terminals, mu, G)
  <2>1. ASSUME NEW i \in A, NEW f \in [A -> Terminals], NEW g \in [A -> Terminals],
               \A j \in A : mu[j] < mu[i] => f[j] = g[j]
        PROVE  G[i][f] = G[i][g]
    <3>1. i # 0 => f[i - 1] = g[i - 1]
      BY <1>0, <2>1
    <3> QED
      BY <3>1
  <2> HIDE DEF G, mu, A
  <2> QED
    BY <2>1 DEF Decreasing
<1>4. \E f : Solves(f, A, Terminals, G)
  <2> HIDE DEF G, A, mu
  <2> QED
    BY <1>0, <1>2, <1>3, Recursion
<1>5. PICK e : Solves(e, A, Terminals, G)
  BY <1>4
<1>6. Is(e)
  <2>1. e \in [A -> Terminals] /\ \A m \in A : e[m] = G[m][e]
    <3> HIDE DEF G, A
    <3> QED
      BY <1>5 DEF Solves
  <2>2. e = [m \in A |-> e[m]]
    BY <2>1
  <2>3. \A i \in A : e[i] = IF i = 0 THEN t ELSE Rendition(e[i - 1], codes[i])
    BY <2>1
  <2> QED
    BY <2>1, <2>2, <2>3
<1>7. \E f : Is(f)
  <2> HIDE DEF Is
  <2> QED
    BY <1>6
<1>8. Is(CHOOSE f : Is(f))
  <2> HIDE DEF Is
  <2> QED
    BY <1>7, Zenon
<1>9. PICK f : f = CHOOSE g : Is(g)
  OBVIOUS
<1>10. Is(f)
  <2> HIDE DEF Is
  <2> QED
    BY <1>8, <1>9
<1>11. After(t, codes) = f
  BY <1>9, Zenon DEF After
<1>12. Shown(t, codes) = f[Len(codes)]
  BY <1>9, Zenon DEF Shown
<1>13. f[0] = t /\ \A i \in 1 .. Len(codes) : f[i] = Rendition(f[i - 1], codes[i])
  BY <1>0, <1>10
<1> QED
  BY <1>11, <1>12, <1>13

LEMMA NothingShown ==
  ASSUME NEW t \in Terminals
  PROVE  Shown(t, <<>>) = t
<1>1. PICK s : s = <<>>
  OBVIOUS
<1>2. s \in Seq(Int) /\ Len(s) = 0
  BY <1>1
<1>3. Shown(t, s) = After(t, s)[Len(s)] /\ After(t, s)[0] = t
  BY <1>2, ShownBySteps, Zenon
<1> QED
  BY <1>1, <1>2, <1>3

LEMMA OneMoreShown ==
  ASSUME NEW t \in Terminals, NEW p \in Seq(Int), NEW b \in Int
  PROVE  Shown(t, p \o <<b>>) = Rendition(Shown(t, p), b)
<1>1. PICK w : w = p \o <<b>>
  OBVIOUS
<1>2. /\ w \in Seq(Int) /\ Len(p) \in Nat /\ Len(w) = Len(p) + 1
      /\ w[Len(p) + 1] = b /\ \A i \in 1 .. Len(p) : w[i] = p[i]
  BY <1>1
<1>3. /\ After(t, p)[0] = t
      /\ \A i \in 1 .. Len(p) : After(t, p)[i] = Rendition(After(t, p)[i - 1], p[i])
      /\ Shown(t, p) = After(t, p)[Len(p)]
  BY ShownBySteps, Zenon
<1>4. /\ After(t, w)[0] = t
      /\ \A i \in 1 .. Len(w) : After(t, w)[i] = Rendition(After(t, w)[i - 1], w[i])
      /\ Shown(t, w) = After(t, w)[Len(w)]
  BY <1>2, ShownBySteps, Zenon
<1> DEFINE T == {i \in 0 .. Len(p) : After(t, w)[i] # After(t, p)[i]}
<1>5. T = {}
  <2> SUFFICES ASSUME T # {} PROVE FALSE
    OBVIOUS
  <2>1. T \in SUBSET Nat /\ T # {}
    BY <1>2
  <2>2. PICK i \in T : \A j \in T : i <= j
    <3> HIDE DEF T
    <3> QED
      BY <2>1, LeastNatural
  <2>3. i # 0 /\ i \in 1 .. Len(p) /\ i \in 1 .. Len(w)
    BY <1>2, <1>3, <1>4, <2>2
  <2>4. i - 1 \in 0 .. Len(p) /\ ~ (i <= i - 1)
    BY <1>2, <2>3
  <2>5. After(t, w)[i - 1] = After(t, p)[i - 1]
    BY <2>2, <2>4
  <2>6. After(t, w)[i] = After(t, p)[i]
    BY <1>2, <1>3, <1>4, <2>3, <2>5
  <2> QED
    BY <2>2, <2>6
<1>6. After(t, w)[Len(p)] = After(t, p)[Len(p)]
  <2>1. Len(p) \in 0 .. Len(p)
    BY <1>2
  <2> QED
    BY <1>5, <2>1
<1>7. Len(p) + 1 \in 1 .. Len(w) /\ (Len(p) + 1) - 1 = Len(p)
  BY <1>2
<1>8. After(t, w)[Len(p) + 1] = Rendition(After(t, w)[Len(p)], b)
  BY <1>2, <1>4, <1>7
<1> QED
  BY <1>1, <1>2, <1>3, <1>4, <1>6, <1>8

(* The terminal after one part of a style.                                   *)
WithPart(t, d, name) == IF name = None THEN t ELSE Rendition(t, enums_check(d, name))

LEMMA OnePartShown ==
  ASSUME NEW t \in Terminals, NEW p \in Seq(Int), NEW d, NEW name,
         name # None => enums_check(d, name) \in Int
  PROVE  LET q == p \o (IF name = None THEN <<>> ELSE <<enums_check(d, name)>>)
         IN q \in Seq(Int) /\ Shown(t, q) = WithPart(Shown(t, p), d, name)
<1>1. CASE name = None
  <2>1. p \o <<>> = p
    BY ConcatEmptySeq
  <2> QED
    BY <1>1, <2>1 DEF WithPart
<1>2. CASE name # None
  <2>1. PICK b : b = enums_check(d, name)
    OBVIOUS
  <2>2. b \in Int
    BY <1>2, <2>1
  <2>3. p \o <<b>> \in Seq(Int)
    BY <2>2
  <2>4. Shown(t, p \o <<b>>) = Rendition(Shown(t, p), b)
    BY <2>2, OneMoreShown
  <2> QED
    BY <1>2, <2>1, <2>3, <2>4, Zenon DEF WithPart
<1> QED
  BY <1>1, <1>2

LEMMA EscapeShown ==
  ASSUME NEW t \in Terminals, NEW fg, NEW mode, NEW bg,
         mode # None => enums_check(TEXT_MODE, mode) \in Int,
         bg # None => enums_check(BG_COLOR, bg) \in Int,
         fg # None => enums_check(FG_COLOR, fg) \in Int
  PROVE  Shown(t, Escape(fg, mode, bg))
           = WithPart(WithPart(WithPart(t, TEXT_MODE, mode), BG_COLOR, bg), FG_COLOR, fg)
<1> DEFINE part(d, name) == IF name = None THEN <<>> ELSE <<enums_check(d, name)>>
<1>1. PICK p : p = part(TEXT_MODE, mode)
  OBVIOUS
<1>2. p \in Seq(Int) /\ Shown(t, p) = WithPart(t, TEXT_MODE, mode)
  <2>1. <<>> \in Seq(Int)
    OBVIOUS
  <2>2. /\ <<>> \o part(TEXT_MODE, mode) \in Seq(Int)
        /\ Shown(t, <<>> \o part(TEXT_MODE, mode)) = WithPart(Shown(t, <<>>), TEXT_MODE, mode)
    <3>1. PICK e : e = <<>>
      OBVIOUS
    <3>2. e \in Seq(Int)
      BY <2>1, <3>1
    <3>3. /\ e \o part(TEXT_MODE, mode) \in Seq(Int)
          /\ Shown(t, e \o part(TEXT_MODE, mode)) = WithPart(Shown(t, e), TEXT_MODE, mode)
      BY <3>2, OnePartShown
    <3> QED
      BY <3>1, <3>3, Zenon
  <2>3. p \in Seq(Int)
    <3>1. CASE mode = None
      BY <1>1, <3>1
    <3>2. CASE mode # None
      BY <1>1, <3>2
    <3> QED
      BY <3>1, <3>2
  <2>4. <<>> \o p = p
    BY <2>3, ConcatEmptySeq
  <2> HIDE DEF part
  <2> QED
    BY <1>1, <2>2, <2>3, <2>4, NothingShown
<1>3. PICK q : q = p \o part(BG_COLOR, bg)
  OBVIOUS
<1>4. q \in Seq(Int) /\ Shown(t, q) = WithPart(Shown(t, p), BG_COLOR, bg)
  BY <1>2, <1>3, OnePartShown
<1>5. PICK r : r = q \o part(FG_COLOR, fg)
  OBVIOUS
<1>6. Shown(t, r) = WithPart(Shown(t, q), FG_COLOR, fg)
  BY <1>4, <1>5, OnePartShown
<1>7. Escape(fg, mode, bg) = r
  BY <1>1, <1>3, <1>5, Zenon DEF Escape
<1> QED
  BY <1>2, <1>4, <1>6, <1>7

(* What each part changes.                                                   *)
LEMMA KnownName ==
  ASSUME EnumsInv, NEW d, NEW name, Known(d, name), name # None
  PROVE  /\ str_search(d, name) \in Recs
         /\ Table[str_search(d, name)].domain = d /\ Table[str_search(d, name)].str = name
         /\ enums_check(d, name) = Table[str_search(d, name)].code
<1>1. str_search(d, name) # NULL /\ stringTree \subseteq Recs
  BY DEF Known, EnumsInv, TreesAgree
<1> QED
  BY <1>1, NameFound DEF enums_check

LEMMA ModeShown ==
  ASSUME NEW t \in Terminals, NEW name, CodesApart, EnumsInv, Known(TEXT_MODE, name)
  PROVE  LET u == WithPart(t, TEXT_MODE, name)
         IN /\ u \in Terminals /\ u.fg = t.fg /\ u.bg = t.bg
            /\ name = None => u.attributes = t.attributes
            /\ name # None => enums_check(TEXT_MODE, name) \in Int
            /\ name \notin {None, "normal"} => enums_check(TEXT_MODE, name) \in u.attributes
<1>1. CASE name = None
  BY <1>1 DEF WithPart
<1>2. CASE name # None
  <2>1. PICK c : c = enums_check(TEXT_MODE, name)
    OBVIOUS
  <2>2. IF name = "normal" THEN c = 22 ELSE c \in 1 .. 7
    BY KnownName, <1>2, <2>1 DEF CodesApart, Apart
  <2>3. c \in Int /\ (c = 22 \/ c \in 1 .. 7) /\ (name # "normal" => c \in 1 .. 7)
    BY <2>2
  <2>4. /\ Rendition(t, c) \in Terminals
        /\ c = 22 => Rendition(t, c) = [t EXCEPT !.attributes = @ \ {1, 2}]
        /\ c \in 1 .. 7 => Rendition(t, c) = [t EXCEPT !.attributes = @ \cup {c}]
    BY <2>3, RenditionType
  <2>5. WithPart(t, TEXT_MODE, name) = Rendition(t, c)
    BY <1>2, <2>1 DEF WithPart
  <2> QED
    BY <1>2, <2>1, <2>3, <2>4, <2>5 DEF Terminals
<1> QED
  BY <1>1, <1>2

LEMMA BackgroundShown ==
  ASSUME NEW t \in Terminals, NEW name, CodesApart, EnumsInv, Known(BG_COLOR, name)
  PROVE  LET u == WithPart(t, BG_COLOR, name)
         IN /\ u \in Terminals /\ u.fg = t.fg /\ u.attributes = t.attributes
            /\ name # None => enums_check(BG_COLOR, name) \in Int
            /\ u.bg = IF name = None THEN t.bg ELSE enums_check(BG_COLOR, name)
<1>1. CASE name = None
  BY <1>1 DEF WithPart
<1>2. CASE name # None
  <2>1. PICK c : c = enums_check(BG_COLOR, name)
    OBVIOUS
  <2>2. c \in (40 .. 47) \cup (100 .. 107)
    BY KnownName, <1>2, <2>1 DEF CodesApart, Apart
  <2>3. Rendition(t, c) \in Terminals /\ Rendition(t, c) = [t EXCEPT !.bg = c] /\ c \in Int
    BY <2>2, RenditionType
  <2>4. WithPart(t, BG_COLOR, name) = Rendition(t, c)
    BY <1>2, <2>1 DEF WithPart
  <2> QED
    BY <1>2, <2>1, <2>3, <2>4 DEF Terminals
<1> QED
  BY <1>1, <1>2

LEMMA ForegroundShown ==
  ASSUME NEW t \in Terminals, NEW name, CodesApart, EnumsInv, Known(FG_COLOR, name)
  PROVE  LET u == WithPart(t, FG_COLOR, name)
         IN /\ u \in Terminals /\ u.bg = t.bg /\ u.attributes = t.attributes
            /\ name # None => enums_check(FG_COLOR, name) \in Int
            /\ u.fg = IF name = None THEN t.fg ELSE enums_check(FG_COLOR, name)
<1>1. CASE name = None
  BY <1>1 DEF WithPart
<1>2. CASE name # None
  <2>1. PICK c : c = enums_check(FG_COLOR, name)
    OBVIOUS
  <2>2. c \in (30 .. 37) \cup (90 .. 97)
    BY KnownName, <1>2, <2>1 DEF CodesApart, Apart
  <2>3. Rendition(t, c) \in Terminals /\ Rendition(t, c) = [t EXCEPT !.fg = c] /\ c \in Int
    BY <2>2, RenditionType
  <2>4. WithPart(t, FG_COLOR, name) = Rendition(t, c)
    BY <1>2, <2>1 DEF WithPart
  <2> QED
    BY <1>2, <2>1, <2>3, <2>4 DEF Terminals
<1> QED
  BY <1>1, <1>2

(* What set_text_style() shows.                                              *)
StyleEffect(fg, mode, bg) ==
  /\ terminal'.fg = IF fg = None THEN terminal.fg ELSE enums_check(FG_COLOR, fg)
  /\ terminal'.bg = IF bg = None THEN terminal.bg ELSE enums_check(BG_COLOR, bg)
  /\ mode = None => terminal'.attributes = terminal.attributes
  /\ mode \notin {None, "normal"} => enums_check(TEXT_MODE, mode) \in terminal'.attributes

LEMMA StyleShown ==
  ASSUME CodesApart, EnumsInv, terminal \in Terminals, NEW fg, NEW mode, NEW bg,
         Set_text_style(fg, mode, bg)
  PROVE  terminal' \in Terminals /\ StyleEffect(fg, mode, bg)
<1>1. /\ Known(FG_COLOR, fg) /\ Known(TEXT_MODE, mode) /\ Known(BG_COLOR, bg)
      /\ terminal' = Shown(terminal, Escape(fg, mode, bg))
  BY DEF Set_text_style
<1>2. PICK u : u = WithPart(terminal, TEXT_MODE, mode)
  OBVIOUS
<1>3. /\ u \in Terminals /\ u.fg = terminal.fg /\ u.bg = terminal.bg
      /\ mode = None => u.attributes = terminal.attributes
      /\ mode # None => enums_check(TEXT_MODE, mode) \in Int
      /\ mode \notin {None, "normal"} => enums_check(TEXT_MODE, mode) \in u.attributes
  BY <1>1, <1>2, ModeShown
<1>4. PICK v : v = WithPart(u, BG_COLOR, bg)
  OBVIOUS
<1>5. /\ v \in Terminals /\ v.fg = u.fg /\ v.attributes = u.attributes
      /\ bg # None => enums_check(BG_COLOR, bg) \in Int
      /\ v.bg = IF bg = None THEN u.bg ELSE enums_check(BG_COLOR, bg)
  BY <1>1, <1>3, <1>4, BackgroundShown
<1>6. PICK w : w = WithPart(v, FG_COLOR, fg)
  OBVIOUS
<1>7. /\ w \in Terminals /\ w.bg = v.bg /\ w.attributes = v.attributes
      /\ fg # None => enums_check(FG_COLOR, fg) \in Int
      /\ w.fg = IF fg = None THEN v.fg ELSE enums_check(FG_COLOR, fg)
  BY <1>1, <1>5, <1>6, ForegroundShown
<1>8. Shown(terminal, Escape(fg, mode, bg)) = w
  BY <1>2, <1>3, <1>4, <1>5, <1>6, <1>7, EscapeShown
<1>9. terminal' = w
  BY <1>1, <1>8
<1> QED
  BY <1>3, <1>5, <1>7, <1>9 DEF StyleEffect

(* A style changes what it names and leaves the rest as it is                 *)
(* (doc/textstyle.adoc:19), whatever names the application uses: for the     *)
(* table of the library, in which no color has the code of a mode            *)
(* (utils.c:268, enums.h:51).                                               *)
THEOREM StylesAreShown == ASSUME Table = Enumerations PROVE StyleSpec => StyleIsShown
<1>1. CodesApart
  BY EnumerationsApart
<1>2. StyleInit => terminal \in Terminals
  BY DEF StyleInit, Default, Terminals
<1>3. EnumsInv /\ terminal \in Terminals /\ [StyleNext]_styleVars => (terminal \in Terminals)'
  <2> SUFFICES ASSUME EnumsInv, terminal \in Terminals, [StyleNext]_styleVars
               PROVE  terminal' \in Terminals
    OBVIOUS
  <2>1. CASE Reset_text_style
    BY <2>1 DEF Reset_text_style, Default, Terminals
  <2>2. CASE terminal' = terminal
    BY <2>2
  <2>3. CASE \E fg \in FgNames \cup {None}, mode \in ModeNames \cup {None}, bg \in BgNames \cup {None} :
                Set_text_style(fg, mode, bg)
    BY <1>1, <2>3, StyleShown, Zenon
  <2> QED
    BY <2>1, <2>2, <2>3 DEF StyleNext, Library, Text_style_enable, styleVars
<1>4. EnumsInv /\ terminal \in Terminals /\ [StyleNext]_styleVars =>
        [\A fg \in FgNames \cup {None}, mode \in ModeNames \cup {None}, bg \in BgNames \cup {None} :
           Set_text_style(fg, mode, bg) => StyleEffect(fg, mode, bg)]_styleVars
  BY <1>1, StyleShown, Zenon
<1> QED
  BY <1>2, <1>3, <1>4, EnumsInvariant, PTL DEF StyleSpec, StyleIsShown, StyleEffect

==============================================================================
