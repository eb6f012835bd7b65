------------------------------- MODULE RedBlack -------------------------------
(***************************************************************************)
(* The red-black trees of src/tree.h: RB_INSERT and RB_REMOVE with the loops *)
(* that restore the balance, a step for each iteration, and the searches.    *)
(* No other code runs in between, but each iteration must leave a search     *)
(* tree that holds the same elements, or the next one works on ruins.        *)
(*                                                                          *)
(* The macros treat left and right alike, so a side is a parameter here.     *)
(* The fields of an element that is not in a tree are not read before RB_SET *)
(* assigns them: they are forgotten when it is removed.                      *)
(***************************************************************************)
EXTENDS Integers, Sequences, FiniteSets, Pointers

CONSTANTS
  Node,   \* the elements that may be inserted
  Key     \* what cmp() compares, for each

ASSUME NodesAndKeys == Node \subseteq Nat \ {0} /\ Key \in [Node -> Int]

Sides == {"left", "right"}
Other(s) == IF s = "left" THEN "right" ELSE "left"

Pointer == Node \cup {NULL}

VARIABLES
  tree,     \* the root, and the rb_entry of each element
  pc,       \* "idle", or in "insert_color" or "remove_color"
  elm, up   \* the locals elm and parent of these

vars == <<tree, pc, elm, up>>

Empty ==
  [root |-> NULL,
   child |-> [s \in Sides |-> [n \in Node |-> NULL]],
   parent |-> [n \in Node |-> NULL],
   color |-> [n \in Node |-> "black"]]

Init == tree = Empty /\ pc = "idle" /\ elm = NULL /\ up = NULL

-----------------------------------------------------------------------------
(* The side of n on which the key k is to be found.                         *)
Side(k, n) == IF k < Key[n] THEN "left" ELSE "right"

IsRed(t, n) == n # NULL /\ t.color[n] = "red"

Paint(t, n, c) == IF n = NULL THEN t ELSE [t EXCEPT !.color[n] = c]

(* RB_SET_BLACKRED.                                                         *)
PaintBlackRed(t, black, red) == Paint(Paint(t, black, "black"), red, "red")

SetParent(t, n, p) == IF n = NULL THEN t ELSE [t EXCEPT !.parent[n] = p]

SetChild(t, n, s, c) == [t EXCEPT !.child[s][n] = c]

(* Puts m where the parent p of n (the head, if there is none) points to n.  *)
Replace(t, p, n, m) ==
  IF p = NULL THEN [t EXCEPT !.root = m]
              ELSE SetChild(t, p, IF t.child["left"][p] = n THEN "left" ELSE "right", m)

(* RB_ROTATE_LEFT and RB_ROTATE_RIGHT: x goes down on the side s.           *)
Rotate(t, x, s) ==
  LET y == t.child[Other(s)][x]
      middle == t.child[s][y]
      p == t.parent[x]
      moved == SetParent(SetChild(t, x, Other(s), middle), middle, x)
      turned == Replace(SetParent(moved, y, p), p, x, y)
  IN SetParent(SetChild(turned, y, s, x), x, y)

(* The last element on the way from n to the side s.                        *)
Extreme(t, n, s) ==
  LET end[m \in Node] == IF t.child[s][m] = NULL THEN m ELSE end[t.child[s][m]]
  IN end[n]

-----------------------------------------------------------------------------
(* RB_FIND, RB_NFIND, RB_MINMAX; RB_NEXT and RB_PREV.                       *)
Find(t, k) ==
  LET down[n \in Pointer] ==
        IF n = NULL THEN NULL
        ELSE IF Key[n] = k THEN n ELSE down[t.child[Side(k, n)][n]]
  IN down[t.root]

NFindBelow(t, k) ==  \* a wrong variant: forgets where it turned left
  LET down[n \in Pointer] ==
        IF n = NULL THEN NULL
        ELSE IF Key[n] = k \/ t.child[Side(k, n)][n] = NULL THEN n
        ELSE down[t.child[Side(k, n)][n]]
  IN down[t.root]

NFind(t, k) ==
  LET down[n \in Pointer] ==
        IF n = NULL THEN NULL
        ELSE IF Key[n] = k THEN n
        ELSE LET res == down[t.child[Side(k, n)][n]]
             IN IF res = NULL /\ k < Key[n] THEN n ELSE res
  IN down[t.root]

MinMax(t, s) == IF t.root = NULL THEN NULL ELSE Extreme(t, t.root, s)

(* The next element on the side s of n.                                     *)
Step(t, n, s) ==
  LET climb[m \in Node] ==
        LET p == t.parent[m]
        IN IF p = NULL \/ t.child[s][p] # m THEN p ELSE climb[p]
  IN IF t.child[s][n] # NULL THEN Extreme(t, t.child[s][n], Other(s)) ELSE climb[n]

(* RB_FOREACH from its first element on, and RB_FOREACH_REVERSE.            *)
Walk(t, s) ==
  LET from[n \in Pointer] == IF n = NULL THEN <<>> ELSE <<n>> \o from[Step(t, n, s)]
  IN from[MinMax(t, Other(s))]

-----------------------------------------------------------------------------
(* RB_INSERT.  If the key is there it returns the element that has it.      *)
Insert(n) ==
  /\ pc = "idle"
  /\ LET last[m \in Node] ==
           LET c == tree.child[Side(Key[n], m)][m]
           IN IF Key[m] = Key[n] \/ c = NULL THEN m ELSE last[c]
         p == IF tree.root = NULL THEN NULL ELSE last[tree.root]
         new == Paint(SetParent(tree, n, p), n, "red")
     IN \/ p = NULL /\ tree' = [new EXCEPT !.root = n]
        \/ /\ p # NULL /\ Key[p] # Key[n]
           /\ tree' = SetChild(new, p, Side(Key[n], p), n)
  /\ pc' = "insert_color" /\ elm' = n /\ UNCHANGED up

(* RB_INSERT_COLOR: while the parent of elm is red ...                      *)
SideOf(t, n) == IF t.child["left"][t.parent[n]] = n THEN "left" ELSE "right"
Uncle(t, p) == t.child[Other(SideOf(t, p))][t.parent[p]]

InsertRecolor ==
  LET p == tree.parent[elm]
      uncle == Uncle(tree, p)
  IN /\ pc = "insert_color" /\ IsRed(tree, p) /\ IsRed(tree, uncle)
     /\ tree' = PaintBlackRed(Paint(tree, uncle, "black"), p, tree.parent[p])
     /\ elm' = tree.parent[p]
     /\ UNCHANGED <<pc, up>>

InsertRotate ==
  LET p == tree.parent[elm]
      g == tree.parent[p]
      s == SideOf(tree, p)
      inner == tree.child[Other(s)][p] = elm
      outward == IF inner THEN Rotate(tree, p, s) ELSE tree
  IN /\ pc = "insert_color" /\ IsRed(tree, p) /\ ~IsRed(tree, Uncle(tree, p))
     /\ tree' = Rotate(PaintBlackRed(outward, IF inner THEN elm ELSE p, g), g, Other(s))
     /\ elm' = IF inner THEN p ELSE elm
     /\ UNCHANGED <<pc, up>>

InsertDone ==
  /\ pc = "insert_color" /\ ~IsRed(tree, tree.parent[elm])
  /\ tree' = Paint(tree, tree.root, "black")
  /\ pc' = "idle" /\ elm' = NULL /\ UNCHANGED up

-----------------------------------------------------------------------------
(* Takes x, which has no child but c, out of the tree.                      *)
SpliceKeepingParent(t, x, c) ==  \* a wrong variant: c keeps pointing at x
  Replace(t, t.parent[x], x, c)

Splice(t, x, c) == Replace(SetParent(t, c, t.parent[x]), t.parent[x], x, c)

Forget(t, n) ==
  [t EXCEPT !.child["left"][n] = NULL, !.child["right"][n] = NULL,
            !.parent[n] = NULL, !.color[n] = "black"]

TakeFieldsButRight(t, old, x) ==  \* a wrong variant: x keeps its right child
  [t EXCEPT !.child["left"][x] = t.child["left"][old],
            !.parent[x] = t.parent[old], !.color[x] = t.color[old]]

TakeFields(t, old, x) ==
  [t EXCEPT !.child["left"][x] = t.child["left"][old],
            !.child["right"][x] = t.child["right"][old],
            !.parent[x] = t.parent[old], !.color[x] = t.color[old]]

(* RB_REMOVE goes on with RB_REMOVE_COLOR if a black element is missing.    *)
Rebalance(color, c, p) ==
  IF color = "black" THEN pc' = "remove_color" /\ elm' = c /\ up' = p
                     ELSE UNCHANGED <<pc, elm, up>>

InTree(t, n) == t.root = n \/ t.parent[n] # NULL

RemoveOuter(old) ==
  LET l == tree.child["left"][old]
      r == tree.child["right"][old]
      c == IF l = NULL THEN r ELSE l
  IN /\ pc = "idle" /\ InTree(tree, old) /\ NULL \in {l, r}
     /\ tree' = Forget(Splice(tree, old, c), old)
     /\ Rebalance(tree.color[old], c, tree.parent[old])

(* Its successor x takes the place, and the fields, of an inner element.     *)
RemoveInner(old) ==
  LET l == tree.child["left"][old]
      r == tree.child["right"][old]
      x == Extreme(tree, r, "left")
      c == tree.child["right"][x]
      t == Splice(tree, x, c)
      placed == Replace(TakeFields(t, old, x), t.parent[old], old, x)
  IN /\ pc = "idle" /\ InTree(tree, old) /\ NULL \notin {l, r}
     /\ tree' = Forget(SetParent(SetParent(placed, l, x), t.child["right"][old], x), old)
     /\ Rebalance(tree.color[x], c, IF tree.parent[x] = old THEN x ELSE tree.parent[x])

(* RB_REMOVE_COLOR: while elm is black, and not the root ...                *)
Deficient == pc = "remove_color" /\ ~IsRed(tree, elm) /\ elm # tree.root

DeficientSide == IF tree.child["left"][up] = elm THEN "left" ELSE "right"

(* After its first if: the sibling of elm is black.                         *)
WithBlackSibling ==
  LET sibling == tree.child[Other(DeficientSide)][up]
  IN IF IsRed(tree, sibling)
     THEN Rotate(PaintBlackRed(tree, sibling, up), up, DeficientSide) ELSE tree

RedNephew(t, w) == \E s \in Sides : IsRed(t, t.child[s][w])

RemoveStayingDown ==  \* a wrong variant: elm is moved up, its parent is not
  LET t == WithBlackSibling
      w == t.child[Other(DeficientSide)][up]
  IN /\ Deficient /\ ~RedNephew(t, w)
     /\ tree' = Paint(t, w, "red")
     /\ UNCHANGED <<pc, elm, up>>

RemoveUpwards ==
  LET t == WithBlackSibling
      w == t.child[Other(DeficientSide)][up]
  IN /\ Deficient /\ ~RedNephew(t, w)
     /\ tree' = Paint(t, w, "red")
     /\ elm' = up /\ up' = t.parent[up] /\ UNCHANGED pc

RemoveRotateUnpainted ==  \* a wrong variant: the sibling does not take the parent's color
  LET s == DeficientSide
      t == WithBlackSibling
      w == t.child[Other(s)][up]
      turned == IF IsRed(t, t.child[Other(s)][w]) THEN t
                ELSE Rotate(PaintBlackRed(t, t.child[s][w], w), w, Other(s))
      top == turned.child[Other(s)][up]
      painted == Paint(Paint(turned, up, "black"), turned.child[Other(s)][top], "black")
  IN /\ Deficient /\ RedNephew(t, w)
     /\ tree' = Rotate(painted, up, s)
     /\ elm' = tree'.root /\ UNCHANGED <<pc, up>>

RemoveRotate ==
  LET s == DeficientSide
      t == WithBlackSibling
      w == t.child[Other(s)][up]
      turned == IF IsRed(t, t.child[Other(s)][w]) THEN t
                ELSE Rotate(PaintBlackRed(t, t.child[s][w], w), w, Other(s))
      top == turned.child[Other(s)][up]
      painted == Paint(Paint(Paint(turned, top, turned.color[up]), up, "black"),
                       turned.child[Other(s)][top], "black")
  IN /\ Deficient /\ RedNephew(t, w)
     /\ tree' = Rotate(painted, up, s)
     /\ elm' = tree'.root /\ UNCHANGED <<pc, up>>

RemoveDone ==
  /\ pc = "remove_color" /\ ~Deficient
  /\ tree' = Paint(tree, elm, "black")
  /\ pc' = "idle" /\ elm' = NULL /\ up' = NULL

-----------------------------------------------------------------------------
Loop ==
  \/ InsertRecolor \/ InsertRotate \/ InsertDone
  \/ RemoveUpwards \/ RemoveRotate \/ RemoveDone

Next == Loop \/ \E n \in Node : Insert(n) \/ RemoveOuter(n) \/ RemoveInner(n)

Spec == Init /\ [][Next]_vars

-----------------------------------------------------------------------------
Content ==
  LET below[n \in Pointer] ==
        IF n = NULL THEN {} ELSE {n} \cup UNION {below[tree.child[s][n]] : s \in Sides}
  IN below[tree.root]

(* Every insertion and removal, with all rotations they make, does to the    *)
(* elements of the tree what it is called for: none is lost, none comes back, *)
(* none is inserted when its key is there (RB_INSERT, RB_REMOVE).            *)
Elements == INSTANCE OrderedSet WITH content <- Content
ImplementsOrderedSet == Elements!Spec

(* RB_FIND and RB_NFIND find what is asked for, or the first after it, for    *)
(* every key that some element could have, and RB_MIN and RB_MAX the ends:    *)
(* ArmedFirst(), Search() and code_first() rely on it.  RB_FOREACH visits     *)
(* every element, in the order of their keys, and RB_FOREACH_REVERSE in the   *)
(* opposite one: the parents, by which RB_NEXT and RB_PREV climb, are those   *)
(* that the rotations and removals leave.                                   *)
Keys == {Key[n] : n \in Node}

SearchesAgree ==
  /\ \A k \in Keys :
       /\ Find(tree, k) = Elements!Least(Elements!At(Content, k))
       /\ NFind(tree, k) = Elements!Least(Elements!From(Content, k))
  /\ MinMax(tree, "left") = Elements!Least(Content)
  /\ MinMax(tree, "right") = Elements!Greatest(Content)

WalkInOrder(s) ==
  LET w == Walk(tree, s)
  IN /\ Len(w) = Cardinality(Content) /\ Content = {w[i] : i \in 1 .. Len(w)}
     /\ \A i, j \in 1 .. Len(w) : i < j => (Key[w[i]] < Key[w[j]] <=> s = "right")

ReadsAgree == SearchesAgree /\ \A s \in Sides : WalkInOrder(s)

(* No red element has a red child, nor is the root red, but for elm while its *)
(* loop runs (RB_REMOVE_COLOR ends by painting it black); and all ways down   *)
(* from the root meet as many black elements, if in RB_REMOVE_COLOR elm,      *)
(* which may be NULL, counts for one more.  So elm has a sibling there, whose *)
(* fields the loop reads.                                                   *)
Missing(n, s) ==
  pc = "remove_color" /\ n = up /\ elm # tree.root /\ s = DeficientSide

BlackCounts ==
  LET counts[n \in Pointer] ==
        IF n = NULL THEN {0}
        ELSE LET here == IF IsRed(tree, n) THEN 0 ELSE 1
             IN UNION {{here + i + (IF Missing(n, s) THEN 1 ELSE 0) :
                          i \in counts[tree.child[s][n]]} : s \in Sides}
  IN counts[tree.root]

Balanced ==
  /\ Cardinality(BlackCounts) = 1
  /\ \A n \in Content \ {elm} :
       LET p == tree.parent[n]
       IN IsRed(tree, n) => n # tree.root /\ (IsRed(tree, p) => p = elm /\ pc = "remove_color")
  /\ Deficient => up # NULL /\ tree.child[Other(DeficientSide)][up] # NULL

(* RB_INSERT and RB_REMOVE return, after no more iterations than the element  *)
(* at which the loop starts is deep: each ends the loop or goes on further up. *)
Depth(n) ==
  LET d[m \in Pointer] == IF m = NULL THEN 0 ELSE 1 + d[tree.parent[m]]
  IN d[n]

Remaining ==
  IF pc = "insert_color" /\ IsRed(tree, tree.parent[elm]) THEN Depth(elm)
  ELSE IF Deficient THEN 1 + Depth(up) ELSE 0

LoopsEnd == [][Loop /\ pc' # "idle" => Remaining' < Remaining]_vars

=============================================================================
