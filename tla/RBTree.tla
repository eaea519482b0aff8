------------------------------- MODULE RBTree -------------------------------
(***************************************************************************)
(* The red-black tree of main/bsd-compat-headers/tree.h: RB_GENERATE's     *)
(* operations on nodes with child, parent and color fields.                *)
(*                                                                         *)
(* A node is its key.  Inserting an element whose key is in the tree is    *)
(* inserting another element of that key.  RB_INSERT and RB_REMOVE change  *)
(* the tree in one step and then, one step per iteration, run the loop of  *)
(* RB_INSERT_COLOR or RB_REMOVE_COLOR; the walks that change nothing are   *)
(* recursive functions.  Each pair of mirrored branches is one definition  *)
(* over a side.  Nobody reads the fields of a node outside the tree before *)
(* RB_SET writes them; here they are Null and black.                       *)
(***************************************************************************)
EXTENDS Integers, FiniteSets

CONSTANTS Keys, Null

ASSUME KeysAreIntegers == Keys \subseteq Int
ASSUME NullIsNoKey == Null \notin Keys

VARIABLES tree,           \* root, child on either side, parent, color
          pc,             \* "idle", "insert_color" or "remove_color"
          elm, parent     \* locals of the color loops

vars == <<tree, pc, elm, parent>>

Sides == {"left", "right"}
Other(side) == IF side = "left" THEN "right" ELSE "left"
Pointers == Keys \cup {Null}

Trees == [root : Pointers,
          child : [Sides -> [Keys -> Pointers]],
          parent : [Keys -> Pointers],
          color : [Keys -> {"red", "black"}]]

Init ==
    /\ tree = [root |-> Null,
               child |-> [s \in Sides |-> [k \in Keys |-> Null]],
               parent |-> [k \in Keys |-> Null],
               color |-> [k \in Keys |-> "black"]]
    /\ pc = "idle"
    /\ elm = Null /\ parent = Null

-----------------------------------------------------------------------------
(* Updates of single fields, as the macros and blocks of the header make   *)
(* them                                                                    *)
Red(t, n) == n # Null /\ t.color[n] = "red"

Paint(t, n, c) == IF n = Null THEN t ELSE [t EXCEPT !.color[n] = c]

(* RB_SET_BLACKRED                                                         *)
BlackRed(t, black, red) == Paint(Paint(t, black, "black"), red, "red")

SetParent(t, n, p) == IF n = Null THEN t ELSE [t EXCEPT !.parent[n] = p]

SideOf(t, p, n) == IF t.child["left"][p] = n THEN "left" ELSE "right"

(* The link to old, in p or in the head, is turned to new.                 *)
Relink(t, p, old, new) ==
    IF p = Null THEN [t EXCEPT !.root = new]
    ELSE [t EXCEPT !.child[SideOf(t, p, old)][p] = new]

(* Error: the node that changes its parent is not told.                    *)
RotateHalf(t, side, n) ==
    LET other == Other(side)
        tmp == t.child[other][n]
        moved == t.child[side][tmp]
        p == t.parent[n]
        raised == Relink(t, p, n, tmp)
        lowered == [raised EXCEPT !.child[other][n] = moved, !.child[side][tmp] = n]
    IN SetParent(SetParent(lowered, tmp, p), n, tmp)

(* RB_ROTATE_LEFT and RB_ROTATE_RIGHT                                      *)
Rotate(t, side, n) ==
    LET other == Other(side)
        tmp == t.child[other][n]
        moved == t.child[side][tmp]
        p == t.parent[n]
        raised == Relink(t, p, n, tmp)
        lowered == [raised EXCEPT !.child[other][n] = moved, !.child[side][tmp] = n]
    IN SetParent(SetParent(SetParent(lowered, moved, n), tmp, p), n, tmp)

-----------------------------------------------------------------------------
(* Walks                                                                   *)
Toward(k, n) == IF k < n THEN "left" ELSE "right"

(* The last node on the way from n to the given side: RB_MINMAX, and the   *)
(* first half of RB_NEXT, RB_PREV and RB_REMOVE                            *)
Extreme(t, side, top) ==
    LET down[n \in Pointers] ==
            IF n = Null \/ t.child[side][n] = Null THEN n ELSE down[t.child[side][n]]
    IN down[top]

(* Error: the parent is taken for the next node from either side.          *)
StepUpOnce(t, side, from) ==
    IF t.child[side][from] # Null
    THEN Extreme(t, Other(side), t.child[side][from])
    ELSE t.parent[from]

(* RB_NEXT for the side "right", RB_PREV for "left"                        *)
Step(t, side, from) ==
    LET up[n \in Keys] ==
            IF t.parent[n] # Null /\ n = t.child[side][t.parent[n]]
            THEN up[t.parent[n]] ELSE t.parent[n]
    IN IF t.child[side][from] # Null
       THEN Extreme(t, Other(side), t.child[side][from])
       ELSE up[from]

(* RB_FIND; and the node under which RB_INSERT puts a key it does not find *)
Find(t, k) ==
    LET down[n \in Pointers] ==
            IF n = Null \/ n = k THEN n ELSE down[t.child[Toward(k, n)][n]]
    IN down[t.root]

ParentFor(t, k) ==
    LET down[n \in Keys] ==
            IF t.child[Toward(k, n)][n] = Null THEN n ELSE down[t.child[Toward(k, n)][n]]
    IN IF t.root = Null THEN Null ELSE down[t.root]

(* RB_NFIND: what it finds further down, or else the last node at which it *)
(* turned left                                                             *)
NFind(t, k) ==
    LET down[n \in Pointers] ==
            IF n = Null \/ n = k THEN n
            ELSE LET res == down[t.child[Toward(k, n)][n]]
                 IN IF res = Null /\ k < n THEN n ELSE res
    IN down[t.root]

KeysIn(t) ==
    LET below[n \in Pointers] ==
            IF n = Null THEN {}
            ELSE {n} \cup below[t.child["left"][n]] \cup below[t.child["right"][n]]
    IN below[t.root]

-----------------------------------------------------------------------------
(* RB_INSERT: a leaf under its parent, red, or nothing if the key is there *)
Leaf(t, k) ==
    LET p == ParentFor(t, k)
        set == [t EXCEPT !.parent[k] = p, !.color[k] = "red",
                         !.child["left"][k] = Null, !.child["right"][k] = Null]
    IN IF p = Null THEN [set EXCEPT !.root = k]
       ELSE [set EXCEPT !.child[Toward(k, p)][p] = k]

InsertKnown(k) ==
    /\ pc = "idle"
    /\ Find(tree, k) # Null
    /\ UNCHANGED vars

InsertNew(k) ==
    /\ pc = "idle"
    /\ Find(tree, k) = Null
    /\ tree' = Leaf(tree, k)
    /\ elm' = k
    /\ pc' = "insert_color"
    /\ UNCHANGED parent

(* RB_INSERT_COLOR while the parent of elm is red: with a red uncle the    *)
(* conflict moves up two levels, otherwise one or two rotations end it.    *)
InsertConflict == pc = "insert_color" /\ Red(tree, tree.parent[elm])

Uncle ==
    LET p == tree.parent[elm]
        g == tree.parent[p]
    IN tree.child[Other(SideOf(tree, g, p))][g]

(* Error: the uncle stays red.                                             *)
InsertRecolorHalf ==
    /\ InsertConflict
    /\ Red(tree, Uncle)
    /\ LET p == tree.parent[elm]
           g == tree.parent[p]
       IN /\ tree' = BlackRed(tree, p, g)
          /\ elm' = g
    /\ UNCHANGED <<pc, parent>>

InsertRecolor ==
    /\ InsertConflict
    /\ Red(tree, Uncle)
    /\ LET p == tree.parent[elm]
           g == tree.parent[p]
       IN /\ tree' = BlackRed(Paint(tree, Uncle, "black"), p, g)
          /\ elm' = g
    /\ UNCHANGED <<pc, parent>>

(* Error: the second rotation belongs to the inner case only.              *)
InsertRotateInner ==
    /\ InsertConflict
    /\ ~Red(tree, Uncle)
    /\ LET p == tree.parent[elm]
           g == tree.parent[p]
           side == SideOf(tree, g, p)
           inner == tree.child[Other(side)][p] = elm
       IN /\ tree' = IF inner
                     THEN Rotate(BlackRed(Rotate(tree, side, p), elm, g), Other(side), g)
                     ELSE tree
          /\ elm' = IF inner THEN p ELSE elm
    /\ UNCHANGED <<pc, parent>>

InsertRotate ==
    /\ InsertConflict
    /\ ~Red(tree, Uncle)
    /\ LET p == tree.parent[elm]
           g == tree.parent[p]
           side == SideOf(tree, g, p)
           inner == tree.child[Other(side)][p] = elm
           top == IF inner THEN elm ELSE p
           straight == IF inner THEN Rotate(tree, side, p) ELSE tree
       IN /\ tree' = Rotate(BlackRed(straight, top, g), Other(side), g)
          /\ elm' = IF inner THEN p ELSE elm
    /\ UNCHANGED <<pc, parent>>

InsertDone ==
    /\ pc = "insert_color" /\ ~InsertConflict
    /\ tree' = Paint(tree, tree.root, "black")
    /\ pc' = "idle" /\ elm' = Null
    /\ UNCHANGED parent

-----------------------------------------------------------------------------
(* RB_REMOVE.  A node with at most one child gives its place to that       *)
(* child; any other gives it to its successor, whose place goes to the     *)
(* successor's right child.                                                *)
Forget(t, k) ==
    [t EXCEPT !.child["left"][k] = Null, !.child["right"][k] = Null,
              !.parent[k] = Null, !.color[k] = "black"]

Unlink(t, n, child) == Relink(SetParent(t, child, t.parent[n]), t.parent[n], n, child)

(* (elm)->field = (old)->field, and the links to old turned to elm         *)
Replace(t, old, new) ==
    LET copied == [t EXCEPT !.child["left"][new] = t.child["left"][old],
                            !.child["right"][new] = t.child["right"][old],
                            !.parent[new] = t.parent[old],
                            !.color[new] = t.color[old]]
        linked == Relink(copied, t.parent[old], old, new)
    IN SetParent(SetParent(linked, t.child["left"][old], new), t.child["right"][old], new)

(* goto color                                                              *)
Recolor(t, old, color, p, child) ==
    /\ tree' = Forget(t, old)
    /\ IF color = "black"
       THEN pc' = "remove_color" /\ elm' = child /\ parent' = p
       ELSE UNCHANGED <<pc, elm, parent>>

(* Error: the child is sought on the side where there is none.             *)
RemoveBranch(k) ==
    /\ pc = "idle" /\ k \in KeysIn(tree)
    /\ \E side \in Sides :
        /\ tree.child[side][k] = Null
        /\ side = "left" \/ tree.child["left"][k] # Null
        /\ LET child == tree.child[side][k]
           IN Recolor(Unlink(tree, k, child), k, tree.color[k], tree.parent[k], child)

RemoveOuter(k) ==
    /\ pc = "idle" /\ k \in KeysIn(tree)
    /\ \E side \in Sides :
        /\ tree.child[side][k] = Null
        /\ side = "left" \/ tree.child["left"][k] # Null
        /\ LET child == tree.child[Other(side)][k]
           IN Recolor(Unlink(tree, k, child), k, tree.color[k], tree.parent[k], child)

RemoveInner(k) ==
    /\ pc = "idle" /\ k \in KeysIn(tree)
    /\ \A side \in Sides : tree.child[side][k] # Null
    /\ LET next == Extreme(tree, "left", tree.child["right"][k])
           child == tree.child["right"][next]
           p == IF tree.parent[next] = k THEN next ELSE tree.parent[next]
       IN Recolor(Replace(Unlink(tree, next, child), k, next),
                  k, tree.color[next], p, child)

(* RB_REMOVE_COLOR while elm lacks a black: a red sibling is rotated away  *)
(* first; then either the sibling turns red and the lack moves up, or      *)
(* rotations around the sibling and the parent end it.                     *)
Lack == pc = "remove_color" /\ ~Red(tree, elm) /\ elm # tree.root

LackSide == SideOf(tree, parent, elm)

BlackSibling ==
    LET tmp == tree.child[Other(LackSide)][parent]
    IN IF tree.color[tmp] = "red"
       THEN Rotate(BlackRed(tree, tmp, parent), LackSide, parent)
       ELSE tree

BlackNephews(t) ==
    LET tmp == t.child[Other(LackSide)][parent]
    IN \A side \in Sides : ~Red(t, t.child[side][tmp])

RemoveUp ==
    /\ Lack
    /\ \E t \in {BlackSibling} :
        /\ BlackNephews(t)
        /\ tree' = Paint(t, t.child[Other(LackSide)][parent], "red")
        /\ elm' = parent
        /\ parent' = t.parent[parent]
    /\ UNCHANGED pc

(* The sibling's red child, if it is the near one, is rotated outward.     *)
FarRed(t, far, sibling) ==
    IF Red(t, t.child[far][sibling]) THEN t
    ELSE Rotate(BlackRed(t, t.child[Other(far)][sibling], sibling), far, sibling)

Exchanged(t, far, tmp) ==
    Paint(Paint(Paint(t, tmp, t.color[parent]), parent, "black"),
          t.child[far][tmp], "black")

RemoveRotate ==
    /\ Lack
    /\ \E t \in {BlackSibling} :
        /\ ~BlackNephews(t)
        /\ LET side == LackSide
               far == Other(side)
           IN \E turned \in {FarRed(t, far, t.child[far][parent])} :
              \E painted \in {Exchanged(turned, far, turned.child[far][parent])} :
                tree' = Rotate(painted, side, parent)
    /\ elm' = tree'.root
    /\ UNCHANGED <<pc, parent>>

RemoveDone ==
    /\ pc = "remove_color" /\ ~Lack
    /\ tree' = Paint(tree, elm, "black")
    /\ pc' = "idle" /\ elm' = Null /\ parent' = Null

-----------------------------------------------------------------------------
Fixup == InsertRecolor \/ InsertRotate \/ InsertDone
         \/ RemoveUp \/ RemoveRotate \/ RemoveDone

Next ==
    \/ \E k \in Keys : \/ InsertKnown(k) \/ InsertNew(k)
                       \/ RemoveOuter(k) \/ RemoveInner(k)
    \/ Fixup

Spec == Init /\ [][Next]_vars

(* An operation that has begun runs on.                                    *)
FairSpec == Spec /\ WF_vars(Fixup)

-----------------------------------------------------------------------------
TypeOK ==
    /\ tree \in Trees
    /\ pc \in {"idle", "insert_color", "remove_color"}
    /\ elm \in Pointers /\ parent \in Pointers

(* Every link down has its link up, and the keys left of a node are        *)
(* smaller and those right of it larger, at every step of an operation:    *)
(* rotations and the successor's move keep both (tree.h:351-389, 548-585). *)
SearchTree ==
    LET below[n \in Pointers] ==
            IF n = Null THEN {}
            ELSE {n} \cup below[tree.child["left"][n]] \cup below[tree.child["right"][n]]
    IN /\ TypeOK
       /\ tree.root # Null => tree.parent[tree.root] = Null
       /\ \A n \in KeysIn(tree), side \in Sides :
            LET c == tree.child[side][n]
            IN /\ c # Null => tree.parent[c] = n
               /\ \A m \in below[c] : Toward(m, n) = side /\ m # n

(* The conditions of the header's comment (tree.h:62-67), between          *)
(* operations: as many black nodes on every path from the root to a leaf,  *)
(* and no red node under a red one.                                        *)
Blacks(t) ==
    LET blacks[n \in Pointers] ==
            IF n = Null THEN {0}
            ELSE {b + (IF Red(t, n) THEN 0 ELSE 1) :
                    b \in blacks[t.child["left"][n]] \cup blacks[t.child["right"][n]]}
    IN blacks[t.root]

RedBlack == pc = "idle" =>
    /\ Cardinality(Blacks(tree)) = 1
    /\ \A n \in KeysIn(tree) : Red(tree, n) =>
        tree.parent[n] # Null /\ ~Red(tree, tree.parent[n])

(* Insert and remove do to the elements what those of an ordered set do;   *)
(* moving nodes and colors changes nothing of it.                          *)
Ordered == INSTANCE OrderedSet WITH set <- KeysIn(tree)
IsOrderedSet == Ordered!SetSpec

(* Between operations find, nfind, next, prev, min and max, which walk the *)
(* links, return what those of an ordered set return.                      *)
QueriesAnswer == pc = "idle" =>
    /\ \A k \in Keys : /\ Find(tree, k) = Ordered!At(k)
                       /\ NFind(tree, k) = Ordered!From(k)
    /\ \A k \in KeysIn(tree) : /\ Step(tree, "right", k) = Ordered!After(k)
                               /\ Step(tree, "left", k) = Ordered!Before(k)
    /\ Extreme(tree, "left", tree.root) = Ordered!First
    /\ Extreme(tree, "right", tree.root) = Ordered!Last

(* The color loops end: each iteration that does not leave the loop moves  *)
(* toward the root.                                                        *)
OperationsReturn == (pc # "idle") ~> (pc = "idle")
=============================================================================
