------------------------------ MODULE SplayTree ------------------------------
(***************************************************************************)
(* The splay tree of main/bsd-compat-headers/tree.h: SPLAY_GENERATE's      *)
(* operations on nodes with left and right links.                          *)
(*                                                                         *)
(* A node is its key.  Node is the local variable __node of SPLAY and      *)
(* SPLAY_MINMAX: the elements smaller than those still to be searched hang *)
(* from its right link, the larger ones from its left link, and __left and *)
(* __right, here tail, are where the next ones are linked.  Each iteration *)
(* of their loops is a step; the break, SPLAY_ASSEMBLE and what the        *)
(* operation does with the splayed tree are one more.  Mirrored branches   *)
(* are one definition over a side.  Nobody reads the links of a node       *)
(* outside the tree before SPLAY_INSERT writes them; here they are Null.   *)
(***************************************************************************)
EXTENDS Integers

CONSTANTS Keys, Null, Node

ASSUME KeysAreIntegers == Keys \subseteq Int
ASSUME NullAndNodeAreNoKeys == Null \notin Keys /\ Node \notin Keys /\ Node # Null

VARIABLES root, child,  \* the tree, and the links of Node
          op, key,      \* the running operation
          tail,         \* __left and __right
          held,         \* __tmp of SPLAY_REMOVE
          result        \* what the last operation returned

splayVars == <<root, child, op, key, tail, held, result>>
running == op # "none"

Sides == {"left", "right"}
Other(side) == IF side = "left" THEN "right" ELSE "left"
Pointers == Keys \cup {Null}
Ops == {"none", "insert", "remove", "rejoin", "find", "next", "min", "max"}

NoTails == [s \in Sides |-> Node]
Unlinked(c, n) == [s \in Sides |-> [c[s] EXCEPT ![n] = Null]]

InitSplay ==
    /\ root = Null
    /\ child = [s \in Sides |-> [n \in Keys \cup {Node} |-> Null]]
    /\ op = "none" /\ key = Null /\ tail = NoTails /\ held = Null
    /\ result = Null

-----------------------------------------------------------------------------
(* While a splay is under way the links at the tails still lead to the     *)
(* root; SPLAY_ASSEMBLE overwrites them.                                   *)
Links ==
    [s \in Sides |-> [n \in Keys \cup {Node} |->
        IF n = tail[Other(s)] THEN Null ELSE child[s][n]]]

Under(links) ==
    LET below[n \in Pointers] ==
            IF n = Null THEN {}
            ELSE {n} \cup below[links["left"][n]] \cup below[links["right"][n]]
    IN below

Below == Under(Links)

Smaller == Below[Links["right"][Node]]
Larger == Below[Links["left"][Node]]

(* An element that is being removed is there until the operation returns.  *)
KeysIn ==
    Below[root] \cup Smaller \cup Larger \cup Below[held]
        \cup (IF op = "rejoin" THEN {key} ELSE {})

(* The caller: an operation on an empty tree returns at once.              *)
StartSplay(o, k) ==
    /\ ~running /\ root # Null
    /\ op' = o /\ key' = k
    /\ result' = Null
    /\ UNCHANGED <<root, child, tail, held>>

Insert(k) == StartSplay("insert", k)
Remove(k) == StartSplay("remove", k)
Find(k) == StartSplay("find", k)
NextOf(k) == k \in KeysIn /\ StartSplay("next", k)
MinMax(o) == StartSplay(o, Null)

OnEmpty(o, k) ==
    /\ ~running /\ root = Null
    /\ result' = Null
    /\ root' = IF o = "insert" THEN k ELSE Null
    /\ child' = IF o = "insert" THEN Unlinked(child, k) ELSE child
    /\ UNCHANGED <<op, key, tail, held>>

-----------------------------------------------------------------------------
(* The sign of the comparison, or the fixed one of SPLAY_MINMAX            *)
Toward(n) ==
    CASE op = "min" -> "left"
      [] op = "max" -> "right"
      [] OTHER -> IF key < n THEN "left" ELSE IF key > n THEN "right" ELSE "here"

(* SPLAY_ROTATE_RIGHT for the left side, SPLAY_ROTATE_LEFT for the right    *)
Rotated(side) ==
    LET tmp == child[side][root]
    IN [root |-> tmp,
        child |-> [child EXCEPT ![side][root] = child[Other(side)][tmp],
                                ![Other(side)][tmp] = root]]

(* Two steps to the same side: the child is rotated up first.              *)
Turned(side) ==
    LET tmp == child[side][root]
    IN IF tmp # Null /\ Toward(tmp) = side THEN Rotated(side)
       ELSE [root |-> root, child |-> child]

Stuck(side) == Turned(side).child[side][Turned(side).root] = Null

(* Error: the root stays where it is.                                      *)
LinkNothing(side, t) == root' = t.root /\ child' = t.child /\ UNCHANGED tail

(* SPLAY_LINKLEFT for the left side: the root and what is beyond it become *)
(* part of the other side's tree.                                          *)
Link(side, t) ==
    LET at == tail[Other(side)]
    IN /\ child' = [t.child EXCEPT ![side][at] = t.root]
       /\ tail' = [tail EXCEPT ![Other(side)] = t.root]
       /\ root' = t.child[side][t.root]

Descend ==
    /\ running
    /\ Toward(root) # "here" /\ ~Stuck(Toward(root))
    /\ Link(Toward(root), Turned(Toward(root)))
    /\ UNCHANGED <<op, key, held, result>>

-----------------------------------------------------------------------------
(* Error: the left tree is put back on the left of what was right.         *)
AssembledSwapped(t) ==
    LET ended == [t.child EXCEPT !["right"][tail["left"]] = t.child["left"][t.root],
                                 !["left"][tail["right"]] = t.child["right"][t.root]]
    IN [ended EXCEPT !["left"][t.root] = ended["left"][Node],
                     !["right"][t.root] = ended["right"][Node]]

Assembled(t) ==
    LET ended == [t.child EXCEPT !["right"][tail["left"]] = t.child["left"][t.root],
                                 !["left"][tail["right"]] = t.child["right"][t.root]]
    IN [ended EXCEPT !["left"][t.root] = ended["right"][Node],
                     !["right"][t.root] = ended["left"][Node]]

(* The root of the splayed tree and its links when the loop is left        *)
Splayed ==
    LET t == IF Toward(root) = "here" THEN [root |-> root, child |-> child]
             ELSE Turned(Toward(root))
    IN [root |-> t.root, child |-> Assembled(t)]

Done ==
    /\ running
    /\ Toward(root) # "here" => Stuck(Toward(root))
    /\ tail' = NoTails

Return(r, c, answer) ==
    /\ root' = r /\ child' = Unlinked(c, Node)
    /\ op' = "none" /\ key' = Null /\ result' = answer

(* The new element takes the root's place, between it and what is beyond.  *)
Placed(t, side) ==
    [t.child EXCEPT ![side][key] = t.child[side][t.root],
                    ![Other(side)][key] = t.root,
                    ![side][t.root] = Null]

InsertSplayed ==
    /\ Done /\ op = "insert"
    /\ LET t == Splayed
       IN IF Toward(t.root) = "here" THEN Return(t.root, t.child, t.root)
          ELSE Return(key, Placed(t, Toward(t.root)), Null)
    /\ UNCHANGED held

RemoveSplayed ==
    /\ Done /\ op = "remove"
    /\ LET t == Splayed
       IN \/ /\ Toward(t.root) # "here"
             /\ Return(t.root, t.child, Null)
             /\ UNCHANGED held
          \/ /\ Toward(t.root) = "here" /\ t.child["left"][t.root] = Null
             /\ Return(t.child["right"][key], Unlinked(t.child, key), key)
             /\ UNCHANGED held
          \/ /\ Toward(t.root) = "here" /\ t.child["left"][t.root] # Null
             /\ root' = t.child["left"][t.root]
             /\ held' = t.child["right"][t.root]
             /\ child' = Unlinked(Unlinked(t.child, key), Node)
             /\ op' = "rejoin"
             /\ UNCHANGED <<key, result>>

(* Error: the right subtree is not put back.                               *)
RejoinNothing ==
    /\ Done /\ op = "rejoin"
    /\ Return(Splayed.root, Splayed.child, key)
    /\ held' = Null

(* The left subtree has been splayed to its largest element.               *)
Rejoin ==
    /\ Done /\ op = "rejoin"
    /\ LET t == Splayed
       IN Return(t.root, [t.child EXCEPT !["right"][t.root] = held], key)
    /\ held' = Null

(* Error: the walk stops at the first child.                               *)
LeftmostChild(c, n) == IF n = Null \/ c["left"][n] = Null THEN n ELSE c["left"][n]

(* The smallest of a subtree                                               *)
Leftmost(c, n) ==
    LET down[m \in Pointers] ==
            IF m = Null \/ c["left"][m] = Null THEN m ELSE down[c["left"][m]]
    IN down[n]

QuerySplayed ==
    /\ Done /\ op \in {"find", "next", "min", "max"}
    /\ LET t == Splayed
           answer == CASE op = "find" -> IF Toward(t.root) = "here" THEN t.root ELSE Null
                       [] op = "next" -> Leftmost(t.child, t.child["right"][key])
                       [] OTHER -> t.root
       IN Return(t.root, t.child, answer)
    /\ UNCHANGED held

Call ==
    \/ \E k \in Keys : \/ Insert(k) \/ Remove(k) \/ Find(k) \/ NextOf(k)
                       \/ \E o \in {"insert", "remove", "find"} : OnEmpty(o, k)
    \/ \E o \in {"min", "max"} : MinMax(o) \/ OnEmpty(o, Null)

Loop == Descend \/ InsertSplayed \/ RemoveSplayed \/ Rejoin \/ QuerySplayed

SplaySpec == InitSplay /\ [][Call \/ Loop]_splayVars

(* An operation that has begun runs on.                                    *)
FairSplaySpec == SplaySpec /\ WF_splayVars(Loop)

-----------------------------------------------------------------------------
(* A splay never takes an empty tree apart: its root, and the places where *)
(* it links, are there when the macros look into them.                     *)
SplayTypes ==
    /\ root \in Pointers /\ (running => root # Null)
    /\ \A s \in Sides : child[s] \in [Keys \cup {Node} -> Pointers]
    /\ op \in Ops /\ key \in Pointers /\ held \in Pointers /\ result \in Pointers
    /\ tail \in [Sides -> Keys \cup {Node}]

(* At every step the three trees of a splay and the one that remove holds  *)
(* are search trees that lie apart: smaller, the rest, larger, held.       *)
StaysSorted ==
    /\ SplayTypes
    /\ \A n \in KeysIn \ {IF op = "rejoin" THEN key ELSE Null} :
        /\ \A m \in Below[Links["left"][n]] : m < n
        /\ \A m \in Below[Links["right"][n]] : m > n
    /\ \A m \in Smaller : \A n \in Below[root] \cup Larger \cup Below[held] : m < n
    /\ \A m \in Below[root] : \A n \in Larger \cup Below[held] : m < n
    /\ \A m \in Larger : \A n \in Below[held] : m < n

(* Splaying loses and duplicates nothing: insert and remove do to the      *)
(* elements what those of an ordered set do, and nothing else does.        *)
Ordered == INSTANCE OrderedSet WITH set <- KeysIn
IsOrderedSet == Ordered!SetSpec

(* What an operation returns is what the set it found answers; and what    *)
(* find and next leave at the top is "close to the key of elm"             *)
(* (tree.h:170): the element that was looked for, or else a neighbour of   *)
(* its place.                                                              *)
Returns == running /\ op' = "none"

Neighbours(k) == IF k \in KeysIn THEN {k} ELSE {Ordered!Before(k), Ordered!After(k)}

AnswersAsOrderedSet ==
    [][Returns =>
        /\ result' = CASE op = "next" -> Ordered!After(key)
                       [] op = "min" -> Ordered!First
                       [] op = "max" -> Ordered!Last
                       [] OTHER -> Ordered!At(key)
        /\ op \in {"find", "next"} => root' \in Neighbours(key)]_splayVars

(* The loops of SPLAY and SPLAY_MINMAX end.                                *)
SplaysEnd == running ~> ~running
=============================================================================
