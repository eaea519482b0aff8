----------------------------- MODULE RBForeach -----------------------------
(***************************************************************************)
(* RB_FOREACH_SAFE (tree.h:756-759), and RB_FOREACH_REVERSE_SAFE, its      *)
(* mirror image, over a tree that the body of the loop changes.  The macro *)
(* computes the next element y before the body runs, so that the body may  *)
(* remove (and free) x; it must not remove y.                              *)
(***************************************************************************)
EXTENDS RBTree

VARIABLES side,    \* where the loop goes: "right", or "left" in reverse
          x, y,    \* the variables of the macro; both are Null outside it
          missing  \* history: the elements that were in the tree when the
                   \* loop began, have not been removed since, and which the
                   \* loop has not come to

cursor == <<side, x, y, missing>>
loopVars == <<vars, cursor>>

InitLoop ==
    /\ Init
    /\ side = "right" /\ x = Null /\ y = Null /\ missing = {}

After(s, n) == IF n = Null THEN Null ELSE Step(tree, s, n)

Begin(s) ==
    /\ pc = "idle" /\ x = Null
    /\ KeysIn(tree) # {}
    /\ side' = s
    /\ x' = Extreme(tree, Other(s), tree.root)
    /\ y' = After(s, x')
    /\ missing' = KeysIn(tree) \ {x'}
    /\ UNCHANGED vars

(* Error: the element after the saved one.                                 *)
AdvanceTwice ==
    /\ pc = "idle" /\ x # Null
    /\ x' = After(side, y)
    /\ y' = After(side, x')
    /\ missing' = missing \ {x'}
    /\ UNCHANGED <<vars, side>>

Advance ==
    /\ pc = "idle" /\ x # Null
    /\ x' = y
    /\ y' = After(side, y)
    /\ missing' = missing \ {y}
    /\ UNCHANGED <<vars, side>>

(* The body, or the program outside the loop                               *)
Put(k) ==
    /\ InsertKnown(k) \/ InsertNew(k)
    /\ UNCHANGED cursor

Take(k) ==
    /\ k # y
    /\ RemoveOuter(k) \/ RemoveInner(k)
    /\ missing' = missing \ {k}
    /\ UNCHANGED <<side, x, y>>

Settle == Fixup /\ UNCHANGED cursor

NextLoop ==
    \/ \E s \in Sides : Begin(s)
    \/ Advance
    \/ \E k \in Keys : Put(k) \/ Take(k)
    \/ Settle

LoopSpec == InitLoop /\ [][NextLoop]_loopVars

-----------------------------------------------------------------------------
(* The saved element is always one of the tree: no removal of others, and  *)
(* no rotation, takes it away from under the loop.  However the body       *)
(* changes the tree around it, the loop comes to every element that stays  *)
(* in the tree before it passes it, so that it has come to all of them at  *)
(* its end, and it goes in one direction only, so that no element comes    *)
(* twice.                                                                  *)
Ahead(n, m) == IF side = "right" THEN n < m ELSE m < n

ComesToAllThatStay ==
    /\ y \in KeysIn(tree) \cup {Null}
    /\ \A k \in missing : x # Null /\ y # Null /\ (k = y \/ Ahead(y, k))

GoesOneWay == [][x # Null /\ x' \notin {x, Null} => Ahead(x, x')]_loopVars
=============================================================================
