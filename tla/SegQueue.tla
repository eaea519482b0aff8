------------------------------ MODULE SegQueue ------------------------------
(***************************************************************************)
(* enqueue and dequeue of main/lua-dns/ztact.lua.  A queue is a Lua table  *)
(* whose elements lie in up to three runs of consecutive slots, which its  *)
(* field p delimits: p[1]..p[2] is dequeued first, then p[3]..p[4], which  *)
(* reuses the slots in front of it, then p[5]..p[6] behind it.             *)
(*                                                                         *)
(* The table is a function on its occupied slots (an absent slot is nil);  *)
(* a run whose two fields are nil is None, which has no slots.             *)
(***************************************************************************)
EXTENDS Sequences, Integers, FiniteSets

CONSTANTS Elements,   \* what may be queued
          Nil,        \* Lua's nil
          MaxItems    \* bound: the most elements in the queue at a time

ASSUME NilIsNoElement == Nil \notin Elements
ASSUME MaxItemsIsNatural == MaxItems \in Nat

VARIABLES slot,       \* the table's array part
          hasP,       \* the table has a field p
          p12, p34, p56,  \* the runs p[1]..p[2], p[3]..p[4], p[5]..p[6]
          out,        \* what the last dequeue returned
          left        \* history: the slots of a list that enqueue took for an
                      \* empty table

vars == <<slot, hasP, p12, p34, p56, out, left>>

Runs == [lo : Nat \ {0}, hi : Nat]
None == [lo |-> 1, hi |-> 0]
Run(l, h) == [lo |-> l, hi |-> h]
Slots(r) == r.lo..r.hi
Used == Slots(p12) \cup Slots(p34) \cup Slots(p56)

Filled(i, e) == [j \in DOMAIN slot \cup {i} |-> IF j = i THEN e ELSE slot[j]]
Cleared(i) == [j \in DOMAIN slot \ {i} |-> slot[j]]

(* A queue starts as an empty table or as a list without a field p.        *)
Init ==
    /\ \E n \in 0..MaxItems : slot \in [1..n -> Elements]
    /\ hasP = FALSE
    /\ p12 = None /\ p34 = None /\ p56 = None
    /\ out = Nil /\ left = {}

-----------------------------------------------------------------------------
(* A table without a field p is given one: dequeue takes the list there is *)
(* for p[1]..p[2].                                                         *)
First == IF ~hasP /\ slot # <<>> THEN Run(1, Len(slot)) ELSE p12

(* The slot of p[1] is cleared, and when its run is used up the next run   *)
(* takes its place.  (An empty table without a field p raises an error.)   *)
Dequeue ==
    /\ First # None
    /\ hasP' = TRUE
    /\ out' = slot[First.lo]
    /\ slot' = Cleared(First.lo) /\ UNCHANGED left
    /\ \/ /\ First.lo < First.hi
          /\ p12' = Run(First.lo + 1, First.hi)
          /\ UNCHANGED <<p34, p56>>
       \/ /\ First.lo >= First.hi /\ p34 # None
          /\ p12' = p34 /\ p34' = None
          /\ UNCHANGED p56
       \/ /\ First.lo >= First.hi /\ p34 = None /\ p56 # None
          /\ p12' = p56 /\ p56' = None
          /\ UNCHANGED p34
       \/ /\ First.lo >= First.hi /\ p34 = None /\ p56 = None
          /\ p12' = None
          /\ UNCHANGED <<p34, p56>>

DequeueEmpty ==
    /\ hasP /\ p12 = None
    /\ out' = Nil
    /\ UNCHANGED <<slot, hasP, p12, p34, p56, left>>

(* Where enqueue puts an element: behind p[6]; in front of p[1] if there   *)
(* is room; behind p[2].                                                   *)
GrowLast(e) ==
    /\ p56 # None
    /\ slot' = Filled(p56.hi + 1, e)
    /\ p56' = Run(p56.lo, p56.hi + 1)
    /\ UNCHANGED <<p12, p34>>

(* Errors: no room left in front of p[1]; p[5]..p[6] overlooked.           *)
GrowFrontTooFar(e) ==
    /\ p56 = None /\ p34 # None /\ p34.hi + 1 <= p12.lo
    /\ slot' = Filled(p34.hi + 1, e)
    /\ p34' = Run(p34.lo, p34.hi + 1)
    /\ UNCHANGED <<p12, p56>>

GrowFrontOutOfTurn(e) ==
    /\ p34 # None /\ p34.hi + 1 < p12.lo
    /\ slot' = Filled(p34.hi + 1, e)
    /\ p34' = Run(p34.lo, p34.hi + 1)
    /\ UNCHANGED <<p12, p56>>

GrowFront(e) ==
    /\ p56 = None /\ p34 # None /\ p34.hi + 1 < p12.lo
    /\ slot' = Filled(p34.hi + 1, e)
    /\ p34' = Run(p34.lo, p34.hi + 1)
    /\ UNCHANGED <<p12, p56>>

StartLast(e) ==
    /\ p56 = None /\ p34 # None /\ p34.hi + 1 >= p12.lo
    /\ slot' = Filled(p12.hi + 1, e)
    /\ p56' = Run(p12.hi + 1, p12.hi + 1)
    /\ UNCHANGED <<p12, p34>>

GrowOnly(e) ==
    /\ p56 = None /\ p34 = None /\ p12 # None /\ p12.lo = 1
    /\ slot' = Filled(p12.hi + 1, e)
    /\ p12' = Run(1, p12.hi + 1)
    /\ UNCHANGED <<p34, p56>>

StartFront(e) ==
    /\ p56 = None /\ p34 = None /\ p12 # None /\ p12.lo # 1
    /\ slot' = Filled(1, e)
    /\ p34' = Run(1, 1)
    /\ UNCHANGED <<p12, p56>>

Restart(e) ==
    /\ p56 = None /\ p34 = None /\ p12 = None
    /\ slot' = Filled(1, e)
    /\ p12' = Run(1, 1)
    /\ UNCHANGED <<p34, p56>>

(* enqueue takes every table without a field p for an empty one: of a list *)
(* that dequeue has not seen it overwrites slot 1, and the other slots are *)
(* in no run.                                                              *)
Enqueue(e) ==
    /\ Cardinality(Used) < MaxItems
    /\ GrowLast(e) \/ GrowFront(e) \/ StartLast(e) \/ GrowOnly(e)
       \/ StartFront(e) \/ Restart(e)
    /\ left' = IF hasP THEN left ELSE DOMAIN slot
    /\ hasP' = TRUE /\ UNCHANGED out

Next ==
    \/ Dequeue \/ DequeueEmpty
    \/ \E e \in Elements : Enqueue(e)

Spec == Init /\ [][Next]_vars

-----------------------------------------------------------------------------
TypeOK ==
    /\ DOMAIN slot \subseteq Nat \ {0} /\ slot \in [DOMAIN slot -> Elements]
    /\ hasP \in BOOLEAN /\ out \in Elements \cup {Nil}
    /\ p12 \in Runs /\ p34 \in Runs /\ p56 \in Runs
    /\ left \subseteq Nat \ {0}

(* Before the first call there is a list, no run and nothing left over.    *)
PlainList ==
    ~hasP => /\ slot \in Seq(Elements) /\ p12 = None /\ p34 = None /\ p56 = None
             /\ left = {}

(* The comment "Possible queue states" (ztact.lua:133-139): p[3]..p[4]     *)
(* lies at the front of the table before p[1]..p[2], p[5]..p[6] behind it, *)
(* the runs do not overlap and hold elements, and no other slot does but   *)
(* those of a list that enqueue took for an empty table.                   *)
PossibleQueueStates ==
    hasP =>
    /\ Used \subseteq DOMAIN slot /\ DOMAIN slot \subseteq Used \cup left
    /\ \A r \in {p12, p34, p56} : r = None \/ r.lo <= r.hi
    /\ p12 = None => p34 = None /\ p56 = None
    /\ p34 # None => p34.lo = 1 /\ p34.hi < p12.lo
    /\ p56 # None => p12.hi < p56.lo

(* No call disturbs an element that waits in the queue, except an enqueue  *)
(* that takes a list for an empty table: a slot where one waits is either  *)
(* kept as it is or given back.                                            *)
Waiting == IF hasP THEN Used ELSE DOMAIN slot

NothingOverwritten ==
    [][left' = left =>
         \A i \in Waiting \cap Waiting' : slot'[i] = slot[i]]_vars

(* The queue hands out its elements in the order they came in, except that *)
(* a list which enqueue takes for an empty table is forgotten.             *)
Items(r) == [i \in 1..(r.hi - r.lo + 1) |-> slot[r.lo + i - 1]]
Fifo == INSTANCE Fifo WITH
          items <- IF hasP THEN Items(p12) \o Items(p34) \o Items(p56) ELSE slot,
          begun <- hasP
IsFifo == Fifo!FifoSpec
=============================================================================
