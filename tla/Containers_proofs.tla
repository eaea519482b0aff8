------------------------- MODULE Containers_proofs --------------------------
(***************************************************************************)
(* Proofs about the containers: the queue of ztact.lua, of any length and  *)
(* content, and the splay tree of tree.h, for any set of keys and trees of *)
(* any size.                                                               *)
(***************************************************************************)
EXTENDS SegQueue, SplayTree, FiniteSetTheorems, SequenceTheorems, WellFoundedInduction, TLAPS

-----------------------------------------------------------------------------
(* The queue: how it lies in its table, that no waiting element is         *)
(* disturbed, and that it is first in, first out.                          *)

Inv == TypeOK /\ PlainList /\ PossibleQueueStates

LEMMA NoneFacts == None \in Runs /\ Slots(None) = {} /\ None.lo = 1 /\ None.hi = 0
  BY DEF None, Runs, Slots

LEMMA RunFacts ==
    ASSUME NEW l \in Nat \ {0}, NEW h \in Nat
    PROVE  /\ Run(l, h) \in Runs /\ Run(l, h).lo = l /\ Run(l, h).hi = h
           /\ Slots(Run(l, h)) = l..h
           /\ l <= h => Run(l, h) # None
  BY DEF Run, Runs, None, Slots

LEMMA FilledFacts ==
    ASSUME TypeOK, NEW i \in Nat \ {0}, NEW e \in Elements
    PROVE  /\ DOMAIN Filled(i, e) = DOMAIN slot \cup {i}
           /\ Filled(i, e) \in [DOMAIN slot \cup {i} -> Elements]
           /\ \A j \in DOMAIN slot \ {i} : Filled(i, e)[j] = slot[j]
  BY DEF TypeOK, Filled

LEMMA ClearedFacts ==
    ASSUME TypeOK, NEW i
    PROVE  /\ DOMAIN Cleared(i) = DOMAIN slot \ {i}
           /\ Cleared(i) \in [DOMAIN slot \ {i} -> Elements]
           /\ \A j \in DOMAIN slot \ {i} : Cleared(i)[j] = slot[j]
  BY DEF TypeOK, Cleared

(* The run that dequeue takes from is not empty; it and the other two hold *)
(* elements, and no slot that is not left over does but theirs, also       *)
(* before the table has a field p.                                         *)
Serving == Slots(First) \cup Slots(p34) \cup Slots(p56)

LEMMA FirstFacts ==
    ASSUME Inv, First # None
    PROVE  /\ First \in Runs /\ First.lo <= First.hi
           /\ Serving \subseteq DOMAIN slot /\ DOMAIN slot \subseteq Serving \cup left
           /\ p34 # None => p34.lo = 1 /\ p34.lo <= p34.hi /\ p34.hi < First.lo
           /\ p56 # None => First.hi < p56.lo /\ p56.lo <= p56.hi
  <1>1. CASE hasP
    BY <1>1 DEF Inv, First, TypeOK, PossibleQueueStates, Serving, Used
  <1>2. CASE ~hasP
    <2>1. slot \in Seq(Elements) /\ slot # <<>>
      BY <1>2 DEF Inv, PlainList, First
    <2>2. Len(slot) \in Nat \ {0} /\ DOMAIN slot = 1..Len(slot)
      BY <2>1
    <2>3. First = Run(1, Len(slot))
      BY <1>2, <2>1 DEF First
    <2> QED
      BY <1>2, <2>2, <2>3, RunFacts, NoneFacts DEF Inv, PlainList, Serving
  <1> QED
    BY <1>1, <1>2

LEMMA DequeueStep ==
    ASSUME Inv, Dequeue
    PROVE  Inv'
  <1>1. /\ First \in Runs /\ First.lo <= First.hi
        /\ Serving \subseteq DOMAIN slot /\ DOMAIN slot \subseteq Serving \cup left
        /\ p34 # None => p34.lo = 1 /\ p34.lo <= p34.hi /\ p34.hi < First.lo
        /\ p56 # None => First.hi < p56.lo /\ p56.lo <= p56.hi
    BY FirstFacts DEF Dequeue
  <1>2. /\ DOMAIN slot' = DOMAIN slot \ {First.lo}
        /\ slot' \in [DOMAIN slot' -> Elements]
    BY ClearedFacts DEF Dequeue, Inv
  <1>3. First.lo \in Nat \ {0} /\ First.hi \in Nat
    BY <1>1 DEF Runs
  <1>4. out' \in Elements
    <2>1. First.lo \in DOMAIN slot
      BY <1>1, <1>3 DEF Slots, Serving
    <2> QED
      BY <2>1 DEF Dequeue, Inv, TypeOK
  <1>5. p34 \in Runs /\ p56 \in Runs
    BY DEF Inv, TypeOK
  <1>11. ASSUME Used' = Serving \ {First.lo}
         PROVE  Used' \subseteq DOMAIN slot' /\ DOMAIN slot' \subseteq Used' \cup left'
    BY <1>1, <1>2, <1>11 DEF Dequeue
  <1>6. ASSUME First.lo < First.hi PROVE PossibleQueueStates'
    <2>1. p12' = Run(First.lo + 1, First.hi) /\ p34' = p34 /\ p56' = p56
      BY <1>1, <1>3, <1>6 DEF Dequeue
    <2>2. /\ p12' \in Runs /\ p12'.lo = First.lo + 1 /\ p12'.hi = First.hi
          /\ Slots(p12') = (First.lo + 1)..First.hi /\ p12' # None
      BY <1>3, <1>6, <2>1, RunFacts
    <2>3. Used' = Serving \ {First.lo}
      BY <1>1, <1>3, <1>5, <2>1, <2>2, NoneFacts DEF Slots, Runs, Used, Serving
    <2>4. \A r \in {p12, p34, p56}' : r = None \/ r.lo <= r.hi
      BY <1>1, <1>3, <1>6, <2>1, <2>2
    <2>5. /\ p34' # None => p34'.lo = 1 /\ p34'.hi < p12'.lo
          /\ p56' # None => p12'.hi < p56'.lo
      BY <1>1, <1>3, <1>5, <2>1, <2>2 DEF Runs
    <2> QED
      BY <1>11, <2>1, <2>2, <2>3, <2>4, <2>5, <1>5 DEF PossibleQueueStates
  <1>7. ASSUME First.lo = First.hi PROVE PossibleQueueStates'
    <2>1. Slots(First) = {First.lo}
      BY <1>3, <1>7 DEF Slots
    <2>2. First.lo \notin Slots(p34) /\ First.lo \notin Slots(p56)
      BY <1>1, <1>3, <1>5, <1>7, NoneFacts DEF Slots, Runs
    <2>3. Serving \ {First.lo} = Slots(p34) \cup Slots(p56)
      BY <2>1, <2>2 DEF Serving
    <2>4. CASE p34 # None
      <3>1. p12' = p34 /\ p34' = None /\ p56' = p56
        BY <1>3, <1>7, <2>4 DEF Dequeue
      <3>2. Used' = Serving \ {First.lo}
        BY <2>3, <3>1, NoneFacts DEF Used
      <3>3. p56' # None => p12'.hi < p56'.lo
        BY <1>1, <1>3, <1>5, <1>7, <2>4, <3>1 DEF Runs
      <3> QED
        BY <1>1, <1>5, <1>11, <2>4, <3>1, <3>2, <3>3, NoneFacts DEF PossibleQueueStates
    <2>5. CASE p34 = None /\ p56 # None
      <3>1. p12' = p56 /\ p34' = None /\ p56' = None
        BY <1>3, <1>7, <2>5 DEF Dequeue
      <3>2. Used' = Serving \ {First.lo}
        BY <2>3, <2>5, <3>1, NoneFacts DEF Used
      <3> QED
        BY <1>1, <1>5, <1>11, <2>5, <3>1, <3>2, NoneFacts DEF PossibleQueueStates
    <2>6. CASE p34 = None /\ p56 = None
      <3>1. p12' = None /\ p34' = None /\ p56' = None
        BY <1>3, <1>7, <2>6 DEF Dequeue
      <3>2. Used' = Serving \ {First.lo}
        BY <2>3, <2>6, <3>1, NoneFacts DEF Used
      <3> QED
        BY <1>11, <3>1, <3>2 DEF PossibleQueueStates
    <2> QED
      BY <2>4, <2>5, <2>6
  <1>8. p12' \in Runs /\ p34' \in Runs /\ p56' \in Runs
    <2>1. CASE First.lo < First.hi
      <3>1. p12' = Run(First.lo + 1, First.hi) /\ p34' = p34 /\ p56' = p56
        BY <1>1, <1>3, <2>1 DEF Dequeue
      <3> QED
        BY <1>3, <1>5, <3>1, RunFacts
    <2>2. CASE First.lo >= First.hi
      BY <1>3, <1>5, <2>2, NoneFacts DEF Dequeue
    <2> QED
      BY <1>3, <2>1, <2>2
  <1>9. TypeOK'
    <2>1. DOMAIN slot' \subseteq Nat \ {0}
      BY <1>2 DEF Inv, TypeOK
    <2>2. hasP' \in BOOLEAN /\ out' \in Elements \cup {Nil} /\ left' \subseteq Nat \ {0}
      BY <1>4 DEF Dequeue, Inv, TypeOK
    <2> QED
      BY <1>2, <1>8, <2>1, <2>2 DEF TypeOK
  <1>10. PlainList'
    BY DEF PlainList, Dequeue
  <1> QED
    BY <1>1, <1>3, <1>6, <1>7, <1>9, <1>10 DEF Inv

(* The slot that enqueue takes is in no run.                               *)
Taken(e, i) == slot' = Filled(i, e) /\ i \in Nat \ {0} /\ i \notin Used

LEMMA EnqueueStep ==
    ASSUME Inv, NEW e \in Elements, Enqueue(e)
    PROVE  Inv' /\ \E i : Taken(e, i)
  <1>1. p12 \in Runs /\ p34 \in Runs /\ p56 \in Runs
    BY DEF Inv, TypeOK
  <1>2. /\ Used \subseteq DOMAIN slot /\ DOMAIN slot \subseteq Used \cup left'
        /\ \A r \in {p12, p34, p56} : r = None \/ r.lo <= r.hi
        /\ p12 = None => p34 = None /\ p56 = None
        /\ p34 # None => p34.lo = 1 /\ p34.hi < p12.lo
        /\ p56 # None => p12.hi < p56.lo
    <2>1. CASE hasP
      BY <2>1 DEF Inv, PossibleQueueStates, Enqueue
    <2>2. CASE ~hasP
      BY <2>2, NoneFacts DEF Inv, PlainList, Enqueue, Used
    <2> QED
      BY <2>1, <2>2
  <1>3. hasP' = TRUE /\ out' = out /\ left' \subseteq Nat \ {0}
    BY DEF Enqueue, Inv, TypeOK
  <1>4. ASSUME NEW i \in Nat \ {0}, i \notin Used, slot' = Filled(i, e),
               p12' \in Runs, p34' \in Runs, p56' \in Runs,
               Slots(p12') \cup Slots(p34') \cup Slots(p56') = Used \cup {i},
               p12' # None, p12'.lo <= p12'.hi,
               p34' # None => p34'.lo = 1 /\ p34'.lo <= p34'.hi /\ p34'.hi < p12'.lo,
               p56' # None => p12'.hi < p56'.lo /\ p56'.lo <= p56'.hi
        PROVE  Inv' /\ \E k : Taken(e, k)
    <2>1. DOMAIN slot' = DOMAIN slot \cup {i} /\ slot' \in [DOMAIN slot' -> Elements]
      BY <1>4, FilledFacts DEF Inv
    <2>2. TypeOK'
      BY <1>3, <1>4, <2>1 DEF TypeOK, Inv
    <2>3. PossibleQueueStates'
      <3>1. Used' = Used \cup {i}
        BY <1>4 DEF Used
      <3>2. Used' \subseteq DOMAIN slot' /\ DOMAIN slot' \subseteq Used' \cup left'
        BY <1>2, <2>1, <3>1
      <3> QED
        BY <1>3, <1>4, <3>2 DEF PossibleQueueStates
    <2>4. PlainList'
      BY <1>3 DEF PlainList
    <2> QED
      BY <1>4, <2>2, <2>3, <2>4 DEF Inv, Taken
  <1>5. CASE GrowLast(e)
    <2> DEFINE i == p56.hi + 1
    <2>1. p56 # None /\ p12 # None /\ p56.lo <= p56.hi /\ p12.hi < p56.lo
      BY <1>2, <1>5 DEF GrowLast
    <2>2. slot' = Filled(i, e) /\ p56' = Run(p56.lo, i) /\ p12' = p12 /\ p34' = p34
      BY <1>5 DEF GrowLast
    <2>3. i \in Nat \ {0} /\ p56.lo \in Nat \ {0} /\ p56.lo <= i
      BY <1>1, <2>1 DEF Runs
    <2>4. p56' \in Runs /\ p56'.lo = p56.lo /\ p56'.hi = i /\ p56' # None
      BY <2>2, <2>3, RunFacts
    <2>5. Slots(p56') = Slots(p56) \cup {i}
      BY <1>1, <2>1, <2>4 DEF Slots, Runs
    <2>6. i \notin Used
      BY <1>1, <1>2, <2>1, NoneFacts DEF Slots, Runs, Used
    <2> QED
      BY <1>1, <1>2, <1>4, <2>1, <2>2, <2>3, <2>4, <2>5, <2>6 DEF Used
  <1>6. CASE GrowFront(e)
    <2> DEFINE i == p34.hi + 1
    <2>1. p34 # None /\ p12 # None /\ p56 = None /\ i < p12.lo
          /\ p34.lo = 1 /\ p34.lo <= p34.hi /\ p12.lo <= p12.hi
      BY <1>2, <1>6 DEF GrowFront
    <2>2. slot' = Filled(i, e) /\ p34' = Run(1, i) /\ p12' = p12 /\ p56' = p56
      BY <1>6, <2>1 DEF GrowFront
    <2>3. i \in Nat \ {0} /\ 1 <= i
      BY <1>1, <2>1 DEF Runs
    <2>4. p34' \in Runs /\ p34'.lo = 1 /\ p34'.hi = i /\ p34' # None
      BY <2>2, <2>3, RunFacts
    <2>5. Slots(p34') = Slots(p34) \cup {i}
      BY <1>1, <2>1, <2>4 DEF Slots, Runs
    <2>6. i \notin Used
      BY <1>1, <1>2, <2>1, NoneFacts DEF Slots, Runs, Used
    <2> QED
      BY <1>1, <1>2, <1>4, <2>1, <2>2, <2>3, <2>4, <2>5, <2>6 DEF Used
  <1>7. CASE StartLast(e)
    <2> DEFINE i == p12.hi + 1
    <2>1. p34 # None /\ p12 # None /\ p56 = None /\ p34.hi < p12.lo
          /\ p34.lo = 1 /\ p34.lo <= p34.hi /\ p12.lo <= p12.hi
      BY <1>2, <1>7 DEF StartLast
    <2>2. slot' = Filled(i, e) /\ p56' = Run(i, i) /\ p12' = p12 /\ p34' = p34
      BY <1>7 DEF StartLast
    <2>3. i \in Nat \ {0} /\ p12.hi < i
      BY <1>1 DEF Runs
    <2>4. p56' \in Runs /\ p56'.lo = i /\ p56'.hi = i /\ p56' # None
      BY <2>2, <2>3, RunFacts
    <2>5. Slots(p56') = {i} /\ Slots(p56) = {}
      BY <2>1, <2>3, <2>4, NoneFacts DEF Slots
    <2>6. i \notin Used
      BY <1>1, <1>2, <2>1, NoneFacts DEF Slots, Runs, Used
    <2> QED
      BY <1>1, <1>2, <1>4, <2>1, <2>2, <2>3, <2>4, <2>5, <2>6 DEF Used
  <1>8. CASE GrowOnly(e)
    <2> DEFINE i == p12.hi + 1
    <2>1. p34 = None /\ p12 # None /\ p56 = None /\ p12.lo = 1 /\ p12.lo <= p12.hi
      BY <1>2, <1>8 DEF GrowOnly
    <2>2. slot' = Filled(i, e) /\ p12' = Run(1, i) /\ p34' = p34 /\ p56' = p56
      BY <1>8 DEF GrowOnly
    <2>3. i \in Nat \ {0} /\ 1 <= i
      BY <1>1 DEF Runs
    <2>4. p12' \in Runs /\ p12'.lo = 1 /\ p12'.hi = i /\ p12' # None
      BY <2>2, <2>3, RunFacts
    <2>5. Slots(p12') = Slots(p12) \cup {i}
      BY <1>1, <2>1, <2>4 DEF Slots, Runs
    <2>6. i \notin Used
      BY <1>1, <1>2, <2>1, NoneFacts DEF Slots, Runs, Used
    <2> QED
      BY <1>1, <1>2, <1>4, <2>1, <2>2, <2>3, <2>4, <2>5, <2>6 DEF Used
  <1>9. CASE StartFront(e)
    <2>1. p34 = None /\ p12 # None /\ p56 = None /\ p12.lo # 1 /\ p12.lo <= p12.hi
      BY <1>2, <1>9 DEF StartFront
    <2>2. slot' = Filled(1, e) /\ p34' = Run(1, 1) /\ p12' = p12 /\ p56' = p56
      BY <1>9 DEF StartFront
    <2>3. 1 < p12.lo
      BY <1>1, <2>1 DEF Runs
    <2>4. p34' \in Runs /\ p34'.lo = 1 /\ p34'.hi = 1 /\ p34' # None
      BY <2>2, RunFacts
    <2>5. Slots(p34') = {1} /\ Slots(p34) = {}
      BY <2>1, <2>4, NoneFacts DEF Slots
    <2>6. 1 \notin Used
      BY <1>1, <1>2, <2>1, <2>3, NoneFacts DEF Slots, Runs, Used
    <2> QED
      BY <1>1, <1>2, <1>4, <2>1, <2>2, <2>3, <2>4, <2>5, <2>6 DEF Used
  <1>10. CASE Restart(e)
    <2>1. p34 = None /\ p12 = None /\ p56 = None
      BY <1>10 DEF Restart
    <2>2. slot' = Filled(1, e) /\ p12' = Run(1, 1) /\ p34' = p34 /\ p56' = p56
      BY <1>10 DEF Restart
    <2>3. p12' \in Runs /\ p12'.lo = 1 /\ p12'.hi = 1 /\ p12' # None
      BY <2>2, RunFacts
    <2>4. Slots(p12') = {1} /\ Used = {}
      BY <1>2, <2>1, <2>3, NoneFacts DEF Slots, Used
    <2> QED
      BY <1>1, <1>2, <1>4, <2>1, <2>2, <2>3, <2>4 DEF Used
  <1> QED
    BY <1>5, <1>6, <1>7, <1>8, <1>9, <1>10 DEF Enqueue

LEMMA InitInv == Init => Inv
  <1> SUFFICES ASSUME Init PROVE Inv
    OBVIOUS
  <1>1. PICK n \in 0..MaxItems : slot \in [1..n -> Elements]
    BY DEF Init
  <1>2. n \in Nat /\ DOMAIN slot = 1..n
    BY <1>1, MaxItemsIsNatural
  <1>3. slot \in Seq(Elements)
    BY <1>1, <1>2
  <1>4. TypeOK
    <2>1. DOMAIN slot \subseteq Nat \ {0}
      BY <1>2
    <2>2. slot \in [DOMAIN slot -> Elements]
      BY <1>1, <1>2
    <2> QED
      BY <2>1, <2>2, NoneFacts DEF Init, TypeOK
  <1> QED
    BY <1>3, <1>4 DEF Init, Inv, PlainList, PossibleQueueStates

LEMMA NextInv ==
    ASSUME Inv, [Next]_vars
    PROVE  /\ Inv'
           /\ left' = left => \A i \in Waiting \cap Waiting' : slot'[i] = slot[i]
  <1>1. CASE Dequeue
    <2>1. \A i \in DOMAIN slot' : slot'[i] = slot[i]
      BY <1>1, ClearedFacts DEF Dequeue, Inv
    <2>2. Waiting' \subseteq DOMAIN slot'
      BY <1>1, DequeueStep DEF Dequeue, Waiting, Inv, PossibleQueueStates
    <2> QED
      BY <1>1, <2>1, <2>2, DequeueStep
  <1>2. CASE \E e \in Elements : Enqueue(e)
    <2>1. PICK e \in Elements : Enqueue(e)
      BY <1>2
    <2>2. PICK i : Taken(e, i)
      BY <2>1, EnqueueStep
    <2>3. \A j \in DOMAIN slot \ {i} : slot'[j] = slot[j]
      BY <2>2, FilledFacts DEF Taken, Inv
    <2>4. CASE hasP
      <3>1. Waiting \subseteq DOMAIN slot \ {i}
        BY <2>2, <2>4 DEF Waiting, Taken, Inv, PossibleQueueStates
      <3> QED
        BY <2>1, <2>3, <3>1, EnqueueStep
    <2>5. CASE ~hasP
      <3>1. left' = left => Waiting = {}
        BY <2>1, <2>5 DEF Enqueue, Inv, PlainList, Waiting
      <3> QED
        BY <2>1, <3>1, EnqueueStep
    <2> QED
      BY <2>4, <2>5
  <1>3. CASE DequeueEmpty
    BY <1>3 DEF DequeueEmpty, Inv, TypeOK, PlainList, PossibleQueueStates, Used
  <1>4. CASE UNCHANGED vars
    BY <1>4 DEF vars, Inv, TypeOK, PlainList, PossibleQueueStates, Used
  <1> QED
    BY <1>1, <1>2, <1>3, <1>4 DEF Next

(* The arrangements of the runs are those that the comment lists, after    *)
(* every sequence of calls on a queue of any length, and the slots in use  *)
(* are theirs and those left over of a list taken for an empty table.      *)
THEOREM QueueStates == Spec => []PossibleQueueStates
  <1>1. Inv /\ [Next]_vars => Inv'
    BY NextInv
  <1>2. Inv => PossibleQueueStates
    BY DEF Inv
  <1> QED
    BY <1>1, <1>2, InitInv, PTL DEF Spec

(* A slot where an element goes on waiting keeps it, in every call but an  *)
(* enqueue that takes a list for an empty table.                           *)
THEOREM NoOverwriting == Spec => NothingOverwritten
  <1>1. Inv /\ [Next]_vars => Inv'
    BY NextInv
  <1>2. Inv /\ [Next]_vars
          => [left' = left => \A i \in Waiting \cap Waiting' : slot'[i] = slot[i]]_vars
    BY NextInv
  <1> QED
    BY <1>1, <1>2, InitInv, PTL DEF Spec, NothingOverwritten

-----------------------------------------------------------------------------
(* The queue as a sequence: a run holds the part of it that lies in its    *)
(* slots, and the runs one behind the other are the queue.                 *)
ItemsOf(t, r) == [i \in 1..(r.hi - r.lo + 1) |-> t[r.lo + i - 1]]

Queue == IF hasP THEN Items(p12) \o Items(p34) \o Items(p56) ELSE slot

LEMMA SeqIs ==
    ASSUME NEW n \in Nat, NEW f, DOMAIN f = 1..n, \A i \in 1..n : f[i] \in Elements,
           f = [i \in 1..n |-> f[i]]
    PROVE  f \in Seq(Elements) /\ Len(f) = n
  <1>1. f \in [1..n -> Elements]
    OBVIOUS
  <1>2. f \in Seq(Elements)
    BY <1>1
  <1>3. DOMAIN f = 1..Len(f) /\ Len(f) \in Nat
    BY <1>2, LenProperties
  <1> QED
    BY <1>2, <1>3, SMT

LEMMA ItemsFacts ==
    ASSUME NEW t, NEW r \in Runs, r.lo <= r.hi + 1, \A i \in Slots(r) : t[i] \in Elements
    PROVE  /\ ItemsOf(t, r) \in Seq(Elements)
           /\ Len(ItemsOf(t, r)) = r.hi - r.lo + 1
           /\ \A i \in 1..(r.hi - r.lo + 1) : ItemsOf(t, r)[i] = t[r.lo + i - 1]
  <1> DEFINE n == r.hi - r.lo + 1
             f == ItemsOf(t, r)
  <1>1. n \in Nat /\ r.lo \in Nat \ {0} /\ r.hi \in Nat
    BY DEF Runs
  <1>2. DOMAIN f = 1..n /\ f = [i \in 1..n |-> f[i]] /\ \A i \in 1..n : f[i] = t[r.lo + i - 1]
    BY DEF ItemsOf
  <1>3. \A i \in 1..n : r.lo + i - 1 \in Slots(r)
    BY <1>1 DEF Slots
  <1>4. \A i \in 1..n : f[i] \in Elements
    BY <1>2, <1>3
  <1> HIDE DEF n, f
  <1>5. f \in Seq(Elements) /\ Len(f) = n
    BY <1>1, <1>2, <1>4, SeqIs
  <1> QED
    BY <1>2, <1>5 DEF f, n

LEMMA ItemsOfNone == ASSUME NEW t PROVE ItemsOf(t, None) = <<>>
  <1>1. \A i \in Slots(None) : t[i] \in Elements
    BY NoneFacts
  <1>2. None \in Runs /\ None.lo <= None.hi + 1 /\ None.hi - None.lo + 1 = 0
    BY NoneFacts
  <1>3. ItemsOf(t, None) \in Seq(Elements) /\ Len(ItemsOf(t, None)) = 0
    BY <1>1, <1>2, ItemsFacts
  <1> QED
    BY <1>3, EmptySeq

LEMMA ItemsSame ==
    ASSUME NEW t, NEW u, NEW r \in Runs, \A i \in Slots(r) : t[i] = u[i]
    PROVE  ItemsOf(t, r) = ItemsOf(u, r)
  <1>1. r.lo \in Nat /\ r.hi \in Nat
    BY DEF Runs
  <1>2. \A i \in 1..(r.hi - r.lo + 1) : r.lo + i - 1 \in Slots(r)
    BY <1>1 DEF Slots
  <1> QED
    BY <1>2 DEF ItemsOf

LEMMA ItemsOfRun ==
    ASSUME NEW t, NEW l \in Nat \ {0}, NEW h \in Nat, l <= h + 1, \A i \in l..h : t[i] \in Elements
    PROVE  /\ ItemsOf(t, Run(l, h)) \in Seq(Elements)
           /\ Len(ItemsOf(t, Run(l, h))) = h - l + 1
           /\ \A i \in 1..(h - l + 1) : ItemsOf(t, Run(l, h))[i] = t[l + i - 1]
  <1> DEFINE r == Run(l, h)
  <1>1. r \in Runs /\ r.lo = l /\ r.hi = h /\ Slots(r) = l..h
    BY RunFacts
  <1> HIDE DEF r
  <1>2. r.lo <= r.hi + 1 /\ \A i \in Slots(r) : t[i] \in Elements
    BY <1>1
  <1>3. /\ ItemsOf(t, r) \in Seq(Elements)
        /\ Len(ItemsOf(t, r)) = r.hi - r.lo + 1
        /\ \A i \in 1..(r.hi - r.lo + 1) : ItemsOf(t, r)[i] = t[r.lo + i - 1]
    BY <1>1, <1>2, ItemsFacts
  <1>4. /\ ItemsOf(t, r) \in Seq(Elements)
        /\ Len(ItemsOf(t, r)) = h - l + 1
        /\ \A i \in 1..(h - l + 1) : ItemsOf(t, r)[i] = t[l + i - 1]
    BY <1>1, <1>3
  <1> QED
    BY <1>4 DEF r

LEMMA ItemsFirst ==
    ASSUME NEW t, NEW l \in Nat \ {0}, NEW h \in Nat, l <= h, \A i \in l..h : t[i] \in Elements
    PROVE  ItemsOf(t, Run(l, h)) = <<t[l]>> \o ItemsOf(t, Run(l + 1, h))
  <1> DEFINE a == ItemsOf(t, Run(l, h))
             b == ItemsOf(t, Run(l + 1, h))
  <1>1. l + 1 \in Nat \ {0} /\ l \in l..h /\ l <= h + 1 /\ l + 1 <= h + 1
        /\ \A i \in (l + 1)..h : i \in l..h
    OBVIOUS
  <1>2. /\ a \in Seq(Elements) /\ Len(a) = h - l + 1
        /\ \A i \in 1..(h - l + 1) : a[i] = t[l + i - 1]
    BY <1>1, ItemsOfRun
  <1>3. /\ b \in Seq(Elements) /\ Len(b) = h - (l + 1) + 1
        /\ \A i \in 1..(h - (l + 1) + 1) : b[i] = t[(l + 1) + i - 1]
    BY <1>1, ItemsOfRun
  <1>4. <<t[l]>> \in Seq(Elements) /\ Len(<<t[l]>>) = 1 /\ <<t[l]>>[1] = t[l]
    BY <1>1
  <1> HIDE DEF a, b
  <1>5. /\ <<t[l]>> \o b \in Seq(Elements) /\ Len(<<t[l]>> \o b) = 1 + Len(b)
        /\ \A i \in 1..(1 + Len(b)) :
              (<<t[l]>> \o b)[i] = IF i <= 1 THEN <<t[l]>>[i] ELSE b[i - 1]
    BY <1>3, <1>4, ConcatProperties
  <1>6. \A i \in 1..Len(a) : a[i] = (<<t[l]>> \o b)[i]
    <2> SUFFICES ASSUME NEW i \in 1..Len(a) PROVE a[i] = (<<t[l]>> \o b)[i]
      OBVIOUS
    <2>1. CASE i = 1
      BY <1>2, <1>3, <1>4, <1>5, <2>1
    <2>2. CASE i # 1
      <3>1. i - 1 \in 1..(h - (l + 1) + 1) /\ (l + 1) + (i - 1) - 1 = l + i - 1 /\ ~(i <= 1)
            /\ i \in 1..(1 + Len(b)) /\ i \in 1..(h - l + 1)
        BY <1>2, <1>3, <2>2
      <3> QED
        BY <1>2, <1>3, <1>5, <3>1
    <2> QED
      BY <2>1, <2>2
  <1>7. Len(a) = Len(<<t[l]>> \o b)
    BY <1>2, <1>3, <1>5
  <1>8. a = <<t[l]>> \o b
    BY <1>2, <1>5, <1>6, <1>7, SeqEqual
  <1> QED
    BY <1>8 DEF a, b

LEMMA ItemsLast ==
    ASSUME NEW t, NEW l \in Nat \ {0}, NEW h \in Nat, l <= h + 1,
           \A i \in l..(h + 1) : t[i] \in Elements
    PROVE  ItemsOf(t, Run(l, h + 1)) = Append(ItemsOf(t, Run(l, h)), t[h + 1])
  <1> DEFINE a == ItemsOf(t, Run(l, h + 1))
             b == ItemsOf(t, Run(l, h))
             e == t[h + 1]
  <1>1. h + 1 \in Nat /\ h + 1 \in l..(h + 1) /\ l <= (h + 1) + 1 /\ \A i \in l..h : i \in l..(h + 1)
    OBVIOUS
  <1>2. /\ a \in Seq(Elements) /\ Len(a) = (h + 1) - l + 1
        /\ \A i \in 1..((h + 1) - l + 1) : a[i] = t[l + i - 1]
    BY <1>1, ItemsOfRun
  <1>3. /\ b \in Seq(Elements) /\ Len(b) = h - l + 1
        /\ \A i \in 1..(h - l + 1) : b[i] = t[l + i - 1]
    BY <1>1, ItemsOfRun
  <1>4. e \in Elements
    BY <1>1
  <1> HIDE DEF a, b, e
  <1>5. /\ Append(b, e) \in Seq(Elements) /\ Len(Append(b, e)) = Len(b) + 1
        /\ \A i \in 1..Len(b) : Append(b, e)[i] = b[i]
        /\ Append(b, e)[Len(b) + 1] = e
    BY <1>3, <1>4, AppendProperties
  <1>6. \A i \in 1..Len(a) : a[i] = Append(b, e)[i]
    <2> SUFFICES ASSUME NEW i \in 1..Len(a) PROVE a[i] = Append(b, e)[i]
      OBVIOUS
    <2>1. CASE i = Len(a)
      <3>1. i = Len(b) + 1 /\ l + i - 1 = h + 1 /\ i \in 1..((h + 1) - l + 1)
        BY <1>1, <1>2, <1>3, <2>1
      <3>2. a[i] = t[h + 1]
        BY <1>2, <3>1
      <3> QED
        BY <1>5, <3>1, <3>2 DEF e
    <2>2. CASE i # Len(a)
      <3>1. i \in 1..Len(b) /\ i \in 1..(h - l + 1) /\ i \in 1..((h + 1) - l + 1)
        BY <1>2, <1>3, <2>2
      <3> QED
        BY <1>2, <1>3, <1>5, <3>1
    <2> QED
      BY <2>1, <2>2
  <1>7. Len(a) = Len(Append(b, e))
    BY <1>2, <1>3, <1>5
  <1>8. a = Append(b, e)
    BY <1>2, <1>5, <1>6, <1>7, SeqEqual
  <1> QED
    BY <1>8 DEF a, b, e

LEMMA ConcatFacts ==
    ASSUME NEW a \in Seq(Elements), NEW b \in Seq(Elements), NEW c \in Seq(Elements),
           NEW e \in Elements
    PROVE  /\ a \o b \o c \in Seq(Elements)
           /\ a \o b \o <<>> = a \o b /\ a \o <<>> \o b = a \o b /\ <<>> \o a \o b = a \o b
           /\ a \o b \o Append(c, e) = Append(a \o b \o c, e)
           /\ a \o Append(b, e) \o <<>> = Append(a \o b \o <<>>, e)
           /\ Append(a, e) \o <<>> \o <<>> = Append(a \o <<>> \o <<>>, e)
  <1>1. a \o b \in Seq(Elements) /\ a \o b \o c \in Seq(Elements) /\ <<>> \in Seq(Elements)
    BY ConcatProperties, EmptySeq
  <1>2. \A s \in Seq(Elements) : s \o <<>> = s /\ <<>> \o s = s
    BY ConcatEmptySeq
  <1>3. \A s, t \in Seq(Elements) : s \o Append(t, e) = Append(s \o t, e)
    <2> SUFFICES ASSUME NEW s \in Seq(Elements), NEW t \in Seq(Elements)
                 PROVE  s \o Append(t, e) = Append(s \o t, e)
      OBVIOUS
    <2>1. <<e>> \in Seq(Elements) /\ s \o t \in Seq(Elements)
      BY ConcatProperties
    <2>2. Append(t, e) = t \o <<e>> /\ Append(s \o t, e) = (s \o t) \o <<e>>
      BY <2>1, AppendIsConcat
    <2>3. s \o (t \o <<e>>) = (s \o t) \o <<e>>
      BY <2>1, ConcatAssociative
    <2> QED
      BY <2>2, <2>3
  <1>4. /\ a \o b \o <<>> = a \o b /\ a \o <<>> \o b = a \o b /\ <<>> \o a \o b = a \o b
        /\ a \o b \o Append(c, e) = Append(a \o b \o c, e)
    BY <1>1, <1>2, <1>3
  <1>5. a \o Append(b, e) \o <<>> = Append(a \o b \o <<>>, e)
    <2>1. Append(b, e) \in Seq(Elements)
      BY AppendProperties
    <2>2. a \o Append(b, e) \in Seq(Elements)
      BY <2>1, ConcatProperties
    <2> QED
      BY <1>1, <1>2, <1>3, <2>2
  <1>6. Append(a, e) \o <<>> \o <<>> = Append(a \o <<>> \o <<>>, e)
    <2>1. Append(a, e) \in Seq(Elements)
      BY AppendProperties
    <2> QED
      BY <1>2, <2>1
  <1> QED
    BY <1>1, <1>4, <1>5, <1>6

(* The runs, also before the table has a field p.                          *)
LEMMA RunsHold ==
    ASSUME Inv, hasP
    PROVE  /\ \A r \in {p12, p34, p56} :
                /\ r \in Runs /\ r.lo <= r.hi + 1 /\ Slots(r) \subseteq DOMAIN slot
                /\ \A i \in Slots(r) : slot[i] \in Elements
                /\ ItemsOf(slot, r) \in Seq(Elements)
           /\ Queue = ItemsOf(slot, p12) \o ItemsOf(slot, p34) \o ItemsOf(slot, p56)
  <1>1. /\ p12 \in Runs /\ p34 \in Runs /\ p56 \in Runs
        /\ slot \in [DOMAIN slot -> Elements]
        /\ Slots(p12) \cup Slots(p34) \cup Slots(p56) \subseteq DOMAIN slot
        /\ \A r \in {p12, p34, p56} : r = None \/ r.lo <= r.hi
    BY DEF Inv, TypeOK, PossibleQueueStates, Used
  <1>2. \A r \in {p12, p34, p56} :
           /\ r \in Runs /\ r.lo <= r.hi + 1 /\ Slots(r) \subseteq DOMAIN slot
           /\ \A i \in Slots(r) : slot[i] \in Elements
    BY <1>1, NoneFacts DEF Runs
  <1>3. \A r \in {p12, p34, p56} : ItemsOf(slot, r) \in Seq(Elements)
    BY <1>2, ItemsFacts
  <1>4. Queue = ItemsOf(slot, p12) \o ItemsOf(slot, p34) \o ItemsOf(slot, p56)
    BY DEF Queue, Items, ItemsOf
  <1> QED
    BY <1>2, <1>3, <1>4

(* Where dequeue takes from, the queue begins.                             *)
LEMMA QueueFromFirst ==
    ASSUME Inv, First # None
    PROVE  /\ First \in Runs /\ First.lo <= First.hi
           /\ \A i \in Slots(First) : slot[i] \in Elements
           /\ ItemsOf(slot, p34) \in Seq(Elements) /\ ItemsOf(slot, p56) \in Seq(Elements)
           /\ Queue = ItemsOf(slot, First) \o ItemsOf(slot, p34) \o ItemsOf(slot, p56)
  <1>1. /\ First \in Runs /\ First.lo <= First.hi
        /\ Serving \subseteq DOMAIN slot
    BY FirstFacts
  <1>2. \A i \in DOMAIN slot : slot[i] \in Elements
    BY DEF Inv, TypeOK
  <1>3. CASE hasP
    <2>1. First = p12
      BY <1>3 DEF First
    <2> QED
      BY <1>1, <1>2, <1>3, <2>1, RunsHold DEF Serving
  <1>4. CASE ~hasP
    <2>1. slot \in Seq(Elements) /\ p12 = None /\ p34 = None /\ p56 = None
      BY <1>4 DEF Inv, PlainList
    <2>2. First = Run(1, Len(slot)) /\ slot # <<>>
      BY <1>4, <2>1 DEF First
    <2>3. Len(slot) \in Nat \ {0} /\ slot = [i \in 1..Len(slot) |-> slot[i]]
      BY <2>1, <2>2, EmptySeq
    <2>4. First.lo = 1 /\ First.hi = Len(slot) /\ Slots(First) = 1..Len(slot)
      BY <2>2, <2>3, RunFacts
    <2>5. ItemsOf(slot, First) = slot
      <3>1. Len(slot) - 1 + 1 = Len(slot)
        BY <2>3
      <3>2. \A i \in 1..Len(slot) : slot[1 + i - 1] = slot[i]
        BY <2>3
      <3> QED
        BY <2>3, <2>4, <3>1, <3>2 DEF ItemsOf
    <2>6. ItemsOf(slot, p34) = <<>> /\ ItemsOf(slot, p56) = <<>> /\ <<>> \in Seq(Elements)
      BY <2>1, ItemsOfNone, EmptySeq
    <2>7. Queue = slot
      BY <1>4 DEF Queue
    <2> QED
      BY <1>1, <1>2, <2>1, <2>5, <2>6, <2>7, ConcatEmptySeq DEF Serving
  <1> QED
    BY <1>3, <1>4

LEMMA FirstThenRest ==
    ASSUME NEW s \in Seq(Elements), NEW e \in Elements
    PROVE  <<e>> \o s # <<>> /\ Head(<<e>> \o s) = e /\ Tail(<<e>> \o s) = s
  <1> DEFINE u == <<e>> \o s
  <1>1. <<e>> \in Seq(Elements) /\ Len(<<e>>) = 1 /\ <<e>>[1] = e /\ Len(s) \in Nat
    BY LenProperties
  <1>2. /\ u \in Seq(Elements) /\ Len(u) = 1 + Len(s)
        /\ \A i \in 1..(1 + Len(s)) : u[i] = IF i <= 1 THEN <<e>>[i] ELSE s[i - 1]
    BY <1>1, ConcatProperties
  <1> HIDE DEF u
  <1>3. u # <<>>
    BY <1>1, <1>2, EmptySeq
  <1>4. Head(u) = e
    BY <1>1, <1>2, <1>3
  <1>5. /\ Tail(u) \in Seq(Elements) /\ Len(Tail(u)) = Len(s)
        /\ \A i \in 1..Len(s) : Tail(u)[i] = u[i + 1]
    BY <1>1, <1>2, <1>3, HeadTailProperties
  <1>6. \A i \in 1..Len(s) : u[i + 1] = s[i]
    BY <1>1, <1>2
  <1>7. Tail(u) = s
    BY <1>5, <1>6, SeqEqual
  <1> QED
    BY <1>3, <1>4, <1>7 DEF u

LEMMA ConcatFromFirst ==
    ASSUME NEW a \in Seq(Elements), NEW b \in Seq(Elements), NEW c \in Seq(Elements),
           NEW e \in Elements
    PROVE  <<e>> \o a \o b \o c = <<e>> \o (a \o b \o c) /\ a \o b \o c \in Seq(Elements)
  <1>1. <<e>> \in Seq(Elements) /\ a \o b \in Seq(Elements) /\ a \o b \o c \in Seq(Elements)
    BY ConcatProperties
  <1>2. <<e>> \o a \o b = <<e>> \o (a \o b)
    BY <1>1, ConcatAssociative
  <1> QED
    BY <1>1, <1>2, ConcatAssociative

LEMMA DequeueTakes ==
    ASSUME Inv, Dequeue
    PROVE  Queue # <<>> /\ Queue' = Tail(Queue) /\ out' = Head(Queue)
  <1> DEFINE l == First.lo
             h == First.hi
             rest == ItemsOf(slot, Run(l + 1, h))
             i34 == ItemsOf(slot, p34)
             i56 == ItemsOf(slot, p56)
  <1>1. /\ First # None /\ First \in Runs /\ l <= h /\ l \in Nat \ {0} /\ h \in Nat
        /\ \A i \in Slots(First) : slot[i] \in Elements
        /\ First = Run(l, h) /\ Slots(First) = l..h
    BY QueueFromFirst DEF Dequeue, Runs, Run, Slots
  <1>2. /\ i34 \in Seq(Elements) /\ i56 \in Seq(Elements)
        /\ Queue = ItemsOf(slot, First) \o i34 \o i56
    BY <1>1, QueueFromFirst
  <1>3. ItemsOf(slot, First) = <<slot[l]>> \o rest /\ rest \in Seq(Elements) /\ slot[l] \in Elements
    <2>1. ItemsOf(slot, Run(l, h)) = <<slot[l]>> \o rest
      BY <1>1, ItemsFirst
    <2>2. Run(l + 1, h) \in Runs /\ Run(l + 1, h).lo = l + 1 /\ Run(l + 1, h).hi = h
          /\ Slots(Run(l + 1, h)) = (l + 1)..h /\ l + 1 <= h + 1
          /\ \A i \in (l + 1)..h : i \in l..h
      BY <1>1, RunFacts
    <2>3. rest \in Seq(Elements)
      BY <1>1, <2>2, ItemsFacts
    <2> QED
      BY <1>1, <2>1, <2>3
  <1>4. hasP' /\ out' = slot[l] /\ Inv' /\ slot' = Cleared(l)
    BY DequeueStep DEF Dequeue
  <1>5. \A i \in DOMAIN slot' : slot'[i] = slot[i]
    BY <1>4, ClearedFacts DEF Inv
  <1>6. \A r \in {p12', p34', p56'} : ItemsOf(slot', r) = ItemsOf(slot, r)
    <2> SUFFICES ASSUME NEW r \in {p12', p34', p56'} PROVE ItemsOf(slot', r) = ItemsOf(slot, r)
      OBVIOUS
    <2>1. r \in Runs /\ Slots(r) \subseteq DOMAIN slot'
      BY <1>4 DEF Inv, TypeOK, PossibleQueueStates, Used
    <2> QED
      BY <1>5, <2>1, ItemsSame
  <1>7. Queue' = ItemsOf(slot, p12') \o ItemsOf(slot, p34') \o ItemsOf(slot, p56')
    <2>1. Queue' = ItemsOf(slot', p12') \o ItemsOf(slot', p34') \o ItemsOf(slot', p56')
      BY <1>4 DEF Queue, Items, ItemsOf
    <2> QED
      BY <1>6, <2>1
  <1>8. Queue' = rest \o i34 \o i56
    <2>1. CASE l < h
      <3>1. p12' = Run(l + 1, h) /\ p34' = p34 /\ p56' = p56
        BY <1>1, <2>1 DEF Dequeue
      <3> QED
        BY <1>7, <3>1
    <2>2. CASE l = h
      <3>1. rest = <<>>
        <4>1. Run(l + 1, h) \in Runs /\ Run(l + 1, h).lo = l + 1 /\ Run(l + 1, h).hi = h
              /\ Slots(Run(l + 1, h)) = {} /\ l + 1 <= h + 1 /\ h - (l + 1) + 1 = 0
          BY <1>1, <2>2, RunFacts
        <4>2. Len(rest) = 0
          BY <4>1, ItemsFacts
        <4> QED
          BY <1>3, <4>2, EmptySeq
      <3>2. ItemsOf(slot, None) = <<>> /\ <<>> \in Seq(Elements)
        BY ItemsOfNone, EmptySeq
      <3>3. ~(l < h) /\ l >= h
        BY <1>1, <2>2
      <3>4. CASE p34 # None
        <4>1. p12' = p34 /\ p34' = None /\ p56' = p56
          BY <3>3, <3>4 DEF Dequeue
        <4> HIDE DEF rest, i34, i56
        <4>2. i34 \o <<>> \o i56 = <<>> \o i34 \o i56
          BY <1>2, <3>2, ConcatEmptySeq
        <4> QED
          BY <1>7, <3>1, <3>2, <4>1, <4>2 DEF i34, i56
      <3>5. CASE p34 = None /\ p56 # None
        <4>1. p12' = p56 /\ p34' = None /\ p56' = None
          BY <3>3, <3>5 DEF Dequeue
        <4>2. i34 = <<>>
          BY <3>2, <3>5
        <4> HIDE DEF rest, i34, i56
        <4>3. i56 \o <<>> \o <<>> = <<>> \o <<>> \o i56
          BY <1>2, <3>2, ConcatEmptySeq
        <4> QED
          BY <1>7, <3>1, <3>2, <4>1, <4>2, <4>3 DEF i56
      <3>6. CASE p34 = None /\ p56 = None
        <4>1. p12' = None /\ p34' = None /\ p56' = None
          BY <3>3, <3>6 DEF Dequeue
        <4> QED
          BY <1>7, <3>1, <3>2, <3>6, <4>1
      <3> QED
        BY <3>4, <3>5, <3>6
    <2> QED
      BY <1>1, <2>1, <2>2
  <1> HIDE DEF rest, i34, i56
  <1>9. Queue = <<slot[l]>> \o rest \o i34 \o i56
    BY <1>2, <1>3
  <1> HIDE DEF l, h
  <1>10. Queue = <<slot[l]>> \o Queue' /\ Queue' \in Seq(Elements)
    <2>1. rest \in Seq(Elements) /\ i34 \in Seq(Elements) /\ i56 \in Seq(Elements)
          /\ slot[l] \in Elements
      BY <1>2, <1>3
    <2>2. /\ <<slot[l]>> \o rest \o i34 \o i56 = <<slot[l]>> \o (rest \o i34 \o i56)
          /\ rest \o i34 \o i56 \in Seq(Elements)
      BY <2>1, ConcatFromFirst
    <2> QED
      BY <1>8, <1>9, <2>2
  <1>11. slot[l] \in Elements
    BY <1>3
  <1>12. Queue # <<>>
    BY <1>10, <1>11, FirstThenRest
  <1>13. Head(Queue) = slot[l]
    BY <1>10, <1>11, FirstThenRest
  <1>14. Tail(Queue) = Queue'
    BY <1>10, <1>11, FirstThenRest
  <1> QED
    BY <1>4, <1>12, <1>13, <1>14

(* What enqueue takes for the queue: a list that dequeue has not seen      *)
(* yet is none of it.                                                      *)
Held == IF hasP THEN Queue ELSE <<>>

LEMMA EnqueueAppends ==
    ASSUME Inv, NEW e \in Elements, Enqueue(e)
    PROVE  Queue' = Append(Held, e)
  <1> DEFINE i12 == ItemsOf(slot, p12)
             i34 == ItemsOf(slot, p34)
             i56 == ItemsOf(slot, p56)
  <1>1. p12 \in Runs /\ p34 \in Runs /\ p56 \in Runs
    BY DEF Inv, TypeOK
  <1>2. /\ i12 \in Seq(Elements) /\ i34 \in Seq(Elements) /\ i56 \in Seq(Elements)
        /\ Held = i12 \o i34 \o i56
        /\ \A r \in {p12, p34, p56} : Slots(r) \subseteq DOMAIN slot
        /\ \A r \in {p12, p34, p56} : r = None \/ r.lo <= r.hi
    <2>1. CASE hasP
      BY <2>1, RunsHold DEF Inv, PossibleQueueStates, Held
    <2>2. CASE ~hasP
      <3>1. p12 = None /\ p34 = None /\ p56 = None
        BY <2>2 DEF Inv, PlainList
      <3>2. <<>> \in Seq(Elements) /\ Held = <<>>
        BY <2>2, EmptySeq DEF Held
      <3> QED
        BY <3>1, <3>2, ItemsOfNone, ConcatEmptySeq, NoneFacts
    <2> QED
      BY <2>1, <2>2
  <1>3. hasP' /\ Inv'
    BY EnqueueStep DEF Enqueue
  <1>4. PICK k : slot' = Filled(k, e) /\ k \in Nat \ {0} /\ k \notin Used
    BY EnqueueStep DEF Taken
  <1>5. \A i \in Used : i \in DOMAIN slot' /\ slot'[i] = slot[i]
    <2>1. Used \subseteq DOMAIN slot
      BY <1>2 DEF Used
    <2>2. /\ DOMAIN slot' = DOMAIN slot \cup {k}
          /\ \A j \in DOMAIN slot \ {k} : slot'[j] = slot[j]
      BY <1>4, FilledFacts DEF Inv
    <2> QED
      BY <1>4, <2>1, <2>2
  <1>6. \A r \in {p12, p34, p56} : ItemsOf(slot', r) = ItemsOf(slot, r)
    <2>1. \A r \in {p12, p34, p56} : Slots(r) \subseteq Used
      BY DEF Used
    <2> QED
      BY <1>1, <1>5, <2>1, ItemsSame
  <1>7. Queue' = ItemsOf(slot', p12') \o ItemsOf(slot', p34') \o ItemsOf(slot', p56')
    BY <1>3 DEF Queue, Items, ItemsOf
  <1>8. \A r \in {p12', p34', p56'} : \A i \in Slots(r) : slot'[i] \in Elements
    <2>1. Used' \subseteq DOMAIN slot' /\ slot' \in [DOMAIN slot' -> Elements]
      BY <1>3 DEF Inv, TypeOK, PossibleQueueStates
    <2>2. \A r \in {p12', p34', p56'} : Slots(r) \subseteq Used'
      BY DEF Used
    <2> QED
      BY <2>1, <2>2
  <1>9. \A i \in Nat \ {0} : Filled(i, e)[i] = e
    BY DEF Filled
  <1>10. ASSUME NEW r \in {p12, p34, p56}, r # None,
                Run(r.lo, r.hi + 1) \in {p12', p34', p56'}, slot' = Filled(r.hi + 1, e)
         PROVE  ItemsOf(slot', Run(r.lo, r.hi + 1)) = Append(ItemsOf(slot, r), e)
    <2>1. r.lo \in Nat \ {0} /\ r.hi \in Nat /\ r.lo <= r.hi + 1 /\ r.hi + 1 \in Nat \ {0}
      BY <1>1, <1>2, <1>10 DEF Runs
    <2>2. Run(r.lo, r.hi) = r
      BY <1>1, <1>10 DEF Runs, Run
    <2>3. \A i \in r.lo..(r.hi + 1) : slot'[i] \in Elements
      BY <1>8, <1>10, <2>1, RunFacts
    <2>4. ItemsOf(slot', Run(r.lo, r.hi + 1)) = Append(ItemsOf(slot', r), slot'[r.hi + 1])
      BY <2>1, <2>2, <2>3, ItemsLast
    <2> QED
      BY <1>6, <1>9, <1>10, <2>1, <2>4
  <1>11. ASSUME NEW i \in Nat \ {0}, Run(i, i) \in {p12', p34', p56'}, slot' = Filled(i, e)
         PROVE  ItemsOf(slot', Run(i, i)) = Append(<<>>, e)
    <2>1. i \in Nat /\ i - 1 \in Nat /\ i <= i /\ i <= (i - 1) + 1 /\ (i - 1) + 1 = i
      OBVIOUS
    <2>2. \A j \in i..i : slot'[j] \in Elements
      BY <1>8, <1>11, <2>1, RunFacts
    <2>3. ItemsOf(slot', Run(i, (i - 1) + 1)) = Append(ItemsOf(slot', Run(i, i - 1)), slot'[(i - 1) + 1])
      BY <2>1, <2>2, ItemsLast
    <2>4. Run(i, i - 1) \in Runs /\ Run(i, i - 1).lo = i /\ Run(i, i - 1).hi = i - 1
          /\ Slots(Run(i, i - 1)) = {} /\ (i - 1) - i + 1 = 0
      BY <2>1, RunFacts
    <2>5. ItemsOf(slot', Run(i, i - 1)) = <<>>
      <3>1. /\ ItemsOf(slot', Run(i, i - 1)) \in Seq(Elements)
            /\ Len(ItemsOf(slot', Run(i, i - 1))) = 0
        BY <2>1, <2>4, ItemsFacts
      <3> QED
        BY <3>1, EmptySeq
    <2> QED
      BY <1>9, <1>11, <2>1, <2>3, <2>5
  <1>12. ItemsOf(slot, None) = <<>> /\ ItemsOf(slot', None) = <<>> /\ <<>> \in Seq(Elements)
    BY ItemsOfNone, EmptySeq
  <1>13. CASE GrowLast(e)
    <2>1. ItemsOf(slot', p56') = Append(i56, e) /\ p12' = p12 /\ p34' = p34
      BY <1>10, <1>13 DEF GrowLast
    <2>2. ItemsOf(slot', p12') = i12 /\ ItemsOf(slot', p34') = i34
      BY <1>6, <2>1
    <2> HIDE DEF i12, i34, i56
    <2>3. i12 \o i34 \o Append(i56, e) = Append(i12 \o i34 \o i56, e)
      BY <1>2, ConcatFacts
    <2> QED
      BY <1>2, <1>7, <2>1, <2>2, <2>3
  <1>14. CASE GrowFront(e)
    <2>1. ItemsOf(slot', p34') = Append(i34, e) /\ p12' = p12 /\ p56' = None /\ p56 = None
      BY <1>10, <1>14 DEF GrowFront
    <2>2. ItemsOf(slot', p12') = i12 /\ ItemsOf(slot', p56') = <<>> /\ i56 = <<>>
      BY <1>6, <1>12, <2>1
    <2> HIDE DEF i12, i34, i56
    <2>3. i12 \o Append(i34, e) \o <<>> = Append(i12 \o i34 \o <<>>, e)
      BY <1>2, ConcatFacts
    <2> QED
      BY <1>2, <1>7, <2>1, <2>2, <2>3
  <1>15. CASE StartLast(e)
    <2>1. p12.hi + 1 \in Nat \ {0} /\ p56' = Run(p12.hi + 1, p12.hi + 1)
          /\ slot' = Filled(p12.hi + 1, e)
          /\ p12' = p12 /\ p34' = p34 /\ p56 = None
      BY <1>1, <1>15 DEF StartLast, Runs
    <2>2. ItemsOf(slot', p56') = Append(<<>>, e)
      BY <1>11, <2>1
    <2>3. ItemsOf(slot', p12') = i12 /\ ItemsOf(slot', p34') = i34 /\ i56 = <<>>
      BY <1>6, <1>12, <2>1
    <2> HIDE DEF i12, i34, i56
    <2>4. i12 \o i34 \o Append(<<>>, e) = Append(i12 \o i34 \o <<>>, e)
      BY <1>2, <1>12, ConcatFacts
    <2> QED
      BY <1>2, <1>7, <2>2, <2>3, <2>4
  <1>16. CASE GrowOnly(e)
    <2>1. ItemsOf(slot', p12') = Append(i12, e) /\ p34' = None /\ p56' = None
          /\ p34 = None /\ p56 = None
      BY <1>10, <1>16 DEF GrowOnly
    <2>2. ItemsOf(slot', p34') = <<>> /\ ItemsOf(slot', p56') = <<>> /\ i34 = <<>> /\ i56 = <<>>
      BY <1>12, <2>1
    <2> HIDE DEF i12, i34, i56
    <2>3. Append(i12, e) \o <<>> \o <<>> = Append(i12 \o <<>> \o <<>>, e)
      BY <1>2, ConcatFacts
    <2> QED
      BY <1>2, <1>7, <2>1, <2>2, <2>3
  <1>17. CASE StartFront(e)
    <2>1. p34' = Run(1, 1) /\ slot' = Filled(1, e) /\ p12' = p12 /\ p56' = None
          /\ p34 = None /\ p56 = None
      BY <1>17 DEF StartFront
    <2>2. ItemsOf(slot', p34') = Append(<<>>, e)
      BY <1>11, <2>1
    <2>3. ItemsOf(slot', p12') = i12 /\ ItemsOf(slot', p56') = <<>> /\ i34 = <<>> /\ i56 = <<>>
      BY <1>6, <1>12, <2>1
    <2> HIDE DEF i12, i34, i56
    <2>4. i12 \o Append(<<>>, e) \o <<>> = Append(i12 \o <<>> \o <<>>, e)
      BY <1>2, <1>12, ConcatFacts
    <2> QED
      BY <1>2, <1>7, <2>2, <2>3, <2>4
  <1>18. CASE Restart(e)
    <2>1. p12' = Run(1, 1) /\ slot' = Filled(1, e) /\ p34' = None /\ p56' = None
          /\ p12 = None /\ p34 = None /\ p56 = None
      BY <1>18 DEF Restart
    <2>2. ItemsOf(slot', p12') = Append(<<>>, e)
      BY <1>11, <2>1
    <2>3. /\ ItemsOf(slot', p34') = <<>> /\ ItemsOf(slot', p56') = <<>>
          /\ i12 = <<>> /\ i34 = <<>> /\ i56 = <<>>
      BY <1>12, <2>1
    <2> HIDE DEF i12, i34, i56
    <2>4. Append(<<>>, e) \o <<>> \o <<>> = Append(<<>> \o <<>> \o <<>>, e)
      BY <1>12, ConcatFacts
    <2> QED
      BY <1>2, <1>7, <2>2, <2>3, <2>4
  <1> QED
    BY <1>13, <1>14, <1>15, <1>16, <1>17, <1>18 DEF Enqueue

LEMMA FifoStep ==
    ASSUME Inv, [Next]_vars
    PROVE  [Fifo!FifoNext]_(Fifo!fifoVars)
  <1>1. CASE Dequeue
    BY <1>1, DequeueTakes DEF Fifo!FifoNext, Fifo!Take, Queue, Dequeue
  <1>2. ASSUME NEW e \in Elements, Enqueue(e)
        PROVE  Fifo!FifoNext
    <2>1. Queue' = Append(Held, e) /\ hasP' = TRUE /\ out' = out
      BY <1>2, EnqueueAppends DEF Enqueue
    <2>2. CASE hasP \/ Queue = <<>>
      BY <2>1, <2>2 DEF Fifo!FifoNext, Fifo!Put, Queue, Held
    <2>3. CASE ~hasP /\ Queue # <<>>
      <3>1. Append(<<>>, e) = <<e>>
        OBVIOUS
      <3> QED
        BY <2>1, <2>3, <3>1 DEF Fifo!FifoNext, Fifo!Forget, Queue, Held
    <2> QED
      BY <2>2, <2>3
  <1>3. CASE DequeueEmpty
    <2>1. hasP /\ p12 = None /\ p34 = None /\ p56 = None
      BY <1>3 DEF DequeueEmpty, Inv, PossibleQueueStates
    <2>2. Queue = <<>> \o <<>> \o <<>>
      BY <2>1, ItemsOfNone, RunsHold
    <2>3. Queue = <<>>
      BY <2>2, ConcatEmptySeq, EmptySeq
    <2>4. Queue' = Queue /\ out' = Nil /\ hasP' = hasP
      BY <1>3 DEF DequeueEmpty, Queue, Items
    <2> QED
      BY <2>1, <2>3, <2>4 DEF Fifo!FifoNext, Fifo!TakeNothing, Queue
  <1>4. CASE UNCHANGED vars
    BY <1>4 DEF vars, Fifo!fifoVars, Items
  <1> QED
    BY <1>1, <1>2, <1>3, <1>4 DEF Next

(* The queue is first in, first out, but for a list that enqueue takes for *)
(* an empty table and forgets: whatever calls are made, on a queue of any  *)
(* length, it implements the abstract queue Fifo.                          *)
THEOREM QueueIsFifo == Spec => IsFifo
  <1>1. Init => Fifo!FifoInit
    <2> SUFFICES ASSUME Init PROVE slot \in Seq(Elements) /\ hasP = FALSE /\ out = Nil
      BY DEF Fifo!FifoInit
    <2>1. PlainList
      BY InitInv DEF Inv
    <2> QED
      BY <2>1 DEF Init, PlainList
  <1>2. Inv /\ [Next]_vars => Inv'
    BY NextInv
  <1>3. Inv /\ [Next]_vars => [Fifo!FifoNext]_(Fifo!fifoVars)
    BY FifoStep
  <1> QED
    BY <1>1, <1>2, <1>3, InitInv, PTL DEF Spec, IsFifo, Fifo!FifoSpec

-----------------------------------------------------------------------------
(* The splay tree.  While a splay is under way the elements are in up to   *)
(* four trees: what is smaller, what is still to be searched, what is      *)
(* larger, and what remove holds.  They are described by their links e and *)
(* by a function d that is not in the program: d[n] is the set of nodes at *)
(* and below n.                                                            *)

Places == Keys \cup {Node}
Linking == [Sides -> [Places -> Pointers]]

(* m lies on the side s of n.                                              *)
On(s, m, n) == IF s = "left" THEN m < n ELSE n < m

IsBelow(e, d) ==
    /\ d \in [Pointers -> SUBSET Keys]
    /\ d[Null] = {}
    /\ \A n \in Keys : d[n] = {n} \cup d[e["left"][n]] \cup d[e["right"][n]]
    /\ \A n \in Keys : IsFiniteSet(d[n])

IsSorted(e, d) == \A n \in Keys, s \in Sides : \A m \in d[e[s][n]] : On(s, m, n)

Tree(e, d) == e \in Linking /\ IsBelow(e, d) /\ IsSorted(e, d)

(* The tree on the side z of what is still to be searched; it hangs from   *)
(* the other link of Node.                                                 *)
Part(e, z) == e[Other(z)][Node]

All(e, d, r, h) == d[Part(e, "left")] \cup d[r] \cup d[Part(e, "right")] \cup d[h]

(* The four trees lie apart, in this order.                                *)
Apart(e, d, r, h) ==
    /\ \A z \in Sides : \A m \in d[Part(e, z)] :
         /\ \A n \in d[r] : On(z, m, n)
         /\ \A n \in d[Part(e, Other(z))] : On(z, m, n)
         /\ \A n \in d[h] : m < n
    /\ \A m \in d[r], n \in d[h] : m < n

(* A node outside the trees has no links.                                  *)
Loose(e, d, r, h) == \A n \in Keys \ All(e, d, r, h) : \A s \in Sides : e[s][n] = Null

Forest(e, d, r, h) ==
    /\ Tree(e, d)
    /\ r \in Pointers /\ h \in Pointers
    /\ Apart(e, d, r, h)
    /\ Loose(e, d, r, h)

(* The tails are the elements next to what is still to be searched, where  *)
(* there are any, and nothing hangs from them on that side.                *)
Tails(e, d, tl) ==
    /\ tl \in [Sides -> Places]
    /\ \A z \in Sides :
         /\ e[Other(z)][tl[z]] = Null
         /\ tl[z] # Node => /\ tl[z] \in d[Part(e, z)]
                            /\ \A m \in d[Part(e, z)] : m = tl[z] \/ On(z, m, tl[z])

(* The links without those at the tails                                    *)
Eff(c, tl) ==
    [s \in Sides |-> [n \in Keys \cup {Node} |->
        IF n = tl[Other(s)] THEN Null ELSE c[s][n]]]

-----------------------------------------------------------------------------
LEMMA SideFacts ==
    /\ Sides = {"left", "right"} /\ "left" \in Sides /\ "right" \in Sides
    /\ Other("left") = "right" /\ Other("right") = "left"
    /\ \A s \in Sides : Other(s) \in Sides /\ Other(s) # s /\ Other(Other(s)) = s
    /\ \A s, z \in Sides : z = s \/ z = Other(s)
  BY DEF Sides, Other

LEMMA OrderFacts ==
    /\ \A s \in Sides : \A m, n \in Keys :
         /\ On(s, m, n) <=> On(Other(s), n, m)
         /\ On(s, m, n) => m # n /\ ~On(Other(s), m, n)
         /\ m # n => On(s, m, n) \/ On(Other(s), m, n)
    /\ \A s \in Sides : \A k, m, n \in Keys : On(s, k, m) /\ On(s, m, n) => On(s, k, n)
    /\ \A m, n \in Keys : /\ On("left", m, n) <=> m < n
                          /\ On("right", m, n) <=> n < m
    /\ \A m, n \in Keys : m < n => ~(n < m) /\ m # n
  BY KeysAreIntegers DEF On, Sides, Other

LEMMA NullFacts ==
    /\ Null \notin Keys /\ Node \notin Keys /\ Node # Null
    /\ Null \in Pointers /\ Node \notin Pointers /\ Node \in Places
    /\ \A n \in Keys : n \in Pointers /\ n \in Places /\ n # Null /\ n # Node
    /\ \A n \in Pointers : n = Null \/ n \in Keys
    /\ \A n \in Places : n = Node \/ n \in Keys
  BY NullAndNodeAreNoKeys DEF Pointers, Places

LEMMA LinkTypes ==
    ASSUME NEW e \in Linking
    PROVE  /\ \A n \in Places, s \in Sides : e[s][n] \in Pointers
           /\ \A n \in Keys, s \in Sides : e[s][n] \in Pointers
           /\ \A z \in Sides : Part(e, z) \in Pointers
  BY SideFacts, NullFacts DEF Linking, Part

LEMMA BelowFacts ==
    ASSUME NEW e, NEW d, Tree(e, d)
    PROVE  /\ \A n \in Keys, s \in Sides : n \notin d[e[s][n]] /\ d[e[s][n]] \subseteq d[n]
           /\ \A n \in Keys : n \in d[n]
           /\ \A n \in Keys, s \in Sides : d[n] = {n} \cup d[e[s][n]] \cup d[e[Other(s)][n]]
           /\ \A n \in Pointers : d[n] \subseteq Keys /\ IsFiniteSet(d[n])
           /\ d[Null] = {}
           /\ \A n \in Pointers, m \in Keys : m \in d[n] => n \in Keys
  <1>1. \A n \in Keys, s \in Sides : d[n] = {n} \cup d[e[s][n]] \cup d[e[Other(s)][n]]
    BY DEF Tree, IsBelow, Sides, Other
  <1>2. ASSUME NEW n \in Keys, NEW s \in Sides PROVE n \notin d[e[s][n]]
    BY OrderFacts DEF Tree, IsSorted
  <1>3. \A n \in Pointers : d[n] \subseteq Keys /\ IsFiniteSet(d[n])
    BY FS_EmptySet, NullFacts DEF Tree, IsBelow
  <1>4. \A n \in Keys, s \in Sides : d[e[s][n]] \subseteq d[n]
    BY <1>1
  <1>5. (\A n \in Keys : n \in d[n]) /\ d[Null] = {}
    BY DEF Tree, IsBelow
  <1> QED
    BY <1>1, <1>2, <1>3, <1>4, <1>5, NullFacts

(* Induction on the nodes of a tree: of the nodes of a set that is not     *)
(* empty one has no child in it.                                           *)
LEMMA LowestNode ==
    ASSUME NEW e, NEW d, Tree(e, d), NEW B \in SUBSET Keys, B # {}
    PROVE  \E n \in B : \A s \in Sides : e[s][n] \notin B
  <1> DEFINE S == {d[n] : n \in B}
             R == StrictSubsetOrdering(Keys)
  <1>1. S \subseteq FiniteSubsetsOf(Keys)
    BY BelowFacts, NullFacts DEF FiniteSubsetsOf
  <1>2. S # {}
    OBVIOUS
  <1>3. IsWellFoundedOn(R, FiniteSubsetsOf(Keys))
    BY FS_StrictSubsetOrderingWellFounded
  <1> HIDE DEF S, R
  <1>4. \E X \in S : \A Y \in S : ~(<<Y, X>> \in R)
    BY <1>1, <1>2, <1>3, WFMin
  <1>5. PICK n \in B : \A Y \in S : ~(<<Y, d[n]>> \in R)
    BY <1>4 DEF S
  <1>6. ASSUME NEW s \in Sides, e[s][n] \in B PROVE FALSE
    <2>1. d[e[s][n]] \in S
      BY <1>6 DEF S
    <2>2. /\ d[e[s][n]] \subseteq d[n] /\ d[e[s][n]] # d[n]
          /\ d[e[s][n]] \in SUBSET Keys /\ d[n] \in SUBSET Keys
      BY <1>6, BelowFacts, NullFacts
    <2>3. <<d[e[s][n]], d[n]>> \in R
      BY <2>2 DEF R, StrictSubsetOrdering
    <2> QED
      BY <1>5, <2>1, <2>3
  <1> QED
    BY <1>6

(* What is below a node below n is below n.                                *)
LEMMA BelowBelow ==
    ASSUME NEW e, NEW d, Tree(e, d), NEW n \in Pointers, NEW m \in d[n]
    PROVE  d[m] \subseteq d[n]
  <1> DEFINE B == {a \in Keys : \E b \in d[a] : ~(d[b] \subseteq d[a])}
  <1>1. ASSUME B # {} PROVE FALSE
    <2>1. PICK a \in B : \A s \in Sides : e[s][a] \notin B
      BY <1>1, LowestNode
    <2>2. PICK b \in d[a] : ~(d[b] \subseteq d[a])
      BY <2>1
    <2>3. PICK s \in Sides : b \in d[e[s][a]]
      BY <2>2, BelowFacts, SideFacts
    <2>4. e[s][a] \in Keys
      BY <2>1, <2>3, LinkTypes, NullFacts DEF Tree, IsBelow
    <2>5. d[b] \subseteq d[e[s][a]]
      BY <2>1, <2>3, <2>4
    <2> QED
      BY <2>1, <2>2, <2>5, BelowFacts
  <1>2. n \in Keys
    BY NullFacts DEF Tree, IsBelow
  <1> QED
    BY <1>1, <1>2

(* The recursive function computes d: there is one solution only.          *)
LEMMA UnderIs ==
    ASSUME NEW e, NEW d, Tree(e, d)
    PROVE  \A n \in Pointers : Under(e)[n] = d[n]
  <1> DEFINE Body(f) == [n \in Pointers |->
                IF n = Null THEN {}
                ELSE {n} \cup f[e["left"][n]] \cup f[e["right"][n]]]
             below == CHOOSE f : f = Body(f)
             B == {n \in Keys : below[n] # d[n]}
  <1>1. d = Body(d)
    <2>1. d = [n \in Pointers |-> d[n]]
      BY DEF Tree, IsBelow
    <2>2. \A n \in Pointers : d[n] = Body(d)[n]
      BY NullFacts DEF Tree, IsBelow
    <2> QED
      BY <2>1, <2>2
  <1>2. below = Body(below)
    BY <1>1
  <1> HIDE DEF below
  <1>3. /\ below[Null] = {}
        /\ \A n \in Keys : below[n] = {n} \cup below[e["left"][n]] \cup below[e["right"][n]]
    BY <1>2, NullFacts
  <1>4. ASSUME B # {} PROVE FALSE
    <2>1. PICK n \in B : \A s \in Sides : e[s][n] \notin B
      BY <1>4, LowestNode
    <2>2. \A s \in Sides : below[e[s][n]] = d[e[s][n]]
      BY <1>3, <2>1, LinkTypes, NullFacts DEF Tree, IsBelow
    <2>3. d[n] = {n} \cup d[e["left"][n]] \cup d[e["right"][n]]
      BY <2>1 DEF Tree, IsBelow
    <2>4. below[n] = {n} \cup below[e["left"][n]] \cup below[e["right"][n]]
      BY <1>3, <2>1
    <2> QED
      BY ONLY <2>1, <2>2, <2>3, <2>4 DEF Sides
  <1>5. Under(e) = below
    BY DEF Under, below
  <1> QED
    BY <1>3, <1>4, <1>5, NullFacts DEF Tree, IsBelow

-----------------------------------------------------------------------------
(* A node belongs to one of the four trees, and so do those above it.      *)
LEMMA Disjoint ==
    ASSUME NEW e, NEW d, NEW r, NEW h, Forest(e, d, r, h)
    PROVE  /\ \A z \in Sides : /\ d[Part(e, z)] \cap d[r] = {}
                               /\ d[Part(e, z)] \cap d[Part(e, Other(z))] = {}
                               /\ d[Part(e, z)] \cap d[h] = {}
           /\ d[r] \cap d[h] = {}
           /\ d[r] \subseteq Keys /\ d[h] \subseteq Keys
           /\ \A z \in Sides : d[Part(e, z)] \subseteq Keys
  <1>1. d[r] \subseteq Keys /\ d[h] \subseteq Keys /\ \A z \in Sides : d[Part(e, z)] \subseteq Keys
    BY BelowFacts, LinkTypes DEF Forest, Tree
  <1> QED
    BY <1>1, OrderFacts, SideFacts DEF Forest, Apart

LEMMA Home ==
    ASSUME NEW e, NEW d, NEW r, NEW h, Forest(e, d, r, h),
           NEW n \in Keys, NEW m \in d[n], m # n
    PROVE  /\ m \in d[r] => n \in d[r]
           /\ m \in d[h] => n \in d[h]
           /\ \A z \in Sides : m \in d[Part(e, z)] => n \in d[Part(e, z)]
  <1>1. Tree(e, d) /\ r \in Pointers /\ h \in Pointers
        /\ \A z \in Sides : Part(e, z) \in Pointers
    BY LinkTypes DEF Forest, Tree
  <1>2. n \in All(e, d, r, h)
    <2> SUFFICES ASSUME n \notin All(e, d, r, h) PROVE FALSE
      OBVIOUS
    <2>1. \A s \in Sides : e[s][n] = Null
      BY DEF Forest, Loose
    <2> QED
      BY <1>1, <2>1, SideFacts, BelowFacts
  <1>3. /\ n \in d[r] => m \in d[r]
        /\ n \in d[h] => m \in d[h]
        /\ \A z \in Sides : n \in d[Part(e, z)] => m \in d[Part(e, z)]
    BY <1>1, BelowBelow
  <1>4. n \in d[r] \/ n \in d[h] \/ \E z \in Sides : n \in d[Part(e, z)]
    BY <1>2, SideFacts DEF All
  <1> QED
    BY <1>3, <1>4, Disjoint, SideFacts

(* Nothing leads to the root of what is still to be searched.              *)
LEMMA TopFacts ==
    ASSUME NEW e, NEW d, NEW r \in Keys, NEW h, Forest(e, d, r, h)
    PROVE  /\ r \in d[r]
           /\ \A n \in Keys : r \in d[n] => n = r
           /\ \A n \in Places, s \in Sides : e[s][n] # r
           /\ \A z \in Sides : r \notin d[Part(e, z)]
  <1>1. Tree(e, d) /\ r \in d[r]
    BY BelowFacts DEF Forest
  <1>2. ASSUME NEW n \in Keys, r \in d[n], n # r PROVE FALSE
    <2>1. n \in d[r]
      BY <1>1, <1>2, Home
    <2>2. PICK s \in Sides : n \in d[e[s][r]]
      BY <1>1, <1>2, <2>1, BelowFacts, SideFacts
    <2>3. r \in d[e[s][r]]
      BY <1>1, <1>2, <2>2, BelowBelow, LinkTypes DEF Tree
    <2> QED
      BY <1>1, <2>3, BelowFacts
  <1>3. \A z \in Sides : r \notin d[Part(e, z)]
    BY <1>1, Disjoint
  <1>4. ASSUME NEW n \in Places, NEW s \in Sides, e[s][n] = r PROVE FALSE
    <2>1. CASE n \in Keys
      BY <1>1, <1>2, <1>4, <2>1, BelowFacts
    <2>2. CASE n = Node
      BY <1>1, <1>3, <1>4, <2>2, SideFacts DEF Part
    <2> QED
      BY <2>1, <2>2, NullFacts
  <1> QED
    BY <1>1, <1>2, <1>3, <1>4

(* Where the tail on the side z can be                                     *)
TailIs(e, d, r, h, z, at, s) ==
    /\ at \in Places /\ at # r /\ e[s][at] = Null
    /\ at \notin d[r] /\ at \notin d[h] /\ at \notin d[Part(e, s)]
    /\ \A y \in Sides : at \notin d[e[y][r]]
    /\ \A n \in Keys : at \in d[n] => at \in Keys /\ n \in d[Part(e, z)]
    /\ \A n \in Keys, y \in Sides : at \in d[e[y][n]] => y = s /\ n \in d[Part(e, z)]
    /\ at = Node => Part(e, z) = Null /\ \A n \in Pointers : at \notin d[n]
    /\ at # Node => /\ at \in Keys /\ at \in d[Part(e, z)]
                    /\ \A m \in d[Part(e, z)] : m = at \/ On(z, m, at)

LEMMA TailFacts ==
    ASSUME NEW e, NEW d, NEW r \in Keys, NEW h, NEW tl, NEW z \in Sides, NEW at, NEW s,
           Forest(e, d, r, h), Tails(e, d, tl), at = tl[z], s = Other(z)
    PROVE  TailIs(e, d, r, h, z, at, s)
  <1>1. Tree(e, d) /\ r \in Pointers /\ h \in Pointers /\ s \in Sides
        /\ Part(e, z) \in Pointers /\ Part(e, s) \in Pointers
    BY LinkTypes, SideFacts DEF Forest, Tree
  <1>2. at \in Places /\ e[s][at] = Null
    BY DEF Tails
  <1>3. \A n \in Pointers : d[n] \subseteq Keys
    BY <1>1, BelowFacts
  <1>4. CASE at = Node
    <2>1. \A n \in Pointers : at \notin d[n]
      BY <1>3, <1>4, NullFacts
    <2>2. Part(e, z) = Null
      BY <1>2, <1>4 DEF Part
    <2>3. \A n \in Keys, y \in Sides : e[y][n] \in Pointers
      BY <1>1, LinkTypes DEF Tree
    <2> QED
      BY <1>1, <1>2, <1>4, <2>1, <2>2, <2>3, NullFacts DEF TailIs
  <1>5. CASE at # Node
    <2>1. /\ at \in Keys /\ at \in d[Part(e, z)]
          /\ \A m \in d[Part(e, z)] : m = at \/ On(z, m, at)
      BY <1>2, <1>5, NullFacts DEF Tails
    <2>2. at \notin d[r] /\ at \notin d[h] /\ at \notin d[Part(e, s)] /\ at # r
      <3>1. /\ d[Part(e, z)] \cap d[r] = {}
            /\ d[Part(e, z)] \cap d[Part(e, s)] = {}
            /\ d[Part(e, z)] \cap d[h] = {}
        BY Disjoint
      <3> QED
        BY <2>1, <3>1, TopFacts
    <2>3. ASSUME NEW n \in Keys, at \in d[n] PROVE n \in d[Part(e, z)]
      BY <2>1, <2>3, Home
    <2>4. ASSUME NEW n \in Keys, NEW y \in Sides, at \in d[e[y][n]]
          PROVE  y = s /\ n \in d[Part(e, z)]
      <3>1. at \in d[n] /\ at # n
        BY <1>1, <2>4, BelowFacts
      <3>2. n \in d[Part(e, z)]
        BY <2>3, <3>1
      <3>3. On(y, at, n)
        BY <1>1, <2>4 DEF Tree, IsSorted
      <3>4. On(z, n, at)
        BY <2>1, <3>1, <3>2
      <3> QED
        BY <2>1, <3>2, <3>3, <3>4, SideFacts, OrderFacts
    <2>5. \A y \in Sides : at \notin d[e[y][r]]
      BY <1>1, <2>2, BelowFacts
    <2> QED
      BY <1>2, <1>5, <2>1, <2>2, <2>3, <2>4, <2>5 DEF TailIs
  <1> QED
    BY <1>4, <1>5

-----------------------------------------------------------------------------
(* SPLAY_LINKLEFT and SPLAY_LINKRIGHT: the root, with what is beyond it,   *)
(* is hung from the tail of the tree on that side.                         *)
LinksRoot(e, tl, r, s, z, e2) ==
    \A y \in Sides, n \in Places :
        e2[y][n] = IF y = s /\ n = tl[z] THEN r
                   ELSE IF y = s /\ n = r THEN Null ELSE e[y][n]

LinksTo(e, d, r, h, tl, s, z, e2, d2) ==
    /\ Forest(e2, d2, e[s][r], h)
    /\ Tails(e2, d2, [tl EXCEPT ![z] = r])
    /\ d2[e[s][r]] = d[e[s][r]] /\ d2[h] = d[h]
    /\ d2[Part(e2, z)] = d[Part(e, z)] \cup (d[r] \ d[e[s][r]])
    /\ d2[Part(e2, s)] = d[Part(e, s)]
    /\ d[e[s][r]] \subseteq d[r]

LEMMA LinkKeeps ==
    ASSUME NEW e, NEW d, NEW r \in Keys, NEW h, Forest(e, d, r, h),
           NEW tl, Tails(e, d, tl), NEW s \in Sides, NEW z, z = Other(s),
           NEW e2 \in Linking, LinksRoot(e, tl, r, s, z, e2)
    PROVE  \E d2 : LinksTo(e, d, r, h, tl, s, z, e2, d2)
  <1> SUFFICES ASSUME NEW at, at = tl[z], NEW c, c = e[s][r]
               PROVE  \E d2 : LinksTo(e, d, r, h, tl, s, z, e2, d2)
    OBVIOUS
  <1>0. \A y \in Sides, n \in Places :
           e2[y][n] = IF y = s /\ n = at THEN r
                      ELSE IF y = s /\ n = r THEN Null ELSE e[y][n]
    BY DEF LinksRoot
  <1> DEFINE X == d[r] \ d[c]
             d2 == [n \in Pointers |-> IF n = r THEN X
                                       ELSE IF at \in d[n] THEN d[n] \cup X ELSE d[n]]
             tl2 == [tl EXCEPT ![z] = r]
  <1>1. /\ Tree(e, d) /\ e \in Linking
        /\ z \in Sides /\ s = Other(z) /\ z # s
        /\ r \in Pointers /\ c \in Pointers /\ h \in Pointers /\ r \in Places /\ r # Null /\ r # Node
        /\ Part(e, z) \in Pointers /\ Part(e, s) \in Pointers
    BY LinkTypes, SideFacts, NullFacts DEF Forest, Tree
  <1>2. /\ d \in [Pointers -> SUBSET Keys] /\ d[Null] = {}
        /\ \A n \in Pointers : d[n] \subseteq Keys /\ IsFiniteSet(d[n])
        /\ X = {r} \cup d[e[z][r]] /\ r \in X /\ r \notin d[c] /\ d[c] \subseteq d[r]
        /\ X \subseteq d[r] /\ X \subseteq Keys /\ IsFiniteSet(X)
    <2>1. d[r] = {r} \cup d[c] \cup d[e[z][r]] /\ r \notin d[c] /\ r \notin d[e[z][r]]
      BY <1>1, BelowFacts
    <2>2. ASSUME NEW m \in d[c], m \in d[e[z][r]] PROVE FALSE
      <3>1. On(s, m, r) /\ On(z, m, r) /\ m \in Keys
        BY <1>1, <2>2, BelowFacts, LinkTypes DEF Tree, IsSorted
      <3> QED
        BY <1>1, <3>1, OrderFacts
    <2>3. X = {r} \cup d[e[z][r]]
      BY <2>1, <2>2
    <2>4. IsFiniteSet(X)
      BY <1>1, BelowFacts, FS_Difference
    <2> QED
      BY <1>1, <2>1, <2>3, <2>4, BelowFacts DEF Tree, IsBelow
  <1>3. /\ \A n \in Keys : r \in d[n] => n = r
        /\ \A n \in Places, y \in Sides : e[y][n] # r
        /\ \A y \in Sides : r \notin d[Part(e, y)]
    BY TopFacts
  <1>4. /\ at \in Places /\ at # r /\ e[s][at] = Null
        /\ at \notin d[r] /\ at \notin d[h] /\ at \notin d[Part(e, s)]
        /\ \A y \in Sides : at \notin d[e[y][r]]
        /\ \A n \in Keys : at \in d[n] => at \in Keys /\ n \in d[Part(e, z)]
        /\ \A n \in Keys, y \in Sides : at \in d[e[y][n]] => y = s /\ n \in d[Part(e, z)]
        /\ at = Node => Part(e, z) = Null /\ \A n \in Pointers : at \notin d[n]
        /\ at # Node => /\ at \in Keys /\ at \in d[Part(e, z)]
                        /\ \A m \in d[Part(e, z)] : m = at \/ On(z, m, at)
    <2>1. TailIs(e, d, r, h, z, at, s)
      BY <1>1, TailFacts
    <2> QED
      BY ONLY <2>1 DEF TailIs
  <1>5. /\ e2[s][at] = r /\ e2[s][r] = Null
        /\ \A n \in Places : e2[z][n] = e[z][n]
        /\ \A n \in Places : n # at /\ n # r => e2[s][n] = e[s][n]
    BY <1>0, <1>1, <1>4
  <1>6. /\ d2 \in [Pointers -> SUBSET Keys] /\ d2[Null] = {}
        /\ d2[r] = X
        /\ \A n \in Pointers : n # r => d2[n] = IF at \in d[n] THEN d[n] \cup X ELSE d[n]
    BY <1>1, <1>2, NullFacts
  <1> HIDE DEF d2, X, tl2
  <1>7. r \notin d[h] /\ r # h /\ c # r
    BY <1>1, <1>3, Disjoint, TopFacts, BelowFacts, NullFacts
  <1>8. /\ d2[c] = d[c] /\ d2[h] = d[h]
        /\ at \notin d[c]
    BY <1>1, <1>4, <1>6, <1>7
  <1>9. IsBelow(e2, d2)
    <2>1. ASSUME NEW n \in Keys PROVE d2[n] = {n} \cup d2[e2[s][n]] \cup d2[e2[z][n]]
      <3>0. /\ n \in Pointers /\ n \in Places /\ e[s][n] \in Pointers /\ e[z][n] \in Pointers
            /\ e[s][n] # r /\ e[z][n] # r
            /\ d[n] = {n} \cup d[e[s][n]] \cup d[e[z][n]]
        BY <1>1, <1>3, LinkTypes, NullFacts, BelowFacts
      <3>1. CASE n = r
        <4>1. d2[n] = {r} \cup d[e[z][r]]
          BY <1>2, <1>6, <3>1
        <4>2. e2[s][n] = Null /\ e2[z][n] = e[z][r]
          BY <1>5, <3>0, <3>1
        <4>3. d2[e[z][r]] = d[e[z][r]]
          BY <1>1, <1>4, <1>6, <3>0, <3>1
        <4> QED
          BY <1>6, <3>1, <4>1, <4>2, <4>3
      <3>2. CASE n = at
        <4>1. at \in d[n] /\ at \notin d[e[z][n]]
          BY <1>1, <3>2, BelowFacts
        <4> QED
          BY <1>2, <1>4, <1>5, <1>6, <3>0, <3>2, <4>1
      <3>3. CASE n # r /\ n # at
        <4>1. e2[s][n] = e[s][n] /\ e2[z][n] = e[z][n]
          BY <1>5, <3>0, <3>3
        <4> QED
          BY <1>6, <3>0, <3>3, <4>1
      <3> QED
        BY <3>1, <3>2, <3>3
    <2>2. \A n \in Keys : d2[n] = {n} \cup d2[e2["left"][n]] \cup d2[e2["right"][n]]
      BY <1>1, <2>1 DEF Sides, Other
    <2>3. ASSUME NEW n \in Keys PROVE IsFiniteSet(d2[n])
      <3>1. n \in Pointers /\ IsFiniteSet(d[n]) /\ IsFiniteSet(X)
        BY <1>2, NullFacts
      <3>2. IsFiniteSet(d[n] \cup X)
        BY <3>1, FS_Union
      <3>3. d2[n] = X \/ d2[n] = d[n] \/ d2[n] = d[n] \cup X
        BY <1>6, <3>1
      <3> QED
        BY ONLY <3>1, <3>2, <3>3
    <2> QED
      BY <1>6, <2>2, <2>3 DEF IsBelow
  <1>10. ASSUME NEW n \in Keys, NEW y \in Sides, NEW m \in d2[e2[y][n]] PROVE On(y, m, n)
    <2>0. n \in Places /\ e[y][n] \in Pointers /\ e[y][n] # r
          /\ \A k \in d[e[y][n]] : On(y, k, n)
      BY <1>1, <1>3, LinkTypes, NullFacts DEF Tree, IsSorted
    <2>1. ASSUME NEW k \in X, n \in d[Part(e, z)] PROVE On(s, k, n)
      <3>1. On(z, n, k)
        BY <1>1, <1>2, <2>1 DEF Forest, Apart
      <3> QED
        BY <1>1, <1>2, <2>1, <3>1, OrderFacts
    <2>2. CASE y = s /\ n = r
      BY <1>5, <1>6, <2>2, NullFacts
    <2>3. CASE y = s /\ n = at
      BY <1>4, <1>5, <1>6, <2>1, <2>3, NullFacts
    <2>4. CASE ~(y = s /\ (n = r \/ n = at))
      <3>1. e2[y][n] = e[y][n]
        BY <1>1, <1>5, <2>0, <2>4, SideFacts
      <3>2. CASE at \in d[e[y][n]]
        <4>1. d2[e2[y][n]] = d[e[y][n]] \cup X /\ y = s /\ n \in d[Part(e, z)]
          BY <1>4, <1>6, <2>0, <3>1, <3>2
        <4> QED
          BY <1>10, <2>0, <2>1, <4>1
      <3>3. CASE at \notin d[e[y][n]]
        BY <1>6, <1>10, <2>0, <3>1, <3>3
      <3> QED
        BY <3>2, <3>3
    <2> QED
      BY <2>2, <2>3, <2>4
  <1>11. Tree(e2, d2)
    BY <1>9, <1>10 DEF Tree, IsSorted
  <1>12. d2[Part(e2, z)] = d[Part(e, z)] \cup X
    <2>0. Part(e, z) = e[s][Node] /\ Part(e2, z) = e2[s][Node]
      BY <1>1 DEF Part
    <2>1. CASE at = Node
      BY <1>2, <1>4, <1>5, <1>6, <2>0, <2>1
    <2>2. CASE at # Node
      <3>1. Part(e2, z) = Part(e, z) /\ Part(e, z) # r
        BY <1>1, <1>3, <1>5, <2>0, <2>2, NullFacts
      <3> QED
        BY <1>1, <1>4, <1>6, <2>2, <3>1
    <2> QED
      BY <2>1, <2>2
  <1>13. Part(e2, s) = Part(e, s) /\ d2[Part(e2, s)] = d[Part(e, s)]
    <2>1. Part(e2, s) = Part(e, s)
      BY <1>1, <1>5, NullFacts DEF Part
    <2>2. Part(e, s) # r
      BY <1>1, <1>3, NullFacts DEF Part
    <2> QED
      BY <1>1, <1>4, <1>6, <2>1, <2>2
  <1>14. Apart(e2, d2, c, h)
    <2>1. ASSUME NEW m \in X, NEW n \in d[c] PROVE On(z, m, n)
      <3>1. /\ On(s, n, r) /\ r \in Keys /\ n \in Keys /\ m \in Keys
            /\ m = r \/ On(z, m, r)
        BY <1>1, <1>2, <2>1 DEF Tree, IsSorted
      <3>2. On(z, r, n)
        BY <1>1, <3>1, OrderFacts
      <3> QED
        BY <1>1, <3>1, <3>2, OrderFacts
    <2>2. \A m \in X, n \in d[Part(e, s)] : On(z, m, n)
      BY <1>1, <1>2, OrderFacts, Disjoint DEF Forest, Apart
    <2>3. \A m \in X \cup d[c], n \in d[h] : m < n
      BY <1>2 DEF Forest, Apart
    <2>4. /\ \A m \in d[Part(e, z)], n \in d[c] \cup d[Part(e, s)] : On(z, m, n)
          /\ \A m \in d[Part(e, s)], n \in X \cup d[c] : On(s, m, n)
          /\ \A m \in d[Part(e, s)], n \in d[Part(e, z)] : On(s, m, n)
          /\ \A m \in d[Part(e, s)] \cup d[Part(e, z)], n \in d[h] : m < n
      BY <1>1, <1>2 DEF Forest, Apart
    <2>5. ASSUME NEW y \in Sides, NEW m \in d2[Part(e2, y)]
          PROVE  /\ \A n \in d2[c] : On(y, m, n)
                 /\ \A n \in d2[Part(e2, Other(y))] : On(y, m, n)
                 /\ \A n \in d2[h] : m < n
      <3>1. CASE y = z
        BY <1>1, <1>8, <1>12, <1>13, <2>1, <2>2, <2>3, <2>4, <2>5, <3>1
      <3>2. CASE y = s
        BY <1>1, <1>8, <1>12, <1>13, <2>1, <2>2, <2>3, <2>4, <2>5, <3>2
      <3> QED
        BY <1>1, <3>1, <3>2, SideFacts
    <2> QED
      BY <1>8, <2>3, <2>5 DEF Apart
  <1>15. All(e2, d2, c, h) = All(e, d, r, h)
    <2>1. X \cup d[c] = d[r]
      BY <1>2 DEF X
    <2>2. \A t, u : All(u, t, c, h) = t[Part(u, z)] \cup t[c] \cup t[Part(u, s)] \cup t[h]
      BY <1>1, SideFacts DEF All
    <2>3. All(e, d, r, h) = d[Part(e, z)] \cup d[r] \cup d[Part(e, s)] \cup d[h]
      BY <1>1, SideFacts DEF All
    <2> QED
      BY <1>8, <1>12, <1>13, <2>1, <2>2, <2>3
  <1>16. Loose(e2, d2, c, h)
    <2> SUFFICES ASSUME NEW n \in Keys \ All(e, d, r, h), NEW y \in Sides
                 PROVE  e2[y][n] = Null
      BY <1>15 DEF Loose
    <2>1. e[y][n] = Null /\ n \in Places
      BY NullFacts DEF Forest, Loose
    <2>2. r \in All(e, d, r, h) /\ (at = Node \/ at \in All(e, d, r, h))
      BY <1>1, <1>2, <1>4, SideFacts DEF All
    <2>3. n # r /\ n # at
      BY <2>2, NullFacts
    <2> QED
      BY <1>1, <1>5, <2>1, <2>3, SideFacts
  <1>17. Forest(e2, d2, c, h)
    BY <1>1, <1>11, <1>14, <1>16 DEF Forest
  <1>18. Tails(e2, d2, tl2)
    <2>1. tl \in [Sides -> Places] /\ tl2 \in [Sides -> Places]
          /\ tl2[z] = r /\ tl2[s] = tl[s] /\ Other(s) = z
      BY <1>1, SideFacts DEF Tails, tl2
    <2>2. /\ e2[s][tl2[z]] = Null
          /\ tl2[z] \in d2[Part(e2, z)]
          /\ \A m \in d2[Part(e2, z)] : m = tl2[z] \/ On(z, m, tl2[z])
      <3>1. ASSUME NEW m \in d[Part(e, z)] PROVE On(z, m, r)
        BY <1>1, <1>2 DEF Forest, Apart
      <3>2. ASSUME NEW m \in X PROVE m = r \/ On(z, m, r)
        BY <1>1, <1>2 DEF Tree, IsSorted
      <3> QED
        BY <1>2, <1>5, <1>12, <2>1, <3>1, <3>2
    <2>3. /\ e2[z][tl2[s]] = Null
          /\ tl2[s] # Node => /\ tl2[s] \in d2[Part(e2, s)]
                              /\ \A m \in d2[Part(e2, s)] : m = tl2[s] \/ On(s, m, tl2[s])
      BY <1>1, <1>5, <1>13, <2>1, SideFacts DEF Tails
    <2> QED
      BY <1>1, <2>1, <2>2, <2>3, SideFacts DEF Tails
  <1> QED
    BY <1>2, <1>8, <1>12, <1>13, <1>17, <1>18 DEF X, tl2, LinksTo

-----------------------------------------------------------------------------
(* SPLAY_ASSEMBLE on one side: what is left on that side of the root is    *)
(* hung from the tail, and the tree on that side from the root.            *)
Gathered(e, tl, r, z, s, e2) ==
    \A y \in Sides, n \in Places :
        e2[y][n] = IF y = s /\ n = Node THEN Null
                   ELSE IF y = s /\ n = tl[z] THEN e[z][r]
                   ELSE IF y = z /\ n = r THEN (IF tl[z] = Node THEN e[z][r] ELSE Part(e, z))
                   ELSE e[y][n]

GatherIs(e, d, r, h, tl, z, s, e2, d2) ==
    /\ Forest(e2, d2, r, h)
    /\ Tails(e2, d2, [tl EXCEPT ![z] = Node])
    /\ d2[r] = d[r] \cup d[Part(e, z)] /\ d2[h] = d[h]
    /\ Part(e2, z) = Null
    /\ d2[Part(e2, s)] = d[Part(e, s)]
    /\ d2[e2[z][r]] = d[e[z][r]] \cup d[Part(e, z)]
    /\ e2[s][r] = e[s][r] /\ d2[e[s][r]] = d[e[s][r]]

LEMMA GatherKeeps ==
    ASSUME NEW e, NEW d, NEW r \in Keys, NEW h, Forest(e, d, r, h),
           NEW tl, Tails(e, d, tl), NEW z \in Sides, NEW s, s = Other(z),
           NEW e2 \in Linking, Gathered(e, tl, r, z, s, e2)
    PROVE  \E d2 : GatherIs(e, d, r, h, tl, z, s, e2, d2)
  <1> SUFFICES ASSUME NEW at, at = tl[z], NEW l, l = e[z][r], NEW p, p = Part(e, z)
               PROVE  \E d2 : GatherIs(e, d, r, h, tl, z, s, e2, d2)
    OBVIOUS
  <1>0. \A y \in Sides, n \in Places :
           e2[y][n] = IF y = s /\ n = Node THEN Null
                      ELSE IF y = s /\ n = at THEN l
                      ELSE IF y = z /\ n = r THEN (IF at = Node THEN l ELSE p)
                      ELSE e[y][n]
    BY DEF Gathered
  <1> DEFINE X == d[l]
             d2 == [n \in Pointers |-> IF n = r THEN d[r] \cup d[p]
                                       ELSE IF at \in d[n] THEN d[n] \cup X ELSE d[n]]
             tl2 == [tl EXCEPT ![z] = Node]
  <1>1. /\ Tree(e, d) /\ e \in Linking
        /\ s \in Sides /\ z = Other(s) /\ z # s
        /\ r \in Pointers /\ l \in Pointers /\ h \in Pointers /\ r \in Places /\ r # Null /\ r # Node
        /\ p \in Pointers /\ Part(e, s) \in Pointers /\ p = e[s][Node]
    BY LinkTypes, SideFacts, NullFacts DEF Forest, Tree, Part
  <1>2. /\ d \in [Pointers -> SUBSET Keys] /\ d[Null] = {}
        /\ \A n \in Pointers : d[n] \subseteq Keys /\ IsFiniteSet(d[n])
        /\ X \subseteq d[r] /\ X \subseteq Keys /\ IsFiniteSet(X) /\ r \notin X
        /\ r \in d[r] /\ d[r] = {r} \cup X \cup d[e[s][r]]
    BY <1>1, BelowFacts DEF Tree, IsBelow
  <1>3. /\ \A n \in Keys : r \in d[n] => n = r
        /\ \A n \in Places, y \in Sides : e[y][n] # r
        /\ \A y \in Sides : r \notin d[Part(e, y)]
    BY TopFacts
  <1>4. /\ at \in Places /\ at # r /\ e[s][at] = Null
        /\ at \notin d[r] /\ at \notin d[h] /\ at \notin d[Part(e, s)]
        /\ \A y \in Sides : at \notin d[e[y][r]]
        /\ \A n \in Keys : at \in d[n] => at \in Keys /\ n \in d[p]
        /\ \A n \in Keys, y \in Sides : at \in d[e[y][n]] => y = s /\ n \in d[p]
        /\ at = Node => p = Null /\ \A n \in Pointers : at \notin d[n]
        /\ at # Node => /\ at \in Keys /\ at \in d[p]
                        /\ \A m \in d[p] : m = at \/ On(z, m, at)
    <2>1. TailIs(e, d, r, h, z, at, s)
      BY <1>1, TailFacts
    <2> QED
      BY ONLY <2>1, p = Part(e, z) DEF TailIs
  <1>5. /\ e2[s][Node] = Null
        /\ at # Node => e2[s][at] = l /\ e2[z][r] = p
        /\ at = Node => e2[z][r] = l
        /\ \A n \in Places : n # r => e2[z][n] = e[z][n]
        /\ \A n \in Places : n # at /\ n # Node => e2[s][n] = e[s][n]
    BY <1>0, <1>1, <1>4, NullFacts
  <1>6. /\ d2 \in [Pointers -> SUBSET Keys] /\ d2[Null] = {}
        /\ d2[r] = d[r] \cup d[p]
        /\ \A n \in Pointers : n # r => d2[n] = IF at \in d[n] THEN d[n] \cup X ELSE d[n]
    BY <1>1, <1>2, NullFacts
  <1> HIDE DEF d2, X, tl2
  <1>7. r \notin d[h] /\ r # h /\ p # r /\ l # r /\ at \notin X /\ Part(e, s) # r
        /\ X = d[l]
    <2>1. r \notin d[h]
      BY <1>2, Disjoint
    <2>2. r # h
      BY <1>2, <2>1
    <2> QED
      BY <1>1, <1>2, <1>3, <1>4, <2>1, <2>2, NullFacts DEF X, Part
  <1>8. /\ d2[h] = d[h] /\ d2[l] = X
        /\ e[s][r] \in Pointers /\ d2[e[s][r]] = d[e[s][r]]
    <2>1. at \notin d[h] /\ at \notin d[l] /\ at \notin d[e[s][r]]
      BY <1>1, <1>4, <1>7
    <2>2. e[s][r] \in Pointers /\ e[s][r] # r
      BY <1>1, <1>3, LinkTypes
    <2> QED
      BY <1>1, <1>6, <1>7, <2>1, <2>2
  <1>9. d2[e2[z][r]] = X \cup d[p] /\ e2[s][r] = e[s][r]
    <2>1. CASE at = Node
      BY <1>1, <1>2, <1>4, <1>5, <1>8, <2>1
    <2>2. CASE at # Node
      BY <1>1, <1>4, <1>5, <1>6, <1>7, <2>2
    <2> QED
      BY <1>1, <1>4, <1>5, <2>1, <2>2
  <1>10. IsBelow(e2, d2)
    <2>1. ASSUME NEW n \in Keys PROVE d2[n] = {n} \cup d2[e2[s][n]] \cup d2[e2[z][n]]
      <3>0. /\ n \in Pointers /\ n \in Places /\ n # Node
            /\ e[s][n] \in Pointers /\ e[z][n] \in Pointers
            /\ e[s][n] # r /\ e[z][n] # r
            /\ d[n] = {n} \cup d[e[s][n]] \cup d[e[z][n]]
        BY <1>1, <1>3, LinkTypes, NullFacts, BelowFacts
      <3>1. CASE n = r
        BY <1>2, <1>6, <1>8, <1>9, <3>1
      <3>2. CASE n = at
        <4>1. at \in d[n] /\ at \notin d[e[z][n]]
          BY <1>1, <3>2, BelowFacts
        <4>2. d2[n] = d[n] \cup X /\ d2[e[z][n]] = d[e[z][n]]
          BY <1>4, <1>6, <3>0, <3>2, <4>1
        <4>3. e2[s][n] = l /\ e2[z][n] = e[z][n] /\ e[s][n] = Null
          BY <1>4, <1>5, <3>0, <3>2
        <4> QED
          BY <1>2, <1>8, <3>0, <4>2, <4>3
      <3>3. CASE n # r /\ n # at
        <4>1. e2[s][n] = e[s][n] /\ e2[z][n] = e[z][n]
          BY <1>5, <3>0, <3>3
        <4> QED
          BY <1>6, <3>0, <3>3, <4>1
      <3> QED
        BY <3>1, <3>2, <3>3
    <2>2. \A n \in Keys : d2[n] = {n} \cup d2[e2["left"][n]] \cup d2[e2["right"][n]]
      BY <1>1, <2>1 DEF Sides, Other
    <2>3. ASSUME NEW n \in Keys PROVE IsFiniteSet(d2[n])
      <3>1. n \in Pointers /\ IsFiniteSet(d[n]) /\ IsFiniteSet(X)
            /\ IsFiniteSet(d[r]) /\ IsFiniteSet(d[p])
        BY <1>1, <1>2, NullFacts
      <3>2. IsFiniteSet(d[n] \cup X) /\ IsFiniteSet(d[r] \cup d[p])
        BY <3>1, FS_Union
      <3>3. d2[n] = d[r] \cup d[p] \/ d2[n] = d[n] \/ d2[n] = d[n] \cup X
        BY <1>6, <3>1
      <3> QED
        BY ONLY <3>1, <3>2, <3>3
    <2> QED
      BY <1>6, <2>2, <2>3 DEF IsBelow
  <1>11. ASSUME NEW n \in Keys, NEW y \in Sides, NEW m \in d2[e2[y][n]] PROVE On(y, m, n)
    <2>0. /\ n \in Places /\ n # Node /\ e[y][n] \in Pointers /\ e[y][n] # r
          /\ \A k \in d[e[y][n]] : On(y, k, n)
      BY <1>1, <1>3, LinkTypes, NullFacts DEF Tree, IsSorted
    <2>1. ASSUME NEW k \in X, n \in d[p] PROVE On(s, k, n)
      <3>1. On(z, n, k)
        BY <1>1, <1>2, <2>1 DEF Forest, Apart
      <3> QED
        BY <1>1, <1>2, <2>1, <3>1, OrderFacts
    <2>2. CASE y = z /\ n = r
      <3>1. \A k \in X : On(z, k, r)
        BY <1>1, <1>7 DEF Tree, IsSorted
      <3>2. \A k \in d[p] : On(z, k, r)
        BY <1>1, <1>2 DEF Forest, Apart
      <3> QED
        BY <1>9, <1>11, <2>2, <3>1, <3>2
    <2>3. CASE y = s /\ n = at
      BY <1>4, <1>5, <1>8, <1>11, <2>0, <2>1, <2>3
    <2>4. CASE ~(y = z /\ n = r) /\ ~(y = s /\ n = at)
      <3>1. e2[y][n] = e[y][n]
        BY <1>1, <1>5, <2>0, <2>4, SideFacts
      <3>2. CASE at \in d[e[y][n]]
        <4>1. d2[e2[y][n]] = d[e[y][n]] \cup X /\ y = s /\ n \in d[p]
          BY <1>4, <1>6, <2>0, <3>1, <3>2
        <4> QED
          BY <1>11, <2>0, <2>1, <4>1
      <3>3. CASE at \notin d[e[y][n]]
        BY <1>6, <1>11, <2>0, <3>1, <3>3
      <3> QED
        BY <3>2, <3>3
    <2> QED
      BY <2>2, <2>3, <2>4
  <1>12. Tree(e2, d2)
    BY <1>10, <1>11 DEF Tree, IsSorted
  <1>13. Part(e2, z) = Null
    BY <1>1, <1>5 DEF Part
  <1>14. Part(e2, s) = Part(e, s) /\ d2[Part(e2, s)] = d[Part(e, s)]
    <2>1. Part(e2, s) = Part(e, s)
      BY <1>1, <1>5, NullFacts DEF Part
    <2> QED
      BY <1>1, <1>4, <1>6, <1>7, <2>1
  <1>15. Apart(e2, d2, r, h)
    <2>1. /\ \A m \in d[p], n \in d[h] : m < n
          /\ \A m \in d[r], n \in d[h] : m < n
          /\ \A m \in d[Part(e, s)], n \in d[p] \cup d[r] : On(s, m, n)
          /\ \A m \in d[Part(e, s)], n \in d[h] : m < n
      BY <1>1 DEF Forest, Apart
    <2>2. ASSUME NEW y \in Sides, NEW m \in d2[Part(e2, y)]
          PROVE  /\ \A n \in d2[r] : On(y, m, n)
                 /\ \A n \in d2[Part(e2, Other(y))] : On(y, m, n)
                 /\ \A n \in d2[h] : m < n
      <3>1. y = s
        BY <1>1, <1>6, <1>13, <2>2, SideFacts
      <3>2. d2[Part(e2, Other(y))] = {}
        BY <1>1, <1>6, <1>13, <3>1
      <3> QED
        BY <1>6, <1>8, <1>14, <2>1, <2>2, <3>1, <3>2
    <2>3. \A m \in d2[r], n \in d2[h] : m < n
      BY <1>6, <1>8, <2>1
    <2> QED
      BY <2>2, <2>3 DEF Apart
  <1>16. All(e2, d2, r, h) = All(e, d, r, h)
    <2>1. \A t, u : All(u, t, r, h) = t[Part(u, z)] \cup t[r] \cup t[Part(u, s)] \cup t[h]
      BY <1>1, SideFacts DEF All
    <2>2. d2[Part(e2, z)] = {}
      BY <1>6, <1>13
    <2>3. All(e2, d2, r, h) = {} \cup (d[r] \cup d[p]) \cup d[Part(e, s)] \cup d[h]
      BY <1>6, <1>8, <1>14, <2>1, <2>2
    <2>4. All(e, d, r, h) = d[p] \cup d[r] \cup d[Part(e, s)] \cup d[h]
      BY <2>1
    <2> QED
      BY ONLY <2>3, <2>4
  <1>17. Loose(e2, d2, r, h)
    <2> SUFFICES ASSUME NEW n \in Keys \ All(e, d, r, h), NEW y \in Sides
                 PROVE  e2[y][n] = Null
      BY <1>16 DEF Loose
    <2>1. e[y][n] = Null /\ n \in Places /\ n # Node
      BY NullFacts DEF Forest, Loose
    <2>2. r \in All(e, d, r, h) /\ (at = Node \/ at \in All(e, d, r, h))
      BY <1>1, <1>2, <1>4, SideFacts DEF All
    <2> QED
      BY <1>1, <1>5, <2>1, <2>2, SideFacts
  <1>18. Forest(e2, d2, r, h)
    BY <1>1, <1>12, <1>15, <1>17 DEF Forest
  <1>19. Tails(e2, d2, tl2)
    <2>1. tl \in [Sides -> Places] /\ tl2 \in [Sides -> Places]
          /\ tl2[z] = Node /\ tl2[s] = tl[s] /\ Other(s) = z
      BY <1>1, SideFacts, NullFacts DEF Tails, tl2
    <2>2. e2[s][tl2[z]] = Null
      BY <1>5, <2>1
    <2>3. TailIs(e, d, r, h, s, tl[s], z)
      BY <1>1, <2>1, TailFacts
    <2>4. tl[s] # r /\ tl[s] \in Places
      BY <2>3 DEF TailIs
    <2>5. /\ e2[z][tl2[s]] = Null
          /\ tl2[s] # Node => /\ tl2[s] \in d2[Part(e2, s)]
                              /\ \A m \in d2[Part(e2, s)] : m = tl2[s] \/ On(s, m, tl2[s])
      BY <1>1, <1>5, <1>14, <2>1, <2>4, SideFacts DEF Tails
    <2> QED
      BY <1>1, <2>1, <2>2, <2>5, SideFacts DEF Tails
  <1> QED
    BY <1>6, <1>7, <1>8, <1>9, <1>13, <1>14, <1>18, <1>19 DEF tl2, GatherIs

-----------------------------------------------------------------------------
(* SPLAY_ROTATE_RIGHT and SPLAY_ROTATE_LEFT: the child takes the place of  *)
(* the root, which takes over the subtree between the two.                 *)
Rotates(e, r, s, e2) ==
    \A y \in Sides, n \in Places :
        e2[y][n] = IF y = s /\ n = r THEN e[Other(s)][e[s][r]]
                   ELSE IF y = Other(s) /\ n = e[s][r] THEN r ELSE e[y][n]

RotatesTo(e, d, r, h, tl, s, e2, d2) ==
    /\ Forest(e2, d2, e[s][r], h)
    /\ Tails(e2, d2, tl)
    /\ d2[e[s][r]] = d[r] /\ d2[h] = d[h]
    /\ \A y \in Sides : d2[Part(e2, y)] = d[Part(e, y)]
    /\ e2[s][e[s][r]] = e[s][e[s][r]] /\ d2[e[s][e[s][r]]] = d[e[s][e[s][r]]]

LEMMA RotateKeeps ==
    ASSUME NEW e, NEW d, NEW r \in Keys, NEW h, Forest(e, d, r, h),
           NEW tl, Tails(e, d, tl), NEW s \in Sides, e[s][r] \in Keys,
           NEW e2 \in Linking, Rotates(e, r, s, e2)
    PROVE  \E d2 : RotatesTo(e, d, r, h, tl, s, e2, d2)
  <1> SUFFICES ASSUME NEW o, o = Other(s), NEW tmp \in Keys, tmp = e[s][r],
                      NEW b, b = e[o][tmp]
               PROVE  \E d2 : RotatesTo(e, d, r, h, tl, s, e2, d2)
    OBVIOUS
  <1>0. \A y \in Sides, n \in Places :
           e2[y][n] = IF y = s /\ n = r THEN b
                      ELSE IF y = o /\ n = tmp THEN r ELSE e[y][n]
    BY DEF Rotates
  <1> DEFINE X == {r} \cup d[e[o][r]] \cup d[b]
             d2 == [n \in Pointers |-> IF n = tmp THEN d[r] ELSE IF n = r THEN X ELSE d[n]]
  <1>1. /\ Tree(e, d) /\ e \in Linking
        /\ o \in Sides /\ s = Other(o) /\ o # s
        /\ h \in Pointers /\ b \in Pointers
        /\ tmp \in Pointers /\ tmp \in Places /\ tmp # Null /\ tmp # Node
        /\ r \in Pointers /\ r \in Places /\ r # Null /\ r # Node
        /\ e[o][r] \in Pointers /\ e[s][tmp] \in Pointers
    BY LinkTypes, SideFacts, NullFacts DEF Forest, Tree
  <1>2. /\ d \in [Pointers -> SUBSET Keys] /\ d[Null] = {}
        /\ \A n \in Pointers : d[n] \subseteq Keys /\ IsFiniteSet(d[n])
        /\ tmp \in d[tmp] /\ tmp \in d[r] /\ r \in d[r] /\ r \notin d[tmp]
        /\ d[r] = {r} \cup d[tmp] \cup d[e[o][r]]
        /\ d[tmp] = {tmp} \cup d[e[s][tmp]] \cup d[b]
        /\ \A m \in d[tmp] : On(s, m, r)
        /\ \A m \in d[e[o][r]] : On(o, m, r)
        /\ \A m \in d[e[s][tmp]] : On(s, m, tmp)
        /\ \A m \in d[b] : On(o, m, tmp)
    BY <1>1, BelowFacts DEF Tree, IsBelow, IsSorted
  <1>3. X \subseteq Keys /\ IsFiniteSet(X)
    <2>1. IsFiniteSet({r}) /\ IsFiniteSet(d[e[o][r]]) /\ IsFiniteSet(d[b])
      BY <1>1, <1>2, FS_Singleton
    <2>2. IsFiniteSet({r} \cup d[e[o][r]])
      BY <2>1, FS_Union
    <2> QED
      BY <1>1, <1>2, <2>1, <2>2, FS_Union
  <1>4. /\ \A n \in Keys : r \in d[n] => n = r
        /\ \A n \in Places, y \in Sides : e[y][n] # r
        /\ \A y \in Sides : r \notin d[Part(e, y)]
    BY TopFacts
  <1>5. ASSUME NEW n \in Keys, n # r, n # tmp PROVE tmp \notin d[n]
    <2> SUFFICES ASSUME tmp \in d[n] PROVE FALSE
      OBVIOUS
    <2>1. n \in d[r]
      BY <1>2, <1>5, Home
    <2>2. CASE n \in d[tmp]
      <3>1. PICK y \in Sides : n \in d[e[y][tmp]]
        BY <1>1, <1>2, <1>5, <2>2, SideFacts
      <3>2. e[y][tmp] \in Pointers
        BY <1>1, LinkTypes
      <3> QED
        BY <1>1, <3>1, <3>2, BelowBelow, BelowFacts
    <2>3. CASE n \in d[e[o][r]]
      <3>1. tmp \in d[e[o][r]]
        BY <1>1, <2>3, BelowBelow
      <3> QED
        BY <1>1, <1>2, <3>1, OrderFacts
    <2> QED
      BY <1>2, <1>5, <2>1, <2>2, <2>3
  <1>6. ASSUME NEW n \in Places, NEW y \in Sides, e[y][n] = tmp PROVE n = r /\ y = s
    <2>1. n # Node
      <3>1. \A x \in Sides : tmp \notin d[Part(e, x)]
        BY <1>2, Disjoint
      <3> QED
        BY <1>2, <1>6, <3>1, SideFacts DEF Part
    <2>2. n \in Keys /\ tmp \in d[n] /\ tmp # n
      BY <1>1, <1>2, <1>6, <2>1, BelowFacts, NullFacts
    <2>3. n = r
      BY <1>5, <2>2
    <2>4. y # o
      BY <1>1, <1>2, <1>6, <2>3, OrderFacts
    <2> QED
      BY <1>1, <2>3, <2>4, SideFacts
  <1>7. /\ e2[s][r] = b /\ e2[o][tmp] = r
        /\ \A n \in Places : n # r => e2[s][n] = e[s][n]
        /\ \A n \in Places : n # tmp => e2[o][n] = e[o][n]
    BY <1>0, <1>1
  <1>8. tmp # r /\ b # tmp /\ b # r /\ e[o][r] # tmp /\ e[s][tmp] # tmp /\ e[s][tmp] # r
        /\ e[o][r] # r
    BY <1>1, <1>2, <1>4, <1>6
  <1>9. /\ d2 \in [Pointers -> SUBSET Keys] /\ d2[Null] = {}
        /\ d2[tmp] = d[r] /\ d2[r] = X
        /\ \A n \in Pointers : n # r /\ n # tmp => d2[n] = d[n]
    BY <1>1, <1>2, <1>3, <1>8, NullFacts
  <1>10. X = {r} \cup d[e[o][r]] \cup d[b]
    OBVIOUS
  <1> HIDE DEF d2, X
  <1>11. IsBelow(e2, d2)
    <2>1. ASSUME NEW n \in Keys PROVE d2[n] = {n} \cup d2[e2[s][n]] \cup d2[e2[o][n]]
      <3>0. /\ n \in Pointers /\ n \in Places
            /\ e[s][n] \in Pointers /\ e[o][n] \in Pointers
            /\ d[n] = {n} \cup d[e[s][n]] \cup d[e[o][n]]
        BY <1>1, LinkTypes, NullFacts, BelowFacts
      <3>1. CASE n = r
        <4>1. e2[s][r] = b /\ e2[o][r] = e[o][r]
          BY <1>1, <1>7, <1>8
        <4>2. d2[b] = d[b] /\ d2[e[o][r]] = d[e[o][r]]
          BY <1>1, <1>8, <1>9
        <4> QED
          BY <1>9, <1>10, <3>1, <4>1, <4>2
      <3>2. CASE n = tmp
        <4>1. e2[s][tmp] = e[s][tmp] /\ e2[o][tmp] = r
          BY <1>1, <1>7, <1>8
        <4>2. d2[e[s][tmp]] = d[e[s][tmp]]
          BY <1>1, <1>8, <1>9
        <4>3. d2[r] = {r} \cup d[e[o][r]] \cup d[b]
          BY <1>9, <1>10
        <4>4. d2[tmp] = {r} \cup ({tmp} \cup d[e[s][tmp]] \cup d[b]) \cup d[e[o][r]]
          BY <1>2, <1>9
        <4> QED
          BY ONLY <3>2, <4>1, <4>2, <4>3, <4>4
      <3>3. CASE n # r /\ n # tmp
        <4>1. e2[s][n] = e[s][n] /\ e2[o][n] = e[o][n]
          BY <1>7, <3>0, <3>3
        <4>2. d2[e[s][n]] = d[e[s][n]] /\ d2[e[o][n]] = d[e[o][n]]
          BY <1>1, <1>4, <1>6, <1>9, <3>0, <3>3
        <4> QED
          BY <1>9, <3>0, <3>3, <4>1, <4>2
      <3> QED
        BY <3>1, <3>2, <3>3
    <2>2. \A n \in Keys : d2[n] = {n} \cup d2[e2["left"][n]] \cup d2[e2["right"][n]]
      BY <1>1, <2>1 DEF Sides, Other
    <2>3. ASSUME NEW n \in Keys PROVE IsFiniteSet(d2[n])
      BY <1>1, <1>2, <1>3, <1>9, NullFacts
    <2> QED
      BY <1>9, <2>2, <2>3 DEF IsBelow
  <1>12. ASSUME NEW n \in Keys, NEW y \in Sides, NEW m \in d2[e2[y][n]] PROVE On(y, m, n)
    <2>0. /\ n \in Places /\ e[y][n] \in Pointers
          /\ \A k \in d[e[y][n]] : On(y, k, n)
      BY <1>1, LinkTypes, NullFacts DEF Tree, IsSorted
    <2>1. CASE y = s /\ n = r
      <3>1. m \in d[b]
        BY <1>1, <1>7, <1>8, <1>9, <1>12, <2>1
      <3> QED
        BY <1>2, <2>1, <3>1
    <2>2. CASE y = o /\ n = tmp
      <3>1. m = r \/ m \in d[e[o][r]] \/ m \in d[b]
        BY <1>7, <1>9, <1>10, <1>12, <2>2
      <3>2. On(o, r, tmp)
        BY <1>1, <1>2, OrderFacts
      <3>3. m \in d[e[o][r]] => On(o, m, tmp)
        BY <1>1, <1>2, <3>2, OrderFacts
      <3> QED
        BY <1>2, <2>2, <3>1, <3>2, <3>3
    <2>3. CASE ~(y = s /\ n = r) /\ ~(y = o /\ n = tmp)
      <3>1. e2[y][n] = e[y][n]
        BY <1>1, <1>7, <2>0, <2>3, SideFacts
      <3>2. e[y][n] # r /\ e[y][n] # tmp
        BY <1>4, <1>6, <2>0, <2>3
      <3> QED
        BY <1>9, <1>12, <2>0, <3>1, <3>2
    <2> QED
      BY <2>1, <2>2, <2>3
  <1>13. Tree(e2, d2)
    BY <1>11, <1>12 DEF Tree, IsSorted
  <1>14. ASSUME NEW y \in Sides
         PROVE  Part(e2, y) = Part(e, y) /\ d2[Part(e2, y)] = d[Part(e, y)]
    <2>1. Part(e2, y) = Part(e, y)
      BY <1>0, <1>1, NullFacts, SideFacts DEF Part
    <2>2. Part(e, y) # r /\ Part(e, y) # tmp
      BY <1>1, <1>4, <1>6, NullFacts, SideFacts DEF Part
    <2>3. Part(e, y) \in Pointers
      BY <1>1, LinkTypes
    <2> QED
      BY <1>9, <2>1, <2>2, <2>3
  <1>15. d2[h] = d[h]
    <2>1. r \notin d[h] /\ tmp \notin d[h]
      BY <1>2, Disjoint
    <2> QED
      BY <1>1, <1>2, <1>9, <2>1
  <1>16. Apart(e2, d2, tmp, h)
    <2>1. \A y \in Sides : d2[Part(e2, y)] = d[Part(e, y)]
      BY <1>14
    <2>2. Apart(e, d, r, h)
      BY DEF Forest
    <2> QED
      BY ONLY <1>9, <1>15, <2>1, <2>2, SideFacts DEF Apart
  <1>17. All(e2, d2, tmp, h) = All(e, d, r, h)
    BY <1>9, <1>14, <1>15, SideFacts DEF All
  <1>18. Loose(e2, d2, tmp, h)
    <2> SUFFICES ASSUME NEW n \in Keys \ All(e, d, r, h), NEW y \in Sides
                 PROVE  e2[y][n] = Null
      BY <1>17 DEF Loose
    <2>1. e[y][n] = Null /\ n \in Places
      BY NullFacts DEF Forest, Loose
    <2>2. r \in All(e, d, r, h) /\ tmp \in All(e, d, r, h)
      BY <1>2 DEF All
    <2> QED
      BY <1>1, <1>7, <2>1, <2>2, SideFacts
  <1>19. Forest(e2, d2, tmp, h)
    BY <1>1, <1>13, <1>16, <1>18 DEF Forest
  <1>20. Tails(e2, d2, tl)
    <2> SUFFICES ASSUME NEW y \in Sides
                 PROVE  /\ e2[Other(y)][tl[y]] = Null
                        /\ tl[y] # Node =>
                              /\ tl[y] \in d[Part(e, y)]
                              /\ \A m \in d[Part(e, y)] : m = tl[y] \/ On(y, m, tl[y])
      BY <1>14 DEF Tails
    <2>1. TailIs(e, d, r, h, y, tl[y], Other(y))
      BY TailFacts
    <2>2. tl[y] \in Places /\ tl[y] # r /\ tl[y] # tmp /\ e[Other(y)][tl[y]] = Null
      BY <1>2, <2>1 DEF TailIs
    <2>3. e2[Other(y)][tl[y]] = e[Other(y)][tl[y]]
      BY <1>0, <2>2, SideFacts
    <2> QED
      BY <2>2, <2>3 DEF Tails
  <1>21. e2[s][tmp] = e[s][tmp] /\ d2[e[s][tmp]] = d[e[s][tmp]]
    BY <1>1, <1>7, <1>8, <1>9
  <1> QED
    BY <1>9, <1>14, <1>15, <1>19, <1>20, <1>21 DEF RotatesTo

-----------------------------------------------------------------------------
(* Between two splays there are only the tree and the one that is held.    *)
Idle(e, d, r, h) ==
    /\ Tree(e, d) /\ r \in Pointers /\ h \in Pointers
    /\ \A z \in Sides : Part(e, z) = Null
    /\ \A m \in d[r], n \in d[h] : m < n
    /\ \A n \in Keys \ (d[r] \cup d[h]), s \in Sides : e[s][n] = Null

LEMMA IdleIs ==
    ASSUME NEW e, NEW d, NEW r, NEW h
    PROVE  /\ Idle(e, d, r, h) =>
                 /\ Forest(e, d, r, h) /\ Tails(e, d, NoTails)
                 /\ All(e, d, r, h) = d[r] \cup d[h]
           /\ Forest(e, d, r, h) /\ (\A z \in Sides : Part(e, z) = Null) =>
                 /\ Idle(e, d, r, h)
                 /\ All(e, d, r, h) = d[r] \cup d[h]
  <1>1. ASSUME \A z \in Sides : Part(e, z) = Null, d[Null] = {}
        PROVE  All(e, d, r, h) = d[r] \cup d[h]
    BY <1>1, SideFacts DEF All
  <1>2. ASSUME Idle(e, d, r, h) PROVE Forest(e, d, r, h)
    <2>1. d[Null] = {} /\ \A z \in Sides : Part(e, z) = Null
      BY <1>2 DEF Idle, Tree, IsBelow
    <2>2. Apart(e, d, r, h)
      BY <1>2, <2>1 DEF Idle, Apart
    <2>3. Loose(e, d, r, h)
      BY <1>1, <1>2, <2>1 DEF Idle, Loose
    <2> QED
      BY <1>2, <2>2, <2>3 DEF Idle, Forest
  <1>3. ASSUME Idle(e, d, r, h) PROVE Tails(e, d, NoTails)
    <2>1. \A z \in Sides : NoTails[z] = Node
      BY DEF NoTails
    <2> QED
      BY <1>3, <2>1, NullFacts DEF Idle, Tails, Part, NoTails
  <1>4. ASSUME Forest(e, d, r, h), \A z \in Sides : Part(e, z) = Null PROVE Idle(e, d, r, h)
    <2>1. d[Null] = {}
      BY <1>4 DEF Forest, Tree, IsBelow
    <2>2. All(e, d, r, h) = d[r] \cup d[h]
      BY <1>1, <1>4, <2>1
    <2> QED
      BY <1>4, <2>2 DEF Forest, Apart, Loose, Idle
  <1>5. ASSUME Idle(e, d, r, h) PROVE d[Null] = {} /\ \A z \in Sides : Part(e, z) = Null
    BY <1>5 DEF Idle, Tree, IsBelow
  <1> QED
    BY <1>1, <1>2, <1>3, <1>4, <1>5

(* Nothing leads to the root, to what is held or to a node outside.        *)
LEMMA IdleFacts ==
    ASSUME NEW e, NEW d, NEW r, NEW h, Idle(e, d, r, h)
    PROVE  /\ d[r] \subseteq Keys /\ d[h] \subseteq Keys /\ d[r] \cap d[h] = {}
           /\ \A n \in Keys \ (d[r] \cup d[h]) : d[n] = {n}
           /\ \A n \in Places, s \in Sides : e[s][n] \in Keys => n \in d[r] \cup d[h]
           /\ r \in Keys => \A n \in Places, s \in Sides : e[s][n] # r
           /\ \A n \in d[r], s \in Sides : d[e[s][n]] \subseteq d[r]
           /\ \A n \in d[h], s \in Sides : d[e[s][n]] \subseteq d[h]
  <1>1. Forest(e, d, r, h) /\ Tree(e, d) /\ r \in Pointers /\ h \in Pointers
    BY IdleIs DEF Idle
  <1>2. d[r] \subseteq Keys /\ d[h] \subseteq Keys /\ d[r] \cap d[h] = {} /\ d[Null] = {}
    BY <1>1, Disjoint, BelowFacts
  <1>3. ASSUME NEW n \in Keys \ (d[r] \cup d[h])
        PROVE  d[n] = {n} /\ \A s \in Sides : e[s][n] = Null
    <2>1. \A s \in Sides : e[s][n] = Null
      BY DEF Idle
    <2>2. d[n] = {n} \cup d[e["left"][n]] \cup d[e["right"][n]]
      BY <1>1 DEF Tree, IsBelow
    <2> QED
      BY <1>2, <2>1, <2>2, SideFacts
  <1>4. \A n \in Places, s \in Sides : e[s][n] \in Keys => n \in d[r] \cup d[h]
    <2>1. \A s \in Sides : e[s][Node] = Null
      BY SideFacts DEF Idle, Part
    <2> QED
      BY <1>3, <2>1, NullFacts
  <1>5. r \in Keys => \A n \in Places, s \in Sides : e[s][n] # r
    BY <1>1, TopFacts
  <1>6. ASSUME NEW a \in {r, h}, NEW n \in d[a], NEW s \in Sides PROVE d[e[s][n]] \subseteq d[a]
    <2>1. n \in Keys /\ a \in Pointers
      BY <1>1, <1>2
    <2>2. d[n] \subseteq d[a] /\ d[e[s][n]] \subseteq d[n]
      BY <1>1, <2>1, BelowBelow, BelowFacts
    <2> QED
      BY <2>2
  <1> QED
    BY <1>2, <1>3, <1>4, <1>5, <1>6

(* SPLAY_INSERT: the new element takes the place of the root, between it   *)
(* and what is beyond.                                                     *)
PlacesNew(e, r, k, y, e2) ==
    \A v \in Sides, n \in Places :
        e2[v][n] = IF n = k THEN (IF v = y THEN e[y][r] ELSE r)
                   ELSE IF n = r /\ v = y THEN Null ELSE e[v][n]

LEMMA PlaceKeeps ==
    ASSUME NEW e, NEW d, NEW r \in Keys, Idle(e, d, r, Null),
           NEW k \in Keys, k \notin d[r], NEW y \in Sides, NEW x, x = Other(y),
           On(x, r, k), \A m \in d[e[y][r]] : On(y, m, k),
           NEW e2 \in Linking, PlacesNew(e, r, k, y, e2)
    PROVE  \E d2 : Idle(e2, d2, k, Null) /\ d2[k] = d[r] \cup {k}
  <1> DEFINE X == {r} \cup d[e[x][r]]
             d2 == [n \in Pointers |-> IF n = k THEN d[r] \cup {k} ELSE IF n = r THEN X ELSE d[n]]
  <1>1. /\ Tree(e, d) /\ e \in Linking /\ \A z \in Sides : Part(e, z) = Null
        /\ x \in Sides /\ y = Other(x) /\ x # y /\ k # Node /\ k # Null /\ r # Node /\ r # Null
        /\ r \in Pointers /\ k \in Pointers /\ r \in Places /\ k \in Places /\ Node \in Places
        /\ e[y][r] \in Pointers /\ e[x][r] \in Pointers
    BY LinkTypes, SideFacts, NullFacts DEF Idle, Tree
  <1>2. /\ d \in [Pointers -> SUBSET Keys] /\ d[Null] = {}
        /\ \A n \in Pointers : d[n] \subseteq Keys /\ IsFiniteSet(d[n])
        /\ r \in d[r] /\ d[r] = {r} \cup d[e[y][r]] \cup d[e[x][r]]
        /\ \A m \in d[e[x][r]] : On(x, m, r)
    BY <1>1, BelowFacts DEF Tree, IsBelow, IsSorted
  <1>3. /\ IsFiniteSet(X) /\ X \subseteq Keys /\ IsFiniteSet(d[r] \cup {k})
        /\ d[r] \cup {k} \subseteq Keys
    <2>1. IsFiniteSet({r}) /\ IsFiniteSet({k}) /\ IsFiniteSet(d[e[x][r]]) /\ IsFiniteSet(d[r])
      BY <1>1, <1>2, FS_Singleton
    <2> QED
      BY <1>1, <1>2, <2>1, FS_Union
  <1>4. ASSUME NEW n \in Places, NEW v \in Sides
        PROVE  /\ e[v][n] # r /\ e[v][n] # k /\ e[v][n] \in Pointers
               /\ n \notin d[r] => e[v][n] = Null
    <2>1. e[v][n] \in Pointers /\ e[v][n] # r
      BY <1>1, IdleFacts, LinkTypes
    <2>2. n \notin d[r] => e[v][n] = Null
      BY <1>2, <2>1, IdleFacts, NullFacts
    <2>3. ASSUME e[v][n] = k PROVE FALSE
      <3>1. n \in d[r]
        BY <1>1, <2>2, <2>3
      <3>2. d[e[v][n]] \subseteq d[r] /\ k \in d[k]
        BY <1>1, <3>1, IdleFacts, BelowFacts
      <3> QED
        BY <2>3, <3>2
    <2> QED
      BY <2>1, <2>2, <2>3
  <1>5. /\ e2[y][k] = e[y][r] /\ e2[x][k] = r /\ e2[y][r] = Null /\ e2[x][r] = e[x][r]
        /\ \A n \in Places, v \in Sides : n # k /\ n # r => e2[v][n] = e[v][n]
    BY <1>1, <1>2 DEF PlacesNew
  <1>6. /\ d2 \in [Pointers -> SUBSET Keys] /\ d2[Null] = {}
        /\ d2[k] = d[r] \cup {k} /\ d2[r] = X
        /\ \A n \in Pointers : n # r /\ n # k => d2[n] = d[n]
        /\ X = {r} \cup d[e[x][r]]
    BY <1>1, <1>2, <1>3, NullFacts
  <1> HIDE DEF d2, X
  <1>7. d2[e[y][r]] = d[e[y][r]] /\ d2[e[x][r]] = d[e[x][r]]
    BY <1>1, <1>4, <1>6
  <1>8. IsBelow(e2, d2)
    <2>1. ASSUME NEW n \in Keys PROVE d2[n] = {n} \cup d2[e2[y][n]] \cup d2[e2[x][n]]
      <3>1. CASE n = k
        BY <1>2, <1>5, <1>6, <1>7, <3>1
      <3>2. CASE n = r
        BY <1>5, <1>6, <1>7, <3>2
      <3>3. CASE n # r /\ n # k
        <4>1. d[n] = {n} \cup d[e[y][n]] \cup d[e[x][n]] /\ n \in Places /\ n \in Pointers
          BY <1>1, BelowFacts, NullFacts
        <4>2. d2[e[y][n]] = d[e[y][n]] /\ d2[e[x][n]] = d[e[x][n]] /\ d2[n] = d[n]
          <5>1. \A v \in Sides : e[v][n] # r /\ e[v][n] # k /\ e[v][n] \in Pointers
            BY <1>4, <4>1
          <5> QED
            BY <1>1, <1>6, <3>3, <4>1, <5>1
        <4>3. e2[y][n] = e[y][n] /\ e2[x][n] = e[x][n]
          BY <1>1, <1>5, <3>3, <4>1
        <4> QED
          BY ONLY <4>1, <4>2, <4>3
      <3> QED
        BY <3>1, <3>2, <3>3
    <2>2. \A n \in Keys : d2[n] = {n} \cup d2[e2["left"][n]] \cup d2[e2["right"][n]]
      BY <1>1, <2>1 DEF Sides, Other
    <2>3. \A n \in Keys : IsFiniteSet(d2[n])
      BY <1>1, <1>2, <1>3, <1>6, NullFacts
    <2> QED
      BY <1>6, <2>2, <2>3 DEF IsBelow
  <1>9. ASSUME NEW n \in Keys, NEW v \in Sides, NEW m \in d2[e2[v][n]] PROVE On(v, m, n)
    <2>1. CASE n = k /\ v = y
      BY <1>5, <1>7, <1>9, <2>1
    <2>2. CASE n = k /\ v = x
      <3>1. m = r \/ m \in d[e[x][r]]
        BY <1>5, <1>6, <1>9, <2>2
      <3>2. ASSUME m \in d[e[x][r]] PROVE On(x, m, k)
        <4>1. On(x, m, r) /\ m \in Keys
          BY <1>1, <1>2, <3>2
        <4> QED
          BY <1>1, <4>1, OrderFacts
      <3> QED
        BY <2>2, <3>1, <3>2
    <2>3. CASE n = r
      BY <1>1, <1>2, <1>5, <1>6, <1>7, <1>9, <2>3, SideFacts
    <2>4. CASE n # r /\ n # k
      <3>1. e2[v][n] = e[v][n] /\ d2[e[v][n]] = d[e[v][n]]
        BY <1>4, <1>5, <1>6, <2>4, NullFacts
      <3> QED
        BY <1>1, <1>9, <3>1 DEF Tree, IsSorted
    <2> QED
      BY <1>1, <2>1, <2>2, <2>3, <2>4, SideFacts
  <1>10. Tree(e2, d2)
    BY <1>8, <1>9 DEF Tree, IsSorted
  <1>11. \A z \in Sides : Part(e2, z) = Null
    BY <1>1, <1>5, SideFacts DEF Part
  <1>12. ASSUME NEW n \in Keys \ (d[r] \cup {k}), NEW v \in Sides PROVE e2[v][n] = Null
    BY <1>2, <1>4, <1>5, NullFacts
  <1>13. Idle(e2, d2, k, Null)
    BY <1>1, <1>6, <1>10, <1>11, <1>12, NullFacts DEF Idle
  <1> QED
    BY <1>6, <1>13

(* SPLAY_REMOVE takes the root out: its subtrees remain.                   *)
Cuts(e, r, e2) ==
    \A v \in Sides, n \in Places : e2[v][n] = IF n = r THEN Null ELSE e[v][n]

LEMMA CutKeeps ==
    ASSUME NEW e, NEW d, NEW r \in Keys, Idle(e, d, r, Null),
           NEW a, NEW b, a = e["left"][r], b = e["right"][r],
           NEW e2 \in Linking, Cuts(e, r, e2)
    PROVE  \E d2 : /\ Idle(e2, d2, a, b) /\ d2[a] = d[a] /\ d2[b] = d[b]
                   /\ a = Null => Idle(e2, d2, b, Null)
                   /\ d[r] = {r} \cup d[a] \cup d[b]
                   /\ \A m \in d[a] : m < r
                   /\ \A m \in d[b] : r < m
  <1> DEFINE d2 == [n \in Pointers |-> IF n = r THEN {r} ELSE d[n]]
  <1>0. \A v \in Sides, n \in Places : e2[v][n] = IF n = r THEN Null ELSE e[v][n]
    BY DEF Cuts
  <1>1. /\ Tree(e, d) /\ e \in Linking /\ \A z \in Sides : Part(e, z) = Null
        /\ r # Node /\ r # Null /\ r \in Pointers /\ r \in Places /\ Node \in Places
        /\ a \in Pointers /\ b \in Pointers
    BY LinkTypes, SideFacts, NullFacts DEF Idle, Tree
  <1>2. /\ d \in [Pointers -> SUBSET Keys] /\ d[Null] = {}
        /\ \A n \in Pointers : d[n] \subseteq Keys /\ IsFiniteSet(d[n])
        /\ r \in d[r] /\ d[r] = {r} \cup d[a] \cup d[b]
        /\ \A m \in d[a] : On("left", m, r)
        /\ \A m \in d[b] : On("right", m, r)
    BY <1>1, BelowFacts, SideFacts DEF Tree, IsBelow, IsSorted
  <1>3. ASSUME NEW n \in Places, NEW v \in Sides
        PROVE  /\ e[v][n] # r /\ e[v][n] \in Pointers
               /\ n \notin d[r] => e[v][n] = Null
    BY <1>1, <1>2, IdleFacts, LinkTypes, NullFacts
  <1>4. /\ d2 \in [Pointers -> SUBSET Keys] /\ d2[Null] = {} /\ d2[r] = {r}
        /\ \A n \in Pointers : n # r => d2[n] = d[n]
    BY <1>1, <1>2, NullFacts
  <1> HIDE DEF d2
  <1>5. IsBelow(e2, d2)
    <2>1. ASSUME NEW n \in Keys PROVE d2[n] = {n} \cup d2[e2["left"][n]] \cup d2[e2["right"][n]]
      <3>1. CASE n = r
        BY <1>0, <1>1, <1>4, <3>1, SideFacts
      <3>2. CASE n # r
        <4>1. d[n] = {n} \cup d[e["left"][n]] \cup d[e["right"][n]] /\ n \in Places /\ n \in Pointers
          BY <1>1, NullFacts DEF Tree, IsBelow
        <4>2. e2["left"][n] = e["left"][n] /\ e2["right"][n] = e["right"][n]
          BY <1>0, <3>2, <4>1, SideFacts
        <4>3. /\ d2[e["left"][n]] = d[e["left"][n]] /\ d2[e["right"][n]] = d[e["right"][n]]
              /\ d2[n] = d[n]
          BY <1>3, <1>4, <3>2, <4>1, SideFacts
        <4> QED
          BY ONLY <4>1, <4>2, <4>3
      <3> QED
        BY <3>1, <3>2
    <2>2. ASSUME NEW n \in Keys PROVE IsFiniteSet(d2[n])
      <3>1. IsFiniteSet({r}) /\ IsFiniteSet(d[n]) /\ n \in Pointers
        BY <1>2, FS_Singleton, NullFacts
      <3>2. d2[n] = {r} \/ d2[n] = d[n]
        BY <1>4, <3>1
      <3> QED
        BY ONLY <3>1, <3>2
    <2> QED
      BY <1>4, <2>1, <2>2 DEF IsBelow
  <1>6. ASSUME NEW n \in Keys, NEW v \in Sides, NEW m \in d2[e2[v][n]] PROVE On(v, m, n)
    <2>1. n # r
      BY <1>0, <1>1, <1>4, <1>6, NullFacts
    <2>2. e2[v][n] = e[v][n] /\ d2[e[v][n]] = d[e[v][n]]
      BY <1>0, <1>3, <1>4, <2>1, NullFacts
    <2> QED
      BY <1>1, <1>6, <2>2 DEF Tree, IsSorted
  <1>7. Tree(e2, d2)
    BY <1>5, <1>6 DEF Tree, IsSorted
  <1>8. \A z \in Sides : Part(e2, z) = Null
    BY <1>0, <1>1, SideFacts DEF Part
  <1>9. /\ a # r /\ b # r /\ d2[a] = d[a] /\ d2[b] = d[b]
    BY <1>1, <1>3, <1>4, SideFacts
  <1>10. ASSUME NEW n \in Keys \ (d[a] \cup d[b]), NEW v \in Sides PROVE e2[v][n] = Null
    BY <1>0, <1>2, <1>3, NullFacts
  <1>11. /\ \A m \in d[a] : m \in Keys /\ m < r
         /\ \A m \in d[b] : m \in Keys /\ r < m
    BY <1>1, <1>2, OrderFacts
  <1>12. ASSUME NEW m \in d[a], NEW n \in d[b] PROVE m < n
    <2>1. m \in Keys /\ n \in Keys /\ r \in Keys /\ m < r /\ r < n
      BY <1>1, <1>11 DEF Pointers
    <2>2. m \in Int /\ n \in Int /\ r \in Int
      BY <2>1, KeysAreIntegers
    <2> QED
      BY ONLY <2>1, <2>2
  <1>13. Idle(e2, d2, a, b)
    BY <1>1, <1>7, <1>8, <1>9, <1>10, <1>12 DEF Idle
  <1>14. a = Null => Idle(e2, d2, b, Null)
    BY <1>1, <1>2, <1>4, <1>7, <1>8, <1>9, <1>10, NullFacts DEF Idle
  <1> QED
    BY <1>2, <1>9, <1>11, <1>13, <1>14

(* ... and joins them: what is held is hung from the largest of the rest.  *)
Joins(e, r, h, e2) ==
    \A v \in Sides, n \in Places :
        e2[v][n] = IF v = "right" /\ n = r THEN h ELSE e[v][n]

JoinsTo(e2, d, d2, r, h) == Idle(e2, d2, r, Null) /\ d2[r] = d[r] \cup d[h]

LEMMA JoinKeeps ==
    ASSUME NEW e, NEW d, NEW r \in Keys, NEW h, Idle(e, d, r, h), e["right"][r] = Null,
           NEW e2 \in Linking, Joins(e, r, h, e2)
    PROVE  \E d2 : JoinsTo(e2, d, d2, r, h)
  <1> DEFINE d2 == [n \in Pointers |-> IF n = r THEN d[r] \cup d[h] ELSE d[n]]
  <1>0. \A v \in Sides, n \in Places :
           e2[v][n] = IF v = "right" /\ n = r THEN h ELSE e[v][n]
    BY DEF Joins
  <1>1. /\ Tree(e, d) /\ e \in Linking /\ \A z \in Sides : Part(e, z) = Null
        /\ r # Node /\ r # Null /\ r \in Pointers /\ r \in Places /\ Node \in Places
        /\ h \in Pointers /\ \A m \in d[r], n \in d[h] : m < n
    BY LinkTypes, SideFacts, NullFacts DEF Idle, Tree
  <1>2. /\ d \in [Pointers -> SUBSET Keys] /\ d[Null] = {}
        /\ \A n \in Pointers : d[n] \subseteq Keys /\ IsFiniteSet(d[n])
        /\ r \in d[r] /\ d[r] = {r} \cup d[e["left"][r]] \cup {}
        /\ d[r] \cap d[h] = {}
    BY <1>1, BelowFacts, IdleFacts, SideFacts DEF Tree, IsBelow
  <1>3. ASSUME NEW n \in Places, NEW v \in Sides
        PROVE  /\ e[v][n] # r /\ e[v][n] \in Pointers
               /\ n \notin d[r] \cup d[h] => e[v][n] = Null
    BY <1>1, <1>2, IdleFacts, LinkTypes, NullFacts
  <1>4. h # r
    BY <1>1, <1>2
  <1>5. IsFiniteSet(d[r] \cup d[h]) /\ d[r] \cup d[h] \subseteq Keys
    BY <1>1, <1>2, FS_Union
  <1>6. /\ d2 \in [Pointers -> SUBSET Keys] /\ d2[Null] = {} /\ d2[r] = d[r] \cup d[h]
        /\ \A n \in Pointers : n # r => d2[n] = d[n]
    BY <1>1, <1>2, <1>5, NullFacts
  <1> HIDE DEF d2
  <1>7. IsBelow(e2, d2)
    <2>1. ASSUME NEW n \in Keys PROVE d2[n] = {n} \cup d2[e2["left"][n]] \cup d2[e2["right"][n]]
      <3>1. CASE n = r
        <4>1. e2["left"][r] = e["left"][r] /\ e2["right"][r] = h
          BY <1>0, <1>1, SideFacts
        <4>2. d2[e["left"][r]] = d[e["left"][r]] /\ d2[h] = d[h]
          BY <1>1, <1>3, <1>4, <1>6, SideFacts
        <4> QED
          BY <1>2, <1>6, <3>1, <4>1, <4>2
      <3>2. CASE n # r
        <4>1. d[n] = {n} \cup d[e["left"][n]] \cup d[e["right"][n]] /\ n \in Places /\ n \in Pointers
          BY <1>1, NullFacts DEF Tree, IsBelow
        <4>2. e2["left"][n] = e["left"][n] /\ e2["right"][n] = e["right"][n]
          BY <1>0, <3>2, <4>1, SideFacts
        <4>3. /\ d2[e["left"][n]] = d[e["left"][n]] /\ d2[e["right"][n]] = d[e["right"][n]]
              /\ d2[n] = d[n]
          BY <1>3, <1>6, <3>2, <4>1, SideFacts
        <4> QED
          BY ONLY <4>1, <4>2, <4>3
      <3> QED
        BY <3>1, <3>2
    <2>2. \A n \in Keys : IsFiniteSet(d2[n])
      BY <1>1, <1>2, <1>5, <1>6, NullFacts
    <2> QED
      BY <1>6, <2>1, <2>2 DEF IsBelow
  <1>8. ASSUME NEW n \in Keys, NEW v \in Sides, NEW m \in d2[e2[v][n]] PROVE On(v, m, n)
    <2>1. CASE v = "right" /\ n = r
      <3>1. m \in d[h]
        BY <1>0, <1>1, <1>4, <1>6, <1>8, <2>1
      <3> QED
        BY <1>1, <1>2, <2>1, <3>1 DEF On
    <2>2. CASE ~(v = "right" /\ n = r)
      <3>1. e2[v][n] = e[v][n] /\ d2[e[v][n]] = d[e[v][n]]
        BY <1>0, <1>3, <1>6, <2>2, NullFacts
      <3> QED
        BY <1>1, <1>8, <3>1 DEF Tree, IsSorted
    <2> QED
      BY <2>1, <2>2
  <1>9. Tree(e2, d2)
    BY <1>7, <1>8 DEF Tree, IsSorted
  <1>10. \A z \in Sides : Part(e2, z) = Null
    BY <1>0, <1>1, SideFacts DEF Part
  <1>11. ASSUME NEW n \in Keys \ (d[r] \cup d[h]), NEW v \in Sides PROVE e2[v][n] = Null
    BY <1>0, <1>2, <1>3, NullFacts
  <1>12. Idle(e2, d2, r, Null)
    BY <1>1, <1>6, <1>9, <1>10, <1>11, NullFacts DEF Idle
  <1> QED
    BY <1>6, <1>12 DEF JoinsTo

-----------------------------------------------------------------------------
LEMMA EffIs ==
    ASSUME NEW c \in Linking, NEW tl
    PROVE  /\ Eff(c, tl) \in Linking
           /\ \A s \in Sides, n \in Places :
                 Eff(c, tl)[s][n] = IF n = tl[Other(s)] THEN Null ELSE c[s][n]
  BY NullFacts DEF Eff, Linking, Places

LEMMA UnlinkedIs ==
    ASSUME NEW c \in Linking, NEW k \in Places
    PROVE  /\ Unlinked(c, k) \in Linking
           /\ \A s \in Sides, n \in Places :
                 Unlinked(c, k)[s][n] = IF n = k THEN Null ELSE c[s][n]
  BY NullFacts DEF Unlinked, Linking

LEMMA SetLink ==
    ASSUME NEW c \in Linking, NEW s \in Sides, NEW k \in Places, NEW p \in Pointers
    PROVE  /\ [c EXCEPT ![s][k] = p] \in Linking
           /\ \A v \in Sides, n \in Places :
                 [c EXCEPT ![s][k] = p][v][n] = IF v = s /\ n = k THEN p ELSE c[v][n]
  BY DEF Linking

(* What SPLAY_ASSEMBLE writes, link by link                                *)
LEMMA AssembledIs ==
    ASSUME NEW t, NEW c \in Linking, t.child = c, NEW r \in Keys, t.root = r,
           tail \in [Sides -> Places], \A z \in Sides : tail[z] # r
    PROVE  /\ Assembled(t) \in Linking
           /\ \A s \in Sides, n \in Places :
                 n # Node =>
                   Assembled(t)[s][n] =
                     IF n = r THEN (IF tail[s] = Node THEN c[s][r] ELSE c[Other(s)][Node])
                     ELSE IF n = tail[Other(s)] THEN c[Other(s)][r] ELSE c[s][n]
  <1> DEFINE ended == [c EXCEPT !["right"][tail["left"]] = c["left"][r],
                                !["left"][tail["right"]] = c["right"][r]]
             ass == [ended EXCEPT !["left"][r] = ended["right"][Node],
                                  !["right"][r] = ended["left"][Node]]
  <1>1. Assembled(t) = ass
    BY DEF Assembled
  <1>2. /\ tail["left"] \in Places /\ tail["right"] \in Places
        /\ tail["left"] # r /\ tail["right"] # r
        /\ r \in Places /\ Node \in Places /\ r # Node
        /\ "left" \in Sides /\ "right" \in Sides /\ Sides = {"left", "right"}
        /\ Other("left") = "right" /\ Other("right") = "left"
    BY SideFacts, NullFacts
  <1>3. \A s \in Sides, n \in Places : c[s][n] \in Pointers
    BY LinkTypes
  <1>4. /\ ended \in Linking
        /\ \A n \in Places : ended["right"][n] = IF n = tail["left"] THEN c["left"][r] ELSE c["right"][n]
        /\ \A n \in Places : ended["left"][n] = IF n = tail["right"] THEN c["right"][r] ELSE c["left"][n]
    BY <1>2, <1>3 DEF Linking
  <1> HIDE DEF ended
  <1>5. \A s \in Sides, n \in Places : ended[s][n] \in Pointers
    BY <1>4, LinkTypes
  <1>6. /\ ass \in Linking
        /\ \A n \in Places : ass["right"][n] = IF n = r THEN ended["left"][Node] ELSE ended["right"][n]
        /\ \A n \in Places : ass["left"][n] = IF n = r THEN ended["right"][Node] ELSE ended["left"][n]
    BY <1>2, <1>4, <1>5 DEF Linking
  <1> HIDE DEF ass
  <1>7. ASSUME NEW n \in Places
        PROVE  /\ ass["left"][n] =
                     IF n = r THEN (IF tail["left"] = Node THEN c["left"][r] ELSE c["right"][Node])
                     ELSE IF n = tail["right"] THEN c["right"][r] ELSE c["left"][n]
               /\ ass["right"][n] =
                     IF n = r THEN (IF tail["right"] = Node THEN c["right"][r] ELSE c["left"][Node])
                     ELSE IF n = tail["left"] THEN c["left"][r] ELSE c["right"][n]
    BY <1>2, <1>4, <1>6
  <1> QED
    BY <1>1, <1>2, <1>6, <1>7

AssembledTo(e, d, r, h, e3, d3) ==
    /\ Idle(e3, d3, r, h) /\ d3[h] = d[h]
    /\ d3[r] = d[Part(e, "left")] \cup d[r] \cup d[Part(e, "right")]
    /\ \A z \in Sides : d3[e3[z][r]] = d[e[z][r]] \cup d[Part(e, z)]

LEMMA AssembleKeeps ==
    ASSUME NEW t, t.child \in Linking, t.root \in Keys, NEW d, NEW h,
           Forest(Eff(t.child, tail), d, t.root, h), Tails(Eff(t.child, tail), d, tail)
    PROVE  \E d3 : AssembledTo(Eff(t.child, tail), d, t.root, h,
                               Unlinked(Assembled(t), Node), d3)
  <1> SUFFICES ASSUME NEW c \in Linking, t.child = c, NEW r \in Keys, t.root = r,
                      NEW e, e = Eff(c, tail), Forest(e, d, r, h), Tails(e, d, tail),
                      NEW e3, e3 = Unlinked(Assembled(t), Node)
               PROVE  \E d3 : AssembledTo(e, d, r, h, e3, d3)
    OBVIOUS
  <1> DEFINE L == "left" R == "right"
             e1 == [y \in Sides |-> [n \in Places |->
                      IF y = R /\ n = Node THEN Null
                      ELSE IF y = R /\ n = tail[L] THEN e[L][r]
                      ELSE IF y = L /\ n = r
                           THEN (IF tail[L] = Node THEN e[L][r] ELSE Part(e, L))
                      ELSE e[y][n]]]
             tl1 == [tail EXCEPT ![L] = Node]
  <1>1. /\ e \in Linking /\ r \in Places /\ r # Node /\ Node \in Places
        /\ L \in Sides /\ R \in Sides /\ R = Other(L) /\ L = Other(R)
        /\ tail \in [Sides -> Places]
        /\ Part(e, L) = e[R][Node] /\ Part(e, R) = e[L][Node]
    BY NullFacts, SideFacts DEF Forest, Tree, Tails, Part
  <1>2. \A z \in Sides : tail[z] # r /\ tail[z] \in Places
    <2> SUFFICES ASSUME NEW z \in Sides PROVE tail[z] # r /\ tail[z] \in Places
      OBVIOUS
    <2>1. TailIs(e, d, r, h, z, tail[z], Other(z))
      BY TailFacts
    <2> QED
      BY <2>1 DEF TailIs
  <1>3. \A y \in Sides, n \in Places :
           e[y][n] \in Pointers /\ e[y][n] = IF n = tail[Other(y)] THEN Null ELSE c[y][n]
    BY EffIs, <1>1, LinkTypes
  <1>4. /\ Assembled(t) \in Linking
        /\ \A s \in Sides, n \in Places :
              n # Node =>
                Assembled(t)[s][n] =
                  IF n = r THEN (IF tail[s] = Node THEN c[s][r] ELSE c[Other(s)][Node])
                  ELSE IF n = tail[Other(s)] THEN c[Other(s)][r] ELSE c[s][n]
    BY <1>1, <1>2, AssembledIs
  <1>5. /\ e3 \in Linking
        /\ \A s \in Sides, n \in Places :
              e3[s][n] = IF n = Node THEN Null ELSE Assembled(t)[s][n]
    <2>1. Assembled(t) \in Linking /\ Node \in Places
      BY <1>1, <1>4
    <2> HIDE DEF e1, tl1
    <2> QED
      BY ONLY <2>1, UnlinkedIs, e3 = Unlinked(Assembled(t), Node)
  <1>6. /\ e1 \in Linking
        /\ \A y \in Sides, n \in Places :
              e1[y][n] = IF y = R /\ n = Node THEN Null
                         ELSE IF y = R /\ n = tail[L] THEN e[L][r]
                         ELSE IF y = L /\ n = r
                              THEN (IF tail[L] = Node THEN e[L][r] ELSE Part(e, L))
                         ELSE e[y][n]
    <2>1. e[L][r] \in Pointers /\ Part(e, L) \in Pointers /\ Null \in Pointers
      BY <1>1, <1>3, NullFacts
    <2> QED
      BY <1>3, <2>1 DEF Linking
  <1> HIDE DEF e1, tl1
  <1>7. Gathered(e, tail, r, L, R, e1)
    BY <1>6 DEF Gathered
  <1>8. PICK d2 : GatherIs(e, d, r, h, tail, L, R, e1, d2)
    <2> HIDE DEF L, R
    <2> QED
      BY <1>1, <1>6, <1>7, GatherKeeps
  <1>8a. /\ Forest(e1, d2, r, h)
         /\ Tails(e1, d2, tl1)
         /\ d2[r] = d[r] \cup d[Part(e, L)] /\ d2[h] = d[h]
         /\ Part(e1, L) = Null
         /\ d2[Part(e1, R)] = d[Part(e, R)]
         /\ d2[e1[L][r]] = d[e[L][r]] \cup d[Part(e, L)]
         /\ e1[R][r] = e[R][r] /\ d2[e[R][r]] = d[e[R][r]]
    BY <1>8 DEF GatherIs, tl1
  <1>9. tl1[R] = tail[R] /\ L # R
    BY <1>1 DEF tl1
  <1>10. Part(e1, R) = e1[L][Node] /\ e1[L][Node] = e[L][Node]
    BY <1>1, <1>6, <1>9 DEF Part
  <1>11. ASSUME NEW y \in Sides, NEW n \in Places
         PROVE  e3[y][n] = IF y = L /\ n = Node THEN Null
                           ELSE IF y = L /\ n = tl1[R] THEN e1[R][r]
                           ELSE IF y = R /\ n = r
                                THEN (IF tl1[R] = Node THEN e1[R][r] ELSE Part(e1, R))
                           ELSE e1[y][n]
    <2>1. y = L \/ y = R
      BY SideFacts
    <2>2. CASE n = Node
      BY <1>1, <1>5, <1>6, <1>9, <2>1, <2>2
    <2>3. CASE n = r /\ y = L
      <3>1. e3[y][n] = IF tail[L] = Node THEN c[L][r] ELSE c[R][Node]
        BY <1>1, <1>4, <1>5, <2>3
      <3>2. e1[L][r] = IF tail[L] = Node THEN e[L][r] ELSE e[R][Node]
        BY <1>1, <1>6, <1>9
      <3>3. e[L][r] = c[L][r] /\ (tail[L] # Node => e[R][Node] = c[R][Node])
        BY <1>1, <1>2, <1>3
      <3> QED
        BY <1>1, <1>2, <1>9, <2>3, <3>1, <3>2, <3>3
    <2>4. CASE n = r /\ y = R
      <3>1. e3[y][n] = IF tail[R] = Node THEN c[R][r] ELSE c[L][Node]
        BY <1>1, <1>4, <1>5, <2>4
      <3>2. e[R][r] = c[R][r] /\ (tail[R] # Node => e[L][Node] = c[L][Node])
        BY <1>1, <1>2, <1>3
      <3> QED
        BY <1>1, <1>8a, <1>9, <1>10, <2>4, <3>1, <3>2
    <2>5. CASE n # Node /\ n # r /\ y = L
      <3>1. e3[y][n] = IF n = tail[R] THEN c[R][r] ELSE c[L][n]
        BY <1>1, <1>4, <1>5, <2>5
      <3>2. e1[L][n] = e[L][n] /\ e1[R][r] = c[R][r] /\ (n # tail[R] => e[L][n] = c[L][n])
        BY <1>1, <1>2, <1>3, <1>6, <1>8a, <1>9, <2>5
      <3> QED
        BY <1>1, <1>9, <2>5, <3>1, <3>2
    <2>6. CASE n # Node /\ n # r /\ y = R
      <3>1. e3[y][n] = IF n = tail[L] THEN c[L][r] ELSE c[R][n]
        BY <1>1, <1>4, <1>5, <2>6
      <3>2. e1[R][n] = (IF n = tail[L] THEN c[L][r] ELSE c[R][n])
        BY <1>1, <1>2, <1>3, <1>6, <1>9, <2>6
      <3> QED
        BY <1>1, <1>9, <2>6, <3>1, <3>2
    <2> QED
      BY <2>1, <2>2, <2>3, <2>4, <2>5, <2>6
  <1>12. Gathered(e1, tl1, r, R, L, e3)
    BY <1>11 DEF Gathered
  <1>13. PICK d3 : GatherIs(e1, d2, r, h, tl1, R, L, e3, d3)
    <2> HIDE DEF L, R
    <2> QED
      BY <1>1, <1>5, <1>8a, <1>12, GatherKeeps
  <1>13a. /\ Forest(e3, d3, r, h)
          /\ d3[r] = d2[r] \cup d2[Part(e1, R)] /\ d3[h] = d2[h]
          /\ d3[e3[R][r]] = d2[e1[R][r]] \cup d2[Part(e1, R)]
          /\ e3[L][r] = e1[L][r] /\ d3[e1[L][r]] = d2[e1[L][r]]
    BY <1>13 DEF GatherIs
  <1>14. \A z \in Sides : Part(e3, z) = Null
    BY <1>1, <1>5, SideFacts DEF Part
  <1>15. Idle(e3, d3, r, h)
    BY <1>13a, <1>14, IdleIs
  <1>16. \A z \in Sides : d3[e3[z][r]] = d[e[z][r]] \cup d[Part(e, z)]
    BY <1>8a, <1>13a, SideFacts
  <1>17. d3[r] = d[Part(e, "left")] \cup d[r] \cup d[Part(e, "right")] /\ d3[h] = d[h]
    BY <1>8a, <1>13a
  <1> QED
    BY <1>15, <1>16, <1>17 DEF AssembledTo

-----------------------------------------------------------------------------
(* What the running operation looks for                                    *)
Looking == running /\ op \in Ops /\ (op \notin {"min", "max"} => key \in Keys)

LEMMA TowardFacts ==
    ASSUME Looking
    PROVE  /\ \A n \in Keys : Toward(n) \in Sides \cup {"here"} /\ "here" \notin Sides
           /\ \A n \in Keys : Toward(n) = "here" <=> op \notin {"min", "max"} /\ n = key
           /\ \A s \in Sides, m, n \in Keys :
                 Toward(n) = s /\ On(Other(s), m, n) => Toward(m) = s
           /\ \A s \in Sides, m, n \in Keys :
                 Toward(n) = "here" /\ On(s, m, n) => Toward(m) = Other(s)
           /\ op \notin {"min", "max"} =>
                 /\ key \in Keys
                 /\ \A n \in Keys, s \in Sides : Toward(n) = s <=> On(s, key, n)
           /\ op = "min" => \A n \in Keys : Toward(n) = "left"
           /\ op = "max" => \A n \in Keys : Toward(n) = "right"
  <1>1. CASE op = "min"
    <2>1. \A n \in Keys : Toward(n) = "left"
      BY <1>1 DEF Toward
    <2> QED
      BY <1>1, <2>1, OrderFacts, SideFacts
  <1>2. CASE op = "max"
    <2>1. \A n \in Keys : Toward(n) = "right"
      BY <1>2 DEF Toward
    <2> QED
      BY <1>2, <2>1, OrderFacts, SideFacts
  <1>3. CASE op \notin {"min", "max"}
    <2>1. key \in Keys /\ op # "min" /\ op # "max"
      BY <1>3 DEF Looking
    <2>2. \A n \in Keys : Toward(n) = IF key < n THEN "left" ELSE IF key > n THEN "right" ELSE "here"
      BY <2>1 DEF Toward
    <2>3. \A n \in Keys : /\ Toward(n) = "left" <=> key < n
                          /\ Toward(n) = "right" <=> n < key
                          /\ Toward(n) = "here" <=> n = key
      <3> SUFFICES ASSUME NEW n \in Keys
                   PROVE  /\ Toward(n) = "left" <=> key < n
                          /\ Toward(n) = "right" <=> n < key
                          /\ Toward(n) = "here" <=> n = key
        OBVIOUS
      <3>1. key \in Int /\ n \in Int
        BY <2>1, KeysAreIntegers
      <3>2. CASE key < n
        BY <2>2, <3>1, <3>2
      <3>3. CASE n < key
        BY <2>2, <3>1, <3>3
      <3>4. CASE n = key
        BY <2>2, <3>1, <3>4
      <3> QED
        BY <3>1, <3>2, <3>3, <3>4
    <2>4. \A n \in Keys, s \in Sides : Toward(n) = s <=> On(s, key, n)
      BY <2>1, <2>3 DEF Sides, On
    <2>5. \A s \in Sides, m, n \in Keys : On(s, key, n) /\ On(Other(s), m, n) => On(s, key, m)
      BY <2>1, OrderFacts, SideFacts
    <2>6. \A s \in Sides, m, n \in Keys : n = key /\ On(s, m, n) => On(Other(s), key, m)
      BY <2>1, OrderFacts, SideFacts
    <2>7. \A n \in Keys : Toward(n) \in Sides \cup {"here"}
      BY <2>2 DEF Sides
    <2> QED
      BY <1>3, <2>1, <2>3, <2>4, <2>5, <2>6, <2>7, SideFacts
  <1> QED
    BY <1>1, <1>2, <1>3

LEMMA LinksIs == Links = Eff(child, tail)
  BY DEF Links, Eff

(* The first of two steps to the same side rotates the child up, if it     *)
(* does; what is then on the root and not beyond it has been passed by.    *)
LEMMA TurnedIs ==
    ASSUME Looking, child \in Linking, root \in Keys, NEW d,
           Forest(Links, d, root, held), Tails(Links, d, tail),
           NEW s \in Sides, Toward(root) = s,
           NEW c, c = Turned(s).child, NEW r, r = Turned(s).root
    PROVE  /\ c \in Linking /\ r \in Keys /\ Toward(r) = s
           /\ \E d2 : /\ Forest(Eff(c, tail), d2, r, held)
                      /\ Tails(Eff(c, tail), d2, tail)
                      /\ d2[r] = d[root] /\ d2[held] = d[held]
                      /\ \A y \in Sides : d2[Part(Eff(c, tail), y)] = d[Part(Links, y)]
                      /\ Eff(c, tail)[s][r] = c[s][r]
                      /\ \A m \in d2[r] \ d2[c[s][r]] : Toward(m) = s
  <1> DEFINE o == Other(s)
             tmp == child[s][root]
             e == Links
             turns == tmp # Null /\ Toward(tmp) = s
  <1>1. /\ e \in Linking /\ Tree(e, d) /\ o \in Sides /\ o # s /\ s = Other(o)
        /\ root \in Places /\ root \in Pointers /\ tmp \in Pointers
        /\ tail \in [Sides -> Places]
    BY SideFacts, NullFacts, LinkTypes DEF Forest, Tree, Tails
  <1>2. \A y \in Sides : tail[y] \notin d[root] /\ tail[y] # root
    <2> SUFFICES ASSUME NEW y \in Sides PROVE tail[y] \notin d[root] /\ tail[y] # root
      OBVIOUS
    <2>1. TailIs(e, d, root, held, y, tail[y], Other(y))
      BY TailFacts
    <2> QED
      BY <2>1 DEF TailIs
  <1>3. \A y \in Sides, n \in Places : e[y][n] = IF n = tail[Other(y)] THEN Null ELSE child[y][n]
    BY LinksIs, EffIs
  <1>4. e[s][root] = tmp
    BY <1>1, <1>2, <1>3
  <1>5. \A n \in Keys, y \in Sides : n \notin d[e[y][n]] /\ d[e[y][n]] \subseteq d[n]
    BY <1>1, BelowFacts
  <1>6. CASE ~turns
    <2>1. c = child /\ r = root
      BY <1>6 DEF Turned
    <2>2. Eff(c, tail) = e
      BY <2>1, LinksIs
    <2>3. ASSUME NEW m \in d[root] \ d[tmp] PROVE Toward(m) = s
      <3>1. m = root \/ m \in d[e[o][root]]
        BY <1>1, <1>4, <2>3, BelowFacts
      <3>2. m \in d[e[o][root]] => On(o, m, root) /\ m \in Keys
        BY <1>1, LinkTypes, BelowFacts DEF Tree, IsSorted
      <3> QED
        BY <3>1, <3>2, TowardFacts
    <2> QED
      BY <1>4, <2>1, <2>2, <2>3
  <1>7. CASE turns
    <2>1. tmp \in Keys /\ Toward(tmp) = s /\ tmp \in Places
      BY <1>1, <1>7, NullFacts
    <2>2. /\ r = tmp
          /\ c = [child EXCEPT ![s][root] = child[o][tmp], ![o][tmp] = root]
      BY <1>7 DEF Turned, Rotated
    <2>3. child[o][tmp] \in Pointers
      BY <1>1, <2>1, LinkTypes
    <2>4. /\ c \in Linking
          /\ \A y \in Sides, n \in Places :
                c[y][n] = IF y = s /\ n = root THEN child[o][tmp]
                          ELSE IF y = o /\ n = tmp THEN root ELSE child[y][n]
      <3> HIDE DEF o, tmp
      <3> QED
        BY ONLY <1>1, <2>1, <2>2, <2>3, child \in Linking, s \in Sides DEF Linking
    <2>5. /\ Eff(c, tail) \in Linking
          /\ \A y \in Sides, n \in Places :
                Eff(c, tail)[y][n] = IF n = tail[Other(y)] THEN Null ELSE c[y][n]
      BY <2>4, EffIs
    <2>6. tmp \in d[root] /\ \A y \in Sides : tail[y] # tmp
      <3>1. tmp \in d[tmp] /\ d[tmp] \subseteq d[root]
        BY <1>1, <1>4, <1>5, <2>1, BelowFacts
      <3> QED
        BY <1>2, <3>1
    <2>7. e[o][tmp] = child[o][tmp]
      BY <1>1, <1>3, <2>1, <2>6
    <2>8. \A y \in Sides, n \in Places :
             Eff(c, tail)[y][n] = IF y = s /\ n = root THEN e[o][tmp]
                                  ELSE IF y = o /\ n = tmp THEN root ELSE e[y][n]
      BY <1>1, <1>2, <1>3, <2>4, <2>5, <2>6, <2>7, SideFacts
    <2> DEFINE e2 == Eff(c, tail)
    <2>9. Rotates(e, root, s, e2)
      BY <1>4, <2>8 DEF Rotates
    <2> HIDE DEF e2
    <2>10. PICK d2 : RotatesTo(e, d, root, held, tail, s, e2, d2)
      <3> HIDE DEF o, tmp, e
      <3>1. e[s][root] \in Keys /\ e2 \in Linking
        BY <1>4, <2>1, <2>5 DEF e2
      <3>2. Forest(e, d, root, held) /\ Tails(e, d, tail)
        BY DEF e
      <3> QED
        BY ONLY <2>9, <3>1, <3>2, RotateKeeps, root \in Keys, s \in Sides
    <2>10a. /\ Forest(e2, d2, tmp, held)
            /\ Tails(e2, d2, tail)
            /\ d2[tmp] = d[root] /\ d2[held] = d[held]
            /\ \A y \in Sides : d2[Part(e2, y)] = d[Part(e, y)]
      BY <1>4, <2>10 DEF RotatesTo
    <2>11. e2[s][tmp] = c[s][tmp]
      BY <1>1, <2>1, <2>5, <2>6 DEF e2
    <2>12. ASSUME NEW m \in d2[tmp] \ d2[c[s][tmp]] PROVE Toward(m) = s
      <3>1. Tree(e2, d2)
        BY <2>10a DEF Forest
      <3>2. m = tmp \/ m \in d2[e2[o][tmp]]
        BY <1>1, <2>1, <2>11, <2>12, <3>1, BelowFacts
      <3>3. m \in d2[e2[o][tmp]] => On(o, m, tmp) /\ m \in Keys
        BY <1>1, <2>1, <2>5, <3>1, LinkTypes, BelowFacts DEF Tree, IsSorted, e2
      <3> QED
        BY <2>1, <3>2, <3>3, TowardFacts
    <2> QED
      BY <2>1, <2>2, <2>4, <2>10a, <2>11, <2>12 DEF e2
  <1> QED
    BY <1>6, <1>7

-----------------------------------------------------------------------------
(* What has been passed by lies away from where the search goes.           *)
Searching(e, d) == \A z \in Sides : \A m \in d[Part(e, z)] : Toward(m) = Other(z)

(* The tree when the loop has been left and the parts are put together     *)
SplayedTo(d, r, c, d2) ==
    LET e2 == Unlinked(c, Node)
    IN /\ r \in Keys /\ c \in Linking
       /\ Idle(e2, d2, r, held) /\ d2[held] = d[held]
       /\ d2[r] = d[Part(Links, "left")] \cup d[root] \cup d[Part(Links, "right")]
       /\ \A z \in Sides : \A m \in d2[e2[z][r]] : Toward(m) = Other(z)

LEMMA SplayedIs ==
    ASSUME Looking, child \in Linking, root \in Keys, NEW d,
           Forest(Links, d, root, held), Tails(Links, d, tail), Searching(Links, d),
           Toward(root) # "here" => Stuck(Toward(root))
    PROVE  \E d2 : SplayedTo(d, Splayed.root, Splayed.child, d2)
  <1> DEFINE t == IF Toward(root) = "here" THEN [root |-> root, child |-> child]
                  ELSE Turned(Toward(root))
  <1>1. Splayed.root = t.root /\ Splayed.child = Assembled(t)
    BY DEF Splayed
  <1> HIDE DEF t
  <1>2. PICK d1 : /\ t.child \in Linking /\ t.root \in Keys
                  /\ Forest(Eff(t.child, tail), d1, t.root, held)
                  /\ Tails(Eff(t.child, tail), d1, tail)
                  /\ d1[t.root] = d[root] /\ d1[held] = d[held]
                  /\ \A y \in Sides : d1[Part(Eff(t.child, tail), y)] = d[Part(Links, y)]
                  /\ \A z \in Sides : \A m \in d1[Eff(t.child, tail)[z][t.root]] :
                        Toward(m) = Other(z)
    <2>1. CASE Toward(root) = "here"
      <3>1. t.root = root /\ t.child = child
        BY <2>1 DEF t
      <3>2. Eff(t.child, tail) = Links
        BY <3>1, LinksIs
      <3>3. ASSUME NEW z \in Sides, NEW m \in d[Links[z][root]] PROVE Toward(m) = Other(z)
        <4>1. On(z, m, root) /\ m \in Keys
          BY <3>3, LinkTypes, BelowFacts DEF Forest, Tree, IsSorted
        <4> QED
          BY <2>1, <4>1, TowardFacts
      <3> QED
        BY <3>1, <3>2, <3>3
    <2>2. CASE Toward(root) # "here"
      <3> DEFINE s == Toward(root)
                 o == Other(s)
                 e1 == Eff(t.child, tail)
      <3>1. s \in Sides /\ Stuck(s) /\ t = Turned(s) /\ Toward(root) = s
        BY <2>2, TowardFacts DEF t
      <3>2. t.child[s][t.root] = Null
        BY <3>1 DEF Stuck
      <3> HIDE DEF s
      <3>3. PICK d1 : /\ t.child \in Linking /\ t.root \in Keys
                      /\ Forest(Eff(t.child, tail), d1, t.root, held)
                      /\ Tails(Eff(t.child, tail), d1, tail)
                      /\ d1[t.root] = d[root] /\ d1[held] = d[held]
                      /\ \A y \in Sides : d1[Part(Eff(t.child, tail), y)] = d[Part(Links, y)]
                      /\ Eff(t.child, tail)[s][t.root] = t.child[s][t.root]
                      /\ \A m \in d1[t.root] \ d1[t.child[s][t.root]] : Toward(m) = s
        <4>1. /\ Turned(s).child \in Linking /\ Turned(s).root \in Keys
              /\ \E d1 : /\ Forest(Eff(Turned(s).child, tail), d1, Turned(s).root, held)
                         /\ Tails(Eff(Turned(s).child, tail), d1, tail)
                         /\ d1[Turned(s).root] = d[root] /\ d1[held] = d[held]
                         /\ \A y \in Sides :
                               d1[Part(Eff(Turned(s).child, tail), y)] = d[Part(Links, y)]
                         /\ Eff(Turned(s).child, tail)[s][Turned(s).root]
                               = Turned(s).child[s][Turned(s).root]
                         /\ \A m \in d1[Turned(s).root]
                                      \ d1[Turned(s).child[s][Turned(s).root]] : Toward(m) = s
          BY <3>1, TurnedIs
        <4> QED
          BY ONLY <3>1, <4>1
      <3>4. Tree(e1, d1)
        BY <3>3 DEF Forest
      <3>5. d1[e1[s][t.root]] = {} /\ d1[t.child[s][t.root]] = {}
        BY <3>2, <3>3, <3>4, BelowFacts
      <3>6. d1[e1[o][t.root]] \subseteq d1[t.root]
        BY <3>1, <3>3, <3>4, BelowFacts, SideFacts
      <3>7. \A m \in d1[e1[o][t.root]] : Toward(m) = s
        BY <3>3, <3>5, <3>6
      <3> QED
        BY <3>1, <3>3, <3>5, <3>7, SideFacts
    <2> QED
      BY <2>1, <2>2
  <1>3. PICK d2 : AssembledTo(Eff(t.child, tail), d1, t.root, held,
                              Unlinked(Assembled(t), Node), d2)
    BY <1>2, AssembleKeeps
  <1>3a. /\ Idle(Unlinked(Assembled(t), Node), d2, t.root, held) /\ d2[held] = d1[held]
         /\ d2[t.root] = d1[Part(Eff(t.child, tail), "left")] \cup d1[t.root]
                            \cup d1[Part(Eff(t.child, tail), "right")]
         /\ \A z \in Sides :
               d2[Unlinked(Assembled(t), Node)[z][t.root]]
                 = d1[Eff(t.child, tail)[z][t.root]] \cup d1[Part(Eff(t.child, tail), z)]
    BY <1>3 DEF AssembledTo
  <1>4. Assembled(t) \in Linking
    <2>1. \A z \in Sides : tail[z] # t.root
      <3> SUFFICES ASSUME NEW z \in Sides PROVE tail[z] # t.root
        OBVIOUS
      <3>1. TailIs(Eff(t.child, tail), d1, t.root, held, z, tail[z], Other(z))
        BY <1>2, TailFacts
      <3> QED
        BY <3>1 DEF TailIs
    <2>2. tail \in [Sides -> Places]
      BY DEF Tails
    <2> QED
      BY <1>2, <2>1, <2>2, AssembledIs
  <1>5. d2[t.root] = d[Part(Links, "left")] \cup d[root] \cup d[Part(Links, "right")]
    BY <1>2, <1>3a, SideFacts
  <1>6. ASSUME NEW z \in Sides, NEW m \in d2[Unlinked(Assembled(t), Node)[z][t.root]]
        PROVE  Toward(m) = Other(z)
    BY <1>2, <1>3a, <1>6 DEF Searching
  <1>7. SplayedTo(d, t.root, Assembled(t), d2)
    BY <1>2, <1>3a, <1>4, <1>5, <1>6 DEF SplayedTo
  <1> QED
    BY <1>1, <1>7

(* What the root of the splayed tree says of the element that was looked   *)
(* for and of its neighbours.                                              *)
LEMMA TopAnswers ==
    ASSUME Looking, NEW d, NEW r, NEW c, NEW d2, SplayedTo(d, r, c, d2), NEW T, T = d2[r]
    PROVE  /\ r \in T /\ T \subseteq Keys
           /\ op \notin {"min", "max"} =>
                 /\ Toward(r) = "here" <=> key \in T
                 /\ Toward(r) = "here" <=> r = key
                 /\ Toward(r) = "left" => key < r /\ \A m \in T : m > key => r <= m
                 /\ Toward(r) = "right" => r < key /\ \A m \in T : m < key => m <= r
           /\ op = "min" => \A m \in T : r <= m
           /\ op = "max" => \A m \in T : m <= r
  <1> DEFINE e2 == Unlinked(c, Node)
             a == e2["left"][r]
             b == e2["right"][r]
  <1>1. r \in Keys /\ Tree(e2, d2)
    BY DEF SplayedTo, Idle
  <1>2. T = {r} \cup d2[a] \cup d2[b]
    BY <1>1 DEF Tree, IsBelow
  <1>3. /\ \A m \in d2[a] : Toward(m) = "right"
        /\ \A m \in d2[b] : Toward(m) = "left"
    BY SideFacts DEF SplayedTo
  <1>4. /\ \A m \in d2[a] : On("left", m, r)
        /\ \A m \in d2[b] : On("right", m, r)
    BY <1>1, SideFacts DEF Tree, IsSorted
  <1>5. r \in Pointers /\ d2[r] \subseteq Keys
    BY <1>1, BelowFacts, NullFacts
  <1> HIDE DEF e2, a, b
  <1>6. /\ \A m \in d2[a] : m \in Keys /\ m < r
        /\ \A m \in d2[b] : m \in Keys /\ r < m
    BY <1>1, <1>2, <1>4, <1>5, OrderFacts
  <1>7. r \in Int /\ \A m \in T : m \in Int
    BY <1>1, <1>5, KeysAreIntegers
  <1>8. ASSUME op \notin {"min", "max"}
        PROVE  /\ Toward(r) = "here" <=> key \in T
               /\ Toward(r) = "here" <=> r = key
               /\ Toward(r) = "left" => key < r /\ \A m \in T : m > key => r <= m
               /\ Toward(r) = "right" => r < key /\ \A m \in T : m < key => m <= r
    <2>1. key \in Keys /\ key \in Int
      BY <1>8, KeysAreIntegers DEF Looking
    <2>2. Toward(r) = "here" <=> r = key
      BY <1>1, <1>8, TowardFacts
    <2>3. /\ \A n \in Keys : Toward(n) = "left" <=> key < n
          /\ \A n \in Keys : Toward(n) = "right" <=> n < key
      BY <1>8, <2>1, TowardFacts, SideFacts, OrderFacts
    <2>4. /\ \A m \in d2[a] : m \in Int /\ m < key
          /\ \A m \in d2[b] : m \in Int /\ key < m
      BY <1>3, <1>6, <2>3, KeysAreIntegers
    <2>5. key \in T => r = key
      BY <1>2, <2>1, <2>4
    <2>6. Toward(r) = "left" => key < r /\ \A m \in T : m > key => r <= m
      BY <1>1, <1>2, <1>6, <1>7, <2>1, <2>3, <2>4
    <2>7. Toward(r) = "right" => r < key /\ \A m \in T : m < key => m <= r
      BY <1>1, <1>2, <1>6, <1>7, <2>1, <2>3, <2>4
    <2> QED
      BY <1>2, <2>2, <2>5, <2>6, <2>7
  <1>9. ASSUME op = "min" PROVE \A m \in T : r <= m
    <2>1. d2[a] = {}
      BY <1>3, <1>6, <1>9, TowardFacts
    <2> QED
      BY <1>2, <1>6, <1>7, <2>1
  <1>10. ASSUME op = "max" PROVE \A m \in T : m <= r
    <2>1. d2[b] = {}
      BY <1>3, <1>6, <1>10, TowardFacts
    <2> QED
      BY <1>2, <1>6, <1>7, <2>1
  <1> QED
    BY <1>2, <1>5, <1>8, <1>9, <1>10

-----------------------------------------------------------------------------
(* The answers of an ordered set are unique.                               *)
LEMMA LeastIs ==
    ASSUME NEW S, S \subseteq Keys
    PROVE  /\ S = {} => Ordered!Least(S) = Null /\ Ordered!Greatest(S) = Null
           /\ \A x \in S : /\ (\A j \in S : x <= j) => Ordered!Least(S) = x
                           /\ (\A j \in S : j <= x) => Ordered!Greatest(S) = x
  <1>1. ASSUME NEW x \in S, \A j \in S : x <= j PROVE Ordered!Least(S) = x
    <2> DEFINE y == CHOOSE k \in S : \A j \in S : k <= j
    <2>1. y \in S /\ \A j \in S : y <= j
      BY <1>1
    <2>2. x <= y /\ y <= x /\ x \in Int /\ y \in Int
      BY <1>1, <2>1, KeysAreIntegers
    <2>3. x = y
      BY ONLY <2>2
    <2> QED
      BY <2>3 DEF Ordered!Least
  <1>2. ASSUME NEW x \in S, \A j \in S : j <= x PROVE Ordered!Greatest(S) = x
    <2> DEFINE y == CHOOSE k \in S : \A j \in S : j <= k
    <2>1. y \in S /\ \A j \in S : j <= y
      BY <1>2
    <2>2. x <= y /\ y <= x /\ x \in Int /\ y \in Int
      BY <1>2, <2>1, KeysAreIntegers
    <2>3. x = y
      BY ONLY <2>2
    <2> QED
      BY <2>3 DEF Ordered!Greatest
  <1> QED
    BY <1>1, <1>2 DEF Ordered!Least, Ordered!Greatest

(* The walk to the left of SPLAY_NEXT ends at the smallest of a subtree.   *)
LEMMA LeftmostIs ==
    ASSUME NEW e, NEW d, Tree(e, d), NEW c, \A n \in Keys : c["left"][n] = e["left"][n]
    PROVE  /\ Leftmost(c, Null) = Null
           /\ \A n \in Keys : /\ Leftmost(c, n) \in d[n]
                              /\ \A m \in d[n] : Leftmost(c, n) <= m
  <1> DEFINE low(n) == CHOOSE x \in d[n] : \A k \in d[n] : x <= k
             IsLow(x, n) == x \in d[n] /\ \A k \in d[n] : x <= k
             L == e["left"]
             Body(f) == [m \in Pointers |-> IF m = Null \/ c["left"][m] = Null THEN m
                                            ELSE f[c["left"][m]]]
             w == [m \in Pointers |-> IF m = Null THEN Null ELSE low(m)]
             down == CHOOSE f : f = Body(f)
  <1>1. /\ \A n \in Keys : L[n] \in Pointers /\ d[n] \subseteq Keys /\ n \in d[n]
        /\ \A n \in Keys : d[L[n]] \subseteq d[n]
        /\ \A n \in Keys : \A k \in d[n] : k \in d[L[n]] \/ n <= k
        /\ \A n \in Keys : \A k \in d[L[n]] : k < n
        /\ d[Null] = {}
        /\ \A n \in Pointers : \A k \in d[n] : k \in Int /\ n \in Int
    <2>1. ASSUME NEW n \in Keys, NEW k \in d[n] PROVE k \in d[L[n]] \/ n <= k
      <3>1. k = n \/ k \in d[L[n]] \/ k \in d[e["right"][n]]
        BY <2>1, BelowFacts, SideFacts
      <3>2. k \in d[e["right"][n]] => n < k
        BY SideFacts DEF Tree, IsSorted, On
      <3>3. n \in Int /\ k \in Int
        BY <2>1, BelowFacts, NullFacts, KeysAreIntegers
      <3> QED
        BY <3>1, <3>2, <3>3
    <2>2. \A n \in Keys : \A k \in d[L[n]] : k < n
      BY SideFacts DEF Tree, IsSorted, On
    <2>3. \A n \in Pointers : \A k \in d[n] : k \in Int /\ n \in Int
      BY BelowFacts, KeysAreIntegers
    <2> QED
      BY <2>1, <2>2, <2>3, BelowFacts, LinkTypes, SideFacts, NullFacts DEF Tree
  <1> HIDE DEF L
  <1>2. ASSUME NEW n \in Keys, L[n] = Null, NEW x PROVE IsLow(x, n) <=> x = n
    BY <1>1, <1>2, NullFacts
  <1>3. ASSUME NEW n \in Keys, L[n] # Null, NEW x PROVE IsLow(x, n) <=> IsLow(x, L[n])
    <2>1. L[n] \in Keys /\ L[n] \in Pointers /\ n \in Pointers
      BY <1>1, <1>3, NullFacts
    <2>2. ASSUME IsLow(x, L[n]), NEW k \in d[n] PROVE x <= k
      <3>1. x \in Int /\ n \in Int /\ k \in Int /\ x < n
        BY <1>1, <2>1, <2>2
      <3>2. k \in d[L[n]] \/ n <= k
        BY <1>1
      <3> QED
        BY <2>2, <3>1, <3>2
    <2>3. ASSUME IsLow(x, n) PROVE x \in d[L[n]]
      <3>1. x <= L[n] /\ L[n] < n /\ x \in Int /\ n \in Int /\ L[n] \in Int
        BY <1>1, <2>1, <2>3
      <3>2. x \in d[L[n]] \/ n <= x
        BY <1>1, <2>3
      <3> QED
        BY <3>1, <3>2
    <2> QED
      BY <1>1, <2>2, <2>3
  <1>4. \A n \in Keys : \E x : IsLow(x, n)
    <2> DEFINE B == {n \in Keys : ~\E x : IsLow(x, n)}
    <2>1. ASSUME B # {} PROVE FALSE
      <3>1. PICK n \in B : \A s \in Sides : e[s][n] \notin B
        BY <2>1, LowestNode
      <3>2. L[n] \notin B
        BY <3>1, SideFacts DEF L
      <3> HIDE DEF IsLow
      <3>3. L[n] # Null
        BY <1>2, <3>1
      <3>4. \E x : IsLow(x, L[n])
        BY <1>1, <3>1, <3>2, <3>3, NullFacts
      <3> QED
        BY <1>3, <3>1, <3>3, <3>4
    <2> QED
      BY <2>1
  <1>5. \A n \in Keys : IsLow(low(n), n)
    BY <1>4
  <1>6. ASSUME NEW n \in Keys, NEW x, IsLow(x, n) PROVE low(n) = x
    <2>1. low(n) <= x /\ x <= low(n) /\ x \in Int /\ low(n) \in Int
      BY <1>1, <1>5, <1>6, NullFacts
    <2> QED
      BY ONLY <2>1
  <1> HIDE DEF low, IsLow
  <1>7. ASSUME NEW n \in Keys
        PROVE  low(n) = IF L[n] = Null THEN n ELSE low(L[n])
    <2>1. CASE L[n] = Null
      BY <1>2, <1>6, <2>1
    <2>2. CASE L[n] # Null
      BY <1>1, <1>3, <1>5, <1>6, <2>2, NullFacts
    <2> QED
      BY <2>1, <2>2
  <1>8. \A n \in Keys : c["left"][n] = L[n]
    BY DEF L
  <1>9. w = Body(w)
    <2>1. \A m \in Pointers : w[m] = Body(w)[m]
      BY <1>1, <1>7, <1>8, NullFacts
    <2> QED
      BY <2>1
  <1>10. down = Body(down)
    <2> HIDE DEF w
    <2> QED
      BY <1>9
  <1> HIDE DEF down
  <1>11. /\ down[Null] = Null
         /\ \A n \in Keys : down[n] = IF L[n] = Null THEN n ELSE down[L[n]]
    BY <1>8, <1>10, NullFacts
  <1>12. \A n \in Keys : down[n] = low(n)
    <2> DEFINE B == {n \in Keys : down[n] # low(n)}
    <2>1. ASSUME B # {} PROVE FALSE
      <3>1. PICK n \in B : \A s \in Sides : e[s][n] \notin B
        BY <2>1, LowestNode
      <3>2. L[n] \notin B
        BY <3>1, SideFacts DEF L
      <3> QED
        BY <1>1, <1>7, <1>11, <3>1, <3>2, NullFacts
    <2> QED
      BY <2>1
  <1>13. \A n : Leftmost(c, n) = down[n]
    BY DEF Leftmost, down
  <1> QED
    BY <1>5, <1>11, <1>12, <1>13 DEF IsLow

-----------------------------------------------------------------------------
(* The invariant: the links, but for those at the tails, make a forest.    *)
Good(d) ==
    /\ Forest(Links, d, root, held)
    /\ Tails(Links, d, tail)
    /\ running => Searching(Links, d)
    /\ op = "rejoin" =>
          /\ \A m \in d[Part(Links, "left")] \cup d[root] \cup d[Part(Links, "right")] : m < key
          /\ \A m \in d[held] : key < m

SplayInv ==
    /\ child \in Linking /\ op \in Ops /\ key \in Pointers /\ result \in Pointers
    /\ running => root \in Keys /\ (op \notin {"min", "max"} => key \in Keys)
    /\ ~running => tail = NoTails /\ key = Null
    /\ op # "rejoin" => held = Null
    /\ op = "next" => key \in KeysIn
    /\ \E d : Good(d)

LEMMA KeysOf ==
    ASSUME NEW e, NEW d, NEW r, NEW h, Forest(e, d, r, h)
    PROVE  /\ \A n \in Pointers : Under(e)[n] = d[n]
           /\ Under(e)[e["right"][Node]] = d[Part(e, "left")]
           /\ Under(e)[e["left"][Node]] = d[Part(e, "right")]
           /\ Under(e)[r] \cup Under(e)[e["right"][Node]] \cup Under(e)[e["left"][Node]]
                 \cup Under(e)[h] = All(e, d, r, h)
  <1>1. /\ Tree(e, d) /\ r \in Pointers /\ h \in Pointers
        /\ \A z \in Sides : Part(e, z) \in Pointers
    BY LinkTypes DEF Forest, Tree
  <1>2. \A n \in Pointers : Under(e)[n] = d[n]
    BY <1>1, UnderIs
  <1>3. e["right"][Node] = Part(e, "left") /\ e["left"][Node] = Part(e, "right")
    BY SideFacts DEF Part
  <1>4. /\ Under(e)[e["right"][Node]] = d[Part(e, "left")]
        /\ Under(e)[e["left"][Node]] = d[Part(e, "right")]
    BY <1>1, <1>2, <1>3, SideFacts
  <1>5. Under(e)[r] = d[r] /\ Under(e)[h] = d[h]
    BY <1>1, <1>2
  <1> QED
    BY <1>2, <1>4, <1>5 DEF All

LEMMA KeysAre ==
    ASSUME NEW d, Forest(Links, d, root, held)
    PROVE  /\ KeysIn = All(Links, d, root, held) \cup (IF op = "rejoin" THEN {key} ELSE {})
           /\ \A n \in Pointers : Below[n] = d[n]
           /\ Smaller = d[Part(Links, "left")] /\ Larger = d[Part(Links, "right")]
  BY KeysOf DEF KeysIn, Below, Smaller, Larger

LEMMA KeysAfter ==
    ASSUME NEW d, Forest(Links', d, root', held')
    PROVE  KeysIn' = All(Links', d, root', held') \cup (IF op' = "rejoin" THEN {key'} ELSE {})
  <1>1. KeysIn' = Under(Links')[root'] \cup Under(Links')[Links'["right"][Node]]
                    \cup Under(Links')[Links'["left"][Node]] \cup Under(Links')[held']
                    \cup (IF op' = "rejoin" THEN {key'} ELSE {})
    BY DEF KeysIn, Below, Smaller, Larger, Under
  <1> QED
    BY <1>1, KeysOf

LEMMA EffIdle ==
    ASSUME NEW c \in Linking, \A z \in Sides : Part(c, z) = Null
    PROVE  Eff(c, NoTails) = c
  <1>1. \A s \in Sides, n \in Places : Eff(c, NoTails)[s][n] = c[s][n]
    <2> SUFFICES ASSUME NEW s \in Sides, NEW n \in Places
                 PROVE  Eff(c, NoTails)[s][n] = c[s][n]
      OBVIOUS
    <2>1. NoTails[Other(s)] = Node
      BY SideFacts DEF NoTails
    <2>2. c[s][Node] = Null
      BY SideFacts DEF Part
    <2> QED
      BY <2>1, <2>2, EffIs
  <1>2. Eff(c, NoTails) \in Linking
    BY EffIs
  <1>3. ASSUME NEW s \in Sides PROVE Eff(c, NoTails)[s] = c[s]
    <2>1. Eff(c, NoTails)[s] \in [Places -> Pointers] /\ c[s] \in [Places -> Pointers]
      BY <1>2 DEF Linking
    <2> QED
      BY <1>1, <2>1
  <1> QED
    BY <1>2, <1>3 DEF Linking

(* Between two splays the links are those of the elements.                 *)
LEMMA IdleAfter ==
    ASSUME child' \in Linking, tail' = NoTails, NEW d, Idle(child', d, root', held')
    PROVE  /\ Links' = child' /\ Searching(Links, d)'
           /\ Forest(Links', d, root', held') /\ Tails(Links', d, tail')
           /\ KeysIn' = d[root'] \cup d[held'] \cup (IF op' = "rejoin" THEN {key'} ELSE {})
  <1>1. \A z \in Sides : Part(child', z) = Null
    BY DEF Idle
  <1>2. Links' = Eff(child', tail')
    BY DEF Links, Eff
  <1>3. Links' = child'
    BY <1>1, <1>2, EffIdle
  <1>4. /\ Forest(child', d, root', held') /\ Tails(child', d, NoTails)
        /\ All(child', d, root', held') = d[root'] \cup d[held']
    BY IdleIs
  <1>5. Forest(Links', d, root', held') /\ Tails(Links', d, tail')
    BY <1>3, <1>4
  <1>6. /\ Tree(child', d) /\ root' \in Pointers /\ held' \in Pointers /\ d[Null] = {}
    BY DEF Idle, Tree, IsBelow
  <1>7. \A n \in Pointers : Below'[n] = d[n]
    <2>1. Below' = Under(child')
      BY <1>3 DEF Below, Under
    <2> QED
      BY <1>6, <2>1, UnderIs
  <1>8. child'["right"][Node] = Null /\ child'["left"][Node] = Null
    BY <1>1, SideFacts DEF Part
  <1>9. Smaller' = {} /\ Larger' = {}
    BY <1>3, <1>6, <1>7, <1>8, NullFacts DEF Smaller, Larger
  <1>10. KeysIn' = Below'[root'] \cup Smaller' \cup Larger' \cup Below'[held']
                    \cup (IF op' = "rejoin" THEN {key'} ELSE {})
    BY DEF KeysIn
  <1>11. KeysIn' = d[root'] \cup d[held'] \cup (IF op' = "rejoin" THEN {key'} ELSE {})
    BY <1>6, <1>7, <1>9, <1>10
  <1>12. Searching(Links, d)'
    BY <1>1, <1>3, <1>6 DEF Searching
  <1> QED
    BY <1>3, <1>5, <1>11, <1>12

LEMMA ReturnedIs ==
    ASSUME child' \in Linking, tail' = NoTails, op' = "none", key' = Null, held' = Null,
           result' \in Pointers, NEW d, Idle(child', d, root', held')
    PROVE  SplayInv' /\ KeysIn' = d[root']
  <1>1. /\ Forest(Links', d, root', held') /\ Tails(Links', d, tail')
        /\ KeysIn' = d[root'] \cup d[held']
    BY IdleAfter
  <1>2. d[held'] = {}
    BY DEF Idle, Tree, IsBelow
  <1>3. Good(d)'
    BY <1>1 DEF Good, running
  <1> QED
    BY <1>1, <1>2, <1>3, NullFacts DEF SplayInv, running, Ops

LEMMA IdleNow ==
    ASSUME SplayInv, ~running
    PROVE  \E d : /\ Good(d) /\ Forest(Links, d, root, Null) /\ Tails(Links, d, NoTails)
                  /\ \A z \in Sides : Part(Links, z) = Null
                  /\ KeysIn = d[root] /\ d[Null] = {} /\ held = Null
  <1>1. tail = NoTails /\ held = Null /\ op = "none"
    BY DEF SplayInv, running
  <1>2. PICK d : Good(d)
    BY DEF SplayInv
  <1>3. Forest(Links, d, root, held) /\ Tails(Links, d, NoTails)
    BY <1>1, <1>2 DEF Good
  <1>4. \A z \in Sides : Part(Links, z) = Null
    BY <1>3, SideFacts DEF Tails, NoTails, Part
  <1>5. All(Links, d, root, held) = d[root] \cup d[held] /\ d[Null] = {}
    BY <1>3, <1>4, IdleIs DEF Forest, Tree, IsBelow
  <1>6. KeysIn = d[root]
    BY <1>1, <1>3, <1>5, KeysAre
  <1> QED
    BY <1>1, <1>2, <1>3, <1>4, <1>5, <1>6

(* An operation begins.                                                    *)
LEMMA StartKeeps ==
    ASSUME SplayInv, NEW o \in Ops \ {"none", "rejoin"}, NEW k \in Pointers,
           o \notin {"min", "max"} => k \in Keys, o = "next" => k \in KeysIn,
           StartSplay(o, k)
    PROVE  SplayInv' /\ KeysIn' = KeysIn
  <1>1. /\ ~running /\ root # Null /\ op' = o /\ key' = k /\ result' = Null
        /\ root' = root /\ child' = child /\ tail' = tail /\ held' = held /\ op = "none"
    BY DEF StartSplay, running
  <1>2. PICK d : /\ Good(d) /\ Forest(Links, d, root, Null) /\ Tails(Links, d, NoTails)
                 /\ \A z \in Sides : Part(Links, z) = Null
                 /\ KeysIn = d[root] /\ d[Null] = {} /\ held = Null
    BY <1>1, IdleNow
  <1>3. Links' = Links
    BY <1>1 DEF Links
  <1>4. KeysIn' = KeysIn
    <2>1. Below' = Below /\ Smaller' = Smaller /\ Larger' = Larger
      BY <1>3 DEF Below, Smaller, Larger
    <2>2. o # "rejoin"
      OBVIOUS
    <2> QED
      BY <1>1, <2>1, <2>2 DEF KeysIn
  <1>5. Searching(Links, d)'
    BY <1>2, <1>3 DEF Searching
  <1>6. Good(d)'
    BY <1>1, <1>2, <1>3, <1>5 DEF Good
  <1>7. root \in Keys
    BY <1>1, <1>2, NullFacts DEF Forest
  <1> QED
    BY <1>1, <1>2, <1>4, <1>6, <1>7, NullFacts DEF SplayInv, running

(* Operations on an empty tree return at once; insert makes the element    *)
(* the root.                                                               *)
LEMMA EmptyKeeps ==
    ASSUME SplayInv, NEW o, NEW k, OnEmpty(o, k), o = "insert" => k \in Keys
    PROVE  SplayInv' /\ KeysIn = {} /\ KeysIn' = IF o = "insert" THEN {k} ELSE {}
  <1>1. /\ ~running /\ root = Null /\ result' = Null /\ op' = op /\ key' = key
        /\ tail' = tail /\ held' = held /\ op = "none"
    BY DEF OnEmpty, running
  <1>2. PICK d : /\ Good(d) /\ Forest(Links, d, root, Null) /\ Tails(Links, d, NoTails)
                 /\ \A z \in Sides : Part(Links, z) = Null
                 /\ KeysIn = d[root] /\ d[Null] = {} /\ held = Null
    BY <1>1, IdleNow
  <1>3. tail = NoTails /\ key = Null /\ child \in Linking
    BY <1>1 DEF SplayInv
  <1>4. CASE o # "insert"
    <2>1. root' = Null /\ child' = child
      BY <1>4 DEF OnEmpty
    <2>2. Links' = Links
      BY <1>1, <2>1 DEF Links
    <2>3. Good(d)'
      BY <1>1, <1>2, <2>1, <2>2 DEF Good, running
    <2>4. KeysIn' = KeysIn
      <3>1. Below' = Below /\ Smaller' = Smaller /\ Larger' = Larger
        BY <2>2 DEF Below, Smaller, Larger
      <3> QED
        BY <1>1, <2>1, <3>1 DEF KeysIn
    <2> QED
      BY <1>1, <1>2, <1>3, <1>4, <2>1, <2>3, <2>4, NullFacts DEF SplayInv, running
  <1>5. CASE o = "insert"
    <2>1. root' = k /\ child' = Unlinked(child, k) /\ k \in Keys /\ k \in Places
          /\ k # Node /\ k \in Pointers
      BY <1>5, NullFacts DEF OnEmpty
    <2>2. /\ child' \in Linking
          /\ \A s \in Sides, n \in Places : child'[s][n] = IF n = k THEN Null ELSE child[s][n]
      BY <1>3, <2>1, UnlinkedIs
    <2>3. Links' = Eff(child', NoTails)
      BY <1>1, <1>3 DEF Links, Eff
    <2>4. Links = Eff(child, NoTails)
      BY <1>3, LinksIs
    <2>5. Idle(Links, d, Null, Null)
      BY <1>1, <1>2, IdleIs
    <2>6. \A n \in Keys : d[n] = {n} /\ \A s \in Sides : Links[s][n] = Null
      <3>1. \A n \in Keys : n \in Keys \ (d[Null] \cup d[Null])
        BY <1>2
      <3>2. \A n \in Keys : d[n] = {n}
        <4>1. \A n \in Keys \ (d[Null] \cup d[Null]) : d[n] = {n}
          BY ONLY <2>5, IdleFacts
        <4> QED
          BY <3>1, <4>1
      <3>3. \A n \in Keys, s \in Sides : Links[s][n] = Null
        BY <2>5, <3>1 DEF Idle
      <3> QED
        BY <3>2, <3>3
    <2>7. /\ Links \in Linking /\ Links' \in Linking
          /\ \A s \in Sides, n \in Places :
                /\ Links[s][n] = IF n = NoTails[Other(s)] THEN Null ELSE child[s][n]
                /\ Links'[s][n] = IF n = NoTails[Other(s)] THEN Null ELSE child'[s][n]
      BY <1>3, <2>2, <2>3, <2>4, EffIs
    <2>8. \A s \in Sides, n \in Places : Links'[s][n] = Links[s][n]
      BY <2>1, <2>2, <2>6, <2>7
    <2>9. Links' = Links
      <3>1. \A s \in Sides : Links'[s] = Links[s]
        <4> SUFFICES ASSUME NEW s \in Sides PROVE Links'[s] = Links[s]
          OBVIOUS
        <4>1. Links'[s] \in [Places -> Pointers] /\ Links[s] \in [Places -> Pointers]
          BY <2>7 DEF Linking
        <4> QED
          BY <2>8, <4>1
      <3> QED
        BY <2>7, <3>1 DEF Linking
    <2>10. Idle(Links, d, k, Null)
      BY <1>2, <2>1, <2>5, <2>6 DEF Idle
    <2>11. /\ Forest(Links, d, k, Null) /\ Tails(Links, d, NoTails)
           /\ All(Links, d, k, Null) = d[k] \cup d[Null]
      BY <2>10, IdleIs
    <2>12. Good(d)'
      BY <1>1, <1>2, <1>3, <2>1, <2>9, <2>11 DEF Good, running
    <2>13. KeysIn' = {k}
      <3>1. Below' = Below /\ Smaller' = Smaller /\ Larger' = Larger
        BY <2>9 DEF Below, Smaller, Larger
      <3>2. /\ Below[k] = d[k] /\ Below[Null] = {}
            /\ Smaller = {} /\ Larger = {}
        BY <1>1, <1>2, <2>1, KeysAre, SideFacts, NullFacts
      <3>3. KeysIn' = Below'[root'] \cup Smaller' \cup Larger' \cup Below'[held']
        BY <1>1 DEF KeysIn
      <3> QED
        BY <1>1, <1>2, <2>1, <2>6, <3>1, <3>2, <3>3
    <2> QED
      BY <1>1, <1>2, <1>3, <1>5, <2>1, <2>2, <2>12, <2>13, NullFacts DEF SplayInv, running
  <1> QED
    BY <1>4, <1>5

-----------------------------------------------------------------------------
LEMMA GoodNow ==
    ASSUME SplayInv, running
    PROVE  \E d : /\ Good(d) /\ Looking /\ root \in Keys /\ child \in Linking
                  /\ Forest(Links, d, root, held) /\ Tails(Links, d, tail)
                  /\ Searching(Links, d)
                  /\ KeysIn = d[Part(Links, "left")] \cup d[root] \cup d[Part(Links, "right")]
                                 \cup d[held] \cup (IF op = "rejoin" THEN {key} ELSE {})
  <1>1. PICK d : Good(d)
    BY DEF SplayInv
  <1>2. Forest(Links, d, root, held)
    BY <1>1 DEF Good
  <1>3. KeysIn = d[Part(Links, "left")] \cup d[root] \cup d[Part(Links, "right")]
                   \cup d[held] \cup (IF op = "rejoin" THEN {key} ELSE {})
    BY <1>2, KeysAre DEF All
  <1> QED
    BY <1>1, <1>2, <1>3 DEF Good, SplayInv, Looking

(* A step of the loop passes by a part of what is still to be searched.    *)
LEMMA DescendKeeps ==
    ASSUME SplayInv, Descend
    PROVE  SplayInv' /\ KeysIn' = KeysIn
  <1> DEFINE s == Toward(root)
             z == Other(s)
             c == Turned(s).child
             r == Turned(s).root
  <1>1. /\ running /\ s # "here" /\ ~Stuck(s)
        /\ child' = [c EXCEPT ![s][tail[z]] = r]
        /\ tail' = [tail EXCEPT ![z] = r]
        /\ root' = c[s][r]
        /\ op' = op /\ key' = key /\ held' = held /\ result' = result
    BY DEF Descend, Link
  <1>2. PICK d0 : /\ Good(d0) /\ Looking /\ root \in Keys /\ child \in Linking
                  /\ Forest(Links, d0, root, held) /\ Tails(Links, d0, tail)
                  /\ Searching(Links, d0)
                  /\ KeysIn = d0[Part(Links, "left")] \cup d0[root] \cup d0[Part(Links, "right")]
                                 \cup d0[held] \cup (IF op = "rejoin" THEN {key} ELSE {})
    BY <1>1, GoodNow
  <1>3. s \in Sides /\ z \in Sides /\ z # s /\ Other(z) = s
    BY <1>1, <1>2, TowardFacts, SideFacts
  <1>4. /\ c \in Linking /\ r \in Keys
        /\ \E d : /\ Forest(Eff(c, tail), d, r, held)
                  /\ Tails(Eff(c, tail), d, tail)
                  /\ d[r] = d0[root] /\ d[held] = d0[held]
                  /\ \A y \in Sides : d[Part(Eff(c, tail), y)] = d0[Part(Links, y)]
                  /\ Eff(c, tail)[s][r] = c[s][r]
                  /\ \A m \in d[r] \ d[c[s][r]] : Toward(m) = s
    BY <1>2, <1>3, TurnedIs
  <1> DEFINE e == Eff(c, tail)
             e2 == Eff(child', tail')
  <1>5. PICK d : /\ Forest(e, d, r, held)
                 /\ Tails(e, d, tail)
                 /\ d[r] = d0[root] /\ d[held] = d0[held]
                 /\ \A y \in Sides : d[Part(e, y)] = d0[Part(Links, y)]
                 /\ e[s][r] = c[s][r]
                 /\ \A m \in d[r] \ d[c[s][r]] : Toward(m) = s
    BY <1>4
  <1>6. /\ tail \in [Sides -> Places] /\ tail[z] \in Places /\ r \in Places /\ r \in Pointers
        /\ tail[z] # r
    <2>1. TailIs(e, d, r, held, z, tail[z], s)
      BY <1>3, <1>4, <1>5, TailFacts
    <2> QED
      BY <1>4, <1>5, <2>1, NullFacts DEF TailIs, Tails
  <1>7. ~(c[s][r] = Null)
    BY <1>1 DEF Stuck
  <1> HIDE DEF s, z, c, r, e
  <1>8. /\ child' \in Linking
        /\ \A y \in Sides, n \in Places :
              child'[y][n] = IF y = s /\ n = tail[z] THEN r ELSE c[y][n]
    BY ONLY <1>1, <1>3, <1>4, <1>6 DEF Linking
  <1>9. /\ tail' \in [Sides -> Places] /\ tail'[z] = r /\ tail'[s] = tail[s]
    BY ONLY <1>1, <1>3, <1>6
  <1>10. /\ e2 \in Linking
         /\ \A y \in Sides, n \in Places :
               e2[y][n] = IF n = tail'[Other(y)] THEN Null ELSE child'[y][n]
    BY <1>8, EffIs
  <1>11. \A y \in Sides, n \in Places :
            e[y][n] = IF n = tail[Other(y)] THEN Null ELSE c[y][n]
    BY <1>4, EffIs DEF e
  <1> HIDE DEF e2
  <1>12. LinksRoot(e, tail, r, s, z, e2)
    <2> SUFFICES ASSUME NEW y \in Sides, NEW n \in Places
                 PROVE  e2[y][n] = IF y = s /\ n = tail[z] THEN r
                                   ELSE IF y = s /\ n = r THEN Null ELSE e[y][n]
      BY DEF LinksRoot
    <2>1. z = Other(s)
      BY DEF z
    <2>2. CASE y = s
      BY <1>3, <1>6, <1>8, <1>9, <1>10, <1>11, <2>1, <2>2
    <2>3. CASE y = z
      BY <1>3, <1>6, <1>8, <1>9, <1>10, <1>11, <2>1, <2>3
    <2> QED
      BY <1>3, <2>1, <2>2, <2>3, SideFacts
  <1>13. PICK d2 : LinksTo(e, d, r, held, tail, s, z, e2, d2)
    <2>1. z = Other(s)
      BY DEF z
    <2> QED
      BY <1>3, <1>4, <1>5, <1>10, <1>12, <2>1, LinkKeeps
  <1>14. /\ Forest(e2, d2, root', held') /\ Tails(e2, d2, tail')
         /\ d2[root'] = d[root'] /\ d2[held'] = d0[held]
         /\ d2[Part(e2, z)] = d0[Part(Links, z)] \cup (d0[root] \ d[root'])
         /\ d2[Part(e2, s)] = d0[Part(Links, s)]
         /\ d[root'] \subseteq d0[root]
    BY <1>1, <1>3, <1>5, <1>13 DEF LinksTo
  <1>15. Links' = e2
    BY DEF Links, Eff, e2
  <1>16. d2[Part(e2, "left")] \cup d2[root'] \cup d2[Part(e2, "right")]
           = d0[Part(Links, "left")] \cup d0[root] \cup d0[Part(Links, "right")]
    <2>1. {z, s} = {"left", "right"}
      BY <1>3, SideFacts
    <2>2. d2[Part(e2, z)] \cup d2[root'] \cup d2[Part(e2, s)]
            = d0[Part(Links, z)] \cup d0[root] \cup d0[Part(Links, s)]
      BY <1>14
    <2>3. (z = "left" /\ s = "right") \/ (z = "right" /\ s = "left")
      BY <1>3, SideFacts
    <2> QED
      BY <2>2, <2>3
  <1>17. Searching(Links, d2)'
    <2>1. \A m : Toward(m)' = Toward(m)
      BY <1>1 DEF Toward
    <2>2. ASSUME NEW y \in Sides, NEW m \in d2[Part(e2, y)] PROVE Toward(m) = Other(y)
      <3>1. CASE y = s
        BY <1>2, <1>14, <2>2, <3>1 DEF Searching
      <3>2. CASE y = z
        <4>1. m \in d0[Part(Links, z)] \/ m \in d[r] \ d[c[s][r]]
          BY <1>1, <1>5, <1>14, <2>2, <3>2
        <4> QED
          BY <1>2, <1>3, <1>5, <3>2, <4>1 DEF Searching
      <3> QED
        BY <1>3, <3>1, <3>2, SideFacts
    <2> QED
      BY <1>15, <2>1, <2>2 DEF Searching
  <1>18. Good(d2)'
    <2>1. op = "rejoin" =>
            /\ \A m \in d2[Part(e2, "left")] \cup d2[root'] \cup d2[Part(e2, "right")] : m < key
            /\ \A m \in d2[held'] : key < m
      BY <1>2, <1>14, <1>16 DEF Good
    <2>2. Forest(Links', d2, root', held') /\ Tails(Links', d2, tail')
      BY <1>14, <1>15
    <2>3. op' = "rejoin" =>
            /\ \A m \in d2[Part(Links', "left")] \cup d2[root'] \cup d2[Part(Links', "right")] : m < key'
            /\ \A m \in d2[held'] : key' < m
      BY <1>1, <1>15, <2>1
    <2> QED
      BY <1>17, <2>2, <2>3 DEF Good, Part
  <1>19. KeysIn' = KeysIn
    <2>1. KeysIn' = All(Links', d2, root', held') \cup (IF op' = "rejoin" THEN {key'} ELSE {})
      BY <1>14, <1>15, KeysAfter
    <2>2. All(Links', d2, root', held') =
             d2[Part(e2, "left")] \cup d2[root'] \cup d2[Part(e2, "right")] \cup d2[held']
      BY <1>15 DEF All
    <2> QED
      BY <1>1, <1>2, <1>14, <1>16, <2>1, <2>2
  <1>20. root' \in Keys
    <2>1. root' \in Pointers
      BY <1>14 DEF Forest
    <2> QED
      BY <1>1, <1>7, <2>1, NullFacts
  <1> QED
    <2>1. op' # "none" /\ key' \in Pointers /\ result' \in Pointers /\ op' \in Ops
          /\ (op' \notin {"min", "max"} => key' \in Keys)
          /\ (op' # "rejoin" => held' = Null)
          /\ (op' = "next" => key' \in KeysIn')
      BY <1>1, <1>19 DEF SplayInv, running
    <2> QED
      BY <1>8, <1>18, <1>19, <1>20, <2>1 DEF SplayInv, running

-----------------------------------------------------------------------------
(* The loop is left: what the operations find.                             *)
LEMMA DoneIs ==
    ASSUME SplayInv, Done, NEW r, r = Splayed.root, NEW c, c = Splayed.child,
           NEW e, e = Unlinked(c, Node)
    PROVE  /\ Looking /\ tail' = NoTails /\ r \in Keys /\ c \in Linking /\ e \in Linking
           /\ \A s \in Sides, n \in Places : e[s][n] = IF n = Node THEN Null ELSE c[s][n]
           /\ \E d, d2 : /\ SplayedTo(d, r, c, d2) /\ Idle(e, d2, r, held)
                         /\ KeysIn = d2[r] \cup d2[held]
                                         \cup (IF op = "rejoin" THEN {key} ELSE {})
                         /\ \A z \in Sides : \A m \in d2[e[z][r]] : Toward(m) = Other(z)
                         /\ op = "rejoin" => /\ \A m \in d2[r] : m < key
                                             /\ \A m \in d2[held] : key < m
  <1>1. /\ running /\ tail' = NoTails
        /\ Toward(root) # "here" => Stuck(Toward(root))
    BY DEF Done
  <1>2. PICK d : /\ Good(d) /\ Looking /\ root \in Keys /\ child \in Linking
                 /\ Forest(Links, d, root, held) /\ Tails(Links, d, tail)
                 /\ Searching(Links, d)
                 /\ KeysIn = d[Part(Links, "left")] \cup d[root] \cup d[Part(Links, "right")]
                                \cup d[held] \cup (IF op = "rejoin" THEN {key} ELSE {})
    BY <1>1, GoodNow
  <1>3. PICK d2 : SplayedTo(d, Splayed.root, Splayed.child, d2)
    BY <1>1, <1>2, SplayedIs
  <1>4. SplayedTo(d, r, c, d2)
    BY <1>3
  <1>5. /\ r \in Keys /\ c \in Linking /\ Idle(e, d2, r, held) /\ d2[held] = d[held]
        /\ d2[r] = d[Part(Links, "left")] \cup d[root] \cup d[Part(Links, "right")]
        /\ \A z \in Sides : \A m \in d2[e[z][r]] : Toward(m) = Other(z)
    BY <1>4 DEF SplayedTo
  <1>6. /\ e \in Linking
        /\ \A s \in Sides, n \in Places : e[s][n] = IF n = Node THEN Null ELSE c[s][n]
    BY <1>5, UnlinkedIs, NullFacts
  <1>7. op = "rejoin" => (\A m \in d2[r] : m < key) /\ (\A m \in d2[held] : key < m)
    BY <1>2, <1>5 DEF Good
  <1> QED
    BY <1>1, <1>2, <1>4, <1>5, <1>6, <1>7

(* SPLAY_INSERT adds the element if it is new, and returns the one that is *)
(* there if it is not.                                                     *)
LEMMA InsertKeeps ==
    ASSUME SplayInv, InsertSplayed
    PROVE  /\ SplayInv' /\ key \in Keys /\ KeysIn' = KeysIn \cup {key}
           /\ op' = "none" /\ result' = Ordered!At(key)
  <1> SUFFICES ASSUME NEW r, r = Splayed.root, NEW c, c = Splayed.child,
                      NEW e, e = Unlinked(c, Node)
               PROVE  /\ SplayInv' /\ key \in Keys /\ KeysIn' = KeysIn \cup {key}
                      /\ op' = "none" /\ result' = Ordered!At(key)
    OBVIOUS
  <1>1. Done /\ op = "insert" /\ held' = held
    BY DEF InsertSplayed
  <1>2. /\ Looking /\ tail' = NoTails /\ r \in Keys /\ c \in Linking /\ e \in Linking
        /\ \A s \in Sides, n \in Places : e[s][n] = IF n = Node THEN Null ELSE c[s][n]
    BY <1>1, DoneIs
  <1>3. held = Null /\ key \in Keys /\ op \notin {"min", "max"}
    BY <1>1, <1>2 DEF SplayInv, Looking
  <1>4. PICK d, d2 : /\ SplayedTo(d, r, c, d2) /\ Idle(e, d2, r, held)
                     /\ KeysIn = d2[r] \cup d2[held] \cup (IF op = "rejoin" THEN {key} ELSE {})
                     /\ \A z \in Sides : \A m \in d2[e[z][r]] : Toward(m) = Other(z)
    BY <1>1, DoneIs
  <1>5. /\ Idle(e, d2, r, Null) /\ Tree(e, d2) /\ d2[Null] = {} /\ KeysIn = d2[r]
    BY <1>1, <1>3, <1>4 DEF Idle, Tree, IsBelow
  <1>6. /\ Toward(r) = "here" <=> key \in KeysIn
        /\ Toward(r) = "here" <=> r = key
        /\ KeysIn \subseteq Keys
    BY <1>2, <1>3, <1>4, <1>5, TopAnswers
  <1>7. Ordered!At(key) = IF key \in KeysIn THEN key ELSE Null
    BY DEF Ordered!At
  <1>8. CASE Toward(r) = "here"
    <2>1. Return(r, c, r)
      BY <1>1, <1>8 DEF InsertSplayed
    <2>2. /\ root' = r /\ child' = e /\ op' = "none" /\ key' = Null /\ result' = r
      BY <2>1 DEF Return
    <2>3. SplayInv' /\ KeysIn' = d2[root']
      BY <1>1, <1>2, <1>3, <1>5, <2>2, ReturnedIs, NullFacts
    <2> QED
      BY <1>3, <1>5, <1>6, <1>7, <1>8, <2>2, <2>3
  <1>9. CASE Toward(r) # "here"
    <2> DEFINE y == Toward(r)
               x == Other(y)
               e3 == Unlinked(Placed(Splayed, y), Node)
    <2>1. Return(key, Placed(Splayed, y), Null)
      BY <1>1, <1>9 DEF InsertSplayed
    <2>2. /\ root' = key /\ child' = e3 /\ op' = "none" /\ key' = Null /\ result' = Null
      BY <2>1 DEF Return
    <2>3. y \in Sides /\ x \in Sides /\ x # y /\ y = Other(x) /\ Toward(r) = y
      BY <1>2, <1>9, TowardFacts, SideFacts
    <2>4. /\ r \in Places /\ key \in Places /\ Node \in Places /\ r # Node /\ key # Node
          /\ r # key /\ r \in Pointers /\ key \in Pointers /\ Null \in Pointers
      BY <1>2, <1>3, <1>6, <1>9, NullFacts
    <2>5. Placed(Splayed, y) = [c EXCEPT ![y][key] = c[y][r], ![x][key] = r, ![y][r] = Null]
      BY DEF Placed
    <2> HIDE DEF y, x, e3
    <2>6. c[y][r] \in Pointers
      BY <1>2, <2>3, <2>4, LinkTypes
    <2>7. /\ Placed(Splayed, y) \in Linking
          /\ \A v \in Sides, n \in Places :
                Placed(Splayed, y)[v][n] =
                  IF n = key THEN (IF v = y THEN c[y][r] ELSE IF v = x THEN r ELSE c[v][n])
                  ELSE IF n = r /\ v = y THEN Null ELSE c[v][n]
      <3> DEFINE c1 == [c EXCEPT ![y][key] = c[y][r]]
                 c2 == [c1 EXCEPT ![x][key] = r]
                 c3 == [c2 EXCEPT ![y][r] = Null]
      <3>1. /\ c1 \in Linking
            /\ \A v \in Sides, n \in Places :
                  c1[v][n] = IF v = y /\ n = key THEN c[y][r] ELSE c[v][n]
        BY <1>2, <2>3, <2>4, <2>6, SetLink
      <3> HIDE DEF c1
      <3>2. /\ c2 \in Linking
            /\ \A v \in Sides, n \in Places : c2[v][n] = IF v = x /\ n = key THEN r ELSE c1[v][n]
        BY <2>3, <2>4, <3>1, SetLink
      <3> HIDE DEF c2
      <3>3. /\ c3 \in Linking
            /\ \A v \in Sides, n \in Places : c3[v][n] = IF v = y /\ n = r THEN Null ELSE c2[v][n]
        BY <2>3, <2>4, <3>2, SetLink
      <3>4. Placed(Splayed, y) = c3
        BY ONLY <2>5 DEF c1, c2, c3
      <3> QED
        BY ONLY <2>3, <2>4, <3>1, <3>2, <3>3, <3>4
    <2>8. /\ e3 \in Linking
          /\ \A v \in Sides, n \in Places :
                e3[v][n] = IF n = Node THEN Null ELSE Placed(Splayed, y)[v][n]
      BY <2>4, <2>7, UnlinkedIs DEF e3
    <2>9. \A v \in Sides, n \in Places :
             e3[v][n] = IF n = key THEN (IF v = y THEN e[y][r] ELSE r)
                        ELSE IF n = r /\ v = y THEN Null ELSE e[v][n]
      <3>1. \A v \in Sides : v = x \/ v = y
        BY <2>3, SideFacts
      <3> QED
        BY <1>2, <2>3, <2>4, <2>7, <2>8, <3>1
    <2>10. On(x, r, key) /\ \A m \in d2[e[y][r]] : On(y, m, key)
      <3>1. On(y, key, r)
        BY <1>2, <1>3, <2>3, TowardFacts
      <3>2. ASSUME NEW m \in d2[e[y][r]] PROVE On(y, m, key)
        <4>1. m \in Keys /\ Toward(m) = x
          <5>1. e[y][r] \in Pointers
            BY <1>2, <2>3, <2>4, LinkTypes
          <5> QED
            BY <1>4, <1>5, <2>3, <3>2, <5>1, BelowFacts DEF x
        <4>2. On(x, key, m)
          BY <1>2, <1>3, <2>3, <4>1, TowardFacts
        <4> QED
          BY <1>3, <2>3, <4>1, <4>2, OrderFacts
      <3> QED
        BY <1>2, <1>3, <2>3, <3>1, <3>2, OrderFacts
    <2>11. PICK d3 : Idle(e3, d3, key, Null) /\ d3[key] = d2[r] \cup {key}
      <3>1. key \notin d2[r] /\ x = Other(y)
        BY <1>5, <1>6, <1>9 DEF x
      <3>2. PlacesNew(e, r, key, y, e3)
        BY <2>9 DEF PlacesNew
      <3> QED
        BY <1>2, <1>3, <1>5, <2>3, <2>8, <2>10, <3>1, <3>2, PlaceKeeps
    <2>12. SplayInv' /\ KeysIn' = d3[root']
      BY <1>1, <1>2, <1>3, <2>2, <2>8, <2>11, ReturnedIs, NullFacts
    <2> QED
      BY <1>3, <1>5, <1>6, <1>7, <1>9, <2>2, <2>11, <2>12
  <1> QED
    BY <1>8, <1>9

(* SPLAY_REMOVE: what was not there is not removed; without a left subtree *)
(* the right one takes its place; otherwise the right one is held until    *)
(* the largest of the left one is on top.                                  *)
LEMMA RemoveKeeps ==
    ASSUME SplayInv, RemoveSplayed
    PROVE  /\ SplayInv' /\ key \in Keys
           /\ \/ op' = "rejoin" /\ KeysIn' = KeysIn
              \/ op' = "none" /\ KeysIn' = KeysIn \ {key} /\ result' = Ordered!At(key)
  <1> SUFFICES ASSUME NEW r, r = Splayed.root, NEW c, c = Splayed.child,
                      NEW e, e = Unlinked(c, Node)
               PROVE  /\ SplayInv' /\ key \in Keys
                      /\ \/ op' = "rejoin" /\ KeysIn' = KeysIn
                         \/ /\ op' = "none" /\ KeysIn' = KeysIn \ {key}
                            /\ result' = Ordered!At(key)
    OBVIOUS
  <1>1. Done /\ op = "remove"
    BY DEF RemoveSplayed
  <1>2. /\ Looking /\ tail' = NoTails /\ r \in Keys /\ c \in Linking /\ e \in Linking
        /\ \A s \in Sides, n \in Places : e[s][n] = IF n = Node THEN Null ELSE c[s][n]
    BY <1>1, DoneIs
  <1>3. /\ held = Null /\ key \in Keys /\ op \notin {"min", "max"}
        /\ result \in Pointers /\ key \in Places /\ key \in Pointers /\ key # Node
    BY <1>1, <1>2, NullFacts DEF SplayInv, Looking
  <1>4. PICK d, d2 : /\ SplayedTo(d, r, c, d2) /\ Idle(e, d2, r, held)
                     /\ KeysIn = d2[r] \cup d2[held] \cup (IF op = "rejoin" THEN {key} ELSE {})
    BY <1>1, DoneIs
  <1>5. /\ Idle(e, d2, r, Null) /\ Tree(e, d2) /\ d2[Null] = {} /\ KeysIn = d2[r]
    BY <1>1, <1>3, <1>4 DEF Idle, Tree, IsBelow
  <1>6. /\ Toward(r) = "here" <=> key \in KeysIn
        /\ Toward(r) = "here" <=> r = key
    BY <1>2, <1>3, <1>4, <1>5, TopAnswers
  <1>7. Ordered!At(key) = IF key \in KeysIn THEN key ELSE Null
    BY DEF Ordered!At
  <1> DEFINE e3 == Unlinked(Unlinked(c, key), Node)
             a == c["left"][r]
             b == c["right"][r]
  <1>8. /\ a = e["left"][r] /\ b = e["right"][r]
        /\ a \in Pointers /\ b \in Pointers
    BY <1>2, LinkTypes, SideFacts, NullFacts
  <1> HIDE DEF e3, a, b
  <1>9. ASSUME r = key
        PROVE  /\ e3 \in Linking
               /\ \A v \in Sides, n \in Places : e3[v][n] = IF n = r THEN Null ELSE e[v][n]
    <2>1. /\ Unlinked(c, key) \in Linking
          /\ \A s \in Sides, n \in Places :
                Unlinked(c, key)[s][n] = IF n = key THEN Null ELSE c[s][n]
      BY <1>2, <1>3, UnlinkedIs
    <2>2. /\ e3 \in Linking
          /\ \A s \in Sides, n \in Places :
                e3[s][n] = IF n = Node THEN Null ELSE Unlinked(c, key)[s][n]
      BY <2>1, UnlinkedIs, NullFacts DEF e3
    <2> QED
      BY <1>2, <1>9, <2>1, <2>2
  <1>10. ASSUME r = key
         PROVE  \E d3 : /\ Idle(e3, d3, a, b) /\ d3[a] = d2[a] /\ d3[b] = d2[b]
                        /\ a = Null => Idle(e3, d3, b, Null)
                        /\ d2[r] = {r} \cup d2[a] \cup d2[b]
                        /\ \A m \in d2[a] : m < r
                        /\ \A m \in d2[b] : r < m
    <2>1. Cuts(e, r, e3) /\ e3 \in Linking
      BY <1>9, <1>10 DEF Cuts
    <2> QED
      BY <1>2, <1>5, <1>8, <2>1, CutKeeps
  <1>11. CASE Toward(r) # "here"
    <2>1. Return(r, c, Null) /\ held' = held
      BY <1>11 DEF RemoveSplayed
    <2>2. /\ root' = r /\ child' = e /\ op' = "none" /\ key' = Null /\ result' = Null
      BY <2>1 DEF Return
    <2>3. SplayInv' /\ KeysIn' = d2[root']
      BY <1>2, <1>3, <1>5, <2>1, <2>2, ReturnedIs, NullFacts
    <2> QED
      BY <1>3, <1>5, <1>6, <1>7, <1>11, <2>2, <2>3
  <1>12. CASE Toward(r) = "here" /\ a = Null
    <2>1. Return(Splayed.child["right"][key], Unlinked(Splayed.child, key), key) /\ held' = held
      BY <1>12 DEF RemoveSplayed, a
    <2>2. /\ root' = b /\ child' = e3 /\ op' = "none" /\ key' = Null /\ result' = key
      BY <1>6, <1>12, <2>1 DEF Return, b, e3
    <2>3. PICK d3 : /\ Idle(e3, d3, a, b) /\ d3[a] = d2[a] /\ d3[b] = d2[b]
                    /\ a = Null => Idle(e3, d3, b, Null)
                    /\ d2[r] = {r} \cup d2[a] \cup d2[b]
                    /\ \A m \in d2[a] : m < r
                    /\ \A m \in d2[b] : r < m
      BY <1>6, <1>10, <1>12
    <2>4. SplayInv' /\ KeysIn' = d3[root']
      BY <1>2, <1>3, <1>6, <1>9, <1>12, <2>1, <2>2, <2>3, ReturnedIs
    <2>5. r \notin d2[b]
      BY <1>2, <2>3, KeysAreIntegers
    <2>6. KeysIn' = KeysIn \ {key}
      BY <1>5, <1>6, <1>12, <2>2, <2>3, <2>4, <2>5
    <2> QED
      BY <1>3, <1>6, <1>7, <1>12, <2>2, <2>4, <2>6
  <1>13. CASE Toward(r) = "here" /\ a # Null
    <2>1. /\ root' = a /\ held' = b /\ child' = e3 /\ op' = "rejoin"
          /\ key' = key /\ result' = result
      BY <1>13 DEF RemoveSplayed, a, b, e3
    <2>2. PICK d3 : /\ Idle(e3, d3, a, b) /\ d3[a] = d2[a] /\ d3[b] = d2[b]
                    /\ a = Null => Idle(e3, d3, b, Null)
                    /\ d2[r] = {r} \cup d2[a] \cup d2[b]
                    /\ \A m \in d2[a] : m < r
                    /\ \A m \in d2[b] : r < m
      BY <1>6, <1>10, <1>13
    <2>3. /\ Links' = child' /\ Searching(Links, d3)'
          /\ Forest(Links', d3, root', held') /\ Tails(Links', d3, tail')
          /\ KeysIn' = d3[root'] \cup d3[held'] \cup {key'}
      BY <1>2, <1>6, <1>9, <1>13, <2>1, <2>2, IdleAfter
    <2>4. KeysIn' = KeysIn
      BY <1>5, <1>6, <1>13, <2>1, <2>2, <2>3
    <2>5. d3[Part(Links', "left")] = {} /\ d3[Part(Links', "right")] = {}
      BY <2>1, <2>2, <2>3, SideFacts DEF Idle, Tree, IsBelow
    <2>6. Good(d3)'
      <3>1. /\ \A m \in d3[Part(Links', "left")] \cup d3[root'] \cup d3[Part(Links', "right")] :
                  m < key'
            /\ \A m \in d3[held'] : key' < m
        BY <1>6, <1>13, <2>1, <2>2, <2>5
      <3> QED
        BY <2>3, <3>1 DEF Good, Part
    <2>7. root' \in Keys
      BY <1>8, <1>13, <2>1, NullFacts
    <2>8. child' \in Linking
      BY <1>6, <1>9, <1>13, <2>1
    <2>9. SplayInv'
      BY <1>3, <2>1, <2>6, <2>7, <2>8 DEF SplayInv, running, Ops
    <2> QED
      BY <1>3, <2>1, <2>4, <2>9
  <1> QED
    BY <1>11, <1>12, <1>13

(* ... and then hangs it from there, where there is nothing.               *)
LEMMA RejoinKeeps ==
    ASSUME SplayInv, Rejoin
    PROVE  /\ SplayInv' /\ key \in KeysIn /\ key \in Keys /\ KeysIn' = KeysIn \ {key}
           /\ op' = "none" /\ result' = Ordered!At(key)
  <1> SUFFICES ASSUME NEW r, r = Splayed.root, NEW c, c = Splayed.child,
                      NEW e, e = Unlinked(c, Node)
               PROVE  /\ SplayInv' /\ key \in KeysIn /\ key \in Keys
                      /\ KeysIn' = KeysIn \ {key}
                      /\ op' = "none" /\ result' = Ordered!At(key)
    OBVIOUS
  <1> DEFINE c3 == [c EXCEPT !["right"][r] = held]
             e3 == Unlinked(c3, Node)
  <1>1. Done /\ op = "rejoin" /\ held' = Null /\ Return(r, c3, key)
    BY DEF Rejoin
  <1>2. /\ root' = r /\ child' = e3 /\ op' = "none" /\ key' = Null /\ result' = key
    BY <1>1 DEF Return
  <1> HIDE DEF e3, c3
  <1>3. /\ Looking /\ tail' = NoTails /\ r \in Keys /\ c \in Linking /\ e \in Linking
        /\ \A s \in Sides, n \in Places : e[s][n] = IF n = Node THEN Null ELSE c[s][n]
    BY <1>1, DoneIs
  <1>4. /\ key \in Keys /\ op \notin {"min", "max"} /\ r \in Places /\ r # Node
        /\ key \in Pointers
    BY <1>1, <1>3, NullFacts DEF Looking
  <1>5. PICK d, d2 : /\ SplayedTo(d, r, c, d2) /\ Idle(e, d2, r, held)
                     /\ KeysIn = d2[r] \cup d2[held] \cup (IF op = "rejoin" THEN {key} ELSE {})
                     /\ \A z \in Sides : \A m \in d2[e[z][r]] : Toward(m) = Other(z)
                     /\ op = "rejoin" => /\ \A m \in d2[r] : m < key
                                         /\ \A m \in d2[held] : key < m
    BY <1>1, DoneIs
  <1>6. Tree(e, d2) /\ held \in Pointers /\ d2[held] \subseteq Keys /\ d2[r] \subseteq Keys
    <2>1. Idle(e, d2, r, held)
      BY <1>5
    <2>2. d2[held] \subseteq Keys /\ d2[r] \subseteq Keys
      BY ONLY <2>1, IdleFacts
    <2> QED
      BY <2>1, <2>2 DEF Idle
  <1>7. e["right"][r] = Null
    <2> SUFFICES ASSUME e["right"][r] # Null PROVE FALSE
      OBVIOUS
    <2> DEFINE m == e["right"][r]
    <2>1. m \in Keys
      BY <1>3, <1>4, LinkTypes, SideFacts, NullFacts
    <2>2. m \in d2[m] /\ d2[m] \subseteq d2[r]
      BY <1>3, <1>6, <2>1, BelowFacts, SideFacts
    <2>3. Toward(m) = "left"
      BY <1>5, <2>2, SideFacts
    <2>4. m < key
      BY <1>1, <1>5, <2>2
    <2>5. key < m
      BY <1>3, <1>4, <2>1, <2>3, TowardFacts, SideFacts, OrderFacts
    <2> QED
      BY <1>4, <2>1, <2>4, <2>5, OrderFacts
  <1>8. /\ c3 \in Linking
        /\ \A v \in Sides, n \in Places :
              c3[v][n] = IF v = "right" /\ n = r THEN held ELSE c[v][n]
    BY <1>3, <1>4, <1>6, SetLink, SideFacts DEF c3
  <1>9. /\ e3 \in Linking
        /\ \A v \in Sides, n \in Places : e3[v][n] = IF n = Node THEN Null ELSE c3[v][n]
    BY <1>8, UnlinkedIs, NullFacts DEF e3
  <1>10. Joins(e, r, held, e3)
    BY <1>3, <1>4, <1>8, <1>9 DEF Joins
  <1>11. PICK d3 : Idle(e3, d3, r, Null) /\ d3[r] = d2[r] \cup d2[held]
    <2>1. Idle(e, d2, r, held)
      BY <1>5
    <2>2. r \in Keys /\ e3 \in Linking
      BY <1>3, <1>9
    <2>3. \E d3 : JoinsTo(e3, d2, d3, r, held)
      BY ONLY <1>7, <1>10, <2>1, <2>2, JoinKeeps
    <2> QED
      BY <2>3 DEF JoinsTo
  <1>12. SplayInv' /\ KeysIn' = d3[root']
    BY <1>1, <1>2, <1>3, <1>4, <1>9, <1>11, ReturnedIs
  <1>13. KeysIn = d2[r] \cup d2[held] \cup {key}
    BY <1>1, <1>5
  <1>14. key \notin d2[r] /\ key \notin d2[held]
    BY <1>1, <1>4, <1>5, KeysAreIntegers
  <1>15. KeysIn' = KeysIn \ {key} /\ key \in KeysIn
    BY <1>2, <1>11, <1>12, <1>13, <1>14
  <1> QED
    BY <1>2, <1>4, <1>12, <1>15 DEF Ordered!At

(* Queries splay and answer.                                               *)
LEMMA QueryKeeps ==
    ASSUME SplayInv, QuerySplayed
    PROVE  /\ SplayInv' /\ KeysIn' = KeysIn /\ op' = "none"
           /\ result' = CASE op = "next" -> Ordered!After(key)
                           [] op = "min" -> Ordered!First
                           [] op = "max" -> Ordered!Last
                           [] OTHER -> Ordered!At(key)
           /\ op \in {"find", "next"} => root' \in Neighbours(key)
  <1> SUFFICES ASSUME NEW r, r = Splayed.root, NEW c, c = Splayed.child,
                      NEW e, e = Unlinked(c, Node)
               PROVE  /\ SplayInv' /\ KeysIn' = KeysIn /\ op' = "none"
                      /\ result' = CASE op = "next" -> Ordered!After(key)
                                      [] op = "min" -> Ordered!First
                                      [] op = "max" -> Ordered!Last
                                      [] OTHER -> Ordered!At(key)
                      /\ op \in {"find", "next"} => root' \in Neighbours(key)
    OBVIOUS
  <1> DEFINE answer == CASE op = "find" -> IF Toward(r) = "here" THEN r ELSE Null
                         [] op = "next" -> Leftmost(c, c["right"][key])
                         [] OTHER -> r
             S == KeysIn
  <1>1. /\ Done /\ op \in {"find", "next", "min", "max"} /\ held' = held
        /\ Return(r, c, answer)
    BY DEF QuerySplayed
  <1>2. /\ root' = r /\ child' = e /\ op' = "none" /\ key' = Null /\ result' = answer
    BY <1>1 DEF Return
  <1>3. /\ Looking /\ tail' = NoTails /\ r \in Keys /\ c \in Linking /\ e \in Linking
        /\ \A s \in Sides, n \in Places : e[s][n] = IF n = Node THEN Null ELSE c[s][n]
    BY <1>1, DoneIs
  <1>4. /\ held = Null /\ r \in Places /\ r # Node /\ r \in Pointers
        /\ op = "next" => key \in S
    BY <1>1, <1>3, NullFacts DEF SplayInv
  <1>5. PICK d, d2 : /\ SplayedTo(d, r, c, d2) /\ Idle(e, d2, r, held)
                     /\ KeysIn = d2[r] \cup d2[held] \cup (IF op = "rejoin" THEN {key} ELSE {})
    BY <1>1, DoneIs
  <1>6. /\ Idle(e, d2, r, Null) /\ Tree(e, d2) /\ d2[Null] = {} /\ S = d2[r]
    BY <1>1, <1>4, <1>5 DEF Idle, Tree, IsBelow
  <1>7. /\ r \in S /\ S \subseteq Keys
        /\ op \notin {"min", "max"} =>
              /\ Toward(r) = "here" <=> key \in S
              /\ Toward(r) = "here" <=> r = key
              /\ Toward(r) = "left" => key < r /\ \A m \in S : m > key => r <= m
              /\ Toward(r) = "right" => r < key /\ \A m \in S : m < key => m <= r
        /\ op = "min" => \A m \in S : r <= m
        /\ op = "max" => \A m \in S : m <= r
    BY <1>3, <1>5, <1>6, TopAnswers
  <1>8. ASSUME op = "next"
        PROVE  answer = Ordered!After(key) /\ answer \in Pointers
    <2> DEFINE b == e["right"][r]
               A == {j \in S : j > key}
    <2>1. r = key /\ key \in Keys /\ op \notin {"min", "max"}
      BY <1>3, <1>4, <1>7, <1>8
    <2>2. answer = Leftmost(c, b) /\ b \in Pointers
      BY <1>3, <1>4, <1>8, <2>1, LinkTypes, SideFacts
    <2>3. \A n \in Keys : c["left"][n] = e["left"][n]
      BY <1>3, SideFacts, NullFacts
    <2>4. A = d2[b]
      <3>1. d2[r] = {r} \cup d2[e["left"][r]] \cup d2[b]
        BY <1>3, <1>6 DEF Tree, IsBelow
      <3>2. /\ \A m \in d2[e["left"][r]] : m < r
            /\ \A m \in d2[b] : r < m
        BY <1>3, <1>6, SideFacts DEF Tree, IsSorted, On
      <3>3. \A m \in S \cup {r} : m \in Int
        BY <1>3, <1>7, KeysAreIntegers
      <3> QED
        BY <1>6, <2>1, <3>1, <3>2, <3>3
    <2>5. Ordered!After(key) = Ordered!Least(A)
      BY DEF Ordered!After
    <2> HIDE DEF A, answer, b
    <2>6. A \subseteq Keys
      BY <1>7 DEF A
    <2>7. CASE b = Null
      <3>1. A = {} /\ Leftmost(c, b) = Null
        BY <1>6, <2>3, <2>4, <2>7, LeftmostIs
      <3> QED
        BY <2>2, <2>5, <2>6, <3>1, LeastIs, NullFacts
    <2>8. CASE b # Null
      <3>1. b \in Keys
        BY <2>2, <2>8, NullFacts
      <3>2. Leftmost(c, b) \in A /\ \A m \in A : Leftmost(c, b) <= m
        BY <1>6, <2>3, <2>4, <3>1, LeftmostIs
      <3> QED
        BY <2>2, <2>5, <2>6, <3>2, LeastIs, NullFacts
    <2> QED
      BY <2>7, <2>8
  <1>9. ASSUME op = "min" PROVE answer = Ordered!First /\ answer = r
    BY <1>7, <1>9, LeastIs DEF Ordered!First
  <1>10. ASSUME op = "max" PROVE answer = Ordered!Last /\ answer = r
    BY <1>7, <1>10, LeastIs DEF Ordered!Last
  <1>11. ASSUME op = "find" PROVE answer = Ordered!At(key) /\ answer \in Pointers
    BY <1>4, <1>7, <1>11, NullFacts DEF Ordered!At
  <1>12. ASSUME op \in {"find", "next"} PROVE r \in Neighbours(key)
    <2>0. key \in Keys /\ op \notin {"min", "max"}
      BY <1>3, <1>12 DEF Looking
    <2>1. CASE Toward(r) = "here"
      BY <1>7, <2>0, <2>1 DEF Neighbours
    <2>2. CASE Toward(r) = "left"
      <3> DEFINE A == {j \in S : j > key}
      <3>1. r \in A /\ A \subseteq Keys /\ \A m \in A : r <= m
        BY <1>3, <1>7, <2>0, <2>2, KeysAreIntegers
      <3>2. Ordered!After(key) = r
        BY <3>1, LeastIs DEF Ordered!After
      <3> QED
        BY <1>7, <2>0, <2>2, <3>2 DEF Neighbours
    <2>3. CASE Toward(r) = "right"
      <3> DEFINE A == {j \in S : j < key}
      <3>1. r \in A /\ A \subseteq Keys /\ \A m \in A : m <= r
        BY <1>3, <1>7, <2>0, <2>3, KeysAreIntegers
      <3>2. Ordered!Before(key) = r
        BY <3>1, LeastIs DEF Ordered!Before
      <3> QED
        BY <1>7, <2>0, <2>3, <3>2 DEF Neighbours
    <2> QED
      BY <1>3, <2>1, <2>2, <2>3, TowardFacts, SideFacts
  <1>13. answer \in Pointers
    BY <1>1, <1>4, <1>8, <1>9, <1>10, <1>11
  <1> HIDE DEF answer
  <1>14. SplayInv' /\ KeysIn' = d2[root']
    BY <1>1, <1>2, <1>3, <1>4, <1>6, <1>13, ReturnedIs
  <1> QED
    BY <1>1, <1>2, <1>6, <1>8, <1>9, <1>10, <1>11, <1>12, <1>14

-----------------------------------------------------------------------------
LEMMA SplayInit == InitSplay => SplayInv /\ KeysIn = {}
  <1> SUFFICES ASSUME InitSplay PROVE SplayInv /\ KeysIn = {}
    OBVIOUS
  <1> DEFINE d == [n \in Pointers |-> IF n = Null THEN {} ELSE {n}]
  <1>1. /\ root = Null /\ op = "none" /\ key = Null /\ tail = NoTails /\ held = Null
        /\ result = Null /\ child = [s \in Sides |-> [n \in Places |-> Null]]
    BY DEF InitSplay, Places
  <1>2. child \in Linking /\ \A s \in Sides, n \in Places : child[s][n] = Null
    BY <1>1, NullFacts DEF Linking
  <1>3. \A z \in Sides : Part(child, z) = Null
    BY <1>2, SideFacts, NullFacts DEF Part
  <1>4. Links = child
    BY <1>1, <1>2, <1>3, LinksIs, EffIdle
  <1>5. /\ d \in [Pointers -> SUBSET Keys] /\ d[Null] = {}
        /\ \A n \in Keys : d[n] = {n}
    BY NullFacts
  <1> HIDE DEF d
  <1>6. IsBelow(child, d)
    <2>1. \A n \in Keys : IsFiniteSet(d[n])
      BY <1>5, FS_Singleton
    <2>2. \A n \in Keys : child["left"][n] = Null /\ child["right"][n] = Null
      BY <1>2, SideFacts, NullFacts
    <2> QED
      BY <1>5, <2>1, <2>2 DEF IsBelow
  <1>7. IsSorted(child, d)
    BY <1>2, <1>5, NullFacts DEF IsSorted
  <1>8. Idle(child, d, Null, Null)
    BY <1>2, <1>3, <1>5, <1>6, <1>7, NullFacts DEF Idle, Tree
  <1>9. /\ Forest(Links, d, root, held) /\ Tails(Links, d, tail)
        /\ All(Links, d, root, held) = {}
    BY <1>1, <1>4, <1>5, <1>8, IdleIs
  <1>10. Good(d)
    BY <1>1, <1>9 DEF Good, running
  <1>11. KeysIn = {}
    BY <1>1, <1>9, KeysAre
  <1> QED
    BY <1>1, <1>2, <1>10, <1>11, NullFacts DEF SplayInv, running, Ops

(* One step: the invariant, what becomes of the elements, and the answers. *)
SetStep == KeysIn' = KeysIn \/ \E k \in Keys : Ordered!Insert(k) \/ Ordered!Remove(k)

Answered ==
    Returns =>
        /\ result' = CASE op = "next" -> Ordered!After(key)
                       [] op = "min" -> Ordered!First
                       [] op = "max" -> Ordered!Last
                       [] OTHER -> Ordered!At(key)
        /\ op \in {"find", "next"} => root' \in Neighbours(key)

LEMMA CallStep ==
    ASSUME SplayInv, Call
    PROVE  SplayInv' /\ SetStep /\ Answered
  <1>1. ASSUME NEW o \in Ops \ {"none", "rejoin"}, NEW k \in Pointers,
               o \notin {"min", "max"} => k \in Keys, o = "next" => k \in KeysIn,
               StartSplay(o, k)
        PROVE  SplayInv' /\ SetStep /\ Answered
    <2>1. SplayInv' /\ KeysIn' = KeysIn
      BY <1>1, StartKeeps
    <2>2. ~running
      BY <1>1 DEF StartSplay
    <2> QED
      BY <2>1, <2>2 DEF SetStep, Answered, Returns
  <1>2. ASSUME NEW o, NEW k, OnEmpty(o, k), o = "insert" => k \in Keys
        PROVE  SplayInv' /\ SetStep /\ Answered
    <2>1. SplayInv' /\ KeysIn = {} /\ KeysIn' = IF o = "insert" THEN {k} ELSE {}
      BY <1>2, EmptyKeeps
    <2>2. ~running
      BY <1>2 DEF OnEmpty
    <2>3. SetStep
      BY <1>2, <2>1 DEF SetStep, Ordered!Insert
    <2> QED
      BY <2>1, <2>2, <2>3 DEF Answered, Returns
  <1>3. \/ \E k \in Keys : \/ Insert(k) \/ Remove(k) \/ Find(k) \/ NextOf(k)
                           \/ \E o \in {"insert", "remove", "find"} : OnEmpty(o, k)
        \/ \E o \in {"min", "max"} : MinMax(o) \/ OnEmpty(o, Null)
    BY DEF Call
  <1>4. /\ {"insert", "remove", "find", "next", "min", "max"} \subseteq Ops \ {"none", "rejoin"}
        /\ \A k \in Keys : k \in Pointers
    BY NullFacts DEF Ops
  <1>5. ASSUME NEW k \in Keys,
               \/ Insert(k) \/ Remove(k) \/ Find(k) \/ NextOf(k)
               \/ \E o \in {"insert", "remove", "find"} : OnEmpty(o, k)
        PROVE  SplayInv' /\ SetStep /\ Answered
    <2>1. CASE Insert(k)
      BY <1>1, <1>4, <2>1 DEF Insert
    <2>2. CASE Remove(k)
      BY <1>1, <1>4, <2>2 DEF Remove
    <2>3. CASE Find(k)
      BY <1>1, <1>4, <2>3 DEF Find
    <2>4. CASE NextOf(k)
      BY <1>1, <1>4, <2>4 DEF NextOf
    <2>5. CASE \E o \in {"insert", "remove", "find"} : OnEmpty(o, k)
      BY <1>2, <2>5
    <2> QED
      BY <1>5, <2>1, <2>2, <2>3, <2>4, <2>5
  <1>6. ASSUME NEW o \in {"min", "max"}, MinMax(o) \/ OnEmpty(o, Null)
        PROVE  SplayInv' /\ SetStep /\ Answered
    <2>1. CASE MinMax(o)
      BY <1>1, <1>4, <2>1, NullFacts DEF MinMax
    <2>2. CASE OnEmpty(o, Null)
      <3>1. o # "insert"
        OBVIOUS
      <3> QED
        BY <1>2, <2>2, <3>1
    <2> QED
      BY <1>6, <2>1, <2>2
  <1> QED
    BY <1>3, <1>5, <1>6

LEMMA LoopStep ==
    ASSUME SplayInv, Loop
    PROVE  SplayInv' /\ SetStep /\ Answered
  <1>1. CASE Descend
    <2>1. SplayInv' /\ KeysIn' = KeysIn
      BY <1>1, DescendKeeps
    <2>2. running /\ op' = op
      BY <1>1 DEF Descend
    <2> QED
      BY <2>1, <2>2 DEF SetStep, Answered, Returns, running
  <1>2. CASE InsertSplayed
    <2>1. /\ SplayInv' /\ key \in Keys /\ KeysIn' = KeysIn \cup {key}
          /\ result' = Ordered!At(key)
      BY <1>2, InsertKeeps
    <2>2. op = "insert"
      BY <1>2 DEF InsertSplayed
    <2> QED
      BY <2>1, <2>2 DEF SetStep, Answered, Ordered!Insert
  <1>3. CASE RemoveSplayed
    <2>1. /\ SplayInv' /\ key \in Keys
          /\ \/ op' = "rejoin" /\ KeysIn' = KeysIn
             \/ op' = "none" /\ KeysIn' = KeysIn \ {key} /\ result' = Ordered!At(key)
      BY <1>3, RemoveKeeps
    <2>2. op = "remove"
      BY <1>3 DEF RemoveSplayed
    <2>3. SetStep
      BY <2>1 DEF SetStep, Ordered!Remove
    <2> QED
      BY <2>1, <2>2, <2>3 DEF Answered, Returns
  <1>4. CASE Rejoin
    <2>1. /\ SplayInv' /\ key \in KeysIn /\ key \in Keys /\ KeysIn' = KeysIn \ {key}
          /\ result' = Ordered!At(key)
      BY <1>4, RejoinKeeps
    <2>2. op = "rejoin"
      BY <1>4 DEF Rejoin
    <2> QED
      BY <2>1, <2>2 DEF SetStep, Answered, Ordered!Remove
  <1>5. CASE QuerySplayed
    <2>1. /\ SplayInv' /\ KeysIn' = KeysIn
          /\ result' = CASE op = "next" -> Ordered!After(key)
                          [] op = "min" -> Ordered!First
                          [] op = "max" -> Ordered!Last
                          [] OTHER -> Ordered!At(key)
          /\ op \in {"find", "next"} => root' \in Neighbours(key)
      BY <1>5, QueryKeeps
    <2> QED
      BY ONLY <2>1 DEF SetStep, Answered
  <1> QED
    BY <1>1, <1>2, <1>3, <1>4, <1>5 DEF Loop

LEMMA SplayStep ==
    ASSUME SplayInv, [Call \/ Loop]_splayVars
    PROVE  SplayInv' /\ SetStep /\ [Answered]_splayVars
  <1>1. CASE Call
    BY <1>1, CallStep
  <1>2. CASE Loop
    BY <1>2, LoopStep
  <1>3. CASE UNCHANGED splayVars
    <2>1. /\ root' = root /\ child' = child /\ op' = op /\ key' = key /\ tail' = tail
          /\ held' = held /\ result' = result
      BY <1>3 DEF splayVars
    <2>2. Links' = Links
      BY <2>1 DEF Links
    <2>3. KeysIn' = KeysIn
      BY <2>1, <2>2 DEF KeysIn, Below, Smaller, Larger
    <2>4. PICK d : Good(d)
      BY DEF SplayInv
    <2>5. Searching(Links, d)' <=> Searching(Links, d)
      BY <2>1, <2>2 DEF Searching, Toward
    <2>6. Good(d)'
      BY <2>1, <2>2, <2>4, <2>5 DEF Good, running, Part
    <2> QED
      BY <1>3, <2>1, <2>3, <2>6 DEF SplayInv, running, SetStep
  <1> QED
    BY <1>1, <1>2, <1>3

LEMMA SplayInvSorted == SplayInv => StaysSorted
  <1> SUFFICES ASSUME SplayInv PROVE StaysSorted
    OBVIOUS
  <1>1. PICK d : Good(d)
    BY DEF SplayInv
  <1>2. Forest(Links, d, root, held) /\ Tails(Links, d, tail)
    BY <1>1 DEF Good
  <1>3. /\ KeysIn = All(Links, d, root, held) \cup (IF op = "rejoin" THEN {key} ELSE {})
        /\ \A n \in Pointers : Below[n] = d[n]
        /\ Smaller = d[Part(Links, "left")] /\ Larger = d[Part(Links, "right")]
    BY <1>2, KeysAre
  <1>4. Tree(Links, d) /\ root \in Pointers /\ held \in Pointers
    BY <1>2 DEF Forest
  <1>5. SplayTypes
    <2>1. \A s \in Sides : child[s] \in [Keys \cup {Node} -> Pointers]
      BY DEF SplayInv, Linking, Places
    <2>2. running => root # Null
      BY NullFacts DEF SplayInv
    <2>3. tail \in [Sides -> Keys \cup {Node}]
      BY <1>2 DEF Tails, Places
    <2> QED
      BY <1>4, <2>1, <2>2, <2>3 DEF SplayInv, SplayTypes
  <1>6. ASSUME NEW n \in KeysIn \ {IF op = "rejoin" THEN key ELSE Null}
        PROVE  /\ \A m \in Below[Links["left"][n]] : m < n
               /\ \A m \in Below[Links["right"][n]] : m > n
    <2>1. n \in Keys
      <3>1. All(Links, d, root, held) \subseteq Keys
        BY <1>2, Disjoint, SideFacts DEF All
      <3> QED
        BY <1>3, <1>6, <3>1
    <2>2. /\ Links["left"][n] \in Pointers /\ Links["right"][n] \in Pointers
      BY <1>4, <2>1, LinkTypes, SideFacts DEF Tree
    <2>3. /\ \A m \in d[Links["left"][n]] : On("left", m, n) /\ m \in Keys
          /\ \A m \in d[Links["right"][n]] : On("right", m, n) /\ m \in Keys
      BY <1>4, <2>1, <2>2, BelowFacts, SideFacts DEF Tree, IsSorted
    <2>4. /\ \A m \in d[Links["left"][n]] : m < n
          /\ \A m \in d[Links["right"][n]] : m > n
      BY <2>1, <2>3, KeysAreIntegers DEF On
    <2> QED
      BY <1>3, <2>2, <2>4
  <1>7. /\ Below[root] = d[root] /\ Below[held] = d[held]
        /\ d[root] \subseteq Keys /\ d[held] \subseteq Keys
        /\ Smaller \subseteq Keys /\ Larger \subseteq Keys
    BY <1>2, <1>3, <1>4, Disjoint, SideFacts
  <1>8. Apart(Links, d, root, held)
    BY <1>2 DEF Forest
  <1>9. /\ \A m \in Smaller : /\ \A n \in d[root] : On("left", m, n)
                              /\ \A n \in Larger : On("left", m, n)
                              /\ \A n \in d[held] : m < n
        /\ \A m \in Larger : /\ \A n \in d[root] : On("right", m, n)
                             /\ \A n \in d[held] : m < n
        /\ \A m \in d[root], n \in d[held] : m < n
    BY <1>3, <1>8, SideFacts DEF Apart
  <1>10. /\ \A m \in Smaller : \A n \in d[root] \cup Larger \cup d[held] : m < n
         /\ \A m \in d[root] : \A n \in Larger \cup d[held] : m < n
         /\ \A m \in Larger : \A n \in d[held] : m < n
    BY <1>7, <1>9 DEF On
  <1> QED
    BY <1>5, <1>6, <1>7, <1>10 DEF StaysSorted

(* At every step of every operation, in the middle of a splay too, the     *)
(* trees are search trees that lie apart, in order: SPLAY and the macros   *)
(* it is made of, SPLAY_INSERT and SPLAY_REMOVE keep them so.              *)
THEOREM SplayStaysSorted == SplaySpec => []StaysSorted
  <1>1. SplayInv /\ [Call \/ Loop]_splayVars => SplayInv'
    BY SplayStep
  <1> QED
    BY <1>1, SplayInit, SplayInvSorted, PTL DEF SplaySpec

(* Splaying loses and duplicates no element: a splay tree implements the   *)
(* abstract ordered set, SPLAY_INSERT and SPLAY_REMOVE are its insertion   *)
(* and its removal, and every other step leaves the set as it is.          *)
THEOREM SplayKeysAreASet == SplaySpec => IsOrderedSet
  <1>1. InitSplay => KeysIn = {}
    BY SplayInit
  <1>2. SplayInv /\ [Call \/ Loop]_splayVars => SplayInv'
    BY SplayStep
  <1>3. SplayInv /\ [Call \/ Loop]_splayVars =>
          [\E k \in Keys : Ordered!Insert(k) \/ Ordered!Remove(k)]_(KeysIn)
    BY SplayStep DEF SetStep
  <1> QED
    BY <1>1, <1>2, <1>3, SplayInit, PTL DEF SplaySpec, IsOrderedSet, Ordered!SetSpec

(* SPLAY_FIND, SPLAY_NEXT, SPLAY_MIN, SPLAY_MAX, SPLAY_INSERT and          *)
(* SPLAY_REMOVE return what the set answers, and find and next leave the   *)
(* element that was looked for, or a neighbour of its place, at the top.   *)
THEOREM SplayAnswersAsASet == SplaySpec => AnswersAsOrderedSet
  <1>1. SplayInv /\ [Call \/ Loop]_splayVars => SplayInv' /\ [Answered]_splayVars
    BY SplayStep
  <1>2. SplayInv /\ [Call \/ Loop]_splayVars =>
          [Returns =>
             /\ result' = CASE op = "next" -> Ordered!After(key)
                            [] op = "min" -> Ordered!First
                            [] op = "max" -> Ordered!Last
                            [] OTHER -> Ordered!At(key)
             /\ op \in {"find", "next"} => root' \in Neighbours(key)]_splayVars
    BY <1>1 DEF Answered
  <1> QED
    BY <1>1, <1>2, SplayInit, PTL DEF SplaySpec, AnswersAsOrderedSet
=============================================================================
