-------------------------- MODULE RBForeach_proofs --------------------------
(***************************************************************************)
(* Proofs about the loops over a red-black tree that their body changes,   *)
(* for any set of keys, trees of any size, and any bodies.                 *)
(***************************************************************************)
EXTENDS RBForeach, RBTree_proofs

(* m lies beyond n on the side s.                                          *)
Past(s, n, m) == n # m /\ Toward(m, n) = s

LEMMA PastFacts ==
    /\ \A m, n \in Keys : Past("right", n, m) <=> n < m
    /\ \A m, n \in Keys : Past("left", n, m) <=> m < n
    /\ \A s \in Sides : \A k, m, n \in Keys : Past(s, k, m) /\ Past(s, m, n) => Past(s, k, n)
    /\ \A s \in Sides : \A m, n \in Keys :
          /\ m # n => Past(s, n, m) \/ Past(s, m, n)
          /\ Toward(m, n) = Other(s) /\ m # n <=> Past(s, m, n)
  BY KeysAreIntegers DEF Past, Toward, Sides, Other

(* A finite set of keys that is not empty has an end on either side.       *)
LEMMA EndExists ==
    ASSUME NEW S \in SUBSET Keys, IsFiniteSet(S), S # {}, NEW s \in Sides
    PROVE  \E e \in S : IsEnd(e, S, s)
  <1> DEFINE Further(i) == {j \in S : Past(s, i, j)}
             F == {Further(i) : i \in S}
             R == StrictSubsetOrdering(Keys)
  <1>1. F \subseteq FiniteSubsetsOf(Keys)
    BY FS_Subset DEF FiniteSubsetsOf
  <1>2. F # {}
    OBVIOUS
  <1>3. IsWellFoundedOn(R, FiniteSubsetsOf(Keys))
    BY FS_StrictSubsetOrderingWellFounded
  <1> HIDE DEF F, R
  <1>4. \E X \in F : \A Y \in F : ~(<<Y, X>> \in R)
    BY <1>1, <1>2, <1>3, WFMin
  <1>5. PICK e \in S : \A Y \in F : ~(<<Y, Further(e)>> \in R)
    BY <1>4 DEF F
  <1>6. ASSUME NEW m \in S, m # e PROVE Toward(e, m) = s
    <2> SUFFICES ASSUME Toward(e, m) # s PROVE FALSE
      OBVIOUS
    <2>1. m \in Keys /\ e \in Keys
      OBVIOUS
    <2>2. Past(s, e, m)
      <3>1. Past(s, e, m) \/ Past(s, m, e)
        BY <1>6, <2>1, PastFacts
      <3> QED
        BY <3>1 DEF Past
    <2>3. m \in Further(e) /\ m \notin Further(m)
      BY <2>2 DEF Past
    <2>4. Further(m) \subseteq Further(e)
      BY <2>1, <2>2, PastFacts
    <2>5. Further(m) \in F /\ Further(m) \in SUBSET Keys /\ Further(e) \in SUBSET Keys
      BY DEF F
    <2>6. <<Further(m), Further(e)>> \in R
      BY <2>3, <2>4, <2>5 DEF R, StrictSubsetOrdering
    <2> QED
      BY <1>5, <2>5, <2>6
  <1> QED
    BY <1>6 DEF IsEnd

-----------------------------------------------------------------------------
(* What the macro computes, between operations: the first element of the   *)
(* tree in the direction of the loop, and the one after a given one.       *)
LEMMA TreeIs ==
    ASSUME Inv
    PROVE  \E d : Tree(tree, d) /\ KeysIn(tree) = d[tree.root]
  BY DEF Inv, Sound, IsRedBlack

LEMMA KeysInFacts ==
    ASSUME Inv
    PROVE  KeysIn(tree) \in SUBSET Keys /\ IsFiniteSet(KeysIn(tree))
  <1>1. PICK d : Tree(tree, d) /\ KeysIn(tree) = d[tree.root]
    BY TreeIs
  <1> QED
    BY <1>1, BelowFacts, TreeTypes DEF Tree

LEMMA FirstIs ==
    ASSUME Inv, NEW s \in Sides, KeysIn(tree) # {}
    PROVE  LET e == Extreme(tree, Other(s), tree.root)
           IN e \in KeysIn(tree) /\ \A k \in KeysIn(tree) : k # e => Past(s, e, k)
  <1> DEFINE e == Extreme(tree, Other(s), tree.root)
  <1>1. PICK d : Tree(tree, d) /\ KeysIn(tree) = d[tree.root]
    BY TreeIs
  <1>2. Other(s) \in Sides
    BY SideFacts
  <1>3. e = End(KeysIn(tree), Other(s))
    BY <1>1, <1>2, ExtremeIsEnd
  <1>4. PICK f \in KeysIn(tree) : IsEnd(f, KeysIn(tree), Other(s))
    BY <1>2, KeysInFacts, EndExists
  <1>5. e = f
    BY <1>2, <1>3, <1>4, KeysInFacts, EndIs
  <1> HIDE DEF e
  <1>6. ASSUME NEW k \in KeysIn(tree), k # e PROVE Past(s, e, k)
    BY <1>4, <1>5, <1>6, KeysInFacts, PastFacts DEF IsEnd
  <1> QED
    BY <1>4, <1>5, <1>6 DEF e

LEMMA AfterIs ==
    ASSUME Inv, NEW s \in Sides, NEW n \in KeysIn(tree)
    PROVE  LET e == After(s, n)
           IN \/ e = Null /\ \A k \in KeysIn(tree) : ~Past(s, n, k)
              \/ /\ e \in KeysIn(tree) /\ Past(s, n, e)
                 /\ \A k \in KeysIn(tree) : Past(s, n, k) => k = e \/ Past(s, e, k)
  <1> DEFINE e == After(s, n)
             N == {j \in KeysIn(tree) : j # n /\ Toward(j, n) = s}
  <1>1. PICK d : Tree(tree, d) /\ KeysIn(tree) = d[tree.root]
    BY TreeIs
  <1>2. Other(s) \in Sides /\ n \in Keys /\ n # Null
    BY SideFacts, KeysInFacts, NullIsNoKey
  <1>3. e = End(N, Other(s))
    BY <1>1, <1>2, StepIs DEF After
  <1>4. N \in SUBSET Keys /\ IsFiniteSet(N)
    BY KeysInFacts, FS_Subset
  <1>5. \A k \in KeysIn(tree) : k \in N <=> Past(s, n, k)
    BY DEF Past
  <1> HIDE DEF e
  <1>6. CASE N = {}
    <2>1. e = Null
      BY <1>2, <1>3, <1>4, <1>6, EndIs
    <2> QED
      BY <1>5, <1>6, <2>1 DEF e
  <1>7. CASE N # {}
    <2>1. PICK f \in N : IsEnd(f, N, Other(s))
      BY <1>2, <1>4, <1>7, EndExists
    <2>2. e = f
      BY <1>2, <1>3, <1>4, <2>1, EndIs
    <2>3. ASSUME NEW k \in N, k # f PROVE Past(s, f, k)
      <3>1. f \in Keys /\ k \in Keys /\ Toward(f, k) = Other(s)
        BY <1>4, <2>1, <2>3 DEF IsEnd
      <3> QED
        BY <2>3, <3>1, PastFacts
    <2>4. f \in KeysIn(tree) /\ Past(s, n, f)
      BY <1>5, <2>1
    <2> QED
      BY <1>5, <2>2, <2>3, <2>4 DEF e
  <1> QED
    BY <1>6, <1>7

-----------------------------------------------------------------------------
(* The element that the macro has saved is in the tree, beyond the one     *)
(* that the body works on, and what the loop must still come to is there   *)
(* or further on.                                                          *)
Loop ==
    /\ side \in Sides /\ x \in Pointers
    /\ y \in KeysIn(tree) \cup {Null}
    /\ missing \subseteq KeysIn(tree)
    /\ x = Null => y = Null
    /\ x # Null /\ y # Null => Past(side, x, y)
    /\ \A k \in missing : y # Null /\ (k = y \/ Past(side, y, k))

LoopInv == Inv /\ Loop

LEMMA InitLoopInv == ASSUME InitLoop PROVE LoopInv
  BY InitInv DEF InitLoop, LoopInv, Loop, Sides, Pointers

LEMMA BeginKeeps ==
    ASSUME LoopInv, NEW s \in Sides, Begin(s)
    PROVE  LoopInv'
  <1>1. Inv' /\ KeysIn(tree') = KeysIn(tree)
    BY NextInv DEF LoopInv, Begin, vars
  <1>2. /\ x' \in KeysIn(tree)
        /\ \A k \in KeysIn(tree) : k # x' => Past(s, x', k)
    BY FirstIs DEF LoopInv, Begin
  <1>3. /\ side' = s /\ y' = After(s, x')
        /\ missing' = KeysIn(tree) \ {x'}
    BY DEF Begin
  <1>4. \/ y' = Null /\ \A k \in KeysIn(tree) : ~Past(s, x', k)
        \/ /\ y' \in KeysIn(tree) /\ Past(s, x', y')
           /\ \A k \in KeysIn(tree) : Past(s, x', k) => k = y' \/ Past(s, y', k)
    BY <1>2, <1>3, AfterIs DEF LoopInv
  <1>5. x' \in Pointers /\ x' # Null /\ Null \notin KeysIn(tree)
    BY <1>2, KeysInFacts, NullIsNoKey DEF LoopInv, Pointers
  <1> QED
    BY <1>1, <1>2, <1>3, <1>4, <1>5 DEF LoopInv, Loop

LEMMA AdvanceKeeps ==
    ASSUME LoopInv, Advance
    PROVE  LoopInv'
  <1>1. Inv' /\ KeysIn(tree') = KeysIn(tree)
    BY NextInv DEF LoopInv, Advance, vars
  <1>2. /\ side' = side /\ x' = y /\ y' = After(side, y)
        /\ missing' = missing \ {y}
    BY DEF Advance
  <1>3. Loop
    BY DEF LoopInv
  <1>4. KeysIn(tree) \subseteq Keys /\ Null \notin KeysIn(tree)
    BY KeysInFacts, NullIsNoKey DEF LoopInv
  <1>5. CASE y = Null
    <2>1. y' = Null /\ missing' = {}
      BY <1>2, <1>3, <1>5 DEF After, Loop
    <2> QED
      BY <1>1, <1>2, <1>3, <1>5, <2>1 DEF LoopInv, Loop, Pointers
  <1>6. CASE y # Null
    <2>1. y \in KeysIn(tree) /\ side \in Sides
      BY <1>3, <1>6 DEF Loop
    <2>2. \/ y' = Null /\ \A k \in KeysIn(tree) : ~Past(side, y, k)
          \/ /\ y' \in KeysIn(tree) /\ Past(side, y, y')
             /\ \A k \in KeysIn(tree) : Past(side, y, k) => k = y' \/ Past(side, y', k)
      BY <1>2, <2>1, AfterIs DEF LoopInv
    <2>3. y \in Pointers
      BY <1>4, <2>1 DEF Pointers
    <2>4. \A k \in missing' : k \in KeysIn(tree) /\ Past(side, y, k)
      BY <1>2, <1>3 DEF Loop
    <2>5. \A k \in missing' : y' # Null /\ (k = y' \/ Past(side, y', k))
      BY <1>4, <2>2, <2>4
    <2> QED
      BY <1>1, <1>2, <1>3, <1>6, <2>1, <2>2, <2>3, <2>4, <2>5 DEF LoopInv, Loop
  <1> QED
    BY <1>5, <1>6

LEMMA PutKeeps ==
    ASSUME LoopInv, NEW k \in Keys, Put(k)
    PROVE  LoopInv'
  <1>1. Inv' /\ KeysIn(tree) \subseteq KeysIn(tree')
    <2>1. CASE InsertKnown(k)
      BY <2>1, NextInv DEF LoopInv, InsertKnown, vars
    <2>2. CASE InsertNew(k)
      BY <2>2, InsertNewKeeps DEF LoopInv
    <2> QED
      BY <2>1, <2>2 DEF Put
  <1> QED
    BY <1>1 DEF LoopInv, Loop, Put, cursor

LEMMA TakeKeeps ==
    ASSUME LoopInv, NEW k \in Keys, Take(k)
    PROVE  LoopInv'
  <1>1. Inv' /\ KeysIn(tree') = KeysIn(tree) \ {k}
    BY RemoveOuterKeeps, RemoveInnerKeeps DEF LoopInv, Take
  <1>2. k # y /\ missing' = missing \ {k} /\ UNCHANGED <<side, x, y>>
    BY DEF Take
  <1> QED
    BY <1>1, <1>2 DEF LoopInv, Loop

LEMMA SettleKeeps ==
    ASSUME LoopInv, Settle
    PROVE  LoopInv'
  <1>1. Inv' /\ KeysIn(tree') = KeysIn(tree)
    BY InsertRecolorKeeps, InsertRotateKeeps, InsertDoneKeeps, RemoveUpKeeps,
       RemoveRotateKeeps, RemoveDoneKeeps DEF LoopInv, Settle, Fixup
  <1> QED
    BY <1>1 DEF LoopInv, Loop, Settle, cursor

LEMMA NextLoopInv ==
    ASSUME LoopInv, [NextLoop]_loopVars
    PROVE  LoopInv'
  <1>1. CASE UNCHANGED loopVars
    <2>1. Inv' /\ KeysIn(tree') = KeysIn(tree)
      BY <1>1, NextInv DEF LoopInv, loopVars, vars
    <2> QED
      BY <1>1, <2>1 DEF LoopInv, Loop, loopVars, cursor
  <1> QED
    BY <1>1, BeginKeeps, AdvanceKeeps, PutKeeps, TakeKeeps, SettleKeeps DEF NextLoop

LEMMA AheadIs ==
    ASSUME side \in Sides, NEW m \in Keys, NEW n \in Keys
    PROVE  Ahead(m, n) <=> Past(side, m, n)
  BY PastFacts DEF Ahead, Sides

(* The saved element is in the tree whenever the loop reads it, and every  *)
(* element that was there at the beginning and is still in the tree when   *)
(* the loop passes its place is visited, whatever the body inserts and     *)
(* removes, and however the tree is rotated meanwhile.                     *)
THEOREM TreeLoopsComeToAll == LoopSpec => []ComesToAllThatStay
  <1>1. LoopInv => ComesToAllThatStay
    <2> SUFFICES ASSUME LoopInv PROVE ComesToAllThatStay
      OBVIOUS
    <2>1. KeysIn(tree) \subseteq Keys
      BY KeysInFacts DEF LoopInv
    <2>2. \A k \in missing : y # Null /\ (k = y \/ Ahead(y, k))
      BY <2>1, AheadIs DEF LoopInv, Loop
    <2> QED
      BY <2>2 DEF LoopInv, Loop, ComesToAllThatStay
  <1> QED
    BY <1>1, InitLoopInv, NextLoopInv, PTL DEF LoopSpec

(* A loop goes in one direction, so that no element comes twice.           *)
THEOREM TreeLoopsGoOneWay == LoopSpec => GoesOneWay
  <1>1. LoopInv /\ [NextLoop]_loopVars
          => [x # Null /\ x' \notin {x, Null} => Ahead(x, x')]_loopVars
    <2> SUFFICES ASSUME LoopInv, NextLoop, x # Null, x' \notin {x, Null}
                 PROVE  Ahead(x, x')
      OBVIOUS
    <2>1. Advance
      BY DEF NextLoop, Begin, Put, Take, Settle, cursor
    <2>2. x' = y /\ y # Null
      BY <2>1 DEF Advance
    <2>3. Past(side, x, y) /\ side \in Sides
      BY <2>2 DEF LoopInv, Loop
    <2>4. x \in Keys /\ y \in Keys
      BY <2>2, KeysInFacts DEF LoopInv, Loop, Pointers
    <2> QED
      BY <2>2, <2>3, <2>4, AheadIs
  <1> QED
    BY <1>1, InitLoopInv, NextLoopInv, PTL DEF LoopSpec, GoesOneWay
=============================================================================
