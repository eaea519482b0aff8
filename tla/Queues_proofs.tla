--------------------------- MODULE Queues_proofs ----------------------------
(***************************************************************************)
(* The links of the lists of queue.h are always those of the sequences     *)
(* that the program made: the invariant Represented, proved for all kinds  *)
(* of list, any number of heads and any number of elements.                *)
(*                                                                         *)
(* The proof goes by effects.  The macros of one operation differ in how   *)
(* they reach the cells, not in what they do to them: there is one lemma   *)
(* for the effect of an insertion, of a removal and of a replacement, and  *)
(* one for each operation that says that its macros have that effect.      *)
(***************************************************************************)
EXTENDS Queues, SequenceTheorems, FiniteSetTheorems, WellFoundedInduction, TLAPS

(* The types of all but the loop, which has a proof of its own below. Only *)
(* LIST_MOVE leaves a back link to another head.                           *)
Shape ==
    /\ kind \in Kinds
    /\ mem \in [Cells -> Values]
    /\ lists \in [Heads -> Seq(Elements)]
    /\ origin \in [Heads -> Heads]
    /\ kind # "LIST" => \A h \in Heads : origin[h] = h

(* An element that is in no list has nothing in its next link. Without     *)
(* that the walk of REMOVE could not be followed: it is a function of all  *)
(* elements, and must end from each of them.                               *)
Linked(e) == \E g \in Heads : \E i \in 1..Len(lists[g]) : lists[g][i] = e
Unlinked == \A e \in Elements : Linked(e) \/ mem[NextOf(e)] = Poison

(* The inductive invariant.                                                *)
IInv == Shape /\ Represented /\ Unlinked

(* What an insertion of e as the p-th of list h does to the four kinds of  *)
(* cell, whatever the kind of the list and the macro: one lemma on the     *)
(* effect (InsertionKeeps) serves all insertions, each of which is shown   *)
(* to have it.                                                             *)
CellOf(e) == IF kind = "CIRCLEQ" THEN e ELSE NextOf(e)

FirstInserted(h, p, e) ==
    \A g \in Heads : mem'[FirstOf(g)] = IF p = 1 /\ g = h THEN e ELSE mem[FirstOf(g)]
NextInserted(h, p, e) ==
    \A x \in Elements :
        mem'[NextOf(x)] = IF x = e THEN Succ(h, p)
                          ELSE IF p > 1 /\ x = lists[h][p - 1] THEN e ELSE mem[NextOf(x)]
PrevInserted(h, p, e) ==
    \A x \in Elements :
        mem'[PrevOf(x)] = IF x = e THEN BackAt(h, p)
                          ELSE IF p <= Len(lists[h]) /\ x = lists[h][p] THEN CellOf(e)
                          ELSE mem[PrevOf(x)]
LastInserted(h, p, e) ==
    \A g \in Heads :
        mem'[LastOf(g)] = IF p = Len(lists[h]) + 1 /\ g = h THEN CellOf(e) ELSE mem[LastOf(g)]

LastKept == \A g \in Heads : mem'[LastOf(g)] = mem[LastOf(g)]

-----------------------------------------------------------------------------
(* Facts about sequences, cells and values                                 *)
LEMMA WithIsSeq ==
  ASSUME NEW T, NEW s \in Seq(T), NEW i \in 1..Len(s) + 1, NEW e \in T
  PROVE  /\ With(s, i, e) \in Seq(T)
         /\ Len(With(s, i, e)) = Len(s) + 1
         /\ \A j \in 1..Len(s) + 1 :
          With(s, i, e)[j] = IF j < i THEN s[j] ELSE IF j = i THEN e ELSE s[j - 1]
<1> DEFINE n == Len(s) + 1
           W == With(s, i, e)
<1>1. n \in Nat BY LenProperties
<1>2. \A j \in 1..n : (IF j < i THEN s[j] ELSE IF j = i THEN e ELSE s[j - 1]) \in T
  BY ElementOfSeq, SMT
<1>3. W \in [1..n -> T] BY <1>2, SMT DEF With
<1>4. W \in Seq(T) BY <1>1, <1>3, SMT
<1>5. Len(W) = n BY <1>1, <1>3, <1>4, SMT
<1>6. \A j \in 1..n : W[j] = IF j < i THEN s[j] ELSE IF j = i THEN e ELSE s[j - 1]
  BY <1>1, SMT DEF With
<1> QED BY <1>4, <1>5, <1>6

LEMMA CellFacts ==
  /\ \A h \in Heads : FirstOf(h) \in Cells /\ LastOf(h) \in Cells
  /\ \A e \in Elements : NextOf(e) \in Cells /\ PrevOf(e) \in Cells
  /\ \A h, g \in Heads : /\ FirstOf(h) = FirstOf(g) => h = g
                         /\ LastOf(h) = LastOf(g) => h = g
                         /\ FirstOf(h) # LastOf(g)
  /\ \A d, e \in Elements : /\ NextOf(d) = NextOf(e) => d = e
                            /\ PrevOf(d) = PrevOf(e) => d = e
                            /\ NextOf(d) # PrevOf(e)
  /\ \A h \in Heads, e \in Elements :
        /\ FirstOf(h) # NextOf(e) /\ FirstOf(h) # PrevOf(e)
        /\ LastOf(h) # NextOf(e) /\ LastOf(h) # PrevOf(e)
BY SMT DEF Cells, FirstOf, LastOf, NextOf, PrevOf

LEMMA ValueFacts ==
  /\ Elements \subseteq Values /\ Heads \subseteq Values /\ Cells \subseteq Values
  /\ Null \in Values /\ Poison \in Values
BY DEF Values

LEMMA ListTypes ==
  ASSUME Shape
  PROVE  \A h \in Heads :
            /\ Len(lists[h]) \in Nat /\ DOMAIN lists[h] = 1..Len(lists[h])
            /\ \A i \in 1..Len(lists[h]) : lists[h][i] \in Elements
<1> SUFFICES ASSUME NEW h \in Heads
             PROVE  /\ Len(lists[h]) \in Nat /\ DOMAIN lists[h] = 1..Len(lists[h])
                    /\ \A i \in 1..Len(lists[h]) : lists[h][i] \in Elements
  OBVIOUS
<1>1. lists[h] \in Seq(Elements) BY DEF Shape
<1>2. Len(lists[h]) \in Nat /\ DOMAIN lists[h] = 1..Len(lists[h]) BY <1>1, LenProperties
<1>3. \A i \in 1..Len(lists[h]) : lists[h][i] \in Elements BY <1>1, ElementOfSeq
<1> QED BY <1>2, <1>3

-----------------------------------------------------------------------------
(* Insertion: an element of no list, and what becomes of the sequences     *)
LEMMA Unused ==
  ASSUME Shape, NEW e \in Elements, e \notin InUse
  PROVE  \A g \in Heads : \A i \in 1..Len(lists[g]) : lists[g][i] # e
<1> SUFFICES ASSUME NEW g \in Heads, NEW i \in 1..Len(lists[g]), lists[g][i] = e
             PROVE  FALSE
  OBVIOUS
<1>1. i \in DOMAIN lists[g] BY ListTypes
<1>2. e \in Listed(g) BY <1>1 DEF Listed
<1> QED BY <1>2 DEF InUse

LEMMA ListsInserted ==
  ASSUME Shape, OnceEach, NEW h \in Heads, NEW p \in 1..Len(lists[h]) + 1,
         NEW e \in Elements, e \notin InUse, lists' = [lists EXCEPT ![h] = With(@, p, e)]
  PROVE  /\ lists' \in [Heads -> Seq(Elements)]
         /\ OnceEach'
         /\ \A g \in Heads \ {h} : lists'[g] = lists[g]
         /\ Len(lists'[h]) = Len(lists[h]) + 1
         /\ \A j \in 1..Len(lists[h]) + 1 :
          lists'[h][j] = IF j < p THEN lists[h][j] ELSE IF j = p THEN e ELSE lists[h][j - 1]
<1>1. lists[h] \in Seq(Elements) /\ lists \in [Heads -> Seq(Elements)] BY DEF Shape
<1>2. lists'[h] = With(lists[h], p, e) BY <1>1
<1>3. \A g \in Heads \ {h} : lists'[g] = lists[g] BY <1>1
<1>4. /\ lists'[h] \in Seq(Elements) /\ Len(lists'[h]) = Len(lists[h]) + 1
      /\ \A j \in 1..Len(lists[h]) + 1 :
          lists'[h][j] = IF j < p THEN lists[h][j] ELSE IF j = p THEN e ELSE lists[h][j - 1]
  <2>1. With(lists[h], p, e) \in Seq(Elements) BY <1>1, WithIsSeq
  <2>2. Len(With(lists[h], p, e)) = Len(lists[h]) + 1 BY <1>1, WithIsSeq
  <2>3. \A j \in 1..Len(lists[h]) + 1 :
          With(lists[h], p, e)[j] =
            IF j < p THEN lists[h][j] ELSE IF j = p THEN e ELSE lists[h][j - 1]
    BY DEF With
  <2> QED BY <1>2, <2>1, <2>2, <2>3
<1>5. lists' \in [Heads -> Seq(Elements)] BY <1>1, <1>2, <1>4, SMT
<1>6. OnceEach'
  <2>1. \A h3, h4 \in Heads : \A k \in 1..Len(lists[h3]), l \in 1..Len(lists[h4]) :
            lists[h3][k] = lists[h4][l] => h3 = h4 /\ k = l
    BY ListTypes DEF OnceEach
  <2>2. \A g \in Heads : Len(lists[g]) \in Nat BY ListTypes
  <2>3. ASSUME NEW g \in Heads, NEW i \in 1..Len(lists'[g])
        PROVE  \/ g = h /\ i = p /\ lists'[g][i] = e
               \/ g = h /\ i < p /\ i \in 1..Len(lists[h]) /\ lists'[g][i] = lists[h][i]
               \/ g = h /\ i > p /\ i - 1 \in 1..Len(lists[h]) /\ lists'[g][i] = lists[h][i - 1]
               \/ g # h /\ i \in 1..Len(lists[g]) /\ lists'[g][i] = lists[g][i]
    <3>1. CASE g # h BY <1>3, <3>1
    <3>2. CASE g = h BY <1>4, <2>2, <3>2, SMT
    <3> QED BY <3>1, <3>2
  <2>4. \A g \in Heads : \A i \in 1..Len(lists[g]) : lists[g][i] # e BY Unused
  <2>5. \A g \in Heads : DOMAIN lists'[g] = 1..Len(lists'[g]) BY <1>5, LenProperties
  <2> SUFFICES ASSUME NEW h1 \in Heads, NEW h2 \in Heads,
                      NEW i \in DOMAIN lists'[h1], NEW j \in DOMAIN lists'[h2],
                      lists'[h1][i] = lists'[h2][j]
               PROVE  h1 = h2 /\ i = j
    BY DEF OnceEach
  <2>a. i \in 1..Len(lists'[h1]) /\ j \in 1..Len(lists'[h2]) BY <2>5
  <2>6. i \in Int /\ j \in Int BY <2>a
  <2>7. \/ h1 = h /\ i = p /\ lists'[h1][i] = e
        \/ h1 = h /\ i < p /\ i \in 1..Len(lists[h]) /\ lists'[h1][i] = lists[h][i]
        \/ h1 = h /\ i > p /\ i - 1 \in 1..Len(lists[h]) /\ lists'[h1][i] = lists[h][i - 1]
        \/ h1 # h /\ i \in 1..Len(lists[h1]) /\ lists'[h1][i] = lists[h1][i]
    BY <2>3, <2>a
  <2>8. \/ h2 = h /\ j = p /\ lists'[h2][j] = e
        \/ h2 = h /\ j < p /\ j \in 1..Len(lists[h]) /\ lists'[h2][j] = lists[h][j]
        \/ h2 = h /\ j > p /\ j - 1 \in 1..Len(lists[h]) /\ lists'[h2][j] = lists[h][j - 1]
        \/ h2 # h /\ j \in 1..Len(lists[h2]) /\ lists'[h2][j] = lists[h2][j]
    BY <2>3, <2>a
  <2>9. \A h3 \in Heads : \A k \in 1..Len(lists[h]), l \in 1..Len(lists[h3]) :
            lists[h][k] = lists[h3][l] => h = h3 /\ k = l
    BY <2>1
  <2>10. CASE h1 = h /\ h2 = h BY <2>4, <2>6, <2>7, <2>8, <2>9, <2>10, SMTT(20)
  <2>11. CASE h1 = h /\ h2 # h
    <3>1. \A k \in 1..Len(lists[h]), l \in 1..Len(lists[h2]) : lists[h][k] # lists[h2][l]
      BY <2>9, <2>11
    <3> QED BY <2>4, <2>7, <2>8, <2>11, <3>1
  <2>12. CASE h1 # h /\ h2 = h
    <3>1. \A k \in 1..Len(lists[h]), l \in 1..Len(lists[h1]) : lists[h][k] # lists[h1][l]
      BY <2>9, <2>12
    <3> QED BY <2>4, <2>7, <2>8, <2>12, <3>1
  <2>13. CASE h1 # h /\ h2 # h BY <2>1, <2>7, <2>8, <2>13
  <2> QED BY <2>10, <2>11, <2>12, <2>13
<1> QED BY <1>3, <1>4, <1>5, <1>6

(* Whatever has the effect of an insertion keeps the invariant.            *)
LEMMA InsertionKeeps ==
  ASSUME IInv, NEW h \in Heads, NEW p \in 1..Len(lists[h]) + 1,
         NEW e \in Elements, e \notin InUse, lists' = [lists EXCEPT ![h] = With(@, p, e)],
         kind' = kind,
         mem' \in [Cells -> Values],
         FirstInserted(h, p, e), NextInserted(h, p, e),
         Doubly => PrevInserted(h, p, e),
         Tailed => LastInserted(h, p, e), ~Tailed => LastKept,
         origin' \in [Heads -> Heads], \A g \in Heads \ {h} : origin'[g] = origin[g],
         origin'[h] = IF p = 1 THEN h ELSE origin[h]
  PROVE  IInv'
<1>0. Represented /\ OnceEach /\ Shape BY DEF IInv, Represented
<1>a. /\ lists' \in [Heads -> Seq(Elements)]
      /\ OnceEach'
      /\ \A g \in Heads \ {h} : lists'[g] = lists[g]
      /\ Len(lists'[h]) = Len(lists[h]) + 1
      /\ \A j \in 1..Len(lists[h]) + 1 :
          lists'[h][j] = IF j < p THEN lists[h][j] ELSE IF j = p THEN e ELSE lists[h][j - 1]
  <2>1. Shape /\ OnceEach BY <1>0
  <2>2. lists' \in [Heads -> Seq(Elements)] BY <2>1, ListsInserted
  <2>3. OnceEach' BY <2>1, ListsInserted
  <2>4. \A g \in Heads \ {h} : lists'[g] = lists[g] BY <2>1, ListsInserted
  <2>5. Len(lists'[h]) = Len(lists[h]) + 1 BY <2>1, ListsInserted
  <2>6. \A j \in 1..Len(lists[h]) + 1 :
          lists'[h][j] = IF j < p THEN lists[h][j] ELSE IF j = p THEN e ELSE lists[h][j - 1]
    <3>1. lists'[h] = With(lists[h], p, e) BY <2>1 DEF Shape
    <3>2. Len(lists[h]) \in Nat BY <2>1, ListTypes
    <3> QED BY <3>1, <3>2, SMT DEF With
  <2> QED BY <2>2, <2>3, <2>4, <2>5, <2>6
<1> DEFINE s == lists[h]
           n == Len(s)
           t == lists'[h]
<1>1. /\ lists' \in [Heads -> Seq(Elements)]
      /\ OnceEach'
      /\ \A g \in Heads \ {h} : lists'[g] = lists[g]
      /\ Len(t) = n + 1
      /\ \A j \in 1..n + 1 : t[j] = IF j < p THEN s[j] ELSE IF j = p THEN e ELSE s[j - 1]
  BY <1>a
<1>2. Shape'
  <2>1. kind # "LIST" => \A g \in Heads : origin'[g] = g BY <1>0, SMT DEF Shape
  <2> QED BY <1>0, <1>1, <2>1 DEF Shape
<1>3. \A g : EndOf(g)' = EndOf(g) BY DEF EndOf
<1>4. /\ \A h1, h2 \in Heads : \A i \in 1..Len(lists[h1]), j \in 1..Len(lists[h2]) :
                lists[h1][i] = lists[h2][j] => h1 = h2 /\ i = j
      /\ \A g \in Heads : \A i \in 1..Len(lists[g]) : lists[g][i] # e /\ lists[g][i] \in Elements
      /\ \A g \in Heads : Len(lists[g]) \in Nat
  <2>1. \A g \in Heads : /\ Len(lists[g]) \in Nat /\ DOMAIN lists[g] = 1..Len(lists[g])
                         /\ \A i \in 1..Len(lists[g]) : lists[g][i] # e /\ lists[g][i] \in Elements
    BY <1>0, ListTypes, Unused
  <2> QED BY <1>0, <2>1 DEF OnceEach
<1>5. n \in Nat /\ p \in 1..n + 1 BY <1>4
<1>6. ASSUME NEW i \in 1..n PROVE s[i] # e /\ s[i] \in Elements /\ \A j \in 1..n : s[j] = s[i] => i = j
  BY <1>4
<1>7. ASSUME NEW g \in Heads, g # h, NEW i \in 1..Len(lists[g])
      PROVE  /\ lists[g][i] # e /\ lists[g][i] \in Elements
             /\ \A j \in 1..n : s[j] # lists[g][i]
  BY <1>4, <1>7
<1> HIDE DEF s, n, t
<1>8. Succ(h, p) = IF p <= n THEN s[p] ELSE EndOf(h) BY DEF Succ, s, n
<1>9. ASSUME NEW g \in Heads PROVE Forward(g)'
  <2>1. mem[FirstOf(g)] = Succ(g, 1) /\ \A i \in 1..Len(lists[g]) : mem[NextOf(lists[g][i])] = Succ(g, i + 1)
    BY <1>0 DEF Represented, Forward
  <2>2. CASE g # h
    <3>1. \A i : Succ(g, i)' = Succ(g, i) BY <1>1, <1>3, <2>2 DEF Succ
    <3>2. mem'[FirstOf(g)] = Succ(g, 1)' BY <2>1, <2>2, <3>1 DEF FirstInserted
    <3>3. ASSUME NEW i \in 1..Len(lists'[g]) PROVE mem'[NextOf(lists'[g][i])] = Succ(g, i + 1)'
      <4>1. lists'[g] = lists[g] /\ i \in 1..Len(lists[g]) BY <1>1, <2>2
      <4>2. lists[g][i] # e /\ lists[g][i] \in Elements /\ (p > 1 => p - 1 \in 1..n /\ lists[g][i] # s[p - 1])
        BY <1>5, <1>7, <2>2, <4>1, SMT
      <4>3. mem'[NextOf(lists[g][i])] = mem[NextOf(lists[g][i])] BY <4>2 DEF NextInserted, s
      <4> QED BY <2>1, <3>1, <4>1, <4>3
    <3> QED BY <3>2, <3>3 DEF Forward
  <2>3. CASE g = h
    <3>1. \A i \in 1..n + 2 : Succ(h, i)' = IF i < p THEN s[i] ELSE IF i = p THEN e ELSE Succ(h, i - 1)
      BY <1>1, <1>3, <1>5, SMTT(20) DEF Succ, s, n, t
    <3>2. mem'[FirstOf(g)] = Succ(g, 1)' BY <1>5, <2>1, <2>3, <3>1, SMT DEF FirstInserted, Succ, s, n
    <3>3. ASSUME NEW i \in 1..n + 1 PROVE mem'[NextOf(t[i])] = Succ(h, i + 1)'
      <4>1. CASE i = p
        <5>1. t[i] = e BY <1>1, <4>1, SMT
        <5>2. Succ(h, i + 1)' = Succ(h, p) BY <1>5, <3>1, <4>1, SMT
        <5> QED BY <5>1, <5>2 DEF NextInserted
      <4>2. CASE i < p
        <5>1. t[i] = s[i] /\ i \in 1..n BY <1>1, <1>5, <4>2, SMT
        <5>2. CASE i = p - 1 BY <1>5, <1>6, <3>1, <5>1, <5>2, SMT DEF NextInserted, s
        <5>3. CASE i # p - 1
          <6>1. s[i] # s[p - 1] BY <1>5, <1>6, <4>2, <5>1, <5>3, SMT
          <6>2. mem'[NextOf(s[i])] = mem[NextOf(s[i])] BY <1>6, <5>1, <6>1 DEF NextInserted, s
          <6>3. mem[NextOf(s[i])] = Succ(h, i + 1) BY <2>1, <2>3, <5>1 DEF s, n
          <6>4. Succ(h, i + 1) = s[i + 1] BY <1>5, <4>2, <5>3, SMT DEF Succ, s, n
          <6>5. Succ(h, i + 1)' = s[i + 1] BY <1>5, <3>1, <4>2, <5>3, SMT
          <6> QED BY <5>1, <6>2, <6>3, <6>4, <6>5
        <5> QED BY <5>2, <5>3
      <4>3. CASE i > p
        <5>1. t[i] = s[i - 1] /\ i - 1 \in 1..n BY <1>1, <1>5, <4>3, SMT
        <5>2. p > 1 => s[i - 1] # s[p - 1] BY <1>5, <1>6, <4>3, <5>1, SMT
        <5>3. mem'[NextOf(s[i - 1])] = mem[NextOf(s[i - 1])] BY <1>6, <5>1, <5>2 DEF NextInserted, s
        <5>4. mem[NextOf(s[i - 1])] = Succ(h, i) BY <2>1, <2>3, <5>1, SMT DEF s, n
        <5>5. Succ(h, i + 1)' = Succ(h, i) BY <1>5, <3>1, <4>3, SMT
        <5> QED BY <5>1, <5>3, <5>4, <5>5
      <4> QED BY <1>5, <4>1, <4>2, <4>3, SMT
    <3> QED BY <1>1, <2>3, <3>2, <3>3 DEF Forward, n, t
  <2> QED BY <2>2, <2>3
<1>10. ASSUME NEW g \in Heads, Doubly PROVE Backward(g)'
  <2>1. \A i \in 1..Len(lists[g]) : mem[PrevOf(lists[g][i])] = BackAt(IF i = 1 THEN origin[g] ELSE g, i)
    BY <1>0, <1>10 DEF Represented, Backward
  <2>2. PrevInserted(h, p, e) BY <1>10
  <2>3. CASE g # h
    <3>1. lists'[g] = lists[g] /\ origin'[g] = origin[g] BY <1>1, <2>3
    <3>2. \A i : BackAt(IF i = 1 THEN origin[g] ELSE g, i)' = BackAt(IF i = 1 THEN origin[g] ELSE g, i)
      BY <3>1 DEF BackAt
    <3>3. ASSUME NEW i \in 1..Len(lists[g]) PROVE mem'[PrevOf(lists[g][i])] = mem[PrevOf(lists[g][i])]
      <4>1. lists[g][i] # e /\ lists[g][i] \in Elements /\ (p <= n => lists[g][i] # s[p])
        BY <1>5, <1>7, <2>3, SMT
      <4> QED BY <2>2, <4>1 DEF PrevInserted, s, n
    <3> QED BY <2>1, <3>1, <3>2, <3>3 DEF Backward
  <2>4. CASE g = h
    <3>1. \A i \in 1..n + 2 : i < p => BackAt(IF i = 1 THEN origin[g] ELSE g, i)' = BackAt(IF i = 1 THEN origin[g] ELSE g, i)
      BY <1>1, <1>5, <2>4, SMT DEF BackAt, s, n, t
    <3>2. BackAt(IF p = 1 THEN origin[g] ELSE g, p)' = BackAt(h, p)
      BY <1>1, <1>5, <2>4, SMT DEF BackAt, s, n, t
    <3>3. BackAt(h, p + 1)' = CellOf(e)
      BY <1>1, <1>5, SMT DEF BackAt, CellOf, s, n, t
    <3>4. \A i \in 1..n + 2 : i > p + 1 => BackAt(h, i)' = BackAt(h, i - 1)
      BY <1>1, <1>5, SMT DEF BackAt, s, n, t
    <3>5. ASSUME NEW i \in 1..n + 1 PROVE mem'[PrevOf(t[i])] = BackAt(IF i = 1 THEN origin[g] ELSE g, i)'
      <4>1. CASE i = p
        <5>1. t[i] = e BY <1>1, <4>1, SMT
        <5> QED BY <2>2, <3>2, <4>1, <5>1 DEF PrevInserted
      <4>2. CASE i < p
        <5>1. t[i] = s[i] /\ i \in 1..n BY <1>1, <1>5, <4>2, SMT
        <5>2. p <= n => s[i] # s[p] BY <1>5, <1>6, <4>2, <5>1, SMT
        <5>3. mem'[PrevOf(s[i])] = mem[PrevOf(s[i])] BY <1>6, <2>2, <5>1, <5>2 DEF PrevInserted, s, n
        <5>4. mem[PrevOf(s[i])] = BackAt(IF i = 1 THEN origin[g] ELSE g, i) BY <2>1, <2>4, <5>1 DEF s, n
        <5>5. i \in 1..n + 2 BY <1>5, SMT
        <5> QED BY <3>1, <4>2, <5>1, <5>3, <5>4, <5>5
      <4>3. CASE i = p + 1
        <5>1. t[i] = s[p] /\ p \in 1..n /\ i # 1 BY <1>1, <1>5, <4>3, SMT
        <5>2. mem'[PrevOf(s[p])] = CellOf(e) BY <1>5, <1>6, <2>2, <5>1, SMT DEF PrevInserted, s, n
        <5> QED BY <2>4, <3>3, <4>3, <5>1, <5>2
      <4>4. CASE i > p + 1
        <5>1. t[i] = s[i - 1] /\ i - 1 \in 1..n /\ i # 1 /\ i - 1 # 1 BY <1>1, <1>5, <4>4, SMT
        <5>2. p <= n => s[i - 1] # s[p] BY <1>5, <1>6, <4>4, <5>1, SMT
        <5>3. mem'[PrevOf(s[i - 1])] = mem[PrevOf(s[i - 1])] BY <1>6, <2>2, <5>1, <5>2 DEF PrevInserted, s, n
        <5>4. mem[PrevOf(s[i - 1])] = BackAt(h, i - 1) BY <2>1, <2>4, <5>1 DEF s, n
        <5>5. i \in 1..n + 2 BY <1>5, SMT
        <5>6. BackAt(h, i)' = BackAt(h, i - 1) BY <3>4, <4>4, <5>5
        <5> QED BY <2>4, <5>1, <5>3, <5>4, <5>6
      <4> QED BY <1>5, <4>1, <4>2, <4>3, <4>4, SMT
    <3> QED BY <1>1, <2>4, <3>5 DEF Backward, n, t
  <2> QED BY <2>3, <2>4
<1>11. ASSUME NEW g \in Heads PROVE TailAt(g)'
  <2>1. TailAt(g) BY <1>0 DEF Represented
  <2>2. CASE ~Tailed BY <2>1, <2>2 DEF LastKept, TailAt, Tailed
  <2>3. CASE Tailed
    <3>1. LastInserted(h, p, e) BY <2>3
    <3>2. mem[LastOf(g)] = BackAt(g, Len(lists[g]) + 1) BY <2>1, <2>3 DEF TailAt
    <3>3. CASE g # h
      <4>1. lists'[g] = lists[g] BY <1>1, <3>3
      <4> QED BY <2>3, <3>1, <3>2, <3>3, <4>1 DEF LastInserted, TailAt, Tailed, BackAt
    <3>4. CASE g = h
      <4>1. CASE p = n + 1
        BY <1>1, <1>5, <2>3, <3>1, <3>4, <4>1, SMT
           DEF LastInserted, TailAt, Tailed, BackAt, CellOf, s, n, t
      <4>2. CASE p # n + 1
        BY <1>1, <1>5, <2>3, <3>1, <3>2, <3>4, <4>2, SMT
           DEF LastInserted, TailAt, Tailed, BackAt, s, n, t
      <4> QED BY <4>1, <4>2
    <3> QED BY <3>3, <3>4
  <2> QED BY <2>2, <2>3
<1>12. Represented' BY <1>1, <1>9, <1>10, <1>11 DEF Represented, Doubly
<1>13. Unlinked'
  <2> SUFFICES ASSUME NEW x \in Elements, ~Linked(x)' PROVE mem'[NextOf(x)] = Poison
    BY DEF Unlinked
  <2>1. \A g \in Heads : \A i \in 1..Len(lists'[g]) : lists'[g][i] # x BY DEF Linked
  <2>2. x # e
    <3>1. p \in 1..n + 1 /\ t[p] = e BY <1>1, <1>5
    <3> QED BY <1>1, <2>1, <3>1 DEF t
  <2>3. ASSUME NEW g \in Heads, NEW i \in 1..Len(lists[g]) PROVE lists[g][i] # x
    <3>1. CASE g # h BY <1>1, <2>1, <3>1
    <3>2. CASE g = h
      <4>1. CASE i < p
        <5>1. i \in 1..n + 1 /\ t[i] = s[i] BY <1>1, <1>5, <3>2, <4>1, SMT DEF n, s
        <5> QED BY <1>1, <2>1, <3>2, <5>1 DEF t, s
      <4>2. CASE i >= p
        <5>1. i + 1 \in 1..n + 1 /\ t[i + 1] = s[i] BY <1>1, <1>5, <3>2, <4>2, SMT DEF n, s
        <5> QED BY <1>1, <2>1, <3>2, <5>1 DEF t, s
      <4> QED BY <1>5, <4>1, <4>2, SMT
    <3> QED BY <3>1, <3>2
  <2>4. ~Linked(x) BY <2>3 DEF Linked
  <2>5. p > 1 => p - 1 \in 1..Len(lists[h]) BY <1>5, SMT DEF n, s
  <2>6. mem'[NextOf(x)] = mem[NextOf(x)] BY <2>2, <2>3, <2>5 DEF NextInserted
  <2> QED BY <2>4, <2>6 DEF IInv, Unlinked
<1> QED BY <1>2, <1>12, <1>13 DEF IInv

-----------------------------------------------------------------------------
(* Each macro that inserts has that effect, for each kind that has it.     *)
LEMMA LinkFacts ==
  ASSUME IInv
  PROVE  \A h \in Heads :
            /\ Len(lists[h]) \in Nat
            /\ mem[FirstOf(h)] = Succ(h, 1)
            /\ \A i \in 1..Len(lists[h]) :
                  /\ lists[h][i] \in Elements
                  /\ mem[NextOf(lists[h][i])] = Succ(h, i + 1)
                  /\ Doubly /\ (i = 1 => origin[h] = h) => mem[PrevOf(lists[h][i])] = BackAt(h, i)
            /\ Tailed => mem[LastOf(h)] = BackAt(h, Len(lists[h]) + 1)
<1> SUFFICES ASSUME NEW h \in Heads
             PROVE  /\ Len(lists[h]) \in Nat
                    /\ mem[FirstOf(h)] = Succ(h, 1)
                    /\ \A i \in 1..Len(lists[h]) :
                          /\ lists[h][i] \in Elements
                          /\ mem[NextOf(lists[h][i])] = Succ(h, i + 1)
                          /\ Doubly /\ (i = 1 => origin[h] = h)
                                => mem[PrevOf(lists[h][i])] = BackAt(h, i)
                    /\ Tailed => mem[LastOf(h)] = BackAt(h, Len(lists[h]) + 1)
  OBVIOUS
<1>1. Forward(h) /\ (Doubly => Backward(h)) /\ TailAt(h) BY DEF IInv, Represented
<1>2. Len(lists[h]) \in Nat /\ \A i \in 1..Len(lists[h]) : lists[h][i] \in Elements
  BY ListTypes DEF IInv
<1>3. Tailed => mem[LastOf(h)] = BackAt(h, Len(lists[h]) + 1) BY <1>1 DEF TailAt
<1>4. ASSUME NEW i \in 1..Len(lists[h]), Doubly, i = 1 => origin[h] = h
      PROVE  mem[PrevOf(lists[h][i])] = BackAt(h, i)
  BY <1>1, <1>4 DEF Backward
<1> QED BY <1>1, <1>2, <1>3, <1>4 DEF Forward

LEMMA OneKind == ASSUME Shape PROVE kind \in AllKinds
BY KindsAreKnown DEF Shape

LEMMA InsertHeadKeeps ==
  ASSUME IInv, NEW h \in Heads, NEW e \in Elements, InsertHead(h, e)
  PROVE  IInv'
<1>1. IInv /\ Shape /\ OnceEach /\ mem \in [Cells -> Values] BY DEF IInv, Shape, Represented
<1>2. /\ kind \in {"SLIST", "LIST", "SIMPLEQ", "STAILQ", "TAILQ", "CIRCLEQ"} /\ kind' = kind /\ e \notin InUse
      /\ \A g \in Heads : \A j \in 1..Len(lists[g]) : lists[g][j] # e
  BY <1>1, OneKind, Unused DEF InsertHead, AllKinds, Tailed, Doubly
<1>3. /\ Len(lists[h]) \in Nat
      /\ mem[FirstOf(h)] = Succ(h, 1)
      /\ Len(lists[h]) > 0 => lists[h][1] \in Elements
      /\ Tailed => mem[LastOf(h)] = BackAt(h, Len(lists[h]) + 1)
      /\ Len(lists[h]) > 0 => lists[h][Len(lists[h])] \in Elements
  BY <1>1, LinkFacts, SMT
<1> DEFINE p == 1
<1>4. p \in 1..Len(lists[h]) + 1 BY <1>3, SMT
<1>5. /\ mem' \in [Cells -> Values]
      /\ FirstInserted(h, p, e) /\ NextInserted(h, p, e)
      /\ (Doubly => PrevInserted(h, p, e))
      /\ (Tailed => LastInserted(h, p, e)) /\ (~Tailed => LastKept)
  <2>1. CASE kind = "SLIST"
    <3>1. mem' = SLIST_INSERT_HEAD(mem, h, e) BY <2>1 DEF InsertHead
    <3>2. mem' \in [Cells -> Values]
      BY <1>1, <1>2, <1>3, <2>1, <3>1, CellFacts, ValueFacts, HeadsAreNoElements, SMT
         DEF SLIST_INSERT_HEAD, Succ, BackAt, EndOf, Tailed, Doubly
    <3>3. FirstInserted(h, p, e)
      BY <1>1, <1>2, <1>3, <2>1, <3>1, CellFacts, HeadsAreNoElements, SMT DEF FirstInserted, SLIST_INSERT_HEAD, Succ, BackAt, EndOf, Tailed, Doubly
    <3>4. NextInserted(h, p, e)
      BY <1>1, <1>2, <1>3, <2>1, <3>1, CellFacts, HeadsAreNoElements, SMT DEF NextInserted, SLIST_INSERT_HEAD, Succ, BackAt, EndOf, Tailed, Doubly
    <3>6. LastKept
      BY <1>1, <1>2, <1>3, <2>1, <3>1, CellFacts, HeadsAreNoElements, SMT DEF LastKept, SLIST_INSERT_HEAD, Succ, BackAt, CellOf, EndOf, Tailed, Doubly
    <3> QED BY <2>1, <3>2, <3>3, <3>4, <3>6 DEF Doubly, Tailed
  <2>2. CASE kind = "LIST"
    <3>1. mem' = LIST_INSERT_HEAD(mem, h, e) BY <2>2 DEF InsertHead
    <3>2. mem' \in [Cells -> Values]
      BY <1>1, <1>2, <1>3, <2>2, <3>1, CellFacts, ValueFacts, HeadsAreNoElements, SMT
         DEF LIST_INSERT_HEAD, BackLink, Succ, BackAt, EndOf, Tailed, Doubly
    <3>3. FirstInserted(h, p, e)
      BY <1>1, <1>2, <1>3, <2>2, <3>1, CellFacts, HeadsAreNoElements, SMT DEF FirstInserted, LIST_INSERT_HEAD, BackLink, Succ, BackAt, EndOf, Tailed, Doubly
    <3>4. NextInserted(h, p, e)
      BY <1>1, <1>2, <1>3, <2>2, <3>1, CellFacts, HeadsAreNoElements, SMT DEF NextInserted, LIST_INSERT_HEAD, BackLink, Succ, BackAt, EndOf, Tailed, Doubly
    <3>5. PrevInserted(h, p, e)
      BY <1>1, <1>2, <1>3, <2>2, <3>1, CellFacts, HeadsAreNoElements, SMT DEF PrevInserted, LIST_INSERT_HEAD, BackLink, Succ, BackAt, CellOf, EndOf, Tailed, Doubly
    <3>6. LastKept
      BY <1>1, <1>2, <1>3, <2>2, <3>1, CellFacts, HeadsAreNoElements, SMT DEF LastKept, LIST_INSERT_HEAD, BackLink, Succ, BackAt, CellOf, EndOf, Tailed, Doubly
    <3> QED BY <2>2, <3>2, <3>3, <3>4, <3>5, <3>6 DEF Doubly, Tailed
  <2>3. CASE kind = "SIMPLEQ"
    <3>1. mem' = SIMPLEQ_INSERT_HEAD(mem, h, e) BY <2>3 DEF InsertHead
    <3>2. mem' \in [Cells -> Values]
      BY <1>1, <1>2, <1>3, <2>3, <3>1, CellFacts, ValueFacts, HeadsAreNoElements, SMT
         DEF SIMPLEQ_INSERT_HEAD, LastIfEnd, Succ, BackAt, EndOf, Tailed, Doubly
    <3>3. FirstInserted(h, p, e)
      BY <1>1, <1>2, <1>3, <2>3, <3>1, CellFacts, HeadsAreNoElements, SMT DEF FirstInserted, SIMPLEQ_INSERT_HEAD, LastIfEnd, Succ, BackAt, EndOf, Tailed, Doubly
    <3>4. NextInserted(h, p, e)
      BY <1>1, <1>2, <1>3, <2>3, <3>1, CellFacts, HeadsAreNoElements, SMT DEF NextInserted, SIMPLEQ_INSERT_HEAD, LastIfEnd, Succ, BackAt, EndOf, Tailed, Doubly
    <3>6. LastInserted(h, p, e)
      BY <1>1, <1>2, <1>3, <2>3, <3>1, CellFacts, HeadsAreNoElements, SMT DEF LastInserted, SIMPLEQ_INSERT_HEAD, LastIfEnd, Succ, BackAt, CellOf, EndOf, Tailed, Doubly
    <3> QED BY <2>3, <3>2, <3>3, <3>4, <3>6 DEF Doubly, Tailed
  <2>4. CASE kind = "STAILQ"
    <3>1. mem' = STAILQ_INSERT_HEAD(mem, h, e) BY <2>4 DEF InsertHead
    <3>2. mem' \in [Cells -> Values]
      BY <1>1, <1>2, <1>3, <2>4, <3>1, CellFacts, ValueFacts, HeadsAreNoElements, SMT
         DEF STAILQ_INSERT_HEAD, SIMPLEQ_INSERT_HEAD, LastIfEnd, Succ, BackAt, EndOf, Tailed, Doubly
    <3>3. FirstInserted(h, p, e)
      BY <1>1, <1>2, <1>3, <2>4, <3>1, CellFacts, HeadsAreNoElements, SMT DEF FirstInserted, STAILQ_INSERT_HEAD, SIMPLEQ_INSERT_HEAD, LastIfEnd, Succ, BackAt, EndOf, Tailed, Doubly
    <3>4. NextInserted(h, p, e)
      BY <1>1, <1>2, <1>3, <2>4, <3>1, CellFacts, HeadsAreNoElements, SMT DEF NextInserted, STAILQ_INSERT_HEAD, SIMPLEQ_INSERT_HEAD, LastIfEnd, Succ, BackAt, EndOf, Tailed, Doubly
    <3>6. LastInserted(h, p, e)
      BY <1>1, <1>2, <1>3, <2>4, <3>1, CellFacts, HeadsAreNoElements, SMT DEF LastInserted, STAILQ_INSERT_HEAD, SIMPLEQ_INSERT_HEAD, LastIfEnd, Succ, BackAt, CellOf, EndOf, Tailed, Doubly
    <3> QED BY <2>4, <3>2, <3>3, <3>4, <3>6 DEF Doubly, Tailed
  <2>5. CASE kind = "TAILQ"
    <3>1. mem' = TAILQ_INSERT_HEAD(mem, h, e) BY <2>5 DEF InsertHead
    <3>2. mem' \in [Cells -> Values]
      BY <1>1, <1>2, <1>3, <2>5, <3>1, CellFacts, ValueFacts, HeadsAreNoElements, SMT
         DEF TAILQ_INSERT_HEAD, Behind, Succ, BackAt, EndOf, Tailed, Doubly
    <3>3. FirstInserted(h, p, e)
      BY <1>1, <1>2, <1>3, <2>5, <3>1, CellFacts, HeadsAreNoElements, SMT DEF FirstInserted, TAILQ_INSERT_HEAD, Behind, Succ, BackAt, EndOf, Tailed, Doubly
    <3>4. NextInserted(h, p, e)
      BY <1>1, <1>2, <1>3, <2>5, <3>1, CellFacts, HeadsAreNoElements, SMT DEF NextInserted, TAILQ_INSERT_HEAD, Behind, Succ, BackAt, EndOf, Tailed, Doubly
    <3>5. PrevInserted(h, p, e)
      BY <1>1, <1>2, <1>3, <2>5, <3>1, CellFacts, HeadsAreNoElements, SMT DEF PrevInserted, TAILQ_INSERT_HEAD, Behind, Succ, BackAt, CellOf, EndOf, Tailed, Doubly
    <3>6. LastInserted(h, p, e)
      BY <1>1, <1>2, <1>3, <2>5, <3>1, CellFacts, HeadsAreNoElements, SMT DEF LastInserted, TAILQ_INSERT_HEAD, Behind, Succ, BackAt, CellOf, EndOf, Tailed, Doubly
    <3> QED BY <2>5, <3>2, <3>3, <3>4, <3>5, <3>6 DEF Doubly, Tailed
  <2>6. CASE kind = "CIRCLEQ"
    <3>1. mem' = CIRCLEQ_INSERT_HEAD(mem, h, e) BY <2>6 DEF InsertHead
    <3>2. mem' \in [Cells -> Values]
      BY <1>1, <1>2, <1>3, <2>6, <3>1, CellFacts, ValueFacts, HeadsAreNoElements, SMT
         DEF CIRCLEQ_INSERT_HEAD, BackCell, ForwardCell, Succ, BackAt, EndOf, Tailed, Doubly
    <3>3. FirstInserted(h, p, e)
      BY <1>1, <1>2, <1>3, <2>6, <3>1, CellFacts, HeadsAreNoElements, SMT DEF FirstInserted, CIRCLEQ_INSERT_HEAD, BackCell, ForwardCell, Succ, BackAt, EndOf, Tailed, Doubly
    <3>4. NextInserted(h, p, e)
      BY <1>1, <1>2, <1>3, <2>6, <3>1, CellFacts, HeadsAreNoElements, SMT DEF NextInserted, CIRCLEQ_INSERT_HEAD, BackCell, ForwardCell, Succ, BackAt, EndOf, Tailed, Doubly
    <3>5. PrevInserted(h, p, e)
      BY <1>1, <1>2, <1>3, <2>6, <3>1, CellFacts, HeadsAreNoElements, SMT DEF PrevInserted, CIRCLEQ_INSERT_HEAD, BackCell, ForwardCell, Succ, BackAt, CellOf, EndOf, Tailed, Doubly
    <3>6. LastInserted(h, p, e)
      BY <1>1, <1>2, <1>3, <2>6, <3>1, CellFacts, HeadsAreNoElements, SMT DEF LastInserted, CIRCLEQ_INSERT_HEAD, BackCell, ForwardCell, Succ, BackAt, CellOf, EndOf, Tailed, Doubly
    <3> QED BY <2>6, <3>2, <3>3, <3>4, <3>5, <3>6 DEF Doubly, Tailed
  <2> QED BY <1>2, <2>1, <2>2, <2>3, <2>4, <2>5, <2>6
<1>6. /\ origin' \in [Heads -> Heads] /\ \A g \in Heads \ {h} : origin'[g] = origin[g]
      /\ origin'[h] = IF p = 1 THEN h ELSE origin[h]
  <2>1. origin \in [Heads -> Heads] /\ (kind # "LIST" => origin[h] = h) BY <1>1 DEF Shape
  <2> QED BY <1>2, <1>3, <2>1, SMT DEF InsertHead, Usable, Tailed
<1>7. lists' = [lists EXCEPT ![h] = With(@, p, e)] BY DEF InsertHead
<1> HIDE DEF p
<1> QED BY <1>1, <1>2, <1>4, <1>5, <1>6, <1>7, InsertionKeeps

LEMMA InsertTailKeeps ==
  ASSUME IInv, NEW h \in Heads, NEW e \in Elements, InsertTail(h, e)
  PROVE  IInv'
<1>1. IInv /\ Shape /\ OnceEach /\ mem \in [Cells -> Values] BY DEF IInv, Shape, Represented
<1>2. /\ kind \in {"SIMPLEQ", "STAILQ", "TAILQ", "CIRCLEQ"} /\ kind' = kind /\ e \notin InUse
      /\ \A g \in Heads : \A j \in 1..Len(lists[g]) : lists[g][j] # e
  BY <1>1, OneKind, Unused DEF InsertTail, AllKinds, Tailed, Doubly
<1>3. /\ Len(lists[h]) \in Nat
      /\ mem[FirstOf(h)] = Succ(h, 1)
      /\ Tailed => mem[LastOf(h)] = BackAt(h, Len(lists[h]) + 1)
      /\ Len(lists[h]) > 0 => /\ lists[h][1] \in Elements
                             /\ lists[h][Len(lists[h])] \in Elements
  BY <1>1, LinkFacts, SMT
<1> DEFINE p == Len(lists[h]) + 1
<1>4. p \in 1..Len(lists[h]) + 1 BY <1>3, SMT
<1>5. /\ mem' \in [Cells -> Values]
      /\ FirstInserted(h, p, e) /\ NextInserted(h, p, e)
      /\ (Doubly => PrevInserted(h, p, e))
      /\ (Tailed => LastInserted(h, p, e)) /\ (~Tailed => LastKept)
  <2>1. CASE kind = "SIMPLEQ"
    <3>1. mem' = SIMPLEQ_INSERT_TAIL(mem, h, e) BY <2>1 DEF InsertTail
    <3>2. mem' \in [Cells -> Values]
      BY <1>1, <1>2, <1>3, <2>1, <3>1, CellFacts, ValueFacts, HeadsAreNoElements, SMT
         DEF SIMPLEQ_INSERT_TAIL, LastIfEnd, Succ, BackAt, EndOf, Tailed, Doubly
    <3>3. FirstInserted(h, p, e)
      BY <1>1, <1>2, <1>3, <2>1, <3>1, CellFacts, HeadsAreNoElements, SMT DEF FirstInserted, SIMPLEQ_INSERT_TAIL, LastIfEnd, Succ, BackAt, EndOf, Tailed, Doubly
    <3>4. NextInserted(h, p, e)
      BY <1>1, <1>2, <1>3, <2>1, <3>1, CellFacts, HeadsAreNoElements, SMT DEF NextInserted, SIMPLEQ_INSERT_TAIL, LastIfEnd, Succ, BackAt, EndOf, Tailed, Doubly
    <3>6. LastInserted(h, p, e)
      BY <1>1, <1>2, <1>3, <2>1, <3>1, CellFacts, HeadsAreNoElements, SMT DEF LastInserted, SIMPLEQ_INSERT_TAIL, LastIfEnd, Succ, BackAt, CellOf, EndOf, Tailed, Doubly
    <3> QED BY <2>1, <3>2, <3>3, <3>4, <3>6 DEF Doubly, Tailed
  <2>2. CASE kind = "STAILQ"
    <3>1. mem' = STAILQ_INSERT_TAIL(mem, h, e) BY <2>2 DEF InsertTail
    <3>2. mem' \in [Cells -> Values]
      BY <1>1, <1>2, <1>3, <2>2, <3>1, CellFacts, ValueFacts, HeadsAreNoElements, SMT
         DEF STAILQ_INSERT_TAIL, SIMPLEQ_INSERT_TAIL, LastIfEnd, Succ, BackAt, EndOf, Tailed, Doubly
    <3>3. FirstInserted(h, p, e)
      BY <1>1, <1>2, <1>3, <2>2, <3>1, CellFacts, HeadsAreNoElements, SMT DEF FirstInserted, STAILQ_INSERT_TAIL, SIMPLEQ_INSERT_TAIL, LastIfEnd, Succ, BackAt, EndOf, Tailed, Doubly
    <3>4. NextInserted(h, p, e)
      BY <1>1, <1>2, <1>3, <2>2, <3>1, CellFacts, HeadsAreNoElements, SMT DEF NextInserted, STAILQ_INSERT_TAIL, SIMPLEQ_INSERT_TAIL, LastIfEnd, Succ, BackAt, EndOf, Tailed, Doubly
    <3>6. LastInserted(h, p, e)
      BY <1>1, <1>2, <1>3, <2>2, <3>1, CellFacts, HeadsAreNoElements, SMT DEF LastInserted, STAILQ_INSERT_TAIL, SIMPLEQ_INSERT_TAIL, LastIfEnd, Succ, BackAt, CellOf, EndOf, Tailed, Doubly
    <3> QED BY <2>2, <3>2, <3>3, <3>4, <3>6 DEF Doubly, Tailed
  <2>3. CASE kind = "TAILQ"
    <3>1. mem' = TAILQ_INSERT_TAIL(mem, h, e) BY <2>3 DEF InsertTail
    <3>2. mem' \in [Cells -> Values]
      BY <1>1, <1>2, <1>3, <2>3, <3>1, CellFacts, ValueFacts, HeadsAreNoElements, SMT
         DEF TAILQ_INSERT_TAIL, Behind, Succ, BackAt, EndOf, Tailed, Doubly
    <3>3. FirstInserted(h, p, e)
      BY <1>1, <1>2, <1>3, <2>3, <3>1, CellFacts, HeadsAreNoElements, SMT DEF FirstInserted, TAILQ_INSERT_TAIL, Behind, Succ, BackAt, EndOf, Tailed, Doubly
    <3>4. NextInserted(h, p, e)
      BY <1>1, <1>2, <1>3, <2>3, <3>1, CellFacts, HeadsAreNoElements, SMT DEF NextInserted, TAILQ_INSERT_TAIL, Behind, Succ, BackAt, EndOf, Tailed, Doubly
    <3>5. PrevInserted(h, p, e)
      BY <1>1, <1>2, <1>3, <2>3, <3>1, CellFacts, HeadsAreNoElements, SMT DEF PrevInserted, TAILQ_INSERT_TAIL, Behind, Succ, BackAt, CellOf, EndOf, Tailed, Doubly
    <3>6. LastInserted(h, p, e)
      BY <1>1, <1>2, <1>3, <2>3, <3>1, CellFacts, HeadsAreNoElements, SMT DEF LastInserted, TAILQ_INSERT_TAIL, Behind, Succ, BackAt, CellOf, EndOf, Tailed, Doubly
    <3> QED BY <2>3, <3>2, <3>3, <3>4, <3>5, <3>6 DEF Doubly, Tailed
  <2>4. CASE kind = "CIRCLEQ"
    <3>1. mem' = CIRCLEQ_INSERT_TAIL(mem, h, e) BY <2>4 DEF InsertTail
    <3>2. mem' \in [Cells -> Values]
      BY <1>1, <1>2, <1>3, <2>4, <3>1, CellFacts, ValueFacts, HeadsAreNoElements, SMT
         DEF CIRCLEQ_INSERT_TAIL, BackCell, ForwardCell, Succ, BackAt, EndOf, Tailed, Doubly
    <3>3. FirstInserted(h, p, e)
      BY <1>1, <1>2, <1>3, <2>4, <3>1, CellFacts, HeadsAreNoElements, SMT DEF FirstInserted, CIRCLEQ_INSERT_TAIL, BackCell, ForwardCell, Succ, BackAt, EndOf, Tailed, Doubly
    <3>4. NextInserted(h, p, e)
      BY <1>1, <1>2, <1>3, <2>4, <3>1, CellFacts, HeadsAreNoElements, SMT DEF NextInserted, CIRCLEQ_INSERT_TAIL, BackCell, ForwardCell, Succ, BackAt, EndOf, Tailed, Doubly
    <3>5. PrevInserted(h, p, e)
      BY <1>1, <1>2, <1>3, <2>4, <3>1, CellFacts, HeadsAreNoElements, SMT DEF PrevInserted, CIRCLEQ_INSERT_TAIL, BackCell, ForwardCell, Succ, BackAt, CellOf, EndOf, Tailed, Doubly
    <3>6. LastInserted(h, p, e)
      BY <1>1, <1>2, <1>3, <2>4, <3>1, CellFacts, HeadsAreNoElements, SMT DEF LastInserted, CIRCLEQ_INSERT_TAIL, BackCell, ForwardCell, Succ, BackAt, CellOf, EndOf, Tailed, Doubly
    <3> QED BY <2>4, <3>2, <3>3, <3>4, <3>5, <3>6 DEF Doubly, Tailed
  <2> QED BY <1>2, <2>1, <2>2, <2>3, <2>4
<1>6. /\ origin' \in [Heads -> Heads] /\ \A g \in Heads \ {h} : origin'[g] = origin[g]
      /\ origin'[h] = IF p = 1 THEN h ELSE origin[h]
  <2>1. origin \in [Heads -> Heads] /\ (kind # "LIST" => origin[h] = h) BY <1>1 DEF Shape
  <2> QED BY <1>2, <1>3, <2>1, SMT DEF InsertTail, Usable, Tailed
<1>7. lists' = [lists EXCEPT ![h] = With(@, p, e)] BY DEF InsertTail
<1> HIDE DEF p
<1> QED BY <1>1, <1>2, <1>4, <1>5, <1>6, <1>7, InsertionKeeps

LEMMA InsertAfterKeeps ==
  ASSUME IInv, NEW h \in Heads, NEW i \in DOMAIN lists[h], NEW e \in Elements, InsertAfter(h, i, e)
  PROVE  IInv'
<1>1. IInv /\ Shape /\ OnceEach /\ mem \in [Cells -> Values] BY DEF IInv, Shape, Represented
<1>2. /\ kind \in {"SLIST", "LIST", "SIMPLEQ", "STAILQ", "TAILQ", "CIRCLEQ"} /\ kind' = kind /\ e \notin InUse
      /\ \A g \in Heads : \A j \in 1..Len(lists[g]) : lists[g][j] # e
  BY <1>1, OneKind, Unused DEF InsertAfter, AllKinds, Tailed, Doubly
<1>3. /\ Len(lists[h]) \in Nat /\ i \in 1..Len(lists[h]) /\ lists[h][i] \in Elements
      /\ mem[NextOf(lists[h][i])] = Succ(h, i + 1)
      /\ i < Len(lists[h]) => lists[h][i + 1] \in Elements /\ lists[h][i + 1] # lists[h][i]
  <2>1. /\ Len(lists[h]) \in Nat /\ i \in 1..Len(lists[h]) /\ lists[h][i] \in Elements
        /\ mem[NextOf(lists[h][i])] = Succ(h, i + 1)
    BY <1>1, LinkFacts, ListTypes DEF IInv
  <2>2. ASSUME i < Len(lists[h]) PROVE lists[h][i + 1] \in Elements /\ lists[h][i + 1] # lists[h][i]
    <3>1. i + 1 \in 1..Len(lists[h]) /\ i + 1 # i BY <2>1, <2>2, SMT
    <3> QED BY <1>1, <2>1, <3>1, LinkFacts, ListTypes DEF IInv, Represented, OnceEach
  <2> QED BY <2>1, <2>2
<1> DEFINE p == i + 1
<1>4. p \in 1..Len(lists[h]) + 1 BY <1>3, SMT
<1>5. /\ mem' \in [Cells -> Values]
      /\ FirstInserted(h, p, e) /\ NextInserted(h, p, e)
      /\ (Doubly => PrevInserted(h, p, e))
      /\ (Tailed => LastInserted(h, p, e)) /\ (~Tailed => LastKept)
  <2>1. CASE kind = "SLIST"
    <3>1. mem' = SLIST_INSERT_AFTER(mem, lists[h][i], e) BY <2>1 DEF InsertAfter
    <3>2. mem' \in [Cells -> Values]
      BY <1>1, <1>2, <1>3, <2>1, <3>1, CellFacts, ValueFacts, HeadsAreNoElements, SMT
         DEF SLIST_INSERT_AFTER, Succ, BackAt, EndOf, Tailed, Doubly
    <3>3. FirstInserted(h, p, e)
      BY <1>1, <1>2, <1>3, <2>1, <3>1, CellFacts, HeadsAreNoElements, SMT DEF FirstInserted, SLIST_INSERT_AFTER, Succ, BackAt, EndOf, Tailed, Doubly
    <3>4. NextInserted(h, p, e)
      BY <1>1, <1>2, <1>3, <2>1, <3>1, CellFacts, HeadsAreNoElements, SMT DEF NextInserted, SLIST_INSERT_AFTER, Succ, BackAt, EndOf, Tailed, Doubly
    <3>6. LastKept
      BY <1>1, <1>2, <1>3, <2>1, <3>1, CellFacts, HeadsAreNoElements, SMT DEF LastKept, SLIST_INSERT_AFTER, Succ, BackAt, CellOf, EndOf, Tailed, Doubly
    <3> QED BY <2>1, <3>2, <3>3, <3>4, <3>6 DEF Doubly, Tailed
  <2>2. CASE kind = "LIST"
    <3>1. mem' = LIST_INSERT_AFTER(mem, lists[h][i], e) BY <2>2 DEF InsertAfter
    <3>2. mem' \in [Cells -> Values]
      BY <1>1, <1>2, <1>3, <2>2, <3>1, CellFacts, ValueFacts, HeadsAreNoElements, SMT
         DEF LIST_INSERT_AFTER, BackLink, Succ, BackAt, EndOf, Tailed, Doubly
    <3>3. FirstInserted(h, p, e)
      BY <1>1, <1>2, <1>3, <2>2, <3>1, CellFacts, HeadsAreNoElements, SMT DEF FirstInserted, LIST_INSERT_AFTER, BackLink, Succ, BackAt, EndOf, Tailed, Doubly
    <3>4. NextInserted(h, p, e)
      BY <1>1, <1>2, <1>3, <2>2, <3>1, CellFacts, HeadsAreNoElements, SMT DEF NextInserted, LIST_INSERT_AFTER, BackLink, Succ, BackAt, EndOf, Tailed, Doubly
    <3>5. PrevInserted(h, p, e)
      BY <1>1, <1>2, <1>3, <2>2, <3>1, CellFacts, HeadsAreNoElements, SMT DEF PrevInserted, LIST_INSERT_AFTER, BackLink, Succ, BackAt, CellOf, EndOf, Tailed, Doubly
    <3>6. LastKept
      BY <1>1, <1>2, <1>3, <2>2, <3>1, CellFacts, HeadsAreNoElements, SMT DEF LastKept, LIST_INSERT_AFTER, BackLink, Succ, BackAt, CellOf, EndOf, Tailed, Doubly
    <3> QED BY <2>2, <3>2, <3>3, <3>4, <3>5, <3>6 DEF Doubly, Tailed
  <2>3. CASE kind = "SIMPLEQ"
    <3>1. mem' = SIMPLEQ_INSERT_AFTER(mem, h, lists[h][i], e) BY <2>3 DEF InsertAfter
    <3>2. mem' \in [Cells -> Values]
      BY <1>1, <1>2, <1>3, <2>3, <3>1, CellFacts, ValueFacts, HeadsAreNoElements, SMT
         DEF SIMPLEQ_INSERT_AFTER, LastIfEnd, Succ, BackAt, EndOf, Tailed, Doubly
    <3>3. FirstInserted(h, p, e)
      BY <1>1, <1>2, <1>3, <2>3, <3>1, CellFacts, HeadsAreNoElements, SMT DEF FirstInserted, SIMPLEQ_INSERT_AFTER, LastIfEnd, Succ, BackAt, EndOf, Tailed, Doubly
    <3>4. NextInserted(h, p, e)
      BY <1>1, <1>2, <1>3, <2>3, <3>1, CellFacts, HeadsAreNoElements, SMT DEF NextInserted, SIMPLEQ_INSERT_AFTER, LastIfEnd, Succ, BackAt, EndOf, Tailed, Doubly
    <3>6. LastInserted(h, p, e)
      BY <1>1, <1>2, <1>3, <2>3, <3>1, CellFacts, HeadsAreNoElements, SMT DEF LastInserted, SIMPLEQ_INSERT_AFTER, LastIfEnd, Succ, BackAt, CellOf, EndOf, Tailed, Doubly
    <3> QED BY <2>3, <3>2, <3>3, <3>4, <3>6 DEF Doubly, Tailed
  <2>4. CASE kind = "STAILQ"
    <3>1. mem' = STAILQ_INSERT_AFTER(mem, h, lists[h][i], e) BY <2>4 DEF InsertAfter
    <3>2. mem' \in [Cells -> Values]
      BY <1>1, <1>2, <1>3, <2>4, <3>1, CellFacts, ValueFacts, HeadsAreNoElements, SMT
         DEF STAILQ_INSERT_AFTER, SIMPLEQ_INSERT_AFTER, LastIfEnd, Succ, BackAt, EndOf, Tailed, Doubly
    <3>3. FirstInserted(h, p, e)
      BY <1>1, <1>2, <1>3, <2>4, <3>1, CellFacts, HeadsAreNoElements, SMT DEF FirstInserted, STAILQ_INSERT_AFTER, SIMPLEQ_INSERT_AFTER, LastIfEnd, Succ, BackAt, EndOf, Tailed, Doubly
    <3>4. NextInserted(h, p, e)
      BY <1>1, <1>2, <1>3, <2>4, <3>1, CellFacts, HeadsAreNoElements, SMT DEF NextInserted, STAILQ_INSERT_AFTER, SIMPLEQ_INSERT_AFTER, LastIfEnd, Succ, BackAt, EndOf, Tailed, Doubly
    <3>6. LastInserted(h, p, e)
      BY <1>1, <1>2, <1>3, <2>4, <3>1, CellFacts, HeadsAreNoElements, SMT DEF LastInserted, STAILQ_INSERT_AFTER, SIMPLEQ_INSERT_AFTER, LastIfEnd, Succ, BackAt, CellOf, EndOf, Tailed, Doubly
    <3> QED BY <2>4, <3>2, <3>3, <3>4, <3>6 DEF Doubly, Tailed
  <2>5. CASE kind = "TAILQ"
    <3>1. mem' = TAILQ_INSERT_AFTER(mem, h, lists[h][i], e) BY <2>5 DEF InsertAfter
    <3>2. mem' \in [Cells -> Values]
      BY <1>1, <1>2, <1>3, <2>5, <3>1, CellFacts, ValueFacts, HeadsAreNoElements, SMT
         DEF TAILQ_INSERT_AFTER, Behind, Succ, BackAt, EndOf, Tailed, Doubly
    <3>3. FirstInserted(h, p, e)
      BY <1>1, <1>2, <1>3, <2>5, <3>1, CellFacts, HeadsAreNoElements, SMT DEF FirstInserted, TAILQ_INSERT_AFTER, Behind, Succ, BackAt, EndOf, Tailed, Doubly
    <3>4. NextInserted(h, p, e)
      BY <1>1, <1>2, <1>3, <2>5, <3>1, CellFacts, HeadsAreNoElements, SMT DEF NextInserted, TAILQ_INSERT_AFTER, Behind, Succ, BackAt, EndOf, Tailed, Doubly
    <3>5. PrevInserted(h, p, e)
      BY <1>1, <1>2, <1>3, <2>5, <3>1, CellFacts, HeadsAreNoElements, SMT DEF PrevInserted, TAILQ_INSERT_AFTER, Behind, Succ, BackAt, CellOf, EndOf, Tailed, Doubly
    <3>6. LastInserted(h, p, e)
      BY <1>1, <1>2, <1>3, <2>5, <3>1, CellFacts, HeadsAreNoElements, SMT DEF LastInserted, TAILQ_INSERT_AFTER, Behind, Succ, BackAt, CellOf, EndOf, Tailed, Doubly
    <3> QED BY <2>5, <3>2, <3>3, <3>4, <3>5, <3>6 DEF Doubly, Tailed
  <2>6. CASE kind = "CIRCLEQ"
    <3>1. mem' = CIRCLEQ_INSERT_AFTER(mem, h, lists[h][i], e) BY <2>6 DEF InsertAfter
    <3>2. mem' \in [Cells -> Values]
      BY <1>1, <1>2, <1>3, <2>6, <3>1, CellFacts, ValueFacts, HeadsAreNoElements, SMT
         DEF CIRCLEQ_INSERT_AFTER, BackCell, ForwardCell, Succ, BackAt, EndOf, Tailed, Doubly
    <3>3. FirstInserted(h, p, e)
      BY <1>1, <1>2, <1>3, <2>6, <3>1, CellFacts, HeadsAreNoElements, SMT DEF FirstInserted, CIRCLEQ_INSERT_AFTER, BackCell, ForwardCell, Succ, BackAt, EndOf, Tailed, Doubly
    <3>4. NextInserted(h, p, e)
      BY <1>1, <1>2, <1>3, <2>6, <3>1, CellFacts, HeadsAreNoElements, SMT DEF NextInserted, CIRCLEQ_INSERT_AFTER, BackCell, ForwardCell, Succ, BackAt, EndOf, Tailed, Doubly
    <3>5. PrevInserted(h, p, e)
      BY <1>1, <1>2, <1>3, <2>6, <3>1, CellFacts, HeadsAreNoElements, SMT DEF PrevInserted, CIRCLEQ_INSERT_AFTER, BackCell, ForwardCell, Succ, BackAt, CellOf, EndOf, Tailed, Doubly
    <3>6. LastInserted(h, p, e)
      BY <1>1, <1>2, <1>3, <2>6, <3>1, CellFacts, HeadsAreNoElements, SMT DEF LastInserted, CIRCLEQ_INSERT_AFTER, BackCell, ForwardCell, Succ, BackAt, CellOf, EndOf, Tailed, Doubly
    <3> QED BY <2>6, <3>2, <3>3, <3>4, <3>5, <3>6 DEF Doubly, Tailed
  <2> QED BY <1>2, <2>1, <2>2, <2>3, <2>4, <2>5, <2>6
<1>6. /\ origin' \in [Heads -> Heads] /\ \A g \in Heads \ {h} : origin'[g] = origin[g]
      /\ origin'[h] = IF p = 1 THEN h ELSE origin[h]
  <2>1. origin \in [Heads -> Heads] /\ (kind # "LIST" => origin[h] = h) BY <1>1 DEF Shape
  <2> QED BY <1>2, <1>3, <2>1, SMT DEF InsertAfter, Usable, Tailed
<1>7. lists' = [lists EXCEPT ![h] = With(@, p, e)] BY DEF InsertAfter
<1> HIDE DEF p
<1> QED BY <1>1, <1>2, <1>4, <1>5, <1>6, <1>7, InsertionKeeps

LEMMA InsertBeforeKeeps ==
  ASSUME IInv, NEW h \in Heads, NEW i \in DOMAIN lists[h], NEW e \in Elements, InsertBefore(h, i, e)
  PROVE  IInv'
<1>1. IInv /\ Shape /\ OnceEach /\ mem \in [Cells -> Values] BY DEF IInv, Shape, Represented
<1>2. /\ kind \in {"LIST", "TAILQ", "CIRCLEQ"} /\ kind' = kind /\ e \notin InUse
      /\ \A g \in Heads : \A j \in 1..Len(lists[g]) : lists[g][j] # e
  BY <1>1, OneKind, Unused DEF InsertBefore, AllKinds, Tailed, Doubly
<1>3. /\ Len(lists[h]) \in Nat /\ i \in 1..Len(lists[h]) /\ lists[h][i] \in Elements
      /\ Doubly => mem[PrevOf(lists[h][i])] = BackAt(h, i)
      /\ i > 1 => lists[h][i - 1] \in Elements /\ lists[h][i - 1] # lists[h][i]
  <2>1. Len(lists[h]) \in Nat /\ i \in 1..Len(lists[h]) /\ lists[h][i] \in Elements
    BY <1>1, LinkFacts, ListTypes DEF IInv
  <2>2. i = 1 => origin[h] = h BY DEF InsertBefore, Usable
  <2>3. ASSUME i > 1 PROVE lists[h][i - 1] \in Elements /\ lists[h][i - 1] # lists[h][i]
    <3>1. i - 1 \in 1..Len(lists[h]) /\ i - 1 # i BY <2>1, <2>3, SMT
    <3> QED BY <1>1, <2>1, <3>1, LinkFacts, ListTypes DEF IInv, Represented, OnceEach
  <2> QED BY <1>1, <2>1, <2>2, <2>3, LinkFacts
<1> DEFINE p == i
<1>4. p \in 1..Len(lists[h]) + 1 BY <1>3, SMT
<1>5. /\ mem' \in [Cells -> Values]
      /\ FirstInserted(h, p, e) /\ NextInserted(h, p, e)
      /\ (Doubly => PrevInserted(h, p, e))
      /\ (Tailed => LastInserted(h, p, e)) /\ (~Tailed => LastKept)
  <2>1. CASE kind = "LIST"
    <3>1. mem' = LIST_INSERT_BEFORE(mem, lists[h][i], e) BY <2>1 DEF InsertBefore
    <3>2. mem' \in [Cells -> Values]
      BY <1>1, <1>2, <1>3, <2>1, <3>1, CellFacts, ValueFacts, HeadsAreNoElements, SMT
         DEF LIST_INSERT_BEFORE, BackLink, Succ, BackAt, EndOf, Tailed, Doubly
    <3>3. FirstInserted(h, p, e)
      BY <1>1, <1>2, <1>3, <2>1, <3>1, CellFacts, HeadsAreNoElements, SMT DEF FirstInserted, LIST_INSERT_BEFORE, BackLink, Succ, BackAt, EndOf, Tailed, Doubly
    <3>4. NextInserted(h, p, e)
      BY <1>1, <1>2, <1>3, <2>1, <3>1, CellFacts, HeadsAreNoElements, SMT DEF NextInserted, LIST_INSERT_BEFORE, BackLink, Succ, BackAt, EndOf, Tailed, Doubly
    <3>5. PrevInserted(h, p, e)
      BY <1>1, <1>2, <1>3, <2>1, <3>1, CellFacts, HeadsAreNoElements, SMT DEF PrevInserted, LIST_INSERT_BEFORE, BackLink, Succ, BackAt, CellOf, EndOf, Tailed, Doubly
    <3>6. LastKept
      BY <1>1, <1>2, <1>3, <2>1, <3>1, CellFacts, HeadsAreNoElements, SMT DEF LastKept, LIST_INSERT_BEFORE, BackLink, Succ, BackAt, CellOf, EndOf, Tailed, Doubly
    <3> QED BY <2>1, <3>2, <3>3, <3>4, <3>5, <3>6 DEF Doubly, Tailed
  <2>2. CASE kind = "TAILQ"
    <3>1. mem' = TAILQ_INSERT_BEFORE(mem, lists[h][i], e) BY <2>2 DEF InsertBefore
    <3>2. mem' \in [Cells -> Values]
      BY <1>1, <1>2, <1>3, <2>2, <3>1, CellFacts, ValueFacts, HeadsAreNoElements, SMT
         DEF TAILQ_INSERT_BEFORE, LIST_INSERT_BEFORE, Behind, Succ, BackAt, EndOf, Tailed, Doubly
    <3>3. FirstInserted(h, p, e)
      BY <1>1, <1>2, <1>3, <2>2, <3>1, CellFacts, HeadsAreNoElements, SMT DEF FirstInserted, TAILQ_INSERT_BEFORE, LIST_INSERT_BEFORE, Behind, Succ, BackAt, EndOf, Tailed, Doubly
    <3>4. NextInserted(h, p, e)
      BY <1>1, <1>2, <1>3, <2>2, <3>1, CellFacts, HeadsAreNoElements, SMT DEF NextInserted, TAILQ_INSERT_BEFORE, LIST_INSERT_BEFORE, Behind, Succ, BackAt, EndOf, Tailed, Doubly
    <3>5. PrevInserted(h, p, e)
      BY <1>1, <1>2, <1>3, <2>2, <3>1, CellFacts, HeadsAreNoElements, SMT DEF PrevInserted, TAILQ_INSERT_BEFORE, LIST_INSERT_BEFORE, Behind, Succ, BackAt, CellOf, EndOf, Tailed, Doubly
    <3>6. LastInserted(h, p, e)
      BY <1>1, <1>2, <1>3, <2>2, <3>1, CellFacts, HeadsAreNoElements, SMT DEF LastInserted, TAILQ_INSERT_BEFORE, LIST_INSERT_BEFORE, Behind, Succ, BackAt, CellOf, EndOf, Tailed, Doubly
    <3> QED BY <2>2, <3>2, <3>3, <3>4, <3>5, <3>6 DEF Doubly, Tailed
  <2>3. CASE kind = "CIRCLEQ"
    <3>1. mem' = CIRCLEQ_INSERT_BEFORE(mem, h, lists[h][i], e) BY <2>3 DEF InsertBefore
    <3>2. mem' \in [Cells -> Values]
      BY <1>1, <1>2, <1>3, <2>3, <3>1, CellFacts, ValueFacts, HeadsAreNoElements, SMT
         DEF CIRCLEQ_INSERT_BEFORE, BackCell, ForwardCell, Succ, BackAt, EndOf, Tailed, Doubly
    <3>3. FirstInserted(h, p, e)
      BY <1>1, <1>2, <1>3, <2>3, <3>1, CellFacts, HeadsAreNoElements, SMT DEF FirstInserted, CIRCLEQ_INSERT_BEFORE, BackCell, ForwardCell, Succ, BackAt, EndOf, Tailed, Doubly
    <3>4. NextInserted(h, p, e)
      BY <1>1, <1>2, <1>3, <2>3, <3>1, CellFacts, HeadsAreNoElements, SMT DEF NextInserted, CIRCLEQ_INSERT_BEFORE, BackCell, ForwardCell, Succ, BackAt, EndOf, Tailed, Doubly
    <3>5. PrevInserted(h, p, e)
      BY <1>1, <1>2, <1>3, <2>3, <3>1, CellFacts, HeadsAreNoElements, SMT DEF PrevInserted, CIRCLEQ_INSERT_BEFORE, BackCell, ForwardCell, Succ, BackAt, CellOf, EndOf, Tailed, Doubly
    <3>6. LastInserted(h, p, e)
      BY <1>1, <1>2, <1>3, <2>3, <3>1, CellFacts, HeadsAreNoElements, SMT DEF LastInserted, CIRCLEQ_INSERT_BEFORE, BackCell, ForwardCell, Succ, BackAt, CellOf, EndOf, Tailed, Doubly
    <3> QED BY <2>3, <3>2, <3>3, <3>4, <3>5, <3>6 DEF Doubly, Tailed
  <2> QED BY <1>2, <2>1, <2>2, <2>3
<1>6. /\ origin' \in [Heads -> Heads] /\ \A g \in Heads \ {h} : origin'[g] = origin[g]
      /\ origin'[h] = IF p = 1 THEN h ELSE origin[h]
  <2>1. origin \in [Heads -> Heads] /\ (kind # "LIST" => origin[h] = h) BY <1>1 DEF Shape
  <2> QED BY <1>2, <1>3, <2>1, SMT DEF InsertBefore, Usable, Tailed
<1>7. lists' = [lists EXCEPT ![h] = With(@, p, e)] BY DEF InsertBefore
<1> HIDE DEF p
<1> QED BY <1>1, <1>2, <1>4, <1>5, <1>6, <1>7, InsertionKeeps

-----------------------------------------------------------------------------
(* What a removal of the p-th of list h does to the cells: the removed     *)
(* element's links become Poison, its neighbours close up.                 *)
RemovedAt(h, p) == lists' = [lists EXCEPT ![h] = Without(@, p)]

FirstRemoved(h, p) ==
    \A g \in Heads :
        mem'[FirstOf(g)] = IF p = 1 /\ g = h THEN Succ(h, 2) ELSE mem[FirstOf(g)]
NextRemoved(h, p) ==
    \A x \in Elements :
        mem'[NextOf(x)] = IF x = lists[h][p] THEN Poison
                          ELSE IF p > 1 /\ x = lists[h][p - 1] THEN Succ(h, p + 1)
                          ELSE mem[NextOf(x)]
PrevRemoved(h, p) ==
    \A x \in Elements \ {lists[h][p]} :
        mem'[PrevOf(x)] = IF p < Len(lists[h]) /\ x = lists[h][p + 1] THEN BackAt(h, p)
                          ELSE mem[PrevOf(x)]
LastRemoved(h, p) ==
    \A g \in Heads :
        mem'[LastOf(g)] = IF p = Len(lists[h]) /\ g = h THEN BackAt(h, p) ELSE mem[LastOf(g)]

LEMMA WithoutIsSeq ==
  ASSUME NEW T, NEW s \in Seq(T), NEW i \in 1..Len(s)
  PROVE  /\ Without(s, i) \in Seq(T)
         /\ Len(Without(s, i)) = Len(s) - 1
         /\ \A j \in 1..Len(s) - 1 : Without(s, i)[j] = IF j < i THEN s[j] ELSE s[j + 1]
<1> DEFINE n == Len(s) - 1
           W == Without(s, i)
<1>1. Len(s) \in Nat /\ n \in Nat
  <2>1. Len(s) \in Nat BY LenProperties
  <2> QED BY <2>1, SMT
<1>2. \A j \in 1..n : (IF j < i THEN s[j] ELSE s[j + 1]) \in T
  <2> SUFFICES ASSUME NEW j \in 1..n PROVE s[j] \in T /\ s[j + 1] \in T
    OBVIOUS
  <2>1. j \in 1..Len(s) /\ j + 1 \in 1..Len(s) BY <1>1, SMT
  <2> QED BY <2>1, ElementOfSeq
<1>3. W \in [1..n -> T] BY <1>2, SMT DEF Without
<1>4. W \in Seq(T) BY <1>1, <1>3, SMT
<1>5. Len(W) = n BY <1>1, <1>3, <1>4, SMT
<1>6. \A j \in 1..n : W[j] = IF j < i THEN s[j] ELSE s[j + 1] BY SMT DEF Without
<1> QED BY <1>4, <1>5, <1>6

LEMMA ListsRemoved ==
  ASSUME Shape, OnceEach, NEW h \in Heads, NEW p \in 1..Len(lists[h]), RemovedAt(h, p)
  PROVE  /\ lists' \in [Heads -> Seq(Elements)]
         /\ OnceEach'
         /\ \A g \in Heads \ {h} : lists'[g] = lists[g]
         /\ Len(lists'[h]) = Len(lists[h]) - 1
         /\ \A j \in 1..Len(lists[h]) - 1 :
              lists'[h][j] = IF j < p THEN lists[h][j] ELSE lists[h][j + 1]
<1>1. lists[h] \in Seq(Elements) /\ lists \in [Heads -> Seq(Elements)] BY DEF Shape
<1>2. lists'[h] = Without(lists[h], p) BY <1>1 DEF RemovedAt
<1>3. \A g \in Heads \ {h} : lists'[g] = lists[g] BY <1>1 DEF RemovedAt
<1>4. /\ lists'[h] \in Seq(Elements) /\ Len(lists'[h]) = Len(lists[h]) - 1
      /\ \A j \in 1..Len(lists[h]) - 1 :
              lists'[h][j] = IF j < p THEN lists[h][j] ELSE lists[h][j + 1]
  BY <1>1, <1>2, WithoutIsSeq
<1>5. lists' \in [Heads -> Seq(Elements)] BY <1>1, <1>2, <1>4, SMT DEF RemovedAt
<1>6. OnceEach'
  <2>1. \A h3, h4 \in Heads : \A k \in 1..Len(lists[h3]), l \in 1..Len(lists[h4]) :
            lists[h3][k] = lists[h4][l] => h3 = h4 /\ k = l
    BY ListTypes DEF OnceEach
  <2>2. \A g \in Heads : Len(lists[g]) \in Nat BY ListTypes
  <2>3. ASSUME NEW g \in Heads, NEW i \in 1..Len(lists'[g])
        PROVE  \/ g = h /\ i < p /\ i \in 1..Len(lists[g]) /\ lists'[g][i] = lists[g][i]
               \/ g = h /\ i >= p /\ i + 1 \in 1..Len(lists[g]) /\ lists'[g][i] = lists[g][i + 1]
               \/ g # h /\ i \in 1..Len(lists[g]) /\ lists'[g][i] = lists[g][i]
    <3>1. CASE g # h BY <1>3, <3>1
    <3>2. CASE g = h BY <1>4, <2>2, <3>2, SMT
    <3> QED BY <3>1, <3>2
  <2>5. \A g \in Heads : DOMAIN lists'[g] = 1..Len(lists'[g]) BY <1>5, LenProperties
  <2> SUFFICES ASSUME NEW h1 \in Heads, NEW h2 \in Heads,
                      NEW i \in DOMAIN lists'[h1], NEW j \in DOMAIN lists'[h2],
                      lists'[h1][i] = lists'[h2][j]
               PROVE  h1 = h2 /\ i = j
    BY DEF OnceEach
  <2>a. i \in 1..Len(lists'[h1]) /\ j \in 1..Len(lists'[h2]) BY <2>5
  <2>6. i \in Int /\ j \in Int BY <2>a
  <2>7. \/ h1 = h /\ i < p /\ i \in 1..Len(lists[h1]) /\ lists'[h1][i] = lists[h1][i]
        \/ h1 = h /\ i >= p /\ i + 1 \in 1..Len(lists[h1]) /\ lists'[h1][i] = lists[h1][i + 1]
        \/ h1 # h /\ i \in 1..Len(lists[h1]) /\ lists'[h1][i] = lists[h1][i]
    BY <2>3, <2>a
  <2>8. \/ h2 = h /\ j < p /\ j \in 1..Len(lists[h2]) /\ lists'[h2][j] = lists[h2][j]
        \/ h2 = h /\ j >= p /\ j + 1 \in 1..Len(lists[h2]) /\ lists'[h2][j] = lists[h2][j + 1]
        \/ h2 # h /\ j \in 1..Len(lists[h2]) /\ lists'[h2][j] = lists[h2][j]
    BY <2>3, <2>a
  <2>9. h1 = h2 BY <2>1, <2>7, <2>8
  <2>10. \A k, l \in 1..Len(lists[h1]) : lists[h1][k] = lists[h1][l] => k = l BY <2>1
  <2>11. p \in Int OBVIOUS
  <2>12. CASE h1 = h BY <2>6, <2>7, <2>8, <2>9, <2>10, <2>11, <2>12, SMT
  <2>13. CASE h1 # h BY <2>7, <2>8, <2>9, <2>10, <2>13
  <2> QED BY <2>9, <2>12, <2>13
<1> QED BY <1>3, <1>4, <1>5, <1>6

(* Whatever has the effect of a removal keeps the invariant.               *)
LEMMA RemovalKeeps ==
  ASSUME IInv, NEW h \in Heads, NEW p \in 1..Len(lists[h]), RemovedAt(h, p),
         kind' = kind, origin' = origin, Doubly => Usable(h, lists[h][p]),
         mem' \in [Cells -> Values],
         FirstRemoved(h, p), NextRemoved(h, p),
         Doubly => PrevRemoved(h, p),
         Tailed => LastRemoved(h, p), ~Tailed => LastKept
  PROVE  IInv'
<1>0. Represented /\ OnceEach /\ Shape BY DEF IInv, Represented
<1>a. /\ lists' \in [Heads -> Seq(Elements)]
      /\ OnceEach'
      /\ \A g \in Heads \ {h} : lists'[g] = lists[g]
      /\ Len(lists'[h]) = Len(lists[h]) - 1
      /\ \A j \in 1..Len(lists[h]) - 1 :
              lists'[h][j] = IF j < p THEN lists[h][j] ELSE lists[h][j + 1]
  BY <1>0, ListsRemoved
<1> DEFINE s == lists[h]
           n == Len(s)
           t == lists'[h]
<1>1. /\ lists' \in [Heads -> Seq(Elements)]
      /\ OnceEach'
      /\ \A g \in Heads \ {h} : lists'[g] = lists[g]
      /\ Len(t) = n - 1
      /\ \A j \in 1..n - 1 : t[j] = IF j < p THEN s[j] ELSE s[j + 1]
  BY <1>a
<1>2. Shape' BY <1>0, <1>1 DEF Shape
<1>3. \A g : EndOf(g)' = EndOf(g) BY DEF EndOf
<1>4. /\ \A h1, h2 \in Heads : \A i \in 1..Len(lists[h1]), j \in 1..Len(lists[h2]) :
                lists[h1][i] = lists[h2][j] => h1 = h2 /\ i = j
      /\ \A g \in Heads : \A i \in 1..Len(lists[g]) : lists[g][i] \in Elements
      /\ \A g \in Heads : Len(lists[g]) \in Nat
  <2>1. \A g \in Heads : /\ Len(lists[g]) \in Nat /\ DOMAIN lists[g] = 1..Len(lists[g])
                         /\ \A i \in 1..Len(lists[g]) : lists[g][i] \in Elements
    BY <1>0, ListTypes
  <2> QED BY <1>0, <2>1 DEF OnceEach
<1>5. n \in Nat /\ p \in 1..n BY <1>4
<1>6. ASSUME NEW i \in 1..n PROVE s[i] \in Elements /\ \A j \in 1..n : s[j] = s[i] => i = j
  BY <1>4
<1>7. ASSUME NEW g \in Heads, g # h, NEW i \in 1..Len(lists[g])
      PROVE  lists[g][i] \in Elements /\ \A j \in 1..n : s[j] # lists[g][i]
  BY <1>4, <1>7
<1>8. Doubly /\ p = 1 => origin[h] = h BY DEF Usable
<1> HIDE DEF s, n, t
<1>9. ASSUME NEW g \in Heads PROVE Forward(g)'
  <2>1. mem[FirstOf(g)] = Succ(g, 1) /\ \A i \in 1..Len(lists[g]) : mem[NextOf(lists[g][i])] = Succ(g, i + 1)
    BY <1>0 DEF Represented, Forward
  <2>2. CASE g # h
    <3>1. \A i : Succ(g, i)' = Succ(g, i) BY <1>1, <1>3, <2>2 DEF Succ
    <3>2. mem'[FirstOf(g)] = Succ(g, 1)' BY <2>1, <2>2, <3>1 DEF FirstRemoved
    <3>3. ASSUME NEW i \in 1..Len(lists'[g]) PROVE mem'[NextOf(lists'[g][i])] = Succ(g, i + 1)'
      <4>1. lists'[g] = lists[g] /\ i \in 1..Len(lists[g]) BY <1>1, <2>2
      <4>2. lists[g][i] \in Elements /\ lists[g][i] # s[p] /\ (p > 1 => p - 1 \in 1..n /\ lists[g][i] # s[p - 1])
        BY <1>5, <1>7, <2>2, <4>1, SMT
      <4>3. mem'[NextOf(lists[g][i])] = mem[NextOf(lists[g][i])] BY <4>2 DEF NextRemoved, s
      <4> QED BY <2>1, <3>1, <4>1, <4>3
    <3> QED BY <3>2, <3>3 DEF Forward
  <2>3. CASE g = h
    <3>1. \A i \in 1..n : Succ(h, i)' = IF i < p THEN s[i] ELSE Succ(h, i + 1)
      BY <1>1, <1>3, <1>5, SMTT(20) DEF Succ, s, n, t
    <3>2. mem'[FirstOf(g)] = Succ(g, 1)'
      <4>1. CASE p = 1 BY <1>5, <2>3, <3>1, <4>1, SMT DEF FirstRemoved
      <4>2. CASE p # 1
        <5>1. mem'[FirstOf(h)] = Succ(h, 1) BY <2>1, <2>3, <4>2 DEF FirstRemoved
        <5>2. Succ(h, 1) = s[1] /\ Succ(h, 1)' = s[1] BY <1>5, <3>1, <4>2, SMT DEF Succ, s, n
        <5> QED BY <2>3, <5>1, <5>2
      <4> QED BY <4>1, <4>2
    <3>3. ASSUME NEW i \in 1..n - 1 PROVE mem'[NextOf(t[i])] = Succ(h, i + 1)'
      <4>1. CASE i < p
        <5>1. t[i] = s[i] /\ i \in 1..n /\ i + 1 \in 1..n /\ s[i] # s[p] BY <1>1, <1>5, <1>6, <4>1, SMT
        <5>2. CASE i = p - 1
          <6>1. mem'[NextOf(s[i])] = Succ(h, p + 1) BY <1>5, <1>6, <5>1, <5>2, SMT DEF NextRemoved, s
          <6>2. Succ(h, i + 1)' = Succ(h, p + 1) BY <1>5, <3>1, <5>1, <5>2, SMT
          <6> QED BY <5>1, <6>1, <6>2
        <5>3. CASE i # p - 1
          <6>1. s[i] # s[p - 1] BY <1>5, <1>6, <4>1, <5>1, <5>3, SMT
          <6>2. mem'[NextOf(s[i])] = mem[NextOf(s[i])] BY <1>6, <5>1, <6>1 DEF NextRemoved, s
          <6>3. mem[NextOf(s[i])] = Succ(h, i + 1) BY <2>1, <2>3, <5>1 DEF s, n
          <6>4. Succ(h, i + 1) = s[i + 1] BY <1>5, <5>1, SMT DEF Succ, s, n
          <6>5. Succ(h, i + 1)' = s[i + 1] BY <1>5, <3>1, <4>1, <5>1, <5>3, SMT
          <6> QED BY <5>1, <6>2, <6>3, <6>4, <6>5
        <5> QED BY <5>2, <5>3
      <4>2. CASE i >= p
        <5>1. t[i] = s[i + 1] /\ i + 1 \in 1..n BY <1>1, <1>5, <4>2, SMT
        <5>2. s[i + 1] # s[p] /\ (p > 1 => s[i + 1] # s[p - 1]) BY <1>5, <1>6, <4>2, <5>1, SMT
        <5>3. mem'[NextOf(s[i + 1])] = mem[NextOf(s[i + 1])] BY <1>6, <5>1, <5>2 DEF NextRemoved, s
        <5>4. mem[NextOf(s[i + 1])] = Succ(h, i + 2) BY <2>1, <2>3, <5>1, SMT DEF s, n
        <5>5. Succ(h, i + 1)' = Succ(h, i + 2) BY <1>5, <3>1, <4>2, <5>1, SMT
        <5> QED BY <5>1, <5>3, <5>4, <5>5
      <4> QED BY <1>5, <4>1, <4>2, SMT
    <3> QED BY <1>1, <2>3, <3>2, <3>3 DEF Forward, n, t
  <2> QED BY <2>2, <2>3
<1>10. ASSUME NEW g \in Heads, Doubly PROVE Backward(g)'
  <2>1. \A i \in 1..Len(lists[g]) : mem[PrevOf(lists[g][i])] = BackAt(IF i = 1 THEN origin[g] ELSE g, i)
    BY <1>0, <1>10 DEF Represented, Backward
  <2>2. PrevRemoved(h, p) BY <1>10
  <2>3. CASE g # h
    <3>1. lists'[g] = lists[g] /\ origin'[g] = origin[g] BY <1>1, <2>3
    <3>2. \A i : BackAt(IF i = 1 THEN origin[g] ELSE g, i)' = BackAt(IF i = 1 THEN origin[g] ELSE g, i)
      BY <3>1 DEF BackAt
    <3>3. ASSUME NEW i \in 1..Len(lists[g]) PROVE mem'[PrevOf(lists[g][i])] = mem[PrevOf(lists[g][i])]
      <4>1. lists[g][i] \in Elements /\ lists[g][i] # s[p] /\ (p < n => lists[g][i] # s[p + 1])
        BY <1>5, <1>7, <2>3, SMT
      <4> QED BY <2>2, <4>1 DEF PrevRemoved, s, n
    <3> QED BY <2>1, <3>1, <3>2, <3>3 DEF Backward
  <2>4. CASE g = h
    <3>1. \A i \in 1..n : i < p => BackAt(IF i = 1 THEN origin[g] ELSE g, i)' = BackAt(IF i = 1 THEN origin[g] ELSE g, i)
      BY <1>1, <1>5, <2>4, SMT DEF BackAt, s, n, t
    <3>2. BackAt(IF p = 1 THEN origin[g] ELSE g, p)' = BackAt(h, p)
      BY <1>1, <1>5, <1>8, <1>10, <2>4, SMT DEF BackAt, s, n, t
    <3>3. \A i \in 1..n : i > p => BackAt(h, i)' = BackAt(h, i + 1)
      BY <1>1, <1>5, SMT DEF BackAt, s, n, t
    <3>4. ASSUME NEW i \in 1..n - 1 PROVE mem'[PrevOf(t[i])] = BackAt(IF i = 1 THEN origin[g] ELSE g, i)'
      <4>1. CASE i < p
        <5>1. t[i] = s[i] /\ i \in 1..n BY <1>1, <1>5, <4>1, SMT
        <5>2. s[i] # s[p] /\ (p < n => s[i] # s[p + 1]) BY <1>5, <1>6, <4>1, <5>1, SMT
        <5>3. mem'[PrevOf(s[i])] = mem[PrevOf(s[i])] BY <1>6, <2>2, <5>1, <5>2 DEF PrevRemoved, s, n
        <5>4. mem[PrevOf(s[i])] = BackAt(IF i = 1 THEN origin[g] ELSE g, i) BY <2>1, <2>4, <5>1 DEF s, n
        <5> QED BY <3>1, <4>1, <5>1, <5>3, <5>4
      <4>2. CASE i = p
        <5>1. t[i] = s[p + 1] /\ p + 1 \in 1..n /\ s[p + 1] # s[p] /\ p < n BY <1>1, <1>5, <1>6, <4>2, SMT
        <5>2. mem'[PrevOf(s[p + 1])] = BackAt(h, p) BY <1>6, <2>2, <5>1 DEF PrevRemoved, s, n
        <5> QED BY <3>2, <4>2, <5>1, <5>2
      <4>3. CASE i > p
        <5>1. t[i] = s[i + 1] /\ i \in 1..n /\ i + 1 \in 1..n /\ i # 1 /\ i + 1 # 1 BY <1>1, <1>5, <4>3, SMT
        <5>2. s[i + 1] # s[p] /\ (p < n => s[i + 1] # s[p + 1]) BY <1>5, <1>6, <4>3, <5>1, SMT
        <5>3. mem'[PrevOf(s[i + 1])] = mem[PrevOf(s[i + 1])] BY <1>6, <2>2, <5>1, <5>2 DEF PrevRemoved, s, n
        <5>4. mem[PrevOf(s[i + 1])] = BackAt(h, i + 1) BY <2>1, <2>4, <5>1 DEF s, n
        <5>5. BackAt(h, i)' = BackAt(h, i + 1) BY <3>3, <4>3, <5>1
        <5> QED BY <2>4, <5>1, <5>3, <5>4, <5>5
      <4> QED BY <1>5, <4>1, <4>2, <4>3, SMT
    <3> QED BY <1>1, <2>4, <3>4 DEF Backward, n, t
  <2> QED BY <2>3, <2>4
<1>11. ASSUME NEW g \in Heads PROVE TailAt(g)'
  <2>1. TailAt(g) BY <1>0 DEF Represented
  <2>2. CASE ~Tailed BY <2>1, <2>2 DEF LastKept, TailAt, Tailed
  <2>3. CASE Tailed
    <3>1. LastRemoved(h, p) BY <2>3
    <3>2. mem[LastOf(g)] = BackAt(g, Len(lists[g]) + 1) BY <2>1, <2>3 DEF TailAt
    <3>3. CASE g # h
      <4>1. lists'[g] = lists[g] BY <1>1, <3>3
      <4> QED BY <2>3, <3>1, <3>2, <3>3, <4>1 DEF LastRemoved, TailAt, Tailed, BackAt
    <3>4. CASE g = h
      <4>1. CASE p = n
        <5>1. mem'[LastOf(h)] = BackAt(h, n) BY <3>1, <4>1 DEF LastRemoved, s, n
        <5>2. CASE n = 1 BY <1>1, <1>5, <2>3, <3>4, <5>1, <5>2, SMT DEF TailAt, Tailed, BackAt, s, n, t
        <5>3. CASE n # 1
          <6>1. n - 1 \in 1..n - 1 /\ t[n - 1] = s[n - 1] /\ Len(t) + 1 = n
            BY <1>1, <1>5, <4>1, <5>3, SMT
          <6> QED BY <1>5, <2>3, <3>4, <5>1, <5>3, <6>1, SMT DEF TailAt, Tailed, BackAt, s, n, t
        <5> QED BY <5>2, <5>3
      <4>2. CASE p # n
        BY <1>1, <1>5, <2>3, <3>1, <3>2, <3>4, <4>2, SMT
           DEF LastRemoved, TailAt, Tailed, BackAt, s, n, t
      <4> QED BY <4>1, <4>2
    <3> QED BY <3>3, <3>4
  <2> QED BY <2>2, <2>3
<1>12. Represented' BY <1>1, <1>9, <1>10, <1>11 DEF Represented, Doubly
<1>13. Unlinked'
  <2> SUFFICES ASSUME NEW x \in Elements, ~Linked(x)', x # lists[h][p]
               PROVE  mem'[NextOf(x)] = Poison
    BY DEF Unlinked, NextRemoved
  <2>1. \A g \in Heads : \A i \in 1..Len(lists'[g]) : lists'[g][i] # x BY DEF Linked
  <2>3. ASSUME NEW g \in Heads, NEW i \in 1..Len(lists[g]) PROVE lists[g][i] # x
    <3>1. CASE g # h BY <1>1, <2>1, <3>1
    <3>2. CASE g = h
      <4>1. CASE i < p
        <5>1. i \in 1..n - 1 /\ t[i] = s[i] BY <1>1, <1>5, <3>2, <4>1, SMT DEF n, s
        <5> QED BY <1>1, <2>1, <3>2, <5>1 DEF t, s
      <4>2. CASE i > p
        <5>1. i - 1 \in 1..n - 1 /\ t[i - 1] = s[i] BY <1>1, <1>5, <3>2, <4>2, SMT DEF n, s
        <5> QED BY <1>1, <2>1, <3>2, <5>1 DEF t, s
      <4>3. CASE i = p BY <3>2, <4>3
      <4> QED BY <1>5, <4>1, <4>2, <4>3, SMT
    <3> QED BY <3>1, <3>2
  <2>4. ~Linked(x) BY <2>3 DEF Linked
  <2>5. p > 1 => p - 1 \in 1..Len(lists[h]) BY <1>5, SMT DEF n, s
  <2>6. mem'[NextOf(x)] = mem[NextOf(x)] BY <2>3, <2>5 DEF NextRemoved
  <2> QED BY <2>4, <2>6 DEF IInv, Unlinked
<1> QED BY <1>2, <1>12, <1>13 DEF IInv

(* The cells that a removal reads                                          *)
LEMMA RemovalFacts ==
  ASSUME IInv
  PROVE  \A h \in Heads : \A i \in 1..Len(lists[h]) :
            /\ Len(lists[h]) \in Nat /\ lists[h][i] \in Elements
            /\ i = 1 => mem[FirstOf(h)] = lists[h][1]
            /\ mem[NextOf(lists[h][i])] = Succ(h, i + 1)
            /\ Doubly /\ (i = 1 => origin[h] = h) => mem[PrevOf(lists[h][i])] = BackAt(h, i)
            /\ i + 1 <= Len(lists[h]) => lists[h][i + 1] \in Elements /\ lists[h][i + 1] # lists[h][i]
            /\ i > 1 => /\ lists[h][i - 1] \in Elements /\ lists[h][i - 1] # lists[h][i]
                        /\ i + 1 <= Len(lists[h]) => lists[h][i - 1] # lists[h][i + 1]
<1> TAKE h \in Heads
<1> TAKE i \in 1..Len(lists[h])
<1>1. /\ Len(lists[h]) \in Nat
      /\ mem[FirstOf(h)] = Succ(h, 1)
      /\ lists[h][i] \in Elements
      /\ mem[NextOf(lists[h][i])] = Succ(h, i + 1)
      /\ Doubly /\ (i = 1 => origin[h] = h) => mem[PrevOf(lists[h][i])] = BackAt(h, i)
  BY LinkFacts
<1>2. \A j, k \in 1..Len(lists[h]) : lists[h][j] \in Elements /\ (lists[h][j] = lists[h][k] => j = k)
  BY LinkFacts, ListTypes DEF IInv, Represented, OnceEach
<1>3. i = 1 => mem[FirstOf(h)] = lists[h][1] BY <1>1, SMT DEF Succ
<1>4. i + 1 <= Len(lists[h]) => lists[h][i + 1] \in Elements /\ lists[h][i + 1] # lists[h][i]
  BY <1>1, <1>2, SMT
<1>5. i > 1 => /\ lists[h][i - 1] \in Elements /\ lists[h][i - 1] # lists[h][i]
               /\ i + 1 <= Len(lists[h]) => lists[h][i - 1] # lists[h][i + 1]
  BY <1>1, <1>2, SMT
<1> QED BY <1>1, <1>3, <1>4, <1>5

-----------------------------------------------------------------------------
(* The walk of REMOVE in the lists with one link (Before) ends at the      *)
(* element before the one it looks for. The function that walks exists,    *)
(* since the walk ends from every element; it takes the value it should,   *)
(* from the greatest place before the element downwards: a set of places   *)
(* that has none where it fails is empty.                                  *)
LEMMA Greatest ==
  ASSUME NEW n \in Nat, NEW T, T \subseteq 1..n, T # {}
  PROVE  \E k \in T : \A j \in T : j <= k
<1> DEFINE Segments == {k..n : k \in T}
           R == StrictSubsetOrdering(Nat)
<1>1. \A k \in T : k \in Int /\ k..n \subseteq Nat /\ k <= n BY SMT
<1>2. Segments \subseteq FiniteSubsetsOf(Nat)
  <2>1. \A k \in T : IsFiniteSet(k..n) BY <1>1, FS_Interval
  <2> QED BY <1>1, <2>1, Zenon DEF FiniteSubsetsOf
<1>3. Segments # {} OBVIOUS
<1>4. IsWellFoundedOn(R, FiniteSubsetsOf(Nat)) BY FS_StrictSubsetOrderingWellFounded
<1> HIDE DEF Segments, R
<1>5. \E X \in Segments : \A Y \in Segments : ~(<<Y, X>> \in R) BY <1>2, <1>3, <1>4, WFMin
<1>6. PICK X \in Segments : \A Y \in Segments : ~(<<Y, X>> \in R) BY <1>5
<1>7. PICK k \in T : X = k..n BY <1>6, Zenon DEF Segments
<1>8. ASSUME NEW j \in T, j > k PROVE FALSE
  <2>1. j..n \in Segments BY DEF Segments
  <2>2. j..n \subseteq k..n /\ j..n # k..n BY <1>1, <1>8, SMT
  <2>3. <<j..n, k..n>> \in R
    BY <1>1, <2>2 DEF R, StrictSubsetOrdering
  <2> QED BY <1>6, <1>7, <2>1, <2>3
<1>9. \A j \in T : j <= k BY <1>1, <1>8, SMT
<1> QED BY <1>9

LEMMA WalkFound ==
  ASSUME NEW m, NEW elm, NEW G,
         G = [e \in Elements |-> IF m[NextOf(e)] \in Elements \ {elm} THEN G[m[NextOf(e)]] ELSE e]
  PROVE  \A e \in Elements :
            Walk(m, elm)[e] = IF m[NextOf(e)] \in Elements \ {elm} THEN Walk(m, elm)[m[NextOf(e)]] ELSE e
<1> DEFINE P(f) == f = [e \in Elements |-> IF m[NextOf(e)] \in Elements \ {elm} THEN f[m[NextOf(e)]] ELSE e]
<1>1. P(G) OBVIOUS
<1>2. Walk(m, elm) = CHOOSE f : P(f) BY DEF Walk
<1> HIDE DEF P
<1>3. P(CHOOSE f : P(f)) BY <1>1
<1>4. P(Walk(m, elm)) BY <1>2, <1>3
<1> DEFINE W == Walk(m, elm)
<1>5. P(W) BY <1>4
<1> HIDE DEF W
<1>6. \A e \in Elements : W[e] = IF m[NextOf(e)] \in Elements \ {elm} THEN W[m[NextOf(e)]] ELSE e
  BY <1>5 DEF P
<1> QED BY <1>6 DEF W
LEMMA BeforeFound ==
  ASSUME IInv, kind # "CIRCLEQ", NEW h \in Heads, NEW i \in 1..Len(lists[h])
  PROVE  IF i = 1 THEN mem[FirstOf(h)] = lists[h][i]
         ELSE mem[FirstOf(h)] # lists[h][i] /\ Before(mem, h, lists[h][i]) = lists[h][i - 1]
<1> DEFINE s == lists[h]
           elm == s[i]
           N(g) == Len(lists[g])
<1>1. /\ \A g \in Heads : N(g) \in Nat /\ \A k \in 1..N(g) : lists[g][k] \in Elements
      /\ \A f, g \in Heads : \A j \in 1..N(f), k \in 1..N(g) :
            lists[f][j] = lists[g][k] => f = g /\ j = k
  BY ListTypes DEF IInv, Represented, OnceEach
<1>2. CASE i = 1 BY <1>2, RemovalFacts
<1>3. CASE i # 1
  <2> DEFINE Tip(g, k) == IF g = h /\ k < i THEN s[i - 1] ELSE lists[g][N(g)]
             IsTip(x, y) == \E g \in Heads : \E k \in 1..N(g) : x = lists[g][k] /\ y = Tip(g, k)
             G == [x \in Elements |-> IF \E y : IsTip(x, y) THEN CHOOSE y : IsTip(x, y) ELSE x]
             W == Walk(mem, elm)
  <2>1. i \in Int /\ N(h) \in Nat /\ 1 < i /\ i <= N(h) /\ 1 \in 1..N(h) /\ i - 1 \in 1..N(h)
    BY <1>1, <1>3, SMT
  <2>2. ASSUME NEW g \in Heads, NEW k \in 1..N(g)
        PROVE  mem[NextOf(lists[g][k])] = IF k < N(g) THEN lists[g][k + 1] ELSE Null
    <3>1. mem[NextOf(lists[g][k])] = Succ(g, k + 1) BY LinkFacts
    <3>2. k + 1 <= N(g) <=> k < N(g) BY <1>1, SMT
    <3> QED BY <3>1, <3>2 DEF Succ, EndOf
  <2>3. ASSUME NEW g \in Heads, NEW k \in 1..N(g) PROVE G[lists[g][k]] = Tip(g, k)
    <3>1. IsTip(lists[g][k], Tip(g, k)) OBVIOUS
    <3>2. ASSUME NEW y, IsTip(lists[g][k], y) PROVE y = Tip(g, k)
      <4>1. PICK g2 \in Heads : \E k2 \in 1..N(g2) : lists[g][k] = lists[g2][k2] /\ y = Tip(g2, k2)
        BY <3>2
      <4>3. PICK k2 \in 1..N(g2) : lists[g][k] = lists[g2][k2] /\ y = Tip(g2, k2) BY <4>1
      <4>2. g2 = g /\ k2 = k BY <1>1, <4>3
      <4> QED BY <4>3, <4>2
    <3> HIDE DEF IsTip, Tip
    <3>3. (CHOOSE y : IsTip(lists[g][k], y)) = Tip(g, k) BY <3>1, <3>2
    <3> QED BY <1>1, <3>1, <3>3
  <2>4. ASSUME NEW x \in Elements, ~Linked(x) PROVE G[x] = x
    <3>1. ~ \E y : IsTip(x, y) BY <2>4 DEF Linked
    <3> HIDE DEF IsTip
    <3> QED BY <3>1
  <2>5. Null \notin Elements /\ Poison \notin Elements BY HeadsAreNoElements
  <2>6. ASSUME NEW x \in Elements
        PROVE  G[x] = IF mem[NextOf(x)] \in Elements \ {elm} THEN G[mem[NextOf(x)]] ELSE x
    <3> HIDE DEF G
    <3>1. CASE ~Linked(x) BY <2>4, <2>5, <3>1 DEF IInv, Unlinked
    <3>2. CASE Linked(x)
      <4>0. PICK g \in Heads : \E k \in 1..N(g) : x = lists[g][k] BY <3>2 DEF Linked
      <4>1. PICK k \in 1..N(g) : x = lists[g][k] BY <4>0
      <4>2. G[x] = Tip(g, k) BY <2>3, <4>1
      <4>3. CASE k = N(g)
        <5>1. ~(k < N(g)) BY <1>1, <4>3, SMT
        <5>2. mem[NextOf(x)] = Null BY <2>2, <4>1, <5>1
        <5>3. ~(g = h /\ k < i) BY <1>1, <2>1, <4>3, SMT
        <5> QED BY <2>5, <4>1, <4>2, <4>3, <5>2, <5>3
      <4>4. CASE k # N(g)
        <5>1. k < N(g) /\ k + 1 \in 1..N(g) BY <1>1, <4>4, SMT
        <5>2. mem[NextOf(x)] = lists[g][k + 1] BY <2>2, <4>1, <5>1
        <5>3. lists[g][k + 1] \in Elements BY <1>1, <5>1
        <5>4. G[lists[g][k + 1]] = Tip(g, k + 1) BY <2>3, <5>1
        <5>5. CASE g = h /\ k + 1 = i
          <6>1. k < i /\ i - 1 = k BY <1>1, <5>5, SMT
          <6>2. G[x] = x BY <4>1, <4>2, <5>5, <6>1
          <6> QED BY <5>2, <5>5, <6>2
        <5>6. CASE ~(g = h /\ k + 1 = i)
          <6>1. lists[g][k + 1] # elm BY <1>1, <5>1, <5>6
          <6>2. g = h => (k < i <=> k + 1 < i) BY <1>1, <2>1, <5>6, SMT
          <6>3. Tip(g, k) = Tip(g, k + 1) BY <6>2
          <6> QED BY <4>2, <5>2, <5>3, <5>4, <6>1, <6>3
        <5> QED BY <5>5, <5>6
      <4> QED BY <4>3, <4>4
    <3> QED BY <3>1, <3>2
  <2>7. G = [x \in Elements |-> IF mem[NextOf(x)] \in Elements \ {elm} THEN G[mem[NextOf(x)]] ELSE x]
    <3> DEFINE F == [x \in Elements |-> IF mem[NextOf(x)] \in Elements \ {elm} THEN G[mem[NextOf(x)]] ELSE x]
    <3>1. \A x \in Elements : F[x] = G[x] BY <2>6
    <3>2. F = [x \in Elements |-> F[x]] OBVIOUS
    <3>3. G = [x \in Elements |-> G[x]] OBVIOUS
    <3> HIDE DEF F, G
    <3>4. F = G BY <3>1, <3>2, <3>3, Zenon
    <3> QED BY <3>4 DEF F
  <2> HIDE DEF G
  <2>8. \A x \in Elements : W[x] = IF mem[NextOf(x)] \in Elements \ {elm} THEN W[mem[NextOf(x)]] ELSE x
    BY <2>7, WalkFound
  <2> HIDE DEF W
  <2>9. W[s[i - 1]] = s[i - 1]
    <3>1. i - 1 < N(h) /\ (i - 1) + 1 = i BY <2>1, SMT
    <3>2. mem[NextOf(s[i - 1])] = elm BY <2>1, <2>2, <3>1
    <3> QED BY <1>1, <2>1, <2>8, <3>2
  <2>10. ASSUME NEW k \in 1..i - 1, k # i - 1 PROVE k + 1 \in 1..i - 1 /\ W[s[k]] = W[s[k + 1]]
    <3>1. k \in 1..N(h) /\ k < N(h) /\ k + 1 \in 1..N(h) /\ k + 1 # i /\ k + 1 \in 1..i - 1
      BY <2>1, <2>10, SMT
    <3>2. mem[NextOf(s[k])] = s[k + 1] BY <2>2, <3>1
    <3>3. s[k + 1] \in Elements /\ s[k + 1] # elm /\ s[k] \in Elements BY <1>1, <3>1
    <3> QED BY <2>8, <3>1, <3>2, <3>3
  <2>11. ASSUME NEW k0 \in 1..i - 1, W[s[k0]] # s[i - 1] PROVE FALSE
    <3> DEFINE T == {k \in 1..i - 1 : W[s[k]] # s[i - 1]}
    <3>1. T \subseteq 1..i - 1 /\ T # {} BY <2>11
    <3>2. i - 1 \in Nat BY <2>1, SMT
    <3>3. \E k \in T : \A j \in T : j <= k
      <4> HIDE DEF T
      <4> QED BY <3>1, <3>2, Greatest
    <3>4. PICK k \in T : \A j \in T : j <= k BY <3>3
    <3>5. k # i - 1 /\ k \in 1..i - 1 BY <2>9
    <3>6. k + 1 \in T BY <2>10, <3>4, <3>5
    <3> QED BY <3>4, <3>5, <3>6, SMT
  <2>12. 1 \in 1..i - 1 BY <2>1, SMT
  <2>13. W[s[1]] = s[i - 1] BY <2>11, <2>12
  <2>14. mem[FirstOf(h)] = s[1] BY <2>1, RemovalFacts
  <2>15. s[1] # elm BY <1>1, <1>3, <2>1
  <2> QED BY <1>3, <2>13, <2>14, <2>15 DEF Before, W
<1> QED BY <1>2, <1>3

-----------------------------------------------------------------------------
(* Each macro that removes has the effect of a removal.                    *)
LEMMA RemoveHeadKeeps ==
  ASSUME IInv, NEW h \in Heads, RemoveHead(h)
  PROVE  IInv'
<1>1. IInv /\ Shape /\ OnceEach /\ mem \in [Cells -> Values] BY DEF IInv, Shape, Represented
<1>2. kind \in {"SLIST", "SIMPLEQ", "STAILQ"} /\ kind' = kind
  BY <1>1, OneKind DEF RemoveHead, AllKinds
<1> DEFINE p == 1
<1>3. /\ Len(lists[h]) \in Nat \ {0} /\ 1 \in 1..Len(lists[h]) /\ lists[h][1] \in Elements
      /\ mem[FirstOf(h)] = lists[h][1] /\ mem[NextOf(lists[h][1])] = Succ(h, 2)
      /\ 2 <= Len(lists[h]) => lists[h][2] \in Elements /\ lists[h][2] # lists[h][1]
  <2>1. lists[h] \in Seq(Elements) /\ lists[h] # <<>> BY <1>1 DEF RemoveHead, Shape
  <2>2. Len(lists[h]) \in Nat \ {0} BY <2>1, EmptySeq
  <2>3. 1 \in 1..Len(lists[h]) BY <2>2, SMT
  <2> QED BY <1>1, <2>2, <2>3, RemovalFacts, SMT
<1>4. p \in 1..Len(lists[h]) BY <1>3, SMT
<1>5. /\ mem' \in [Cells -> Values]
      /\ FirstRemoved(h, p) /\ NextRemoved(h, p)
      /\ (Doubly => PrevRemoved(h, p))
      /\ (Tailed => LastRemoved(h, p)) /\ (~Tailed => LastKept)
  <2>1. CASE kind = "SLIST"
    <3>1. mem' = Forget(SLIST_REMOVE_HEAD(mem, h), lists[h][1]) BY <2>1 DEF RemoveHead
    <3>2. mem' \in [Cells -> Values]
      BY <1>1, <1>2, <1>3, <2>1, <3>1, CellFacts, ValueFacts, HeadsAreNoElements, NullIsNotPoison, SMT
         DEF SLIST_REMOVE_HEAD, Forget, Succ, BackAt, EndOf, Tailed, Doubly
    <3>3. FirstRemoved(h, p)
      BY <1>1, <1>2, <1>3, <2>1, <3>1, CellFacts, HeadsAreNoElements, NullIsNotPoison, SMT DEF FirstRemoved, SLIST_REMOVE_HEAD, Forget, Succ, BackAt, EndOf, Tailed, Doubly
    <3>4. NextRemoved(h, p)
      BY <1>1, <1>2, <1>3, <2>1, <3>1, CellFacts, HeadsAreNoElements, NullIsNotPoison, SMT DEF NextRemoved, SLIST_REMOVE_HEAD, Forget, Succ, BackAt, EndOf, Tailed, Doubly
    <3>6. LastKept
      BY <1>1, <1>2, <1>3, <2>1, <3>1, CellFacts, HeadsAreNoElements, NullIsNotPoison, SMT DEF LastKept, SLIST_REMOVE_HEAD, Forget, Succ, BackAt, EndOf, Tailed, Doubly
    <3> QED BY <2>1, <3>2, <3>3, <3>4, <3>6 DEF Doubly, Tailed
  <2>2. CASE kind = "SIMPLEQ"
    <3>1. mem' = Forget(SIMPLEQ_REMOVE_HEAD(mem, h), lists[h][1]) BY <2>2 DEF RemoveHead
    <3>2. mem' \in [Cells -> Values]
      BY <1>1, <1>2, <1>3, <2>2, <3>1, CellFacts, ValueFacts, HeadsAreNoElements, NullIsNotPoison, SMT
         DEF SIMPLEQ_REMOVE_HEAD, LastIfEnd, Forget, Succ, BackAt, EndOf, Tailed, Doubly
    <3>3. FirstRemoved(h, p)
      BY <1>1, <1>2, <1>3, <2>2, <3>1, CellFacts, HeadsAreNoElements, NullIsNotPoison, SMT DEF FirstRemoved, SIMPLEQ_REMOVE_HEAD, LastIfEnd, Forget, Succ, BackAt, EndOf, Tailed, Doubly
    <3>4. NextRemoved(h, p)
      BY <1>1, <1>2, <1>3, <2>2, <3>1, CellFacts, HeadsAreNoElements, NullIsNotPoison, SMT DEF NextRemoved, SIMPLEQ_REMOVE_HEAD, LastIfEnd, Forget, Succ, BackAt, EndOf, Tailed, Doubly
    <3>6. LastRemoved(h, p)
      <4>1. CASE Len(lists[h]) = 1
        BY <1>1, <1>2, <1>3, <2>2, <3>1, <4>1, CellFacts, HeadsAreNoElements, NullIsNotPoison, SMT
           DEF LastRemoved, SIMPLEQ_REMOVE_HEAD, LastIfEnd, Forget, Succ, BackAt, EndOf, Tailed, Doubly
      <4>2. CASE Len(lists[h]) >= 2
        <5>1. Succ(h, 2) # Null
          <6>1. 2 <= Len(lists[h]) BY <1>3, <4>2, SMT
          <6>2. lists[h][2] \in Elements BY <1>3, <6>1
          <6> QED BY <6>1, <6>2, HeadsAreNoElements DEF Succ
        <5> HIDE DEF p
        <5>2. \A g \in Heads : mem'[LastOf(g)] = mem[LastOf(g)]
          BY <1>1, <1>3, <3>1, <5>1, CellFacts, SMT DEF SIMPLEQ_REMOVE_HEAD, LastIfEnd, Forget
        <5> USE DEF p
        <5> QED BY <1>3, <4>2, <5>2, SMT DEF LastRemoved
      <4>3. \A n \in Nat \ {0} : n = 1 \/ n >= 2 BY SMT
      <4>4. Len(lists[h]) \in Nat \ {0} BY <1>3
      <4> QED BY <4>1, <4>2, <4>3, <4>4
    <3> QED BY <2>2, <3>2, <3>3, <3>4, <3>6 DEF Doubly, Tailed
  <2>3. CASE kind = "STAILQ"
    <3>1. mem' = Forget(STAILQ_REMOVE_HEAD(mem, h), lists[h][1]) BY <2>3 DEF RemoveHead
    <3>2. mem' \in [Cells -> Values]
      BY <1>1, <1>2, <1>3, <2>3, <3>1, CellFacts, ValueFacts, HeadsAreNoElements, NullIsNotPoison, SMT
         DEF STAILQ_REMOVE_HEAD, SIMPLEQ_REMOVE_HEAD, LastIfEnd, Forget, Succ, BackAt, EndOf, Tailed, Doubly
    <3>3. FirstRemoved(h, p)
      BY <1>1, <1>2, <1>3, <2>3, <3>1, CellFacts, HeadsAreNoElements, NullIsNotPoison, SMT DEF FirstRemoved, STAILQ_REMOVE_HEAD, SIMPLEQ_REMOVE_HEAD, LastIfEnd, Forget, Succ, BackAt, EndOf, Tailed, Doubly
    <3>4. NextRemoved(h, p)
      BY <1>1, <1>2, <1>3, <2>3, <3>1, CellFacts, HeadsAreNoElements, NullIsNotPoison, SMT DEF NextRemoved, STAILQ_REMOVE_HEAD, SIMPLEQ_REMOVE_HEAD, LastIfEnd, Forget, Succ, BackAt, EndOf, Tailed, Doubly
    <3>6. LastRemoved(h, p)
      <4>1. CASE Len(lists[h]) = 1
        BY <1>1, <1>2, <1>3, <2>3, <3>1, <4>1, CellFacts, HeadsAreNoElements, NullIsNotPoison, SMT
           DEF LastRemoved, STAILQ_REMOVE_HEAD, SIMPLEQ_REMOVE_HEAD, LastIfEnd, Forget, Succ, BackAt, EndOf, Tailed, Doubly
      <4>2. CASE Len(lists[h]) >= 2
        <5>1. Succ(h, 2) # Null
          <6>1. 2 <= Len(lists[h]) BY <1>3, <4>2, SMT
          <6>2. lists[h][2] \in Elements BY <1>3, <6>1
          <6> QED BY <6>1, <6>2, HeadsAreNoElements DEF Succ
        <5> HIDE DEF p
        <5>2. \A g \in Heads : mem'[LastOf(g)] = mem[LastOf(g)]
          BY <1>1, <1>3, <3>1, <5>1, CellFacts, SMT DEF STAILQ_REMOVE_HEAD, SIMPLEQ_REMOVE_HEAD, LastIfEnd, Forget
        <5> USE DEF p
        <5> QED BY <1>3, <4>2, <5>2, SMT DEF LastRemoved
      <4>3. \A n \in Nat \ {0} : n = 1 \/ n >= 2 BY SMT
      <4>4. Len(lists[h]) \in Nat \ {0} BY <1>3
      <4> QED BY <4>1, <4>2, <4>3, <4>4
    <3> QED BY <2>3, <3>2, <3>3, <3>4, <3>6 DEF Doubly, Tailed
  <2> QED BY <1>2, <2>1, <2>2, <2>3
<1>6. RemovedAt(h, p) /\ origin' = origin BY DEF RemoveHead, Removed, RemovedAt
<1>7. Doubly => Usable(h, lists[h][p]) BY <1>2 DEF Doubly
<1> HIDE DEF p
<1> QED BY <1>1, <1>2, <1>4, <1>5, <1>6, <1>7, RemovalKeeps

LEMMA RemoveAfterKeeps ==
  ASSUME IInv, NEW h \in Heads, NEW i \in DOMAIN lists[h], RemoveAfter(h, i)
  PROVE  IInv'
<1>1. IInv /\ Shape /\ OnceEach /\ mem \in [Cells -> Values] BY DEF IInv, Shape, Represented
<1>2. kind \in {"SLIST", "SIMPLEQ"} /\ kind' = kind
  BY <1>1, OneKind DEF RemoveAfter, AllKinds
<1> DEFINE p == i + 1
<1>3. /\ Len(lists[h]) \in Nat /\ i \in 1..Len(lists[h]) /\ i + 1 \in 1..Len(lists[h])
      /\ lists[h][i] \in Elements /\ lists[h][i + 1] \in Elements /\ lists[h][i] # lists[h][i + 1]
      /\ mem[NextOf(lists[h][i])] = lists[h][i + 1]
      /\ mem[NextOf(lists[h][i + 1])] = Succ(h, i + 2)
      /\ i + 2 <= Len(lists[h]) => lists[h][i + 2] \in Elements /\ lists[h][i + 2] # lists[h][i + 1]
  <2>1. i \in 1..Len(lists[h]) /\ Len(lists[h]) \in Nat BY <1>1, ListTypes
  <2>2. i + 1 \in 1..Len(lists[h]) /\ i + 1 > 1 /\ (i + 1) - 1 = i /\ (i + 1) + 1 = i + 2
    BY <2>1, SMT DEF RemoveAfter
  <2>3. mem[NextOf(lists[h][i])] = Succ(h, i + 1) BY <2>1, LinkFacts
  <2>4. Succ(h, i + 1) = lists[h][i + 1] BY <2>1, <2>2, SMT DEF Succ
  <2> QED BY <1>1, <2>1, <2>2, <2>3, <2>4, RemovalFacts
<1>4. p \in 1..Len(lists[h]) BY <1>3, SMT
<1>5. /\ mem' \in [Cells -> Values]
      /\ FirstRemoved(h, p) /\ NextRemoved(h, p)
      /\ (Doubly => PrevRemoved(h, p))
      /\ (Tailed => LastRemoved(h, p)) /\ (~Tailed => LastKept)
  <2>1. CASE kind = "SLIST"
    <3>1. mem' = Forget(SLIST_REMOVE_AFTER(mem, lists[h][i]), lists[h][i + 1])
      BY <2>1 DEF RemoveAfter
    <3>2. mem' = [mem EXCEPT ![NextOf(lists[h][i])] = Succ(h, i + 2),
                             ![NextOf(lists[h][i + 1])] = Poison,
                             ![PrevOf(lists[h][i + 1])] = Poison]
      BY <1>3, <3>1 DEF SLIST_REMOVE_AFTER, Forget
    <3>3. mem' \in [Cells -> Values] /\ FirstRemoved(h, p)
      <4>1. Succ(h, i + 2) \in Values BY <1>1, <1>3, CellFacts
      <4>2. mem' \in [Cells -> Values] BY <1>1, <3>2, <4>1, ValueFacts
      <4>3. ASSUME NEW g \in Heads PROVE mem'[FirstOf(g)] = mem[FirstOf(g)]
        BY <1>1, <1>3, <3>2, CellFacts
      <4>4. p # 1 BY <1>3, SMT
      <4> QED BY <4>2, <4>3, <4>4 DEF FirstRemoved
    <3>4. NextRemoved(h, p)
      <4>1. (i + 1) + 1 = i + 2 /\ (i + 1) - 1 = i /\ i + 1 > 1 BY <1>3, SMT
      <4>2. ASSUME NEW x \in Elements
            PROVE  mem'[NextOf(x)] = IF x = lists[h][i + 1] THEN Poison
                                     ELSE IF x = lists[h][i] THEN Succ(h, i + 2)
                                     ELSE mem[NextOf(x)]
        BY <1>1, <1>3, <3>2, CellFacts
      <4> QED BY <4>1, <4>2 DEF NextRemoved
    <3>6. LastKept
      BY <1>1, <1>2, <1>3, <2>1, <3>1, CellFacts, HeadsAreNoElements, NullIsNotPoison, SMT DEF LastKept, SLIST_REMOVE_AFTER, Forget, Succ, BackAt, EndOf, Tailed, Doubly
    <3> QED BY <2>1, <3>3, <3>4, <3>6 DEF Doubly, Tailed
  <2>2. CASE kind = "SIMPLEQ"
    <3>1. mem' = Forget(SIMPLEQ_REMOVE_AFTER(mem, h, lists[h][i]), lists[h][i + 1]) BY <2>2 DEF RemoveAfter
    <3>2. mem' \in [Cells -> Values]
      BY <1>1, <1>2, <1>3, <2>2, <3>1, CellFacts, ValueFacts, HeadsAreNoElements, NullIsNotPoison, SMT
         DEF SIMPLEQ_REMOVE_AFTER, LastIfEnd, Forget, Succ, BackAt, EndOf, Tailed, Doubly
    <3>3. FirstRemoved(h, p)
      BY <1>1, <1>2, <1>3, <2>2, <3>1, CellFacts, HeadsAreNoElements, NullIsNotPoison, SMT DEF FirstRemoved, SIMPLEQ_REMOVE_AFTER, LastIfEnd, Forget, Succ, BackAt, EndOf, Tailed, Doubly
    <3>4. NextRemoved(h, p)
      BY <1>1, <1>2, <1>3, <2>2, <3>1, CellFacts, HeadsAreNoElements, NullIsNotPoison, SMT DEF NextRemoved, SIMPLEQ_REMOVE_AFTER, LastIfEnd, Forget, Succ, BackAt, EndOf, Tailed, Doubly
    <3>6. LastRemoved(h, p)
      BY <1>1, <1>2, <1>3, <2>2, <3>1, CellFacts, HeadsAreNoElements, NullIsNotPoison, SMT DEF LastRemoved, SIMPLEQ_REMOVE_AFTER, LastIfEnd, Forget, Succ, BackAt, EndOf, Tailed, Doubly
    <3> QED BY <2>2, <3>2, <3>3, <3>4, <3>6 DEF Doubly, Tailed
  <2> QED BY <1>2, <2>1, <2>2
<1>6. RemovedAt(h, p) /\ origin' = origin BY DEF RemoveAfter, Removed, RemovedAt
<1>7. Doubly => Usable(h, lists[h][p]) BY <1>2 DEF Doubly
<1> HIDE DEF p
<1> QED BY <1>1, <1>2, <1>4, <1>5, <1>6, <1>7, RemovalKeeps

LEMMA RemoveKeeps ==
  ASSUME IInv, NEW h \in Heads, NEW i \in DOMAIN lists[h], Remove(h, i)
  PROVE  IInv'
<1> DEFINE n == Len(lists[h])
           elm == lists[h][i]
           nx == Succ(h, i + 1)
           b == BackAt(h, i)
           fc == IF i = 1 THEN FirstOf(h) ELSE NextOf(lists[h][i - 1])
           bc == IF i = n THEN LastOf(h) ELSE PrevOf(lists[h][i + 1])
           told == IF i = n THEN Tailed ELSE Doubly
<1>1. IInv /\ Shape /\ OnceEach /\ mem \in [Cells -> Values] BY DEF IInv, Shape, Represented
<1>2. kind \in {"SLIST", "LIST", "SIMPLEQ", "STAILQ", "TAILQ", "CIRCLEQ"} /\ kind' = kind
  BY <1>1, OneKind DEF Remove, AllKinds
<1>3. n \in Nat /\ i \in 1..n /\ (Doubly => (i = 1 => origin[h] = h))
  BY <1>1, ListTypes DEF Remove, Usable
<1>4. /\ elm \in Elements /\ mem[NextOf(elm)] = nx /\ (Doubly => mem[PrevOf(elm)] = b)
      /\ i = 1 => mem[FirstOf(h)] = elm
      /\ kind # "CIRCLEQ" =>
            IF i = 1 THEN mem[FirstOf(h)] = elm
            ELSE mem[FirstOf(h)] # elm /\ Before(mem, h, elm) = lists[h][i - 1]
  BY <1>1, <1>3, RemovalFacts, BeforeFound
<1>5. IF i = 1 THEN fc = FirstOf(h) /\ (b = IF kind = "CIRCLEQ" THEN h ELSE fc)
      ELSE /\ i > 1 /\ fc = NextOf(lists[h][i - 1])
           /\ lists[h][i - 1] \in Elements /\ lists[h][i - 1] # elm
           /\ b = IF kind = "CIRCLEQ" THEN lists[h][i - 1] ELSE fc
  <2>1. CASE i = 1 BY <2>1 DEF BackAt
  <2>2. CASE i # 1
    <3>1. i > 1 BY <1>3, <2>2, SMT
    <3> QED BY <1>1, <1>3, <2>2, <3>1, RemovalFacts DEF BackAt
  <2> QED BY <2>1, <2>2
<1>6. IF i = n THEN bc = LastOf(h) /\ (nx = IF kind = "CIRCLEQ" THEN h ELSE Null)
      ELSE /\ i < n /\ bc = PrevOf(nx) /\ nx = lists[h][i + 1]
           /\ nx \in Elements /\ nx # elm /\ nx # Null /\ nx # h
  <2>1. CASE i = n
    <3>1. ~(i + 1 <= n) BY <1>3, <2>1, SMT
    <3> QED BY <2>1, <3>1 DEF Succ, EndOf
  <2>2. CASE i # n
    <3>1. i < n /\ i + 1 <= n BY <1>3, <2>2, SMT
    <3>2. nx = lists[h][i + 1] BY <3>1 DEF Succ
    <3>3. nx \in Elements /\ nx # elm BY <1>1, <1>3, <3>1, <3>2, RemovalFacts
    <3> QED BY <2>2, <3>1, <3>2, <3>3, HeadsAreNoElements
  <2> QED BY <2>1, <2>2
<1>7. i > 1 /\ i < n => lists[h][i - 1] # nx
  <2> SUFFICES ASSUME i > 1, i < n PROVE lists[h][i - 1] # nx
    OBVIOUS
  <2>1. i + 1 <= n /\ i # n BY <1>3, SMT
  <2> QED BY <1>1, <1>3, <1>6, <2>1, RemovalFacts
<1>8. mem' = CASE kind = "SLIST" -> Forget(SLIST_REMOVE(mem, h, elm), elm)
               [] kind = "LIST" -> LIST_REMOVE(mem, elm)
               [] kind = "SIMPLEQ" -> Forget(SIMPLEQ_REMOVE(mem, h, elm), elm)
               [] kind = "STAILQ" -> Forget(STAILQ_REMOVE(mem, h, elm), elm)
               [] kind = "TAILQ" -> TAILQ_REMOVE(mem, h, elm)
               [] kind = "CIRCLEQ" -> CIRCLEQ_REMOVE(mem, h, elm)
  BY DEF Remove
<1> HIDE DEF elm, nx, b, fc, bc, told
<1>9. fc \in Cells /\ bc \in Cells /\ b \in Values /\ nx \in Values
  BY <1>5, <1>6, CellFacts, ValueFacts
<1>10. /\ mem' \in [Cells -> Values]
       /\ \A c \in Cells :
            mem'[c] = IF c = NextOf(elm) \/ c = PrevOf(elm) THEN Poison
                      ELSE IF c = fc THEN nx
                      ELSE IF told /\ c = bc THEN b ELSE mem[c]
  <2> DEFINE Put(m) == [m EXCEPT ![fc] = nx]
  <2> DEFINE Told(m) == IF told THEN [m EXCEPT ![bc] = b] ELSE m
  <2>1. fc # bc
    BY <1>4, <1>5, <1>6, CellFacts
  <2>2. mem' = Forget(Told(Put(mem)), elm) \/ mem' = Forget(Put(Told(mem)), elm)
    <3>1. CASE kind = "SLIST"
      <4>1. ~told BY <3>1 DEF told, Tailed, Doubly
      <4>2. mem' = Forget(SLIST_REMOVE(mem, h, elm), elm) BY <1>8, <3>1
      <4>3. CASE i = 1
        BY <1>4, <1>5, <3>1, <4>1, <4>2, <4>3 DEF SLIST_REMOVE, SLIST_REMOVE_HEAD
      <4>4. CASE i # 1
        BY <1>4, <1>5, <3>1, <4>1, <4>2, <4>4 DEF SLIST_REMOVE
      <4> QED BY <4>3, <4>4
    <3>2. CASE kind = "LIST"
      <4>1. told <=> nx # Null BY <1>6, <3>2 DEF told, Tailed, Doubly
      <4>2. mem' = LIST_REMOVE(mem, elm) /\ Doubly /\ b = fc BY <1>5, <1>8, <3>2 DEF Doubly
      <4>3. nx # Null => bc = PrevOf(nx) BY <1>6, <3>2
      <4> QED BY <1>4, <4>1, <4>2, <4>3 DEF LIST_REMOVE, BackLink
    <3>3. CASE kind \in {"SIMPLEQ", "STAILQ"}
      <4>1. told <=> nx = Null BY <1>6, <3>3 DEF told, Tailed, Doubly
      <4>2. mem' = Forget(SIMPLEQ_REMOVE(mem, h, elm), elm) /\ b = fc
        BY <1>5, <1>8, <3>3 DEF STAILQ_REMOVE
      <4>3. nx = Null => bc = LastOf(h) BY <1>6, <3>3
      <4>4. CASE i = 1
        BY <1>4, <1>5, <4>1, <4>2, <4>3, <4>4 DEF SIMPLEQ_REMOVE, SIMPLEQ_REMOVE_HEAD, LastIfEnd
      <4>5. CASE i # 1
        BY <1>4, <1>5, <3>3, <4>1, <4>2, <4>3, <4>5 DEF SIMPLEQ_REMOVE, LastIfEnd
      <4> QED BY <4>4, <4>5
    <3>4. CASE kind = "TAILQ"
      <4>1. told BY <1>6, <3>4 DEF told, Tailed, Doubly
      <4>2. mem' = TAILQ_REMOVE(mem, h, elm) /\ Doubly /\ b = fc BY <1>5, <1>8, <3>4 DEF Doubly
      <4>3. bc = IF nx = Null THEN LastOf(h) ELSE PrevOf(nx) BY <1>6, <3>4
      <4> QED BY <1>4, <4>1, <4>2, <4>3 DEF TAILQ_REMOVE, Behind
    <3>5. CASE kind = "CIRCLEQ"
      <4>1. told BY <1>6, <3>5 DEF told, Tailed, Doubly
      <4>2. mem' = CIRCLEQ_REMOVE(mem, h, elm) /\ Doubly BY <1>8, <3>5 DEF Doubly
      <4>3. bc = BackCell(h, nx) BY <1>6, <3>5 DEF BackCell
      <4>4. fc = ForwardCell(h, b) BY <1>5, <3>5, HeadsAreNoElements DEF ForwardCell
      <4>5. mem[PrevOf(elm)] = b BY <1>4, <4>2
      <4>6. mem' = Forget([mem EXCEPT ![bc] = b, ![fc] = nx], elm)
        BY <1>4, <4>2, <4>3, <4>4, <4>5 DEF CIRCLEQ_REMOVE
      <4> QED BY <4>1, <4>6
    <3> QED BY <1>2, <3>1, <3>2, <3>3, <3>4, <3>5
  <2>3. ASSUME NEW m, m \in {Told(Put(mem)), Put(Told(mem))}
        PROVE  /\ m \in [Cells -> Values]
               /\ \A c \in Cells : m[c] = IF c = fc THEN nx
                                          ELSE IF told /\ c = bc THEN b ELSE mem[c]
    <3>1. CASE told BY <1>1, <1>9, <2>1, <2>3, <3>1, SMT
    <3>2. CASE ~told BY <1>1, <1>9, <2>1, <2>3, <3>2, SMT
    <3> QED BY <3>1, <3>2
  <2> DEFINE M == IF mem' = Forget(Told(Put(mem)), elm) THEN Told(Put(mem)) ELSE Put(Told(mem))
  <2>4. mem' = Forget(M, elm) /\ M \in {Told(Put(mem)), Put(Told(mem))} BY <2>2
  <2>5. /\ M \in [Cells -> Values]
        /\ \A c \in Cells : M[c] = IF c = fc THEN nx
                                   ELSE IF told /\ c = bc THEN b ELSE mem[c]
    BY <2>3, <2>4
  <2> HIDE DEF M
  <2> QED BY <1>4, <2>4, <2>5, CellFacts, ValueFacts, SMT DEF Forget
<1>11. FirstRemoved(h, i)
  <2>1. \A g \in Heads : FirstOf(g) = fc <=> i = 1 /\ g = h BY <1>5, CellFacts
  <2>2. \A g \in Heads : FirstOf(g) # bc BY <1>6, CellFacts
  <2>3. i = 1 => nx = Succ(h, 2) BY DEF nx
  <2> QED BY <1>4, <1>10, <2>1, <2>2, <2>3, CellFacts DEF FirstRemoved
<1>12. NextRemoved(h, i)
  <2>1. \A x \in Elements : NextOf(x) = fc <=> i > 1 /\ x = lists[h][i - 1]
    <3>1. CASE i = 1 BY <1>5, <3>1, CellFacts, SMT
    <3>2. CASE i # 1 BY <1>5, <3>2, CellFacts
    <3> QED BY <3>1, <3>2
  <2>2. \A x \in Elements : NextOf(x) # bc BY <1>6, CellFacts
  <2> QED BY <1>4, <1>10, <2>1, <2>2, CellFacts, SMT DEF NextRemoved, elm, nx
<1>13. ASSUME Doubly PROVE PrevRemoved(h, i)
  <2>1. \A x \in Elements : PrevOf(x) # fc BY <1>5, CellFacts
  <2>2. \A x \in Elements : told /\ PrevOf(x) = bc <=> i < n /\ x = lists[h][i + 1]
    <3>1. CASE i = n BY <1>3, <1>6, <3>1, CellFacts, SMT
    <3>2. CASE i # n BY <1>6, <1>13, <3>2, CellFacts DEF told
    <3> QED BY <3>1, <3>2
  <2> QED BY <1>4, <1>10, <2>1, <2>2, CellFacts, SMT DEF PrevRemoved, elm, b
<1>14. (Tailed => LastRemoved(h, i)) /\ (~Tailed => LastKept)
  <2>1. \A g \in Heads : LastOf(g) # fc BY <1>5, CellFacts
  <2>2. \A g \in Heads : told /\ LastOf(g) = bc <=> Tailed /\ i = n /\ g = h
    BY <1>6, CellFacts DEF told
  <2>3. \A g \in Heads : mem'[LastOf(g)] = IF Tailed /\ i = n /\ g = h THEN b ELSE mem[LastOf(g)]
    BY <1>4, <1>10, <2>1, <2>2, CellFacts
  <2> QED BY <2>3 DEF LastRemoved, LastKept, b
<1>15. RemovedAt(h, i) /\ origin' = origin BY DEF Remove, Removed, RemovedAt
<1>16. Doubly => Usable(h, lists[h][i]) BY DEF Remove
<1> QED BY <1>1, <1>2, <1>3, <1>10, <1>11, <1>12, <1>13, <1>14, <1>15, <1>16, RemovalKeeps

-----------------------------------------------------------------------------
(* What a replacement of the p-th of list h by e does to the cells         *)
FirstReplaced(h, p, e) ==
    \A g \in Heads : mem'[FirstOf(g)] = IF p = 1 /\ g = h THEN e ELSE mem[FirstOf(g)]
NextReplaced(h, p, e) ==
    \A x \in Elements :
        mem'[NextOf(x)] = IF x = lists[h][p] THEN Poison
                          ELSE IF x = e THEN Succ(h, p + 1)
                          ELSE IF p > 1 /\ x = lists[h][p - 1] THEN e ELSE mem[NextOf(x)]
PrevReplaced(h, p, e) ==
    \A x \in Elements \ {lists[h][p]} :
        mem'[PrevOf(x)] = IF x = e THEN BackAt(h, p)
                          ELSE IF p < Len(lists[h]) /\ x = lists[h][p + 1] THEN NextOf(e)
                          ELSE mem[PrevOf(x)]
LastReplaced(h, p, e) ==
    \A g \in Heads :
        mem'[LastOf(g)] = IF p = Len(lists[h]) /\ g = h THEN NextOf(e) ELSE mem[LastOf(g)]

(* Whatever has the effect of a replacement keeps the invariant.           *)
LEMMA ReplacementKeeps ==
  ASSUME IInv, NEW h \in Heads, NEW p \in 1..Len(lists[h]),
         NEW e \in Elements, e \notin InUse, lists' = [lists EXCEPT ![h][p] = e],
         kind \in {"LIST", "TAILQ"}, kind' = kind, origin' = origin, Usable(h, lists[h][p]),
         mem' \in [Cells -> Values],
         FirstReplaced(h, p, e), NextReplaced(h, p, e), PrevReplaced(h, p, e),
         kind = "TAILQ" => LastReplaced(h, p, e), kind = "LIST" => LastKept
  PROVE  IInv'
<1> DEFINE s == lists[h]
           n == Len(s)
           t == lists'[h]
<1>0. /\ Represented /\ OnceEach /\ Shape /\ lists \in [Heads -> Seq(Elements)] /\ s \in Seq(Elements)
      /\ n \in Nat /\ DOMAIN s = 1..n
  BY ListTypes DEF IInv, Represented, Shape
<1>1. /\ t = [s EXCEPT ![p] = e] /\ \A g \in Heads \ {h} : lists'[g] = lists[g]
      /\ lists' = [lists EXCEPT ![h] = t]
  BY <1>0
<1>2. t \in Seq(Elements) /\ Len(t) = n /\ \A j \in 1..n : t[j] = IF j = p THEN e ELSE s[j]
  BY <1>0, <1>1, ExceptSeq
<1>3. lists' \in [Heads -> Seq(Elements)] BY <1>0, <1>1, <1>2
<1>4. Shape' BY <1>0, <1>3 DEF Shape
<1>5. /\ \A h1, h2 \in Heads : \A i \in 1..Len(lists[h1]), j \in 1..Len(lists[h2]) :
                lists[h1][i] = lists[h2][j] => h1 = h2 /\ i = j
      /\ \A g \in Heads : \A i \in 1..Len(lists[g]) : lists[g][i] # e /\ lists[g][i] \in Elements
      /\ \A g \in Heads : Len(lists[g]) \in Nat
  <2>1. \A g \in Heads : /\ Len(lists[g]) \in Nat /\ DOMAIN lists[g] = 1..Len(lists[g])
                         /\ \A i \in 1..Len(lists[g]) : lists[g][i] # e /\ lists[g][i] \in Elements
    BY <1>0, ListTypes, Unused
  <2> QED BY <1>0, <2>1 DEF OnceEach
<1>6. ASSUME NEW i \in 1..n PROVE s[i] # e /\ s[i] \in Elements /\ \A j \in 1..n : s[j] = s[i] => i = j
  BY <1>5
<1>7. ASSUME NEW g \in Heads, g # h, NEW i \in 1..Len(lists[g])
      PROVE  /\ lists[g][i] # e /\ lists[g][i] \in Elements
             /\ \A j \in 1..n : s[j] # lists[g][i]
  BY <1>5, <1>7
<1>8. n \in Nat /\ p \in 1..n /\ (p = 1 => origin[h] = h) BY <1>0 DEF Usable
<1>9. OnceEach'
  <2>1. \A g \in Heads : DOMAIN lists'[g] = 1..Len(lists'[g]) BY <1>3, LenProperties
  <2> SUFFICES ASSUME NEW h1 \in Heads, NEW h2 \in Heads,
                      NEW i \in DOMAIN lists'[h1], NEW j \in DOMAIN lists'[h2],
                      lists'[h1][i] = lists'[h2][j]
               PROVE  h1 = h2 /\ i = j
    BY DEF OnceEach
  <2>2. /\ i \in 1..Len(lists[h1]) /\ j \in 1..Len(lists[h2])
        /\ lists'[h1][i] = IF h1 = h /\ i = p THEN e ELSE lists[h1][i]
        /\ lists'[h2][j] = IF h2 = h /\ j = p THEN e ELSE lists[h2][j]
    BY <1>1, <1>2, <2>1
  <2>3. lists[h1][i] # e /\ lists[h2][j] # e BY <1>5, <2>2
  <2>4. lists[h1][i] = lists[h2][j] => h1 = h2 /\ i = j BY <1>5, <2>2
  <2> QED BY <2>2, <2>3, <2>4
<1> HIDE DEF s, n, t
<1>10. ASSUME NEW g \in Heads PROVE Forward(g)'
  <2>1. mem[FirstOf(g)] = Succ(g, 1) /\ \A i \in 1..Len(lists[g]) : mem[NextOf(lists[g][i])] = Succ(g, i + 1)
    BY <1>0 DEF Represented, Forward
  <2>2. CASE g # h
    <3>1. \A i : Succ(g, i)' = Succ(g, i) BY <1>1, <2>2 DEF Succ, EndOf
    <3>2. mem'[FirstOf(g)] = Succ(g, 1)' BY <2>1, <2>2, <3>1 DEF FirstReplaced
    <3>3. ASSUME NEW i \in 1..Len(lists'[g]) PROVE mem'[NextOf(lists'[g][i])] = Succ(g, i + 1)'
      <4>1. lists'[g] = lists[g] /\ i \in 1..Len(lists[g]) BY <1>1, <2>2
      <4>2. /\ lists[g][i] # e /\ lists[g][i] \in Elements /\ lists[g][i] # s[p]
            /\ (p > 1 => p - 1 \in 1..n /\ lists[g][i] # s[p - 1])
        BY <1>7, <1>8, <2>2, <4>1, SMT
      <4>3. mem'[NextOf(lists[g][i])] = mem[NextOf(lists[g][i])] BY <4>2 DEF NextReplaced, s
      <4> QED BY <2>1, <3>1, <4>1, <4>3
    <3> QED BY <3>2, <3>3 DEF Forward
  <2>3. CASE g = h
    <3>1. \A i \in 1..n + 1 : Succ(h, i)' = IF i = p THEN e ELSE Succ(h, i)
      BY <1>2, <1>8, SMT DEF Succ, EndOf, s, n, t
    <3>2. mem'[FirstOf(g)] = Succ(g, 1)'
      BY <1>8, <2>1, <2>3, <3>1, SMT DEF FirstReplaced
    <3>3. ASSUME NEW i \in 1..n PROVE mem'[NextOf(t[i])] = Succ(h, i + 1)'
      <4>1. CASE i = p
        <5>1. t[i] = e /\ s[p] # e BY <1>2, <1>6, <1>8, <4>1
        <5>2. Succ(h, i + 1)' = Succ(h, p + 1) BY <1>8, <3>1, <4>1, SMT
        <5> QED BY <5>1, <5>2 DEF NextReplaced, s
      <4>2. CASE i = p - 1
        <5>1. t[i] = s[i] /\ s[i] # s[p] /\ s[i] # e /\ p > 1 BY <1>2, <1>6, <1>8, <4>2, SMT
        <5>2. mem'[NextOf(s[i])] = e BY <1>6, <4>2, <5>1 DEF NextReplaced, s
        <5>3. Succ(h, i + 1)' = e BY <1>8, <3>1, <4>2, SMT
        <5> QED BY <5>1, <5>2, <5>3
      <4>3. CASE i # p /\ i # p - 1
        <5>1. t[i] = s[i] /\ s[i] # s[p] /\ s[i] # e /\ (p > 1 => s[i] # s[p - 1])
          BY <1>2, <1>6, <1>8, <4>3, SMT
        <5>2. mem'[NextOf(s[i])] = mem[NextOf(s[i])] BY <1>6, <5>1 DEF NextReplaced, s
        <5>3. mem[NextOf(s[i])] = Succ(h, i + 1) BY <2>1, <2>3 DEF s, n
        <5>4. i + 1 \in 1..n + 1 /\ i + 1 # p BY <1>8, <4>3, SMT
        <5>5. Succ(h, i + 1)' = Succ(h, i + 1) BY <3>1, <5>4
        <5> QED BY <5>1, <5>2, <5>3, <5>5
      <4> QED BY <4>1, <4>2, <4>3
    <3> QED BY <1>2, <2>3, <3>2, <3>3 DEF Forward, n, t
  <2> QED BY <2>2, <2>3
<1>11. ASSUME NEW g \in Heads PROVE Backward(g)'
  <2>1. \A i \in 1..Len(lists[g]) : mem[PrevOf(lists[g][i])] = BackAt(IF i = 1 THEN origin[g] ELSE g, i)
    BY <1>0 DEF Represented, Backward, Doubly
  <2>2. CASE g # h
    <3>1. lists'[g] = lists[g] /\ origin'[g] = origin[g] BY <1>1, <2>2
    <3>2. \A i : BackAt(IF i = 1 THEN origin[g] ELSE g, i)' = BackAt(IF i = 1 THEN origin[g] ELSE g, i)
      BY <3>1 DEF BackAt
    <3>3. ASSUME NEW i \in 1..Len(lists[g]) PROVE mem'[PrevOf(lists[g][i])] = mem[PrevOf(lists[g][i])]
      <4>1. /\ lists[g][i] \in Elements /\ lists[g][i] # s[p] /\ lists[g][i] # e
            /\ (p < n => lists[g][i] # s[p + 1])
        BY <1>7, <1>8, <2>2, SMT
      <4> QED BY <4>1 DEF PrevReplaced, s, n
    <3> QED BY <2>1, <3>1, <3>2, <3>3 DEF Backward
  <2>3. CASE g = h
    <3>1. \A i \in 1..n : i # p + 1 =>
            BackAt(IF i = 1 THEN origin[g] ELSE g, i)' = BackAt(IF i = 1 THEN origin[g] ELSE g, i)
      BY <1>2, <1>8, <2>3, SMT DEF BackAt, s, n, t
    <3>2. \A i \in 1..n : i = p + 1 => BackAt(h, i)' = NextOf(e)
      BY <1>2, <1>8, SMT DEF BackAt, s, n, t
    <3>3. ASSUME NEW i \in 1..n PROVE mem'[PrevOf(t[i])] = BackAt(IF i = 1 THEN origin[g] ELSE g, i)'
      <4>1. CASE i = p
        <5>1. t[i] = e /\ s[p] # e BY <1>2, <1>6, <1>8, <4>1
        <5>2. BackAt(IF i = 1 THEN origin[g] ELSE g, i) = BackAt(h, p) BY <1>8, <2>3, <4>1
        <5>3. i # p + 1 BY <4>1, <1>8, SMT
        <5>4. BackAt(IF i = 1 THEN origin[g] ELSE g, i)' = BackAt(h, p) BY <3>1, <5>2, <5>3
        <5> QED BY <5>1, <5>4 DEF PrevReplaced, s
      <4>2. CASE i = p + 1
        <5>1. t[i] = s[i] /\ s[i] # s[p] /\ s[i] # e /\ p < n /\ i # 1 BY <1>2, <1>6, <1>8, <4>2, SMT
        <5>2. mem'[PrevOf(s[i])] = NextOf(e) BY <1>6, <4>2, <5>1 DEF PrevReplaced, s, n
        <5>3. BackAt(h, i)' = NextOf(e) BY <3>2, <4>2
        <5> QED BY <2>3, <5>1, <5>2, <5>3
      <4>3. CASE i # p /\ i # p + 1
        <5>1. t[i] = s[i] /\ s[i] # s[p] /\ s[i] # e /\ (p < n => s[i] # s[p + 1])
          BY <1>2, <1>6, <1>8, <4>3, SMT
        <5>2. mem'[PrevOf(s[i])] = mem[PrevOf(s[i])] BY <1>6, <5>1 DEF PrevReplaced, s, n
        <5>3. mem[PrevOf(s[i])] = BackAt(IF i = 1 THEN origin[g] ELSE g, i) BY <2>1, <2>3 DEF s, n
        <5> QED BY <3>1, <4>3, <5>1, <5>2, <5>3
      <4> QED BY <4>1, <4>2, <4>3
    <3> QED BY <1>2, <2>3, <3>3 DEF Backward, n, t
  <2> QED BY <2>2, <2>3
<1>12. ASSUME NEW g \in Heads PROVE TailAt(g)'
  <2>1. TailAt(g) BY <1>0 DEF Represented
  <2>2. CASE kind = "LIST" BY <2>1, <2>2 DEF LastKept, TailAt, Tailed
  <2>3. CASE kind = "TAILQ"
    <3>1. LastReplaced(h, p, e) BY <2>3
    <3>2. mem[LastOf(g)] = BackAt(g, Len(lists[g]) + 1) BY <2>1, <2>3 DEF TailAt, Tailed
    <3>3. CASE g # h
      <4>1. lists'[g] = lists[g] BY <1>1, <3>3
      <4> QED BY <2>3, <3>1, <3>2, <3>3, <4>1 DEF LastReplaced, TailAt, Tailed, BackAt
    <3>4. CASE g = h
      <4>1. CASE p = n
        BY <1>2, <1>8, <2>3, <3>1, <3>4, <4>1, SMT
           DEF LastReplaced, TailAt, Tailed, BackAt, s, n, t
      <4>2. CASE p # n
        BY <1>2, <1>8, <2>3, <3>1, <3>2, <3>4, <4>2, SMT
           DEF LastReplaced, TailAt, Tailed, BackAt, s, n, t
      <4> QED BY <4>1, <4>2
    <3> QED BY <3>3, <3>4
  <2> QED BY <2>2, <2>3
<1>13. Represented' BY <1>9, <1>10, <1>11, <1>12 DEF Represented
<1>14. Unlinked'
  <2> SUFFICES ASSUME NEW x \in Elements, ~Linked(x)', x # lists[h][p]
               PROVE  mem'[NextOf(x)] = Poison
    BY DEF Unlinked, NextReplaced
  <2>1. \A g \in Heads : \A i \in 1..Len(lists'[g]) : lists'[g][i] # x BY DEF Linked
  <2>2. x # e
    <3>1. p \in 1..n /\ t[p] = e BY <1>2, <1>8
    <3> QED BY <1>2, <2>1, <3>1 DEF t
  <2>3. ASSUME NEW g \in Heads, NEW i \in 1..Len(lists[g]) PROVE lists[g][i] # x
    <3>1. CASE g # h BY <1>1, <2>1, <3>1
    <3>2. CASE g = h /\ i # p BY <1>2, <2>1, <3>2 DEF t, s, n
    <3>3. CASE g = h /\ i = p BY <3>3
    <3> QED BY <3>1, <3>2, <3>3
  <2>4. ~Linked(x) BY <2>3 DEF Linked
  <2>5. p > 1 => p - 1 \in 1..Len(lists[h]) BY <1>8, SMT DEF n, s
  <2>6. mem'[NextOf(x)] = mem[NextOf(x)] BY <2>2, <2>3, <2>5 DEF NextReplaced
  <2> QED BY <2>4, <2>6 DEF IInv, Unlinked
<1> QED BY <1>4, <1>13, <1>14 DEF IInv

LEMMA ReplaceKeeps ==
  ASSUME IInv, NEW h \in Heads, NEW i \in DOMAIN lists[h], NEW e \in Elements, Replace(h, i, e)
  PROVE  IInv'
<1>1. IInv /\ Shape /\ OnceEach /\ mem \in [Cells -> Values] BY DEF IInv, Shape, Represented
<1>2. /\ kind \in {"LIST", "TAILQ"} /\ kind' = kind /\ origin' = origin /\ e \notin InUse
      /\ lists' = [lists EXCEPT ![h][i] = e] /\ Usable(h, lists[h][i])
      /\ \A g \in Heads : \A j \in 1..Len(lists[g]) : lists[g][j] # e
  BY <1>1, Unused DEF Replace
<1>a. i \in 1..Len(lists[h]) /\ (i = 1 => origin[h] = h) BY <1>1, <1>2, ListTypes DEF Usable
<1> DEFINE elm == lists[h][i]
           nx == Succ(h, i + 1)
           b == BackAt(h, i)
<1>3. /\ Len(lists[h]) \in Nat /\ i \in 1..Len(lists[h])
      /\ elm \in Elements /\ elm # e /\ mem[NextOf(elm)] = nx /\ mem[PrevOf(elm)] = b
  BY <1>1, <1>2, <1>a, RemovalFacts DEF Doubly
<1>4. /\ IF i < Len(lists[h]) THEN nx \in Elements /\ nx # Null /\ nx # e /\ nx # elm /\ nx = lists[h][i + 1]
         ELSE nx = Null
      /\ IF i = 1 THEN b = FirstOf(h)
         ELSE /\ i > 1 /\ b = NextOf(lists[h][i - 1])
              /\ lists[h][i - 1] \in Elements /\ lists[h][i - 1] # e /\ lists[h][i - 1] # elm
      /\ b \in Cells
  <2>1. ASSUME i < Len(lists[h])
        PROVE  nx \in Elements /\ nx # Null /\ nx # e /\ nx # elm /\ nx = lists[h][i + 1]
    <3>1. i + 1 \in 1..Len(lists[h]) /\ i + 1 <= Len(lists[h]) BY <1>3, <2>1, SMT
    <3>2. nx = lists[h][i + 1] BY <3>1 DEF Succ
    <3>3. nx \in Elements /\ nx # e /\ nx # elm BY <1>1, <1>2, <1>3, <3>1, <3>2, RemovalFacts
    <3> QED BY <3>2, <3>3, HeadsAreNoElements
  <2>2. ASSUME ~(i < Len(lists[h])) PROVE nx = Null
    BY <1>2, <1>3, <2>2, SMT DEF Succ, EndOf
  <2>3. ASSUME i # 1
        PROVE  /\ i > 1 /\ b = NextOf(lists[h][i - 1])
               /\ lists[h][i - 1] \in Elements /\ lists[h][i - 1] # e /\ lists[h][i - 1] # elm
    <3>1. i > 1 /\ i - 1 \in 1..Len(lists[h]) BY <1>3, <2>3, SMT
    <3>2. b = NextOf(lists[h][i - 1]) BY <1>2, <2>3 DEF BackAt
    <3> QED BY <1>1, <1>2, <1>3, <3>1, <3>2, RemovalFacts
  <2>4. i = 1 => b = FirstOf(h) BY <1>2 DEF BackAt
  <2>5. b \in Cells BY <2>3, <2>4, CellFacts
  <2> HIDE DEF elm, nx, b
  <2> QED BY <2>1, <2>2, <2>3, <2>4, <2>5
<1> HIDE DEF elm, nx, b
<1>5. /\ mem' \in [Cells -> Values]
      /\ FirstReplaced(h, i, e) /\ NextReplaced(h, i, e) /\ PrevReplaced(h, i, e)
      /\ kind = "TAILQ" => LastReplaced(h, i, e)
      /\ kind = "LIST" => LastKept
  <2>1. CASE kind = "LIST"
    <3>1. mem' = LIST_REPLACE(mem, elm, e) BY <2>1 DEF Replace, elm
    <3>2. mem[NextOf(elm)] = nx /\ mem[PrevOf(elm)] = b BY <1>3
    <3>3. mem' \in [Cells -> Values]
      BY <1>1, <1>3, <1>4, <3>1, <3>2, CellFacts, ValueFacts, SMT DEF LIST_REPLACE, BackLink, Forget
    <3>4. \A c \in Cells :
            mem'[c] = IF c = NextOf(elm) \/ c = PrevOf(elm) THEN Poison
                      ELSE IF c = b THEN e
                      ELSE IF c = PrevOf(e) THEN b
                      ELSE IF c = NextOf(e) THEN nx
                      ELSE IF nx # Null /\ c = PrevOf(nx) THEN NextOf(e)
                      ELSE mem[c]
      BY <1>1, <1>3, <1>4, <3>1, <3>2, CellFacts, SMT DEF LIST_REPLACE, BackLink, Forget
    <3>5. FirstReplaced(h, i, e)
      BY <1>3, <1>4, <3>4, CellFacts, SMT DEF FirstReplaced
    <3>6. NextReplaced(h, i, e)
      BY <1>3, <1>4, <3>4, CellFacts, SMT DEF NextReplaced, elm, nx
    <3>7. PrevReplaced(h, i, e)
      BY <1>3, <1>4, <3>4, CellFacts, SMT DEF PrevReplaced, elm, b
    <3>8. LastKept
      BY <1>3, <1>4, <3>4, CellFacts, SMT DEF LastKept
    <3> QED BY <2>1, <3>3, <3>5, <3>6, <3>7, <3>8
  <2>2. CASE kind = "TAILQ"
    <3>1. mem' = TAILQ_REPLACE(mem, h, elm, e) BY <2>2 DEF Replace, elm
    <3>2. mem[NextOf(elm)] = nx /\ mem[PrevOf(elm)] = b BY <1>3
    <3>3. mem' \in [Cells -> Values]
      BY <1>1, <1>3, <1>4, <3>1, <3>2, CellFacts, ValueFacts, SMT DEF TAILQ_REPLACE, Behind, Forget
    <3>4. \A c \in Cells :
            mem'[c] = IF c = NextOf(elm) \/ c = PrevOf(elm) THEN Poison
                      ELSE IF c = b THEN e
                      ELSE IF c = PrevOf(e) THEN b
                      ELSE IF c = NextOf(e) THEN nx
                      ELSE IF nx # Null /\ c = PrevOf(nx) THEN NextOf(e)
                      ELSE IF nx = Null /\ c = LastOf(h) THEN NextOf(e) ELSE mem[c]
      BY <1>1, <1>3, <1>4, <3>1, <3>2, CellFacts, SMT DEF TAILQ_REPLACE, Behind, Forget
    <3>5. FirstReplaced(h, i, e)
      BY <1>3, <1>4, <3>4, CellFacts, SMT DEF FirstReplaced
    <3>6. NextReplaced(h, i, e)
      BY <1>3, <1>4, <3>4, CellFacts, SMT DEF NextReplaced, elm, nx
    <3>7. PrevReplaced(h, i, e)
      BY <1>3, <1>4, <3>4, CellFacts, SMT DEF PrevReplaced, elm, b
    <3>8. LastReplaced(h, i, e)
      BY <1>3, <1>4, <3>4, CellFacts, SMT DEF LastReplaced
    <3> QED BY <2>2, <3>3, <3>5, <3>6, <3>7, <3>8
  <2> QED BY <1>2, <2>1, <2>2
<1> QED BY <1>1, <1>2, <1>a, <1>5, ReplacementKeeps

-----------------------------------------------------------------------------
(* The macros that take whole lists: CONCAT and LIST_MOVE                  *)
LEMMA SameIsRepresented ==
  ASSUME Represented, kind' = kind, mem' = mem, lists' = lists, origin' = origin
  PROVE  Represented'
<1>1. OnceEach' BY DEF Represented, OnceEach
<1>2. ASSUME NEW h \in Heads PROVE (Forward(h) /\ (Doubly => Backward(h)) /\ TailAt(h))'
  <2>1. Forward(h) /\ (Doubly => Backward(h)) /\ TailAt(h) BY DEF Represented
  <2>2. \A i : Succ(h, i)' = Succ(h, i) /\ \A g : BackAt(g, i)' = BackAt(g, i)
    BY DEF Succ, BackAt, EndOf
  <2>3. Forward(h)' BY <2>1, <2>2 DEF Forward
  <2>4. Doubly => Backward(h)' BY <2>1, <2>2 DEF Backward
  <2>5. TailAt(h)' BY <2>1, <2>2 DEF TailAt, Tailed
  <2> QED BY <2>3, <2>4, <2>5 DEF Doubly
<1> QED BY <1>1, <1>2 DEF Represented

LEMMA ConcatKeeps ==
  ASSUME IInv, NEW h1 \in Heads, NEW h2 \in Heads, Concat(h1, h2)
  PROVE  IInv'
<1> DEFINE s1 == lists[h1]
           n1 == Len(s1)
           s2 == lists[h2]
           n2 == Len(s2)
           t == lists'[h1]
<1>1. IInv /\ Shape /\ OnceEach /\ mem \in [Cells -> Values] /\ Represented BY DEF IInv, Shape, Represented
<1>2. /\ kind \in {"SIMPLEQ", "STAILQ", "TAILQ"} /\ kind' = kind /\ origin' = origin /\ h1 # h2
      /\ lists' = [lists EXCEPT ![h1] = s1 \o s2, ![h2] = <<>>]
  BY DEF Concat
<1>3. /\ lists \in [Heads -> Seq(Elements)] /\ s1 \in Seq(Elements) /\ s2 \in Seq(Elements)
      /\ n1 \in Nat /\ n2 \in Nat
  BY <1>1, ListTypes DEF Shape
<1>4. t = s1 \o s2 /\ lists'[h2] = <<>> /\ \A g \in Heads \ {h1, h2} : lists'[g] = lists[g]
  BY <1>2, <1>3
<1>5. /\ t \in Seq(Elements) /\ Len(t) = n1 + n2
      /\ \A i \in 1..n1 + n2 : t[i] = IF i <= n1 THEN s1[i] ELSE s2[i - n1]
  BY <1>3, <1>4, ConcatProperties
<1>6. lists' \in [Heads -> Seq(Elements)] /\ Len(lists'[h2]) = 0
  <2>1. <<>> \in Seq(Elements) /\ Len(<<>>) = 0 BY EmptySeq
  <2> QED BY <1>2, <1>3, <1>4, <1>5, <2>1
<1>7. /\ \A h3, h4 \in Heads : \A i \in 1..Len(lists[h3]), j \in 1..Len(lists[h4]) :
                lists[h3][i] = lists[h4][j] => h3 = h4 /\ i = j
      /\ \A g \in Heads : \A i \in 1..Len(lists[g]) : lists[g][i] \in Elements
      /\ \A g \in Heads : Len(lists[g]) \in Nat
  <2>1. \A g \in Heads : /\ Len(lists[g]) \in Nat /\ DOMAIN lists[g] = 1..Len(lists[g])
                         /\ \A i \in 1..Len(lists[g]) : lists[g][i] \in Elements
    BY <1>1, ListTypes
  <2> QED BY <1>1, <2>1 DEF OnceEach
<1>8. OnceEach'
  <2>1. \A g \in Heads : DOMAIN lists'[g] = 1..Len(lists'[g]) BY <1>6, LenProperties
  <2>2. ASSUME NEW g \in Heads, NEW i \in 1..Len(lists'[g])
        PROVE  /\ g # h2
               /\ \/ (g = h1 => i <= n1) /\ i \in 1..Len(lists[g]) /\ lists'[g][i] = lists[g][i]
                  \/ g = h1 /\ i - n1 \in 1..n2 /\ lists'[g][i] = s2[i - n1]
    <3>1. g # h2 BY <1>6, <2>2, SMT
    <3>2. CASE g = h1 BY <1>3, <1>5, <2>2, <3>1, <3>2, SMT
    <3>3. CASE g # h1 BY <1>4, <3>1, <3>3
    <3> QED BY <3>1, <3>2, <3>3
  <2> SUFFICES ASSUME NEW h3 \in Heads, NEW h4 \in Heads,
                      NEW i \in DOMAIN lists'[h3], NEW j \in DOMAIN lists'[h4],
                      lists'[h3][i] = lists'[h4][j]
               PROVE  h3 = h4 /\ i = j
    BY DEF OnceEach
  <2>3. i \in 1..Len(lists'[h3]) /\ j \in 1..Len(lists'[h4]) BY <2>1
  <2>4. /\ h3 # h2
        /\ \/ (h3 = h1 => i <= n1) /\ i \in 1..Len(lists[h3]) /\ lists'[h3][i] = lists[h3][i]
           \/ h3 = h1 /\ i - n1 \in 1..n2 /\ lists'[h3][i] = s2[i - n1]
    BY <2>2, <2>3
  <2>5. /\ h4 # h2
        /\ \/ (h4 = h1 => j <= n1) /\ j \in 1..Len(lists[h4]) /\ lists'[h4][j] = lists[h4][j]
           \/ h4 = h1 /\ j - n1 \in 1..n2 /\ lists'[h4][j] = s2[j - n1]
    BY <2>2, <2>3
  <2>6. i \in Int /\ j \in Int BY <2>3
  <2>7. /\ \A k \in 1..n2 : s2[k] = lists[h2][k]
        /\ \A g \in Heads \ {h2} : \A k \in 1..n2, m \in 1..Len(lists[g]) : s2[k] # lists[g][m]
        /\ \A k, m \in 1..n2 : s2[k] = s2[m] => k = m
    BY <1>7
  <2>8. CASE h3 = h1 /\ i - n1 \in 1..n2 /\ lists'[h3][i] = s2[i - n1]
    <3>1. h4 = h1 /\ j - n1 \in 1..n2 /\ lists'[h4][j] = s2[j - n1]
      BY <2>5, <2>7, <2>8
    <3>2. i - n1 = j - n1 BY <2>7, <2>8, <3>1
    <3> QED BY <1>3, <2>6, <2>8, <3>1, <3>2, SMT
  <2>9. CASE i \in 1..Len(lists[h3]) /\ lists'[h3][i] = lists[h3][i]
    <3>1. j \in 1..Len(lists[h4]) /\ lists'[h4][j] = lists[h4][j]
      BY <2>4, <2>5, <2>7, <2>9
    <3>2. lists[h3][i] = lists[h4][j] BY <2>9, <3>1
    <3> QED BY <1>7, <2>9, <3>1, <3>2
  <2> QED BY <2>4, <2>8, <2>9
<1>9. mem' \in [Cells -> Values] /\ (n2 = 0 => mem' = mem)
      /\ (n2 > 0 =>
            \A c \in Cells :
               mem'[c] = IF c = LastOf(h2) THEN FirstOf(h2)
                         ELSE IF c = FirstOf(h2) THEN Null
                         ELSE IF c = LastOf(h1) THEN NextOf(s2[n2])
                         ELSE IF c = BackAt(h1, n1 + 1) THEN s2[1]
                         ELSE IF kind = "TAILQ" /\ c = PrevOf(s2[1]) THEN BackAt(h1, n1 + 1)
                         ELSE mem[c])
  <2> DEFINE l == BackAt(h1, n1 + 1)
             first == s2[1]
             last == NextOf(s2[n2])
  <2>1. mem[LastOf(h1)] = l /\ mem[LastOf(h2)] = BackAt(h2, n2 + 1) /\ mem[FirstOf(h2)] = Succ(h2, 1)
    BY <1>1, <1>2, LinkFacts DEF Tailed
  <2>2. l \in Cells /\ l \in {FirstOf(h1)} \cup {NextOf(x) : x \in Elements}
    <3>1. CASE n1 = 0 BY <1>2, <3>1, CellFacts, SMT DEF BackAt
    <3>2. CASE n1 # 0
      <4>1. n1 \in 1..n1 /\ n1 + 1 # 1 /\ (n1 + 1) - 1 = n1 BY <1>3, <3>2, SMT
      <4>2. l = NextOf(s1[n1]) BY <1>2, <4>1 DEF BackAt
      <4>3. s1[n1] \in Elements BY <1>7, <4>1
      <4> QED BY <4>2, <4>3, CellFacts
    <3> QED BY <3>1, <3>2
  <2>3. CASE n2 = 0
    <3>1. mem[FirstOf(h2)] = Null BY <1>2, <2>1, <2>3, SMT DEF Succ, EndOf
    <3>2. mem' = mem
      BY <1>2, <3>1 DEF Concat, SIMPLEQ_CONCAT, STAILQ_CONCAT, TAILQ_CONCAT
    <3> QED BY <1>1, <2>3, <3>2, SMT
  <2>4. CASE n2 # 0
    <3>1. 1 \in 1..n2 /\ n2 \in 1..n2 /\ n2 + 1 # 1 /\ (n2 + 1) - 1 = n2 BY <1>3, <2>4, SMT
    <3>2. first \in Elements /\ s2[n2] \in Elements BY <1>7, <3>1
    <3>3. mem[FirstOf(h2)] = first /\ first # Null
      BY <2>1, <3>1, <3>2, HeadsAreNoElements, SMT DEF Succ
    <3>4. mem[LastOf(h2)] = last BY <1>2, <2>1, <3>1 DEF BackAt
    <3>5. last \in Cells BY <3>2, CellFacts
    <3> HIDE DEF l, first, last
    <3>6. CASE kind \in {"SIMPLEQ", "STAILQ"}
      <4>1. mem' = SIMPLEQ_CONCAT(mem, h1, h2) BY <3>6 DEF Concat, STAILQ_CONCAT
      <4>2. mem' = [mem EXCEPT ![l] = first, ![LastOf(h1)] = last,
                               ![FirstOf(h2)] = Null, ![LastOf(h2)] = FirstOf(h2)]
        BY <2>1, <3>3, <3>4, <4>1 DEF SIMPLEQ_CONCAT
      <4>3. mem' \in [Cells -> Values]
        BY <1>1, <2>2, <3>2, <3>5, <4>2, CellFacts, ValueFacts, SMT
      <4>4. \A c \in Cells :
               mem'[c] = IF c = LastOf(h2) THEN FirstOf(h2)
                         ELSE IF c = FirstOf(h2) THEN Null
                         ELSE IF c = LastOf(h1) THEN last
                         ELSE IF c = l THEN first ELSE mem[c]
        BY <1>1, <2>2, <4>2, CellFacts, SMT
      <4> QED BY <2>4, <3>6, <4>3, <4>4 DEF l, first, last
    <3>7. CASE kind = "TAILQ"
      <4>1. mem' = SIMPLEQ_CONCAT([mem EXCEPT ![PrevOf(first)] = l], h1, h2)
        BY <2>1, <3>3, <3>7 DEF Concat, TAILQ_CONCAT
      <4> DEFINE m == [mem EXCEPT ![PrevOf(first)] = l]
      <4>2. m[FirstOf(h2)] = first /\ m[LastOf(h1)] = l /\ m[LastOf(h2)] = last
        BY <1>1, <2>1, <3>2, <3>3, <3>4, CellFacts, SMT
      <4> HIDE DEF m
      <4>3. mem' = [m EXCEPT ![l] = first, ![LastOf(h1)] = last,
                             ![FirstOf(h2)] = Null, ![LastOf(h2)] = FirstOf(h2)]
        BY <3>3, <4>1, <4>2 DEF SIMPLEQ_CONCAT, m
      <4>4. m \in [Cells -> Values] /\ \A c \in Cells : m[c] = IF c = PrevOf(first) THEN l ELSE mem[c]
        BY <1>1, <2>2, <3>2, CellFacts, ValueFacts, SMT DEF m
      <4>5. mem' \in [Cells -> Values]
        BY <2>2, <3>2, <3>5, <4>3, <4>4, CellFacts, ValueFacts, SMT
      <4>6. \A c \in Cells :
               mem'[c] = IF c = LastOf(h2) THEN FirstOf(h2)
                         ELSE IF c = FirstOf(h2) THEN Null
                         ELSE IF c = LastOf(h1) THEN last
                         ELSE IF c = l THEN first ELSE m[c]
        BY <2>2, <4>3, <4>4, CellFacts, SMT
      <4> QED BY <2>4, <3>7, <4>4, <4>5, <4>6 DEF l, first, last
    <3> QED BY <1>2, <3>6, <3>7
  <2> QED BY <2>3, <2>4
<1>10. Shape'
  BY <1>1, <1>2, <1>6, <1>9 DEF Shape
<1>11. CASE n2 = 0
  <2>1. s2 = <<>> BY <1>3, <1>11, EmptySeq
  <2>2. t = s1 BY <1>3, <1>4, <2>1, ConcatEmptySeq
  <2>3. lists' = lists BY <1>2, <1>3, <1>4, <2>1, <2>2
  <2>4. mem' = mem BY <1>9, <1>11
  <2>5. Represented' BY <1>1, <1>2, <2>3, <2>4, SameIsRepresented
  <2>6. Unlinked' BY <2>3, <2>4 DEF IInv, Unlinked, Linked
  <2> QED BY <1>10, <2>5, <2>6 DEF IInv
<1>12. CASE n2 # 0
  <2> DEFINE l == BackAt(h1, n1 + 1)
  <2>1. \A c \in Cells :
               mem'[c] = IF c = LastOf(h2) THEN FirstOf(h2)
                         ELSE IF c = FirstOf(h2) THEN Null
                         ELSE IF c = LastOf(h1) THEN NextOf(s2[n2])
                         ELSE IF c = l THEN s2[1]
                         ELSE IF kind = "TAILQ" /\ c = PrevOf(s2[1]) THEN l
                         ELSE mem[c]
    <3>1. n2 > 0 BY <1>3, <1>12, SMT
    <3> QED BY <1>9, <3>1
  <2>2. n2 \in Nat /\ n1 \in Nat /\ 1 \in 1..n2 /\ n2 \in 1..n2 BY <1>3, <1>12, SMT
  <2>3. l = IF n1 = 0 THEN FirstOf(h1) ELSE NextOf(s1[n1]) BY <1>2, <1>3, SMT DEF BackAt
  <2>4. n1 > 0 => n1 \in 1..n1 /\ s1[n1] \in Elements BY <1>7, <2>2, SMT
  <2>5. s2[1] \in Elements /\ s2[n2] \in Elements BY <1>7, <2>2
  <2>6. \A h : EndOf(h) = Null /\ EndOf(h)' = Null BY <1>2 DEF EndOf
  <2>7. \A g \in Heads : Forward(g) /\ (Doubly => Backward(g)) /\ TailAt(g) BY <1>1 DEF Represented
  <2>8. ASSUME NEW i \in 1..n1 PROVE s1[i] \in Elements /\ \A j \in 1..n1 : s1[j] = s1[i] => i = j
    BY <1>7
  <2>9. ASSUME NEW i \in 1..n2
        PROVE  /\ s2[i] \in Elements /\ \A j \in 1..n2 : s2[j] = s2[i] => i = j
               /\ \A j \in 1..n1 : s2[i] # s1[j]
    BY <1>2, <1>7
  <2>10. ASSUME NEW g \in Heads \ {h1, h2}, NEW i \in 1..Len(lists[g])
         PROVE  /\ lists[g][i] \in Elements
                /\ \A j \in 1..n1 : lists[g][i] # s1[j]
                /\ \A j \in 1..n2 : lists[g][i] # s2[j]
    BY <1>7, <2>10
  <2>11. ASSUME NEW g \in Heads \ {h1, h2} PROVE (Forward(g) /\ (Doubly => Backward(g)) /\ TailAt(g))'
    <3>1. lists'[g] = lists[g] /\ g \in Heads BY <1>4
    <3>2. \A i : Succ(g, i)' = Succ(g, i) BY <2>6, <3>1 DEF Succ
    <3>3. \A i : BackAt(g, i)' = BackAt(g, i) BY <1>2, <3>1 DEF BackAt
    <3>4. mem'[FirstOf(g)] = mem[FirstOf(g)] /\ mem'[LastOf(g)] = mem[LastOf(g)]
      BY <2>1, <2>3, <2>4, <2>5, <3>1, CellFacts, SMT
    <3>5. ASSUME NEW i \in 1..Len(lists[g])
          PROVE  /\ mem'[NextOf(lists[g][i])] = mem[NextOf(lists[g][i])]
                 /\ mem'[PrevOf(lists[g][i])] = mem[PrevOf(lists[g][i])]
      <4>1. lists[g][i] \in Elements /\ (n1 > 0 => lists[g][i] # s1[n1]) /\ lists[g][i] # s2[1]
        BY <2>2, <2>4, <2>10
      <4> QED BY <2>1, <2>3, <2>4, <2>5, <4>1, CellFacts, SMT
    <3>6. Forward(g)' BY <2>7, <3>1, <3>2, <3>4, <3>5 DEF Forward
    <3>7. ASSUME Doubly PROVE Backward(g)'
      <4>1. \A i \in 1..Len(lists[g]) : mem[PrevOf(lists[g][i])] = BackAt(IF i = 1 THEN origin[g] ELSE g, i)
        BY <2>7, <3>1, <3>7 DEF Backward
      <4>2. \A i : BackAt(IF i = 1 THEN origin[g] ELSE g, i)' = BackAt(IF i = 1 THEN origin[g] ELSE g, i)
        BY <1>2, <3>1 DEF BackAt
      <4> QED BY <3>1, <3>5, <4>1, <4>2 DEF Backward
    <3>8. TailAt(g)' BY <1>2, <2>7, <3>1, <3>4 DEF TailAt, Tailed, BackAt
    <3> QED BY <1>2, <3>6, <3>7, <3>8 DEF Doubly
  <2>12. (Forward(h2) /\ (Doubly => Backward(h2)) /\ TailAt(h2))'
    <3>1. Len(lists'[h2]) = 0 BY <1>6
    <3>2. mem'[FirstOf(h2)] = Null /\ mem'[LastOf(h2)] = FirstOf(h2)
      BY <2>1, <2>5, CellFacts, SMT
    <3>3. Forward(h2)'
      <4>1. Succ(h2, 1)' = Null BY <2>6, <3>1, SMT DEF Succ
      <4> QED BY <3>1, <3>2, <4>1, SMT DEF Forward
    <3>4. Backward(h2)' BY <3>1, SMT DEF Backward
    <3>5. TailAt(h2)' BY <1>2, <3>1, <3>2, SMT DEF TailAt, Tailed, BackAt
    <3> QED BY <3>3, <3>4, <3>5
  <2>13. Forward(h1)'
    <3>1. ASSUME NEW i \in 1..n1 + n2 + 1
          PROVE  Succ(h1, i)' = IF i <= n1 THEN s1[i] ELSE Succ(h2, i - n1)
      <4>1. Succ(h1, i)' = IF i <= n1 + n2 THEN t[i] ELSE Null BY <1>5, <2>6 DEF Succ
      <4>2. Succ(h2, i - n1) = IF i - n1 <= n2 THEN s2[i - n1] ELSE Null BY <2>6 DEF Succ
      <4> HIDE DEF s1, s2, n1, n2, t
      <4> QED BY <1>5, <2>2, <4>1, <4>2, SMT
    <3>2. Forward(h1) /\ Forward(h2) BY <2>7
    <3> HIDE DEF l, s1, s2, n1, n2, t
    <3>3. mem'[FirstOf(h1)] = Succ(h1, 1)'
      <4>1. Succ(h2, 1) = s2[1] BY <2>2, SMT DEF Succ, s2, n2
      <4>2. CASE n1 = 0
        <5>1. mem'[FirstOf(h1)] = s2[1] BY <1>2, <2>1, <2>3, <4>2, CellFacts, SMT
        <5>2. Succ(h1, 1)' = Succ(h2, 1) BY <2>2, <3>1, <4>2, SMT
        <5> QED BY <4>1, <5>1, <5>2
      <4>3. CASE n1 # 0
        <5>1. 1 \in 1..n1 /\ n1 > 0 /\ 1 <= n1 BY <2>2, <4>3, SMT
        <5>2. mem'[FirstOf(h1)] = mem[FirstOf(h1)]
          BY <1>2, <2>1, <2>3, <2>4, <2>5, <4>3, <5>1, CellFacts, SMT
        <5>3. mem[FirstOf(h1)] = s1[1] BY <3>2, <5>1 DEF Forward, Succ, s1, n1
        <5>4. Succ(h1, 1)' = s1[1] BY <2>2, <3>1, <5>1, SMT
        <5> QED BY <5>2, <5>3, <5>4
      <4> QED BY <4>2, <4>3
    <3>4. ASSUME NEW i \in 1..n1 + n2 PROVE mem'[NextOf(t[i])] = Succ(h1, i + 1)'
      <4>1. CASE i < n1
        <5>1. i \in 1..n1 /\ i + 1 \in 1..n1 /\ n1 > 0 /\ t[i] = s1[i] BY <1>5, <2>2, <4>1, SMT
        <5>2. s1[i] # s1[n1] /\ s1[i] \in Elements BY <2>2, <2>4, <2>8, <4>1, <5>1, SMT
        <5>3. mem'[NextOf(s1[i])] = mem[NextOf(s1[i])]
          BY <2>1, <2>3, <2>4, <2>5, <5>1, <5>2, CellFacts, SMT
        <5>4. mem[NextOf(s1[i])] = Succ(h1, i + 1) BY <3>2, <5>1 DEF Forward, s1, n1
        <5>5. Succ(h1, i + 1) = s1[i + 1] BY <2>2, <5>1, SMT DEF Succ, s1, n1
        <5>6. Succ(h1, i + 1)' = s1[i + 1] BY <2>2, <3>1, <5>1, SMT
        <5> QED BY <5>1, <5>3, <5>4, <5>5, <5>6
      <4>2. CASE i = n1
        <5>1. n1 > 0 /\ t[i] = s1[n1] /\ n1 # 0 BY <1>5, <2>2, <4>2, SMT
        <5>2. mem'[NextOf(s1[n1])] = s2[1]
          BY <2>1, <2>3, <2>4, <2>5, <5>1, CellFacts, SMT
        <5>3. Succ(h1, i + 1)' = Succ(h2, 1) BY <2>2, <3>1, <4>2, SMT
        <5>4. Succ(h2, 1) = s2[1] BY <2>2, SMT DEF Succ, s2, n2
        <5> QED BY <5>1, <5>2, <5>3, <5>4
      <4>3. CASE i > n1
        <5>1. i - n1 \in 1..n2 /\ t[i] = s2[i - n1] BY <1>5, <2>2, <4>3, SMT
        <5>2. s2[i - n1] \in Elements /\ (n1 > 0 => s2[i - n1] # s1[n1]) BY <2>4, <2>9, <5>1
        <5>3. mem'[NextOf(s2[i - n1])] = mem[NextOf(s2[i - n1])]
          <6>1. l \in Cells /\ l # NextOf(s2[i - n1])
            <7>1. CASE n1 = 0 BY <1>2, <2>3, <5>2, <7>1, CellFacts
            <7>2. CASE n1 # 0
              <8>1. n1 > 0 BY <2>2, <7>2, SMT
              <8> QED BY <2>3, <2>4, <5>2, <7>2, <8>1, CellFacts
            <7> QED BY <7>1, <7>2
          <6> QED BY <2>1, <2>5, <5>2, <6>1, CellFacts, SMT
        <5>4. mem[NextOf(s2[i - n1])] = Succ(h2, (i - n1) + 1) BY <3>2, <5>1 DEF Forward, s2, n2
        <5>5. Succ(h1, i + 1)' = Succ(h2, (i + 1) - n1)
          <6>1. i + 1 \in 1..n1 + n2 + 1 /\ ~(i + 1 <= n1) BY <2>2, <4>3, SMT
          <6> QED BY <3>1, <6>1
        <5>6. (i + 1) - n1 = (i - n1) + 1 BY <2>2, SMT
        <5> QED BY <5>1, <5>3, <5>4, <5>5, <5>6
      <4> QED BY <2>2, <4>1, <4>2, <4>3, SMT
    <3> QED BY <1>5, <3>3, <3>4 DEF Forward, t
  <2>14. ASSUME Doubly PROVE Backward(h1)'
    <3>1. kind = "TAILQ" BY <1>2, <2>14 DEF Doubly
    <3>2. \A g \in Heads : origin[g] = g /\ origin'[g] = g BY <1>1, <1>2, <3>1 DEF Shape
    <3>3. /\ \A i \in 1..n1 : mem[PrevOf(s1[i])] = BackAt(h1, i)
          /\ \A i \in 1..n2 : mem[PrevOf(s2[i])] = BackAt(h2, i)
      BY <2>7, <2>14, <3>2 DEF Backward
    <3>a. \A i : BackAt(h1, i)' = IF i = 1 THEN FirstOf(h1) ELSE NextOf(t[i - 1])
      BY <1>2, <3>1 DEF BackAt
    <3>b. /\ \A i : BackAt(h1, i) = IF i = 1 THEN FirstOf(h1) ELSE NextOf(s1[i - 1])
          /\ \A i : BackAt(h2, i) = IF i = 1 THEN FirstOf(h2) ELSE NextOf(s2[i - 1])
      BY <3>1 DEF BackAt
    <3>4. ASSUME NEW i \in 1..n1 + 1 PROVE BackAt(h1, i)' = BackAt(h1, i)
      <4> HIDE DEF s1, s2, n1, n2, t
      <4>1. i # 1 => t[i - 1] = s1[i - 1] BY <1>5, <2>2, SMT
      <4> QED BY <3>a, <3>b, <4>1
    <3>5. ASSUME NEW i \in 1..n1 + n2, i > n1 + 1 PROVE BackAt(h1, i)' = BackAt(h2, i - n1)
      <4> HIDE DEF s1, s2, n1, n2, t
      <4>1. i # 1 /\ i - n1 # 1 /\ t[i - 1] = s2[(i - n1) - 1]
        <5>1. i - 1 \in 1..n1 + n2 /\ ~(i - 1 <= n1) /\ (i - 1) - n1 = (i - n1) - 1
          BY <2>2, <3>5, SMT
        <5>2. t[i - 1] = s2[(i - 1) - n1] BY <1>5, <5>1
        <5> QED BY <2>2, <3>5, <5>1, <5>2, SMT
      <4> QED BY <3>a, <3>b, <4>1
    <3> HIDE DEF l, s1, s2, n1, n2, t
    <3>c. l \in Cells /\ \A x \in Elements : l # PrevOf(x)
      <4>1. CASE n1 = 0 BY <1>2, <2>3, <4>1, CellFacts
      <4>2. CASE n1 # 0
        <5>1. n1 > 0 BY <2>2, <4>2, SMT
        <5> QED BY <2>3, <2>4, <4>2, <5>1, CellFacts
      <4> QED BY <4>1, <4>2
    <3>6. ASSUME NEW i \in 1..n1 + n2 PROVE mem'[PrevOf(t[i])] = BackAt(h1, i)'
      <4>1. CASE i <= n1
        <5>1. i \in 1..n1 /\ i \in 1..n1 + 1 /\ t[i] = s1[i] BY <1>5, <2>2, <4>1, SMT
        <5>2. s1[i] \in Elements /\ s1[i] # s2[1] BY <2>2, <2>8, <2>9, <5>1
        <5>3. mem'[PrevOf(s1[i])] = mem[PrevOf(s1[i])]
          BY <2>1, <2>5, <3>c, <5>2, CellFacts, SMT
        <5> QED BY <3>3, <3>4, <5>1, <5>3
      <4>2. CASE i = n1 + 1
        <5>1. t[i] = s2[1] /\ i \in 1..n1 + 1 BY <1>5, <2>2, <4>2, SMT
        <5>2. mem'[PrevOf(s2[1])] = l
          BY <2>1, <2>5, <3>1, <3>c, CellFacts, SMT
        <5> QED BY <3>4, <4>2, <5>1, <5>2 DEF l
      <4>3. CASE i > n1 + 1
        <5>1. i - n1 \in 1..n2 /\ i - n1 # 1 /\ t[i] = s2[i - n1] BY <1>5, <2>2, <4>3, SMT
        <5>2. s2[i - n1] \in Elements /\ s2[i - n1] # s2[1] BY <2>2, <2>9, <5>1
        <5>3. mem'[PrevOf(s2[i - n1])] = mem[PrevOf(s2[i - n1])]
          BY <2>1, <2>5, <3>c, <5>2, CellFacts, SMT
        <5>4. BackAt(h1, i)' = BackAt(h2, i - n1) BY <3>5, <4>3
        <5> QED BY <3>3, <5>1, <5>3, <5>4
      <4> QED BY <2>2, <4>1, <4>2, <4>3, SMT
    <3>7. \A i : BackAt(IF i = 1 THEN origin[h1] ELSE h1, i)' = BackAt(h1, i)'
      BY <3>2 DEF BackAt
    <3> QED BY <1>5, <3>6, <3>7 DEF Backward, t
  <2>15. TailAt(h1)'
    <3>1. mem'[LastOf(h1)] = NextOf(s2[n2])
      <4>1. LastOf(h1) \in Cells /\ LastOf(h1) # LastOf(h2) /\ LastOf(h1) # FirstOf(h2)
        BY <1>2, CellFacts
      <4> QED BY <2>1, <4>1
    <3>2. n1 + n2 + 1 # 1 /\ (n1 + n2 + 1) - 1 = n1 + n2 /\ t[n1 + n2] = s2[n2]
      <4> HIDE DEF s1, s2, n1, n2, t
      <4>1. n1 + n2 \in 1..n1 + n2 /\ ~(n1 + n2 <= n1) /\ (n1 + n2) - n1 = n2 BY <2>2, SMT
      <4>2. t[n1 + n2] = s2[(n1 + n2) - n1] BY <1>5, <4>1
      <4> QED BY <2>2, <4>1, <4>2, SMT
    <3>3. TailAt(h1)' <=> mem'[LastOf(h1)] = IF Len(t) + 1 = 1 THEN FirstOf(h1)
                                             ELSE NextOf(t[(Len(t) + 1) - 1])
      BY <1>2 DEF TailAt, Tailed, BackAt
    <3>4. Len(t) = n1 + n2 BY <1>5
    <3> QED BY <3>1, <3>2, <3>3, <3>4
  <2>16. Represented'
    <3>1. ASSUME NEW g \in Heads PROVE (Forward(g) /\ (Doubly => Backward(g)) /\ TailAt(g))'
      <4>1. CASE g = h1 BY <1>2, <2>13, <2>14, <2>15, <4>1 DEF Doubly
      <4>2. CASE g = h2 BY <2>12, <4>2
      <4>3. CASE g \notin {h1, h2} BY <2>11, <4>3
      <4> QED BY <4>1, <4>2, <4>3
    <3> QED BY <1>8, <3>1 DEF Represented
  <2>17. Unlinked'
    <3> HIDE DEF l, s1, s2, n1, n2, t
    <3> SUFFICES ASSUME NEW x \in Elements, ~Linked(x)' PROVE mem'[NextOf(x)] = Poison
      BY DEF Unlinked
    <3>1. \A g \in Heads : \A i \in 1..Len(lists'[g]) : lists'[g][i] # x BY DEF Linked
    <3>2. ASSUME NEW g \in Heads, NEW i \in 1..Len(lists[g]) PROVE lists[g][i] # x
      <4>1. CASE g \notin {h1, h2} BY <1>4, <3>1, <4>1
      <4>2. CASE g = h1
        <5>1. i \in 1..Len(t) /\ t[i] = s1[i] BY <1>5, <2>2, <4>2, SMT DEF n1, s1
        <5> QED BY <3>1, <4>2, <5>1 DEF t, s1
      <4>3. CASE g = h2
        <5>1. i \in 1..n2 BY <4>3 DEF n2, s2
        <5>2. i + n1 \in 1..n1 + n2 /\ ~(i + n1 <= n1) /\ (i + n1) - n1 = i BY <2>2, <5>1, SMT
        <5>3. t[i + n1] = s2[i] /\ i + n1 \in 1..Len(t) BY <1>5, <5>2
        <5> QED BY <3>1, <4>3, <5>3 DEF t, s2
      <4> QED BY <4>1, <4>2, <4>3
    <3>3. NextOf(x) # l
      <4>1. CASE n1 = 0 BY <1>2, <2>3, <4>1, CellFacts
      <4>2. CASE n1 # 0
        <5>1. n1 > 0 BY <2>2, <4>2, SMT
        <5>2. s1[n1] # x BY <2>4, <3>2, <5>1 DEF s1, n1
        <5> QED BY <2>3, <2>4, <4>2, <5>1, <5>2, CellFacts
      <4> QED BY <4>1, <4>2
    <3>4. mem'[NextOf(x)] = mem[NextOf(x)] BY <2>1, <2>5, <3>3, CellFacts
    <3>5. ~Linked(x) BY <3>2 DEF Linked
    <3> QED BY <3>4, <3>5 DEF IInv, Unlinked
  <2> QED BY <1>10, <2>16, <2>17 DEF IInv
<1> QED BY <1>11, <1>12

LEMMA MoveKeeps ==
  ASSUME IInv, NEW h1 \in Heads, NEW h2 \in Heads, Move(h1, h2)
  PROVE  IInv'
<1> DEFINE s == lists[h1]
<1>1. IInv /\ Shape /\ OnceEach /\ mem \in [Cells -> Values] BY DEF IInv, Shape, Represented
<1>2. /\ kind = "LIST" /\ kind' = kind /\ h1 # h2 /\ lists[h2] = <<>>
      /\ lists' = [lists EXCEPT ![h2] = s, ![h1] = <<>>]
      /\ mem' = [mem EXCEPT ![FirstOf(h2)] = mem[FirstOf(h1)], ![FirstOf(h1)] = Null]
      /\ origin' = [origin EXCEPT ![h2] = IF s = <<>> THEN h2 ELSE origin[h1], ![h1] = h1]
  BY DEF Move, LIST_MOVE
<1>3. /\ lists \in [Heads -> Seq(Elements)] /\ s \in Seq(Elements) /\ origin \in [Heads -> Heads]
      /\ \A g \in Heads : Len(lists[g]) \in Nat
      /\ \A g \in Heads : \A i \in 1..Len(lists[g]) : lists[g][i] \in Elements
  BY <1>1, ListTypes DEF Shape
<1>4. <<>> \in Seq(Elements) /\ Len(<<>>) = 0 BY EmptySeq
<1>5. /\ lists'[h2] = s /\ lists'[h1] = <<>> /\ \A g \in Heads \ {h1, h2} : lists'[g] = lists[g]
      /\ lists' \in [Heads -> Seq(Elements)]
  BY <1>2, <1>3, <1>4
<1>6. /\ mem' \in [Cells -> Values]
      /\ mem'[FirstOf(h2)] = mem[FirstOf(h1)] /\ mem'[FirstOf(h1)] = Null
      /\ \A c \in Cells \ {FirstOf(h1), FirstOf(h2)} : mem'[c] = mem[c]
  BY <1>1, <1>2, CellFacts, ValueFacts, SMT
<1>7. /\ origin' \in [Heads -> Heads] /\ (Len(s) # 0 => origin'[h2] = origin[h1])
      /\ \A g \in Heads \ {h1, h2} : origin'[g] = origin[g]
  <2>1. Len(s) # 0 => s # <<>> BY <1>4
  <2> QED BY <1>2, <1>3, <2>1
<1>8. Shape' BY <1>1, <1>2, <1>5, <1>6, <1>7 DEF Shape
<1>9. /\ Doubly /\ Doubly' /\ ~Tailed /\ ~Tailed'
      /\ \A g : EndOf(g) = Null /\ EndOf(g)' = Null
  BY <1>2 DEF Doubly, Tailed, EndOf
<1>10. OnceEach'
  <2>1. \A f, g \in Heads : \A i \in 1..Len(lists[f]), j \in 1..Len(lists[g]) :
            lists[f][i] = lists[g][j] => f = g /\ i = j
    BY <1>1, ListTypes DEF OnceEach
  <2>2. \A g \in Heads : DOMAIN lists'[g] = 1..Len(lists'[g]) BY <1>5, LenProperties
  <2>3. 1..0 = {} BY SMT
  <2>4. ASSUME NEW g \in Heads, NEW i \in 1..Len(lists'[g])
        PROVE  \/ g = h2 /\ i \in 1..Len(lists[h1]) /\ lists'[g][i] = lists[h1][i]
               \/ g \notin {h1, h2} /\ i \in 1..Len(lists[g]) /\ lists'[g][i] = lists[g][i]
    <3>1. g # h1 BY <1>4, <1>5, <2>3, <2>4
    <3> QED BY <1>5, <2>4, <3>1
  <2> SUFFICES ASSUME NEW f \in Heads, NEW g \in Heads,
                      NEW i \in DOMAIN lists'[f], NEW j \in DOMAIN lists'[g],
                      lists'[f][i] = lists'[g][j]
               PROVE  f = g /\ i = j
    BY DEF OnceEach
  <2>5. i \in 1..Len(lists'[f]) /\ j \in 1..Len(lists'[g]) BY <2>2
  <2>6. \/ f = h2 /\ i \in 1..Len(lists[h1]) /\ lists'[f][i] = lists[h1][i]
        \/ f \notin {h1, h2} /\ i \in 1..Len(lists[f]) /\ lists'[f][i] = lists[f][i]
    BY <2>4, <2>5
  <2>7. \/ g = h2 /\ j \in 1..Len(lists[h1]) /\ lists'[g][j] = lists[h1][j]
        \/ g \notin {h1, h2} /\ j \in 1..Len(lists[g]) /\ lists'[g][j] = lists[g][j]
    BY <2>4, <2>5
  <2> QED BY <2>1, <2>6, <2>7
<1>11. \A g \in Heads : Forward(g) /\ Backward(g) /\ TailAt(g)
  BY <1>1, <1>2 DEF Represented, Doubly, IInv
<1>12. ASSUME NEW g \in Heads PROVE (Forward(g) /\ Backward(g) /\ TailAt(g))'
  <2>1. mem'[LastOf(g)] = mem[LastOf(g)] /\ \A x \in Elements : mem'[NextOf(x)] = mem[NextOf(x)]
                                                              /\ mem'[PrevOf(x)] = mem[PrevOf(x)]
    BY <1>6, CellFacts
  <2>2. TailAt(g)' BY <1>2, <1>11, <2>1 DEF TailAt, Tailed
  <2>3. CASE g = h1
    <3>1. Len(lists'[g]) = 0 /\ 1..0 = {} /\ ~(1 <= 0) BY <1>4, <1>5, <2>3, SMT
    <3>2. Succ(g, 1)' = Null BY <1>9, <3>1 DEF Succ
    <3>3. Forward(g)' BY <1>6, <2>3, <3>1, <3>2 DEF Forward
    <3>4. Backward(g)' BY <3>1 DEF Backward
    <3> QED BY <2>2, <3>3, <3>4
  <2>4. CASE g = h2
    <3>1. \A i : Succ(g, i)' = Succ(h1, i) BY <1>5, <1>9, <2>4 DEF Succ
    <3>2. Forward(g)' BY <1>3, <1>5, <1>6, <1>11, <2>1, <2>4, <3>1 DEF Forward
    <3>3. ASSUME NEW i \in 1..Len(s)
          PROVE  BackAt(IF i = 1 THEN origin[g] ELSE g, i)' = BackAt(IF i = 1 THEN origin[h1] ELSE h1, i)
      <4>1. Len(s) # 0 BY <1>3, SMT
      <4> QED BY <1>2, <1>5, <1>7, <2>4, <4>1 DEF BackAt
    <3>4. \A i \in 1..Len(s) : mem[PrevOf(s[i])] = BackAt(IF i = 1 THEN origin[h1] ELSE h1, i)
      BY <1>11 DEF Backward
    <3>5. lists'[g] = s /\ \A i \in 1..Len(s) : mem'[PrevOf(s[i])] = mem[PrevOf(s[i])]
      BY <1>3, <1>5, <2>1, <2>4
    <3> HIDE DEF s
    <3>6. Backward(g)' BY <3>3, <3>4, <3>5 DEF Backward
    <3> QED BY <2>2, <3>2, <3>6
  <2>5. CASE g \notin {h1, h2}
    <3>1. lists'[g] = lists[g] /\ origin'[g] = origin[g] BY <1>5, <1>7, <2>5
    <3>2. \A i : Succ(g, i)' = Succ(g, i) BY <1>9, <3>1 DEF Succ
    <3>3. mem'[FirstOf(g)] = mem[FirstOf(g)] BY <1>6, <2>5, CellFacts
    <3>4. Forward(g)' BY <1>3, <1>11, <2>1, <3>1, <3>2, <3>3 DEF Forward
    <3>5. \A i : BackAt(IF i = 1 THEN origin[g] ELSE g, i)' = BackAt(IF i = 1 THEN origin[g] ELSE g, i)
      BY <1>2, <3>1 DEF BackAt
    <3>6. \A i \in 1..Len(lists[g]) :
             mem[PrevOf(lists[g][i])] = BackAt(IF i = 1 THEN origin[g] ELSE g, i)
      BY <1>11 DEF Backward
    <3>7. \A i \in 1..Len(lists[g]) : mem'[PrevOf(lists[g][i])] = mem[PrevOf(lists[g][i])]
      BY <1>3, <2>1
    <3>8. Backward(g)' BY <3>1, <3>5, <3>6, <3>7 DEF Backward
    <3> QED BY <2>2, <3>4, <3>8
  <2> QED BY <2>3, <2>4, <2>5
<1>13. Unlinked'
  <2> SUFFICES ASSUME NEW x \in Elements, ~Linked(x)' PROVE mem'[NextOf(x)] = Poison
    BY DEF Unlinked
  <2>1. \A g \in Heads : \A i \in 1..Len(lists'[g]) : lists'[g][i] # x BY DEF Linked
  <2>2. 1..Len(lists[h2]) = {} BY <1>2, <1>4, SMT
  <2>3. ASSUME NEW g \in Heads, NEW i \in 1..Len(lists[g]) PROVE lists[g][i] # x
    BY <1>5, <2>1, <2>2, <2>3
  <2>4. ~Linked(x) BY <2>3 DEF Linked
  <2>5. mem'[NextOf(x)] = mem[NextOf(x)] BY <1>6, CellFacts
  <2> QED BY <2>4, <2>5 DEF IInv, Unlinked
<1>14. Represented' BY <1>10, <1>12 DEF Represented
<1> QED BY <1>8, <1>13, <1>14 DEF IInv

-----------------------------------------------------------------------------
(* The invariant is inductive.                                             *)
LEMMA InitHolds == Init => IInv
<1> SUFFICES ASSUME Init PROVE IInv
  OBVIOUS
<1>1. kind \in AllKinds /\ kind \in Kinds BY KindsAreKnown DEF Init
<1>2. \A h \in Heads : /\ Fresh(h).first = EndOf(h)
                       /\ Fresh(h).last = IF Tailed THEN BackAt(h, 1) ELSE Null
  BY <1>1 DEF AllKinds, Fresh, EndOf, Tailed, BackAt, SLIST_HEAD_INITIALIZER,
              LIST_HEAD_INITIALIZER, SIMPLEQ_HEAD_INITIALIZER, STAILQ_HEAD_INITIALIZER,
              TAILQ_HEAD_INITIALIZER, CIRCLEQ_HEAD_INITIALIZER
<1>3. \A h \in Heads : EndOf(h) \in Values /\ BackAt(h, 1) \in Values
  BY CellFacts, ValueFacts DEF EndOf, BackAt
<1>4. mem = [c \in Cells |-> CASE c[1] = "first" -> Fresh(c[2]).first
                               [] c[1] = "last" -> Fresh(c[2]).last
                               [] OTHER -> Poison]
  BY DEF Init
<1>5. /\ \A h \in Heads : mem[FirstOf(h)] = Fresh(h).first /\ mem[LastOf(h)] = Fresh(h).last
      /\ \A e \in Elements : mem[NextOf(e)] = Poison
  <2>1. \A h \in Heads : mem[FirstOf(h)] = Fresh(h).first
    BY <1>4, CellFacts DEF FirstOf
  <2>2. \A h \in Heads : mem[LastOf(h)] = Fresh(h).last
    BY <1>4, CellFacts DEF LastOf
  <2>3. \A e \in Elements : mem[NextOf(e)] = Poison
    BY <1>4, CellFacts DEF NextOf
  <2> QED BY <2>1, <2>2, <2>3
<1>6. mem \in [Cells -> Values]
  <2>1. ASSUME NEW c \in Cells
        PROVE  (CASE c[1] = "first" -> Fresh(c[2]).first
                  [] c[1] = "last" -> Fresh(c[2]).last
                  [] OTHER -> Poison) \in Values
    <3>1. c[1] \in {"first", "last"} => c[2] \in Heads BY DEF Cells
    <3> QED BY <1>2, <1>3, <3>1, ValueFacts
  <2> QED BY <1>4, <2>1
<1>7. /\ \A h \in Heads : lists[h] = <<>> /\ Len(lists[h]) = 0 /\ origin[h] = h
      /\ lists \in [Heads -> Seq(Elements)] /\ origin \in [Heads -> Heads]
  <2>1. <<>> \in Seq(Elements) /\ Len(<<>>) = 0 BY EmptySeq
  <2> QED BY <2>1 DEF Init
<1>8. 1..0 = {} /\ ~(1 <= 0) /\ 0 + 1 = 1 BY SMT
<1>9. Shape BY <1>1, <1>6, <1>7 DEF Shape
<1>10. OnceEach
  <2>1. \A h \in Heads : DOMAIN lists[h] = {} BY <1>7, <1>8, LenProperties
  <2> QED BY <2>1 DEF OnceEach
<1>11. ASSUME NEW h \in Heads PROVE Forward(h) /\ Backward(h) /\ TailAt(h)
  <2>1. Succ(h, 1) = EndOf(h) BY <1>7, <1>8 DEF Succ
  <2>2. Forward(h) BY <1>2, <1>5, <1>7, <1>8, <2>1 DEF Forward
  <2>3. Backward(h) BY <1>7, <1>8 DEF Backward
  <2>4. TailAt(h) BY <1>2, <1>5, <1>7, <1>8 DEF TailAt
  <2> QED BY <2>2, <2>3, <2>4
<1>12. Represented BY <1>10, <1>11 DEF Represented
<1>13. Unlinked BY <1>5 DEF Unlinked
<1> QED BY <1>9, <1>12, <1>13 DEF IInv

LEMMA NextKeeps == IInv /\ [Next]_vars => IInv'
<1> SUFFICES ASSUME IInv, [Next]_vars PROVE IInv'
  OBVIOUS
<1>1. ASSUME UNCHANGED <<kind, mem, lists, origin>> PROVE IInv'
  <2>1. Represented' BY <1>1, SameIsRepresented DEF IInv
  <2>2. Shape' BY <1>1 DEF IInv, Shape
  <2>3. Unlinked' BY <1>1 DEF IInv, Unlinked, Linked
  <2> QED BY <2>1, <2>2, <2>3 DEF IInv
<1>2. ASSUME NEW h \in Heads, NEW e \in Elements, InsertHead(h, e) \/ InsertTail(h, e) PROVE IInv'
  BY <1>2, InsertHeadKeeps, InsertTailKeeps
<1>3. ASSUME NEW h \in Heads, NEW i \in DOMAIN lists[h], RemoveAfter(h, i) \/ Remove(h, i) PROVE IInv'
  BY <1>3, RemoveAfterKeeps, RemoveKeeps
<1>4. ASSUME NEW h \in Heads, NEW i \in DOMAIN lists[h], NEW e \in Elements,
             InsertAfter(h, i, e) \/ InsertBefore(h, i, e) \/ Replace(h, i, e)
      PROVE  IInv'
  BY <1>4, InsertAfterKeeps, InsertBeforeKeeps, ReplaceKeeps
<1>5. ASSUME NEW h \in Heads, RemoveHead(h) PROVE IInv'
  BY <1>5, RemoveHeadKeeps
<1>6. ASSUME NEW h1 \in Heads, NEW h2 \in Heads, Concat(h1, h2) \/ Move(h1, h2) PROVE IInv'
  BY <1>6, ConcatKeeps, MoveKeeps
<1>7. ASSUME NEW h \in Heads, NEW reverse \in BOOLEAN, Begin(h, reverse) PROVE IInv'
  BY <1>1, <1>7 DEF Begin
<1>8. CASE Advance BY <1>1, <1>8 DEF Advance
<1>9. CASE UNCHANGED vars BY <1>1, <1>9 DEF vars
<1> QED BY <1>2, <1>3, <1>4, <1>5, <1>6, <1>7, <1>8, <1>9 DEF Next

LEMMA Inductive == Spec => []IInv
BY InitHolds, NextKeeps, PTL DEF Spec

(* The links are those of the sequences that the program made, forward,    *)
(* backward and at the tail, for any number of heads and elements, after   *)
(* any operations: for all macros of queue.h that insert, remove, replace, *)
(* append and move, the whole of it.                                       *)
THEOREM AlwaysRepresented == Spec => []Represented
<1>1. IInv => Represented BY DEF IInv
<1> QED BY <1>1, Inductive, PTL

-----------------------------------------------------------------------------
(***************************************************************************)
(* What a program may rely on, given that the lists are represented as     *)
(* they should be, as proved above: that the checks of QUEUEDEBUG pass,    *)
(* that the macros that go backward find what they look for, and that a    *)
(* loop whose body changes the list comes to all elements that stay.       *)
(***************************************************************************)

-----------------------------------------------------------------------------
(* Every link by its place: the cell at the back of place i holds what is  *)
(* at place i.                                                             *)
LEMMA AnyLink ==
  ASSUME IInv, NEW h \in Heads, NEW i \in 1..Len(lists[h]) + 1, kind # "CIRCLEQ"
  PROVE  mem[BackAt(h, i)] = Succ(h, i)
<1>1. Len(lists[h]) \in Nat BY LinkFacts
<1>2. CASE i = 1 BY <1>2, LinkFacts DEF BackAt
<1>3. CASE i # 1
  <2>1. i - 1 \in 1..Len(lists[h]) /\ (i - 1) + 1 = i BY <1>1, <1>3, SMT
  <2>2. mem[NextOf(lists[h][i - 1])] = Succ(h, i) BY <2>1, LinkFacts
  <2> QED BY <1>3, <2>2 DEF BackAt
<1> QED BY <1>2, <1>3

LEMMA SuccFacts ==
  ASSUME IInv, NEW h \in Heads
  PROVE  /\ Len(lists[h]) \in Nat
         /\ \A i \in 1..Len(lists[h]) : Succ(h, i) = lists[h][i] /\ lists[h][i] \in Elements
                                        /\ lists[h][i] # Null /\ lists[h][i] # h
         /\ Succ(h, Len(lists[h]) + 1) = EndOf(h)
         /\ \A i \in 1..Len(lists[h]) + 1 : i = Len(lists[h]) + 1 \/ i \in 1..Len(lists[h])
<1>1. Len(lists[h]) \in Nat /\ \A i \in 1..Len(lists[h]) : lists[h][i] \in Elements BY LinkFacts
<1>2. /\ \A i \in 1..Len(lists[h]) : i <= Len(lists[h])
      /\ ~(Len(lists[h]) + 1 <= Len(lists[h]))
      /\ \A i \in 1..Len(lists[h]) + 1 : i = Len(lists[h]) + 1 \/ i \in 1..Len(lists[h])
  BY <1>1, SMT
<1> QED BY <1>1, <1>2, HeadsAreNoElements DEF Succ

LEMMA BackFacts ==
  ASSUME IInv, NEW h \in Heads, NEW i \in 1..Len(lists[h]), Doubly, i = 1 => origin[h] = h
  PROVE  mem[PrevOf(lists[h][i])] = BackAt(h, i)
BY LinkFacts

LEMMA LinkedBothWays ==
  ASSUME IInv, kind \in {"LIST", "TAILQ"}, NEW h \in Heads, NEW i \in 1..Len(lists[h])
  PROVE  /\ mem[NextOf(lists[h][i])] # Null =>
                mem[PrevOf(mem[NextOf(lists[h][i])])] = NextOf(lists[h][i])
         /\ (i = 1 => origin[h] = h) => mem[mem[PrevOf(lists[h][i])]] = lists[h][i]
<1>1. Doubly /\ kind # "CIRCLEQ" BY DEF Doubly
<1>2. Len(lists[h]) \in Nat BY LinkFacts
<1>3. mem[NextOf(lists[h][i])] = Succ(h, i + 1) BY LinkFacts
<1>4. ASSUME Succ(h, i + 1) # Null PROVE mem[PrevOf(Succ(h, i + 1))] = NextOf(lists[h][i])
  <2>1. i + 1 \in 1..Len(lists[h]) + 1 /\ i + 1 # 1 /\ (i + 1) - 1 = i BY <1>2, SMT
  <2>2. i + 1 \in 1..Len(lists[h])
    BY <1>1, <1>4, <2>1, SuccFacts DEF EndOf
  <2>3. mem[PrevOf(lists[h][i + 1])] = BackAt(h, i + 1) BY <1>1, <2>1, <2>2, BackFacts
  <2>4. BackAt(h, i + 1) = NextOf(lists[h][i]) BY <1>1, <2>1 DEF BackAt
  <2> QED BY <2>2, <2>3, <2>4, SuccFacts
<1>5. ASSUME i = 1 => origin[h] = h PROVE mem[mem[PrevOf(lists[h][i])]] = lists[h][i]
  <2>1. mem[PrevOf(lists[h][i])] = BackAt(h, i) BY <1>1, <1>5, BackFacts
  <2>2. i \in 1..Len(lists[h]) + 1 BY <1>2, SMT
  <2> QED BY <1>1, <2>1, <2>2, AnyLink, SuccFacts
<1> QED BY <1>3, <1>4, <1>5

(* A back link that LIST_MOVE has left leads to a head whose list begins   *)
(* with another element, or is empty.                                      *)
LEMMA StaleLink ==
  ASSUME IInv, kind = "LIST", NEW h \in Heads, lists[h] # <<>>, origin[h] # h
  PROVE  /\ mem[FirstOf(h)] = lists[h][1] /\ lists[h][1] # Null
         /\ mem[PrevOf(lists[h][1])] # FirstOf(h)
         /\ mem[mem[PrevOf(lists[h][1])]] # lists[h][1]
<1> DEFINE g == origin[h]
<1>1. /\ Shape /\ OnceEach /\ Backward(h) /\ Doubly /\ kind # "CIRCLEQ" /\ g \in Heads
      /\ lists[h] \in Seq(Elements) /\ EndOf(g) = Null
  BY DEF IInv, Represented, Doubly, Shape, EndOf
<1>2. 1 \in 1..Len(lists[h])
  <2>1. Len(lists[h]) \in Nat /\ Len(lists[h]) # 0 BY <1>1, LenProperties, EmptySeq
  <2> QED BY <2>1, SMT
<1>3. /\ mem[FirstOf(h)] = lists[h][1] /\ lists[h][1] # Null /\ lists[h][1] \in Elements
  BY <1>2, LinkFacts, SuccFacts
<1>4. mem[PrevOf(lists[h][1])] = FirstOf(g) BY <1>1, <1>2 DEF Backward, BackAt
<1>5. FirstOf(g) # FirstOf(h) BY <1>1, CellFacts
<1>6. mem[FirstOf(g)] # lists[h][1]
  <2>1. mem[FirstOf(g)] = Succ(g, 1) /\ Len(lists[g]) \in Nat BY <1>1, LinkFacts
  <2>2. 1 \in 1..Len(lists[g]) + 1 BY <2>1, SMT
  <2>3. CASE 1 \in 1..Len(lists[g])
    <3>1. Succ(g, 1) = lists[g][1] BY <1>1, <2>3, SuccFacts
    <3>2. 1 \in DOMAIN lists[g] /\ 1 \in DOMAIN lists[h] BY <1>1, <1>2, <2>3, ListTypes
    <3>3. lists[g][1] # lists[h][1] BY <1>1, <3>2 DEF OnceEach
    <3> QED BY <2>1, <3>1, <3>3
  <2>4. CASE 1 \notin 1..Len(lists[g])
    <3>1. Succ(g, 1) = Null BY <1>1, <2>2, <2>4, SuccFacts
    <3> QED BY <1>3, <2>1, <3>1
  <2> QED BY <2>3, <2>4
<1> QED BY <1>3, <1>4, <1>5, <1>6

(* The conditions of QUEUEDEBUG follow from the representation, but where  *)
(* a moved list begins.                                                    *)
LEMMA ChecksFollow == IInv => DebugChecksAreExact
<1> SUFFICES ASSUME IInv PROVE DebugChecksAreExact
  OBVIOUS
<1>1. \A h \in Heads : \A e \in Listed(h) : \E i \in 1..Len(lists[h]) : e = lists[h][i]
  BY ListTypes DEF Listed, IInv
<1>2. ASSUME NEW h \in Heads, kind \in {"LIST", "TAILQ"}, origin[h] = h, mem[FirstOf(h)] # Null
      PROVE  mem[PrevOf(mem[FirstOf(h)])] = FirstOf(h)
  <2>1. kind # "CIRCLEQ" /\ Doubly BY <1>2 DEF Doubly
  <2>2. mem[FirstOf(h)] = Succ(h, 1) BY LinkFacts
  <2>3. 1 \in 1..Len(lists[h]) + 1
    <3>1. Len(lists[h]) \in Nat BY LinkFacts
    <3> QED BY <3>1, SMT
  <2>4. 1 \in 1..Len(lists[h]) /\ Succ(h, 1) = lists[h][1]
    BY <1>2, <2>1, <2>2, <2>3, SuccFacts DEF EndOf
  <2>5. mem[PrevOf(lists[h][1])] = BackAt(h, 1) BY <1>2, <2>1, <2>4, BackFacts
  <2> QED BY <2>1, <2>2, <2>4, <2>5 DEF BackAt
<1>3. ASSUME kind = "LIST", NEW h \in Heads, NEW e \in Listed(h), Usable(h, e)
      PROVE  QUEUEDEBUG_LIST_OP(mem, e)
  <2>1. PICK i \in 1..Len(lists[h]) : e = lists[h][i] BY <1>1
  <2>2. i = 1 => origin[h] = h BY <1>3, <2>1 DEF Usable
  <2> QED BY <1>3, <2>1, <2>2, LinkedBothWays DEF QUEUEDEBUG_LIST_OP
<1>4. ASSUME kind = "TAILQ", NEW h \in Heads
      PROVE  /\ QUEUEDEBUG_TAILQ_INSERT_HEAD(mem, h)
             /\ QUEUEDEBUG_TAILQ_INSERT_TAIL(mem, h)
             /\ \A e \in Listed(h) : /\ QUEUEDEBUG_TAILQ_OP(mem, e)
                                     /\ QUEUEDEBUG_TAILQ_PREREMOVE(mem, h, e)
  <2>1. origin[h] = h BY <1>4 DEF IInv, Shape
  <2>2. QUEUEDEBUG_TAILQ_INSERT_HEAD(mem, h) BY <1>2, <1>4, <2>1 DEF QUEUEDEBUG_TAILQ_INSERT_HEAD
  <2>3. mem[LastOf(h)] = BackAt(h, Len(lists[h]) + 1) BY <1>4, LinkFacts DEF Tailed
  <2>4. QUEUEDEBUG_TAILQ_INSERT_TAIL(mem, h)
    <3>1. Len(lists[h]) + 1 \in 1..Len(lists[h]) + 1
      <4>1. Len(lists[h]) \in Nat BY LinkFacts
      <4> QED BY <4>1, SMT
    <3>2. mem[BackAt(h, Len(lists[h]) + 1)] = Null BY <1>4, <3>1, AnyLink, SuccFacts DEF EndOf
    <3> QED BY <2>3, <3>2 DEF QUEUEDEBUG_TAILQ_INSERT_TAIL
  <2>5. ASSUME NEW e \in Listed(h)
        PROVE  QUEUEDEBUG_TAILQ_OP(mem, e) /\ QUEUEDEBUG_TAILQ_PREREMOVE(mem, h, e)
    <3>1. PICK i \in 1..Len(lists[h]) : e = lists[h][i] BY <1>1
    <3>2. QUEUEDEBUG_TAILQ_OP(mem, e)
      BY <1>4, <2>1, <3>1, LinkedBothWays DEF QUEUEDEBUG_TAILQ_OP
    <3>3. ASSUME mem[NextOf(e)] = Null PROVE mem[LastOf(h)] = NextOf(e)
      <4>1. Len(lists[h]) \in Nat BY LinkFacts
      <4>2. i + 1 \in 1..Len(lists[h]) + 1 /\ i + 1 # 1 /\ (i + 1) - 1 = i BY <4>1, SMT
      <4>3. Succ(h, i + 1) = Null BY <3>1, <3>3, LinkFacts
      <4>4. i + 1 = Len(lists[h]) + 1 BY <4>2, <4>3, SuccFacts
      <4> QED BY <1>4, <2>3, <3>1, <4>2, <4>4 DEF BackAt
    <3> QED BY <3>2, <3>3 DEF QUEUEDEBUG_TAILQ_PREREMOVE
  <2> QED BY <2>2, <2>4, <2>5
<1>5. ASSUME kind = "CIRCLEQ", NEW h \in Heads
      PROVE  /\ QUEUEDEBUG_CIRCLEQ_HEAD(mem, h)
             /\ \A e \in Listed(h) : QUEUEDEBUG_CIRCLEQ_ELM(mem, h, e)
  <2> DEFINE s == lists[h]
             n == Len(s)
  <2>1. n \in Nat /\ Doubly /\ Tailed /\ origin[h] = h /\ EndOf(h) = h
    BY <1>5, LinkFacts DEF Doubly, Tailed, EndOf, IInv, Shape
  <2>2. /\ mem[FirstOf(h)] = Succ(h, 1) /\ mem[LastOf(h)] = BackAt(h, n + 1)
        /\ \A i \in 1..n : mem[NextOf(s[i])] = Succ(h, i + 1) /\ mem[PrevOf(s[i])] = BackAt(h, i)
    BY <2>1, LinkFacts
  <2>3. /\ \A i \in 1..n + 1 : BackAt(h, i) = IF i = 1 THEN h ELSE s[i - 1]
        /\ \A i \in 1..n : Succ(h, i) = s[i] /\ s[i] # h
        /\ Succ(h, n + 1) = h
    BY <1>5, <2>1, SuccFacts DEF BackAt
  <2> HIDE DEF s, n
  <2>4. QUEUEDEBUG_CIRCLEQ_HEAD(mem, h)
    <3>1. ASSUME mem[FirstOf(h)] # h PROVE mem[PrevOf(mem[FirstOf(h)])] = h
      <4>1. 1 \in 1..n \/ 1 = n + 1 BY <2>1, SMT
      <4>2. 1 \in 1..n BY <2>2, <2>3, <3>1, <4>1
      <4>3. 1 \in 1..n + 1 BY <2>1, SMT
      <4> QED BY <2>2, <2>3, <4>2, <4>3
    <3>2. ASSUME mem[LastOf(h)] # h PROVE mem[NextOf(mem[LastOf(h)])] = h
      <4>1. n + 1 \in 1..n + 1 BY <2>1, SMT
      <4>2. n + 1 # 1 /\ mem[LastOf(h)] = s[(n + 1) - 1] BY <2>2, <2>3, <3>2, <4>1
      <4>3. n \in 1..n /\ (n + 1) - 1 = n BY <2>1, <4>2, SMT
      <4> QED BY <2>2, <2>3, <4>2, <4>3
    <3> QED BY <3>1, <3>2 DEF QUEUEDEBUG_CIRCLEQ_HEAD
  <2>5. ASSUME NEW e \in Listed(h) PROVE QUEUEDEBUG_CIRCLEQ_ELM(mem, h, e)
    <3>1. PICK i \in 1..n : e = s[i] BY <1>1 DEF n, s
    <3>2. /\ i = n \/ i + 1 \in 1..n
          /\ i + 1 \in 1..n + 1 /\ i + 1 # 1 /\ (i + 1) - 1 = i /\ i \in 1..n + 1
          /\ i # 1 => (i - 1 \in 1..n /\ (i - 1) + 1 = i)
          /\ 1 \in 1..n
      <4>1. i \in 1..n BY <3>1
      <4> QED BY <2>1, <4>1, SMT
    <3>3. IF mem[NextOf(e)] = h THEN mem[LastOf(h)] = e ELSE mem[PrevOf(mem[NextOf(e)])] = e
      <4>1. CASE i = n BY <2>2, <2>3, <3>1, <3>2, <4>1
      <4>2. CASE i + 1 \in 1..n
        <5>1. mem[NextOf(e)] = s[i + 1] /\ s[i + 1] # h BY <2>2, <2>3, <3>1, <4>2
        <5>2. mem[PrevOf(s[i + 1])] = s[i] BY <2>2, <2>3, <3>2, <4>2
        <5> QED BY <3>1, <5>1, <5>2
      <4> QED BY <3>2, <4>1, <4>2
    <3>4. IF mem[PrevOf(e)] = h THEN mem[FirstOf(h)] = e ELSE mem[NextOf(mem[PrevOf(e)])] = e
      <4>1. CASE i = 1 BY <2>2, <2>3, <3>1, <3>2, <4>1
      <4>2. CASE i # 1
        <5>1. mem[PrevOf(e)] = s[i - 1] /\ s[i - 1] # h BY <2>2, <2>3, <3>1, <3>2, <4>2
        <5>2. mem[NextOf(s[i - 1])] = s[i] BY <2>2, <2>3, <3>2, <4>2
        <5> QED BY <3>1, <5>1, <5>2
      <4> QED BY <4>1, <4>2
    <3> QED BY <3>3, <3>4 DEF QUEUEDEBUG_CIRCLEQ_ELM
  <2> QED BY <2>4, <2>5
<1>6. ASSUME kind = "LIST", NEW h \in Heads, lists[h] = <<>> \/ origin[h] = h
      PROVE  QUEUEDEBUG_LIST_INSERT_HEAD(mem, h)
  <2>1. ASSUME lists[h] = <<>> PROVE mem[FirstOf(h)] = Null
    <3>1. Len(lists[h]) = 0 BY <2>1
    <3>2. mem[FirstOf(h)] = Succ(h, Len(lists[h]) + 1) BY <3>1, LinkFacts, SMT
    <3> QED BY <1>6, <3>2, SuccFacts DEF EndOf
  <2> QED BY <1>2, <1>6, <2>1 DEF QUEUEDEBUG_LIST_INSERT_HEAD
<1>7. ASSUME kind = "LIST", NEW h \in Heads, lists[h] # <<>>, origin[h] # h
      PROVE  ~QUEUEDEBUG_LIST_INSERT_HEAD(mem, h)
  BY <1>7, StaleLink DEF QUEUEDEBUG_LIST_INSERT_HEAD
<1>8. ASSUME kind = "LIST", NEW h \in Heads, NEW e \in Listed(h), ~Usable(h, e)
      PROVE  ~QUEUEDEBUG_LIST_OP(mem, e)
  <2>1. origin[h] # h /\ e = lists[h][1] /\ lists[h] # <<>>
    BY <1>8, EmptySeq DEF Usable, Listed
  <2> QED BY <1>8, <2>1, StaleLink DEF QUEUEDEBUG_LIST_OP
<1> QED BY <1>3, <1>4, <1>5, <1>6, <1>7, <1>8 DEF DebugChecksAreExact

(* The header's own checks, QUEUEDEBUG_LIST, _TAILQ and _CIRCLEQ           *)
(* (queue.h:224-239 and on), abort at the first element of a moved list    *)
(* that nothing was inserted before, and in no other state that a program  *)
(* can bring its lists to.                                                 *)
THEOREM ChecksAreExact == Spec => []DebugChecksAreExact
BY Inductive, ChecksFollow, PTL

-----------------------------------------------------------------------------
(* An entry taken for a head: TAILQ_LAST and TAILQ_PREV go back two links  *)
(* and forward one.                                                        *)
LEMMA AsHeadFinds ==
  ASSUME IInv, kind = "TAILQ", NEW h \in Heads, NEW i \in 1..Len(lists[h]) + 1
  PROVE  mem[AsHead(mem, BackAt(h, i))] = IF i = 1 THEN Null ELSE lists[h][i - 1]
<1>1. Len(lists[h]) \in Nat /\ kind # "CIRCLEQ" /\ Doubly /\ Tailed /\ EndOf(h) = Null
  BY LinkFacts DEF Doubly, Tailed, EndOf
<1>2. CASE i = 1
  <2>1. AsHead(mem, BackAt(h, i)) = mem[LastOf(h)]
    BY <1>1, <1>2 DEF AsHead, BackAt, FirstOf
  <2>2. mem[LastOf(h)] = BackAt(h, Len(lists[h]) + 1) BY <1>1, LinkFacts
  <2>3. Len(lists[h]) + 1 \in 1..Len(lists[h]) + 1 BY <1>1, SMT
  <2>4. mem[BackAt(h, Len(lists[h]) + 1)] = Succ(h, Len(lists[h]) + 1) BY <1>1, <2>3, AnyLink
  <2> QED BY <1>1, <1>2, <2>1, <2>2, <2>4, SuccFacts
<1>3. CASE i # 1
  <2>1. i - 1 \in 1..Len(lists[h]) /\ i - 1 \in 1..Len(lists[h]) + 1 BY <1>1, <1>3, SMT
  <2>2. AsHead(mem, BackAt(h, i)) = mem[PrevOf(lists[h][i - 1])]
    BY <1>1, <1>3 DEF AsHead, BackAt, NextOf
  <2>3. origin[h] = h BY DEF IInv, Shape
  <2>4. mem[PrevOf(lists[h][i - 1])] = BackAt(h, i - 1) BY <1>1, <2>1, <2>3, BackFacts
  <2>5. mem[BackAt(h, i - 1)] = Succ(h, i - 1) BY <1>1, <2>1, AnyLink
  <2> QED BY <1>3, <2>1, <2>2, <2>4, <2>5, SuccFacts
<1> QED BY <1>2, <1>3

LEMMA Around ==
  ASSUME NEW n \in Nat, NEW i \in 1..n
  PROVE  i % n = IF i = n THEN 0 ELSE i
BY Z3

(* The macros that go backward, and around, by cases of the kind           *)
LEMMA FoundFollows == IInv => FoundBackward
<1> SUFFICES ASSUME IInv, NEW h \in Heads
             PROVE  LET s == lists[h]
                        n == Len(s)
                        last == IF n = 0 THEN Null ELSE s[n]
                    IN /\ kind = "TAILQ" =>
                            /\ TAILQ_LAST(mem, h) = last
                            /\ \A i \in 1..n :
                                TAILQ_PREV(mem, s[i]) = IF i = 1 THEN Null ELSE s[i - 1]
                       /\ kind = "SIMPLEQ" => SIMPLEQ_LAST(mem, h) = last
                       /\ kind = "STAILQ" => STAILQ_LAST(mem, h) = last
                       /\ kind = "CIRCLEQ" =>
                            \A i \in 1..n :
                                /\ CIRCLEQ_LOOP_NEXT(mem, h, s[i]) = s[(i % n) + 1]
                                /\ CIRCLEQ_LOOP_PREV(mem, h, s[(i % n) + 1]) = s[i]
  BY DEF FoundBackward
<1> DEFINE s == lists[h]
           n == Len(s)
           last == IF n = 0 THEN Null ELSE s[n]
<1>0. n \in Nat BY LinkFacts
<1>1. ASSUME kind = "TAILQ"
      PROVE  /\ TAILQ_LAST(mem, h) = last
             /\ \A i \in 1..n : TAILQ_PREV(mem, s[i]) = IF i = 1 THEN Null ELSE s[i - 1]
  <2>1. Doubly /\ Tailed /\ origin[h] = h BY <1>1 DEF Doubly, Tailed, IInv, Shape
  <2>2. TAILQ_LAST(mem, h) = last
    <3>1. n + 1 \in 1..n + 1 /\ (n + 1) - 1 = n /\ (n + 1 = 1 <=> n = 0) BY <1>0, SMT
    <3>2. mem[LastOf(h)] = BackAt(h, n + 1) BY <2>1, LinkFacts
    <3>3. mem[AsHead(mem, BackAt(h, n + 1))] = IF n + 1 = 1 THEN Null ELSE s[(n + 1) - 1]
      BY <1>1, <3>1, AsHeadFinds
    <3> QED BY <3>1, <3>2, <3>3 DEF TAILQ_LAST
  <2>3. ASSUME NEW i \in 1..n
        PROVE  TAILQ_PREV(mem, s[i]) = IF i = 1 THEN Null ELSE s[i - 1]
    <3>1. i \in 1..n + 1 BY <1>0, SMT
    <3>2. mem[PrevOf(s[i])] = BackAt(h, i) BY <2>1, BackFacts
    <3> QED BY <1>1, <3>1, <3>2, AsHeadFinds DEF TAILQ_PREV
  <2> QED BY <2>2, <2>3
<1>2. ASSUME kind \in {"SIMPLEQ", "STAILQ"} PROVE SIMPLEQ_LAST(mem, h) = last
  <2>1. Tailed /\ kind # "CIRCLEQ" /\ EndOf(h) = Null BY <1>2 DEF Tailed, EndOf
  <2>2. mem[FirstOf(h)] = Succ(h, 1) /\ mem[LastOf(h)] = BackAt(h, n + 1) BY <2>1, LinkFacts
  <2>3. CASE n = 0
    <3>1. n + 1 = 1 BY <2>3, SMT
    <3>2. mem[FirstOf(h)] = Null BY <2>1, <2>2, <3>1, SuccFacts
    <3> QED BY <2>3, <3>2 DEF SIMPLEQ_LAST
  <2>4. CASE n # 0
    <3>1. 1 \in 1..n /\ n + 1 # 1 /\ (n + 1) - 1 = n BY <1>0, <2>4, SMT
    <3>2. mem[FirstOf(h)] # Null BY <2>2, <3>1, SuccFacts
    <3>3. mem[LastOf(h)] = NextOf(s[n]) BY <2>1, <2>2, <3>1 DEF BackAt
    <3> QED BY <2>4, <3>2, <3>3 DEF SIMPLEQ_LAST, NextOf
  <2> QED BY <2>3, <2>4
<1>3. ASSUME kind = "CIRCLEQ", NEW i \in 1..n
      PROVE  /\ CIRCLEQ_LOOP_NEXT(mem, h, s[i]) = s[(i % n) + 1]
             /\ CIRCLEQ_LOOP_PREV(mem, h, s[(i % n) + 1]) = s[i]
  <2>1. Doubly /\ Tailed /\ origin[h] = h /\ EndOf(h) = h
    BY <1>3 DEF Doubly, Tailed, EndOf, IInv, Shape
  <2>2. /\ mem[FirstOf(h)] = Succ(h, 1) /\ mem[LastOf(h)] = BackAt(h, n + 1)
        /\ mem[NextOf(s[i])] = Succ(h, i + 1)
        /\ \A j \in 1..n : mem[PrevOf(s[j])] = BackAt(h, j)
    BY <2>1, LinkFacts
  <2>3. /\ \A j \in 1..n : Succ(h, j) = s[j] /\ s[j] # h
        /\ Succ(h, n + 1) = h
    BY <2>1, SuccFacts
  <2>4. CASE i = n
    <3>1. /\ 1 \in 1..n /\ n + 1 # 1 /\ (n + 1) - 1 = n
          /\ 0 + 1 = 1
      BY <1>0, <1>3, <2>4, SMT
    <3>5. i % n = 0 BY <1>0, <1>3, <2>4, Around
    <3>2. mem[NextOf(s[i])] = h /\ mem[FirstOf(h)] = s[1] BY <2>2, <2>3, <2>4, <3>1
    <3>3. mem[PrevOf(s[1])] = h BY <1>3, <2>2, <3>1 DEF BackAt
    <3>4. mem[LastOf(h)] = s[i] BY <1>3, <2>2, <2>4, <3>1 DEF BackAt
    <3> QED BY <3>1, <3>2, <3>3, <3>4, <3>5 DEF CIRCLEQ_LOOP_NEXT, CIRCLEQ_LOOP_PREV
  <2>5. CASE i # n
    <3>1. i + 1 \in 1..n /\ i + 1 # 1 /\ (i + 1) - 1 = i
      BY <1>0, <1>3, <2>5, SMT
    <3>4. i % n = i BY <1>0, <1>3, <2>5, Around
    <3>2. mem[NextOf(s[i])] = s[i + 1] /\ s[i + 1] # h BY <2>2, <2>3, <3>1
    <3>3. mem[PrevOf(s[i + 1])] = s[i] /\ s[i] # h BY <1>3, <2>2, <2>3, <3>1 DEF BackAt
    <3> QED BY <3>1, <3>2, <3>3, <3>4 DEF CIRCLEQ_LOOP_NEXT, CIRCLEQ_LOOP_PREV
  <2> QED BY <2>4, <2>5
<1> QED BY <1>1, <1>2, <1>3 DEF STAILQ_LAST

(* TAILQ_LAST, TAILQ_PREV, SIMPLEQ_LAST, STAILQ_LAST, CIRCLEQ_LOOP_NEXT    *)
(* and CIRCLEQ_LOOP_PREV find what they are named for, in all lists that   *)
(* the macros can make.                                                    *)
THEOREM LastAndPreviousAreFound == Spec => []FoundBackward
BY Inductive, FoundFollows, PTL

-----------------------------------------------------------------------------
(* The loop: what it has yet to come to lies at or after the element it    *)
(* has saved, in the direction it goes; with nothing saved there is        *)
(* nothing to come to.                                                     *)
LoopStates ==
    [head : Heads \cup {Null}, reverse : BOOLEAN, var : Elements \cup {Null},
     tvar : Elements \cup {Null}, due : SUBSET Elements]

UpTo(h, x, y) ==
    \E i, j \in 1..Len(lists[h]) : i <= j /\ lists[h][i] = x /\ lists[h][j] = y

Ahead ==
    \A x \in loop.due \cup {loop.tvar} :
        IF loop.reverse THEN UpTo(loop.head, x, loop.tvar) ELSE UpTo(loop.head, loop.tvar, x)

LoopInv ==
    /\ loop \in LoopStates
    /\ Idle => loop.due = {}
    /\ ~Idle => /\ kind # "CIRCLEQ" /\ (loop.reverse => kind = "TAILQ")
                /\ IF loop.tvar = Null THEN loop.due = {} ELSE Ahead

(* Insertions, removals and replacements leave the others in their order.  *)
LEMMA OrderInserted ==
  ASSUME IInv, NEW h \in Heads, NEW p \in 1..Len(lists[h]) + 1,
         NEW e \in Elements, e \notin InUse, lists' = [lists EXCEPT ![h] = With(@, p, e)]
  PROVE  \A g \in Heads : \A x, y : UpTo(g, x, y) => UpTo(g, x, y)'
<1> SUFFICES ASSUME NEW g \in Heads, NEW x, NEW y, UpTo(g, x, y) PROVE UpTo(g, x, y)'
  OBVIOUS
<1>1. PICK i \in 1..Len(lists[g]) :
        \E j \in 1..Len(lists[g]) : i <= j /\ lists[g][i] = x /\ lists[g][j] = y
  BY DEF UpTo
<1>2. PICK j \in 1..Len(lists[g]) : i <= j /\ lists[g][i] = x /\ lists[g][j] = y
  BY <1>1
<1>3. /\ \A f \in Heads \ {h} : lists'[f] = lists[f]
      /\ Len(lists'[h]) = Len(lists[h]) + 1
      /\ \A k \in 1..Len(lists[h]) + 1 :
          lists'[h][k] = IF k < p THEN lists[h][k] ELSE IF k = p THEN e ELSE lists[h][k - 1]
  <2>1. Shape /\ OnceEach /\ Len(lists[h]) \in Nat BY LinkFacts DEF IInv, Represented
  <2>2. \A f \in Heads \ {h} : lists'[f] = lists[f] BY <2>1, ListsInserted
  <2>3. Len(lists'[h]) = Len(lists[h]) + 1 BY <2>1, ListsInserted
  <2>4. lists'[h] = With(lists[h], p, e) BY <2>1 DEF Shape
  <2>5. \A k \in 1..Len(lists[h]) + 1 :
          lists'[h][k] = IF k < p THEN lists[h][k] ELSE IF k = p THEN e ELSE lists[h][k - 1]
    BY <2>1, <2>4, SMT DEF With
  <2> QED BY <2>2, <2>3, <2>5
<1>4. CASE g # h BY <1>2, <1>3, <1>4 DEF UpTo
<1>5. CASE g = h
  <2> DEFINE t == lists'[h]
             n == Len(lists[h])
             At(k) == IF k < p THEN k ELSE k + 1
  <2>1. n \in Nat BY LinkFacts
  <2>2. /\ Len(t) = n + 1
        /\ \A k \in 1..n + 1 : t[k] = IF k < p THEN lists[h][k] ELSE IF k = p THEN e ELSE lists[h][k - 1]
    BY <1>3
  <2> HIDE DEF t, n
  <2>3. ASSUME NEW k \in 1..n PROVE At(k) \in 1..n + 1 /\ t[At(k)] = lists[h][k]
    <3>1. CASE k < p BY <2>1, <2>2, <3>1, SMT
    <3>2. CASE ~(k < p)
      <4>1. k + 1 \in 1..n + 1 /\ ~(k + 1 < p) /\ k + 1 # p /\ (k + 1) - 1 = k
        BY <2>1, <3>2, SMT DEF n
      <4> QED BY <2>2, <3>2, <4>1
    <3> QED BY <3>1, <3>2
  <2>4. i \in 1..n /\ j \in 1..n BY <1>1, <1>2, <1>5 DEF n
  <2>5. At(i) <= At(j)
    <3>1. i <= j /\ p \in Int BY <1>2
    <3> QED BY <2>1, <2>4, <3>1, SMT
  <2>6. At(i) \in 1..Len(t) /\ At(j) \in 1..Len(t) /\ t[At(i)] = x /\ t[At(j)] = y
    BY <1>2, <1>5, <2>2, <2>3, <2>4
  <2> HIDE DEF At
  <2> QED BY <1>5, <2>5, <2>6 DEF UpTo, t
<1> QED BY <1>4, <1>5

LEMMA OrderRemoved ==
  ASSUME IInv, NEW h \in Heads, NEW p \in 1..Len(lists[h]), RemovedAt(h, p)
  PROVE  \A g \in Heads : \A x, y :
            UpTo(g, x, y) /\ x # lists[h][p] /\ y # lists[h][p] => UpTo(g, x, y)'
<1> SUFFICES ASSUME NEW g \in Heads, NEW x, NEW y, UpTo(g, x, y),
                    x # lists[h][p], y # lists[h][p]
             PROVE  UpTo(g, x, y)'
  OBVIOUS
<1>1. PICK i \in 1..Len(lists[g]) :
        \E j \in 1..Len(lists[g]) : i <= j /\ lists[g][i] = x /\ lists[g][j] = y
  BY DEF UpTo
<1>2. PICK j \in 1..Len(lists[g]) : i <= j /\ lists[g][i] = x /\ lists[g][j] = y
  BY <1>1
<1>3. /\ \A f \in Heads \ {h} : lists'[f] = lists[f]
      /\ Len(lists'[h]) = Len(lists[h]) - 1
      /\ \A k \in 1..Len(lists[h]) - 1 :
            lists'[h][k] = IF k < p THEN lists[h][k] ELSE lists[h][k + 1]
  BY ListsRemoved DEF IInv, Represented
<1>4. CASE g # h BY <1>2, <1>3, <1>4 DEF UpTo
<1>5. CASE g = h
  <2> DEFINE t == lists'[h]
             n == Len(lists[h])
             At(k) == IF k < p THEN k ELSE k - 1
  <2>1. n \in Nat BY LinkFacts
  <2>2. /\ Len(t) = n - 1 /\ p \in 1..n
        /\ \A k \in 1..n - 1 : t[k] = IF k < p THEN lists[h][k] ELSE lists[h][k + 1]
    BY <1>3
  <2> HIDE DEF t, n
  <2>3. ASSUME NEW k \in 1..n, k # p PROVE At(k) \in 1..n - 1 /\ t[At(k)] = lists[h][k]
    <3>1. CASE k < p
      <4>1. k \in 1..n - 1 BY <2>1, <2>2, <3>1, SMT
      <4> QED BY <2>2, <3>1, <4>1
    <3>2. CASE ~(k < p)
      <4>1. k - 1 \in 1..n - 1 /\ ~(k - 1 < p) /\ (k - 1) + 1 = k
        BY <2>1, <2>2, <2>3, <3>2, SMT
      <4> QED BY <2>2, <3>2, <4>1
    <3> QED BY <3>1, <3>2
  <2>4. i \in 1..n /\ j \in 1..n /\ i # p /\ j # p BY <1>1, <1>2, <1>5 DEF n
  <2>5. At(i) <= At(j)
    <3>1. i <= j /\ p \in Int BY <1>2
    <3> QED BY <2>1, <2>4, <3>1, SMT
  <2>6. At(i) \in 1..Len(t) /\ At(j) \in 1..Len(t) /\ t[At(i)] = x /\ t[At(j)] = y
    BY <1>2, <1>5, <2>2, <2>3, <2>4
  <2> HIDE DEF At
  <2> QED BY <1>5, <2>5, <2>6 DEF UpTo, t
<1> QED BY <1>4, <1>5

LEMMA OrderReplaced ==
  ASSUME IInv, NEW h \in Heads, NEW p \in 1..Len(lists[h]), NEW e,
         lists' = [lists EXCEPT ![h][p] = e]
  PROVE  \A g \in Heads : \A x, y :
            UpTo(g, x, y) /\ x # lists[h][p] /\ y # lists[h][p] => UpTo(g, x, y)'
<1> SUFFICES ASSUME NEW g \in Heads, NEW x, NEW y, UpTo(g, x, y),
                    x # lists[h][p], y # lists[h][p]
             PROVE  UpTo(g, x, y)'
  OBVIOUS
<1>1. PICK i \in 1..Len(lists[g]) :
        \E j \in 1..Len(lists[g]) : i <= j /\ lists[g][i] = x /\ lists[g][j] = y
  BY DEF UpTo
<1>2. PICK j \in 1..Len(lists[g]) : i <= j /\ lists[g][i] = x /\ lists[g][j] = y
  BY <1>1
<1>3. lists \in [Heads -> Seq(Elements)] BY DEF IInv, Shape
<1>4. CASE g # h
  <2>1. lists'[g] = lists[g] BY <1>3, <1>4
  <2> QED BY <1>2, <2>1 DEF UpTo
<1>5. CASE g = h
  <2>1. lists'[h] = [lists[h] EXCEPT ![p] = e] BY <1>3
  <2>2. lists[h] \in Seq(Elements) BY <1>3
  <2>3. Len(lists'[h]) = Len(lists[h]) BY <2>1, <2>2, SMT
  <2>4. i # p /\ j # p /\ DOMAIN lists[h] = 1..Len(lists[h])
    BY <1>1, <1>2, <1>5, ListTypes DEF IInv
  <2>5. lists'[h][i] = x /\ lists'[h][j] = y BY <1>1, <1>2, <1>5, <2>1, <2>4
  <2> QED BY <1>1, <1>2, <1>5, <2>3, <2>5 DEF UpTo
<1> QED BY <1>4, <1>5

(* The body of the loop: what leaves the list is due no more, and is never *)
(* the element saved.                                                      *)
LEMMA BodyKeeps ==
  ASSUME LoopInv, kind' = kind, NEW gone,
         \/ loop' = [loop EXCEPT !.due = @ \ gone]
         \/ loop' = loop /\ gone = {},
         Idle \/ loop.tvar \notin gone,
         \A g \in Heads : \A x, y :
            UpTo(g, x, y) /\ x \notin gone /\ y \notin gone => UpTo(g, x, y)'
  PROVE  LoopInv'
<1>1. loop \in LoopStates BY DEF LoopInv
<1>2. /\ loop' \in LoopStates
      /\ loop'.head = loop.head /\ loop'.reverse = loop.reverse /\ loop'.tvar = loop.tvar
      /\ loop'.due = loop.due \ gone
  BY <1>1 DEF LoopStates
<1>3. CASE Idle BY <1>2, <1>3 DEF LoopInv, Idle
<1>4. CASE ~Idle
  <2>1. loop.head \in Heads BY <1>1, <1>4 DEF LoopStates, Idle
  <2>2. ASSUME loop.tvar # Null PROVE Ahead'
    <3>1. Ahead BY <1>4, <2>2 DEF LoopInv
    <3>2. ASSUME NEW x \in loop'.due \cup {loop'.tvar}
          PROVE  IF loop'.reverse THEN UpTo(loop.head, x, loop.tvar)'
                 ELSE UpTo(loop.head, loop.tvar, x)'
      <4>1. x \in loop.due \cup {loop.tvar} /\ x \notin gone /\ loop.tvar \notin gone
        BY <1>2, <1>4
      <4>2. IF loop.reverse THEN UpTo(loop.head, x, loop.tvar)
            ELSE UpTo(loop.head, loop.tvar, x)
        BY <3>1, <4>1 DEF Ahead
      <4> QED BY <1>2, <2>1, <4>1, <4>2
    <3> QED BY <1>2, <3>2 DEF Ahead, UpTo
  <2> QED BY <1>2, <1>4, <2>2 DEF LoopInv, Idle
<1> QED BY <1>3, <1>4

LEMMA InsertionIsNoMatter ==
  ASSUME IInv, LoopInv, NEW h \in Heads, NEW p \in 1..Len(lists[h]) + 1,
         NEW e \in Elements, e \notin InUse, lists' = [lists EXCEPT ![h] = With(@, p, e)],
         kind' = kind, loop' = loop
  PROVE  LoopInv'
<1>1. \A g \in Heads : \A x, y : UpTo(g, x, y) => UpTo(g, x, y)' BY OrderInserted
<1>2. ASSUME NEW gone, gone = {} PROVE LoopInv'
  <2>1. Idle \/ loop.tvar \notin gone BY <1>2
  <2> QED BY <1>1, <1>2, <2>1, BodyKeeps
<1> QED BY <1>2

LEMMA RemovalIsSeen ==
  ASSUME IInv, LoopInv, NEW h \in Heads, NEW i \in 1..Len(lists[h]),
         Removable(lists[h][i]), Removed(h, i), kind' = kind
  PROVE  LoopInv'
<1>1. RemovedAt(h, i) /\ loop' = [loop EXCEPT !.due = @ \ {lists[h][i]}]
  BY DEF RemovedAt, Removed
<1>2. \A g \in Heads : \A x, y :
        UpTo(g, x, y) /\ x \notin {lists[h][i]} /\ y \notin {lists[h][i]} => UpTo(g, x, y)'
  BY <1>1, OrderRemoved
<1>3. Idle \/ loop.tvar \notin {lists[h][i]} BY DEF Removable
<1> QED BY <1>1, <1>2, <1>3, BodyKeeps

(* The loop itself: the first element, and one after the other             *)
LEMMA BeginHolds ==
  ASSUME IInv, LoopInv, NEW h \in Heads, NEW reverse \in BOOLEAN, Begin(h, reverse)
  PROVE  LoopInv'
<1> DEFINE s == lists[h]
           n == Len(s)
           first == IF reverse THEN s[n] ELSE s[1]
           next == IF n = 1 THEN Null ELSE IF reverse THEN s[n - 1] ELSE s[2]
<1>1. /\ kind # "CIRCLEQ" /\ kind' = kind /\ (reverse => kind = "TAILQ") /\ n \in Nat \ {0}
      /\ lists' = lists
  <2>1. n \in Nat BY LinkFacts
  <2>2. s \in Seq(Elements) /\ s # <<>> BY DEF IInv, Shape, Begin
  <2> QED BY <2>1, <2>2, EmptySeq DEF Begin
<1>2. /\ 1 \in 1..n /\ n \in 1..n /\ 1 + 1 = 2 /\ n # 0
      /\ n # 1 => 2 \in 1..n /\ n - 1 \in 1..n
      /\ n = 1 => 2 = n + 1
  <2> HIDE DEF n
  <2>1. n \in Nat /\ n # 0 BY <1>1
  <2> QED BY <2>1, SMT
<1>3. \A i \in 1..n : s[i] \in Elements /\ s[i] # Null BY SuccFacts
<1>4. /\ first \in Elements /\ first # Null
      /\ next \in Elements \cup {Null}
  BY <1>2, <1>3
<1>5. loop' = [head |-> h, reverse |-> reverse, var |-> first, tvar |-> next,
               due |-> Listed(h) \ {first}]
  <2>1. CASE reverse
    <3>1. TAILQ_LAST(mem, h) = s[n] BY <1>1, <1>2, <2>1, FoundFollows DEF FoundBackward
    <3>2. TAILQ_PREV(mem, s[n]) = IF n = 1 THEN Null ELSE s[n - 1]
      BY <1>1, <1>2, <2>1, FoundFollows DEF FoundBackward
    <3> QED BY <1>3, <1>2, <2>1, <3>1, <3>2 DEF Begin, Follow
  <2>2. CASE ~reverse
    <3>1. mem[FirstOf(h)] = s[1] BY <1>2, LinkFacts, SuccFacts
    <3>2. mem[NextOf(s[1])] = Succ(h, 2) BY <1>2, LinkFacts
    <3>3. Succ(h, 2) = IF n = 1 THEN Null ELSE s[2] BY <1>1, <1>2, SuccFacts DEF EndOf
    <3> QED BY <1>3, <1>2, <2>2, <3>1, <3>2, <3>3 DEF Begin, Follow
  <2> QED BY <2>1, <2>2
<1> HIDE DEF first, next, s
<1>6. Listed(h) = {s[i] : i \in 1..n} BY ListTypes DEF Listed, IInv, s
<1>7. Listed(h) \subseteq Elements BY <1>3, <1>6
<1>8. loop' \in LoopStates /\ ~Idle'
  <2>1. h # Null BY HeadsAreNoElements
  <2> QED BY <1>4, <1>5, <1>7, <2>1 DEF LoopStates, Idle
<1>9. CASE n = 1
  <2>1. loop'.tvar = Null BY <1>5, <1>9 DEF next
  <2>2. loop'.due = {}
    <3>1. first = s[1] BY <1>9 DEF first
    <3>2. \A i \in 1..n : s[i] = s[1] BY <1>9, SMT
    <3> QED BY <1>5, <1>6, <3>1, <3>2
  <2> QED BY <1>1, <1>5, <1>8, <2>1, <2>2 DEF LoopInv
<1>10. CASE n # 1
  <2>1. loop'.tvar = next /\ next # Null BY <1>2, <1>3, <1>5, <1>10 DEF next
  <2>2. ASSUME NEW x \in loop'.due \cup {loop'.tvar}
        PROVE  IF reverse THEN UpTo(h, x, next) ELSE UpTo(h, next, x)
    <3>1. CASE reverse
      <4>1. next = s[n - 1] /\ first = s[n] BY <1>10, <3>1 DEF next, first
      <4>2. PICK i \in 1..n : x = s[i] /\ (i = n => x = next)
        BY <1>2, <1>5, <1>6, <1>10, <2>1, <2>2, <4>1
      <4>3. CASE i = n BY <1>2, <1>10, <3>1, <4>1, <4>2, <4>3, <1>1, SMT DEF UpTo, s
      <4>4. CASE i # n
        <5>1. i <= n - 1 BY <1>1, <4>4, SMT
        <5> QED BY <1>2, <1>10, <3>1, <4>1, <4>2, <5>1 DEF UpTo, s
      <4> QED BY <4>3, <4>4
    <3>2. CASE ~reverse
      <4>1. next = s[2] /\ first = s[1] BY <1>10, <3>2 DEF next, first
      <4>2. PICK i \in 1..n : x = s[i] /\ (i = 1 => x = next)
        BY <1>2, <1>5, <1>6, <1>10, <2>1, <2>2, <4>1
      <4>3. CASE i = 1
        <5>1. 2 <= 2 OBVIOUS
        <5> QED BY <1>2, <1>10, <3>2, <4>1, <4>2, <4>3, <5>1 DEF UpTo, s
      <4>4. CASE i # 1
        <5>1. 2 <= i BY <1>1, <4>4, SMT
        <5> QED BY <1>2, <1>10, <3>2, <4>1, <4>2, <5>1 DEF UpTo, s
      <4> QED BY <4>3, <4>4
    <3> QED BY <3>1, <3>2
  <2>3. Ahead'
    <3>1. loop'.head = h /\ loop'.reverse = reverse /\ loop'.tvar = next BY <1>5
    <3> QED BY <1>1, <2>2, <3>1 DEF Ahead, UpTo
  <2> QED BY <1>1, <1>5, <1>8, <2>1, <2>3 DEF LoopInv
<1> QED BY <1>9, <1>10

LEMMA AdvanceHolds == ASSUME IInv, LoopInv, Advance PROVE LoopInv'
<1>1. /\ loop \in LoopStates /\ ~Idle /\ loop.head \in Heads /\ kind # "CIRCLEQ"
      /\ loop.reverse => kind = "TAILQ"
      /\ IF loop.tvar = Null THEN loop.due = {} ELSE Ahead
      /\ kind' = kind /\ mem' = mem /\ lists' = lists
  BY DEF LoopInv, Advance, LoopStates, Idle
<1>2. CASE loop.tvar = Null
  <2>1. loop' = [NoLoop EXCEPT !.due = {}] BY <1>1, <1>2 DEF Advance
  <2>2. loop' \in LoopStates /\ loop'.head = Null /\ loop'.due = {}
    BY <2>1 DEF NoLoop, LoopStates
  <2> QED BY <2>2 DEF LoopInv, Idle
<1>3. CASE loop.tvar # Null
  <2> DEFINE h == loop.head
             s == lists[h]
             n == Len(s)
             v == loop.tvar
             next == Follow(loop.reverse, v)
  <2>1. /\ loop' = [loop EXCEPT !.var = v, !.tvar = next, !.due = @ \ {v}]
        /\ Ahead /\ h \in Heads /\ v \in Elements /\ n \in Nat /\ h # Null
    BY <1>1, <1>3, LinkFacts, HeadsAreNoElements DEF Advance, LoopStates
  <2>2. UpTo(h, v, v) BY <2>1 DEF Ahead
  <2>3. PICK k \in 1..n : s[k] = v BY <2>2 DEF UpTo
  <2>4. \A i \in 1..n : s[i] \in Elements /\ s[i] # Null /\ Succ(h, i) = s[i]
    BY <2>1, SuccFacts
  <2>5. \A i, j \in 1..n : s[i] = s[j] => i = j
    BY <2>1, ListTypes DEF IInv, Represented, OnceEach
  <2>6. next = IF loop.reverse THEN IF k = 1 THEN Null ELSE s[k - 1]
               ELSE IF k = n THEN Null ELSE s[k + 1]
    <3>1. CASE loop.reverse
      <4>1. TAILQ_PREV(mem, s[k]) = IF k = 1 THEN Null ELSE s[k - 1]
        BY <1>1, <2>1, <3>1, FoundFollows DEF FoundBackward
      <4> QED BY <1>3, <2>3, <3>1, <4>1 DEF Follow
    <3>2. CASE ~loop.reverse
      <4>1. mem[NextOf(s[k])] = Succ(h, k + 1) BY <2>1, LinkFacts
      <4>2. Succ(h, n + 1) = Null BY <1>1, <2>1, SuccFacts DEF EndOf
      <4>3. k # n => k + 1 \in 1..n BY <2>1, SMT
      <4> QED BY <1>3, <2>3, <2>4, <3>2, <4>1, <4>2, <4>3 DEF Follow
    <3> QED BY <3>1, <3>2
  <2> HIDE DEF s, n, next
  <2>7. /\ k \in 1..n
        /\ k # n => k + 1 \in 1..n
        /\ k # 1 => k - 1 \in 1..n
    BY <2>1, SMT
  <2>8. next \in Elements \cup {Null} BY <2>4, <2>6, <2>7
  <2>9. /\ loop' \in LoopStates /\ loop'.head = h /\ loop'.reverse = loop.reverse
        /\ loop'.tvar = next /\ loop'.due = loop.due \ {v}
    BY <1>1, <2>1, <2>8 DEF LoopStates
  <2>10. ASSUME NEW x \in loop'.due
         PROVE  \E j \in 1..n : x = s[j] /\ IF loop.reverse THEN j <= k - 1 ELSE k + 1 <= j
    <3>1. x \in loop.due /\ x # v BY <2>9, <2>10
    <3>2. CASE loop.reverse
      <4>1. UpTo(h, x, v) BY <2>1, <3>1, <3>2 DEF Ahead
      <4>2. PICK i \in 1..n : \E j \in 1..n : i <= j /\ s[i] = x /\ s[j] = v
        BY <4>1 DEF UpTo, s, n
      <4>3. i <= k /\ i # k BY <2>3, <2>5, <3>1, <4>2
      <4>4. i <= k - 1 BY <2>1, <4>3, SMT
      <4> QED BY <3>2, <4>2, <4>4
    <3>3. CASE ~loop.reverse
      <4>1. UpTo(h, v, x) BY <2>1, <3>1, <3>3 DEF Ahead
      <4>2. PICK i \in 1..n : \E j \in 1..n : i <= j /\ s[i] = v /\ s[j] = x
        BY <4>1 DEF UpTo, s, n
      <4>3. PICK j \in 1..n : i <= j /\ s[i] = v /\ s[j] = x BY <4>2
      <4>4. k <= j /\ j # k BY <2>3, <2>5, <3>1, <4>3
      <4>5. k + 1 <= j BY <2>1, <4>4, SMT
      <4> QED BY <3>3, <4>3, <4>5
    <3> QED BY <3>2, <3>3
  <2>11. CASE next = Null
    <3>1. IF loop.reverse THEN k = 1 ELSE k = n BY <2>4, <2>6, <2>7, <2>11
    <3>2. \A j \in 1..n : ~(IF loop.reverse THEN j <= k - 1 ELSE k + 1 <= j)
      BY <2>1, <3>1, SMT
    <3>3. loop'.due = {} BY <2>10, <3>2
    <3> QED BY <1>1, <2>1, <2>9, <2>11, <3>3 DEF LoopInv, Idle
  <2>12. CASE next # Null
    <3>1. PICK m \in 1..n : next = s[m] /\ m = IF loop.reverse THEN k - 1 ELSE k + 1
      BY <2>6, <2>7, <2>12
    <3>2. ASSUME NEW x \in loop'.due \cup {loop'.tvar}
          PROVE  IF loop.reverse THEN UpTo(h, x, next) ELSE UpTo(h, next, x)
      <4>1. PICK j \in 1..n : x = s[j] /\ IF loop.reverse THEN j <= m ELSE m <= j
        <5>1. CASE x \in loop'.due BY <2>10, <3>1, <5>1
        <5>2. CASE x = next
          <6>1. m <= m BY <3>1
          <6> QED BY <3>1, <5>2, <6>1
        <5> QED BY <2>9, <3>2, <5>1, <5>2
      <4> QED BY <3>1, <4>1 DEF UpTo, s, n
    <3>3. ASSUME NEW x \in loop'.due \cup {loop'.tvar}
          PROVE  IF loop'.reverse THEN UpTo(loop.head, x, loop.tvar)'
                 ELSE UpTo(loop.head, loop.tvar, x)'
      <4>1. /\ lists'[loop'.head] = lists[h] /\ loop'.reverse = loop.reverse
            /\ loop'.tvar = next /\ h = loop.head
        BY <1>1, <2>9
      <4>2. CASE loop.reverse
        <5>1. UpTo(h, x, next) BY <3>2, <3>3, <4>2
        <5> QED BY <4>1, <4>2, <5>1 DEF UpTo
      <4>3. CASE ~loop.reverse
        <5>1. UpTo(h, next, x) BY <3>2, <3>3, <4>3
        <5> QED BY <4>1, <4>3, <5>1 DEF UpTo
      <4> QED BY <4>2, <4>3
    <3>4. Ahead' BY <3>3 DEF Ahead
    <3> QED BY <1>1, <2>1, <2>9, <2>12, <3>4 DEF LoopInv, Idle
  <2> QED BY <2>11, <2>12
<1> QED BY <1>2, <1>3

(* The invariant of the loop is inductive, relative to that of the lists.  *)
LEMMA LoopHolds == IInv /\ LoopInv /\ [Next]_vars => LoopInv'
<1> SUFFICES ASSUME IInv, LoopInv, [Next]_vars PROVE LoopInv'
  OBVIOUS
<1>0. \A h \in Heads : /\ Len(lists[h]) \in Nat /\ DOMAIN lists[h] = 1..Len(lists[h])
                       /\ lists[h] \in Seq(Elements)
  BY ListTypes DEF IInv, Shape
<1>1. ASSUME NEW h \in Heads, NEW e \in Elements, InsertHead(h, e) \/ InsertTail(h, e)
      PROVE  LoopInv'
  <2>1. PICK p \in 1..Len(lists[h]) + 1 : lists' = [lists EXCEPT ![h] = With(@, p, e)]
    <3>1. Len(lists[h]) \in Nat BY <1>0
    <3>2. 1 \in 1..Len(lists[h]) + 1 /\ Len(lists[h]) + 1 \in 1..Len(lists[h]) + 1
      BY <3>1, SMT
    <3> QED BY <1>1, <3>2 DEF InsertHead, InsertTail
  <2>2. e \notin InUse /\ kind' = kind /\ loop' = loop BY <1>1 DEF InsertHead, InsertTail
  <2> QED BY <2>1, <2>2, InsertionIsNoMatter
<1>2. ASSUME NEW h \in Heads, NEW i \in DOMAIN lists[h], NEW e \in Elements,
             InsertAfter(h, i, e) \/ InsertBefore(h, i, e)
      PROVE  LoopInv'
  <2>1. PICK p \in 1..Len(lists[h]) + 1 : lists' = [lists EXCEPT ![h] = With(@, p, e)]
    <3>1. Len(lists[h]) \in Nat /\ i \in 1..Len(lists[h]) BY <1>0
    <3>2. i \in 1..Len(lists[h]) + 1 /\ i + 1 \in 1..Len(lists[h]) + 1 BY <3>1, SMT
    <3> QED BY <1>2, <3>2 DEF InsertAfter, InsertBefore
  <2>2. e \notin InUse /\ kind' = kind /\ loop' = loop BY <1>2 DEF InsertAfter, InsertBefore
  <2> QED BY <2>1, <2>2, InsertionIsNoMatter
<1>3. ASSUME NEW h \in Heads, NEW i \in DOMAIN lists[h], RemoveAfter(h, i) \/ Remove(h, i)
      PROVE  LoopInv'
  <2>1. PICK p \in 1..Len(lists[h]) : Removable(lists[h][p]) /\ Removed(h, p)
    <3>1. Len(lists[h]) \in Nat /\ i \in 1..Len(lists[h]) BY <1>0
    <3>2. i < Len(lists[h]) => i + 1 \in 1..Len(lists[h]) BY <3>1, SMT
    <3> QED BY <1>3, <3>1, <3>2 DEF RemoveAfter, Remove
  <2>2. kind' = kind BY <1>3 DEF RemoveAfter, Remove
  <2> QED BY <2>1, <2>2, RemovalIsSeen
<1>4. ASSUME NEW h \in Heads, RemoveHead(h) PROVE LoopInv'
  <2>1. Len(lists[h]) \in Nat \ {0} BY <1>0, <1>4, EmptySeq DEF RemoveHead
  <2>2. 1 \in 1..Len(lists[h]) BY <2>1, SMT
  <2> QED BY <1>4, <2>2, RemovalIsSeen DEF RemoveHead
<1>5. ASSUME NEW h \in Heads, NEW i \in DOMAIN lists[h], NEW e \in Elements, Replace(h, i, e)
      PROVE  LoopInv'
  <2>1. i \in 1..Len(lists[h]) BY <1>0
  <2>2. /\ lists' = [lists EXCEPT ![h][i] = e] /\ kind' = kind
        /\ loop' = [loop EXCEPT !.due = @ \ {lists[h][i]}]
        /\ Idle \/ loop.tvar \notin {lists[h][i]}
    BY <1>5 DEF Replace, Removable
  <2>3. \A g \in Heads : \A x, y :
          UpTo(g, x, y) /\ x \notin {lists[h][i]} /\ y \notin {lists[h][i]} => UpTo(g, x, y)'
    BY <2>1, <2>2, OrderReplaced
  <2> QED BY <2>2, <2>3, BodyKeeps
<1>6. ASSUME NEW h1 \in Heads, NEW h2 \in Heads, Concat(h1, h2) \/ Move(h1, h2) PROVE LoopInv'
  BY <1>6 DEF Concat, Move, LoopInv, Idle
<1>7. ASSUME NEW h \in Heads, NEW reverse \in BOOLEAN, Begin(h, reverse) PROVE LoopInv'
  BY <1>7, BeginHolds
<1>8. CASE Advance BY <1>8, AdvanceHolds
<1>9. CASE UNCHANGED vars
  <2>1. kind' = kind /\ lists' = lists /\ loop' = loop BY <1>9 DEF vars
  <2> QED BY <2>1 DEF LoopInv, Ahead, UpTo, Idle
<1> QED BY <1>1, <1>2, <1>3, <1>4, <1>5, <1>6, <1>7, <1>8, <1>9 DEF Next

LEMMA LoopBegins == Init => LoopInv
BY DEF Init, LoopInv, Idle, NoLoop, LoopStates

LEMMA LoopInductive == Spec => []LoopInv
BY Inductive, LoopBegins, LoopHolds, PTL DEF Spec

(* A FOREACH_SAFE, in either direction, over a list of any length comes to *)
(* all elements that its body has not removed, whatever else the body      *)
(* inserts and removes.                                                    *)
THEOREM LoopsComeToAll == Spec => []LoopComesToAll
<1>1. LoopInv => LoopComesToAll BY DEF LoopInv, LoopComesToAll
<1> QED BY <1>1, LoopInductive, PTL

-----------------------------------------------------------------------------
(* Heads hold elements, cells, heads or NULL.                              *)
LEMMA NotPoison == IInv => \A h \in Heads : mem[FirstOf(h)] # Poison /\ mem[LastOf(h)] # Poison
<1> SUFFICES ASSUME IInv, NEW h \in Heads
             PROVE  mem[FirstOf(h)] # Poison /\ mem[LastOf(h)] # Poison
  OBVIOUS
<1> DEFINE s == lists[h]
           n == Len(s)
<1>1. n \in Nat /\ \A i \in 1..n : s[i] \in Elements /\ Succ(h, i) = s[i] BY SuccFacts
<1>2. Poison # Null /\ Poison # h /\ Poison \notin Elements /\ Poison \notin Cells
  BY HeadsAreNoElements, NullIsNotPoison, NullIsNoCell
<1>3. FirstOf(h) \in Cells /\ \A e \in Elements : NextOf(e) \in Cells BY CellFacts
<1>4. /\ 1 \in 1..n \/ 1 = n + 1
      /\ n + 1 # 1 => (n + 1) - 1 \in 1..n
  <2> HIDE DEF n
  <2> QED BY <1>1, SMT
<1>5. mem[FirstOf(h)] # Poison
  <2>1. mem[FirstOf(h)] = Succ(h, 1) BY LinkFacts
  <2>2. Succ(h, n + 1) \in {Null, h} BY SuccFacts DEF EndOf
  <2> QED BY <1>1, <1>2, <1>4, <2>1, <2>2
<1>6. mem[LastOf(h)] # Poison
  <2>1. mem[LastOf(h)] = IF Tailed THEN BackAt(h, n + 1) ELSE Null
    BY DEF IInv, Represented, TailAt
  <2>2. BackAt(h, n + 1) # Poison BY <1>1, <1>2, <1>3, <1>4 DEF BackAt
  <2> QED BY <1>2, <2>1, <2>2
<1> QED BY <1>5, <1>6

(* No head ever holds what a removal leaves in an element, and every field *)
(* holds what a field of its kind may.                                     *)
THEOREM TypesAlwaysRight == Spec => []TypeOK
<1>1. IInv /\ LoopInv => TypeOK
  BY NotPoison DEF IInv, Shape, LoopInv, LoopStates, TypeOK
<1> QED BY <1>1, Inductive, LoopInductive, PTL
=============================================================================
