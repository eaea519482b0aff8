--------------------------- MODULE RBTree_proofs ---------------------------
(***************************************************************************)
(* Proofs about the red-black tree of tree.h, for any set of keys and      *)
(* trees of any size.                                                      *)
(*                                                                         *)
(* The invariant is stated with two functions that are not in the program: *)
(* d[n] is the set of nodes at and below n, h[n] the number of black nodes *)
(* on a way down from n.  What it says of them is said link by link, so    *)
(* that a rotation disturbs it at two nodes only; what the recursive walks *)
(* return follows from it by induction on the sets d[n].                   *)
(***************************************************************************)
EXTENDS RBTree, FiniteSetTheorems, WellFoundedInduction, TLAPS

(* The links of t, with d: the tree is ordered, whatever its colors.  A    *)
(* node outside it has no links.                                           *)
IsBelow(t, d) ==
    /\ d \in [Pointers -> SUBSET Keys]
    /\ d[Null] = {}
    /\ \A n \in Keys : d[n] = {n} \cup d[t.child["left"][n]] \cup d[t.child["right"][n]]
    /\ \A n \in Keys : IsFiniteSet(d[n])

IsSorted(t, d) ==
    \A n \in Keys, s \in Sides : \A m \in d[t.child[s][n]] : Toward(m, n) = s /\ m # n

LinksAgree(t, d) ==
    /\ \A n \in Keys, s \in Sides :
          t.child[s][n] # Null => t.parent[t.child[s][n]] = n
    /\ \A n \in Keys :
          t.parent[n] # Null => \E s \in Sides : t.child[s][t.parent[n]] = n
    /\ t.root # Null => t.parent[t.root] = Null
    /\ \A n \in d[t.root] : n # t.root => t.parent[n] # Null
    /\ \A n \in Keys \ d[t.root] :
          t.parent[n] = Null /\ \A s \in Sides : t.child[s][n] = Null

Tree(t, d) == t \in Trees /\ IsBelow(t, d) /\ IsSorted(t, d) /\ LinksAgree(t, d)

-----------------------------------------------------------------------------
LEMMA SideFacts ==
    /\ Sides = {"left", "right"} /\ "left" # "right"
    /\ \A s \in Sides : Other(s) \in Sides /\ Other(s) # s /\ Other(Other(s)) = s
    /\ \A s, z \in Sides : z = s \/ z = Other(s)
    /\ \A k, n : Toward(k, n) \in Sides
  BY DEF Sides, Other, Toward

LEMMA TreeTypes ==
    ASSUME NEW t \in Trees
    PROVE  /\ t.root \in Pointers
           /\ \A n \in Keys : t.parent[n] \in Pointers /\ t.color[n] \in {"red", "black"}
           /\ \A n \in Keys, s \in Sides : t.child[s][n] \in Pointers
           /\ \A n \in Pointers : n = Null \/ n \in Keys
  BY DEF Trees, Pointers

LEMMA BelowFacts ==
    ASSUME NEW t, NEW d, Tree(t, d)
    PROVE  /\ \A n \in Keys, s \in Sides : n \notin d[t.child[s][n]] /\ d[t.child[s][n]] \subseteq d[n]
           /\ \A n \in Keys : n \in d[n]
           /\ \A n \in Keys, s \in Sides : d[n] = {n} \cup d[t.child[s][n]] \cup d[t.child[Other(s)][n]]
           /\ \A n \in Pointers : d[n] \subseteq Keys /\ IsFiniteSet(d[n])
  <1>1. \A n \in Keys, s \in Sides : d[n] = {n} \cup d[t.child[s][n]] \cup d[t.child[Other(s)][n]]
    BY DEF Tree, IsBelow, Sides, Other
  <1>2. \A n \in Keys, s \in Sides : n \notin d[t.child[s][n]]
    BY DEF Tree, IsSorted
  <1>3. \A n \in Pointers : d[n] \subseteq Keys /\ IsFiniteSet(d[n])
    BY FS_EmptySet DEF Tree, IsBelow, Pointers
  <1>4. \A n \in Keys, s \in Sides : d[t.child[s][n]] \subseteq d[n]
    BY <1>1
  <1>5. \A n \in Keys : n \in d[n]
    BY DEF Tree, IsBelow
  <1> QED
    BY <1>1, <1>2, <1>3, <1>4, <1>5

(* The order of the keys, as directions                                    *)
LEMMA OrderFacts ==
    /\ \A a, b \in Keys : \A s \in Sides :
          a # b => (Toward(a, b) = s <=> Toward(b, a) = Other(s))
    /\ \A a, b, c \in Keys : \A s \in Sides :
          a # b /\ b # c /\ Toward(a, b) = s /\ Toward(b, c) = s => a # c /\ Toward(a, c) = s
  BY KeysAreIntegers DEF Toward, Sides, Other

(* Induction on the nodes of a tree: of the nodes of a set that is not     *)
(* empty one has no child in it.                                           *)
LEMMA LowestNode ==
    ASSUME NEW t, NEW d, Tree(t, d), NEW B \in SUBSET Keys, B # {}
    PROVE  \E n \in B : \A s \in Sides : t.child[s][n] \notin B
  <1> DEFINE S == {d[n] : n \in B}
             R == StrictSubsetOrdering(Keys)
  <1>1. S \subseteq FiniteSubsetsOf(Keys)
    BY BelowFacts DEF FiniteSubsetsOf, Pointers
  <1>2. S # {}
    OBVIOUS
  <1>3. IsWellFoundedOn(R, FiniteSubsetsOf(Keys))
    BY FS_StrictSubsetOrderingWellFounded
  <1> HIDE DEF S, R
  <1>4. \E X \in S : \A Y \in S : ~(<<Y, X>> \in R)
    BY <1>1, <1>2, <1>3, WFMin
  <1>5. PICK n \in B : \A Y \in S : ~(<<Y, d[n]>> \in R)
    BY <1>4 DEF S
  <1>6. ASSUME NEW s \in Sides, t.child[s][n] \in B
        PROVE  FALSE
    <2> DEFINE c == t.child[s][n]
    <2>1. d[c] \in S
      BY <1>6 DEF S
    <2>2. d[c] \subseteq d[n] /\ d[c] # d[n] /\ d[c] \in SUBSET Keys /\ d[n] \in SUBSET Keys
      BY <1>6, BelowFacts DEF Pointers
    <2>3. <<d[c], d[n]>> \in R
      BY <2>2 DEF R, StrictSubsetOrdering
    <2> QED
      BY <1>5, <2>1, <2>3
  <1> QED
    BY <1>6

(* What is below a node below n is below n.                                *)
LEMMA BelowBelow ==
    ASSUME NEW t, NEW d, Tree(t, d), NEW n \in Pointers, NEW m \in d[n]
    PROVE  d[m] \subseteq d[n]
  <1> DEFINE B == {a \in Keys : \E b \in d[a] : ~(d[b] \subseteq d[a])}
  <1>1. ASSUME B # {} PROVE FALSE
    <2>1. PICK a \in B : \A s \in Sides : t.child[s][a] \notin B
      BY <1>1, LowestNode
    <2>2. PICK b \in d[a] : ~(d[b] \subseteq d[a])
      BY <2>1
    <2>3. b # a
      BY <2>2
    <2>4. PICK s \in Sides : b \in d[t.child[s][a]]
      BY <2>2, <2>3, BelowFacts DEF Tree, IsBelow, Sides
    <2>5. t.child[s][a] \in Keys
      BY <2>1, <2>4, TreeTypes DEF Tree, IsBelow
    <2>6. d[b] \subseteq d[t.child[s][a]]
      BY <2>1, <2>4, <2>5
    <2> QED
      BY <2>1, <2>2, <2>6, BelowFacts
  <1>2. n \in Keys
    BY DEF Tree, IsBelow, Pointers
  <1> QED
    BY <1>1, <1>2

-----------------------------------------------------------------------------
(* Each walk is a recursive function; the function that gives its result   *)
(* in terms of d solves the same equation, and there is one solution only. *)

NodesBelow(t) ==
    LET below[n \in Pointers] ==
            IF n = Null THEN {}
            ELSE {n} \cup below[t.child["left"][n]] \cup below[t.child["right"][n]]
    IN below

LEMMA KeysInIs ==
    ASSUME NEW t, NEW d, Tree(t, d)
    PROVE  KeysIn(t) = d[t.root] /\ \A n \in Pointers : NodesBelow(t)[n] = d[n]
  <1> DEFINE Body(f) == [n \in Pointers |->
                IF n = Null THEN {}
                ELSE {n} \cup f[t.child["left"][n]] \cup f[t.child["right"][n]]]
             below == CHOOSE f : f = Body(f)
             B == {n \in Keys : below[n] # d[n]}
  <1>1. d = Body(d)
    <2>1. d = [n \in Pointers |-> d[n]]
      BY DEF Tree, IsBelow
    <2>2. \A n \in Pointers : d[n] = Body(d)[n]
      BY DEF Tree, IsBelow, Pointers
    <2> QED
      BY <2>1, <2>2
  <1>2. below = Body(below)
    BY <1>1
  <1> HIDE DEF below
  <1>3. /\ below[Null] = {}
        /\ \A n \in Keys : below[n] = {n} \cup below[t.child["left"][n]] \cup below[t.child["right"][n]]
    BY <1>2, NullIsNoKey DEF Pointers
  <1>4. ASSUME B # {} PROVE FALSE
    <2>1. PICK n \in B : \A s \in Sides : t.child[s][n] \notin B
      BY <1>4, LowestNode
    <2>2. \A s \in Sides : below[t.child[s][n]] = d[t.child[s][n]]
      BY <1>3, <2>1, TreeTypes DEF Tree, IsBelow
    <2>3. d[n] = {n} \cup d[t.child["left"][n]] \cup d[t.child["right"][n]]
      BY <2>1 DEF Tree, IsBelow
    <2>4. below[n] = {n} \cup below[t.child["left"][n]] \cup below[t.child["right"][n]]
      BY <1>3, <2>1
    <2> QED
      BY ONLY <2>1, <2>2, <2>3, <2>4 DEF Sides
  <1>5. \A n \in Pointers : below[n] = d[n]
    BY <1>3, <1>4 DEF Pointers, Tree, IsBelow
  <1>6. KeysIn(t) = below[t.root]
    BY DEF KeysIn, below
  <1>7. NodesBelow(t) = below
    BY DEF NodesBelow, below
  <1> QED
    BY <1>5, <1>6, <1>7, TreeTypes DEF Tree

(* The nodes of d[n] that have none of it on the given side                *)
Outermost(d, side, n) ==
    {e \in d[n] : \A m \in d[n] : m # e => Toward(e, m) = side}

LEMMA OutermostFacts ==
    ASSUME NEW t, NEW d, Tree(t, d), NEW side \in Sides, NEW n \in Keys
    PROVE  /\ t.child[side][n] = Null => Outermost(d, side, n) = {n}
           /\ t.child[side][n] # Null =>
                Outermost(d, side, n) = Outermost(d, side, t.child[side][n])
  <1> DEFINE c == t.child[side][n]
             o == t.child[Other(side)][n]
  <1>1. /\ d[n] = {n} \cup d[c] \cup d[o] /\ d[n] \subseteq Keys
        /\ \A m \in d[c] : Toward(m, n) = side /\ m # n
        /\ \A m \in d[o] : Toward(m, n) = Other(side) /\ m # n
        /\ Other(side) \in Sides /\ Other(side) # side
    BY BelowFacts, SideFacts DEF Tree, IsSorted, Pointers
  <1>2. c \in Pointers /\ o \in Pointers /\ d[c] \subseteq Keys /\ d[o] \subseteq Keys
    BY <1>1, TreeTypes DEF Tree
  <1>3. \A m \in d[c] : Toward(n, m) # side
    BY <1>1, <1>2, OrderFacts
  <1>4. \A m \in d[o] : Toward(n, m) = side
    BY <1>1, <1>2, OrderFacts
  <1>5. \A e \in d[c], m \in d[o] : e # m /\ Toward(e, m) = side
    BY <1>1, <1>2, <1>4, OrderFacts
  <1> HIDE DEF c, o
  <1>6. CASE c = Null
    <2>1. d[c] = {}
      BY <1>6 DEF Tree, IsBelow
    <2>2. n \in Outermost(d, side, n)
      BY <1>1, <1>4, <2>1 DEF Outermost
    <2>3. \A e \in d[o] : e \notin Outermost(d, side, n)
      BY <1>1 DEF Outermost
    <2>4. Outermost(d, side, n) = {n}
      BY <1>1, <2>1, <2>2, <2>3 DEF Outermost
    <2> QED
      BY <1>6, <2>4 DEF c
  <1>7. CASE c # Null
    <2>1. c \in d[c]
      BY <1>2, <1>7, BelowFacts DEF Pointers
    <2>2. n \notin Outermost(d, side, n)
      BY <1>1, <1>3, <2>1 DEF Outermost
    <2>3. \A e \in d[o] : e \notin Outermost(d, side, n)
      BY <1>1 DEF Outermost
    <2>4. \A e \in d[c] : e \in Outermost(d, side, n) <=> e \in Outermost(d, side, c)
      BY <1>1, <1>5 DEF Outermost
    <2>5. Outermost(d, side, n) = Outermost(d, side, c)
      <3>1. Outermost(d, side, n) \subseteq d[n] /\ Outermost(d, side, c) \subseteq d[c]
        BY DEF Outermost
      <3> QED
        BY <1>1, <2>2, <2>3, <2>4, <3>1
    <2> QED
      BY <1>7, <2>5 DEF c
  <1> QED
    BY <1>6, <1>7

LEMMA ExtremeIs ==
    ASSUME NEW t, NEW d, Tree(t, d), NEW side \in Sides
    PROVE  /\ Extreme(t, side, Null) = Null
           /\ \A top \in Keys : Extreme(t, side, top) \in Outermost(d, side, top)
  <1> DEFINE Body(f) == [n \in Pointers |->
                IF n = Null \/ t.child[side][n] = Null THEN n ELSE f[t.child[side][n]]]
             down == CHOOSE f : f = Body(f)
             g == [n \in Pointers |->
                IF n = Null THEN Null ELSE CHOOSE e : e \in Outermost(d, side, n)]
             B == {n \in Keys : down[n] \notin Outermost(d, side, n)}
  <1>1. g = Body(g)
    <2>1. \A n \in Keys : t.child[side][n] = Null => (CHOOSE e : e \in Outermost(d, side, n)) = n
      BY OutermostFacts
    <2>2. ASSUME NEW n \in Pointers PROVE g[n] = Body(g)[n]
      <3>1. CASE n = Null
        BY <3>1
      <3>2. CASE n # Null /\ t.child[side][n] = Null
        <4>1. n \in Keys
          BY <3>2 DEF Pointers
        <4> QED
          BY <2>1, <3>2, <4>1
      <3>3. CASE n # Null /\ t.child[side][n] # Null
        <4>1. n \in Keys /\ t.child[side][n] \in Pointers
          BY <3>3, TreeTypes DEF Tree, Pointers
        <4>2. Outermost(d, side, n) = Outermost(d, side, t.child[side][n])
          BY <3>3, <4>1, OutermostFacts
        <4> QED
          BY <3>3, <4>1, <4>2
      <3> QED
        BY <3>1, <3>2, <3>3
    <2> QED
      BY <2>2
  <1>2. down = Body(down)
    BY <1>1
  <1> HIDE DEF down
  <1>3. /\ down[Null] = Null
        /\ \A n \in Keys : /\ t.child[side][n] = Null => down[n] = n
                           /\ t.child[side][n] # Null => down[n] = down[t.child[side][n]]
    BY <1>2, NullIsNoKey DEF Pointers
  <1>4. ASSUME B # {} PROVE FALSE
    <2>1. PICK n \in B : \A s \in Sides : t.child[s][n] \notin B
      BY <1>4, LowestNode
    <2>2. t.child[side][n] # Null
      BY <1>3, <2>1, OutermostFacts
    <2>3. t.child[side][n] \in Keys
      BY <2>1, <2>2, TreeTypes DEF Tree
    <2> QED
      BY <1>3, <2>1, <2>2, <2>3, OutermostFacts
  <1>5. \A top \in Pointers : Extreme(t, side, top) = down[top]
    BY DEF Extreme, down
  <1> QED
    BY <1>3, <1>4, <1>5 DEF Pointers

(* RB_FIND                                                                 *)
LEMMA FindIs ==
    ASSUME NEW t, NEW d, Tree(t, d), NEW k \in Keys
    PROVE  Find(t, k) = IF k \in d[t.root] THEN k ELSE Null
  <1> DEFINE Body(f) == [n \in Pointers |->
                IF n = Null \/ n = k THEN n ELSE f[t.child[Toward(k, n)][n]]]
             down == CHOOSE f : f = Body(f)
             g == [n \in Pointers |-> IF k \in d[n] THEN k ELSE Null]
             B == {n \in Keys : down[n] # g[n]}
  <1>1. \A n \in Keys : n # k => (k \in d[n] <=> k \in d[t.child[Toward(k, n)][n]])
    <2> SUFFICES ASSUME NEW n \in Keys, n # k
                 PROVE  k \in d[n] <=> k \in d[t.child[Toward(k, n)][n]]
      OBVIOUS
    <2>1. Toward(k, n) \in Sides /\ Other(Toward(k, n)) \in Sides
          /\ Other(Toward(k, n)) # Toward(k, n)
      BY SideFacts
    <2>2. k \notin d[t.child[Other(Toward(k, n))][n]]
      BY <2>1 DEF Tree, IsSorted
    <2> QED
      BY <2>1, <2>2, BelowFacts
  <1>2. g = Body(g)
    <2>1. ASSUME NEW n \in Pointers PROVE g[n] = Body(g)[n]
      <3>1. CASE n = Null
        BY <3>1 DEF Tree, IsBelow
      <3>2. CASE n = k
        BY <3>2, BelowFacts
      <3>3. CASE n # Null /\ n # k
        <4>1. n \in Keys /\ t.child[Toward(k, n)][n] \in Pointers
          BY <3>3, TreeTypes, SideFacts DEF Tree, Pointers
        <4> QED
          BY <1>1, <3>3, <4>1
      <3> QED
        BY <3>1, <3>2, <3>3
    <2> QED
      BY <2>1
  <1>3. down = Body(down)
    BY <1>2
  <1> HIDE DEF down
  <1>4. /\ down[Null] = Null /\ down[k] = k
        /\ \A n \in Keys : n # k => down[n] = down[t.child[Toward(k, n)][n]]
    BY <1>3, NullIsNoKey DEF Pointers
  <1>5. g[Null] = Null /\ g[k] = k /\ \A n \in Keys : g[n] = IF k \in d[n] THEN k ELSE Null
    BY BelowFacts, NullIsNoKey DEF Pointers, Tree, IsBelow
  <1>6. ASSUME B # {} PROVE FALSE
    <2>1. PICK n \in B : \A s \in Sides : t.child[s][n] \notin B
      BY <1>6, LowestNode
    <2>2. n # k
      BY <1>4, <1>5, <2>1
    <2> DEFINE c == t.child[Toward(k, n)][n]
    <2>3. c \in Pointers /\ c \notin B
      BY <2>1, TreeTypes, SideFacts DEF Tree
    <2>4. down[c] = g[c]
      BY <1>4, <1>5, <2>3 DEF Pointers
    <2>5. g[c] = g[n]
      <3>1. k \in d[n] <=> k \in d[c]
        BY <1>1, <2>1, <2>2
      <3> QED
        BY <2>1, <2>3, <3>1 DEF Pointers
    <2> QED
      BY <1>4, <2>1, <2>2, <2>4, <2>5
  <1>7. \A n \in Pointers : down[n] = g[n]
    BY <1>4, <1>5, <1>6 DEF Pointers
  <1>8. Find(t, k) = down[t.root]
    BY DEF Find, down
  <1> QED
    BY <1>7, <1>8, TreeTypes DEF Tree

(* The nodes under which RB_INSERT may put k: without a child on the side  *)
(* of k, and such that k is on the same side of all others as they are.    *)
Hosts(t, d, k, n) ==
    {p \in d[n] : /\ t.child[Toward(k, p)][p] = Null
                  /\ \A m \in d[n] : m # p => Toward(k, m) = Toward(p, m)}

LEMMA HostsFacts ==
    ASSUME NEW t, NEW d, Tree(t, d), NEW k \in Keys, NEW n \in Keys, k \notin d[n]
    PROVE  /\ t.child[Toward(k, n)][n] = Null => Hosts(t, d, k, n) = {n}
           /\ t.child[Toward(k, n)][n] # Null =>
                Hosts(t, d, k, n) = Hosts(t, d, k, t.child[Toward(k, n)][n])
  <1> DEFINE s == Toward(k, n)
             c == t.child[s][n]
             o == t.child[Other(s)][n]
  <1>1. /\ s \in Sides /\ Other(s) \in Sides /\ Other(s) # s
        /\ d[n] = {n} \cup d[c] \cup d[o] /\ d[n] \subseteq Keys
        /\ \A m \in d[c] : Toward(m, n) = s /\ m # n
        /\ \A m \in d[o] : Toward(m, n) = Other(s) /\ m # n
    BY BelowFacts, SideFacts DEF Tree, IsSorted, Pointers
  <1>2. c \in Pointers /\ o \in Pointers /\ d[c] \subseteq Keys /\ d[o] \subseteq Keys /\ k # n
    BY <1>1, TreeTypes DEF Tree
  <1>3. \A m \in d[o] : Toward(n, m) = s /\ Toward(k, m) = s
    BY <1>1, <1>2, OrderFacts
  <1>4. \A p \in d[c], m \in d[o] : p # m /\ Toward(p, m) = s
    BY <1>1, <1>2, <1>3, OrderFacts
  <1> HIDE DEF c, o
  <1>5. \A p \in d[o] : p \notin Hosts(t, d, k, n)
    BY <1>1 DEF Hosts, s
  <1>6. CASE c = Null
    <2>1. d[c] = {}
      BY <1>6 DEF Tree, IsBelow
    <2>2. n \in Hosts(t, d, k, n)
      BY <1>1, <1>3, <1>6, <2>1 DEF Hosts, s, c
    <2>3. Hosts(t, d, k, n) = {n}
      BY <1>1, <1>5, <2>1, <2>2 DEF Hosts
    <2> QED
      BY <1>6, <2>3 DEF c, s
  <1>7. CASE c # Null
    <2>1. n \notin Hosts(t, d, k, n)
      BY <1>7 DEF Hosts, c, s
    <2>2. \A p \in d[c] : p \in Hosts(t, d, k, n) <=> p \in Hosts(t, d, k, c)
      <3> SUFFICES ASSUME NEW p \in d[c]
                   PROVE  p \in Hosts(t, d, k, n) <=> p \in Hosts(t, d, k, c)
        OBVIOUS
      <3>1. Toward(p, n) = s /\ p # n
        BY <1>1
      <3>2. Toward(k, n) = s
        BY DEF s
      <3>3. \A m \in d[o] : Toward(k, m) = Toward(p, m)
        BY <1>3, <1>4
      <3> HIDE DEF s
      <3> QED
        BY <1>1, <3>1, <3>2, <3>3 DEF Hosts
    <2>3. Hosts(t, d, k, n) = Hosts(t, d, k, c)
      <3>1. Hosts(t, d, k, n) \subseteq d[n] /\ Hosts(t, d, k, c) \subseteq d[c]
        BY DEF Hosts
      <3> QED
        BY <1>1, <1>5, <2>1, <2>2, <3>1
    <2> QED
      BY <1>7, <2>3 DEF c, s
  <1> QED
    BY <1>6, <1>7

LEMMA ParentForIs ==
    ASSUME NEW t, NEW d, Tree(t, d), NEW k \in Keys, k \notin d[t.root]
    PROVE  /\ t.root = Null => ParentFor(t, k) = Null
           /\ t.root # Null => ParentFor(t, k) \in Hosts(t, d, k, t.root)
  <1> DEFINE Body(f) == [n \in Keys |->
                IF t.child[Toward(k, n)][n] = Null THEN n ELSE f[t.child[Toward(k, n)][n]]]
             down == CHOOSE f : f = Body(f)
             g == [n \in Keys |-> CHOOSE p : p \in Hosts(t, d, k, n)]
             B == {n \in Keys : n # k /\ down[n] \notin Hosts(t, d, k, n)}
  <1>1. \A n \in Keys : n # k => k \notin d[n]
    <2> SUFFICES ASSUME NEW n \in Keys, n # k PROVE k \notin d[n]
      OBVIOUS
    <2>1. CASE n \in d[t.root]
      BY <2>1, BelowBelow, TreeTypes DEF Tree
    <2>2. CASE n \notin d[t.root]
      <3>1. \A s \in Sides : t.child[s][n] = Null
        BY <2>2 DEF Tree, LinksAgree
      <3> QED
        BY <3>1 DEF Tree, IsBelow, Sides
    <2> QED
      BY <2>1, <2>2
  <1>2. \A s \in Sides : t.child[s][k] = Null
    BY DEF Tree, LinksAgree
  <1>3. Hosts(t, d, k, k) = {k}
    <2>1. d[k] = {k}
      BY <1>2 DEF Tree, IsBelow, Sides
    <2> QED
      BY <1>2, <2>1, SideFacts DEF Hosts
  <1>4. \A n \in Keys : /\ t.child[Toward(k, n)][n] = Null => Hosts(t, d, k, n) = {n}
                        /\ t.child[Toward(k, n)][n] # Null =>
                             Hosts(t, d, k, n) = Hosts(t, d, k, t.child[Toward(k, n)][n])
    BY <1>1, <1>2, <1>3, HostsFacts, SideFacts
  <1>5. \A n \in Keys : t.child[Toward(k, n)][n] \in Pointers
    BY TreeTypes, SideFacts DEF Tree
  <1>6. g = Body(g)
    <2>1. ASSUME NEW n \in Keys PROVE g[n] = Body(g)[n]
      <3>1. CASE t.child[Toward(k, n)][n] = Null
        <4>1. Hosts(t, d, k, n) = {n}
          BY <1>4, <3>1
        <4> QED
          BY <3>1, <4>1
      <3>2. CASE t.child[Toward(k, n)][n] # Null
        <4>1. /\ Hosts(t, d, k, n) = Hosts(t, d, k, t.child[Toward(k, n)][n])
              /\ t.child[Toward(k, n)][n] \in Keys
          BY <1>4, <1>5, <3>2 DEF Pointers
        <4> QED
          BY <3>2, <4>1
      <3> QED
        BY <3>1, <3>2
    <2> QED
      BY <2>1
  <1>7. down = Body(down)
    BY <1>6
  <1> HIDE DEF down
  <1>8. \A n \in Keys :
          /\ t.child[Toward(k, n)][n] = Null => down[n] = n
          /\ t.child[Toward(k, n)][n] # Null => down[n] = down[t.child[Toward(k, n)][n]]
    BY <1>7
  <1>9. ASSUME B # {} PROVE FALSE
    <2>1. PICK n \in B : \A s \in Sides : t.child[s][n] \notin B
      BY <1>9, LowestNode
    <2> DEFINE c == t.child[Toward(k, n)][n]
    <2>2. c \in Pointers /\ c \notin B
      BY <1>5, <2>1, SideFacts
    <2>3. CASE c = Null
      BY <1>4, <1>8, <2>1, <2>3
    <2>4. CASE c # Null
      <3>1. c \in Keys
        BY <2>2, <2>4 DEF Pointers
      <3>2. c \in d[n]
        <4>1. c \in d[c] /\ n \in Keys /\ Toward(k, n) \in Sides
          BY <2>1, <3>1, BelowFacts, SideFacts
        <4> QED
          BY <4>1, BelowFacts
      <3>3. c # k
        BY <1>1, <2>1, <3>2
      <3>4. down[c] \in Hosts(t, d, k, c)
        BY <2>2, <3>1, <3>3
      <3> QED
        BY <1>4, <1>8, <2>1, <2>4, <3>4
    <2> QED
      BY <2>3, <2>4
  <1>10. ParentFor(t, k) = IF t.root = Null THEN Null ELSE down[t.root]
    BY DEF ParentFor, down
  <1>11. t.root # k /\ t.root \in Pointers
    BY BelowFacts, TreeTypes DEF Tree, Pointers
  <1>12. \A n \in Keys : n # k => down[n] \in Hosts(t, d, k, n)
    BY <1>9
  <1> QED
    BY <1>10, <1>11, <1>12 DEF Pointers

-----------------------------------------------------------------------------
(* What the operations make of the links.  A rotation changes four of      *)
(* them: m takes the place of n, and n that of m's child on n's side.      *)

LEMMA SideOfIs ==
    ASSUME NEW t, NEW d, Tree(t, d), NEW n \in Keys, t.parent[n] # Null, NEW s \in Sides
    PROVE  t.child[s][t.parent[n]] = n <=> s = SideOf(t, t.parent[n], n)
  <1> DEFINE p == t.parent[n]
  <1>1. p \in Keys /\ \E z \in Sides : t.child[z][p] = n
    BY TreeTypes DEF Tree, LinksAgree
  <1>2. \A z \in Sides : t.child[z][p] = n => Toward(n, p) = z
    <2>1. n \in d[n]
      BY BelowFacts
    <2> QED
      BY <1>1, <2>1 DEF Tree, IsSorted
  <1> QED
    BY <1>1, <1>2, SideFacts DEF SideOf

LEMMA ChildFacts ==
    ASSUME NEW t, NEW d, Tree(t, d), NEW n \in Keys, NEW s \in Sides, t.child[s][n] # Null
    PROVE  /\ t.child[s][n] \in Keys /\ t.child[s][n] # n /\ t.parent[t.child[s][n]] = n
           /\ n \in d[t.root] /\ t.child[s][n] \in d[t.root] /\ t.child[s][n] # t.root
           /\ t.child[s][n] # t.child[Other(s)][n] /\ t.child[s][n] \in d[n]
           /\ \A x \in Keys, z \in Sides : t.child[z][x] = t.child[s][n] => x = n /\ z = s
  <1> DEFINE c == t.child[s][n]
  <1>1. c \in Keys /\ t.parent[c] = n /\ n # Null /\ c \in d[c]
    BY NullIsNoKey, TreeTypes, BelowFacts DEF Tree, LinksAgree
  <1>2. c # n /\ Toward(c, n) = s /\ c \in d[n]
    BY <1>1, BelowFacts DEF Tree, IsSorted
  <1>3. n \in d[t.root] /\ c \in d[t.root] /\ c # t.root
    BY <1>1 DEF Tree, LinksAgree
  <1>4. \A x \in Keys, z \in Sides : t.child[z][x] = c => x = n
    BY <1>1 DEF Tree, LinksAgree
  <1>5. \A z \in Sides : t.child[z][n] = c => z = s
    BY <1>1, <1>2 DEF Tree, IsSorted
  <1> QED
    BY <1>1, <1>2, <1>3, <1>4, <1>5, SideFacts

(* The updates of single fields                                            *)
LEMMA RelinkIs ==
    ASSUME NEW t \in Trees, NEW p \in Pointers, NEW n \in Keys, NEW m \in Pointers
    PROVE  /\ Relink(t, p, n, m) \in Trees
           /\ Relink(t, p, n, m).color = t.color /\ Relink(t, p, n, m).parent = t.parent
           /\ Relink(t, p, n, m).root = IF p = Null THEN m ELSE t.root
           /\ \A x \in Keys, z \in Sides : Relink(t, p, n, m).child[z][x] =
                IF x = p /\ z = SideOf(t, p, n) THEN m ELSE t.child[z][x]
  <1>1. CASE p = Null
    BY <1>1, NullIsNoKey DEF Relink, Trees
  <1>2. CASE p # Null
    <2>1. p \in Keys /\ SideOf(t, p, n) \in Sides
      BY <1>2 DEF Pointers, SideOf, Sides
    <2> QED
      BY <1>2, <2>1 DEF Relink, Trees
  <1> QED
    BY <1>1, <1>2

LEMMA SetParentIs ==
    ASSUME NEW t \in Trees, NEW n \in Pointers, NEW p \in Pointers
    PROVE  /\ SetParent(t, n, p) \in Trees
           /\ SetParent(t, n, p).color = t.color /\ SetParent(t, n, p).root = t.root
           /\ SetParent(t, n, p).child = t.child
           /\ \A x \in Keys : SetParent(t, n, p).parent[x] = IF x = n THEN p ELSE t.parent[x]
  BY NullIsNoKey DEF SetParent, Trees, Pointers

LEMMA PaintIs ==
    ASSUME NEW t \in Trees, NEW n \in Pointers, NEW c \in {"red", "black"}
    PROVE  /\ Paint(t, n, c) \in Trees
           /\ Paint(t, n, c).root = t.root /\ Paint(t, n, c).parent = t.parent
           /\ Paint(t, n, c).child = t.child
           /\ \A x \in Keys : Paint(t, n, c).color[x] = IF x = n THEN c ELSE t.color[x]
  BY NullIsNoKey DEF Paint, Trees, Pointers

LEMMA RotateIs ==
    ASSUME NEW t, NEW d, Tree(t, d), NEW n \in Keys, NEW s \in Sides,
           NEW m, m = t.child[Other(s)][n], m # Null,
           NEW b, b = t.child[s][m], NEW p, p = t.parent[n]
    PROVE  /\ Rotate(t, s, n) \in Trees
           /\ Rotate(t, s, n).color = t.color
           /\ Rotate(t, s, n).root = IF p = Null THEN m ELSE t.root
           /\ \A x \in Keys : Rotate(t, s, n).parent[x] =
                IF x = n THEN m ELSE IF x = m THEN p ELSE IF x = b THEN n ELSE t.parent[x]
           /\ \A x \in Keys, z \in Sides : Rotate(t, s, n).child[z][x] =
                IF x = m /\ z = s THEN n
                ELSE IF x = n /\ z = Other(s) THEN b
                ELSE IF t.child[z][x] = n THEN m
                ELSE t.child[z][x]
  <1> DEFINE raised == Relink(t, p, n, m)
             lowered == [raised EXCEPT !.child[Other(s)][n] = b, !.child[s][m] = n]
             t1 == SetParent(lowered, b, n)
             t2 == SetParent(t1, m, p)
             t3 == SetParent(t2, n, m)
  <1>1. /\ t \in Trees /\ m \in Keys /\ m # n /\ b \in Pointers /\ p \in Pointers
        /\ n \in Pointers /\ m \in Pointers
        /\ s \in Sides /\ Other(s) \in Sides /\ Other(s) # s
    BY ChildFacts, TreeTypes, SideFacts DEF Tree, Pointers
  <1>2. Rotate(t, s, n) = t3
    BY DEF Rotate
  <1>3. /\ raised \in Trees /\ raised.color = t.color /\ raised.parent = t.parent
        /\ raised.root = IF p = Null THEN m ELSE t.root
        /\ \A x \in Keys, z \in Sides : raised.child[z][x] =
             IF x = p /\ z = SideOf(t, p, n) THEN m ELSE t.child[z][x]
    <2>1. t \in Trees /\ p \in Pointers /\ n \in Keys /\ m \in Pointers
      BY <1>1
    <2>2. raised \in Trees /\ raised.color = t.color /\ raised.parent = t.parent
      BY <2>1, RelinkIs
    <2>3. raised.root = IF p = Null THEN m ELSE t.root
      BY <2>1, RelinkIs
    <2>4. \A x \in Keys, z \in Sides : raised.child[z][x] =
             IF x = p /\ z = SideOf(t, p, n) THEN m ELSE t.child[z][x]
      BY ONLY <2>1, RelinkIs
    <2> HIDE DEF raised
    <2> QED
      BY <2>2, <2>3, <2>4
  <1>4. /\ lowered \in Trees /\ lowered.color = t.color /\ lowered.parent = t.parent
        /\ lowered.root = raised.root
        /\ \A x \in Keys, z \in Sides : lowered.child[z][x] =
             IF x = m /\ z = s THEN n ELSE IF x = n /\ z = Other(s) THEN b ELSE raised.child[z][x]
    <2> HIDE DEF raised
    <2> QED
      BY ONLY <1>1, <1>3 DEF Trees
  <1> HIDE DEF raised, lowered
  <1>5. /\ t1 \in Trees /\ t1.color = t.color /\ t1.root = raised.root /\ t1.child = lowered.child
        /\ \A x \in Keys : t1.parent[x] = IF x = b THEN n ELSE t.parent[x]
    <2>1. lowered \in Trees /\ b \in Pointers /\ n \in Pointers
      BY <1>1, <1>4
    <2>2. /\ t1 \in Trees /\ t1.color = lowered.color /\ t1.root = lowered.root /\ t1.child = lowered.child
          /\ \A x \in Keys : t1.parent[x] = IF x = b THEN n ELSE lowered.parent[x]
      BY ONLY <2>1, SetParentIs
    <2> HIDE DEF t1
    <2> QED
      BY <1>4, <2>2
  <1> HIDE DEF t1
  <1>6. /\ t2 \in Trees /\ t2.color = t.color /\ t2.root = raised.root /\ t2.child = lowered.child
        /\ \A x \in Keys : t2.parent[x] = IF x = m THEN p ELSE t1.parent[x]
    <2>1. t1 \in Trees /\ m \in Pointers /\ p \in Pointers
      BY <1>1, <1>5
    <2>2. /\ t2 \in Trees /\ t2.color = t1.color /\ t2.root = t1.root /\ t2.child = t1.child
          /\ \A x \in Keys : t2.parent[x] = IF x = m THEN p ELSE t1.parent[x]
      BY ONLY <2>1, SetParentIs
    <2> HIDE DEF t2
    <2> QED
      BY <1>5, <2>2
  <1> HIDE DEF t2
  <1>7. /\ t3 \in Trees /\ t3.color = t.color /\ t3.root = raised.root /\ t3.child = lowered.child
        /\ \A x \in Keys : t3.parent[x] = IF x = n THEN m ELSE t2.parent[x]
    <2>1. t2 \in Trees /\ n \in Pointers /\ m \in Pointers
      BY <1>1, <1>6
    <2>2. /\ t3 \in Trees /\ t3.color = t2.color /\ t3.root = t2.root /\ t3.child = t2.child
          /\ \A x \in Keys : t3.parent[x] = IF x = n THEN m ELSE t2.parent[x]
      BY <2>1, SetParentIs
    <2> HIDE DEF t3
    <2> QED
      BY <1>6, <2>2
  <1> HIDE DEF t3
  <1>8. \A x \in Keys, z \in Sides : t.child[z][x] = n <=> x = p /\ z = SideOf(t, p, n)
    <2>1. \A x \in Keys, z \in Sides : t.child[z][x] = n => x = p
      BY NullIsNoKey DEF Tree, LinksAgree
    <2> QED
      BY <2>1, <1>1, SideOfIs, NullIsNoKey DEF Pointers
  <1>9. \A x \in Keys, z \in Sides : t3.child[z][x] =
          IF x = m /\ z = s THEN n
          ELSE IF x = n /\ z = Other(s) THEN b
          ELSE IF t.child[z][x] = n THEN m
          ELSE t.child[z][x]
    BY <1>3, <1>4, <1>7, <1>8
  <1>10. \A x \in Keys : t3.parent[x] =
           IF x = n THEN m ELSE IF x = m THEN p ELSE IF x = b THEN n ELSE t.parent[x]
    BY <1>5, <1>6, <1>7
  <1> QED
    BY <1>2, <1>3, <1>7, <1>9, <1>10

(* After a rotation n and m have changed places in d.                      *)
Turned(t, d, s, n) ==
    [d EXCEPT ![n] = {n} \cup d[t.child[s][n]] \cup d[t.child[s][t.child[Other(s)][n]]],
              ![t.child[Other(s)][n]] = d[n]]

LEMMA RotateKeepsTree ==
    ASSUME NEW t, NEW d, Tree(t, d), NEW n \in Keys, NEW s \in Sides, t.child[Other(s)][n] # Null
    PROVE  /\ Tree(Rotate(t, s, n), Turned(t, d, s, n))
           /\ Turned(t, d, s, n)[Rotate(t, s, n).root] = d[t.root]
  <1> DEFINE o == Other(s)
             m == t.child[o][n]
             b == t.child[s][m]
             c == t.child[s][n]
             f == t.child[o][m]
             p == t.parent[n]
             t2 == Rotate(t, s, n)
             d2 == Turned(t, d, s, n)
  <1>1. /\ t \in Trees /\ m \in Keys /\ m # n /\ m # Null /\ b \in Pointers /\ c \in Pointers
        /\ p \in Pointers /\ f \in Pointers /\ o \in Sides /\ o # s /\ Other(o) = s
        /\ n # Null /\ b # n /\ c # n /\ c # m /\ b # m /\ f # m /\ f # n
        /\ n \in d[t.root] /\ m \in d[t.root] /\ m # t.root /\ t.parent[m] = n
        /\ p # m /\ p # n
    <2>1. /\ t \in Trees /\ m \in Keys /\ m # n /\ o \in Sides /\ o # s /\ Other(o) = s
          /\ n \in d[t.root] /\ m \in d[t.root] /\ m # t.root /\ t.parent[m] = n
      BY ChildFacts, SideFacts DEF Tree
    <2>2. b \in Pointers /\ c \in Pointers /\ p \in Pointers /\ f \in Pointers
      BY <2>1, TreeTypes
    <2>3. n \notin d[m] /\ n \notin d[c] /\ d[b] \subseteq d[m] /\ d[f] \subseteq d[m]
          /\ m \notin d[b] /\ m \notin d[f] /\ \A x \in Keys : x \in d[x]
      BY <2>1, BelowFacts
    <2>4. b # n /\ c # n /\ b # m /\ f # m /\ f # n
      BY <2>1, <2>3
    <2>5. c # m
      BY <2>1, ChildFacts, NullIsNoKey
    <2>6. n # Null /\ m # Null
      BY <2>1, NullIsNoKey
    <2>7. p # Null => \E z \in Sides : t.child[z][p] = n
      BY DEF Tree, LinksAgree
    <2>8. ASSUME p # Null PROVE p # m /\ p # n
      <3>1. PICK z \in Sides : t.child[z][p] = n
        BY <2>7, <2>8
      <3>2. p \in Keys
        BY <2>2, <2>8 DEF Pointers
      <3>3. p \notin d[n] /\ d[n] \subseteq d[p]
        BY <3>1, <3>2, BelowFacts
      <3> QED
        BY <2>3, <3>3
    <2>9. p # m /\ p # n
      BY <2>6, <2>8
    <2> QED
      BY <2>1, <2>2, <2>4, <2>5, <2>6, <2>9
  <1>2. /\ t2 \in Trees /\ t2.color = t.color
        /\ t2.root = IF p = Null THEN m ELSE t.root
    BY <1>1, RotateIs
  <1>3. \A x \in Keys : t2.parent[x] =
          IF x = n THEN m ELSE IF x = m THEN p ELSE IF x = b THEN n ELSE t.parent[x]
    BY <1>1, RotateIs
  <1>4. \A x \in Keys, z \in Sides : t2.child[z][x] =
          IF x = m /\ z = s THEN n
          ELSE IF x = n /\ z = o THEN b
          ELSE IF t.child[z][x] = n THEN m
          ELSE t.child[z][x]
    BY <1>1, RotateIs
  <1>5. /\ d2 \in [Pointers -> SUBSET Keys] /\ d2[Null] = {}
        /\ d2[n] = {n} \cup d[c] \cup d[b] /\ d2[m] = d[n]
        /\ \A x \in Pointers : x # n /\ x # m => d2[x] = d[x]
    <2>1. d \in [Pointers -> SUBSET Keys] /\ d[Null] = {} /\ n \in Pointers /\ m \in Pointers
          /\ {n} \cup d[c] \cup d[b] \in SUBSET Keys /\ d[n] \in SUBSET Keys
      BY <1>1 DEF Tree, IsBelow, Pointers
    <2>2. d2 = [d EXCEPT ![n] = {n} \cup d[c] \cup d[b], ![m] = d[n]]
      BY DEF Turned
    <2> DEFINE X == {n} \cup d[c] \cup d[b]
               Y == d[n]
    <2> HIDE DEF d2, X, Y
    <2>3. X \in SUBSET Keys /\ Y \in SUBSET Keys /\ d2 = [d EXCEPT ![n] = X, ![m] = Y]
      BY <2>1, <2>2 DEF X, Y
    <2>4. /\ d2 \in [Pointers -> SUBSET Keys] /\ d2[Null] = {} /\ d2[n] = X /\ d2[m] = Y
          /\ \A x \in Pointers : x # n /\ x # m => d2[x] = d[x]
      BY <1>1, <2>1, <2>3 DEF Pointers
    <2> QED
      BY <2>4 DEF X, Y
  <1> HIDE DEF d2, t2
  <1>6. \A x \in Keys, z \in Sides : x # n /\ x # m =>
          /\ t2.child[z][x] = IF t.child[z][x] = n THEN m ELSE t.child[z][x]
          /\ d2[t2.child[z][x]] = d[t.child[z][x]]
    <2> SUFFICES ASSUME NEW x \in Keys, NEW z \in Sides, x # n, x # m
                 PROVE  /\ t2.child[z][x] = IF t.child[z][x] = n THEN m ELSE t.child[z][x]
                        /\ d2[t2.child[z][x]] = d[t.child[z][x]]
      OBVIOUS
    <2>1. t2.child[z][x] = IF t.child[z][x] = n THEN m ELSE t.child[z][x]
      BY <1>4
    <2>2. t.child[z][x] # m /\ t.child[z][x] \in Pointers
      BY <1>1, TreeTypes DEF Tree, LinksAgree
    <2> QED
      BY <1>5, <2>1, <2>2
  <1>7. /\ t2.child[s][n] = c /\ t2.child[o][n] = b
        /\ t2.child[s][m] = n /\ t2.child[o][m] = f
        /\ d2[c] = d[c] /\ d2[b] = d[b] /\ d2[f] = d[f]
    BY <1>1, <1>4, <1>5
  <1>8. /\ d[n] = {n} \cup d[c] \cup d[m] /\ d[m] = {m} \cup d[b] \cup d[f]
        /\ d[n] \subseteq Keys
    <2>1. Tree(t, d) /\ n \in Keys /\ s \in Sides /\ o = Other(s)
          /\ c = t.child[s][n] /\ m = t.child[o][n] /\ b = t.child[s][m] /\ f = t.child[o][m]
      OBVIOUS
    <2> HIDE DEF o, c, m, b, f
    <2>2. d[n] = {n} \cup d[c] \cup d[m]
      BY ONLY <2>1, BelowFacts
    <2>3. Other(o) = s /\ o \in Sides /\ m \in Keys
      BY <1>1
    <2>4. d[m] = {m} \cup d[b] \cup d[f]
      BY ONLY <2>1, <2>3, BelowFacts
    <2>5. d[n] \subseteq Keys
      BY ONLY <2>1, BelowFacts DEF Pointers
    <2> QED
      BY <2>2, <2>4, <2>5
  <1>9. IsBelow(t2, d2)
    <2>1. ASSUME NEW x \in Keys
          PROVE  d2[x] = {x} \cup d2[t2.child["left"][x]] \cup d2[t2.child["right"][x]]
      <3>1. d2[x] = {x} \cup d2[t2.child[s][x]] \cup d2[t2.child[o][x]]
        <4>1. CASE x = n
          BY <1>5, <1>7, <4>1
        <4>2. CASE x = m
          BY <1>5, <1>7, <1>8, <4>2
        <4>3. CASE x # n /\ x # m
          <5>1. d[x] = {x} \cup d[t.child[s][x]] \cup d[t.child[o][x]]
            BY BelowFacts
          <5>2. d2[x] = d[x]
            BY <1>5, <4>3 DEF Pointers
          <5> QED
            BY <1>1, <1>6, <4>3, <5>1, <5>2
        <4> QED
          BY <4>1, <4>2, <4>3
      <3> QED
        BY <3>1 DEF Sides, Other
    <2>2. ASSUME NEW x \in Keys PROVE IsFiniteSet(d2[x])
      <3>1. d2[n] \subseteq d[n] /\ d2[m] = d[n] /\ (x # n /\ x # m => d2[x] = d[x])
        BY <1>5, <1>8 DEF Pointers
      <3>2. IsFiniteSet(d[n]) /\ IsFiniteSet(d[x])
        BY DEF Tree, IsBelow
      <3>3. IsFiniteSet(d2[n])
        BY <3>1, <3>2, FS_Subset
      <3> QED
        BY <3>1, <3>2, <3>3
    <2> QED
      BY <1>5, <2>1, <2>2 DEF IsBelow
  <1>10. IsSorted(t2, d2)
    <2>1. /\ \A e \in d[c] : Toward(e, n) = s /\ e # n
          /\ \A e \in d[m] : Toward(e, n) = o /\ e # n
          /\ \A e \in d[b] : Toward(e, m) = s /\ e # m
          /\ \A e \in d[f] : Toward(e, m) = o /\ e # m
      BY <1>1 DEF Tree, IsSorted
    <2>2. /\ d[b] \subseteq d[m] /\ m \in d[m] /\ d[c] \subseteq Keys
      BY <1>1, <1>8, BelowFacts
    <2>3. Toward(n, m) = s
      <3>1. n \in Keys /\ m \in Keys /\ o \in Sides /\ Other(o) = s
        BY <1>1
      <3>2. Toward(m, n) = o /\ m # n
        BY <2>1, <2>2
      <3> QED
        BY ONLY <3>1, <3>2, OrderFacts
    <2>4. \A e \in d[c] : Toward(e, m) = s /\ e # m
      <3> SUFFICES ASSUME NEW e \in d[c] PROVE Toward(e, m) = s /\ e # m
        OBVIOUS
      <3>1. e \in Keys /\ n \in Keys /\ s \in Sides /\ Toward(e, n) = s /\ e # n
        BY <2>1, <2>2
      <3> QED
        BY ONLY <1>1, <2>3, <3>1, OrderFacts
    <2> SUFFICES ASSUME NEW x \in Keys, NEW z \in Sides, NEW e \in d2[t2.child[z][x]]
                 PROVE  Toward(e, x) = z /\ e # x
      BY DEF IsSorted
    <2>5. z = s \/ z = o
      BY SideFacts
    <2>6. CASE x = n
      BY ONLY <1>7, <2>1, <2>2, <2>5, <2>6
    <2>7. CASE x = m
      BY <1>1, <1>5, <1>7, <2>1, <2>3, <2>4, <2>5, <2>7
    <2>8. CASE x # n /\ x # m
      BY <1>6, <2>8 DEF Tree, IsSorted
    <2> QED
      BY <2>6, <2>7, <2>8
  <1>11. d2[t2.root] = d[t.root] /\ (p = Null => n = t.root) /\ (p # Null => t.root # n)
    <2>1. CASE p = Null
      <3>1. n = t.root
        BY <1>1, <2>1 DEF Tree, LinksAgree
      <3> QED
        BY <1>2, <1>5, <2>1, <3>1
    <2>2. CASE p # Null
      <3>1. t.root # n /\ t.root \in Pointers
        BY <1>1, <2>2, TreeTypes DEF Tree, LinksAgree
      <3> QED
        BY <1>1, <1>2, <1>5, <2>2, <3>1
    <2> QED
      BY <2>1, <2>2
  <1>12. LinksAgree(t2, d2)
    <2>1. \A x \in Keys, z \in Sides :
            /\ t.child[z][x] # Null => t.parent[t.child[z][x]] = x
            /\ t.child[z][x] = m => x = n /\ z = o
            /\ t.child[z][x] = b /\ b # Null => x = m /\ z = s
      BY <1>1, ChildFacts
    <2>2. b # Null => b \in Keys /\ b \in d[t.root] /\ t.parent[b] = m
      BY <1>1, ChildFacts
    <2>3. ASSUME NEW x \in Keys, NEW z \in Sides, t2.child[z][x] # Null
          PROVE  t2.parent[t2.child[z][x]] = x
      <3>1. CASE x = m /\ z = s
        BY <1>1, <1>3, <1>7, <3>1
      <3>2. CASE x = n /\ z = o
        BY <1>1, <1>3, <1>7, <2>2, <2>3, <3>2
      <3>3. CASE t.child[z][x] = n /\ ~(x = m /\ z = s) /\ ~(x = n /\ z = o)
        <4>1. x = p /\ t2.child[z][x] = m
          BY <1>1, <1>4, <2>1, <3>3
        <4> QED
          BY <1>1, <1>3, <4>1
      <3>4. CASE t.child[z][x] # n /\ ~(x = m /\ z = s) /\ ~(x = n /\ z = o)
        <4>1. t2.child[z][x] = t.child[z][x]
          BY <1>4, <3>4
        <4>2. t.child[z][x] \in Keys
          BY <2>3, <4>1, TreeTypes DEF Tree
        <4> QED
          BY <1>3, <2>1, <2>3, <3>4, <4>1, <4>2
      <3> QED
        BY <3>1, <3>2, <3>3, <3>4
    <2>4. ASSUME NEW x \in Keys, t2.parent[x] # Null
          PROVE  \E z \in Sides : t2.child[z][t2.parent[x]] = x
      <3>1. CASE x = n
        BY <1>1, <1>3, <1>7, <3>1
      <3>2. CASE x = m
        <4>1. t2.parent[x] = p /\ p # Null /\ p \in Keys
          BY <1>1, <1>3, <2>4, <3>2, TreeTypes
        <4>2. PICK z \in Sides : t.child[z][p] = n
          BY <4>1 DEF Tree, LinksAgree
        <4>3. t2.child[z][p] = m
          BY <1>1, <1>6, <4>1, <4>2
        <4> QED
          BY <3>2, <4>1, <4>3
      <3>3. CASE x = b
        BY <1>1, <1>3, <1>7, <3>3
      <3>4. CASE x # n /\ x # m /\ x # b
        <4>1. t2.parent[x] = t.parent[x] /\ t.parent[x] \in Keys
          BY <1>3, <2>4, <3>4, TreeTypes DEF Tree
        <4>2. PICK z \in Sides : t.child[z][t.parent[x]] = x
          BY <2>4, <4>1 DEF Tree, LinksAgree
        <4>3. t2.child[z][t.parent[x]] = x
          BY <1>4, <3>4, <4>1, <4>2
        <4> QED
          BY <4>1, <4>3
      <3> QED
        BY <3>1, <3>2, <3>3, <3>4
    <2>5. t2.root # Null => t2.parent[t2.root] = Null
      <3>1. CASE p = Null
        BY <1>1, <1>2, <1>3, <3>1
      <3>2. CASE p # Null /\ t.root # Null
        <4>1. t.root \in Keys /\ t.root # n /\ t.root # m /\ t.parent[t.root] = Null
          BY <1>1, <1>11, <3>2, TreeTypes DEF Tree, LinksAgree
        <4>2. t.root # b
          BY <1>1, <2>2, <3>2, <4>1
        <4> QED
          BY <1>2, <1>3, <3>2, <4>1, <4>2
      <3> QED
        BY <1>2, <3>1, <3>2
    <2>6. ASSUME NEW x \in d2[t2.root], x # t2.root
          PROVE  t2.parent[x] # Null
      <3>1. x \in Keys /\ x \in d[t.root]
        BY <1>11, <2>6, BelowFacts, TreeTypes DEF Tree
      <3>2. CASE x = m
        BY <1>1, <1>2, <1>3, <2>6, <3>2
      <3>3. CASE x = n \/ x = b
        BY <1>1, <1>3, <3>1, <3>3
      <3>4. CASE x # m /\ x # n /\ x # b
        <4>1. x # t.root
          BY <1>2, <1>11, <2>6, <3>4
        <4> QED
          BY <1>3, <3>1, <3>4, <4>1 DEF Tree, LinksAgree
      <3> QED
        BY <3>2, <3>3, <3>4
    <2>7. ASSUME NEW x \in Keys \ d2[t2.root]
          PROVE  t2.parent[x] = Null /\ \A z \in Sides : t2.child[z][x] = Null
      <3>1. x \notin d[t.root] /\ x # n /\ x # m /\ x # b
        BY <1>1, <1>11, <2>2, <2>7, NullIsNoKey
      <3>2. t.parent[x] = Null /\ \A z \in Sides : t.child[z][x] = Null
        BY <3>1 DEF Tree, LinksAgree
      <3> QED
        BY <1>1, <1>3, <1>4, <3>1, <3>2
    <2> QED
      BY <2>3, <2>4, <2>5, <2>6, <2>7 DEF LinksAgree
  <1>13. t2 \in Trees
    BY <1>2
  <1> QED
    BY <1>9, <1>10, <1>11, <1>12, <1>13 DEF Tree, t2, d2

-----------------------------------------------------------------------------
(* RB_INSERT: k is below p, and above nothing.                             *)
Grown(d, k, p) ==
    [x \in Pointers |-> IF x = k THEN {k} ELSE IF p \in d[x] THEN d[x] \cup {k} ELSE d[x]]

LEMMA LeafIs ==
    ASSUME NEW t, NEW d, Tree(t, d), NEW k \in Keys, k \notin d[t.root],
           NEW p, p = ParentFor(t, k)
    PROVE  /\ p = Null <=> t.root = Null
           /\ p # Null => p \in Hosts(t, d, k, t.root) /\ p \in Keys
           /\ Leaf(t, k) \in Trees
           /\ Leaf(t, k).root = IF p = Null THEN k ELSE t.root
           /\ \A x \in Keys : /\ Leaf(t, k).parent[x] = IF x = k THEN p ELSE t.parent[x]
                              /\ Leaf(t, k).color[x] = IF x = k THEN "red" ELSE t.color[x]
           /\ \A x \in Keys, z \in Sides : Leaf(t, k).child[z][x] =
                IF x = k THEN Null
                ELSE IF x = p /\ z = Toward(k, p) THEN k ELSE t.child[z][x]
  <1> DEFINE set == [t EXCEPT !.parent[k] = p, !.color[k] = "red",
                              !.child["left"][k] = Null, !.child["right"][k] = Null]
             t2 == IF p = Null THEN [set EXCEPT !.root = k]
                   ELSE [set EXCEPT !.child[Toward(k, p)][p] = k]
  <1>1. /\ t \in Trees /\ t.root \in Pointers /\ t.root # k /\ k # Null
        /\ Null \in Pointers /\ k \in Pointers
    BY BelowFacts, TreeTypes, NullIsNoKey DEF Tree, Pointers
  <1>2. /\ p = Null <=> t.root = Null
        /\ p # Null => p \in Hosts(t, d, k, t.root) /\ p \in Keys /\ p # k
    <2>1. CASE t.root = Null
      BY <2>1, ParentForIs
    <2>2. CASE t.root # Null
      <3>1. p \in Hosts(t, d, k, t.root)
        BY <2>2, ParentForIs
      <3>2. p \in d[t.root]
        BY <3>1 DEF Hosts
      <3>3. p \in Keys
        BY <1>1, <3>2, BelowFacts
      <3> QED
        BY <2>2, <3>1, <3>2, <3>3, NullIsNoKey
    <2> QED
      BY <2>1, <2>2
  <1>3. p \in Pointers
    BY <1>2 DEF Pointers
  <1>4. /\ set \in Trees /\ set.root = t.root
        /\ \A x \in Keys : /\ set.parent[x] = IF x = k THEN p ELSE t.parent[x]
                           /\ set.color[x] = IF x = k THEN "red" ELSE t.color[x]
        /\ \A x \in Keys, z \in Sides : set.child[z][x] = IF x = k THEN Null ELSE t.child[z][x]
    BY ONLY <1>1, <1>3 DEF Trees, Sides
  <1>5. Leaf(t, k) = t2
    BY DEF Leaf
  <1> HIDE DEF set
  <1>6. CASE p = Null
    <2>1. t2 = [set EXCEPT !.root = k]
      BY <1>6
    <2>2. t2 \in Trees /\ t2.root = k /\ t2.parent = set.parent /\ t2.color = set.color
          /\ t2.child = set.child
      BY <1>1, <1>4, <2>1 DEF Trees
    <2> HIDE DEF t2
    <2> QED
      BY <1>2, <1>4, <1>5, <1>6, <2>2, NullIsNoKey
  <1>7. CASE p # Null
    <2>1. t2 = [set EXCEPT !.child[Toward(k, p)][p] = k] /\ Toward(k, p) \in Sides /\ p \in Keys
      BY <1>2, <1>7, SideFacts
    <2>2. /\ t2 \in Trees /\ t2.root = set.root /\ t2.parent = set.parent /\ t2.color = set.color
          /\ \A x \in Keys, z \in Sides : t2.child[z][x] =
               IF x = p /\ z = Toward(k, p) THEN k ELSE set.child[z][x]
      BY ONLY <1>1, <1>4, <2>1 DEF Trees
    <2> HIDE DEF t2
    <2>3. \A x \in Keys, z \in Sides : t2.child[z][x] =
                IF x = k THEN Null
                ELSE IF x = p /\ z = Toward(k, p) THEN k ELSE t.child[z][x]
      BY <1>2, <1>4, <1>7, <2>2
    <2> QED
      BY <1>2, <1>4, <1>5, <1>7, <2>2, <2>3
  <1> QED
    BY <1>6, <1>7

(* A key outside the tree                                                  *)
LEMMA OutsideFacts ==
    ASSUME NEW t, NEW d, Tree(t, d), NEW k \in Keys, k \notin d[t.root]
    PROVE  /\ d[k] = {k} /\ t.parent[k] = Null /\ t.root # k
           /\ \A z \in Sides : t.child[z][k] = Null
           /\ \A x \in Keys : x # k => k \notin d[x]
           /\ \A x \in Keys, z \in Sides : t.child[z][x] # k
  <1>1. \A n \in Keys : n # k => k \notin d[n]
    <2> SUFFICES ASSUME NEW n \in Keys, n # k PROVE k \notin d[n]
      OBVIOUS
    <2>1. CASE n \in d[t.root]
      BY <2>1, BelowBelow, TreeTypes DEF Tree
    <2>2. CASE n \notin d[t.root]
      <3>1. \A s \in Sides : t.child[s][n] = Null
        BY <2>2 DEF Tree, LinksAgree
      <3> QED
        BY <3>1 DEF Tree, IsBelow, Sides
    <2> QED
      BY <2>1, <2>2
  <1>2. t.parent[k] = Null /\ \A s \in Sides : t.child[s][k] = Null
    BY DEF Tree, LinksAgree
  <1>3. d[k] = {k}
    BY <1>2 DEF Tree, IsBelow, Sides
  <1>4. t.root # k
    BY BelowFacts
  <1>5. \A x \in Keys, z \in Sides : t.child[z][x] # k
    BY ChildFacts, NullIsNoKey
  <1> QED
    BY <1>1, <1>2, <1>3, <1>4, <1>5

LEMMA LeafKeepsTree ==
    ASSUME NEW t, NEW d, Tree(t, d), NEW k \in Keys, k \notin d[t.root],
           NEW p, p = ParentFor(t, k), NEW d2, d2 = Grown(d, k, p)
    PROVE  /\ Tree(Leaf(t, k), d2)
           /\ d2[Leaf(t, k).root] = d[t.root] \cup {k}
  <1> DEFINE t2 == Leaf(t, k)
             s == Toward(k, p)
  <1>1. /\ t2 \in Trees
        /\ t2.root = IF p = Null THEN k ELSE t.root
        /\ \A x \in Keys : t2.parent[x] = IF x = k THEN p ELSE t.parent[x]
        /\ \A x \in Keys, z \in Sides : t2.child[z][x] =
             IF x = k THEN Null ELSE IF x = p /\ z = s THEN k ELSE t.child[z][x]
    BY LeafIs
  <1>2. /\ p = Null <=> t.root = Null
        /\ p # Null => p \in Keys /\ p \in d[t.root] /\ t.child[s][p] = Null
        /\ p # Null => \A m \in d[t.root] : m # p => Toward(k, m) = Toward(p, m)
    BY LeafIs DEF Hosts
  <1>3. s \in Sides
    BY SideFacts
  <1> HIDE DEF t2, s
  <1>4. /\ d[k] = {k} /\ t.root # k
        /\ \A z \in Sides : t.child[z][k] = Null
        /\ \A x \in Keys : x # k => k \notin d[x]
        /\ \A x \in Keys, z \in Sides : t.child[z][x] # k
        /\ p # k /\ k # Null
    BY OutsideFacts, <1>2, NullIsNoKey
  <1>5. /\ d \in [Pointers -> SUBSET Keys] /\ d[Null] = {}
        /\ t.root \in Pointers /\ \A x \in Keys, z \in Sides : t.child[z][x] \in Pointers
    BY TreeTypes DEF Tree, IsBelow
  <1>6. p \notin d[Null] /\ Null \in Pointers /\ k \in Pointers /\ p \notin d[k]
    BY <1>4, <1>5 DEF Pointers
  <1>7. /\ d2 \in [Pointers -> SUBSET Keys]
        /\ d2[Null] = {} /\ d2[k] = {k}
        /\ \A x \in Pointers : x # k => d2[x] = IF p \in d[x] THEN d[x] \cup {k} ELSE d[x]
    BY <1>4, <1>5, <1>6 DEF Grown
  <1>8. d2[t2.root] = d[t.root] \cup {k}
    BY <1>1, <1>2, <1>4, <1>5, <1>7
  <1>9. IsBelow(t2, d2)
    <2>1. ASSUME NEW x \in Keys
          PROVE  d2[x] = {x} \cup d2[t2.child["left"][x]] \cup d2[t2.child["right"][x]]
      <3>1. CASE x = k
        BY <1>1, <1>7, <3>1 DEF Sides
      <3>2. CASE x # k /\ x = p
        <4>1. /\ d[x] = {x} \cup d[t.child[s][x]] \cup d[t.child[Other(s)][x]]
              /\ p \notin d[t.child[Other(s)][x]] /\ p \in d[x]
              /\ Other(s) \in Sides /\ Other(s) # s
          BY <1>3, <3>2, BelowFacts, SideFacts
        <4>2. d[t.child[s][x]] = {} /\ d2[x] = d[x] \cup {k}
          BY <1>2, <1>5, <1>7, <3>2, <4>1, NullIsNoKey DEF Pointers
        <4>3. d2[t2.child[s][x]] = {k} /\ t2.child[Other(s)][x] = t.child[Other(s)][x]
          BY <1>1, <1>3, <1>7, <3>2, <4>1
        <4>4. d2[t2.child[Other(s)][x]] = d[t.child[Other(s)][x]]
          BY <1>4, <1>5, <1>7, <3>2, <4>1, <4>3
        <4>5. d2[x] = {x} \cup d2[t2.child[s][x]] \cup d2[t2.child[Other(s)][x]]
          BY <4>1, <4>2, <4>3, <4>4
        <4> QED
          BY <1>3, <4>5 DEF Sides, Other
      <3>3. CASE x # k /\ x # p
        <4>1. \A z \in Sides : /\ t2.child[z][x] = t.child[z][x]
                               /\ t.child[z][x] \in Pointers /\ t.child[z][x] # k
          BY <1>1, <1>4, <1>5, <3>3
        <4>2. \A z \in Sides : d2[t2.child[z][x]] =
                IF p \in d[t.child[z][x]] THEN d[t.child[z][x]] \cup {k} ELSE d[t.child[z][x]]
          BY <1>7, <4>1
        <4>3. d[x] = {x} \cup d[t.child["left"][x]] \cup d[t.child["right"][x]]
          BY DEF Tree, IsBelow
        <4>4. d2[x] = IF p \in d[x] THEN d[x] \cup {k} ELSE d[x]
          BY <1>7, <3>3 DEF Pointers
        <4> QED
          BY <3>3, <4>2, <4>3, <4>4 DEF Sides
      <3> QED
        BY <3>1, <3>2, <3>3
    <2>2. ASSUME NEW x \in Keys PROVE IsFiniteSet(d2[x])
      <3>1. IsFiniteSet(d[x]) /\ IsFiniteSet({k})
        BY FS_Singleton DEF Tree, IsBelow
      <3>2. IsFiniteSet(d[x] \cup {k})
        BY <3>1, FS_Union
      <3> QED
        BY <1>7, <3>1, <3>2 DEF Pointers
    <2> QED
      BY <1>7, <2>1, <2>2 DEF IsBelow
  <1>10. IsSorted(t2, d2)
    <2> SUFFICES ASSUME NEW x \in Keys, NEW z \in Sides, NEW e \in d2[t2.child[z][x]]
                 PROVE  Toward(e, x) = z /\ e # x
      BY DEF IsSorted
    <2>1. CASE x = k
      BY <1>1, <1>7, <2>1
    <2>2. CASE x # k /\ x = p /\ z = s
      BY <1>1, <1>7, <2>2 DEF s
    <2>3. CASE x # k /\ ~(x = p /\ z = s)
      <3> DEFINE c == t.child[z][x]
      <3>1. t2.child[z][x] = c /\ c \in Pointers /\ c # k
        BY <1>1, <1>4, <1>5, <2>3
      <3>2. d2[c] = IF p \in d[c] THEN d[c] \cup {k} ELSE d[c]
        BY <1>7, <3>1
      <3>3. CASE e \in d[c]
        BY <3>3 DEF Tree, IsSorted
      <3>4. CASE e = k /\ p \in d[c]
        <4>1. Toward(p, x) = z /\ p # x
          BY <3>4 DEF Tree, IsSorted
        <4>2. c # Null /\ p # Null
          BY <1>5, <3>4, <3>1, NullIsNoKey
        <4>3. x \in d[t.root]
          BY <4>2, ChildFacts
        <4> QED
          BY <1>2, <2>3, <3>4, <4>1, <4>2, <4>3
      <3> QED
        BY <3>1, <3>2, <3>3, <3>4
    <2> QED
      BY <2>1, <2>2, <2>3
  <1>11. LinksAgree(t2, d2)
    <2>1. ASSUME NEW x \in Keys, NEW z \in Sides, t2.child[z][x] # Null
          PROVE  t2.parent[t2.child[z][x]] = x
      <3>1. CASE x = p /\ z = s
        BY <1>1, <1>4, <2>1, <3>1
      <3>2. CASE ~(x = p /\ z = s)
        <4>1. /\ t2.child[z][x] = t.child[z][x] /\ t.child[z][x] # k /\ t.child[z][x] # Null
              /\ t.child[z][x] \in Keys
          BY <1>1, <1>4, <1>5, <2>1, <3>2 DEF Pointers
        <4>2. t.parent[t.child[z][x]] = x
          BY <4>1 DEF Tree, LinksAgree
        <4> QED
          BY <1>1, <4>1, <4>2
      <3> QED
        BY <3>1, <3>2
    <2>2. ASSUME NEW x \in Keys, t2.parent[x] # Null
          PROVE  \E z \in Sides : t2.child[z][t2.parent[x]] = x
      <3>1. CASE x = k
        BY <1>1, <1>2, <1>3, <1>4, <2>2, <3>1
      <3>2. CASE x # k
        <4>1. t2.parent[x] = t.parent[x] /\ t.parent[x] \in Keys
          BY <1>1, <2>2, <3>2, TreeTypes DEF Tree
        <4>2. PICK z \in Sides : t.child[z][t.parent[x]] = x
          BY <2>2, <4>1 DEF Tree, LinksAgree
        <4>3. t.parent[x] # k /\ ~(t.parent[x] = p /\ z = s)
          BY <1>2, <1>4, <4>1, <4>2, NullIsNoKey
        <4> QED
          BY <1>1, <4>1, <4>2, <4>3
      <3> QED
        BY <3>1, <3>2
    <2>3. t2.root # Null => t2.parent[t2.root] = Null
      <3>1. t.root # Null => t.root \in Keys /\ t.parent[t.root] = Null
        BY TreeTypes DEF Tree, LinksAgree
      <3> QED
        BY <1>1, <1>2, <1>4, <3>1
    <2>4. ASSUME NEW x \in d2[t2.root], x # t2.root
          PROVE  t2.parent[x] # Null
      <3>1. x \in Keys
        BY <1>5, <1>8
      <3>2. CASE x = k
        BY <1>1, <2>4, <3>1, <3>2
      <3>3. CASE x # k
        <4>1. p # Null
          BY <1>2, <1>5, <1>8, <3>3
        <4> QED
          BY <1>1, <1>8, <2>4, <3>1, <3>3, <4>1 DEF Tree, LinksAgree
      <3> QED
        BY <3>2, <3>3
    <2>5. ASSUME NEW x \in Keys \ d2[t2.root]
          PROVE  t2.parent[x] = Null /\ \A z \in Sides : t2.child[z][x] = Null
      <3>1. x # k /\ x \notin d[t.root] /\ x # p
        BY <1>2, <1>8, NullIsNoKey
      <3> QED
        BY <1>1, <3>1 DEF Tree, LinksAgree
    <2> QED
      BY <2>1, <2>2, <2>3, <2>4, <2>5 DEF LinksAgree
  <1> QED
    BY <1>1, <1>8, <1>9, <1>10, <1>11 DEF Tree, t2

-----------------------------------------------------------------------------
(* RB_REMOVE: the only child of n takes its place.                         *)
LEMMA UnlinkIs ==
    ASSUME NEW t, NEW d, Tree(t, d), NEW n \in Keys, NEW c \in Pointers,
           NEW p, p = t.parent[n]
    PROVE  /\ Unlink(t, n, c) \in Trees
           /\ Unlink(t, n, c).color = t.color
           /\ Unlink(t, n, c).root = IF p = Null THEN c ELSE t.root
           /\ \A x \in Keys : Unlink(t, n, c).parent[x] = IF x = c THEN p ELSE t.parent[x]
           /\ \A x \in Keys, z \in Sides : Unlink(t, n, c).child[z][x] =
                IF t.child[z][x] = n THEN c ELSE t.child[z][x]
  <1> DEFINE t1 == SetParent(t, c, p)
             t2 == Relink(t1, p, n, c)
  <1>1. t \in Trees /\ p \in Pointers
    BY TreeTypes DEF Tree
  <1>2. /\ t1 \in Trees /\ t1.color = t.color /\ t1.root = t.root /\ t1.child = t.child
        /\ \A x \in Keys : t1.parent[x] = IF x = c THEN p ELSE t.parent[x]
    BY <1>1, SetParentIs
  <1>3. Unlink(t, n, c) = t2 /\ SideOf(t1, p, n) = SideOf(t, p, n)
    BY <1>2 DEF Unlink, SideOf
  <1> HIDE DEF t1
  <1>4. /\ t2 \in Trees /\ t2.color = t1.color /\ t2.parent = t1.parent
        /\ t2.root = IF p = Null THEN c ELSE t1.root
        /\ \A x \in Keys, z \in Sides : t2.child[z][x] =
             IF x = p /\ z = SideOf(t1, p, n) THEN c ELSE t1.child[z][x]
    <2>1. t1 \in Trees /\ p \in Pointers /\ n \in Keys /\ c \in Pointers
      BY <1>1, <1>2
    <2>2. t2 \in Trees /\ t2.color = t1.color /\ t2.parent = t1.parent
      BY <2>1, RelinkIs
    <2>3. t2.root = IF p = Null THEN c ELSE t1.root
      BY <2>1, RelinkIs
    <2>4. \A x \in Keys, z \in Sides : t2.child[z][x] =
             IF x = p /\ z = SideOf(t1, p, n) THEN c ELSE t1.child[z][x]
      BY ONLY <2>1, RelinkIs
    <2> HIDE DEF t2
    <2> QED
      BY <2>2, <2>3, <2>4
  <1> HIDE DEF t2
  <1>5. \A x \in Keys, z \in Sides : t.child[z][x] = n <=> x = p /\ z = SideOf(t, p, n)
    <2>1. \A x \in Keys, z \in Sides : t.child[z][x] = n => x = p
      BY NullIsNoKey DEF Tree, LinksAgree
    <2> QED
      BY <2>1, <1>1, SideOfIs, NullIsNoKey DEF Pointers
  <1> QED
    BY <1>2, <1>3, <1>4, <1>5

LEMMA ForgetIs ==
    ASSUME NEW t \in Trees, NEW n \in Keys
    PROVE  /\ Forget(t, n) \in Trees /\ Forget(t, n).root = t.root
           /\ \A x \in Keys :
                /\ Forget(t, n).parent[x] = IF x = n THEN Null ELSE t.parent[x]
                /\ Forget(t, n).color[x] = IF x = n THEN "black" ELSE t.color[x]
           /\ \A x \in Keys, z \in Sides :
                Forget(t, n).child[z][x] = IF x = n THEN Null ELSE t.child[z][x]
  BY DEF Forget, Trees, Sides, Pointers

Without(d, n) == [x \in Pointers |-> IF x = n THEN {n} ELSE d[x] \ {n}]

LEMMA UnlinkKeepsTree ==
    ASSUME NEW t, NEW d, Tree(t, d), NEW n \in d[t.root], NEW s \in Sides,
           t.child[s][n] = Null, NEW c, c = t.child[Other(s)][n],
           NEW t2, t2 = Forget(Unlink(t, n, c), n), NEW d2, d2 = Without(d, n)
    PROVE  /\ Tree(t2, d2) /\ d2[t2.root] = d[t.root] \ {n}
           /\ \A x \in Keys, z \in Sides : x # n => d2[t2.child[z][x]] = d[t.child[z][x]] \ {n}
           /\ \A x \in Keys : t2.color[x] = IF x = n THEN "black" ELSE t.color[x]
           /\ \A x \in Keys, z \in Sides : t2.child[z][x] =
                IF x = n THEN Null ELSE IF t.child[z][x] = n THEN c ELSE t.child[z][x]
           /\ c \in Pointers /\ c # n /\ c # t.root
           /\ t2.root = IF n = t.root THEN c ELSE t.root
           /\ c # Null => t2.parent[c] = t.parent[n]
           /\ \A x \in Keys : x # n /\ x # c => t2.parent[x] = t.parent[x]
  <1> DEFINE p == t.parent[n]
             u == Unlink(t, n, c)
  <1>1. /\ t \in Trees /\ n \in Keys /\ n # Null /\ Other(s) \in Sides /\ Other(s) # s
        /\ Null \in Pointers /\ t.root \in Pointers
    BY BelowFacts, TreeTypes, SideFacts, NullIsNoKey DEF Tree, Pointers
  <1>2. /\ c \in Pointers /\ c # n /\ n \notin d[c] /\ d[n] = {n} \cup d[c]
        /\ p \in Pointers /\ c # t.root
    <2>1. /\ c \in Pointers /\ n \notin d[c] /\ p \in Pointers
          /\ d[n] = {n} \cup d[Null] \cup d[c] /\ n \in d[n]
      BY <1>1, TreeTypes, BelowFacts
    <2>2. d[Null] = {}
      BY DEF Tree, IsBelow
    <2>3. c # t.root
      BY <1>1, <2>2, ChildFacts
    <2> QED
      BY <2>1, <2>2, <2>3
  <1>3. /\ u \in Trees /\ u.color = t.color /\ u.root = IF p = Null THEN c ELSE t.root
        /\ \A x \in Keys : u.parent[x] = IF x = c THEN p ELSE t.parent[x]
        /\ \A x \in Keys, z \in Sides : u.child[z][x] =
             IF t.child[z][x] = n THEN c ELSE t.child[z][x]
    BY <1>1, <1>2, UnlinkIs
  <1>4. t2 = Forget(u, n)
    OBVIOUS
  <1> HIDE DEF u
  <1>5. /\ t2 \in Trees /\ t2.root = IF p = Null THEN c ELSE t.root
        /\ \A x \in Keys :
             /\ t2.parent[x] = IF x = n THEN Null ELSE IF x = c THEN p ELSE t.parent[x]
             /\ t2.color[x] = IF x = n THEN "black" ELSE t.color[x]
        /\ \A x \in Keys, z \in Sides : t2.child[z][x] =
             IF x = n THEN Null ELSE IF t.child[z][x] = n THEN c ELSE t.child[z][x]
    BY <1>1, <1>3, <1>4, ForgetIs
  <1>6. p = Null <=> n = t.root
    BY <1>1 DEF Tree, LinksAgree
  <1>7. /\ d \in [Pointers -> SUBSET Keys] /\ d[Null] = {}
        /\ \A x \in Keys, z \in Sides : t.child[z][x] \in Pointers
    BY <1>1, TreeTypes DEF Tree, IsBelow
  <1>8. /\ d2 \in [Pointers -> SUBSET Keys] /\ d2[Null] = {} /\ d2[n] = {n}
        /\ d2[c] = d[n] \ {n}
        /\ \A x \in Pointers : x # n => d2[x] = d[x] \ {n}
    <2>1. n \in Pointers
      BY <1>1 DEF Pointers
    <2> QED
      BY <1>1, <1>2, <1>7, <2>1 DEF Without
  <1>9. \A x \in Keys, z \in Sides : x # n => d2[t2.child[z][x]] = d[t.child[z][x]] \ {n}
    BY ONLY <1>2, <1>5, <1>7, <1>8
  <1>10. d2[t2.root] = d[t.root] \ {n}
    BY ONLY <1>1, <1>2, <1>5, <1>6, <1>8
  <1>11. IsBelow(t2, d2)
    <2>1. ASSUME NEW x \in Keys
          PROVE  d2[x] = {x} \cup d2[t2.child["left"][x]] \cup d2[t2.child["right"][x]]
      <3>1. CASE x = n
        BY <1>5, <1>8, <3>1 DEF Sides
      <3>2. CASE x # n
        <4>1. d[x] = {x} \cup d[t.child["left"][x]] \cup d[t.child["right"][x]]
          BY DEF Tree, IsBelow
        <4>2. d2[x] = d[x] \ {n}
          BY <1>8, <3>2 DEF Pointers
        <4> QED
          BY ONLY <1>9, <3>2, <4>1, <4>2 DEF Sides
      <3> QED
        BY <3>1, <3>2
    <2>2. ASSUME NEW x \in Keys PROVE IsFiniteSet(d2[x])
      <3>1. IsFiniteSet(d[x]) /\ IsFiniteSet({n})
        BY FS_Singleton DEF Tree, IsBelow
      <3>2. IsFiniteSet(d[x] \ {n})
        BY <3>1, FS_Difference
      <3> QED
        BY <1>8, <3>1, <3>2 DEF Pointers
    <2> QED
      BY <1>8, <2>1, <2>2 DEF IsBelow
  <1>12. IsSorted(t2, d2)
    <2> SUFFICES ASSUME NEW x \in Keys, NEW z \in Sides, NEW e \in d2[t2.child[z][x]]
                 PROVE  Toward(e, x) = z /\ e # x
      BY DEF IsSorted
    <2>1. x # n
      BY ONLY <1>5, <1>8
    <2>2. e \in d[t.child[z][x]]
      BY <1>9, <2>1
    <2> QED
      BY <2>2 DEF Tree, IsSorted
  <1>13. LinksAgree(t2, d2)
    <2>1. \A x \in Keys, z \in Sides : c # Null /\ t.child[z][x] = c => x = n
      BY <1>1, ChildFacts
    <2>2. c # Null => c \in d[t.root] /\ c \in Keys
      BY <1>1, ChildFacts
    <2>3. ASSUME NEW x \in Keys, NEW z \in Sides, t2.child[z][x] # Null
          PROVE  t2.parent[t2.child[z][x]] = x
      <3>1. x # n
        BY <1>5, <2>3
      <3>2. CASE t.child[z][x] = n
        <4>1. t2.child[z][x] = c /\ c # Null /\ x = p
          BY <1>1, <1>5, <2>3, <3>1, <3>2 DEF Tree, LinksAgree
        <4> QED
          BY <1>2, <1>5, <2>2, <4>1
      <3>3. CASE t.child[z][x] # n
        <4>1. /\ t2.child[z][x] = t.child[z][x] /\ t.child[z][x] \in Keys
              /\ t.child[z][x] # c
          BY ONLY <1>5, <1>7, <2>1, <2>3, <3>1, <3>3 DEF Pointers
        <4>2. t.parent[t.child[z][x]] = x
          BY <2>3, <4>1 DEF Tree, LinksAgree
        <4> QED
          BY ONLY <1>5, <3>3, <4>1, <4>2
      <3> QED
        BY <3>2, <3>3
    <2>4. ASSUME NEW x \in Keys, t2.parent[x] # Null
          PROVE  \E z \in Sides : t2.child[z][t2.parent[x]] = x
      <3>1. x # n
        BY <1>5, <2>4
      <3>2. CASE x = c
        <4>1. t2.parent[x] = p /\ p # Null /\ p \in Keys
          BY <1>2, <1>5, <2>4, <3>1, <3>2 DEF Pointers
        <4>2. PICK z \in Sides : t.child[z][p] = n
          BY <1>1, <4>1 DEF Tree, LinksAgree
        <4>3. p # n
          BY <1>1, <4>1, <4>2, ChildFacts
        <4>4. t2.child[z][p] = c
          BY <1>5, <4>1, <4>2, <4>3
        <4> QED
          BY <3>2, <4>1, <4>4
      <3>3. CASE x # c
        <4>1. t2.parent[x] = t.parent[x] /\ t.parent[x] \in Keys
          BY <1>1, <1>5, <2>4, <3>1, <3>3, TreeTypes
        <4>2. PICK z \in Sides : t.child[z][t.parent[x]] = x
          BY <2>4, <4>1 DEF Tree, LinksAgree
        <4>3. t.parent[x] # n
          <5>1. z = s \/ z = Other(s)
            BY SideFacts
          <5> QED
            BY <3>3, <4>2, <5>1, NullIsNoKey
        <4> QED
          BY ONLY <1>5, <3>1, <4>1, <4>2, <4>3
      <3> QED
        BY <3>2, <3>3
    <2>5. t2.root # Null => t2.parent[t2.root] = Null
      <3>1. t.root # Null => t.root \in Keys /\ t.parent[t.root] = Null
        BY TreeTypes DEF Tree, LinksAgree
      <3>2. p # Null => t.root # n
        BY <1>6
      <3> QED
        BY <1>2, <1>5, <2>2, <3>1, <3>2
    <2>6. ASSUME NEW x \in d2[t2.root], x # t2.root
          PROVE  t2.parent[x] # Null
      <3>1. x \in Keys /\ x \in d[t.root] /\ x # n
        BY <1>1, <1>7, <1>10
      <3>2. CASE x = c
        BY <1>5, <2>6, <3>1, <3>2
      <3>3. CASE x # c
        <4>1. x # t.root
          BY <1>5, <1>6, <2>6, <3>1
        <4> QED
          BY <1>5, <3>1, <3>3, <4>1 DEF Tree, LinksAgree
      <3> QED
        BY <3>2, <3>3
    <2>7. ASSUME NEW x \in Keys \ d2[t2.root]
          PROVE  t2.parent[x] = Null /\ \A z \in Sides : t2.child[z][x] = Null
      <3>1. CASE x = n
        BY <1>5, <3>1
      <3>2. CASE x # n
        <4>1. x \notin d[t.root] /\ x # c
          BY <1>10, <2>2, <3>2, NullIsNoKey
        <4>2. t.parent[x] = Null /\ \A z \in Sides : t.child[z][x] = Null
          BY <4>1 DEF Tree, LinksAgree
        <4> QED
          BY <1>1, <1>5, <3>2, <4>1, <4>2
      <3> QED
        BY <3>1, <3>2
    <2> QED
      BY <2>3, <2>4, <2>5, <2>6, <2>7 DEF LinksAgree
  <1>14. Tree(t2, d2)
    BY <1>5, <1>11, <1>12, <1>13 DEF Tree
  <1>15. /\ c # Null => t2.parent[c] = t.parent[n]
         /\ \A x \in Keys : x # n /\ x # c => t2.parent[x] = t.parent[x]
    BY <1>2, <1>5 DEF Pointers
  <1> QED
    BY <1>2, <1>5, <1>6, <1>9, <1>10, <1>14, <1>15

(* The successor of k takes its place.                                     *)
Moved(S, k, y) == IF k \in S THEN (S \ {k}) \cup {y} ELSE S

Renamed(d, k, y) ==
    [x \in Pointers |-> IF x = k THEN {k}
                        ELSE IF x = y THEN Moved(d[k], k, y)
                        ELSE Moved(d[x], k, y)]

(* y is on the same side of all other nodes as k.                          *)
SameSides(t, d, k, y) ==
    /\ \A s \in Sides : \A m \in d[t.child[s][k]] : Toward(m, y) = s
    /\ \A x \in Keys, s \in Sides : k \in d[t.child[s][x]] => Toward(y, x) = s

TakesPlace(t, w, k, y) ==
    /\ w \in Trees
    /\ w.root = IF k = t.root THEN y ELSE t.root
    /\ \A x \in Keys : w.parent[x] =
         IF x = k THEN Null ELSE IF x = y THEN t.parent[k]
         ELSE IF t.parent[x] = k THEN y ELSE t.parent[x]
    /\ \A x \in Keys, z \in Sides : w.child[z][x] =
         IF x = k THEN Null ELSE IF x = y THEN t.child[z][k]
         ELSE IF t.child[z][x] = k THEN y ELSE t.child[z][x]

LEMMA RenameKeepsTree ==
    ASSUME NEW t, NEW d, Tree(t, d), NEW k \in d[t.root], NEW y \in Keys, y \notin d[t.root],
           SameSides(t, d, k, y), NEW w, TakesPlace(t, w, k, y),
           NEW d2, d2 = Renamed(d, k, y)
    PROVE  Tree(w, d2) /\ d2[w.root] = (d[t.root] \ {k}) \cup {y}
  <1> USE DEF SameSides, TakesPlace
  <1>1. /\ t \in Trees /\ t.root \in Pointers /\ k \in Keys /\ k # Null /\ k # y /\ y # Null
        /\ k \in d[k] /\ Null \in Pointers /\ y \in Pointers /\ k \in Pointers
    BY TreeTypes, BelowFacts, NullIsNoKey DEF Tree, Pointers
  <1>2. /\ d[y] = {y} /\ t.parent[y] = Null /\ t.root # y
        /\ \A z \in Sides : t.child[z][y] = Null
        /\ \A x \in Keys : x # y => y \notin d[x]
        /\ \A x \in Keys, z \in Sides : t.child[z][x] # y
    BY OutsideFacts
  <1>3. /\ d \in [Pointers -> SUBSET Keys] /\ d[Null] = {}
        /\ \A x \in Keys, z \in Sides : t.child[z][x] \in Pointers
    BY <1>1, TreeTypes DEF Tree, IsBelow
  <1>4. \A z \in Sides : t.child[z][k] # k /\ k \notin d[t.child[z][k]]
    BY <1>1, BelowFacts, ChildFacts
  <1>5. /\ d2 \in [Pointers -> SUBSET Keys] /\ d2[Null] = {} /\ d2[k] = {k}
        /\ d2[y] = Moved(d[k], k, y)
        /\ \A x \in Pointers : x # k /\ x # y => d2[x] = Moved(d[x], k, y)
    BY <1>1, <1>3 DEF Renamed, Moved
  <1>6. \A x \in Keys, z \in Sides : x # k /\ x # y =>
          d2[w.child[z][x]] = Moved(d[t.child[z][x]], k, y)
    BY <1>2, <1>3, <1>5
  <1>7. \A z \in Sides : d2[w.child[z][y]] = d[t.child[z][k]]
    BY <1>1, <1>2, <1>3, <1>4, <1>5 DEF Moved
  <1>8. d2[w.root] = (d[t.root] \ {k}) \cup {y}
    BY <1>1, <1>2, <1>5 DEF Moved
  <1>9. IsBelow(w, d2)
    <2>1. ASSUME NEW x \in Keys
          PROVE  d2[x] = {x} \cup d2[w.child["left"][x]] \cup d2[w.child["right"][x]]
      <3>1. CASE x = k
        BY <1>5, <3>1 DEF Sides
      <3>2. CASE x = y
        <4>1. d[k] = {k} \cup d[t.child["left"][k]] \cup d[t.child["right"][k]]
          BY <1>1 DEF Tree, IsBelow
        <4>2. "left" \in Sides /\ "right" \in Sides
          BY DEF Sides
        <4> QED
          BY <1>4, <1>5, <1>7, <3>2, <4>1, <4>2 DEF Moved
      <3>3. CASE x # k /\ x # y
        <4>1. d[x] = {x} \cup d[t.child["left"][x]] \cup d[t.child["right"][x]]
          BY DEF Tree, IsBelow
        <4>2. "left" \in Sides /\ "right" \in Sides
          BY DEF Sides
        <4>3. d2[x] = Moved(d[x], k, y)
          BY <1>5, <3>3 DEF Pointers
        <4>4. /\ d2[w.child["left"][x]] = Moved(d[t.child["left"][x]], k, y)
              /\ d2[w.child["right"][x]] = Moved(d[t.child["right"][x]], k, y)
          BY <1>6, <3>3, <4>2
        <4>5. y \notin d[x]
          BY <1>2, <3>3
        <4> QED
          BY ONLY <3>3, <4>1, <4>3, <4>4, <4>5 DEF Moved
      <3> QED
        BY <3>1, <3>2, <3>3
    <2>2. ASSUME NEW x \in Keys PROVE IsFiniteSet(d2[x])
      <3>1. ASSUME NEW b \in Keys PROVE IsFiniteSet(Moved(d[b], k, y))
        <4>1. IsFiniteSet(d[b]) /\ IsFiniteSet({k}) /\ IsFiniteSet({y})
          BY FS_Singleton DEF Tree, IsBelow
        <4>2. IsFiniteSet(d[b] \ {k})
          BY <4>1, FS_Difference
        <4>3. IsFiniteSet((d[b] \ {k}) \cup {y})
          BY <4>1, <4>2, FS_Union
        <4> QED
          BY <4>1, <4>3 DEF Moved
      <3>2. IsFiniteSet({k})
        BY FS_Singleton
      <3>3. d2[x] = {k} \/ d2[x] = Moved(d[k], k, y) \/ d2[x] = Moved(d[x], k, y)
        BY <1>5 DEF Pointers
      <3> QED
        BY <1>1, <3>1, <3>2, <3>3
    <2> QED
      BY <1>5, <2>1, <2>2 DEF IsBelow
  <1>10. IsSorted(w, d2)
    <2> SUFFICES ASSUME NEW x \in Keys, NEW z \in Sides, NEW e \in d2[w.child[z][x]]
                 PROVE  Toward(e, x) = z /\ e # x
      BY DEF IsSorted
    <2>1. x # k
      BY <1>5
    <2>2. CASE x = y
      <3>1. e \in d[t.child[z][k]]
        BY <1>7, <2>2
      <3>2. e # y
        <4>1. d[t.child[z][k]] \subseteq d[k]
          BY <1>1, BelowFacts
        <4> QED
          BY <1>1, <1>2, <3>1, <4>1
      <3> QED
        BY <2>2, <3>1, <3>2
    <2>3. CASE x # y
      <3>1. e \in Moved(d[t.child[z][x]], k, y)
        BY <1>6, <2>1, <2>3
      <3>2. CASE e \in d[t.child[z][x]]
        BY <3>2 DEF Tree, IsSorted
      <3>3. CASE e = y /\ k \in d[t.child[z][x]]
        BY <2>3, <3>3
      <3> QED
        BY <3>1, <3>2, <3>3 DEF Moved
    <2> QED
      BY <2>2, <2>3
  <1>11. LinksAgree(w, d2)
    <2>1. \A x \in Keys, z \in Sides : t.child[z][x] # Null => t.parent[t.child[z][x]] = x
      BY DEF Tree, LinksAgree
    <2>2. ASSUME NEW x \in Keys, NEW z \in Sides, w.child[z][x] # Null
          PROVE  w.parent[w.child[z][x]] = x
      <3>1. x # k
        BY <2>2
      <3>2. CASE x = y
        <4>1. /\ w.child[z][x] = t.child[z][k] /\ t.child[z][k] \in Keys
              /\ t.child[z][k] # k /\ t.child[z][k] # y /\ t.parent[t.child[z][k]] = k
          BY <1>1, <1>2, <1>3, <1>4, <2>1, <2>2, <3>1, <3>2 DEF Pointers
        <4> QED
          BY <3>2, <4>1
      <3>3. CASE x # y /\ t.child[z][x] = k
        <4>1. w.child[z][x] = y /\ t.parent[k] = x
          BY <1>1, <2>1, <3>1, <3>3
        <4> QED
          BY <1>1, <4>1
      <3>4. CASE x # y /\ t.child[z][x] # k
        <4>1. /\ w.child[z][x] = t.child[z][x] /\ t.child[z][x] \in Keys /\ t.child[z][x] # y
              /\ t.parent[t.child[z][x]] = x
          BY <1>2, <1>3, <2>1, <2>2, <3>1, <3>4 DEF Pointers
        <4> QED
          BY <3>1, <3>4, <4>1
      <3> QED
        BY <3>2, <3>3, <3>4
    <2>3. ASSUME NEW x \in Keys, w.parent[x] # Null
          PROVE  \E z \in Sides : w.child[z][w.parent[x]] = x
      <3>1. x # k
        BY <2>3
      <3>2. CASE x = y
        <4>1. w.parent[x] = t.parent[k] /\ t.parent[k] \in Keys
          BY <1>1, <2>3, <3>1, <3>2, TreeTypes
        <4>2. PICK z \in Sides : t.child[z][t.parent[k]] = k
          BY <1>1, <2>3, <4>1 DEF Tree, LinksAgree
        <4>3. t.parent[k] # k /\ t.parent[k] # y
          BY <1>1, <1>2, <1>4, <4>2
        <4> QED
          BY <3>2, <4>1, <4>2, <4>3
      <3>3. CASE x # y /\ t.parent[x] = k
        <4>1. PICK z \in Sides : t.child[z][k] = x
          BY <1>1, <3>3 DEF Tree, LinksAgree
        <4>2. w.parent[x] = y /\ w.child[z][y] = x
          BY <1>1, <3>1, <3>3, <4>1
        <4> QED
          BY <4>2
      <3>4. CASE x # y /\ t.parent[x] # k
        <4>1. w.parent[x] = t.parent[x] /\ t.parent[x] \in Keys
          BY <1>1, <2>3, <3>1, <3>4, TreeTypes
        <4>2. PICK z \in Sides : t.child[z][t.parent[x]] = x
          BY <2>3, <4>1 DEF Tree, LinksAgree
        <4>3. t.parent[x] # y
          BY <1>2, <4>2, NullIsNoKey
        <4> QED
          BY <3>1, <3>4, <4>1, <4>2, <4>3
      <3> QED
        BY <3>2, <3>3, <3>4
    <2>4. w.root # Null => w.parent[w.root] = Null
      <3>1. t.root # Null => t.root \in Keys /\ t.parent[t.root] = Null
        BY TreeTypes DEF Tree, LinksAgree
      <3> QED
        BY <1>1, <1>2, <3>1
    <2>5. ASSUME NEW x \in d2[w.root], x # w.root
          PROVE  w.parent[x] # Null
      <3>1. x \in Keys /\ x # k
        BY <1>1, <1>3, <1>8
      <3>2. CASE x = y
        <4>1. k # t.root
          BY <2>5, <3>2
        <4> QED
          BY <1>1, <3>1, <3>2, <4>1 DEF Tree, LinksAgree
      <3>3. CASE x # y
        <4>1. x \in d[t.root] /\ x # t.root
          BY <1>8, <2>5, <3>1, <3>3
        <4>2. t.parent[x] # Null
          BY <4>1 DEF Tree, LinksAgree
        <4> QED
          BY <1>1, <3>1, <3>3, <4>2
      <3> QED
        BY <3>2, <3>3
    <2>6. ASSUME NEW x \in Keys \ d2[w.root]
          PROVE  w.parent[x] = Null /\ \A z \in Sides : w.child[z][x] = Null
      <3>1. CASE x = k
        BY <3>1
      <3>2. CASE x # k
        <4>1. x \notin d[t.root] /\ x # y
          BY <1>8, <3>2
        <4>2. t.parent[x] = Null /\ \A z \in Sides : t.child[z][x] = Null
          BY <4>1 DEF Tree, LinksAgree
        <4> QED
          BY <1>1, <3>2, <4>1, <4>2
      <3> QED
        BY <3>1, <3>2
    <2> QED
      BY <2>2, <2>3, <2>4, <2>5, <2>6 DEF LinksAgree
  <1> QED
    BY <1>8, <1>9, <1>10, <1>11 DEF Tree

LEMMA ReplaceIs ==
    ASSUME NEW u \in Trees, NEW k \in Keys, NEW y \in Keys, NEW v, v = Forget(u, y),
           NEW d, Tree(v, d), k \in d[v.root], y \notin d[v.root],
           NEW w, w = Forget(Replace(u, k, y), k)
    PROVE  /\ TakesPlace(v, w, k, y)
           /\ \A x \in Keys : w.color[x] =
                IF x = k THEN "black" ELSE IF x = y THEN u.color[k] ELSE u.color[x]
  <1> DEFINE p == u.parent[k]
             l == u.child["left"][k]
             r == u.child["right"][k]
             copied == [u EXCEPT !.child["left"][y] = l, !.child["right"][y] = r,
                                 !.parent[y] = p, !.color[y] = u.color[k]]
             linked == Relink(copied, p, k, y)
             t1 == SetParent(linked, l, y)
             t2 == SetParent(t1, r, y)
  <1>1. /\ k # y /\ y \in Pointers /\ k \in Pointers /\ y # Null /\ k # Null
        /\ p \in Pointers /\ l \in Pointers /\ r \in Pointers
        /\ u.color[k] \in {"red", "black"} /\ v \in Trees
        /\ "left" \in Sides /\ "right" \in Sides
    BY TreeTypes, NullIsNoKey DEF Pointers, Sides, Tree
  <1>2. /\ v.root = u.root
        /\ \A x \in Keys : x # y => v.parent[x] = u.parent[x]
        /\ \A x \in Keys, z \in Sides : x # y => v.child[z][x] = u.child[z][x]
    BY ForgetIs
  <1>3. p = v.parent[k] /\ l = v.child["left"][k] /\ r = v.child["right"][k]
    BY <1>1, <1>2
  <1>4. /\ \A z \in Sides : v.child[z][y] = Null
        /\ \A x \in Keys, z \in Sides : v.child[z][x] # y
        /\ v.root # y
    BY OutsideFacts
  <1>5. /\ copied \in Trees /\ copied.root = u.root
        /\ \A x \in Keys : copied.parent[x] = IF x = y THEN p ELSE u.parent[x]
        /\ \A x \in Keys : copied.color[x] = IF x = y THEN u.color[k] ELSE u.color[x]
        /\ \A x \in Keys, z \in Sides : copied.child[z][x] = IF x = y THEN u.child[z][k] ELSE u.child[z][x]
    <2> HIDE DEF p
    <2> QED
      BY ONLY <1>1 DEF Trees, Sides
  <1>6. Replace(u, k, y) = t2
    BY DEF Replace
  <1> HIDE DEF copied, p, l, r
  <1>7. /\ p # Null => p \in Keys /\ p # y /\ p # k
        /\ p = Null <=> k = v.root
        /\ p # Null => \A z \in Sides : v.child[z][p] = k <=> z = SideOf(v, p, k)
        /\ \A x \in Keys, z \in Sides : v.child[z][x] = k => p = x
    <2>1. p # Null => p \in Keys /\ \E z \in Sides : v.child[z][p] = k
      BY <1>1, <1>3 DEF Tree, LinksAgree, Pointers
    <2>2. p # Null => p # y /\ p # k
      BY <1>1, <1>4, <2>1, ChildFacts
    <2>3. p = Null <=> k = v.root
      BY <1>1, <1>3 DEF Tree, LinksAgree
    <2>4. p # Null => \A z \in Sides : v.child[z][p] = k <=> z = SideOf(v, p, k)
      BY <1>3, SideOfIs
    <2>5. \A x \in Keys, z \in Sides : v.child[z][x] = k => p = x
      BY <1>1, <1>3 DEF Tree, LinksAgree
    <2> QED
      BY <2>1, <2>2, <2>3, <2>4, <2>5
  <1>8. p # Null => SideOf(copied, p, k) = SideOf(v, p, k)
    BY <1>1, <1>2, <1>5, <1>7 DEF SideOf
  <1>9. /\ linked \in Trees /\ linked.color = copied.color /\ linked.parent = copied.parent
        /\ linked.root = IF p = Null THEN y ELSE u.root
        /\ \A x \in Keys, z \in Sides : linked.child[z][x] =
             IF x = y THEN v.child[z][k] ELSE IF v.child[z][x] = k THEN y ELSE v.child[z][x]
    <2>1. linked \in Trees /\ linked.color = copied.color /\ linked.parent = copied.parent
      BY <1>1, <1>5, RelinkIs
    <2>2. linked.root = IF p = Null THEN y ELSE copied.root
      BY <1>1, <1>5, RelinkIs
    <2>3. \A x \in Keys, z \in Sides : linked.child[z][x] =
             IF x = p /\ z = SideOf(copied, p, k) THEN y ELSE copied.child[z][x]
      BY <1>1, <1>5, RelinkIs
    <2> HIDE DEF linked
    <2>4. ASSUME NEW x \in Keys, NEW z \in Sides
          PROVE  linked.child[z][x] =
             IF x = y THEN v.child[z][k] ELSE IF v.child[z][x] = k THEN y ELSE v.child[z][x]
      <3>1. copied.child[z][x] = IF x = y THEN v.child[z][k] ELSE v.child[z][x]
        BY <1>1, <1>2, <1>5
      <3>2. x = p /\ z = SideOf(copied, p, k) <=> v.child[z][x] = k /\ x # y
        BY <1>1, <1>4, <1>7, <1>8, NullIsNoKey
      <3> QED
        BY <2>3, <3>1, <3>2
    <2> QED
      BY <1>5, <2>1, <2>2, <2>4
  <1> HIDE DEF linked
  <1>10. /\ t1 \in Trees /\ t1.color = copied.color /\ t1.root = linked.root /\ t1.child = linked.child
         /\ \A x \in Keys : t1.parent[x] = IF x = l THEN y ELSE copied.parent[x]
    <2>1. linked \in Trees /\ l \in Pointers /\ y \in Pointers
      BY <1>1, <1>9
    <2>2. /\ t1 \in Trees /\ t1.color = linked.color /\ t1.root = linked.root
          /\ t1.child = linked.child
          /\ \A x \in Keys : t1.parent[x] = IF x = l THEN y ELSE linked.parent[x]
      BY <2>1, SetParentIs
    <2> HIDE DEF t1
    <2> QED
      BY <1>9, <2>2
  <1> HIDE DEF t1
  <1>11. /\ t2 \in Trees /\ t2.color = copied.color /\ t2.root = linked.root /\ t2.child = linked.child
         /\ \A x \in Keys : t2.parent[x] = IF x = r \/ x = l THEN y ELSE copied.parent[x]
    <2>1. /\ t2 \in Trees /\ t2.color = t1.color /\ t2.root = t1.root
          /\ t2.child = t1.child
          /\ \A x \in Keys : t2.parent[x] = IF x = r THEN y ELSE t1.parent[x]
      BY <1>1, <1>10, SetParentIs
    <2> HIDE DEF t2
    <2> QED
      BY <1>10, <2>1
  <1>12. /\ w \in Trees /\ w.root = t2.root
         /\ \A x \in Keys : /\ w.parent[x] = IF x = k THEN Null ELSE t2.parent[x]
                            /\ w.color[x] = IF x = k THEN "black" ELSE t2.color[x]
         /\ \A x \in Keys, z \in Sides : w.child[z][x] = IF x = k THEN Null ELSE t2.child[z][x]
    <2>1. w = Forget(t2, k) /\ t2 \in Trees
      BY <1>6, <1>11
    <2> HIDE DEF t2
    <2>2. Forget(t2, k) \in Trees /\ Forget(t2, k).root = t2.root
      BY <2>1, ForgetIs
    <2>3. \A x \in Keys :
            /\ Forget(t2, k).parent[x] = IF x = k THEN Null ELSE t2.parent[x]
            /\ Forget(t2, k).color[x] = IF x = k THEN "black" ELSE t2.color[x]
      BY <2>1, ForgetIs
    <2>4. \A x \in Keys, z \in Sides :
            Forget(t2, k).child[z][x] = IF x = k THEN Null ELSE t2.child[z][x]
      BY ONLY <2>1, ForgetIs
    <2> QED
      BY <2>1, <2>2, <2>3, <2>4
  <1> HIDE DEF t2
  <1>13. \A x \in Keys : x # y => (x = l \/ x = r <=> v.parent[x] = k)
    <2>1. \A x \in Keys : v.parent[x] = k => \E z \in Sides : v.child[z][k] = x
      BY <1>1 DEF Tree, LinksAgree
    <2>2. \A z \in Sides : v.child[z][k] # Null => v.parent[v.child[z][k]] = k
      BY DEF Tree, LinksAgree
    <2> QED
      BY <1>1, <1>3, <2>1, <2>2, NullIsNoKey DEF Sides
  <1>14. l # y /\ r # y
    BY <1>1, <1>3, <1>4
  <1>15. ASSUME NEW x \in Keys
         PROVE  w.parent[x] = IF x = k THEN Null ELSE IF x = y THEN v.parent[k]
                              ELSE IF v.parent[x] = k THEN y ELSE v.parent[x]
    <2>1. w.parent[x] = IF x = k THEN Null ELSE t2.parent[x]
      BY <1>12
    <2>2. t2.parent[x] = IF x = r \/ x = l THEN y ELSE IF x = y THEN p ELSE u.parent[x]
      BY <1>5, <1>11
    <2>3. x # y => u.parent[x] = v.parent[x]
      BY <1>2
    <2> QED
      BY <1>3, <1>13, <1>14, <2>1, <2>2, <2>3
  <1>16. ASSUME NEW x \in Keys, NEW z \in Sides
         PROVE  w.child[z][x] = IF x = k THEN Null ELSE IF x = y THEN v.child[z][k]
                                ELSE IF v.child[z][x] = k THEN y ELSE v.child[z][x]
    BY <1>9, <1>11, <1>12
  <1>17. \A x \in Keys : w.color[x] =
           IF x = k THEN "black" ELSE IF x = y THEN u.color[k] ELSE u.color[x]
    BY <1>5, <1>11, <1>12
  <1>18. w \in Trees /\ w.root = IF k = v.root THEN y ELSE v.root
    BY <1>2, <1>7, <1>9, <1>11, <1>12
  <1> QED
    BY <1>15, <1>16, <1>17, <1>18 DEF TakesPlace

(* The next node, as RB_REMOVE finds it, and the tree without it           *)
Successor(t, k) == Extreme(t, "left", t.child["right"][k])

Lifted(t, k) == LET y == Successor(t, k) IN Unlink(t, y, t.child["right"][y])

LEMMA SuccessorFacts ==
    ASSUME NEW t, NEW d, Tree(t, d), NEW k \in d[t.root],
           \A s \in Sides : t.child[s][k] # Null
    PROVE  /\ Successor(t, k) \in d[t.child["right"][k]]
           /\ Successor(t, k) \in Outermost(d, "left", t.child["right"][k])
           /\ k \in Keys /\ t.child["right"][k] \in Keys /\ d[t.child["right"][k]] \subseteq Keys
  <1>1. k \in Keys /\ "right" \in Sides /\ "left" \in Sides
    BY TreeTypes, BelowFacts DEF Tree, Sides
  <1>2. t.child["right"][k] \in Keys
    BY <1>1, ChildFacts
  <1>3. Successor(t, k) \in Outermost(d, "left", t.child["right"][k])
    BY <1>1, <1>2, ExtremeIs DEF Successor
  <1>4. d[t.child["right"][k]] \subseteq Keys
    BY <1>2, BelowFacts DEF Pointers
  <1> QED
    BY <1>1, <1>2, <1>3, <1>4 DEF Outermost

LEMMA SuccessorIsLowest ==
    ASSUME NEW t, NEW d, Tree(t, d), NEW k \in Keys, k \in d[t.root], NEW r \in Keys,
           r = t.child["right"][k], NEW y \in Keys, y \in Outermost(d, "left", r)
    PROVE  /\ y # k /\ y \in d[t.root] /\ y \in d[k] /\ t.child["left"][y] = Null
           /\ y # t.root /\ k \notin d[y]
  <1>1. /\ "left" \in Sides /\ "right" \in Sides /\ r # Null
        /\ Other("left") = "right" /\ Other("right") = "left" /\ "left" # "right"
        /\ y \in d[r] /\ \A m \in d[r] : m # y => Toward(y, m) = "left"
    BY NullIsNoKey DEF Sides, Other, Outermost
  <1>2. d[r] \subseteq d[k] /\ k \notin d[r]
    BY <1>1, BelowFacts
  <1>3. d[k] \subseteq d[t.root]
    BY BelowBelow, TreeTypes DEF Tree
  <1>4. ASSUME t.child["left"][y] # Null PROVE FALSE
    <2> DEFINE e == t.child["left"][y]
    <2>1. e \in Keys /\ e # y /\ e \in d[y]
      BY <1>1, <1>4, ChildFacts
    <2>2. e \in d[e]
      BY <2>1, BelowFacts
    <2>3. e \in d[r]
      BY <1>1, <2>1, BelowBelow DEF Pointers
    <2>4. Toward(e, y) = "left"
      BY <1>1, <2>2 DEF Tree, IsSorted
    <2>5. Toward(y, e) = "left"
      BY <1>1, <2>1, <2>3
    <2> HIDE DEF e
    <2> QED
      BY <1>1, <2>1, <2>4, <2>5, OrderFacts
  <1>5. k \notin d[y]
    <2>1. d[y] \subseteq d[r]
      BY <1>1, BelowBelow DEF Pointers
    <2> QED
      BY <1>2, <2>1
  <1>6. y # t.root
    BY <1>5
  <1> QED
    BY <1>1, <1>2, <1>3, <1>4, <1>5, <1>6

(* v is t without y.                                                       *)
Lost(t, d, v, d1, y) ==
    /\ Tree(v, d1)
    /\ \A z \in Sides : v.child[z][y] = Null
    /\ \A x \in Keys, z \in Sides : x # y => d1[v.child[z][x]] = d[t.child[z][x]] \ {y}

LEMMA SuccessorFits ==
    ASSUME NEW t, NEW d, Tree(t, d), NEW k \in Keys, k \in d[t.root], NEW r \in Keys,
           r = t.child["right"][k], NEW y \in Keys, y \in Outermost(d, "left", r),
           NEW v, NEW d1, Lost(t, d, v, d1, y)
    PROVE  SameSides(v, d1, k, y)
  <1> USE DEF Lost
  <1>1. /\ "left" \in Sides /\ "right" \in Sides /\ r # Null
        /\ Other("left") = "right" /\ Other("right") = "left" /\ "left" # "right"
        /\ y \in d[r] /\ \A m \in d[r] : m # y => Toward(y, m) = "left"
    BY NullIsNoKey DEF Sides, Other, Outermost
  <1>2. y # k /\ y \in d[k]
    BY SuccessorIsLowest
  <1>3. ASSUME NEW s \in Sides, NEW m \in d1[v.child[s][k]]
        PROVE  Toward(m, y) = s
    <2>1. m \in d[t.child[s][k]] /\ m # y
      BY <1>2, <1>3
    <2>2. m \in Keys
      BY <2>1, BelowFacts, TreeTypes DEF Tree
    <2>3. Toward(m, k) = s /\ m # k
      BY <2>1 DEF Tree, IsSorted
    <2>4. CASE s = "right"
      <3>1. Toward(y, m) = "left"
        BY <1>1, <2>1, <2>4
      <3> QED
        BY <1>1, <2>1, <2>2, <2>4, <3>1, OrderFacts
    <2>5. CASE s = "left"
      <3>1. Toward(y, k) = "right"
        BY <1>1 DEF Tree, IsSorted
      <3>2. Toward(k, y) = "left"
        BY <1>1, <1>2, <3>1, OrderFacts
      <3> QED
        BY <1>1, <1>2, <2>2, <2>3, <2>5, <3>2, OrderFacts
    <2> QED
      BY <2>4, <2>5 DEF Sides
  <1>4. ASSUME NEW x \in Keys, NEW s \in Sides, k \in d1[v.child[s][x]]
        PROVE  Toward(y, x) = s
    <2>1. x # y
      BY <1>4 DEF Tree, IsBelow
    <2>2. k \in d[t.child[s][x]]
      BY <1>4, <2>1
    <2>3. t.child[s][x] \in Pointers
      BY TreeTypes DEF Tree
    <2>4. y \in d[t.child[s][x]]
      BY <1>2, <2>2, <2>3, BelowBelow
    <2> QED
      BY <2>4 DEF Tree, IsSorted
  <1> QED
    BY <1>3, <1>4 DEF SameSides

LEMMA InnerKeepsTree ==
    ASSUME NEW t, NEW d, Tree(t, d), NEW k \in d[t.root],
           \A s \in Sides : t.child[s][k] # Null
    PROVE  LET y == Successor(t, k)
               v == Forget(Lifted(t, k), y)
               w == Forget(Replace(Lifted(t, k), k, y), k)
               d1 == Without(d, y)
               d2 == Renamed(d1, k, y)
           IN /\ Tree(v, d1) /\ k \in d1[v.root] /\ y \notin d1[v.root]
              /\ Tree(w, d2) /\ d2[w.root] = d[t.root] \ {k}
              /\ Lifted(t, k) \in Trees /\ Lifted(t, k).color = t.color
  <1> DEFINE y == Successor(t, k)
             c == t.child["right"][y]
             r == t.child["right"][k]
             u == Lifted(t, k)
             v == Forget(u, y)
             w == Forget(Replace(u, k, y), k)
             d1 == Without(d, y)
             d2 == Renamed(d1, k, y)
  <1>1. /\ y \in Outermost(d, "left", r)
        /\ k \in Keys /\ r \in Keys /\ y \in Keys
    BY SuccessorFacts
  <1>2. u = Unlink(t, y, c) /\ v = Forget(u, y) /\ d1 = Without(d, y)
        /\ w = Forget(Replace(u, k, y), k) /\ d2 = Renamed(d1, k, y)
    BY DEF Lifted
  <1>3. /\ "left" \in Sides /\ c = t.child[Other("left")][y] /\ r = t.child["right"][k]
    BY DEF Sides, Other
  <1> HIDE DEF y, c, r, u, v, w, d1, d2
  <1>4. y # k /\ y \in d[t.root] /\ t.child["left"][y] = Null
    BY <1>1, <1>3, SuccessorIsLowest
  <1>5. /\ Tree(v, d1) /\ d1[v.root] = d[t.root] \ {y}
        /\ \A x \in Keys, z \in Sides : x # y => d1[v.child[z][x]] = d[t.child[z][x]] \ {y}
        /\ \A x \in Keys, z \in Sides : v.child[z][x] =
             IF x = y THEN Null ELSE IF t.child[z][x] = y THEN c ELSE t.child[z][x]
        /\ c \in Pointers
    <2>1. v = Forget(Unlink(t, y, c), y)
      BY <1>2
    <2>2. d1 = Without(d, y)
      BY <1>2
    <2> QED
      BY <1>3, <1>4, <2>1, <2>2, UnlinkKeepsTree
  <1>6. k \in d1[v.root] /\ y \notin d1[v.root]
    BY <1>4, <1>5
  <1>7. SameSides(v, d1, k, y)
    <2>1. Lost(t, d, v, d1, y)
      BY <1>1, <1>5 DEF Lost
    <2> QED
      BY <1>1, <1>3, <2>1, SuccessorFits
  <1>8. u \in Trees /\ u.color = t.color
    BY <1>1, <1>2, <1>5, UnlinkIs
  <1>9. TakesPlace(v, w, k, y)
    <2>1. v = Forget(u, y) /\ w = Forget(Replace(u, k, y), k) /\ Tree(v, d1)
      BY <1>2, <1>5
    <2> QED
      BY <1>1, <1>6, <1>8, <2>1, ReplaceIs
  <1>10. Tree(w, d2) /\ d2[w.root] = (d1[v.root] \ {k}) \cup {y}
    <2>1. d2 = Renamed(d1, k, y) /\ Tree(v, d1)
      BY <1>2, <1>5
    <2> QED
      BY <1>1, <1>6, <1>7, <1>9, <2>1, RenameKeepsTree
  <1>11. d2[w.root] = d[t.root] \ {k}
    BY <1>4, <1>5, <1>10
  <1> QED
    BY <1>5, <1>6, <1>8, <1>10, <1>11 DEF y, c, u, v, w, d1, d2

-----------------------------------------------------------------------------
(* Colors.  h[x] counts the black nodes from x down; at q, on the side z,  *)
(* a black node is missing.  Of two red nodes one under the other the      *)
(* lower is e or the upper is f.                                           *)
Weight(t, x) == IF t.color[x] = "red" THEN 0 ELSE 1

Extra(q, z, x, y) == IF x = q /\ y = z THEN 1 ELSE 0

Balanced(t, h, q, z) ==
    /\ h \in [Pointers -> Nat] /\ h[Null] = 0
    /\ \A x \in Keys, y \in Sides : h[x] = h[t.child[y][x]] + Weight(t, x) + Extra(q, z, x, y)

NoRedPair(t, e, f) ==
    \A x \in Keys, y \in Sides :
        Red(t, x) /\ Red(t, t.child[y][x]) => t.child[y][x] = e \/ x = f

(* A node outside the tree is black.                                       *)
BlackOutside(t, d) == \A x \in Keys \ d[t.root] : ~Red(t, x)

(* t2 is t in other colors.                                                *)
LEMMA PaintKeepsTree ==
    ASSUME NEW t, NEW d, Tree(t, d), NEW t2 \in Trees,
           t2.root = t.root, t2.child = t.child, t2.parent = t.parent
    PROVE  Tree(t2, d)
  BY DEF Tree, IsBelow, IsSorted, LinksAgree

IsBlackRed(t, t2, m, n) ==
    /\ t2 \in Trees
    /\ t2.root = t.root /\ t2.parent = t.parent /\ t2.child = t.child
    /\ \A x \in Keys : t2.color[x] =
         IF x = n THEN "red" ELSE IF x = m THEN "black" ELSE t.color[x]

LEMMA BlackRedIs ==
    ASSUME NEW t \in Trees, NEW m \in Keys, NEW n \in Keys
    PROVE  IsBlackRed(t, BlackRed(t, m, n), m, n)
  <1> DEFINE t1 == Paint(t, m, "black")
  <1>1. m \in Pointers /\ n \in Pointers
    BY DEF Pointers
  <1>2. /\ t1 \in Trees /\ t1.root = t.root /\ t1.parent = t.parent /\ t1.child = t.child
        /\ \A x \in Keys : t1.color[x] = IF x = m THEN "black" ELSE t.color[x]
    BY <1>1, PaintIs
  <1>3. BlackRed(t, m, n) = Paint(t1, n, "red")
    BY DEF BlackRed
  <1> HIDE DEF t1
  <1>4. /\ Paint(t1, n, "red") \in Trees
        /\ Paint(t1, n, "red").root = t1.root /\ Paint(t1, n, "red").parent = t1.parent
        /\ Paint(t1, n, "red").child = t1.child
        /\ \A x \in Keys : Paint(t1, n, "red").color[x] = IF x = n THEN "red" ELSE t1.color[x]
    BY <1>1, <1>2, PaintIs
  <1> QED
    BY <1>2, <1>3, <1>4 DEF IsBlackRed

(* The links of a rotated tree                                             *)
LEMMA RotateEdges ==
    ASSUME NEW t, NEW d, Tree(t, d), NEW n \in Keys, NEW s \in Sides, NEW o, o = Other(s),
           NEW m, m = t.child[o][n], m # Null
    PROVE  /\ m \in Keys /\ m # n /\ o \in Sides /\ o # s /\ \A y \in Sides : y = s \/ y = o
           /\ Rotate(t, s, n).color = t.color
           /\ Rotate(t, s, n).root = IF n = t.root THEN m ELSE t.root
           /\ Rotate(t, s, n).child[s][n] = t.child[s][n]
           /\ Rotate(t, s, n).child[o][n] = t.child[s][m]
           /\ Rotate(t, s, n).child[s][m] = n
           /\ Rotate(t, s, n).child[o][m] = t.child[o][m]
           /\ \A x \in Keys, y \in Sides : x # n /\ x # m =>
                /\ Rotate(t, s, n).child[y][x] = IF t.child[y][x] = n THEN m ELSE t.child[y][x]
                /\ t.child[y][x] # m
           /\ \A y \in Sides : t.child[y][m] # n /\ t.child[y][m] # m
           /\ t.child[s][n] # n /\ t.child[s][n] # m
           /\ m # t.root
  <1> DEFINE t2 == Rotate(t, s, n)
             p == t.parent[n]
             b == t.child[s][m]
  <1>1. /\ m \in Keys /\ m # n /\ n \in d[t.root] /\ m # t.root
        /\ n # Null /\ m # Null /\ t \in Trees
        /\ o \in Sides /\ o # s /\ Other(o) = s /\ \A y \in Sides : y = s \/ y = o
    BY ChildFacts, SideFacts, NullIsNoKey DEF Tree
  <1>2. /\ t2.color = t.color /\ t2.root = IF p = Null THEN m ELSE t.root
        /\ \A x \in Keys, y \in Sides : t2.child[y][x] =
             IF x = m /\ y = s THEN n
             ELSE IF x = n /\ y = o THEN b
             ELSE IF t.child[y][x] = n THEN m
             ELSE t.child[y][x]
    BY RotateIs
  <1> HIDE DEF t2
  <1>3. p = Null <=> n = t.root
    BY <1>1 DEF Tree, LinksAgree
  <1>4. \A x \in Keys, y \in Sides : t.child[y][x] = m => x = n /\ y = o
    BY <1>1, ChildFacts
  <1>5. \A y \in Sides : t.child[y][m] # n
    <2> SUFFICES ASSUME NEW y \in Sides, t.child[y][m] = n PROVE FALSE
      OBVIOUS
    <2>1. n \in d[m] /\ m \in d[n] /\ n \notin d[m]
      <3>1. n \in d[m]
        BY <1>1, ChildFacts
      <3>2. n \notin d[m]
        BY <1>1, BelowFacts
      <3> QED
        BY <3>1, <3>2
    <2> QED
      BY <2>1
  <1>6. \A y \in Sides : t.child[y][m] # m /\ t.child[y][n] # n
    BY <1>1, ChildFacts
  <1>7. t.child[s][n] # m
    BY <1>1, <1>4
  <1>8. t2.child[s][n] = t.child[s][n] /\ t2.child[o][n] = b
    BY <1>1, <1>2, <1>6
  <1>9. t2.child[s][m] = n /\ t2.child[o][m] = t.child[o][m]
    BY <1>1, <1>2, <1>5
  <1>10. \A x \in Keys, y \in Sides : x # n /\ x # m =>
           /\ t2.child[y][x] = IF t.child[y][x] = n THEN m ELSE t.child[y][x]
           /\ t.child[y][x] # m
    BY <1>2, <1>4
  <1> QED
    BY <1>1, <1>2, <1>3, <1>5, <1>6, <1>7, <1>8, <1>9, <1>10 DEF t2

Rotated(t, t2, s, n, m) ==
    /\ t2.child[s][n] = t.child[s][n] /\ t2.child[Other(s)][n] = t.child[s][m]
    /\ t2.child[s][m] = n /\ t2.child[Other(s)][m] = t.child[Other(s)][m]
    /\ \A x \in Keys, y \in Sides : x # n /\ x # m =>
         t2.child[y][x] = IF t.child[y][x] = n THEN m ELSE t.child[y][x]
    /\ t2.root = IF n = t.root THEN m ELSE t.root

Exchanges(t, t2, n, m) ==
    \A x \in Keys : t2.color[x] = IF x = n THEN "red" ELSE IF x = m THEN "black" ELSE t.color[x]

(* A red child m of a black node n is raised, and they exchange colors:    *)
(* the step of either loop that changes no count.                          *)
LEMMA RedRotateIs ==
    ASSUME NEW t, NEW d, Tree(t, d), NEW n \in Keys, NEW s \in Sides, NEW o, o = Other(s),
           NEW m, m = t.child[o][n], Red(t, m), ~Red(t, n),
           NEW h, NEW q, NEW z, Balanced(t, h, q, z), q # m, q = n => z = s,
           NEW e, NoRedPair(t, e, Null), e = Null \/ e = t.child[o][m],
           ~Red(t, t.child[s][n]), ~Red(t, t.child[s][m]),
           NEW t2, t2 = Rotate(BlackRed(t, m, n), s, n)
    PROVE  /\ m \in Keys /\ m # n /\ m # t.root
           /\ n \in d[t.root] /\ m \in d[t.root]
           /\ Rotated(t, t2, s, n, m) /\ Exchanges(t, t2, n, m)
           /\ Tree(t2, Turned(t, d, s, n)) /\ Turned(t, d, s, n)[t2.root] = d[t.root]
           /\ Balanced(t2, [h EXCEPT ![n] = h[m], ![m] = h[n]], q, z)
           /\ NoRedPair(t2, Null, Null)
  <1> DEFINE t1 == BlackRed(t, m, n)
             c == t.child[s][n]
             b == t.child[s][m]
             f == t.child[o][m]
             h2 == [h EXCEPT ![n] = h[m], ![m] = h[n]]
  <1>1. /\ m # Null /\ n # Null /\ t \in Trees /\ o \in Sides /\ o # s
        /\ \A x \in Keys, y \in Sides : t.child[y][x] \in Pointers
    BY NullIsNoKey, SideFacts, TreeTypes DEF Red, Tree
  <1>2. m \in Keys
    BY <1>1 DEF Pointers
  <1>3. /\ t1 \in Trees /\ t1.root = t.root /\ t1.parent = t.parent /\ t1.child = t.child
        /\ \A x \in Keys : t1.color[x] =
             IF x = n THEN "red" ELSE IF x = m THEN "black" ELSE t.color[x]
    <2>1. IsBlackRed(t, t1, m, n)
      BY <1>1, <1>2, BlackRedIs
    <2> HIDE DEF t1
    <2> QED
      BY <2>1 DEF IsBlackRed
  <1>4. t2 = Rotate(t1, s, n)
    OBVIOUS
  <1> HIDE DEF t1
  <1>5. Tree(t1, d)
    BY <1>3, PaintKeepsTree
  <1>6. m = t1.child[o][n]
    BY <1>3
  <1>7. Turned(t1, d, s, n) = Turned(t, d, s, n)
    BY <1>3 DEF Turned
  <1>8. Tree(t2, Turned(t, d, s, n)) /\ Turned(t, d, s, n)[t2.root] = d[t.root]
    <2>1. t1.child[Other(s)][n] # Null
      BY <1>1, <1>6
    <2>2. /\ Tree(Rotate(t1, s, n), Turned(t1, d, s, n))
          /\ Turned(t1, d, s, n)[Rotate(t1, s, n).root] = d[t1.root]
      BY <1>5, <2>1, RotateKeepsTree
    <2> QED
      BY <1>3, <1>4, <1>7, <2>2
  <1>9. /\ m # n /\ \A y \in Sides : y = s \/ y = o
        /\ t2.color = t1.color /\ t2.root = IF n = t.root THEN m ELSE t.root
        /\ t2.child[s][n] = c /\ t2.child[o][n] = b
        /\ t2.child[s][m] = n /\ t2.child[o][m] = f
        /\ \A x \in Keys, y \in Sides : x # n /\ x # m =>
             /\ t2.child[y][x] = IF t.child[y][x] = n THEN m ELSE t.child[y][x]
             /\ t.child[y][x] # m
        /\ \A y \in Sides : t.child[y][m] # n /\ t.child[y][m] # m
        /\ c # n /\ c # m /\ m # t.root
    BY <1>1, <1>3, <1>4, <1>5, <1>6, RotateEdges
  <1>10. /\ t.color[m] = "red" /\ t.color[n] = "black"
    BY <1>1, TreeTypes DEF Red, Tree
  <1>11. \A x \in Keys : t2.color[x] =
           IF x = n THEN "red" ELSE IF x = m THEN "black" ELSE t.color[x]
    BY ONLY <1>3, <1>9
  <1>12. /\ b \in Pointers /\ c \in Pointers /\ f \in Pointers
         /\ b # n /\ b # m /\ f # n /\ f # m /\ n \in Pointers /\ m \in Pointers
    BY <1>1, <1>2, <1>9 DEF Pointers
  <1>13. Balanced(t2, h2, q, z)
    <2>1. /\ h \in [Pointers -> Nat] /\ h[Null] = 0
          /\ \A x \in Keys, y \in Sides : h[x] = h[t.child[y][x]] + Weight(t, x) + Extra(q, z, x, y)
      BY DEF Balanced
    <2>2. /\ h2 \in [Pointers -> Nat] /\ h2[Null] = 0 /\ h2[n] = h[m] /\ h2[m] = h[n]
          /\ \A x \in Pointers : x # n /\ x # m => h2[x] = h[x]
      BY <1>1, <1>2, <1>9, <1>12, <2>1 DEF Pointers
    <2> HIDE DEF h2
    <2>3. /\ h[n] = h[c] + 1 + Extra(q, z, n, s) /\ h[n] = h[m] + 1
          /\ h[m] = h[b] /\ h[m] = h[f]
      <3>1. Weight(t, n) = 1 /\ Weight(t, m) = 0 /\ Extra(q, z, n, o) = 0
            /\ Extra(q, z, m, s) = 0 /\ Extra(q, z, m, o) = 0
        BY <1>1, <1>10 DEF Weight, Extra
      <3>2. h[n] = h[c] + Weight(t, n) + Extra(q, z, n, s) /\ h[n] = h[m] + Weight(t, n) + Extra(q, z, n, o)
        BY <1>1, <2>1
      <3>3. h[m] = h[b] + Weight(t, m) + Extra(q, z, m, s) /\ h[m] = h[f] + Weight(t, m) + Extra(q, z, m, o)
        BY <1>1, <1>2, <2>1
      <3>4. h[b] \in Nat /\ h[c] \in Nat /\ h[f] \in Nat /\ h[n] \in Nat /\ h[m] \in Nat
        BY <1>12, <2>1
      <3>5. Extra(q, z, n, s) \in Nat
        BY DEF Extra
      <3> HIDE DEF b, c, f
      <3> QED
        BY <3>1, <3>2, <3>3, <3>4, <3>5
    <2>4. h[b] \in Nat /\ h[c] \in Nat /\ h[f] \in Nat /\ h[n] \in Nat /\ h[m] \in Nat
      BY <1>12, <2>1
    <2>5. h2[b] = h[b] /\ h2[c] = h[c] /\ h2[f] = h[f]
      BY <1>9, <1>12, <2>2
    <2> HIDE DEF b, c, f
    <2>6. Weight(t2, n) = 0 /\ Weight(t2, m) = 1
      BY <1>2, <1>9, <1>11 DEF Weight
    <2>7. Extra(q, z, m, s) = 0 /\ Extra(q, z, m, o) = 0 /\ Extra(q, z, n, o) = 0
          /\ Extra(q, z, n, s) \in Nat
      BY <1>1 DEF Extra
    <2>8. ASSUME NEW x \in Keys, NEW y \in Sides
          PROVE  h2[x] = h2[t2.child[y][x]] + Weight(t2, x) + Extra(q, z, x, y)
      <3>1. CASE x = n /\ y = s
        <4>1. t2.child[y][x] = c
          BY <1>9, <3>1 DEF b, c, f
        <4>2. h2[t2.child[y][x]] = h[c]
          BY <2>2, <2>5, <4>1
        <4>3. h2[x] = h[m] /\ Weight(t2, x) = 0
          BY <2>2, <2>6, <3>1
        <4>4. Extra(q, z, x, y) = Extra(q, z, n, s)
          BY <2>7, <3>1
        <4> QED
          <5>1. h[m] = h[c] + Extra(q, z, n, s)
            BY <2>3, <2>4, <2>7
          <5>2. h[c] + Extra(q, z, n, s) = h[c] + 0 + Extra(q, z, n, s)
            BY <2>4, <2>7
          <5> QED
            BY <4>2, <4>3, <4>4, <5>1, <5>2
      <3>2. CASE x = n /\ y = o
        <4>1. t2.child[y][x] = b
          BY <1>9, <3>2 DEF b, c, f
        <4>2. h2[t2.child[y][x]] = h[b]
          BY <2>2, <2>5, <4>1
        <4>3. h2[x] = h[m] /\ Weight(t2, x) = 0
          BY <2>2, <2>6, <3>2
        <4>4. Extra(q, z, x, y) = 0
          BY <2>7, <3>2
        <4> QED
          <5>1. h[m] = h[b] + 0 + 0
            BY <2>3, <2>4
          <5> QED
            BY <4>2, <4>3, <4>4, <5>1
      <3>3. CASE x = m /\ y = s
        <4>1. t2.child[y][x] = n
          BY <1>9, <3>3 DEF b, c, f
        <4>2. h2[t2.child[y][x]] = h[m]
          BY <2>2, <2>5, <4>1
        <4>3. h2[x] = h[n] /\ Weight(t2, x) = 1
          BY <2>2, <2>6, <3>3
        <4>4. Extra(q, z, x, y) = 0
          BY <2>7, <3>3
        <4> QED
          BY ONLY <2>3, <2>4, <2>7, <4>2, <4>3, <4>4
      <3>4. CASE x = m /\ y = o
        <4>1. t2.child[y][x] = f
          BY <1>9, <3>4 DEF b, c, f
        <4>2. h2[t2.child[y][x]] = h[f]
          BY <2>2, <2>5, <4>1
        <4>3. h2[x] = h[n] /\ Weight(t2, x) = 1
          BY <2>2, <2>6, <3>4
        <4>4. Extra(q, z, x, y) = 0
          BY <2>7, <3>4
        <4> QED
          BY ONLY <2>3, <2>4, <2>7, <4>2, <4>3, <4>4
      <3>5. CASE x # n /\ x # m
        <4>1. t2.child[y][x] = (IF t.child[y][x] = n THEN m ELSE t.child[y][x]) /\ t.child[y][x] # m
          BY <1>9, <3>5
        <4>2. t.child[y][x] \in Pointers
          BY <1>1
        <4>3. h2[t2.child[y][x]] = h[t.child[y][x]]
          BY <2>2, <4>1, <4>2
        <4>4. h2[x] = h[x] /\ Weight(t2, x) = Weight(t, x)
          BY <1>11, <2>2, <3>5 DEF Pointers, Weight
        <4>5. h[x] = h[t.child[y][x]] + Weight(t, x) + Extra(q, z, x, y)
          BY <2>1
        <4> QED
          BY <4>3, <4>4, <4>5
      <3> QED
        BY <1>9, <3>1, <3>2, <3>3, <3>4, <3>5
    <2> QED
      BY <2>2, <2>8 DEF Balanced
  <1>14. NoRedPair(t2, Null, Null)
    <2> SUFFICES ASSUME NEW x \in Keys, NEW y \in Sides, Red(t2, x), Red(t2, t2.child[y][x])
                 PROVE  FALSE
      BY DEF NoRedPair
    <2>1. x # m /\ t2.child[y][x] # m /\ t2.child[y][x] # Null
      BY <1>2, <1>11, <1>9 DEF Red
    <2>2. CASE x = n
      <3>1. t2.child[y][x] = c \/ t2.child[y][x] = b
        BY <1>9, <2>2
      <3>2. Red(t2, c) => Red(t, c)
        <4> HIDE DEF c
        <4> QED
          BY <1>9, <1>11, <1>12 DEF Red, Pointers
      <3>3. Red(t2, b) => Red(t, b)
        <4> HIDE DEF b
        <4> QED
          BY <1>9, <1>11, <1>12 DEF Red, Pointers
      <3> QED
        BY <2>2, <3>1, <3>2, <3>3
    <2>3. CASE x # n
      <3>1. t2.child[y][x] = t.child[y][x] /\ t.child[y][x] # n /\ t.child[y][x] \in Keys
        <4>1. t2.child[y][x] = IF t.child[y][x] = n THEN m ELSE t.child[y][x]
          BY <1>9, <2>1, <2>3
        <4>2. t.child[y][x] # n /\ t2.child[y][x] = t.child[y][x]
          BY <2>1, <4>1
        <4>3. t.child[y][x] \in Pointers
          BY <1>1
        <4> QED
          BY <2>1, <4>2, <4>3 DEF Pointers
      <3>2. Red(t, x) /\ Red(t, t.child[y][x])
        BY <1>11, <2>1, <2>3, <3>1 DEF Red
      <3>3. t.child[y][x] = e
        BY <3>2, NullIsNoKey DEF NoRedPair
      <3>4. e = f
        BY <2>1, <3>1, <3>3
      <3>5. x = m
        <4>1. /\ Tree(t, d) /\ n \in Keys /\ x \in Keys /\ y \in Sides
              /\ t.child[o][m] = t.child[y][x] /\ t.child[o][m] # Null
          BY <2>1, <3>1, <3>3, <3>4, NullIsNoKey
        <4> QED
          BY ONLY <1>1, <1>2, <4>1, ChildFacts
      <3> QED
        BY <2>1, <3>5
    <2> QED
      BY <2>2, <2>3
  <1>15. Rotated(t, t2, s, n, m)
    BY <1>9 DEF Rotated
  <1>16. Exchanges(t, t2, n, m)
    BY <1>11 DEF Exchanges
  <1>17. n \in d[t.root] /\ m \in d[t.root]
    BY <1>1, ChildFacts
  <1> QED
    BY <1>2, <1>8, <1>9, <1>13, <1>14, <1>15, <1>16, <1>17

(* What holds of the tree in every state; D is the set of its nodes.       *)
IsRedBlack(t, D, q, z, e, f) ==
    \E d, h : /\ Tree(t, d) /\ D = d[t.root]
              /\ Balanced(t, h, q, z) /\ NoRedPair(t, e, f) /\ BlackOutside(t, d)
              /\ Red(t, t.root) => t.root = e

LEMMA RedRotate ==
    ASSUME NEW t, NEW D, NEW q, NEW z, NEW e, IsRedBlack(t, D, q, z, e, Null),
           NEW n \in Keys, NEW s \in Sides, NEW o, o = Other(s),
           NEW m, m = t.child[o][n], Red(t, m), ~Red(t, n), q # m, q = n => z = s,
           e = Null \/ e = t.child[o][m], ~Red(t, t.child[s][n]), ~Red(t, t.child[s][m]),
           NEW t2, t2 = Rotate(BlackRed(t, m, n), s, n)
    PROVE  /\ IsRedBlack(t2, D, q, z, Null, Null)
           /\ Rotated(t, t2, s, n, m) /\ Exchanges(t, t2, n, m) /\ m \in Keys /\ m # n
  <1>1. PICK d, h : /\ Tree(t, d) /\ D = d[t.root]
                    /\ Balanced(t, h, q, z) /\ NoRedPair(t, e, Null) /\ BlackOutside(t, d)
                    /\ Red(t, t.root) => t.root = e
    BY DEF IsRedBlack
  <1> DEFINE d2 == Turned(t, d, s, n)
             h2 == [h EXCEPT ![n] = h[m], ![m] = h[n]]
  <1>2. /\ m \in Keys /\ m # n /\ m # t.root /\ n \in d[t.root] /\ m \in d[t.root]
        /\ Rotated(t, t2, s, n, m) /\ Exchanges(t, t2, n, m)
        /\ Tree(t2, d2) /\ d2[t2.root] = d[t.root]
        /\ Balanced(t2, h2, q, z) /\ NoRedPair(t2, Null, Null)
    BY <1>1, RedRotateIs
  <1> HIDE DEF d2, h2
  <1>3. BlackOutside(t2, d2)
    BY ONLY <1>1, <1>2 DEF BlackOutside, Red, Exchanges
  <1>4. ~Red(t2, t2.root)
    <2>1. CASE n = t.root
      BY <1>2, <2>1 DEF Rotated, Exchanges, Red
    <2>2. CASE n # t.root
      <3>1. t2.root = t.root
        BY <1>2, <2>2 DEF Rotated
      <3>2. ~Red(t, t.root)
        <4>1. ASSUME e = t.child[o][m], e # Null PROVE e # t.root
          <5>1. o \in Sides
            BY SideFacts
          <5>2. Tree(t, d) /\ m \in Keys /\ t.child[o][m] # Null
            BY <1>1, <1>2, <4>1
          <5>3. t.child[o][m] # t.root
            BY ONLY <5>1, <5>2, ChildFacts
          <5> QED
            BY <4>1, <5>3
        <4> QED
          BY <1>1, <4>1 DEF Red
      <3>3. t.root \in Pointers
        BY <1>1, TreeTypes DEF Tree
      <3> QED
        BY ONLY <1>2, <2>2, <3>1, <3>2, <3>3 DEF Red, Exchanges, Pointers
    <2> QED
      BY <2>1, <2>2
  <1>5. IsRedBlack(t2, D, q, z, Null, Null)
    <2>1. D = d2[t2.root]
      BY <1>1, <1>2
    <2> QED
      BY <1>2, <1>3, <1>4, <2>1 DEF IsRedBlack
  <1> QED
    BY <1>2, <1>5

-----------------------------------------------------------------------------
(* RB_INSERT_COLOR                                                         *)

LEMMA ConflictFacts ==
    ASSUME NEW t, NEW D, NEW z, NEW e \in Keys, IsRedBlack(t, D, Null, z, e, Null),
           NEW p, p = t.parent[e], Red(t, p), NEW g, g = t.parent[p], Red(t, e)
    PROVE  /\ p \in Keys /\ g \in Keys /\ e # p /\ p # g /\ ~Red(t, g)
           /\ SideOf(t, g, p) \in Sides /\ t.child[SideOf(t, g, p)][g] = p
           /\ \E y \in Sides : t.child[y][p] = e
           /\ p # t.root /\ e # t.root /\ \A y \in Sides : t.child[y][e] # p
  <1>1. PICK d, h : /\ Tree(t, d) /\ D = d[t.root]
                    /\ Balanced(t, h, Null, z) /\ NoRedPair(t, e, Null) /\ BlackOutside(t, d)
                    /\ Red(t, t.root) => t.root = e
    BY DEF IsRedBlack
  <1>2. p # Null /\ e # Null /\ p \in Keys
    BY <1>1, TreeTypes, NullIsNoKey DEF Red, Tree, Pointers
  <1>3. PICK y \in Sides : t.child[y][p] = e
    BY <1>1, <1>2 DEF Tree, LinksAgree
  <1>4. e # p /\ e # t.root /\ p \in d[t.root] /\ e \in d[p]
    BY <1>1, <1>2, <1>3, ChildFacts
  <1>5. p # t.root
    BY <1>1, <1>4
  <1>6. g # Null /\ g \in Keys
    BY <1>1, <1>2, <1>4, <1>5, TreeTypes DEF Tree, LinksAgree, Pointers
  <1>7. SideOf(t, g, p) \in Sides
    BY DEF SideOf, Sides
  <1>8. t.child[SideOf(t, g, p)][g] = p
    BY <1>1, <1>2, <1>6, <1>7, SideOfIs
  <1>9. p # g
    BY ONLY <1>1, <1>2, <1>6, <1>7, <1>8, ChildFacts
  <1>10. ~Red(t, g)
    <2> SUFFICES ASSUME Red(t, g) PROVE FALSE
      OBVIOUS
    <2>1. Red(t, t.child[SideOf(t, g, p)][g])
      BY <1>8
    <2>2. t.child[SideOf(t, g, p)][g] = e \/ g = Null
      BY <1>1, <1>6, <1>7, <2>1 DEF NoRedPair
    <2> QED
      BY <1>4, <1>6, <1>8, <2>2
  <1>11. ASSUME NEW w \in Sides, t.child[w][e] = p PROVE FALSE
    <2>1. p \in d[e]
      BY <1>1, <1>2, <1>11, ChildFacts
    <2>2. d[e] \subseteq d[t.child[y][p]]
      BY <1>3
    <2>3. p \notin d[t.child[y][p]]
      BY <1>1, <1>2, BelowFacts
    <2> QED
      BY <2>1, <2>2, <2>3
  <1> QED
    BY <1>2, <1>3, <1>4, <1>5, <1>6, <1>7, <1>8, <1>9, <1>10, <1>11

(* elm is raised above its parent, which is elm from then on.              *)
LEMMA InnerRotate ==
    ASSUME NEW t, NEW D, NEW z, NEW e \in Keys, IsRedBlack(t, D, Null, z, e, Null), Red(t, e),
           NEW p \in Keys, Red(t, p), NEW s \in Sides, e = t.child[Other(s)][p],
           NEW t2, t2 = Rotate(t, s, p)
    PROVE  /\ IsRedBlack(t2, D, Null, z, p, Null)
           /\ Rotated(t, t2, s, p, e) /\ t2.color = t.color /\ t2 \in Trees
  <1>1. PICK d, h : /\ Tree(t, d) /\ D = d[t.root]
                    /\ Balanced(t, h, Null, z) /\ NoRedPair(t, e, Null) /\ BlackOutside(t, d)
                    /\ Red(t, t.root) => t.root = e
    BY DEF IsRedBlack
  <1> DEFINE o == Other(s)
             d2 == Turned(t, d, s, p)
             b == t.child[s][e]
             c == t.child[s][p]
             f == t.child[o][e]
  <1>2. e # Null /\ p # Null /\ e = t.child[o][p] /\ p \in Pointers /\ e \in Pointers
        /\ \A x \in Keys, y \in Sides : t.child[y][x] \in Pointers
    BY <1>1, NullIsNoKey, TreeTypes DEF Pointers, Tree
  <1>3. Tree(t2, d2) /\ d2[t2.root] = d[t.root]
    BY <1>1, <1>2, RotateKeepsTree
  <1> HIDE DEF d2
  <1>4. /\ e # p /\ o \in Sides /\ o # s /\ \A y \in Sides : y = s \/ y = o
        /\ t2.color = t.color /\ t2.root = IF p = t.root THEN e ELSE t.root
        /\ t2.child[s][p] = c /\ t2.child[o][p] = b
        /\ t2.child[s][e] = p /\ t2.child[o][e] = f
        /\ \A x \in Keys, y \in Sides : x # p /\ x # e =>
             /\ t2.child[y][x] = IF t.child[y][x] = p THEN e ELSE t.child[y][x]
             /\ t.child[y][x] # e
        /\ \A y \in Sides : t.child[y][e] # p /\ t.child[y][e] # e
        /\ c # p /\ c # e /\ e # t.root
    BY <1>1, <1>2, RotateEdges
  <1>5. t.color[e] = "red" /\ t.color[p] = "red"
    BY DEF Red
  <1>6. Balanced(t2, h, Null, z)
    <2>1. /\ h \in [Pointers -> Nat] /\ h[Null] = 0
          /\ \A x \in Keys, y \in Sides : h[x] = h[t.child[y][x]] + Weight(t, x) + Extra(Null, z, x, y)
      BY <1>1 DEF Balanced
    <2>2. \A x \in Keys, y \in Sides : Extra(Null, z, x, y) = 0 /\ Weight(t2, x) = Weight(t, x)
      BY <1>4, NullIsNoKey DEF Extra, Weight
    <2>3. Weight(t, e) = 0 /\ Weight(t, p) = 0
      BY <1>5 DEF Weight
    <2>4. /\ h[b] \in Nat /\ h[c] \in Nat /\ h[f] \in Nat /\ h[e] \in Nat /\ h[p] \in Nat
      BY <1>2, <1>4, <2>1
    <2>5. h[p] = h[c] /\ h[p] = h[e] /\ h[e] = h[b] /\ h[e] = h[f]
      <3>1. h[p] = h[c] + 0 + 0 /\ h[p] = h[e] + 0 + 0
        BY ONLY <1>2, <1>4, <2>1, <2>2, <2>3
      <3>2. h[e] = h[b] + 0 + 0 /\ h[e] = h[f] + 0 + 0
        BY ONLY <1>4, <2>1, <2>2, <2>3
      <3> QED
        BY ONLY <2>4, <3>1, <3>2
    <2> HIDE DEF b, c, f
    <2>6. ASSUME NEW x \in Keys, NEW y \in Sides
          PROVE  h[x] = h[t2.child[y][x]] + Weight(t2, x) + Extra(Null, z, x, y)
      <3>1. CASE x = p
        <4>1. h[t2.child[y][x]] = h[x]
          BY <1>4, <2>5, <3>1
        <4> QED
          BY <2>2, <2>3, <2>4, <3>1, <4>1
      <3>2. CASE x = e
        <4>1. h[t2.child[y][x]] = h[x]
          BY ONLY <1>4, <2>5, <3>2
        <4> QED
          BY ONLY <2>2, <2>3, <2>4, <3>2, <4>1
      <3>3. CASE x # p /\ x # e
        <4>1. h[t2.child[y][x]] = h[t.child[y][x]]
          BY <1>4, <2>5, <3>3
        <4> QED
          BY <2>1, <2>2, <4>1
      <3> QED
        BY <3>1, <3>2, <3>3
    <2> QED
      BY <2>1, <2>6 DEF Balanced
  <1>7. \A x \in Pointers : Red(t2, x) <=> Red(t, x)
    BY <1>4 DEF Red
  <1>8. NoRedPair(t2, p, Null)
    <2> SUFFICES ASSUME NEW x \in Keys, NEW y \in Sides, Red(t2, x), Red(t2, t2.child[y][x]),
                        t2.child[y][x] # p
                 PROVE  FALSE
      BY DEF NoRedPair
    <2>1. \A u \in Keys, w \in Sides : Red(t, u) /\ Red(t, t.child[w][u]) => t.child[w][u] = e
      BY <1>1, NullIsNoKey DEF NoRedPair
    <2>2. CASE x = p
      <3>1. t2.child[y][x] = c \/ t2.child[y][x] = b
        BY <1>4, <2>2
      <3>2. ~Red(t, c)
        BY <1>4, <2>1
      <3>3. ~Red(t, b)
        BY <1>4, <2>1
      <3> HIDE DEF b, c
      <3>4. Red(t, t2.child[y][x])
        BY <1>4 DEF Red
      <3> QED
        BY <3>1, <3>2, <3>3, <3>4
    <2>3. CASE x = e
      <3>1. t2.child[y][x] = f
        BY <1>4, <2>3
      <3>2. ~Red(t, f)
        BY <1>4, <2>1
      <3>3. Red(t, t2.child[y][x])
        BY <1>4 DEF Red
      <3> QED
        BY <3>1, <3>2, <3>3
    <2>4. CASE x # p /\ x # e
      <3>1. Red(t, x)
        BY <1>4 DEF Red
      <3>2. CASE t.child[y][x] = p
        BY <1>4, <2>1, <2>4, <3>1, <3>2
      <3>3. CASE t.child[y][x] # p
        <4>1. t2.child[y][x] = t.child[y][x] /\ t.child[y][x] # e
          BY <1>4, <2>4, <3>3
        <4>2. Red(t, t.child[y][x])
          BY <1>4, <4>1 DEF Red
        <4> QED
          BY <2>1, <3>1, <4>1, <4>2
      <3> QED
        BY <3>2, <3>3
    <2> QED
      BY <2>2, <2>3, <2>4
  <1>9. BlackOutside(t2, d2)
    BY ONLY <1>1, <1>3, <1>4 DEF BlackOutside, Red
  <1>10. ~Red(t2, t2.root)
    <2>1. p # t.root
      BY <1>1, <1>4
    <2> QED
      BY <1>1, <1>4, <2>1 DEF Red
  <1>11. IsRedBlack(t2, D, Null, z, p, Null)
    <2>1. D = d2[t2.root]
      BY <1>1, <1>3
    <2> QED
      BY <1>3, <1>6, <1>8, <1>9, <1>10, <2>1 DEF IsRedBlack
  <1>12. Rotated(t, t2, s, p, e)
    BY <1>4 DEF Rotated
  <1> QED
    BY <1>3, <1>4, <1>11, <1>12 DEF Tree

LEMMA RedBlackFacts ==
    ASSUME NEW t, NEW D, NEW q, NEW z, NEW e, NEW f, IsRedBlack(t, D, q, z, e, f)
    PROVE  /\ t \in Trees /\ NoRedPair(t, e, f) /\ D \subseteq Keys
           /\ t.root \in Pointers /\ (Red(t, t.root) => t.root = e)
           /\ \A x \in Keys, y \in Sides : t.child[y][x] # x /\ t.child[y][x] \in Pointers
           /\ \A x \in Keys, y \in Sides : t.child[y][x] # Null =>
                /\ t.child[Other(y)][x] # t.child[y][x] /\ t.parent[t.child[y][x]] = x
                /\ x \in D /\ t.child[y][x] \in D /\ t.child[y][x] # t.root
                /\ \A w \in Keys, v \in Sides : t.child[v][w] = t.child[y][x] => w = x /\ v = y
  <1>1. PICK d, h : /\ Tree(t, d) /\ D = d[t.root]
                    /\ Balanced(t, h, q, z) /\ NoRedPair(t, e, f) /\ BlackOutside(t, d)
                    /\ Red(t, t.root) => t.root = e
    BY DEF IsRedBlack
  <1>2. t \in Trees /\ t.root \in Pointers /\ D \subseteq Keys
    BY <1>1, TreeTypes, BelowFacts DEF Tree
  <1>3. ASSUME NEW x \in Keys, NEW y \in Sides
        PROVE  t.child[y][x] # x /\ t.child[y][x] \in Pointers
    <2>1. t.child[y][x] \in Pointers
      BY <1>2, TreeTypes
    <2>2. t.child[y][x] # Null => t.child[y][x] # x
      BY <1>1, ChildFacts
    <2> QED
      BY <2>1, <2>2, NullIsNoKey
  <1>4. ASSUME NEW x \in Keys, NEW y \in Sides, t.child[y][x] # Null
        PROVE  /\ t.child[Other(y)][x] # t.child[y][x] /\ t.parent[t.child[y][x]] = x
               /\ x \in D /\ t.child[y][x] \in D /\ t.child[y][x] # t.root
               /\ \A w \in Keys, v \in Sides : t.child[v][w] = t.child[y][x] => w = x /\ v = y
    BY <1>1, <1>4, ChildFacts
  <1> QED
    BY <1>1, <1>2, <1>3, <1>4

LEMMA Weaken ==
    ASSUME NEW t, NEW D, NEW q, NEW z, IsRedBlack(t, D, q, z, Null, Null), NEW e, NEW f
    PROVE  IsRedBlack(t, D, q, z, e, f)
  <1>1. PICK d, h : /\ Tree(t, d) /\ D = d[t.root]
                    /\ Balanced(t, h, q, z) /\ NoRedPair(t, Null, Null) /\ BlackOutside(t, d)
                    /\ Red(t, t.root) => t.root = Null
    BY DEF IsRedBlack
  <1>2. NoRedPair(t, e, f)
    BY <1>1, NullIsNoKey DEF NoRedPair, Red
  <1>3. Red(t, t.root) => t.root = e
    BY <1>1 DEF Red
  <1> QED
    BY <1>1, <1>2, <1>3 DEF IsRedBlack

(* elm is on the outer side of its parent.                                 *)
LEMMA OuterCase ==
    ASSUME NEW t, NEW D, NEW z, NEW e \in Keys, IsRedBlack(t, D, Null, z, e, Null), Red(t, e),
           NEW p \in Keys, Red(t, p), NEW g \in Keys, ~Red(t, g), NEW side \in Sides,
           p = t.child[side][g], e = t.child[side][p], ~Red(t, t.child[Other(side)][g]),
           NEW t2, t2 = Rotate(BlackRed(t, p, g), Other(side), g)
    PROVE  IsRedBlack(t2, D, Null, z, e, Null) /\ Red(t2, e)
  <1> DEFINE s == Other(side)
  <1>1. s \in Sides /\ side = Other(s) /\ side # s
    BY SideFacts
  <1>2. /\ NoRedPair(t, e, Null) /\ p # Null /\ g # Null /\ e # Null
        /\ e # p /\ p # g
    BY RedBlackFacts, NullIsNoKey
  <1>3. ~Red(t, t.child[s][p])
    <2>1. t.child[s][p] # e
      BY <1>1, <1>2, RedBlackFacts
    <2> QED
      BY <1>1, <1>2, <2>1 DEF NoRedPair
  <1>4. e # g
    BY <1>2, RedBlackFacts
  <1>5. t2 = Rotate(BlackRed(t, p, g), s, g)
    OBVIOUS
  <1> HIDE DEF s
  <1>6. IsRedBlack(t2, D, Null, z, Null, Null) /\ Exchanges(t, t2, g, p)
    <2>1. ~Red(t, t.child[s][g])
      BY DEF s
    <2> QED
      BY <1>1, <1>2, <1>3, <1>5, <2>1, RedRotate
  <1>7. Red(t2, e)
    BY <1>2, <1>4, <1>6 DEF Exchanges, Red
  <1> QED
    BY <1>6, <1>7, Weaken

LEMMA InnerCase ==
    ASSUME NEW t, NEW D, NEW z, NEW e \in Keys, IsRedBlack(t, D, Null, z, e, Null), Red(t, e),
           NEW p \in Keys, Red(t, p), NEW g \in Keys, ~Red(t, g), NEW side \in Sides,
           p = t.child[side][g], e = t.child[Other(side)][p], ~Red(t, t.child[Other(side)][g]),
           NEW t1, t1 = Rotate(t, side, p),
           NEW t2, t2 = Rotate(BlackRed(t1, e, g), Other(side), g)
    PROVE  IsRedBlack(t2, D, Null, z, p, Null) /\ Red(t2, p)
  <1> DEFINE s == Other(side)
  <1>1. s \in Sides /\ side = Other(s) /\ side # s
    BY SideFacts
  <1>2. /\ NoRedPair(t, e, Null) /\ p # Null /\ g # Null /\ e # Null
        /\ e # p /\ p # g
    BY <1>1, RedBlackFacts, NullIsNoKey
  <1>3. IsRedBlack(t1, D, Null, z, p, Null) /\ Rotated(t, t1, side, p, e) /\ t1.color = t.color
    BY InnerRotate
  <1>4. e # g
    <2>1. e = t.child[s][p]
      OBVIOUS
    <2> QED
      BY <1>2
  <1>5. e = t1.child[side][g] /\ p = t1.child[side][e]
    BY <1>2, <1>3, <1>4 DEF Rotated
  <1>6. t1.child[s][g] = t.child[s][g]
    BY <1>1, <1>2, <1>3, <1>4 DEF Rotated
  <1>7. \A x : Red(t1, x) <=> Red(t, x)
    BY <1>3 DEF Red
  <1>8. ~Red(t1, t1.child[Other(side)][g]) /\ Red(t1, e) /\ ~Red(t1, g) /\ Red(t1, p)
    BY <1>6, <1>7
  <1> QED
    BY <1>3, <1>5, <1>8, OuterCase

(* With a red uncle, a black node moves from the grandparent to its        *)
(* children.                                                               *)
LEMMA RecolorCase ==
    ASSUME NEW t, NEW D, NEW z, NEW e \in Keys, IsRedBlack(t, D, Null, z, e, Null),
           NEW p \in Keys, Red(t, p), NEW g \in Keys, ~Red(t, g), NEW side \in Sides,
           p = t.child[side][g], \E y \in Sides : t.child[y][p] = e,
           NEW u, u = t.child[Other(side)][g], Red(t, u),
           NEW t2, t2 = BlackRed(Paint(t, u, "black"), p, g)
    PROVE  IsRedBlack(t2, D, Null, z, g, Null) /\ Red(t2, g)
  <1>1. PICK d, h : /\ Tree(t, d) /\ D = d[t.root]
                    /\ Balanced(t, h, Null, z) /\ NoRedPair(t, e, Null) /\ BlackOutside(t, d)
                    /\ Red(t, t.root) => t.root = e
    BY DEF IsRedBlack
  <1> DEFINE t1 == Paint(t, u, "black")
             o == Other(side)
             h2 == [h EXCEPT ![p] = h[p] + 1, ![u] = h[u] + 1]
  <1>2. /\ t \in Trees /\ o \in Sides /\ o # side /\ u = t.child[o][g]
        /\ \A y \in Sides : y = side \/ y = o
        /\ \A x \in Keys, y \in Sides : t.child[y][x] # x /\ t.child[y][x] \in Pointers
    BY RedBlackFacts, SideFacts
  <1>3. u # Null /\ p # Null /\ g # Null
    BY NullIsNoKey DEF Red
  <1>4. u \in Keys /\ u # g /\ p # g /\ u # p
    <2>1. u \in Keys /\ u # g /\ p # g
      BY <1>2, <1>3 DEF Pointers
    <2>2. u # p
      BY <1>2, <1>3, RedBlackFacts
    <2> QED
      BY <2>1, <2>2
  <1>5. /\ \A x \in Keys, y \in Sides : t.child[y][x] = p => x = g /\ y = side
        /\ \A x \in Keys, y \in Sides : t.child[y][x] = u => x = g /\ y = o
        /\ \A x \in Keys, y \in Sides : t.child[y][x] = e => x = p
        /\ g \in D
    <2>1. \A x \in Keys, y \in Sides : t.child[y][x] = p => x = g /\ y = side
      BY <1>3, RedBlackFacts
    <2>2. \A x \in Keys, y \in Sides : t.child[y][x] = u => x = g /\ y = o
      BY <1>2, <1>3, RedBlackFacts
    <2>3. \A x \in Keys, y \in Sides : t.child[y][x] = e => x = p
      BY NullIsNoKey, RedBlackFacts
    <2>4. g \in D
      BY <1>3, RedBlackFacts
    <2> QED
      BY <2>1, <2>2, <2>3, <2>4
  <1> HIDE DEF o
  <1>6. /\ t2 \in Trees /\ t2.root = t.root /\ t2.parent = t.parent /\ t2.child = t.child
        /\ \A x \in Keys : t2.color[x] =
             IF x = g THEN "red" ELSE IF x = p \/ x = u THEN "black" ELSE t.color[x]
    <2>1. /\ t1 \in Trees /\ t1.root = t.root /\ t1.parent = t.parent /\ t1.child = t.child
          /\ \A x \in Keys : t1.color[x] = IF x = u THEN "black" ELSE t.color[x]
      <3>1. u \in Pointers /\ t \in Trees /\ "black" \in {"red", "black"}
        BY <1>2, <1>4 DEF Pointers
      <3>2. t1 \in Trees /\ t1.root = t.root /\ t1.parent = t.parent /\ t1.child = t.child
        BY <3>1, PaintIs
      <3>3. \A x \in Keys : t1.color[x] = IF x = u THEN "black" ELSE t.color[x]
        BY <3>1, PaintIs
      <3> QED
        BY <3>2, <3>3
    <2>2. t2 = BlackRed(t1, p, g)
      OBVIOUS
    <2> HIDE DEF t1
    <2>3. IsBlackRed(t1, t2, p, g)
      BY <2>1, <2>2, BlackRedIs
    <2> QED
      BY ONLY <1>4, <2>1, <2>3 DEF IsBlackRed
  <1>7. Tree(t2, d)
    BY <1>1, <1>6, PaintKeepsTree
  <1>8. t.color[p] = "red" /\ t.color[u] = "red" /\ t.color[g] = "black"
    BY <1>2, <1>3, TreeTypes DEF Red
  <1>9. Balanced(t2, h2, Null, z)
    <2>1. /\ h \in [Pointers -> Nat] /\ h[Null] = 0
          /\ \A x \in Keys, y \in Sides : h[x] = h[t.child[y][x]] + Weight(t, x) + Extra(Null, z, x, y)
      BY <1>1 DEF Balanced
    <2>2. /\ h2 \in [Pointers -> Nat] /\ h2[Null] = 0
          /\ h2[p] = h[p] + 1 /\ h2[u] = h[u] + 1
          /\ \A x \in Pointers : x # p /\ x # u => h2[x] = h[x]
      BY ONLY <1>3, <1>4, <2>1 DEF Pointers
    <2> HIDE DEF h2
    <2>3. \A x \in Keys, y \in Sides : Extra(Null, z, x, y) = 0
      BY NullIsNoKey DEF Extra
    <2>4. \A x \in Keys, y \in Sides : h[x] \in Nat /\ h[t.child[y][x]] \in Nat
      BY <1>2, <2>1 DEF Pointers
    <2>5. ASSUME NEW x \in Keys, NEW y \in Sides
          PROVE  h2[x] = h2[t2.child[y][x]] + Weight(t2, x) + Extra(Null, z, x, y)
      <3>1. /\ h[x] = h[t.child[y][x]] + Weight(t, x) + 0 /\ Extra(Null, z, x, y) = 0
            /\ h[x] \in Nat /\ h[t.child[y][x]] \in Nat /\ t2.child[y][x] = t.child[y][x]
            /\ t.child[y][x] \in Pointers
        BY ONLY <1>2, <1>6, <2>1, <2>3, <2>4
      <3>2. CASE x = g
        <4>1. h2[x] = h[x] /\ h2[t.child[y][x]] = h[t.child[y][x]] + 1
          BY <1>2, <1>4, <2>2, <3>2 DEF Pointers
        <4>2. Weight(t, x) = 1 /\ Weight(t2, x) = 0
          BY <1>6, <1>8, <3>2 DEF Weight
        <4> QED
          BY ONLY <3>1, <4>1, <4>2
      <3>3. CASE x = p \/ x = u
        <4>1. h2[x] = h[x] + 1 /\ Weight(t, x) = 0 /\ Weight(t2, x) = 1
          BY <1>4, <1>6, <1>8, <2>2, <3>3 DEF Weight
        <4>2. t.child[y][x] # p /\ t.child[y][x] # u
          BY <1>4, <1>5, <3>3
        <4>3. h2[t.child[y][x]] = h[t.child[y][x]]
          BY <2>2, <3>1, <4>2
        <4> QED
          BY ONLY <3>1, <4>1, <4>3
      <3>4. CASE x # g /\ x # p /\ x # u
        <4>1. h2[x] = h[x] /\ Weight(t2, x) = Weight(t, x)
          BY <1>6, <2>2, <3>4 DEF Weight, Pointers
        <4>2. t.child[y][x] # p /\ t.child[y][x] # u
          BY <1>5, <3>4
        <4>3. h2[t.child[y][x]] = h[t.child[y][x]]
          BY <2>2, <3>1, <4>2
        <4> QED
          BY <3>1, <4>1, <4>3
      <3> QED
        BY <3>2, <3>3, <3>4
    <2> QED
      BY <2>2, <2>5 DEF Balanced
  <1>10. NoRedPair(t2, g, Null)
    <2> SUFFICES ASSUME NEW x \in Keys, NEW y \in Sides, Red(t2, x), Red(t2, t2.child[y][x]),
                        t2.child[y][x] # g
                 PROVE  FALSE
      BY DEF NoRedPair
    <2> t2.child[y][x] = t.child[y][x]
      BY <1>6
    <2>1. /\ x # p /\ x # u /\ t.child[y][x] # p /\ t.child[y][x] # u
          /\ t.child[y][x] \in Keys
      BY <1>2, <1>4, <1>6 DEF Red, Pointers
    <2>2. x # g
      BY <1>2, <2>1
    <2>3. Red(t, x) /\ Red(t, t.child[y][x])
      BY <1>6, <2>1, <2>2 DEF Red
    <2>4. t.child[y][x] = e
      BY <1>1, <2>3, NullIsNoKey DEF NoRedPair
    <2> QED
      BY <1>5, <2>1, <2>4
  <1>11. BlackOutside(t2, d)
    BY ONLY <1>1, <1>5, <1>6 DEF BlackOutside, Red
  <1>12. Red(t2, t2.root) => t2.root = g
    <2>1. e # t.root /\ t.root \in Pointers
      BY NullIsNoKey, RedBlackFacts
    <2> QED
      BY <1>1, <1>6, <2>1 DEF Red, Pointers
  <1>13. Red(t2, g)
    BY <1>3, <1>6 DEF Red
  <1>14. D = d[t2.root]
    BY <1>1, <1>6
  <1> QED
    BY <1>7, <1>9, <1>10, <1>11, <1>12, <1>13, <1>14 DEF IsRedBlack

(* Without a conflict, or with elm at the root, painting the root ends it. *)
LEMMA ConflictGone ==
    ASSUME NEW t, NEW D, NEW z, NEW e \in Keys, IsRedBlack(t, D, Null, z, e, Null),
           ~Red(t, t.parent[e])
    PROVE  IsRedBlack(t, D, Null, z, t.root, t.root)
  <1>1. PICK d, h : /\ Tree(t, d) /\ D = d[t.root]
                    /\ Balanced(t, h, Null, z) /\ NoRedPair(t, e, Null) /\ BlackOutside(t, d)
                    /\ Red(t, t.root) => t.root = e
    BY DEF IsRedBlack
  <1>2. NoRedPair(t, t.root, t.root)
    <2> SUFFICES ASSUME NEW x \in Keys, NEW y \in Sides, Red(t, x), Red(t, t.child[y][x])
                 PROVE  FALSE
      BY DEF NoRedPair
    <2>1. t.child[y][x] = e
      BY <1>1, NullIsNoKey DEF NoRedPair
    <2>2. t.parent[e] = x
      BY <1>1, <2>1, NullIsNoKey DEF Tree, LinksAgree
    <2> QED
      BY <2>2
  <1> QED
    BY <1>1, <1>2 DEF IsRedBlack

(* A red node becomes black: the root, or one below which a black node is  *)
(* missing.                                                                *)
LEMMA PaintBlack ==
    ASSUME NEW t, NEW D, NEW q, NEW z, NEW n \in Pointers, IsRedBlack(t, D, q, z, n, n),
           \/ q = Null /\ n = t.root
           \/ q \in Keys /\ z \in Sides /\ t.child[z][q] = n /\ Red(t, n),
           NEW t2, t2 = Paint(t, n, "black"), NEW z2
    PROVE  IsRedBlack(t2, D, Null, z2, Null, Null)
  <1>1. PICK d, h : /\ Tree(t, d) /\ D = d[t.root]
                    /\ Balanced(t, h, q, z) /\ NoRedPair(t, n, n) /\ BlackOutside(t, d)
                    /\ Red(t, t.root) => t.root = n
    BY DEF IsRedBlack
  <1>2. /\ t2 \in Trees /\ t2.root = t.root /\ t2.parent = t.parent /\ t2.child = t.child
        /\ \A x \in Keys : t2.color[x] = IF x = n THEN "black" ELSE t.color[x]
    <2>1. t \in Trees /\ "black" \in {"red", "black"}
      BY RedBlackFacts
    <2>2. t2 \in Trees /\ t2.root = t.root /\ t2.parent = t.parent /\ t2.child = t.child
      BY <2>1, PaintIs
    <2>3. \A x \in Keys : t2.color[x] = IF x = n THEN "black" ELSE t.color[x]
      BY <2>1, PaintIs
    <2> QED
      BY <2>2, <2>3
  <1> DEFINE up == IF n = Null THEN 0 ELSE 1 - Weight(t, n)
             h2 == [h EXCEPT ![n] = h[n] + up]
  <1>3. up \in {0, 1} /\ (n = Null => up = 0)
    BY DEF Weight
  <1>4. Tree(t2, d)
    BY <1>1, <1>2, PaintKeepsTree
  <1>5. /\ \A x \in Keys, y \in Sides : t.child[y][x] # x /\ t.child[y][x] \in Pointers
        /\ \A x \in Keys, y \in Sides : t.child[y][x] # Null =>
             /\ t.child[y][x] # t.root
             /\ \A w \in Keys, v \in Sides : t.child[v][w] = t.child[y][x] => w = x /\ v = y
    BY RedBlackFacts
  <1>6. Balanced(t2, h2, Null, z2)
    <2>1. /\ h \in [Pointers -> Nat] /\ h[Null] = 0
          /\ \A x \in Keys, y \in Sides : h[x] = h[t.child[y][x]] + Weight(t, x) + Extra(q, z, x, y)
      BY <1>1 DEF Balanced
    <2>2. n \in Keys => up + Weight(t, n) = 1 /\ Weight(t2, n) = 1
      BY <1>2, NullIsNoKey DEF Weight
    <2> HIDE DEF up
    <2>3. /\ h2 \in [Pointers -> Nat] /\ h2[Null] = 0 /\ h2[n] = h[n] + up
          /\ \A x \in Pointers : x # n => h2[x] = h[x]
      <3>1. h[n] + up \in Nat /\ h[n] \in Nat
        BY <1>3, <2>1
      <3> QED
        BY <1>3, <2>1, <3>1 DEF Pointers
    <2> HIDE DEF h2
    <2>4. ASSUME NEW x \in Keys, NEW y \in Sides
          PROVE  h2[x] = h2[t2.child[y][x]] + Weight(t2, x) + Extra(Null, z2, x, y)
      <3> DEFINE c == t.child[y][x]
      <3>1. /\ h[x] = h[c] + Weight(t, x) + Extra(q, z, x, y) /\ Extra(Null, z2, x, y) = 0
            /\ t2.child[y][x] = c /\ c \in Pointers /\ c # x /\ x \in Pointers
        BY <1>2, <1>5, <2>1, NullIsNoKey DEF Extra, Pointers
      <3>2. h[x] \in Nat /\ h[c] \in Nat /\ Weight(t, x) \in Nat /\ Weight(t2, x) \in Nat
        BY <2>1, <3>1 DEF Weight
      <3>3. h2[x] = h[x] + Weight(t2, x) - Weight(t, x)
        <4>1. CASE x = n
          BY <1>3, <2>2, <2>3, <3>2, <4>1 DEF Weight
        <4>2. CASE x # n
          <5>1. h2[x] = h[x] /\ Weight(t2, x) = Weight(t, x)
            BY <1>2, <2>3, <3>1, <4>2 DEF Weight
          <5> QED
            BY <3>2, <5>1
        <4> QED
          BY <4>1, <4>2
      <3>4. h2[c] = h[c] + Extra(q, z, x, y) /\ Extra(q, z, x, y) \in Nat
        <4>1. CASE q = Null /\ n = t.root
          <5>1. Extra(q, z, x, y) = 0
            BY <4>1, NullIsNoKey DEF Extra
          <5>2. c = n => c = Null
            BY <1>5, <4>1
          <5>3. h2[c] = h[c]
            BY <1>3, <2>1, <2>3, <3>1, <5>2
          <5> QED
            BY <3>2, <5>1, <5>3
        <4>2. CASE q \in Keys /\ z \in Sides /\ t.child[z][q] = n /\ Red(t, n)
          <5>1. n # Null /\ n \in Keys /\ t.color[n] = "red"
            BY <4>2 DEF Red, Pointers
          <5>2. up = 1
            BY <2>2, <5>1, <1>3 DEF Weight
          <5>3. CASE x = q /\ y = z
            BY <2>3, <4>2, <5>2, <5>3 DEF Extra
          <5>4. CASE ~(x = q /\ y = z)
            <6>1. c # n
              BY <1>5, <4>2, <5>1, <5>4
            <6> QED
              BY <2>3, <3>1, <3>2, <5>4, <6>1 DEF Extra
          <5> QED
            BY <5>3, <5>4
        <4> QED
          BY <4>1, <4>2
      <3> HIDE DEF c
      <3> QED
        BY <3>1, <3>2, <3>3, <3>4
    <2> QED
      BY <2>3, <2>4 DEF Balanced
  <1>7. NoRedPair(t2, Null, Null)
    <2> SUFFICES ASSUME NEW x \in Keys, NEW y \in Sides, Red(t2, x), Red(t2, t2.child[y][x])
                 PROVE  FALSE
      BY DEF NoRedPair
    <2>1. t2.child[y][x] = t.child[y][x] /\ t.child[y][x] \in Pointers
      BY <1>2, <1>5
    <2>2. x # n /\ t.child[y][x] # n /\ Red(t, x) /\ Red(t, t.child[y][x])
      BY <1>2, <2>1 DEF Red, Pointers
    <2> QED
      BY <1>1, <2>2 DEF NoRedPair
  <1>8. BlackOutside(t2, d)
    BY <1>1, <1>2 DEF BlackOutside, Red
  <1>9. ~Red(t2, t2.root)
    <2>1. t.root \in Pointers
      BY RedBlackFacts
    <2> QED
      BY <1>1, <1>2, <2>1 DEF Red, Pointers
  <1>10. D = d[t2.root]
    BY <1>1, <1>2
  <1> QED
    BY <1>4, <1>6, <1>7, <1>8, <1>9, <1>10 DEF IsRedBlack

(* RB_INSERT                                                               *)
LEMMA LeafKeeps ==
    ASSUME NEW t, NEW D, NEW z, IsRedBlack(t, D, Null, z, Null, Null), NEW k \in Keys, k \notin D,
           NEW t2, t2 = Leaf(t, k), NEW z2
    PROVE  IsRedBlack(t2, D \cup {k}, Null, z2, k, Null) /\ Red(t2, k)
  <1>1. PICK d, h : /\ Tree(t, d) /\ D = d[t.root]
                    /\ Balanced(t, h, Null, z) /\ NoRedPair(t, Null, Null) /\ BlackOutside(t, d)
                    /\ Red(t, t.root) => t.root = Null
    BY DEF IsRedBlack
  <1> DEFINE p == ParentFor(t, k)
             d2 == Grown(d, k, p)
             h2 == [h EXCEPT ![k] = 0]
  <1>2. Tree(t2, d2) /\ d2[t2.root] = D \cup {k}
    BY <1>1, LeafKeepsTree
  <1> HIDE DEF d2
  <1>3. /\ p # Null => p \in Keys /\ t.child[Toward(k, p)][p] = Null
        /\ t2 \in Trees /\ t2.root = IF p = Null THEN k ELSE t.root
        /\ \A x \in Keys : t2.color[x] = IF x = k THEN "red" ELSE t.color[x]
        /\ \A x \in Keys, y \in Sides : t2.child[y][x] =
             IF x = k THEN Null ELSE IF x = p /\ y = Toward(k, p) THEN k ELSE t.child[y][x]
    <2>1. k \notin d[t.root]
      BY <1>1
    <2>2. p # Null => p \in Hosts(t, d, k, t.root) /\ p \in Keys
      BY <1>1, <2>1, LeafIs
    <2>3. t2 \in Trees /\ t2.root = IF p = Null THEN k ELSE t.root
      BY <1>1, <2>1, LeafIs
    <2>4. \A x \in Keys : t2.color[x] = IF x = k THEN "red" ELSE t.color[x]
      BY <1>1, <2>1, LeafIs
    <2>5. \A x \in Keys, y \in Sides : t2.child[y][x] =
             IF x = k THEN Null ELSE IF x = p /\ y = Toward(k, p) THEN k ELSE t.child[y][x]
      BY <1>1, <2>1, LeafIs
    <2> HIDE DEF p
    <2> QED
      BY <2>2, <2>3, <2>4, <2>5 DEF Hosts
  <1> HIDE DEF p
  <1>4. /\ k # Null /\ t.root # k
        /\ \A x \in Keys, y \in Sides : t.child[y][x] # k /\ t.child[y][x] \in Pointers
        /\ \A y \in Sides : t.child[y][k] = Null
    <2>1. k \notin d[t.root] /\ k # Null
      BY <1>1, NullIsNoKey
    <2> QED
      BY <1>1, <2>1, OutsideFacts, RedBlackFacts
  <1>5. Balanced(t2, h2, Null, z2)
    <2>1. /\ h \in [Pointers -> Nat] /\ h[Null] = 0
          /\ \A x \in Keys, y \in Sides : h[x] = h[t.child[y][x]] + Weight(t, x) + Extra(Null, z, x, y)
      BY <1>1 DEF Balanced
    <2>2. /\ h2 \in [Pointers -> Nat] /\ h2[Null] = 0 /\ h2[k] = 0
          /\ \A x \in Pointers : x # k => h2[x] = h[x]
      BY <1>4, <2>1 DEF Pointers
    <2> HIDE DEF h2
    <2>3. ASSUME NEW x \in Keys, NEW y \in Sides
          PROVE  h2[x] = h2[t2.child[y][x]] + Weight(t2, x) + Extra(Null, z2, x, y)
      <3>1. Extra(Null, z, x, y) = 0 /\ Extra(Null, z2, x, y) = 0
        BY NullIsNoKey DEF Extra
      <3>2. CASE x = k
        <4>1. t2.child[y][x] = Null /\ Weight(t2, x) = 0
          BY <1>3, <3>2 DEF Weight
        <4> QED
          BY <2>2, <3>1, <3>2, <4>1
      <3>3. CASE x # k
        <4>1. Weight(t2, x) = Weight(t, x) /\ h2[x] = h[x]
          BY <1>3, <2>2, <3>3 DEF Weight, Pointers
        <4>2. h2[t2.child[y][x]] = h[t.child[y][x]]
          <5>1. CASE x = p /\ y = Toward(k, p)
            BY <1>3, <2>1, <2>2, <3>3, <5>1, NullIsNoKey
          <5>2. CASE ~(x = p /\ y = Toward(k, p))
            BY <1>3, <1>4, <2>2, <3>3, <5>2
          <5> QED
            BY <5>1, <5>2
        <4> QED
          BY <2>1, <3>1, <4>1, <4>2
      <3> QED
        BY <3>2, <3>3
    <2> QED
      BY <2>2, <2>3 DEF Balanced
  <1>6. NoRedPair(t2, k, Null)
    <2> SUFFICES ASSUME NEW x \in Keys, NEW y \in Sides, Red(t2, x), Red(t2, t2.child[y][x]),
                        t2.child[y][x] # k
                 PROVE  FALSE
      BY DEF NoRedPair
    <2>1. x # k /\ t2.child[y][x] = t.child[y][x] /\ t.child[y][x] \in Pointers
      BY <1>3, <1>4 DEF Red
    <2>2. Red(t, x) /\ Red(t, t.child[y][x])
      BY <1>3, <2>1 DEF Red, Pointers
    <2> QED
      BY <1>1, <2>2, NullIsNoKey DEF NoRedPair, Red
  <1>7. BlackOutside(t2, d2)
    BY <1>1, <1>2, <1>3 DEF BlackOutside, Red
  <1>8. Red(t2, t2.root) => t2.root = k
    <2>1. t.root \in Pointers
      BY RedBlackFacts
    <2> QED
      BY <1>1, <1>3, <1>4, <2>1 DEF Red, Pointers
  <1>9. Red(t2, k)
    BY <1>3, <1>4 DEF Red
  <1> QED
    BY <1>2, <1>5, <1>6, <1>7, <1>8, <1>9 DEF IsRedBlack

-----------------------------------------------------------------------------
(* RB_REMOVE: with a black node n, a black node is lost on the link to its *)
(* child.                                                                  *)
Gap(t, n) == IF Red(t, n) THEN Null ELSE t.parent[n]

LEMMA UnlinkBalanced ==
    ASSUME NEW t, NEW d, Tree(t, d), NEW h, NEW z, Balanced(t, h, Null, z), NoRedPair(t, Null, Null),
           NEW n \in d[t.root], NEW s \in Sides, t.child[s][n] = Null,
           NEW c, c = t.child[Other(s)][n], NEW v, v = Forget(Unlink(t, n, c), n),
           NEW p, p = t.parent[n], NEW w, w = SideOf(t, p, n)
    PROVE  /\ Balanced(v, [h EXCEPT ![n] = 1], Gap(t, n), w)
           /\ NoRedPair(v, c, c) /\ (Red(t, n) => NoRedPair(v, Null, Null))
           /\ p # Null => p \in Keys /\ w \in Sides /\ v.child[w][p] = c
           /\ p = Null <=> n = t.root
           /\ c \in Pointers /\ c # n /\ c # t.root /\ n \in Keys
  <1> DEFINE o == Other(s)
             h2 == [h EXCEPT ![n] = 1]
             q == Gap(t, n)
  <1>1. /\ n \in Keys /\ t \in Trees /\ o \in Sides /\ \A y \in Sides : y = s \/ y = o
        /\ \A x \in Keys, y \in Sides : t.child[y][x] \in Pointers
        /\ p \in Pointers /\ w \in Sides
    <2>1. n \in Keys /\ t \in Trees
      BY BelowFacts, TreeTypes DEF Tree
    <2> QED
      BY <2>1, SideFacts, TreeTypes DEF SideOf, Sides
  <1>2. /\ \A x \in Keys : v.color[x] = IF x = n THEN "black" ELSE t.color[x]
        /\ \A x \in Keys, y \in Sides : v.child[y][x] =
             IF x = n THEN Null ELSE IF t.child[y][x] = n THEN c ELSE t.child[y][x]
        /\ c \in Pointers /\ c # n /\ c # t.root
    <2> DEFINE d2 == Without(d, n)
    <2>1. d2 = Without(d, n)
      OBVIOUS
    <2> HIDE DEF d2
    <2>2. \A x \in Keys : v.color[x] = IF x = n THEN "black" ELSE t.color[x]
      BY <2>1, UnlinkKeepsTree
    <2>3. \A x \in Keys, y \in Sides : v.child[y][x] =
             IF x = n THEN Null ELSE IF t.child[y][x] = n THEN c ELSE t.child[y][x]
      BY <2>1, UnlinkKeepsTree
    <2>4. c \in Pointers /\ c # n /\ c # t.root
      BY <2>1, UnlinkKeepsTree
    <2> QED
      BY <2>2, <2>3, <2>4
  <1>3. p # Null => p \in Keys /\ p # n /\ \A y \in Sides : t.child[y][p] = n <=> y = w
    <2>1. p # Null => p \in Keys /\ \E y \in Sides : t.child[y][p] = n
      BY <1>1 DEF Tree, LinksAgree, Pointers
    <2>2. p # Null => p # n
      BY <1>1, <2>1, ChildFacts, NullIsNoKey
    <2>3. p # Null => \A y \in Sides : t.child[y][p] = n <=> y = w
      BY <1>1, SideOfIs
    <2> QED
      BY <2>1, <2>2, <2>3
  <1>4. \A x \in Keys, y \in Sides : t.child[y][x] = n => x = p /\ y = w
    <2>1. \A x \in Keys, y \in Sides : t.child[y][x] = n => x = p
      BY <1>1, NullIsNoKey DEF Tree, LinksAgree
    <2> QED
      BY <1>3, <2>1, NullIsNoKey
  <1>5. p = Null <=> n = t.root
    BY <1>1, NullIsNoKey DEF Tree, LinksAgree
  <1>6. Balanced(v, h2, q, w)
    <2>1. /\ h \in [Pointers -> Nat] /\ h[Null] = 0
          /\ \A x \in Keys, y \in Sides : h[x] = h[t.child[y][x]] + Weight(t, x) + Extra(Null, z, x, y)
      BY DEF Balanced
    <2>2. \A x \in Keys, y \in Sides : Extra(Null, z, x, y) = 0
      BY NullIsNoKey DEF Extra
    <2>3. /\ h2 \in [Pointers -> Nat] /\ h2[Null] = 0 /\ h2[n] = 1
          /\ \A x \in Pointers : x # n => h2[x] = h[x]
      BY <1>1, <2>1, NullIsNoKey DEF Pointers
    <2> HIDE DEF h2
    <2>4. h[n] = h[c] + Weight(t, n) /\ h[c] \in Nat /\ Weight(t, n) \in Nat
      <3>1. h[n] = h[c] + Weight(t, n) + 0
        BY <1>1, <2>1, <2>2
      <3>2. h[c] \in Nat /\ Weight(t, n) \in Nat
        BY <1>2, <2>1 DEF Weight
      <3> QED
        BY <3>1, <3>2
    <2>5. q # n
      BY <1>1, <1>3, NullIsNoKey DEF Gap
    <2>6. ASSUME NEW x \in Keys, NEW y \in Sides
          PROVE  h2[x] = h2[v.child[y][x]] + Weight(v, x) + Extra(q, w, x, y)
      <3>1. CASE x = n
        <4>1. v.child[y][x] = Null /\ Weight(v, x) = 1 /\ Extra(q, w, x, y) = 0
          BY <1>2, <2>5, <3>1 DEF Weight, Extra
        <4> QED
          BY <2>3, <3>1, <4>1
      <3>2. CASE x # n /\ t.child[y][x] = n
        <4>1. x = p /\ y = w /\ v.child[y][x] = c
          BY <1>2, <1>4, <3>2
        <4>2. Extra(q, w, x, y) = Weight(t, n)
          BY <1>1, <4>1, NullIsNoKey, TreeTypes DEF Extra, Weight, Gap, Red
        <4>3. Weight(v, x) = Weight(t, x) /\ h2[x] = h[x] /\ h2[c] = h[c]
              /\ Weight(t, x) \in Nat
          BY <1>2, <2>3, <3>2 DEF Weight, Pointers
        <4>4. h[x] = h[n] + Weight(t, x) + 0
          BY <2>1, <2>2, <3>2
        <4> QED
          BY <2>4, <4>1, <4>2, <4>3, <4>4
      <3>3. CASE x # n /\ t.child[y][x] # n
        <4>1. v.child[y][x] = t.child[y][x] /\ t.child[y][x] \in Pointers
          BY <1>1, <1>2, <3>3
        <4>2. Extra(q, w, x, y) = 0
          BY <1>3, <3>3, NullIsNoKey DEF Extra, Gap
        <4>3. Weight(v, x) = Weight(t, x) /\ h2[x] = h[x] /\ h2[t.child[y][x]] = h[t.child[y][x]]
          BY <1>2, <2>3, <3>3, <4>1 DEF Weight, Pointers
        <4>4. h[x] = h[t.child[y][x]] + Weight(t, x) + 0
          BY <2>1, <2>2
        <4> QED
          BY <4>1, <4>2, <4>3, <4>4
      <3> QED
        BY <3>1, <3>2, <3>3
    <2> QED
      BY <2>3, <2>6 DEF Balanced
  <1>7. ASSUME NEW x \in Keys, NEW y \in Sides, Red(v, x), Red(v, v.child[y][x])
        PROVE  v.child[y][x] = c /\ ~Red(t, n)
    <2>1. x # n /\ Red(t, x)
      BY <1>2, <1>7 DEF Red
    <2>2. CASE t.child[y][x] = n
      BY <1>2, <2>1, <2>2 DEF NoRedPair, Red
    <2>3. CASE t.child[y][x] # n
      <3>1. v.child[y][x] = t.child[y][x] /\ t.child[y][x] \in Pointers
        BY <1>1, <1>2, <2>1, <2>3
      <3>2. Red(t, t.child[y][x])
        BY <1>2, <1>7, <2>3, <3>1 DEF Red, Pointers
      <3> QED
        BY <2>1, <3>2 DEF NoRedPair, Red
    <2> QED
      BY <2>2, <2>3
  <1>8. NoRedPair(v, c, c) /\ (Red(t, n) => NoRedPair(v, Null, Null))
    BY <1>7 DEF NoRedPair
  <1>9. p # Null => v.child[w][p] = c
    BY <1>1, <1>2, <1>3
  <1> QED
    BY <1>1, <1>2, <1>3, <1>5, <1>6, <1>8, <1>9

LEMMA RenameBalanced ==
    ASSUME NEW t, NEW d, Tree(t, d), NEW h, NEW q, NEW z, Balanced(t, h, q, z),
           NEW k \in d[t.root], NEW y \in Keys, y \notin d[t.root], NEW w, TakesPlace(t, w, k, y),
           \A x \in Keys : w.color[x] =
              IF x = k THEN "black" ELSE IF x = y THEN t.color[k] ELSE t.color[x],
           q # y, NEW q2, q2 = IF q = k THEN y ELSE q
    PROVE  Balanced(w, [h EXCEPT ![y] = h[k], ![k] = 1], q2, z)
  <1> DEFINE h2 == [h EXCEPT ![y] = h[k], ![k] = 1]
  <1>1. /\ t \in Trees /\ k \in Keys /\ k # y /\ k # Null /\ y # Null
        /\ \A x \in Keys, v \in Sides : t.child[v][x] \in Pointers
    BY BelowFacts, TreeTypes, NullIsNoKey DEF Tree
  <1>2. \A x \in Keys, v \in Sides : t.child[v][x] # y
    BY OutsideFacts
  <1>3. \A v \in Sides : t.child[v][k] # k
    BY <1>1, ChildFacts
  <1>4. \A x \in Keys, v \in Sides : w.child[v][x] =
          IF x = k THEN Null ELSE IF x = y THEN t.child[v][k]
          ELSE IF t.child[v][x] = k THEN y ELSE t.child[v][x]
    BY DEF TakesPlace
  <1>5. Balanced(w, h2, q2, z)
    <2>1. /\ h \in [Pointers -> Nat] /\ h[Null] = 0
          /\ \A x \in Keys, v \in Sides : h[x] = h[t.child[v][x]] + Weight(t, x) + Extra(q, z, x, v)
      BY DEF Balanced
    <2>2. /\ h2 \in [Pointers -> Nat] /\ h2[Null] = 0 /\ h2[y] = h[k] /\ h2[k] = 1
          /\ \A x \in Pointers : x # k /\ x # y => h2[x] = h[x]
      BY <1>1, <2>1 DEF Pointers
    <2> HIDE DEF h2
    <2>3. ASSUME NEW x \in Keys, NEW v \in Sides
          PROVE  h2[x] = h2[w.child[v][x]] + Weight(w, x) + Extra(q2, z, x, v)
      <3>1. CASE x = k
        <4>1. w.child[v][x] = Null /\ Weight(w, x) = 1 /\ Extra(q2, z, x, v) = 0
          BY <1>1, <1>4, <3>1 DEF Weight, Extra
        <4> QED
          BY <2>2, <3>1, <4>1
      <3>2. CASE x = y
        <4>1. w.child[v][x] = t.child[v][k] /\ h2[t.child[v][k]] = h[t.child[v][k]]
          BY <1>1, <1>2, <1>3, <1>4, <2>2, <3>2
        <4>2. Weight(w, x) = Weight(t, k) /\ Extra(q2, z, x, v) = Extra(q, z, k, v)
          BY <1>1, <3>2 DEF Weight, Extra
        <4>3. h[k] = h[t.child[v][k]] + Weight(t, k) + Extra(q, z, k, v)
          BY <1>1, <2>1
        <4> QED
          BY <2>2, <3>2, <4>1, <4>2, <4>3
      <3>3. CASE x # k /\ x # y
        <4>1. h2[w.child[v][x]] = h[t.child[v][x]]
          BY <1>1, <1>2, <1>4, <2>2, <3>3
        <4>2. Weight(w, x) = Weight(t, x) /\ Extra(q2, z, x, v) = Extra(q, z, x, v)
          BY <3>3 DEF Weight, Extra
        <4>3. h2[x] = h[x]
          BY <2>2, <3>3 DEF Pointers
        <4> QED
          BY <2>1, <4>1, <4>2, <4>3
      <3> QED
        BY <3>1, <3>2, <3>3
    <2> QED
      BY <2>2, <2>3 DEF Balanced
  <1> QED
    BY <1>5

LEMMA RenameKeepsColors ==
    ASSUME NEW t, NEW d, Tree(t, d), NEW e, NoRedPair(t, e, e),
           NEW k \in d[t.root], NEW y \in Keys, y \notin d[t.root], NEW w, TakesPlace(t, w, k, y),
           \A x \in Keys : w.color[x] =
              IF x = k THEN "black" ELSE IF x = y THEN t.color[k] ELSE t.color[x],
           e # k, e # y
    PROVE  NoRedPair(w, e, e)
  <1>1. /\ t \in Trees /\ k \in Keys /\ k # y /\ k # Null /\ y # Null
        /\ \A x \in Keys, v \in Sides : t.child[v][x] \in Pointers
    BY BelowFacts, TreeTypes, NullIsNoKey DEF Tree
  <1>2. \A x \in Keys, v \in Sides : t.child[v][x] # y
    BY OutsideFacts
  <1>3. \A v \in Sides : t.child[v][k] # k
    BY <1>1, ChildFacts
  <1>4. \A x \in Keys, v \in Sides : w.child[v][x] =
          IF x = k THEN Null ELSE IF x = y THEN t.child[v][k]
          ELSE IF t.child[v][x] = k THEN y ELSE t.child[v][x]
    BY DEF TakesPlace
  <1> SUFFICES ASSUME NEW x \in Keys, NEW v \in Sides, Red(w, x), Red(w, w.child[v][x])
               PROVE  w.child[v][x] = e \/ x = e
    BY DEF NoRedPair
  <1>5. x # k /\ (x = y => Red(t, k)) /\ (x # y => Red(t, x))
    BY <1>1 DEF Red
  <1>6. CASE x = y
    <2>1. w.child[v][x] = t.child[v][k] /\ t.child[v][k] # k /\ t.child[v][k] # y
          /\ t.child[v][k] \in Pointers
      BY <1>1, <1>2, <1>3, <1>4, <1>6
    <2>2. Red(t, t.child[v][k])
      BY <2>1 DEF Red, Pointers
    <2> QED
      BY <1>1, <1>5, <1>6, <2>1, <2>2 DEF NoRedPair
  <1>7. CASE x # y /\ t.child[v][x] = k
    <2>1. Red(t, k)
      BY <1>1, <1>4, <1>5, <1>7 DEF Red
    <2> QED
      BY <1>5, <1>7, <2>1 DEF NoRedPair
  <1>8. CASE x # y /\ t.child[v][x] # k
    <2>1. w.child[v][x] = t.child[v][x] /\ t.child[v][x] # y /\ t.child[v][x] \in Pointers
      BY <1>1, <1>2, <1>4, <1>5, <1>8
    <2>2. Red(t, t.child[v][x])
      BY <1>8, <2>1 DEF Red, Pointers
    <2> QED
      BY <1>5, <1>8, <2>1, <2>2 DEF NoRedPair
  <1> QED
    BY <1>6, <1>7, <1>8

(* Where the missing black node is, and what is there                      *)
IsGap(t, q, z, c) == q # Null => q \in Keys /\ z \in Sides /\ t.child[z][q] = c

AtRoot(t, e, p) == e = t.root <=> p = Null

LEMMA OuterKeeps ==
    ASSUME NEW t, NEW D, NEW z, IsRedBlack(t, D, Null, z, Null, Null), NEW n \in D,
           NEW s \in Sides, t.child[s][n] = Null,
           NEW c, c = t.child[Other(s)][n], NEW v, v = Forget(Unlink(t, n, c), n)
    PROVE  /\ Red(t, n) => \A y : IsRedBlack(v, D \ {n}, Null, y, Null, Null)
           /\ ~Red(t, n) => \E y : /\ IsRedBlack(v, D \ {n}, t.parent[n], y, c, c)
                                   /\ IsGap(v, t.parent[n], y, c)
           /\ AtRoot(v, c, t.parent[n])
           /\ c \in Pointers /\ t.parent[n] \in Pointers
  <1>1. PICK d, h : /\ Tree(t, d) /\ D = d[t.root]
                    /\ Balanced(t, h, Null, z) /\ NoRedPair(t, Null, Null) /\ BlackOutside(t, d)
                    /\ Red(t, t.root) => t.root = Null
    BY DEF IsRedBlack
  <1> DEFINE p == t.parent[n]
             w == SideOf(t, p, n)
             d2 == Without(d, n)
             h2 == [h EXCEPT ![n] = 1]
  <1>2. /\ Tree(v, d2) /\ d2[v.root] = d[t.root] \ {n}
        /\ \A x \in Keys : v.color[x] = IF x = n THEN "black" ELSE t.color[x]
        /\ v.root = IF n = t.root THEN c ELSE t.root
    <2> HIDE DEF d2
    <2>1. d2 = Without(d, n) /\ n \in d[t.root]
      BY <1>1 DEF d2
    <2>2. Tree(v, d2) /\ d2[v.root] = d[t.root] \ {n}
      BY <1>1, <2>1, UnlinkKeepsTree
    <2>3. \A x \in Keys : v.color[x] = IF x = n THEN "black" ELSE t.color[x]
      BY <1>1, <2>1, UnlinkKeepsTree
    <2>4. v.root = IF n = t.root THEN c ELSE t.root
      BY <1>1, <2>1, UnlinkKeepsTree
    <2> QED
      BY <2>2, <2>3, <2>4
  <1>3. /\ Balanced(v, h2, Gap(t, n), w)
        /\ NoRedPair(v, c, c) /\ (Red(t, n) => NoRedPair(v, Null, Null))
        /\ p # Null => p \in Keys /\ w \in Sides /\ v.child[w][p] = c
        /\ p = Null <=> n = t.root
        /\ c \in Pointers /\ c # n /\ c # t.root /\ n \in Keys
    BY <1>1, UnlinkBalanced
  <1> HIDE DEF p, w, d2, h2
  <1>4. BlackOutside(v, d2)
    BY <1>1, <1>2 DEF BlackOutside, Red
  <1>5. t.root \in Pointers /\ ~Red(t, t.root)
    BY <1>1, TreeTypes DEF Tree, Red
  <1>6. n # t.root => ~Red(v, v.root)
    BY <1>2, <1>5 DEF Red, Pointers
  <1>7. D \ {n} = d2[v.root]
    BY <1>1, <1>2
  <1>8. ASSUME Red(t, n), NEW y PROVE IsRedBlack(v, D \ {n}, Null, y, Null, Null)
    <2>1. n # t.root
      BY <1>5, <1>8
    <2>2. Balanced(v, h2, Null, y)
      <3>1. Gap(t, n) = Null
        BY <1>8 DEF Gap
      <3> QED
        BY ONLY <1>3, <3>1, NullIsNoKey DEF Balanced, Extra
    <2> QED
      BY <1>2, <1>3, <1>4, <1>6, <1>7, <1>8, <2>1, <2>2 DEF IsRedBlack
  <1>9. ASSUME ~Red(t, n) PROVE IsRedBlack(v, D \ {n}, p, w, c, c) /\ IsGap(v, p, w, c)
    <2>1. Gap(t, n) = p
      BY <1>9 DEF Gap, p
    <2>2. Red(v, v.root) => v.root = c
      BY <1>2, <1>6
    <2> QED
      BY <1>2, <1>3, <1>4, <1>7, <2>1, <2>2 DEF IsRedBlack, IsGap
  <1>10. c = v.root <=> p = Null
    BY <1>2, <1>3
  <1>11. p \in Pointers
    BY <1>3 DEF Pointers
  <1> QED
    BY <1>3, <1>8, <1>9, <1>10, <1>11 DEF p, AtRoot

LEMMA InnerKeeps ==
    ASSUME NEW t, NEW D, NEW z, IsRedBlack(t, D, Null, z, Null, Null), NEW k \in D,
           \A s \in Sides : t.child[s][k] # Null
    PROVE  LET y == Successor(t, k)
               c == t.child["right"][y]
               w == Forget(Replace(Lifted(t, k), k, y), k)
               p == IF t.parent[y] = k THEN y ELSE t.parent[y]
           IN /\ Red(t, y) => \A x : IsRedBlack(w, D \ {k}, Null, x, Null, Null)
              /\ ~Red(t, y) => \E x : IsRedBlack(w, D \ {k}, p, x, c, c) /\ IsGap(w, p, x, c)
              /\ c # w.root /\ p \in Keys /\ c \in Pointers /\ y \in Keys
  <1>1. PICK d, h : /\ Tree(t, d) /\ D = d[t.root]
                    /\ Balanced(t, h, Null, z) /\ NoRedPair(t, Null, Null) /\ BlackOutside(t, d)
                    /\ Red(t, t.root) => t.root = Null
    BY DEF IsRedBlack
  <1> DEFINE y == Successor(t, k)
             c == t.child["right"][y]
             r == t.child["right"][k]
             u == Lifted(t, k)
             v == Forget(u, y)
             w == Forget(Replace(u, k, y), k)
             d1 == Without(d, y)
             d2 == Renamed(d1, k, y)
             p0 == t.parent[y]
             p == IF p0 = k THEN y ELSE p0
             g == SideOf(t, p0, y)
             h1 == [h EXCEPT ![y] = 1]
             h2 == [h1 EXCEPT ![y] = h1[k], ![k] = 1]
             q2 == IF Gap(t, y) = k THEN y ELSE Gap(t, y)
  <1>2. /\ y \in Outermost(d, "left", r)
        /\ k \in Keys /\ r \in Keys /\ y \in Keys /\ k \in d[t.root]
    BY <1>1, SuccessorFacts
  <1>3. /\ Tree(v, d1) /\ k \in d1[v.root] /\ y \notin d1[v.root]
        /\ Tree(w, d2) /\ d2[w.root] = d[t.root] \ {k}
        /\ u \in Trees /\ u.color = t.color
    BY <1>1, <1>2, InnerKeepsTree
  <1>4. u = Unlink(t, y, c) /\ v = Forget(u, y) /\ w = Forget(Replace(u, k, y), k)
        /\ d1 = Without(d, y)
    BY DEF Lifted
  <1>5. /\ "left" \in Sides /\ c = t.child[Other("left")][y] /\ r = t.child["right"][k]
        /\ "right" \in Sides
    BY DEF Sides, Other
  <1>6. c = t.child["right"][y]
    OBVIOUS
  <1> HIDE DEF y, c, r, u, v, w, d1, d2
  <1>7. y # k /\ y \in d[t.root] /\ t.child["left"][y] = Null /\ y # t.root /\ k \notin d[y]
    <2>1. y # k /\ y \in d[t.root] /\ y \in d[k] /\ t.child["left"][y] = Null
          /\ y # t.root /\ k \notin d[y]
      BY <1>1, <1>2, <1>5, SuccessorIsLowest
    <2> QED
      BY <2>1
  <1>8. v = Forget(Unlink(t, y, c), y)
    BY <1>4
  <1>9. /\ \A x \in Keys : v.color[x] = IF x = y THEN "black" ELSE t.color[x]
        /\ v.root = t.root
    <2>1. \A x \in Keys : v.color[x] = IF x = y THEN "black" ELSE t.color[x]
      BY <1>1, <1>4, <1>5, <1>7, <1>8, UnlinkKeepsTree
    <2>2. v.root = IF y = t.root THEN c ELSE t.root
      BY <1>1, <1>4, <1>5, <1>7, <1>8, UnlinkKeepsTree
    <2> QED
      BY <1>7, <2>1, <2>2
  <1>10. /\ TakesPlace(v, w, k, y)
         /\ \A x \in Keys : w.color[x] =
              IF x = k THEN "black" ELSE IF x = y THEN t.color[k] ELSE t.color[x]
    <2>1. /\ u \in Trees /\ k \in Keys /\ y \in Keys /\ v = Forget(u, y)
          /\ Tree(v, d1) /\ k \in d1[v.root] /\ y \notin d1[v.root]
          /\ w = Forget(Replace(u, k, y), k)
      BY <1>2, <1>3, <1>4
    <2>2. TakesPlace(v, w, k, y)
      BY <2>1, ReplaceIs
    <2>3. \A x \in Keys : w.color[x] =
             IF x = k THEN "black" ELSE IF x = y THEN u.color[k] ELSE u.color[x]
      BY <2>1, ReplaceIs
    <2> QED
      BY <1>3, <2>2, <2>3
  <1>11. /\ Balanced(v, h1, Gap(t, y), g)
         /\ NoRedPair(v, c, c) /\ (Red(t, y) => NoRedPair(v, Null, Null))
         /\ p0 # Null => p0 \in Keys /\ g \in Sides /\ v.child[g][p0] = c
         /\ p0 = Null <=> y = t.root
         /\ c \in Pointers /\ c # y /\ c # t.root
    BY <1>1, <1>5, <1>7, <1>8, UnlinkBalanced
  <1> HIDE DEF h1
  <1>12. p0 \in Keys /\ g \in Sides /\ v.child[g][p0] = c
    BY <1>7, <1>11
  <1>13. p0 # y
    <2>1. \E x \in Sides : t.child[x][p0] = y
      BY <1>1, <1>2, <1>12, NullIsNoKey DEF Tree, LinksAgree
    <2> QED
      BY <1>1, <1>2, <1>12, <2>1, ChildFacts, NullIsNoKey
  <1>14. c # k
    <2>1. ASSUME c # Null PROVE c \in d[y]
      <3>1. t.child["right"][y] # Null
        BY <1>6, <2>1
      <3>2. t.child["right"][y] \in d[y]
        BY <1>1, <1>2, <1>5, <3>1, ChildFacts
      <3> QED
        BY <1>6, <3>2
    <2> QED
      BY <1>2, <1>7, <2>1, NullIsNoKey
  <1> HIDE DEF p0, g
  <1>15. Gap(t, y) # y /\ k # Null /\ y # Null
    BY <1>2, <1>13, NullIsNoKey DEF Gap, p0
  <1>16. /\ Balanced(w, h2, q2, g)
         /\ \A e : NoRedPair(v, e, e) /\ e # k /\ e # y => NoRedPair(w, e, e)
    <2>1. \A x \in Keys : w.color[x] =
              IF x = k THEN "black" ELSE IF x = y THEN v.color[k] ELSE v.color[x]
      BY <1>2, <1>7, <1>9, <1>10
    <2>2. q2 = IF Gap(t, y) = k THEN y ELSE Gap(t, y)
      OBVIOUS
    <2> HIDE DEF q2
    <2>3. Balanced(w, h2, q2, g)
      <3>1. /\ Tree(v, d1) /\ Balanced(v, h1, Gap(t, y), g)
            /\ k \in d1[v.root] /\ y \in Keys /\ y \notin d1[v.root] /\ TakesPlace(v, w, k, y)
            /\ Gap(t, y) # y
        BY <1>2, <1>3, <1>10, <1>11, <1>15
      <3> QED
        BY <2>1, <2>2, <3>1, RenameBalanced
    <2>4. ASSUME NEW e, NoRedPair(v, e, e), e # k, e # y PROVE NoRedPair(w, e, e)
      <3>1. /\ Tree(v, d1) /\ Balanced(v, h1, Gap(t, y), g)
            /\ k \in d1[v.root] /\ y \in Keys /\ y \notin d1[v.root] /\ TakesPlace(v, w, k, y)
            /\ Gap(t, y) # y
        BY <1>2, <1>3, <1>10, <1>11, <1>15
      <3> QED
        BY <2>1, <2>2, <2>4, <3>1, RenameKeepsColors
    <2> QED
      BY <2>3, <2>4
  <1>17. NoRedPair(w, c, c) /\ (Red(t, y) => NoRedPair(w, Null, Null))
    BY <1>11, <1>14, <1>15, <1>16
  <1>18. BlackOutside(w, d2)
    <2> SUFFICES ASSUME NEW x \in Keys \ d2[w.root] PROVE ~Red(w, x)
      BY DEF BlackOutside
    <2>1. x = k \/ x \notin d[t.root]
      BY <1>3
    <2>2. x # y
      BY <1>3, <1>7
    <2> QED
      BY <1>1, <1>10, <2>1, <2>2 DEF BlackOutside, Red
  <1>19. ~Red(w, w.root) /\ c # w.root
    <2>1. w.root = IF k = t.root THEN y ELSE t.root
      BY <1>9, <1>10 DEF TakesPlace
    <2>2. t.root \in Pointers /\ ~Red(t, t.root)
      BY <1>1, TreeTypes DEF Tree, Red
    <2>3. CASE k = t.root
      <3>1. w.root = y /\ w.color[y] = t.color[k] /\ c # y
        BY <1>2, <1>7, <1>10, <1>11, <2>1, <2>3
      <3> QED
        BY <2>2, <2>3, <3>1, <1>15 DEF Red
    <2>4. CASE k # t.root
      <3>1. w.root = t.root /\ c # t.root
        BY <1>11, <2>1, <2>4
      <3>2. t.root # Null => w.color[t.root] = t.color[t.root]
        BY <1>7, <1>10, <2>2, <2>4 DEF Pointers
      <3> QED
        BY <2>2, <3>1, <3>2 DEF Red
    <2> QED
      BY <2>3, <2>4
  <1>20. p \in Keys
    BY <1>2, <1>12
  <1>21. IsGap(w, p, g, c)
    <2>1. \A x \in Keys, e \in Sides : w.child[e][x] =
            IF x = k THEN Null ELSE IF x = y THEN v.child[e][k]
            ELSE IF v.child[e][x] = k THEN y ELSE v.child[e][x]
      BY <1>10 DEF TakesPlace
    <2>2. w.child[g][p] = c
      BY <1>2, <1>7, <1>12, <1>13, <1>14, <2>1
    <2> QED
      BY <1>12, <1>20, <2>2 DEF IsGap
  <1> HIDE DEF h2
  <1>22. D \ {k} = d2[w.root]
    BY <1>1, <1>3
  <1>23. ASSUME Red(t, y), NEW x PROVE IsRedBlack(w, D \ {k}, Null, x, Null, Null)
    <2>1. q2 = Null
      BY <1>15, <1>23 DEF Gap
    <2>2. Balanced(w, h2, Null, x)
      BY <1>16, <2>1, NullIsNoKey DEF Balanced, Extra
    <2> QED
      BY <1>3, <1>17, <1>18, <1>19, <1>22, <1>23, <2>2 DEF IsRedBlack
  <1>24. ASSUME ~Red(t, y) PROVE IsRedBlack(w, D \ {k}, p, g, c, c)
    <2>1. q2 = p
      BY <1>24 DEF Gap, p0
    <2> QED
      BY <1>3, <1>16, <1>17, <1>18, <1>19, <1>22, <2>1 DEF IsRedBlack
  <1> QED
    BY <1>2, <1>11, <1>19, <1>20, <1>21, <1>23, <1>24 DEF y, c, u, w, p0

-----------------------------------------------------------------------------
(* RB_REMOVE_COLOR: a black node is missing on the link from q, on the     *)
(* side z.                                                                 *)

(* elm is not red: it has no part in a conflict.                           *)
LEMMA Strengthen ==
    ASSUME NEW t, NEW D, NEW q, NEW z, NEW e, IsRedBlack(t, D, q, z, e, e), ~Red(t, e)
    PROVE  IsRedBlack(t, D, q, z, Null, Null)
  <1>1. PICK d, h : /\ Tree(t, d) /\ D = d[t.root]
                    /\ Balanced(t, h, q, z) /\ NoRedPair(t, e, e) /\ BlackOutside(t, d)
                    /\ Red(t, t.root) => t.root = e
    BY DEF IsRedBlack
  <1>2. NoRedPair(t, Null, Null)
    <2> SUFFICES ASSUME NEW x \in Keys, NEW y \in Sides, Red(t, x), Red(t, t.child[y][x])
                 PROVE  FALSE
      BY DEF NoRedPair
    <2>1. t.child[y][x] = e \/ x = e
      BY <1>1 DEF NoRedPair
    <2> QED
      BY <2>1
  <1>3. ~Red(t, t.root)
    BY <1>1
  <1> QED
    BY <1>1, <1>2, <1>3 DEF IsRedBlack

(* There is a sibling, and the side of elm is found by comparing links:    *)
(* even when elm is Null, its sibling is not.                              *)
LEMMA SiblingIs ==
    ASSUME NEW t, NEW D, NEW q \in Keys, NEW z \in Sides, NEW e, NEW f, IsRedBlack(t, D, q, z, e, f)
    PROVE  /\ t.child[Other(z)][q] \in Keys
           /\ SideOf(t, q, t.child[z][q]) = z
           /\ t.child[Other(z)][q] # t.child[z][q]
  <1>1. PICK d, h : /\ Tree(t, d) /\ D = d[t.root]
                    /\ Balanced(t, h, q, z) /\ NoRedPair(t, e, f) /\ BlackOutside(t, d)
                    /\ Red(t, t.root) => t.root = e
    BY DEF IsRedBlack
  <1> DEFINE o == Other(z)
             a == t.child[z][q]
             b == t.child[o][q]
  <1>2. o \in Sides /\ o # z /\ a \in Pointers /\ b \in Pointers
    BY SideFacts, RedBlackFacts
  <1>3. h[q] = h[a] + Weight(t, q) + 1 /\ h[q] = h[b] + Weight(t, q) + 0
    <2>1. Extra(q, z, q, z) = 1 /\ Extra(q, z, q, o) = 0
      BY <1>2 DEF Extra
    <2> QED
      BY <1>1, <1>2, <2>1 DEF Balanced
  <1>4. h[a] \in Nat /\ h[b] \in Nat /\ Weight(t, q) \in Nat /\ h[Null] = 0
    BY <1>1, <1>2 DEF Balanced, Weight
  <1> HIDE DEF a, b, o
  <1>5. h[b] = h[a] + 1
    BY <1>3, <1>4
  <1>6. b # Null /\ b # a
    BY <1>4, <1>5
  <1>7. SideOf(t, q, a) = z
    BY <1>2, <1>6, SideFacts DEF SideOf, a, b, o, Sides, Other
  <1> QED
    BY <1>2, <1>6, <1>7 DEF a, b, o, Pointers

LEMMA NoWayBack ==
    ASSUME NEW t, NEW D, NEW q, NEW z, NEW e, NEW f, IsRedBlack(t, D, q, z, e, f),
           NEW x \in Keys, NEW y \in Sides, NEW c \in Keys, c = t.child[y][x], NEW w \in Sides
    PROVE  t.child[w][c] # x
  <1>1. PICK d, h : /\ Tree(t, d) /\ D = d[t.root]
                    /\ Balanced(t, h, q, z) /\ NoRedPair(t, e, f) /\ BlackOutside(t, d)
                    /\ Red(t, t.root) => t.root = e
    BY DEF IsRedBlack
  <1>2. ASSUME t.child[w][c] = x PROVE FALSE
    <2>1. t.child[w][c] # Null
      BY <1>2, NullIsNoKey
    <2>2. x \in d[c]
      BY <1>1, <1>2, <2>1, ChildFacts
    <2>3. x \notin d[c]
      BY <1>1, BelowFacts
    <2> QED
      BY <2>2, <2>3
  <1> QED
    BY <1>2

(* A red sibling is rotated away: its near child, a black node, is the     *)
(* sibling from then on.                                                   *)
LEMMA SiblingRaised ==
    ASSUME NEW t, NEW D, NEW q \in Keys, NEW z \in Sides, IsRedBlack(t, D, q, z, Null, Null),
           NEW e, e = t.child[z][q], ~Red(t, e),
           NEW m, m = t.child[Other(z)][q], Red(t, m),
           NEW t2, t2 = Rotate(BlackRed(t, m, q), z, q)
    PROVE  /\ IsRedBlack(t2, D, q, z, Null, Null)
           /\ t2.child[z][q] = e /\ ~Red(t2, e)
           /\ ~Red(t2, t2.child[Other(z)][q])
  <1> DEFINE o == Other(z)
             b == t.child[z][m]
  <1>1. o \in Sides /\ o # z /\ m \in Keys /\ m # e /\ e # q /\ m # q /\ m # Null /\ q # Null
    <2>1. o \in Sides /\ o # z
      BY SideFacts
    <2>2. m \in Keys /\ m # e
      BY SiblingIs
    <2>3. e # q /\ m # q
      BY <2>1, RedBlackFacts
    <2> QED
      BY <2>1, <2>2, <2>3, NullIsNoKey
  <1>2. ~Red(t, q) /\ ~Red(t, b)
    <2>1. NoRedPair(t, Null, Null)
      BY RedBlackFacts
    <2>2. ~Red(t, q)
      BY <1>1, <2>1 DEF NoRedPair
    <2>3. ~Red(t, b)
      BY <1>1, <2>1 DEF NoRedPair, Red
    <2> QED
      BY <2>2, <2>3
  <1>3. b # m /\ b \in Pointers /\ e \in Pointers /\ b # q
    BY <1>1, RedBlackFacts, NoWayBack
  <1>4. o = Other(z) /\ m = t.child[o][q] /\ ~Red(t, t.child[z][q]) /\ ~Red(t, t.child[z][m])
    BY <1>2
  <1> HIDE DEF o
  <1>5. IsRedBlack(t2, D, q, z, Null, Null) /\ Rotated(t, t2, z, q, m) /\ Exchanges(t, t2, q, m)
    BY <1>1, <1>2, <1>4, RedRotate
  <1>6. t2.child[z][q] = e /\ t2.child[o][q] = b
    BY <1>4, <1>5 DEF Rotated
  <1> HIDE DEF b
  <1>7. ~Red(t2, e) /\ ~Red(t2, b)
    BY <1>1, <1>2, <1>3, <1>5 DEF Exchanges, Red, Pointers
  <1> QED
    BY <1>4, <1>5, <1>6, <1>7

(* The sibling's near child is red and the far one is not.                 *)
FarIsRed(t, o, q) ==
    ~Red(t, t.child[o][q]) /\ Red(t, t.child[o][t.child[o][q]])

LEMMA NearRaised ==
    ASSUME NEW t, NEW D, NEW q \in Keys, NEW z \in Sides, IsRedBlack(t, D, q, z, Null, Null),
           NEW o, o = Other(z), NEW m, m = t.child[o][q], ~Red(t, m),
           NEW b, b = t.child[z][m], Red(t, b), ~Red(t, t.child[o][m]),
           NEW t2, t2 = Rotate(BlackRed(t, b, m), o, m)
    PROVE  /\ IsRedBlack(t2, D, q, z, Null, Null)
           /\ FarIsRed(t2, o, q)
  <1>1. /\ o \in Sides /\ o # z /\ z = Other(o) /\ m \in Keys /\ m # q /\ m # Null /\ q # Null
        /\ IsRedBlack(t, D, q, z, Null, Null) /\ m = t.child[o][q] /\ b = t.child[z][m]
        /\ q \in Keys /\ z \in Sides
    <2>1. o \in Sides /\ o # z /\ z = Other(o)
      BY SideFacts
    <2>2. m \in Keys
      BY SiblingIs
    <2>3. /\ IsRedBlack(t, D, q, z, Null, Null) /\ m = t.child[o][q] /\ b = t.child[z][m]
          /\ q \in Keys /\ z \in Sides
      OBVIOUS
    <2>4. m # q
      BY ONLY <2>1, <2>3, RedBlackFacts
    <2> QED
      BY <2>1, <2>2, <2>3, <2>4, NullIsNoKey
  <1>2. b \in Keys /\ b # m /\ b # q /\ b # Null
    <2>1. b \in Pointers /\ b # m /\ b # Null
      <3>1. b \in Pointers /\ b # m
        BY ONLY <1>1, RedBlackFacts
      <3> QED
        BY <3>1 DEF Red
    <2>2. b # q
      BY <1>1, NoWayBack
    <2> QED
      BY <2>1, <2>2 DEF Pointers
  <1>3. ~Red(t, t.child[o][b])
    <2>1. NoRedPair(t, Null, Null)
      BY RedBlackFacts
    <2> QED
      BY <1>1, <1>2, <2>1 DEF NoRedPair, Red
  <1>4. /\ b = t.child[z][m] /\ q # b /\ (q = m => z = o) /\ Red(t, b) /\ ~Red(t, m)
        /\ ~Red(t, t.child[o][m]) /\ t2 = Rotate(BlackRed(t, b, m), o, m)
    BY <1>1, <1>2
  <1>5. IsRedBlack(t2, D, q, z, Null, Null) /\ Rotated(t, t2, o, m, b) /\ Exchanges(t, t2, m, b)
    BY ONLY <1>1, <1>2, <1>3, <1>4, RedRotate
  <1>6. t2.child[o][q] = b /\ t2.child[o][b] = m
    BY <1>1, <1>2, <1>5 DEF Rotated
  <1>7. ~Red(t2, b) /\ Red(t2, m)
    BY <1>1, <1>2, <1>5 DEF Exchanges, Red
  <1> QED
    BY <1>5, <1>6, <1>7 DEF FarIsRed

(* The sibling and its children are black: the sibling turns red, and the  *)
(* black node is missing on the link to the parent.                        *)
LEMMA LackMovesUp ==
    ASSUME NEW t, NEW D, NEW q \in Keys, NEW z \in Sides, IsRedBlack(t, D, q, z, Null, Null),
           NEW m, m = t.child[Other(z)][q], ~Red(t, m), \A y \in Sides : ~Red(t, t.child[y][m]),
           NEW t2, t2 = Paint(t, m, "red"), NEW p, p = t.parent[q]
    PROVE  /\ \E y : IsRedBlack(t2, D, p, y, q, q) /\ IsGap(t2, p, y, q)
           /\ p \in Pointers /\ (p = Null <=> q = t2.root)
  <1>1. PICK d, h : /\ Tree(t, d) /\ D = d[t.root]
                    /\ Balanced(t, h, q, z) /\ NoRedPair(t, Null, Null) /\ BlackOutside(t, d)
                    /\ Red(t, t.root) => t.root = Null
    BY DEF IsRedBlack
  <1> DEFINE o == Other(z)
             v == SideOf(t, p, q)
             h2 == [h EXCEPT ![q] = h[q] - 1, ![m] = h[m] - 1]
  <1>2. o \in Sides /\ o # z /\ m = t.child[o][q] /\ \A y \in Sides : y = z \/ y = o
    BY SideFacts
  <1>3. m \in Keys /\ m # q /\ m # Null /\ q # Null /\ m \in Pointers /\ q \in Pointers
    <2>1. m \in Keys
      BY SiblingIs
    <2>2. m # q
      BY <1>2, RedBlackFacts
    <2> QED
      BY <2>1, <2>2, NullIsNoKey DEF Pointers
  <1>4. /\ \A x \in Keys, y \in Sides : t.child[y][x] # x /\ t.child[y][x] \in Pointers
        /\ \A x \in Keys, y \in Sides : t.child[y][x] = m => x = q /\ y = o
        /\ m \in D /\ q \in D /\ m # t.root /\ t \in Trees /\ t.root \in Pointers
        /\ \A y \in Sides : t.child[y][m] # q
    <2>1. \A x \in Keys, y \in Sides : t.child[y][x] # x /\ t.child[y][x] \in Pointers
      BY RedBlackFacts
    <2>2. \A x \in Keys, y \in Sides : t.child[y][x] = m => x = q /\ y = o
      BY <1>2, <1>3, RedBlackFacts
    <2>3. m \in D /\ q \in D /\ m # t.root
      BY <1>2, <1>3, RedBlackFacts
    <2>4. \A y \in Sides : t.child[y][m] # q
      BY <1>2, <1>3, NoWayBack
    <2>5. t \in Trees /\ t.root \in Pointers
      BY RedBlackFacts
    <2> QED
      BY <2>1, <2>2, <2>3, <2>4, <2>5
  <1>5. p \in Pointers /\ (p = Null <=> q = t.root) /\ v \in Sides
    <2>1. p \in Pointers
      BY <1>4, TreeTypes
    <2>2. p = Null <=> q = t.root
      BY <1>1, <1>3, <1>4 DEF Tree, LinksAgree
    <2> QED
      BY <2>1, <2>2 DEF SideOf, Sides
  <1>6. p # Null => p \in Keys /\ t.child[v][p] = q
    <2> SUFFICES ASSUME p # Null PROVE p \in Keys /\ t.child[v][p] = q
      OBVIOUS
    <2> QED
      BY <1>1, <1>5, SideOfIs DEF Pointers
  <1>7. \A x \in Keys, y \in Sides : t.child[y][x] = q => x = p /\ y = v
    <2> SUFFICES ASSUME NEW x \in Keys, NEW y \in Sides, t.child[y][x] = q PROVE x = p /\ y = v
      OBVIOUS
    <2>1. t.parent[q] = x
      BY <1>1, <1>3 DEF Tree, LinksAgree
    <2>2. t.parent[q] # Null
      BY <2>1, NullIsNoKey
    <2> QED
      BY <1>1, <2>1, <2>2, SideOfIs
  <1> HIDE DEF o, v
  <1>8. p # q /\ p # m
    <2>1. p # Null => p # q
      BY <1>4, <1>5, <1>6
    <2>2. p # Null => p # m
      BY <1>4, <1>5, <1>6
    <2> QED
      BY <1>3, <2>1, <2>2
  <1>9. /\ t2 \in Trees /\ t2.root = t.root /\ t2.parent = t.parent /\ t2.child = t.child
        /\ \A x \in Keys : t2.color[x] = IF x = m THEN "red" ELSE t.color[x]
    <2>1. t \in Trees /\ m \in Pointers /\ "red" \in {"red", "black"}
      BY <1>3, <1>4
    <2>2. t2 \in Trees /\ t2.root = t.root /\ t2.parent = t.parent /\ t2.child = t.child
      BY <2>1, PaintIs
    <2>3. \A x \in Keys : t2.color[x] = IF x = m THEN "red" ELSE t.color[x]
      BY <2>1, PaintIs
    <2> QED
      BY <2>2, <2>3
  <1>10. Tree(t2, d)
    BY <1>1, <1>9, PaintKeepsTree
  <1>11. Balanced(t2, h2, p, v)
    <2>1. /\ h \in [Pointers -> Nat] /\ h[Null] = 0
          /\ \A x \in Keys, y \in Sides : h[x] = h[t.child[y][x]] + Weight(t, x) + Extra(q, z, x, y)
      BY <1>1 DEF Balanced
    <2>2. /\ Weight(t, m) = 1 /\ Weight(t2, m) = 0
          /\ \A x \in Keys : x # m => Weight(t2, x) = Weight(t, x)
          /\ \A x \in Keys : Weight(t, x) \in Nat
      BY <1>3, <1>9 DEF Weight, Red
    <2>3. \A y \in Sides : h[m] = h[t.child[y][m]] + 1 /\ h[t.child[y][m]] \in Nat
      <3> SUFFICES ASSUME NEW y \in Sides
                   PROVE  h[m] = h[t.child[y][m]] + 1 /\ h[t.child[y][m]] \in Nat
        OBVIOUS
      <3>1. h[m] = h[t.child[y][m]] + Weight(t, m) + Extra(q, z, m, y)
        BY <1>3, <2>1
      <3>2. Extra(q, z, m, y) = 0
        BY <1>3 DEF Extra
      <3>3. h[t.child[y][m]] \in Nat
        BY <1>3, <1>4, <2>1
      <3> QED
        BY <2>2, <3>1, <3>2, <3>3
    <2>4. /\ h[q] = h[t.child[z][q]] + Weight(t, q) + 1 /\ h[q] = h[m] + Weight(t, q) + 0
          /\ h[t.child[z][q]] \in Nat
      <3>1. Extra(q, z, q, z) = 1 /\ Extra(q, z, q, o) = 0
        BY <1>2 DEF Extra
      <3> QED
        BY <1>2, <1>4, <2>1, <3>1
    <2>5. h[q] \in Nat /\ h[m] \in Nat /\ h[q] - 1 \in Nat /\ h[m] - 1 \in Nat
      <3>1. h[q] \in Nat /\ h[m] \in Nat
        BY <1>3, <2>1
      <3>2. h[m] - 1 \in Nat
        BY <2>3, <3>1, <1>2
      <3>3. h[q] - 1 \in Nat
        BY <2>2, <2>4, <3>1
      <3> QED
        BY <3>1, <3>2, <3>3
    <2>6. /\ h2 \in [Pointers -> Nat] /\ h2[Null] = 0 /\ h2[q] = h[q] - 1 /\ h2[m] = h[m] - 1
          /\ \A x \in Pointers : x # q /\ x # m => h2[x] = h[x]
      BY <1>3, <2>1, <2>5 DEF Pointers
    <2> HIDE DEF h2
    <2>7. ASSUME NEW x \in Keys, NEW y \in Sides
          PROVE  h2[x] = h2[t2.child[y][x]] + Weight(t2, x) + Extra(p, v, x, y)
      <3> DEFINE c == t.child[y][x]
      <3>1. t2.child[y][x] = c /\ c \in Pointers /\ x \in Pointers /\ c # x
        BY <1>4, <1>9 DEF Pointers
      <3>2. h[c] \in Nat /\ h[x] \in Nat /\ Weight(t, x) \in Nat
        BY <2>1, <2>2, <3>1
      <3>3. h[x] = h[c] + Weight(t, x) + Extra(q, z, x, y)
        BY <2>1
      <3>4. CASE x = q /\ y = z
        <4>1. c # q /\ c # m
          BY <1>2, <1>4, <3>1, <3>4
        <4>2. h2[c] = h[c] /\ h2[x] = h[x] - 1 /\ Weight(t2, x) = Weight(t, x)
          BY <1>3, <2>2, <2>6, <3>1, <3>4, <4>1
        <4>3. Extra(p, v, x, y) = 0 /\ Extra(q, z, x, y) = 1
          BY <1>8, <3>4 DEF Extra
        <4> HIDE DEF c
        <4>4. h[x] - 1 = h[c] + Weight(t, x) + 0
          BY <3>2, <3>3, <4>3
        <4> QED
          BY <3>1, <4>2, <4>3, <4>4
      <3>5. CASE x = q /\ y = o
        <4>1. c = m
          BY <1>2, <3>5
        <4>2. h2[c] = h[c] - 1 /\ h2[x] = h[x] - 1 /\ Weight(t2, x) = Weight(t, x)
          BY <1>3, <2>2, <2>6, <3>5, <4>1
        <4>3. Extra(p, v, x, y) = 0 /\ Extra(q, z, x, y) = 0
          BY <1>2, <1>8, <3>5 DEF Extra
        <4> HIDE DEF c
        <4>4. h[x] - 1 = (h[c] - 1) + Weight(t, x) + 0
          BY <3>2, <3>3, <4>3
        <4> QED
          BY <3>1, <4>2, <4>3, <4>4
      <3>6. CASE x = m
        <4>1. c # q /\ c # m
          BY <1>4, <3>1, <3>6
        <4>2. h2[c] = h[c] /\ h2[x] = h[x] - 1 /\ Weight(t2, x) = 0
          BY <2>2, <2>6, <3>1, <3>6, <4>1
        <4>3. Extra(p, v, x, y) = 0
          BY <1>8, <3>6 DEF Extra
        <4>4. h[x] = h[c] + 1
          BY <2>3, <3>6
        <4> HIDE DEF c
        <4>5. h[x] - 1 = h[c] + 0 + 0
          BY <3>2, <4>4
        <4> QED
          BY <3>1, <4>2, <4>3, <4>5
      <3>7. CASE x # q /\ x # m /\ c = q
        <4>1. x = p /\ y = v
          BY <1>7, <3>7
        <4>2. h2[c] = h[c] - 1 /\ h2[x] = h[x] /\ Weight(t2, x) = Weight(t, x)
          BY <2>2, <2>6, <3>1, <3>7
        <4>3. Extra(p, v, x, y) = 1 /\ Extra(q, z, x, y) = 0
          BY <3>7, <4>1 DEF Extra
        <4> HIDE DEF c
        <4>4. h[x] = (h[c] - 1) + Weight(t, x) + 1
          BY <3>2, <3>3, <4>3
        <4> QED
          BY <3>1, <4>2, <4>3, <4>4
      <3>8. CASE x # q /\ x # m /\ c # q
        <4>1. c # m
          BY <1>4, <3>8
        <4>2. h2[c] = h[c] /\ h2[x] = h[x] /\ Weight(t2, x) = Weight(t, x)
          BY <2>2, <2>6, <3>1, <3>8, <4>1
        <4>3. Extra(p, v, x, y) = 0
          <5>1. p # Null => t.child[v][p] = q
            BY <1>6
          <5>2. ~(x = p /\ y = v)
            BY <3>8, <5>1, NullIsNoKey
          <5> QED
            BY <5>2 DEF Extra
        <4>4. Extra(q, z, x, y) = 0
          BY <3>8 DEF Extra
        <4> HIDE DEF c
        <4> QED
          BY <3>1, <3>3, <4>2, <4>3, <4>4
      <3> QED
        BY <1>2, <3>4, <3>5, <3>6, <3>7, <3>8
    <2> QED
      BY <2>6, <2>7 DEF Balanced
  <1> HIDE DEF h2
  <1>12. NoRedPair(t2, q, q)
    <2> SUFFICES ASSUME NEW x \in Keys, NEW y \in Sides, Red(t2, x), Red(t2, t2.child[y][x]), x # q
                 PROVE  FALSE
      BY DEF NoRedPair
    <2> DEFINE c == t.child[y][x]
    <2>1. t2.child[y][x] = c /\ c \in Pointers /\ c # m
      BY <1>4, <1>9
    <2>2. Red(t, c)
      BY <1>9, <2>1 DEF Red, Pointers
    <2>3. x # m
      BY <2>2
    <2>4. Red(t, x)
      BY <1>9, <2>3 DEF Red
    <2> QED
      BY <1>1, <2>2, <2>4 DEF NoRedPair, Red
  <1>13. BlackOutside(t2, d)
    BY ONLY <1>1, <1>4, <1>9 DEF BlackOutside, Red
  <1>14. ~Red(t2, t2.root)
    BY <1>1, <1>4, <1>9 DEF Red, Pointers
  <1>15. IsRedBlack(t2, D, p, v, q, q)
    <2>1. D = d[t2.root]
      BY <1>1, <1>9
    <2> QED
      BY <1>10, <1>11, <1>12, <1>13, <1>14, <2>1 DEF IsRedBlack
  <1>16. IsGap(t2, p, v, q)
    BY <1>5, <1>6, <1>9 DEF IsGap
  <1> QED
    BY <1>5, <1>9, <1>15, <1>16

(* The sibling, whose far child is red, is raised above q and takes its    *)
(* color; q and the far child are black.                                   *)
Exchange(t, q, m, f) ==
    Paint(Paint(Paint(t, m, t.color[q]), q, "black"), f, "black")

IsExchange(t, t2, q, m, f) ==
    /\ t2 \in Trees
    /\ t2.root = t.root /\ t2.parent = t.parent /\ t2.child = t.child
    /\ \A x \in Keys : t2.color[x] =
         IF x = f \/ x = q THEN "black" ELSE IF x = m THEN t.color[q] ELSE t.color[x]

LEMMA ExchangeIs ==
    ASSUME NEW t \in Trees, NEW q \in Keys, NEW m \in Keys, NEW f \in Keys
    PROVE  IsExchange(t, Exchange(t, q, m, f), q, m, f)
  <1> DEFINE w == t.color[q]
             u == Paint(t, m, w)
             v == Paint(u, q, "black")
             t2 == Paint(v, f, "black")
  <1>1. /\ q \in Pointers /\ m \in Pointers /\ f \in Pointers
        /\ w \in {"red", "black"} /\ "black" \in {"red", "black"}
    BY TreeTypes DEF Pointers
  <1> HIDE DEF w
  <1>2. u \in Trees /\ u.root = t.root /\ u.parent = t.parent /\ u.child = t.child
    BY <1>1, NullIsNoKey DEF Paint, Trees, Pointers
  <1>3. \A x \in Keys : u.color[x] = IF x = m THEN w ELSE t.color[x]
    BY <1>1, NullIsNoKey DEF Paint, Trees, Pointers
  <1> HIDE DEF u
  <1>4. v \in Trees /\ v.root = u.root /\ v.parent = u.parent /\ v.child = u.child
    BY <1>1, <1>2, PaintIs
  <1>5. \A x \in Keys : v.color[x] = IF x = q THEN "black" ELSE u.color[x]
    BY <1>1, <1>2, PaintIs
  <1> HIDE DEF v
  <1>6. t2 \in Trees /\ t2.root = v.root /\ t2.parent = v.parent /\ t2.child = v.child
    BY <1>1, <1>4, PaintIs
  <1>7. \A x \in Keys : t2.color[x] = IF x = f THEN "black" ELSE v.color[x]
    BY <1>1, <1>4, PaintIs
  <1>8. Exchange(t, q, m, f) = t2
    BY DEF Exchange, u, v, w
  <1> HIDE DEF t2
  <1>9. \A x \in Keys : t2.color[x] =
           IF x = f \/ x = q THEN "black" ELSE IF x = m THEN w ELSE t.color[x]
    BY <1>3, <1>5, <1>7
  <1> QED
    BY <1>2, <1>4, <1>6, <1>8, <1>9 DEF IsExchange, w

LEMMA LackEnds ==
    ASSUME NEW t, NEW D, NEW q \in Keys, NEW z \in Sides, IsRedBlack(t, D, q, z, Null, Null),
           NEW m, m = t.child[Other(z)][q], ~Red(t, m), Red(t, t.child[Other(z)][m]),
           NEW t1, IsExchange(t, t1, q, m, t.child[Other(z)][m]),
           NEW t2, t2 = Rotate(t1, z, q), NEW z2
    PROVE  IsRedBlack(t2, D, Null, z2, Null, Null)
  <1>1. PICK d, h : /\ Tree(t, d) /\ D = d[t.root]
                    /\ Balanced(t, h, q, z) /\ NoRedPair(t, Null, Null) /\ BlackOutside(t, d)
                    /\ Red(t, t.root) => t.root = Null
    BY DEF IsRedBlack
  <1> DEFINE o == Other(z)
             e == t.child[z][q]
             b == t.child[z][m]
             f == t.child[o][m]
             d2 == Turned(t, d, z, q)
             h2 == [h EXCEPT ![q] = h[m], ![m] = h[q], ![f] = h[f] + 1]
  <1>2. /\ o = Other(z) /\ m = t.child[o][q] /\ f = t.child[o][m] /\ Red(t, f)
        /\ IsExchange(t, t1, q, m, f) /\ IsRedBlack(t, D, q, z, Null, Null)
        /\ q \in Keys /\ z \in Sides
    OBVIOUS
  <1>3. /\ o \in Sides /\ o # z /\ m \in Keys /\ m # q /\ m # Null /\ q # Null
        /\ \A y \in Sides : y = z \/ y = o
    <2>1. o \in Sides /\ o # z /\ \A y \in Sides : y = z \/ y = o
      BY SideFacts
    <2>2. m \in Keys
      BY SiblingIs
    <2>3. m # q
      BY <2>1, RedBlackFacts
    <2> QED
      BY <2>1, <2>2, <2>3, NullIsNoKey
  <1> HIDE DEF o, f
  <1>4. \A x \in Keys, y \in Sides : t.child[y][x] # x /\ t.child[y][x] \in Pointers
    BY RedBlackFacts
  <1>5. f \in Keys /\ f # Null /\ f # m /\ f # q
    <2>1. f \in Pointers /\ f # m
      BY <1>3, <1>4, <1>2
    <2>2. f # q
      BY <1>3, <1>2, NoWayBack
    <2>3. f # Null
      BY <1>2 DEF Red
    <2> QED
      BY <2>1, <2>2, <2>3 DEF Pointers
  <1>6. /\ \A x \in Keys, y \in Sides : t.child[y][x] = f => x = m /\ y = o
        /\ \A x \in Keys, y \in Sides : t.child[y][x] = m => x = q /\ y = o
        /\ m \in D /\ q \in D /\ f \in D /\ f # t.root /\ m # t.root
        /\ t \in Trees /\ t.root \in Pointers
    <2>1. \A x \in Keys, y \in Sides : t.child[y][x] = f => x = m /\ y = o
      BY ONLY <1>2, <1>3, <1>5, RedBlackFacts
    <2>2. \A x \in Keys, y \in Sides : t.child[y][x] = m => x = q /\ y = o
      BY ONLY <1>2, <1>3, RedBlackFacts
    <2>3. m \in D /\ q \in D /\ m # t.root
      BY ONLY <1>2, <1>3, RedBlackFacts
    <2>4. f \in D /\ f # t.root
      BY ONLY <1>2, <1>3, <1>5, RedBlackFacts
    <2>5. t \in Trees /\ t.root \in Pointers
      BY RedBlackFacts
    <2> QED
      BY <2>1, <2>2, <2>3, <2>4, <2>5
  <1>7. /\ t1 \in Trees /\ t1.root = t.root /\ t1.parent = t.parent /\ t1.child = t.child
        /\ \A x \in Keys : t1.color[x] =
             IF x = f \/ x = q THEN "black" ELSE IF x = m THEN t.color[q] ELSE t.color[x]
    BY <1>2 DEF IsExchange
  <1>8. Tree(t1, d) /\ m = t1.child[o][q] /\ d2 = Turned(t1, d, z, q)
    <2>1. Tree(t1, d)
      BY <1>1, <1>7, PaintKeepsTree
    <2> QED
      BY <1>7, <1>2, <2>1 DEF Turned
  <1> HIDE DEF d2
  <1>9. Tree(t2, d2) /\ d2[t2.root] = d[t.root]
    <2>1. t1.child[Other(z)][q] # Null
      BY <1>3, <1>8, <1>2
    <2>2. /\ Tree(Rotate(t1, z, q), Turned(t1, d, z, q))
          /\ Turned(t1, d, z, q)[Rotate(t1, z, q).root] = d[t1.root]
      BY <1>8, <2>1, RotateKeepsTree
    <2> QED
      BY <1>7, <1>8, <2>2
  <1>10. /\ t2.color = t1.color /\ t2.root = IF q = t.root THEN m ELSE t.root
         /\ t2.child[z][q] = e /\ t2.child[o][q] = b
         /\ t2.child[z][m] = q /\ t2.child[o][m] = f
         /\ \A x \in Keys, y \in Sides : x # q /\ x # m =>
              /\ t2.child[y][x] = IF t.child[y][x] = q THEN m ELSE t.child[y][x]
              /\ t.child[y][x] # m
         /\ b # q /\ b # m /\ e # q /\ e # m
    <2>1. Tree(t1, d) /\ o = Other(z) /\ m = t1.child[o][q] /\ m # Null
      BY <1>3, <1>8, <1>2
    <2>2. /\ Rotate(t1, z, q).color = t1.color
          /\ Rotate(t1, z, q).root = IF q = t1.root THEN m ELSE t1.root
          /\ Rotate(t1, z, q).child[z][q] = t1.child[z][q]
          /\ Rotate(t1, z, q).child[o][q] = t1.child[z][m]
          /\ Rotate(t1, z, q).child[z][m] = q
          /\ Rotate(t1, z, q).child[o][m] = t1.child[o][m]
      BY ONLY <2>1, RotateEdges
    <2>3. ASSUME NEW x \in Keys, NEW y \in Sides, x # q, x # m
          PROVE  /\ t2.child[y][x] = IF t.child[y][x] = q THEN m ELSE t.child[y][x]
                 /\ t.child[y][x] # m
      <3>1. /\ Rotate(t1, z, q).child[y][x] = IF t1.child[y][x] = q THEN m ELSE t1.child[y][x]
            /\ t1.child[y][x] # m
        BY ONLY <2>1, <2>3, RotateEdges
      <3> QED
        BY <1>7, <3>1
    <2>4. /\ \A y \in Sides : t1.child[y][m] # q /\ t1.child[y][m] # m
          /\ t1.child[z][q] # q /\ t1.child[z][q] # m
      BY ONLY <2>1, RotateEdges
    <2>5. /\ t2.color = t1.color /\ t2.root = IF q = t.root THEN m ELSE t.root
          /\ t2.child[z][q] = e /\ t2.child[o][q] = b
          /\ t2.child[z][m] = q /\ t2.child[o][m] = f
      BY <1>7, <1>2, <2>2
    <2>6. b # q /\ b # m /\ e # q /\ e # m
      BY <1>7, <2>4
    <2> QED
      BY <2>3, <2>5, <2>6
  <1>11. e # f /\ b # f
    BY <1>3, <1>6
  <1>12. e \in Pointers /\ b \in Pointers /\ f \in Pointers /\ q \in Pointers /\ m \in Pointers
    BY <1>3, <1>4, <1>5 DEF Pointers
  <1> HIDE DEF e, b
  <1>13. \A x \in Keys : t2.color[x] =
             IF x = f \/ x = q THEN "black" ELSE IF x = m THEN t.color[q] ELSE t.color[x]
    BY <1>7, <1>10
  <1>14. Balanced(t2, h2, Null, z2)
    <2>1. /\ h \in [Pointers -> Nat] /\ h[Null] = 0
          /\ \A x \in Keys, y \in Sides : h[x] = h[t.child[y][x]] + Weight(t, x) + Extra(q, z, x, y)
      BY <1>1 DEF Balanced
    <2>2. /\ h[q] \in Nat /\ h[m] \in Nat /\ h[f] \in Nat /\ h[e] \in Nat /\ h[b] \in Nat
          /\ h[f] + 1 \in Nat
      BY <1>12, <2>1
    <2>3. /\ h2 \in [Pointers -> Nat] /\ h2[Null] = 0
          /\ h2[q] = h[m] /\ h2[m] = h[q] /\ h2[f] = h[f] + 1
          /\ \A x \in Pointers : x # q /\ x # m /\ x # f => h2[x] = h[x]
      <3> DEFINE a == h[f] + 1
                 h1 == [h EXCEPT ![q] = h[m], ![m] = h[q]]
      <3> HIDE DEF a
      <3>1. h1 \in [Pointers -> Nat] /\ h1[q] = h[m] /\ h1[m] = h[q]
            /\ \A x \in Pointers : x # q /\ x # m => h1[x] = h[x]
        BY <1>3, <1>12, <2>1, <2>2
      <3>2. h2 = [h1 EXCEPT ![f] = a]
        BY DEF a
      <3>3. a \in Nat
        BY <2>2 DEF a
      <3> HIDE DEF h1, h2
      <3>4. h2 \in [Pointers -> Nat] /\ h2[f] = a
            /\ \A x \in Pointers : x # f => h2[x] = h1[x]
        BY <1>12, <3>1, <3>2, <3>3
      <3>5. h2[q] = h[m] /\ h2[m] = h[q]
        BY <1>5, <1>12, <3>1, <3>4
      <3>6. h2[Null] = 0
        BY <1>3, <1>5, <2>1, <3>1, <3>4 DEF Pointers
      <3> QED
        BY <3>1, <3>4, <3>5, <3>6 DEF a
    <2> HIDE DEF h2
    <2>4. /\ Weight(t, m) = 1 /\ Weight(t, f) = 0 /\ Weight(t, q) \in Nat
          /\ Weight(t2, q) = 1 /\ Weight(t2, f) = 1 /\ Weight(t2, m) = Weight(t, q)
      <3>1. t2.color[q] = "black" /\ t2.color[f] = "black" /\ t2.color[m] = t.color[q]
        BY <1>3, <1>5, <1>13
      <3>2. t.color[m] # "red" /\ t.color[f] = "red"
        BY <1>3, <1>2 DEF Red
      <3> QED
        BY <3>1, <3>2 DEF Weight
    <2>5. h[m] = h[b] + 1 /\ h[m] = h[f] + 1
      <3>1. Extra(q, z, m, z) = 0 /\ Extra(q, z, m, o) = 0
        BY <1>3 DEF Extra
      <3>2. h[m] = h[b] + Weight(t, m) + Extra(q, z, m, z)
            /\ h[m] = h[f] + Weight(t, m) + Extra(q, z, m, o)
        BY <1>3, <1>2, <2>1 DEF b
      <3> QED
        BY <2>2, <2>4, <3>1, <3>2
    <2>6. h[q] = h[e] + Weight(t, q) + 1 /\ h[q] = h[m] + Weight(t, q) + 0
      <3>1. Extra(q, z, q, z) = 1 /\ Extra(q, z, q, o) = 0
        BY <1>3 DEF Extra
      <3> QED
        BY <1>3, <1>2, <2>1, <3>1 DEF e
    <2>7. h[m] = h[e] + 1 /\ h[q] = h[m] + Weight(t, q)
      BY <2>2, <2>4, <2>6
    <2>8. h2[e] = h[e] /\ h2[b] = h[b]
      <3>1. e # q /\ e # m /\ b # q /\ b # m
        BY <1>10
      <3> QED
        BY <1>11, <1>12, <2>3, <3>1
    <2>9. ASSUME NEW x \in Keys, NEW y \in Sides
          PROVE  h2[x] = h2[t2.child[y][x]] + Weight(t2, x) + 0
      <3>1. CASE x = q /\ y = z
        <4>1. t2.child[y][x] = e /\ h2[x] = h[m] /\ Weight(t2, x) = 1
          BY <1>10, <2>3, <2>4, <3>1
        <4>2. h[m] = h[e] + 1 + 0
          BY <2>2, <2>7
        <4> QED
          BY <2>8, <4>1, <4>2
      <3>2. CASE x = q /\ y = o
        <4>1. t2.child[y][x] = b /\ h2[x] = h[m] /\ Weight(t2, x) = 1
          BY <1>10, <2>3, <2>4, <3>2
        <4>2. h[m] = h[b] + 1 + 0
          BY <2>2, <2>5
        <4> QED
          BY <2>8, <4>1, <4>2
      <3>3. CASE x = m /\ y = z
        <4>1. t2.child[y][x] = q /\ h2[x] = h[q] /\ Weight(t2, x) = Weight(t, q)
          BY <1>10, <2>3, <2>4, <3>3
        <4>2. h[q] = h[m] + Weight(t, q) + 0
          BY <2>6
        <4> QED
          BY <2>3, <4>1, <4>2
      <3>4. CASE x = m /\ y = o
        <4>1. t2.child[y][x] = f /\ h2[x] = h[q] /\ Weight(t2, x) = Weight(t, q)
          BY <1>10, <2>3, <2>4, <3>4
        <4>2. h[q] = (h[f] + 1) + Weight(t, q) + 0
          BY <2>2, <2>4, <2>5, <2>7
        <4> QED
          BY <2>3, <4>1, <4>2
      <3>5. CASE x = f
        <4> DEFINE c == t.child[y][x]
        <4>1. c \in Pointers /\ c # f /\ c # m /\ c # q
          <5>1. ASSUME c = q PROVE FALSE
            <6>1. f \in d[m] /\ m \in d[q]
              BY ONLY <1>1, <1>3, <1>5, <1>2, ChildFacts
            <6>2. q \in d[f]
              BY <1>1, <1>3, <1>5, <3>5, <5>1, ChildFacts
            <6>3. d[f] \subseteq d[m]
              BY <1>1, <1>3, <1>2, BelowFacts
            <6>4. q \notin d[m]
              BY ONLY <1>1, <1>3, <1>2, BelowFacts
            <6> QED
              BY <6>2, <6>3, <6>4
          <5>2. c # m
            BY <1>5, <1>6, <3>5
          <5> QED
            BY <1>4, <3>5, <5>1, <5>2
        <4>2. t2.child[y][x] = c
          BY <1>5, <1>10, <3>5, <4>1
        <4>3. h[x] = h[c] + Weight(t, x) + Extra(q, z, x, y) /\ h[c] \in Nat
          BY <2>1, <4>1
        <4>4. Extra(q, z, x, y) = 0 /\ Weight(t, x) = 0 /\ Weight(t2, x) = 1
          BY <1>5, <2>4, <3>5 DEF Extra
        <4>5. h2[c] = h[c] /\ h2[x] = h[x] + 1
          BY <2>3, <3>5, <4>1
        <4> HIDE DEF c
        <4>6. h[x] + 1 = h[c] + 1 + 0
          BY <4>3, <4>4
        <4> QED
          BY <4>2, <4>4, <4>5, <4>6
      <3>6. CASE x # q /\ x # m /\ x # f
        <4> DEFINE c == t.child[y][x]
        <4>1. c \in Pointers /\ c # f /\ c # m /\ t2.child[y][x] = IF c = q THEN m ELSE c
          BY <1>4, <1>6, <1>10, <3>6
        <4>2. h2[t2.child[y][x]] = h[c]
          BY <2>3, <4>1
        <4>3. h[x] = h[c] + Weight(t, x) + Extra(q, z, x, y)
          BY <2>1
        <4>4. Extra(q, z, x, y) = 0 /\ Weight(t2, x) = Weight(t, x)
          BY <1>13, <3>6 DEF Extra, Weight
        <4>5. h2[x] = h[x]
          BY <2>3, <3>6 DEF Pointers
        <4> QED
          BY <4>2, <4>3, <4>4, <4>5
      <3> QED
        BY <1>3, <3>1, <3>2, <3>3, <3>4, <3>5, <3>6
    <2>10. \A x \in Keys, y \in Sides : Extra(Null, z2, x, y) = 0
      BY NullIsNoKey DEF Extra
    <2> QED
      BY <2>3, <2>9, <2>10 DEF Balanced
  <1> HIDE DEF h2
  <1>15. NoRedPair(t2, Null, Null)
    <2> SUFFICES ASSUME NEW x \in Keys, NEW y \in Sides, Red(t2, x), Red(t2, t2.child[y][x])
                 PROVE  FALSE
      BY DEF NoRedPair
    <2> DEFINE c == t.child[y][x]
               c2 == t2.child[y][x]
    <2>1. x # q /\ x # f /\ c2 # q /\ c2 # f /\ c2 # Null
      BY <1>3, <1>5, <1>13 DEF Red
    <2>2. x # m
      BY <1>3, <1>10, <2>1
    <2>3. c \in Pointers /\ c # m /\ c2 = IF c = q THEN m ELSE c
      BY <1>4, <1>10, <2>1, <2>2
    <2>4. Red(t, x)
      BY <1>13, <2>1, <2>2 DEF Red
    <2> HIDE DEF c
    <2>5. Red(t, c)
      <3>1. CASE c = q
        <4>1. c2 = m /\ t2.color[m] = "red"
          BY <2>3, <3>1 DEF Red
        <4> QED
          BY <1>3, <1>5, <1>13, <3>1, <4>1 DEF Red
      <3>2. CASE c # q
        <4>1. c2 = c /\ c \in Keys /\ c # f
          BY <2>1, <2>3, <3>2 DEF Pointers
        <4> QED
          BY <1>13, <2>1, <2>3, <3>2, <4>1 DEF Red
      <3> QED
        BY <3>1, <3>2
    <2> QED
      BY <1>1, <2>4, <2>5, <2>1, <2>3 DEF NoRedPair, Red, c
  <1>16. BlackOutside(t2, d2)
    BY <1>1, <1>6, <1>9, <1>13 DEF BlackOutside, Red
  <1>17. ~Red(t2, t2.root)
    <2>1. ~Red(t, t.root)
      BY <1>1 DEF Red
    <2>2. CASE q = t.root
      BY ONLY <1>3, <1>5, <1>10, <1>13, <2>1, <2>2 DEF Red
    <2>3. CASE q # t.root
      BY <1>6, <1>10, <1>13, <2>1, <2>3 DEF Red, Pointers
    <2> QED
      BY <2>2, <2>3
  <1>18. D = d2[t2.root]
    BY <1>1, <1>9
  <1> QED
    BY <1>9, <1>14, <1>15, <1>16, <1>17, <1>18 DEF IsRedBlack

-----------------------------------------------------------------------------
(* The inductive invariant: the tree is a red-black tree but for what the  *)
(* loops have still to repair, which is where elm is.                      *)
Lacking == pc = "remove_color" /\ elm # tree.root
LackAt == IF Lacking THEN parent ELSE Null
Upper == IF pc = "remove_color" THEN elm ELSE Null

Sound ==
    \E z : /\ IsRedBlack(tree, KeysIn(tree), LackAt, z, elm, Upper)
           /\ IsGap(tree, LackAt, z, elm)

Inv ==
    /\ pc \in {"idle", "insert_color", "remove_color"}
    /\ elm \in Pointers /\ parent \in Pointers
    /\ Sound
    /\ pc = "idle" => elm = Null
    /\ pc = "insert_color" => elm \in Keys /\ Red(tree, elm)
    /\ Lacking => parent \in Keys

LEMMA NodesAre ==
    ASSUME NEW t, NEW D, NEW q, NEW z, NEW e, NEW f, IsRedBlack(t, D, q, z, e, f)
    PROVE  /\ KeysIn(t) = D /\ t \in Trees /\ D \subseteq Keys
           /\ \A k \in Keys : Find(t, k) = IF k \in D THEN k ELSE Null
  <1>1. PICK d, h : /\ Tree(t, d) /\ D = d[t.root]
                    /\ Balanced(t, h, q, z) /\ NoRedPair(t, e, f) /\ BlackOutside(t, d)
                    /\ Red(t, t.root) => t.root = e
    BY DEF IsRedBlack
  <1>2. KeysIn(t) = D
    BY <1>1, KeysInIs
  <1>3. \A k \in Keys : Find(t, k) = IF k \in D THEN k ELSE Null
    BY <1>1, FindIs
  <1> QED
    BY <1>2, <1>3, RedBlackFacts

(* What the invariant says in the states that the operations begin in      *)
LEMMA WhenIdle ==
    ASSUME Inv, pc = "idle"
    PROVE  \E z : IsRedBlack(tree, KeysIn(tree), Null, z, Null, Null)
  BY DEF Inv, Sound, LackAt, Lacking, Upper

LEMMA WhenInserting ==
    ASSUME Inv, pc = "insert_color"
    PROVE  /\ \E z : IsRedBlack(tree, KeysIn(tree), Null, z, elm, Null)
           /\ elm \in Keys /\ Red(tree, elm)
  BY DEF Inv, Sound, LackAt, Lacking, Upper

LEMMA WhenLacking ==
    ASSUME Inv, Lack
    PROVE  /\ parent \in Keys /\ LackSide \in Sides
           /\ IsRedBlack(tree, KeysIn(tree), parent, LackSide, Null, Null)
           /\ tree.child[LackSide][parent] = elm /\ ~Red(tree, elm)
           /\ pc = "remove_color"
  <1>1. PICK z : /\ IsRedBlack(tree, KeysIn(tree), parent, z, elm, elm)
                 /\ IsGap(tree, parent, z, elm)
    BY DEF Inv, Sound, LackAt, Lacking, Upper, Lack
  <1>2. parent \in Keys
    BY DEF Inv, Lacking, Lack
  <1>3. z \in Sides /\ tree.child[z][parent] = elm /\ ~Red(tree, elm)
    BY <1>1, <1>2, NullIsNoKey DEF IsGap, Lack
  <1>4. IsRedBlack(tree, KeysIn(tree), parent, z, Null, Null)
    BY <1>1, <1>3, Strengthen
  <1>5. LackSide = z
    BY <1>1, <1>2, <1>3, SiblingIs DEF LackSide
  <1> QED
    BY <1>2, <1>3, <1>4, <1>5 DEF Lack

(* and what makes it true in those they end in                             *)
LEMMA ThenIdle ==
    ASSUME NEW D, NEW z, IsRedBlack(tree', D, Null, z, Null, Null),
           pc' = "idle", elm' = Null, parent' \in Pointers
    PROVE  Inv' /\ KeysIn(tree') = D
  <1>1. KeysIn(tree') = D
    BY NodesAre
  <1>2. Sound'
    BY <1>1 DEF Sound, LackAt, Lacking, Upper, IsGap
  <1> QED
    BY <1>1, <1>2 DEF Inv, Lacking, Pointers

LEMMA ThenInserting ==
    ASSUME NEW D, NEW z, IsRedBlack(tree', D, Null, z, elm', Null), Red(tree', elm'),
           pc' = "insert_color", elm' \in Keys, parent' \in Pointers
    PROVE  Inv' /\ KeysIn(tree') = D
  <1>1. KeysIn(tree') = D
    BY NodesAre
  <1>2. Sound'
    BY <1>1 DEF Sound, LackAt, Lacking, Upper, IsGap
  <1> QED
    BY <1>1, <1>2 DEF Inv, Lacking, Pointers

LEMMA ThenRemoving ==
    ASSUME NEW D, NEW z, NEW q, q = IF elm' # tree'.root THEN parent' ELSE Null,
           IsRedBlack(tree', D, q, z, elm', elm'), IsGap(tree', q, z, elm'),
           pc' = "remove_color", elm' \in Pointers, parent' \in Pointers,
           elm' # tree'.root => parent' \in Keys
    PROVE  Inv' /\ KeysIn(tree') = D
  <1>1. KeysIn(tree') = D
    BY NodesAre
  <1>2. Sound'
    <2>1. LackAt' = q /\ Upper' = elm'
      BY DEF LackAt, Lacking, Upper
    <2> QED
      BY <1>1, <2>1 DEF Sound
  <1> QED
    BY <1>1, <1>2 DEF Inv, Lacking

-----------------------------------------------------------------------------
LEMMA InitInv == ASSUME Init PROVE Inv /\ KeysIn(tree) = {}
  <1> DEFINE d == [n \in Pointers |-> IF n = Null THEN {} ELSE {n}]
             h == [n \in Pointers |-> IF n = Null THEN 0 ELSE 1]
  <1>1. /\ tree \in Trees /\ tree.root = Null /\ d[Null] = {} /\ h[Null] = 0
        /\ \A n \in Keys : /\ n # Null /\ n \in Pointers /\ tree.parent[n] = Null
                           /\ tree.color[n] = "black" /\ d[n] = {n} /\ h[n] = 1
        /\ \A n \in Keys, s \in Sides : tree.child[s][n] = Null
    BY NullIsNoKey DEF Init, Trees, Pointers, Sides
  <1>2. d \in [Pointers -> SUBSET Keys] /\ h \in [Pointers -> Nat]
    BY DEF Pointers
  <1> HIDE DEF d, h
  <1>3. Tree(tree, d)
    <2>1. IsBelow(tree, d)
      <3>1. \A n \in Keys : IsFiniteSet(d[n])
        <4> SUFFICES ASSUME NEW n \in Keys PROVE IsFiniteSet(d[n])
          OBVIOUS
        <4>1. IsFiniteSet({n})
          BY FS_Singleton
        <4> QED
          BY <1>1, <4>1
      <3>2. \A n \in Keys : d[n] = {n} \cup d[tree.child["left"][n]] \cup d[tree.child["right"][n]]
        BY <1>1 DEF Sides
      <3> QED
        BY <1>1, <1>2, <3>1, <3>2 DEF IsBelow
    <2>2. IsSorted(tree, d)
      BY <1>1 DEF IsSorted
    <2>3. LinksAgree(tree, d)
      BY <1>1 DEF LinksAgree
    <2> QED
      BY <1>1, <2>1, <2>2, <2>3 DEF Tree
  <1>4. Balanced(tree, h, Null, "left")
    <2>1. \A n \in Keys, s \in Sides :
             h[n] = h[tree.child[s][n]] + Weight(tree, n) + Extra(Null, "left", n, s)
      BY <1>1 DEF Weight, Extra
    <2> QED
      BY <1>1, <1>2, <2>1 DEF Balanced
  <1>5. NoRedPair(tree, Null, Null) /\ BlackOutside(tree, d) /\ ~Red(tree, tree.root)
    BY <1>1 DEF NoRedPair, BlackOutside, Red
  <1>6. IsRedBlack(tree, {}, Null, "left", Null, Null)
    BY <1>1, <1>3, <1>4, <1>5 DEF IsRedBlack
  <1>7. KeysIn(tree) = {}
    BY <1>6, NodesAre
  <1>8. Sound
    BY <1>6, <1>7 DEF Init, Sound, LackAt, Lacking, Upper, IsGap
  <1> QED
    BY <1>7, <1>8 DEF Init, Inv, Lacking, Pointers

(* One lemma for each action: the invariant is kept, and the nodes of the  *)
(* tree are the ones before, with the key that is inserted or without the  *)
(* one that is removed.                                                    *)
LEMMA InsertNewKeeps ==
    ASSUME Inv, NEW k \in Keys, InsertNew(k)
    PROVE  Inv' /\ KeysIn(tree') = KeysIn(tree) \cup {k}
  <1> DEFINE D == KeysIn(tree)
  <1>1. PICK z : IsRedBlack(tree, D, Null, z, Null, Null)
    BY WhenIdle DEF InsertNew
  <1>2. k \notin D
    <2>1. Find(tree, k) = Null
      BY DEF InsertNew
    <2> QED
      BY <1>1, <2>1, NodesAre, NullIsNoKey
  <1> HIDE DEF D
  <1>3. tree' = Leaf(tree, k) /\ elm' = k /\ pc' = "insert_color" /\ parent' \in Pointers
    BY DEF InsertNew, Inv
  <1>4. IsRedBlack(tree', D \cup {k}, Null, z, k, Null) /\ Red(tree', k)
    BY <1>1, <1>2, <1>3, LeafKeeps
  <1>5. Inv' /\ KeysIn(tree') = D \cup {k}
    BY <1>3, <1>4, ThenInserting
  <1> QED
    BY <1>5 DEF D

LEMMA InsertRecolorKeeps ==
    ASSUME Inv, InsertRecolor
    PROVE  Inv' /\ KeysIn(tree') = KeysIn(tree)
  <1> DEFINE D == KeysIn(tree)
             p == tree.parent[elm]
             g == tree.parent[p]
             side == SideOf(tree, g, p)
             u == tree.child[Other(side)][g]
  <1>1. PICK z : IsRedBlack(tree, D, Null, z, elm, Null)
    BY WhenInserting DEF InsertRecolor, InsertConflict
  <1>2. elm \in Keys /\ Red(tree, elm) /\ Red(tree, p) /\ pc = "insert_color"
    BY WhenInserting DEF InsertRecolor, InsertConflict
  <1>3. /\ Red(tree, u) /\ tree' = BlackRed(Paint(tree, u, "black"), p, g)
        /\ elm' = g /\ pc' = "insert_color" /\ parent' \in Pointers
    BY <1>2 DEF InsertRecolor, Uncle, Inv
  <1>4. p = tree.parent[elm] /\ g = tree.parent[p] /\ u = tree.child[Other(side)][g]
        /\ side = SideOf(tree, g, p)
    OBVIOUS
  <1> HIDE DEF p, g, u, side, D
  <1>5. /\ p \in Keys /\ g \in Keys /\ ~Red(tree, g) /\ side \in Sides /\ tree.child[side][g] = p
        /\ \E y \in Sides : tree.child[y][p] = elm
    BY <1>1, <1>2, <1>4, ConflictFacts
  <1>6. IsRedBlack(tree', D, Null, z, g, Null) /\ Red(tree', g)
    <2>1. /\ elm \in Keys /\ IsRedBlack(tree, D, Null, z, elm, Null)
          /\ p \in Keys /\ Red(tree, p) /\ g \in Keys /\ ~Red(tree, g) /\ side \in Sides
          /\ p = tree.child[side][g] /\ \E y \in Sides : tree.child[y][p] = elm
          /\ u = tree.child[Other(side)][g] /\ Red(tree, u)
      BY <1>1, <1>2, <1>3, <1>4, <1>5
    <2>2. IsRedBlack(BlackRed(Paint(tree, u, "black"), p, g), D, Null, z, g, Null)
      BY <2>1, RecolorCase
    <2>3. Red(BlackRed(Paint(tree, u, "black"), p, g), g)
      BY <2>1, RecolorCase
    <2> QED
      BY <1>3, <2>2, <2>3
  <1>7. Inv' /\ KeysIn(tree') = D
    BY <1>3, <1>5, <1>6, ThenInserting
  <1> QED
    BY <1>7 DEF D

LEMMA InsertRotateKeeps ==
    ASSUME Inv, InsertRotate
    PROVE  Inv' /\ KeysIn(tree') = KeysIn(tree)
  <1> DEFINE D == KeysIn(tree)
             p == tree.parent[elm]
             g == tree.parent[p]
             side == SideOf(tree, g, p)
             inner == tree.child[Other(side)][p] = elm
             t1 == Rotate(tree, side, p)
  <1>1. PICK z : IsRedBlack(tree, D, Null, z, elm, Null)
    BY WhenInserting DEF InsertRotate, InsertConflict
  <1>2. elm \in Keys /\ Red(tree, elm) /\ Red(tree, p) /\ pc = "insert_color"
    BY WhenInserting DEF InsertRotate, InsertConflict
  <1>3. ~Red(tree, tree.child[Other(side)][g]) /\ pc' = "insert_color" /\ parent' \in Pointers
    BY <1>2 DEF InsertRotate, Uncle, Inv
  <1>4. inner => elm' = p /\ tree' = Rotate(BlackRed(t1, elm, g), Other(side), g)
    BY DEF InsertRotate
  <1>5. ~inner => elm' = elm /\ tree' = Rotate(BlackRed(tree, p, g), Other(side), g)
    BY DEF InsertRotate
  <1>6. p = tree.parent[elm] /\ g = tree.parent[p] /\ side = SideOf(tree, g, p)
        /\ (inner <=> tree.child[Other(side)][p] = elm) /\ t1 = Rotate(tree, side, p)
    OBVIOUS
  <1> HIDE DEF p, g, side, D, inner, t1
  <1>7. /\ p \in Keys /\ g \in Keys /\ ~Red(tree, g) /\ side \in Sides /\ tree.child[side][g] = p
        /\ \E y \in Sides : tree.child[y][p] = elm
    BY <1>1, <1>2, <1>6, ConflictFacts
  <1>8. CASE inner
    <2>1. elm = tree.child[Other(side)][p]
      BY <1>6, <1>8
    <2>2. IsRedBlack(tree', D, Null, z, p, Null) /\ Red(tree', p)
      <3>1. /\ elm \in Keys /\ IsRedBlack(tree, D, Null, z, elm, Null) /\ Red(tree, elm)
            /\ p \in Keys /\ Red(tree, p) /\ g \in Keys /\ ~Red(tree, g) /\ side \in Sides
            /\ p = tree.child[side][g] /\ elm = tree.child[Other(side)][p]
            /\ ~Red(tree, tree.child[Other(side)][g]) /\ t1 = Rotate(tree, side, p)
        BY <1>1, <1>2, <1>3, <1>6, <1>7, <2>1
      <3>2. IsRedBlack(Rotate(BlackRed(t1, elm, g), Other(side), g), D, Null, z, p, Null)
        BY <3>1, InnerCase
      <3>3. Red(Rotate(BlackRed(t1, elm, g), Other(side), g), p)
        BY <3>1, InnerCase
      <3> QED
        BY <1>4, <1>8, <3>2, <3>3
    <2>3. Inv' /\ KeysIn(tree') = D
      BY <1>3, <1>4, <1>7, <1>8, <2>2, ThenInserting
    <2> QED
      BY <2>3 DEF D
  <1>9. CASE ~inner
    <2>1. elm = tree.child[side][p]
      BY <1>6, <1>7, <1>9, SideFacts
    <2>2. IsRedBlack(tree', D, Null, z, elm, Null) /\ Red(tree', elm)
      BY <1>1, <1>2, <1>3, <1>5, <1>7, <1>9, <2>1, OuterCase
    <2>3. Inv' /\ KeysIn(tree') = D
      BY <1>2, <1>3, <1>5, <1>9, <2>2, ThenInserting
    <2> QED
      BY <2>3 DEF D
  <1> QED
    BY <1>8, <1>9

LEMMA InsertDoneKeeps ==
    ASSUME Inv, InsertDone
    PROVE  Inv' /\ KeysIn(tree') = KeysIn(tree)
  <1> DEFINE D == KeysIn(tree)
  <1>1. PICK z : IsRedBlack(tree, D, Null, z, elm, Null)
    BY WhenInserting DEF InsertDone
  <1>2. elm \in Keys /\ ~Red(tree, tree.parent[elm])
    BY WhenInserting DEF InsertDone, InsertConflict
  <1>3. tree' = Paint(tree, tree.root, "black") /\ pc' = "idle" /\ elm' = Null /\ parent' \in Pointers
    BY DEF InsertDone, Inv
  <1> HIDE DEF D
  <1>4. IsRedBlack(tree, D, Null, z, tree.root, tree.root)
    BY <1>1, <1>2, ConflictGone
  <1>5. tree.root \in Pointers
    BY <1>1, RedBlackFacts
  <1>6. IsRedBlack(tree', D, Null, z, Null, Null)
    BY <1>3, <1>4, <1>5, PaintBlack
  <1>7. Inv' /\ KeysIn(tree') = D
    BY <1>3, <1>6, ThenIdle
  <1> QED
    BY <1>7 DEF D

LEMMA RemoveDoneKeeps ==
    ASSUME Inv, RemoveDone
    PROVE  Inv' /\ KeysIn(tree') = KeysIn(tree)
  <1> DEFINE D == KeysIn(tree)
  <1>1. PICK z : /\ IsRedBlack(tree, D, LackAt, z, elm, elm)
                 /\ IsGap(tree, LackAt, z, elm)
    BY DEF RemoveDone, Inv, Sound, Upper
  <1>2. tree' = Paint(tree, elm, "black") /\ pc' = "idle" /\ elm' = Null /\ parent' = Null
        /\ elm \in Pointers
    BY DEF RemoveDone, Inv
  <1> HIDE DEF D
  <1>3. \/ LackAt = Null /\ elm = tree.root
        \/ LackAt \in Keys /\ z \in Sides /\ tree.child[z][LackAt] = elm /\ Red(tree, elm)
    <2>1. CASE elm = tree.root
      BY <2>1 DEF LackAt, Lacking
    <2>2. CASE elm # tree.root
      <3>1. Red(tree, elm) /\ LackAt = parent /\ parent \in Keys
        BY <2>2 DEF RemoveDone, Lack, LackAt, Lacking, Inv
      <3> QED
        BY <1>1, <3>1, NullIsNoKey DEF IsGap
    <2> QED
      BY <2>1, <2>2
  <1>4. IsRedBlack(tree', D, Null, z, Null, Null)
    BY <1>1, <1>2, <1>3, PaintBlack
  <1>5. Inv' /\ KeysIn(tree') = D
    BY <1>2, <1>4, ThenIdle DEF Pointers
  <1> QED
    BY <1>5 DEF D

LEMMA RemoveOuterKeeps ==
    ASSUME Inv, NEW k \in Keys, RemoveOuter(k)
    PROVE  Inv' /\ k \in KeysIn(tree) /\ KeysIn(tree') = KeysIn(tree) \ {k}
  <1> DEFINE D == KeysIn(tree)
             p == tree.parent[k]
  <1>1. PICK z : IsRedBlack(tree, D, Null, z, Null, Null)
    BY WhenIdle DEF RemoveOuter
  <1>2. k \in D /\ pc = "idle" /\ elm = Null /\ parent \in Pointers
    BY DEF RemoveOuter, Inv
  <1>3. PICK side \in Sides :
           /\ tree.child[side][k] = Null
           /\ Recolor(Unlink(tree, k, tree.child[Other(side)][k]), k, tree.color[k], p,
                      tree.child[Other(side)][k])
    BY DEF RemoveOuter
  <1> DEFINE c == tree.child[Other(side)][k]
  <1>4. /\ tree' = Forget(Unlink(tree, k, c), k)
        /\ tree.color[k] = "black" => pc' = "remove_color" /\ elm' = c /\ parent' = p
        /\ tree.color[k] # "black" => pc' = pc /\ elm' = elm /\ parent' = parent
    BY <1>3 DEF Recolor
  <1>5. (tree.color[k] = "black" <=> ~Red(tree, k)) /\ k \in Keys
    BY <1>1, RedBlackFacts, TreeTypes, NullIsNoKey DEF Red
  <1>6. c = tree.child[Other(side)][k] /\ p = tree.parent[k]
    OBVIOUS
  <1> HIDE DEF D, c, p
  <1>7. /\ Red(tree, k) => \A y : IsRedBlack(tree', D \ {k}, Null, y, Null, Null)
        /\ ~Red(tree, k) => \E y : IsRedBlack(tree', D \ {k}, p, y, c, c) /\ IsGap(tree', p, y, c)
        /\ c = tree'.root <=> p = Null
        /\ c \in Pointers /\ p \in Pointers
    <2>1. /\ IsRedBlack(tree, D, Null, z, Null, Null) /\ k \in D /\ side \in Sides
          /\ tree.child[side][k] = Null /\ c = tree.child[Other(side)][k]
          /\ tree' = Forget(Unlink(tree, k, c), k)
      BY <1>1, <1>2, <1>3, <1>4, <1>6
    <2>2. Red(tree, k) => \A y : IsRedBlack(tree', D \ {k}, Null, y, Null, Null)
      BY <2>1, OuterKeeps
    <2>3. ~Red(tree, k) => \E y : IsRedBlack(tree', D \ {k}, p, y, c, c) /\ IsGap(tree', p, y, c)
      <3>1. ~Red(tree, k) =>
              \E y : /\ IsRedBlack(tree', D \ {k}, tree.parent[k], y, c, c)
                     /\ IsGap(tree', tree.parent[k], y, c)
        BY <2>1, OuterKeeps
      <3> QED
        BY <1>6, <3>1
    <2>4. (c = tree'.root <=> p = Null) /\ c \in Pointers /\ p \in Pointers
      <3>1. AtRoot(tree', c, tree.parent[k])
        BY <2>1, OuterKeeps
      <3>2. c \in Pointers /\ tree.parent[k] \in Pointers
        BY <2>1, OuterKeeps
      <3> QED
        BY <1>6, <3>1, <3>2 DEF AtRoot
    <2> QED
      BY <2>2, <2>3, <2>4
  <1>8. CASE Red(tree, k)
    <2>1. IsRedBlack(tree', D \ {k}, Null, z, Null, Null)
      BY <1>7, <1>8
    <2>2. pc' = "idle" /\ elm' = Null /\ parent' \in Pointers
      BY <1>2, <1>4, <1>5, <1>8
    <2>3. Inv' /\ KeysIn(tree') = D \ {k}
      BY <2>1, <2>2, ThenIdle
    <2> QED
      BY <1>2, <2>3 DEF D
  <1>9. CASE ~Red(tree, k)
    <2>1. PICK y : IsRedBlack(tree', D \ {k}, p, y, c, c) /\ IsGap(tree', p, y, c)
      BY <1>7, <1>9
    <2>2. pc' = "remove_color" /\ elm' = c /\ parent' = p
      BY <1>4, <1>5, <1>9
    <2>3. /\ p = IF elm' # tree'.root THEN parent' ELSE Null
          /\ elm' \in Pointers /\ parent' \in Pointers /\ (elm' # tree'.root => parent' \in Keys)
          /\ IsRedBlack(tree', D \ {k}, p, y, elm', elm') /\ IsGap(tree', p, y, elm')
      BY <1>7, <2>1, <2>2 DEF Pointers
    <2>4. Inv' /\ KeysIn(tree') = D \ {k}
      BY <2>2, <2>3, ThenRemoving
    <2> QED
      BY <1>2, <2>4 DEF D
  <1> QED
    BY <1>8, <1>9

LEMMA RemoveInnerKeeps ==
    ASSUME Inv, NEW k \in Keys, RemoveInner(k)
    PROVE  Inv' /\ k \in KeysIn(tree) /\ KeysIn(tree') = KeysIn(tree) \ {k}
  <1> DEFINE D == KeysIn(tree)
             y == Successor(tree, k)
             c == tree.child["right"][y]
             w == Forget(Replace(Lifted(tree, k), k, y), k)
             p == IF tree.parent[y] = k THEN y ELSE tree.parent[y]
  <1>1. PICK z : IsRedBlack(tree, D, Null, z, Null, Null)
    BY WhenIdle DEF RemoveInner
  <1>2. k \in D /\ pc = "idle" /\ elm = Null /\ parent \in Pointers
        /\ \A s \in Sides : tree.child[s][k] # Null
    BY DEF RemoveInner, Inv
  <1>3. /\ tree' = w
        /\ tree.color[y] = "black" => pc' = "remove_color" /\ elm' = c /\ parent' = p
        /\ tree.color[y] # "black" => pc' = pc /\ elm' = elm /\ parent' = parent
    BY DEF RemoveInner, Recolor, Successor, Lifted
  <1>4. /\ Red(tree, y) => \A x : IsRedBlack(w, D \ {k}, Null, x, Null, Null)
        /\ ~Red(tree, y) => \E x : IsRedBlack(w, D \ {k}, p, x, c, c) /\ IsGap(w, p, x, c)
        /\ c # w.root /\ p \in Keys /\ c \in Pointers /\ y \in Keys
    <2> HIDE DEF D
    <2> QED
      BY <1>1, <1>2, InnerKeeps
  <1> HIDE DEF D, c, w, p, y
  <1>5. tree.color[y] = "black" <=> ~Red(tree, y)
    BY <1>1, <1>4, RedBlackFacts, TreeTypes, NullIsNoKey DEF Red
  <1>6. CASE Red(tree, y)
    <2>1. IsRedBlack(tree', D \ {k}, Null, z, Null, Null)
      BY <1>3, <1>4, <1>6
    <2>2. pc' = "idle" /\ elm' = Null /\ parent' \in Pointers
      BY <1>2, <1>3, <1>5, <1>6
    <2>3. Inv' /\ KeysIn(tree') = D \ {k}
      BY <2>1, <2>2, ThenIdle
    <2> QED
      BY <1>2, <2>3 DEF D
  <1>7. CASE ~Red(tree, y)
    <2>1. PICK x : IsRedBlack(tree', D \ {k}, p, x, c, c) /\ IsGap(tree', p, x, c)
      BY <1>3, <1>4, <1>7
    <2>2. pc' = "remove_color" /\ elm' = c /\ parent' = p
      BY <1>3, <1>5, <1>7
    <2>3. /\ p = IF elm' # tree'.root THEN parent' ELSE Null
          /\ elm' \in Pointers /\ parent' \in Pointers /\ (elm' # tree'.root => parent' \in Keys)
          /\ IsRedBlack(tree', D \ {k}, p, x, elm', elm') /\ IsGap(tree', p, x, elm')
      BY <1>3, <1>4, <2>1, <2>2 DEF Pointers
    <2>4. Inv' /\ KeysIn(tree') = D \ {k}
      BY <2>2, <2>3, ThenRemoving
    <2> QED
      BY <1>2, <2>4 DEF D
  <1> QED
    BY <1>6, <1>7

LEMMA BlackSiblingIs ==
    ASSUME Inv, Lack
    PROVE  /\ IsRedBlack(BlackSibling, KeysIn(tree), parent, LackSide, Null, Null)
           /\ BlackSibling.child[Other(LackSide)][parent] \in Keys
           /\ ~Red(BlackSibling, BlackSibling.child[Other(LackSide)][parent])
  <1> DEFINE D == KeysIn(tree)
             z == LackSide
             m == tree.child[Other(z)][parent]
             t == BlackSibling
  <1>1. /\ parent \in Keys /\ z \in Sides /\ IsRedBlack(tree, D, parent, z, Null, Null)
        /\ tree.child[z][parent] = elm /\ ~Red(tree, elm)
    BY WhenLacking
  <1>2. t = IF tree.color[m] = "red" THEN Rotate(BlackRed(tree, m, parent), z, parent) ELSE tree
    BY DEF BlackSibling
  <1>3. m = tree.child[Other(z)][parent]
    OBVIOUS
  <1> HIDE DEF D, z, m, t
  <1>4. m \in Keys /\ m # Null
    BY <1>1, <1>3, SiblingIs, NullIsNoKey
  <1>5. IsRedBlack(t, D, parent, z, Null, Null) /\ ~Red(t, t.child[Other(z)][parent])
    <2>1. CASE tree.color[m] = "red"
      <3>1. Red(tree, m) /\ t = Rotate(BlackRed(tree, m, parent), z, parent)
        BY <1>2, <1>4, <2>1 DEF Red
      <3>2. elm = tree.child[z][parent]
        BY <1>1
      <3> QED
        BY <1>1, <1>3, <3>1, <3>2, SiblingRaised
    <2>2. CASE tree.color[m] # "red"
      <3>1. t = tree /\ ~Red(tree, m)
        BY <1>2, <2>2 DEF Red
      <3> QED
        BY <1>1, <1>3, <3>1
    <2> QED
      BY <2>1, <2>2
  <1>6. t.child[Other(z)][parent] \in Keys
    BY <1>1, <1>5, SiblingIs
  <1> QED
    BY <1>5, <1>6 DEF D, z, t

LEMMA RemoveUpKeeps ==
    ASSUME Inv, RemoveUp
    PROVE  Inv' /\ KeysIn(tree') = KeysIn(tree)
  <1> DEFINE D == KeysIn(tree)
             z == LackSide
             t == BlackSibling
             m == t.child[Other(z)][parent]
             p == t.parent[parent]
  <1>1. /\ parent \in Keys /\ z \in Sides /\ pc = "remove_color"
        /\ IsRedBlack(t, D, parent, z, Null, Null) /\ m \in Keys /\ ~Red(t, m)
    BY WhenLacking, BlackSiblingIs DEF RemoveUp
  <1>2. /\ \A y \in Sides : ~Red(t, t.child[y][m])
        /\ tree' = Paint(t, m, "red") /\ elm' = parent /\ parent' = p /\ pc' = pc
    BY DEF RemoveUp, BlackNephews
  <1>3. m = t.child[Other(z)][parent] /\ p = t.parent[parent]
    OBVIOUS
  <1> HIDE DEF D, z, t, m, p
  <1>4. /\ \E y : IsRedBlack(tree', D, p, y, parent, parent) /\ IsGap(tree', p, y, parent)
        /\ p \in Pointers /\ (p = Null <=> parent = tree'.root)
    BY <1>1, <1>2, <1>3, LackMovesUp
  <1>5. PICK y : IsRedBlack(tree', D, p, y, parent, parent) /\ IsGap(tree', p, y, parent)
    BY <1>4
  <1>6. /\ p = IF elm' # tree'.root THEN parent' ELSE Null
        /\ elm' \in Pointers /\ parent' \in Pointers /\ (elm' # tree'.root => parent' \in Keys)
        /\ IsRedBlack(tree', D, p, y, elm', elm') /\ IsGap(tree', p, y, elm')
        /\ pc' = "remove_color"
    BY <1>1, <1>2, <1>4, <1>5 DEF Pointers
  <1>7. Inv' /\ KeysIn(tree') = D
    BY <1>6, ThenRemoving
  <1> QED
    BY <1>7 DEF D

LEMMA RemoveRotateKeeps ==
    ASSUME Inv, RemoveRotate
    PROVE  Inv' /\ KeysIn(tree') = KeysIn(tree)
  <1> DEFINE D == KeysIn(tree)
             z == LackSide
             far == Other(z)
             t == BlackSibling
             m == t.child[far][parent]
             u == FarRed(t, far, m)
             n == u.child[far][parent]
             v == Exchange(u, parent, n, u.child[far][n])
  <1>1. /\ parent \in Keys /\ z \in Sides /\ pc = "remove_color"
        /\ IsRedBlack(t, D, parent, z, Null, Null) /\ m \in Keys /\ ~Red(t, m)
    BY WhenLacking, BlackSiblingIs DEF RemoveRotate
  <1>2. /\ \E y \in Sides : Red(t, t.child[y][m])
        /\ tree' = Rotate(v, z, parent) /\ elm' = tree'.root /\ pc' = pc /\ parent' = parent
    BY DEF RemoveRotate, BlackNephews, Exchanged, Exchange
  <1>3. /\ far = Other(z) /\ far \in Sides /\ z = Other(far) /\ \A y \in Sides : y = z \/ y = far
    BY <1>1, SideFacts
  <1>4. /\ u = IF Red(t, t.child[far][m]) THEN t
               ELSE Rotate(BlackRed(t, t.child[z][m], m), far, m)
        /\ m = t.child[far][parent] /\ n = u.child[far][parent]
        /\ v = Exchange(u, parent, n, u.child[far][n])
    BY <1>3 DEF FarRed
  <1> HIDE DEF D, z, far, t, m, u, n, v
  <1>5. IsRedBlack(u, D, parent, z, Null, Null) /\ ~Red(u, n) /\ Red(u, u.child[far][n])
    <2>1. CASE Red(t, t.child[far][m])
      <3>1. u = t /\ n = m
        BY <1>4, <2>1
      <3> QED
        BY <1>1, <2>1, <3>1
    <2>2. CASE ~Red(t, t.child[far][m])
      <3> DEFINE b == t.child[z][m]
      <3>1. Red(t, b)
        BY <1>2, <1>3, <2>2
      <3>2. u = Rotate(BlackRed(t, b, m), far, m)
        BY <1>4, <2>2
      <3>3. b = t.child[z][m]
        OBVIOUS
      <3> HIDE DEF b
      <3>4. IsRedBlack(u, D, parent, z, Null, Null) /\ FarIsRed(u, far, parent)
        <4>1. /\ IsRedBlack(t, D, parent, z, Null, Null) /\ parent \in Keys /\ z \in Sides
              /\ far = Other(z) /\ m = t.child[far][parent] /\ ~Red(t, m)
              /\ b = t.child[z][m] /\ Red(t, b) /\ ~Red(t, t.child[far][m])
          BY <1>1, <1>3, <1>4, <2>2, <3>1, <3>3
        <4> QED
          BY <3>2, <4>1, NearRaised
      <3> QED
        BY <1>4, <3>4 DEF FarIsRed
    <2> QED
      BY <2>1, <2>2
  <1>6. IsExchange(u, v, parent, n, u.child[far][n])
    <2>1. u \in Trees /\ n \in Keys
      <3>1. u \in Trees
        BY <1>5, RedBlackFacts
      <3>2. u.child[Other(z)][parent] \in Keys
        BY <1>1, <1>5, SiblingIs
      <3> QED
        BY <1>3, <1>4, <3>1, <3>2
    <2>2. u.child[far][n] \in Keys
      BY <1>3, <1>5, <2>1, TreeTypes DEF Red
    <2> QED
      BY <1>1, <1>4, <2>1, <2>2, ExchangeIs
  <1>7. IsRedBlack(tree', D, Null, z, Null, Null)
    <2>1. n = u.child[Other(z)][parent] /\ Red(u, u.child[Other(z)][n])
          /\ IsExchange(u, v, parent, n, u.child[Other(z)][n])
      BY <1>3, <1>4, <1>5, <1>6
    <2> QED
      BY <1>1, <1>2, <1>5, <2>1, LackEnds
  <1>8. IsRedBlack(tree', D, Null, z, elm', elm')
    BY <1>7, Weaken
  <1>9. elm' \in Pointers /\ parent' \in Pointers
    BY <1>1, <1>2, <1>7, RedBlackFacts DEF Pointers
  <1>10. IsGap(tree', Null, z, elm')
    BY DEF IsGap
  <1>11. Inv' /\ KeysIn(tree') = D
    <2>1. Null = IF elm' # tree'.root THEN parent' ELSE Null
      BY <1>2
    <2> QED
      BY <1>1, <1>2, <1>8, <1>9, <1>10, <2>1, ThenRemoving
  <1> QED
    BY <1>11 DEF D

LEMMA NextInv ==
    ASSUME Inv, [Next]_vars
    PROVE  /\ Inv'
           /\ \/ KeysIn(tree') = KeysIn(tree)
              \/ \E k \in Keys : KeysIn(tree') = KeysIn(tree) \cup {k}
              \/ \E k \in Keys : k \in KeysIn(tree) /\ KeysIn(tree') = KeysIn(tree) \ {k}
  <1>1. ASSUME NEW k \in Keys, InsertKnown(k) PROVE Inv' /\ KeysIn(tree') = KeysIn(tree)
    BY <1>1 DEF InsertKnown, vars, Inv, Sound, LackAt, Lacking, Upper
  <1>2. CASE UNCHANGED vars
    BY <1>2 DEF vars, Inv, Sound, LackAt, Lacking, Upper
  <1>3. CASE Fixup
    BY <1>3, InsertRecolorKeeps, InsertRotateKeeps, InsertDoneKeeps,
       RemoveUpKeeps, RemoveRotateKeeps, RemoveDoneKeeps DEF Fixup
  <1>4. CASE \E k \in Keys : InsertKnown(k) \/ InsertNew(k) \/ RemoveOuter(k) \/ RemoveInner(k)
    BY <1>1, <1>4, InsertNewKeeps, RemoveOuterKeeps, RemoveInnerKeeps
  <1> QED
    BY <1>2, <1>3, <1>4 DEF Next

-----------------------------------------------------------------------------
(* Whatever is inserted and removed, and in every state of the color       *)
(* loops, the tree is a search tree whose links up and down agree.         *)
LEMMA InvSearchTree == ASSUME Inv PROVE SearchTree
  <1>1. PICK z, d, h : /\ Tree(tree, d) /\ KeysIn(tree) = d[tree.root]
                       /\ Balanced(tree, h, LackAt, z)
    BY DEF Inv, Sound, IsRedBlack
  <1> DEFINE below == NodesBelow(tree)
  <1>2. \A n \in Pointers : below[n] = d[n]
    BY <1>1, KeysInIs
  <1>3. TypeOK
    BY <1>1 DEF Inv, TypeOK, Tree
  <1>4. tree.root # Null => tree.parent[tree.root] = Null
    BY <1>1 DEF Tree, LinksAgree
  <1> HIDE DEF below
  <1>5. ASSUME NEW n \in KeysIn(tree), NEW side \in Sides
        PROVE  /\ tree.child[side][n] # Null => tree.parent[tree.child[side][n]] = n
               /\ \A m \in below[tree.child[side][n]] : Toward(m, n) = side /\ m # n
    <2>1. n \in Keys /\ tree.child[side][n] \in Pointers
      BY <1>1, TreeTypes, BelowFacts DEF Tree
    <2>2. tree.child[side][n] # Null => tree.parent[tree.child[side][n]] = n
      BY <1>1, <2>1 DEF Tree, LinksAgree
    <2>3. \A m \in d[tree.child[side][n]] : Toward(m, n) = side /\ m # n
      BY <1>1, <2>1 DEF Tree, IsSorted
    <2> QED
      BY <1>2, <2>1, <2>2, <2>3
  <1> QED
    BY <1>3, <1>4, <1>5 DEF SearchTree, NodesBelow, below

(* The number of black nodes on a way down is the same for all ways.       *)
LEMMA BlacksIs ==
    ASSUME NEW t, NEW d, Tree(t, d), NEW h, NEW z, Balanced(t, h, Null, z)
    PROVE  Blacks(t) = {h[t.root]}
  <1> DEFINE Body(f) == [n \in Pointers |->
                IF n = Null THEN {0}
                ELSE {b + (IF Red(t, n) THEN 0 ELSE 1) :
                        b \in f[t.child["left"][n]] \cup f[t.child["right"][n]]}]
             blacks == CHOOSE f : f = Body(f)
             g == [n \in Pointers |-> {h[n]}]
             B == {n \in Keys : blacks[n] # g[n]}
  <1>1. \A n \in Keys, s \in Sides : h[n] = h[t.child[s][n]] + (IF Red(t, n) THEN 0 ELSE 1)
    <2> SUFFICES ASSUME NEW n \in Keys, NEW s \in Sides
                 PROVE  h[n] = h[t.child[s][n]] + (IF Red(t, n) THEN 0 ELSE 1)
      OBVIOUS
    <2>1. h[n] = h[t.child[s][n]] + Weight(t, n) + Extra(Null, z, n, s)
      BY DEF Balanced
    <2>2. Extra(Null, z, n, s) = 0 /\ Weight(t, n) = IF Red(t, n) THEN 0 ELSE 1
      BY NullIsNoKey DEF Extra, Weight, Red
    <2>3. h[t.child[s][n]] \in Nat
      BY TreeTypes DEF Balanced, Tree
    <2> QED
      BY <2>1, <2>2, <2>3
  <1>2. \A n \in Keys, s \in Sides : t.child[s][n] \in Pointers
    BY TreeTypes DEF Tree
  <1>3. g = Body(g)
    <2>1. \A n \in Pointers : g[n] = Body(g)[n]
      <3> SUFFICES ASSUME NEW n \in Pointers PROVE g[n] = Body(g)[n]
        OBVIOUS
      <3>1. CASE n = Null
        BY <3>1 DEF Balanced
      <3>2. CASE n # Null
        <4>1. n \in Keys
          BY <3>2 DEF Pointers
        <4>2. g[t.child["left"][n]] = {h[t.child["left"][n]]}
              /\ g[t.child["right"][n]] = {h[t.child["right"][n]]}
          BY <1>2, <4>1 DEF Sides
        <4>3. h[n] = h[t.child["left"][n]] + (IF Red(t, n) THEN 0 ELSE 1)
              /\ h[n] = h[t.child["right"][n]] + (IF Red(t, n) THEN 0 ELSE 1)
          BY <1>1, <4>1 DEF Sides
        <4> DEFINE w == IF Red(t, n) THEN 0 ELSE 1
                   S == g[t.child["left"][n]] \cup g[t.child["right"][n]]
        <4>4. Body(g)[n] = {b + w : b \in S} /\ g[n] = {h[n]}
          BY <3>2
        <4> HIDE DEF g, Body
        <4>5. S # {} /\ \A b \in S : b + w = h[n]
          <5>1. S = {h[t.child["left"][n]], h[t.child["right"][n]]}
            BY <4>2
          <5>2. h[t.child["left"][n]] + w = h[n] /\ h[t.child["right"][n]] + w = h[n]
            BY <4>3
          <5> HIDE DEF S, w
          <5> QED
            BY <5>1, <5>2
        <4> HIDE DEF w, S
        <4>6. {b + w : b \in S} = {h[n]}
          BY <4>5
        <4> QED
          BY <4>4, <4>6
      <3> QED
        BY <3>1, <3>2
    <2> QED
      BY <2>1
  <1>4. blacks = Body(blacks)
    BY <1>3
  <1> HIDE DEF blacks
  <1>5. /\ blacks[Null] = {0}
        /\ \A n \in Keys : blacks[n] = {b + (IF Red(t, n) THEN 0 ELSE 1) :
                b \in blacks[t.child["left"][n]] \cup blacks[t.child["right"][n]]}
    BY <1>4, NullIsNoKey DEF Pointers
  <1>6. /\ g[Null] = {0}
        /\ \A n \in Keys : g[n] = {b + (IF Red(t, n) THEN 0 ELSE 1) :
                b \in g[t.child["left"][n]] \cup g[t.child["right"][n]]}
    BY <1>3, NullIsNoKey DEF Pointers
  <1>7. \A n \in Pointers : g[n] = {h[n]}
    OBVIOUS
  <1> HIDE DEF g
  <1>8. ASSUME B # {} PROVE FALSE
    <2>1. PICK n \in B : \A s \in Sides : t.child[s][n] \notin B
      BY <1>8, LowestNode
    <2>2. \A s \in Sides : blacks[t.child[s][n]] = g[t.child[s][n]]
      BY <1>2, <1>5, <1>6, <2>1 DEF Pointers
    <2> QED
      BY <1>5, <1>6, <2>1, <2>2 DEF Sides
  <1>9. \A n \in Pointers : blacks[n] = g[n]
    BY <1>5, <1>6, <1>8 DEF Pointers
  <1>10. Blacks(t) = blacks[t.root]
    BY DEF Blacks, blacks
  <1> QED
    BY <1>7, <1>9, <1>10, TreeTypes DEF Tree

LEMMA InvRedBlack == ASSUME Inv PROVE RedBlack
  <1> SUFFICES ASSUME pc = "idle"
               PROVE  /\ Cardinality(Blacks(tree)) = 1
                      /\ \A n \in KeysIn(tree) : Red(tree, n) =>
                           tree.parent[n] # Null /\ ~Red(tree, tree.parent[n])
    BY DEF RedBlack
  <1>1. PICK z : IsRedBlack(tree, KeysIn(tree), Null, z, Null, Null)
    BY WhenIdle
  <1>2. PICK d, h : /\ Tree(tree, d) /\ KeysIn(tree) = d[tree.root]
                    /\ Balanced(tree, h, Null, z) /\ NoRedPair(tree, Null, Null)
                    /\ Red(tree, tree.root) => tree.root = Null
    BY <1>1 DEF IsRedBlack
  <1>3. Cardinality(Blacks(tree)) = 1
    BY <1>2, BlacksIs, FS_Singleton
  <1>4. ASSUME NEW n \in KeysIn(tree), Red(tree, n)
        PROVE  tree.parent[n] # Null /\ ~Red(tree, tree.parent[n])
    <2>1. n \in Keys /\ n # tree.root
      BY <1>2, <1>4, BelowFacts, TreeTypes DEF Red, Tree
    <2>2. tree.parent[n] # Null /\ tree.parent[n] \in Keys
      BY <1>2, <2>1, TreeTypes DEF Tree, LinksAgree
    <2>3. PICK s \in Sides : tree.child[s][tree.parent[n]] = n
      BY <1>2, <2>1, <2>2 DEF Tree, LinksAgree
    <2> QED
      BY <1>2, <1>4, <2>1, <2>2, <2>3, NullIsNoKey DEF NoRedPair
  <1> QED
    BY <1>3, <1>4

(* At every step, of an operation and between two, keys are to their side  *)
(* of every node above them, and parents are those that link to a node.    *)
THEOREM StaysSearchTree == Spec => []SearchTree
  <1>1. Inv /\ [Next]_vars => Inv'
    BY NextInv
  <1> QED
    BY <1>1, InitInv, InvSearchTree, PTL DEF Spec

(* Between operations every way down from the root meets as many black     *)
(* nodes, and never two red ones in a row.                                 *)
THEOREM StaysRedBlack == Spec => []RedBlack
  <1>1. Inv /\ [Next]_vars => Inv'
    BY NextInv
  <1> QED
    BY <1>1, InitInv, InvRedBlack, PTL DEF Spec

(* The tree implements the abstract ordered set: a step of an operation is *)
(* the insertion or removal of its key, or nothing to the set of keys.     *)
THEOREM KeysAreASet == Spec => IsOrderedSet
  <1>1. Init => KeysIn(tree) = {}
    BY InitInv
  <1>2. Inv /\ [Next]_vars => Inv'
    BY NextInv
  <1>3. Inv /\ [Next]_vars =>
          [\E k \in Keys : Ordered!Insert(k) \/ Ordered!Remove(k)]_(KeysIn(tree))
    BY NextInv DEF Ordered!Insert, Ordered!Remove
  <1> QED
    BY <1>1, <1>2, <1>3, InitInv, PTL DEF Spec, IsOrderedSet, Ordered!SetSpec

-----------------------------------------------------------------------------
(* The queries.  The end of a set of keys on one side: all others lie to   *)
(* the other side of it.                                                   *)
IsEnd(e, S, side) == e \in S /\ \A m \in S : m # e => Toward(e, m) = side

End(S, side) == IF side = "left" THEN Ordered!Least(S) ELSE Ordered!Greatest(S)

LEMMA EndIs ==
    ASSUME NEW S \in SUBSET Keys, NEW side \in Sides
    PROVE  /\ S = {} => End(S, side) = Null
           /\ \A e : IsEnd(e, S, side) => End(S, side) = e /\ e \in Keys
  <1>1. S = {} => End(S, side) = Null
    BY DEF End, Ordered!Least, Ordered!Greatest
  <1>2. ASSUME NEW e, IsEnd(e, S, side) PROVE End(S, side) = e /\ e \in Keys
    <2>1. e \in S /\ e \in Int /\ \A m \in S : m \in Int
      BY <1>2, KeysAreIntegers DEF IsEnd
    <2>2. CASE side = "left"
      <3>1. \A j \in S : e <= j
        BY <1>2, <2>1, <2>2 DEF IsEnd, Toward
      <3>2. Ordered!Least(S) = CHOOSE i \in S : \A j \in S : i <= j
        BY <2>1 DEF Ordered!Least
      <3>3. \A i \in S : (\A j \in S : i <= j) => i = e
        BY <2>1, <3>1
      <3> QED
        BY <2>1, <2>2, <3>1, <3>2, <3>3 DEF End
    <2>3. CASE side = "right"
      <3>1. \A j \in S : j <= e
        BY <1>2, <2>1, <2>3 DEF IsEnd, Toward
      <3>2. Ordered!Greatest(S) = CHOOSE i \in S : \A j \in S : j <= i
        BY <2>1 DEF Ordered!Greatest
      <3>3. \A i \in S : (\A j \in S : j <= i) => i = e
        BY <2>1, <3>1
      <3> QED
        BY <2>1, <2>3, <3>1, <3>2, <3>3 DEF End
    <2> QED
      BY <2>1, <2>2, <2>3 DEF Sides
  <1> QED
    BY <1>1, <1>2

LEMMA ExtremeIsEnd ==
    ASSUME NEW t, NEW d, Tree(t, d), NEW side \in Sides
    PROVE  Extreme(t, side, t.root) = End(d[t.root], side)
  <1>1. CASE t.root = Null
    <2>1. d[t.root] = {} /\ Extreme(t, side, t.root) = Null
      BY <1>1, ExtremeIs DEF Tree, IsBelow
    <2> QED
      BY <2>1, EndIs
  <1>2. CASE t.root # Null
    <2>1. t.root \in Keys /\ d[t.root] \in SUBSET Keys
      BY <1>2, TreeTypes, BelowFacts DEF Tree
    <2>2. IsEnd(Extreme(t, side, t.root), d[t.root], side)
      BY <2>1, ExtremeIs DEF IsEnd, Outermost
    <2> QED
      BY <2>1, <2>2, EndIs
  <1> QED
    BY <1>1, <1>2

(* Induction from the root down: of the nodes of a set that is not empty   *)
(* one has no parent in it.                                                *)
LEMMA HighestNode ==
    ASSUME NEW t, NEW d, Tree(t, d), NEW B \in SUBSET d[t.root], B # {}
    PROVE  \E n \in B : t.parent[n] \notin B
  <1> DEFINE D == d[t.root]
             S == {D \ d[n] : n \in B}
             R == StrictSubsetOrdering(Keys)
  <1>1. D \in SUBSET Keys /\ IsFiniteSet(D)
    BY TreeTypes, BelowFacts DEF Tree
  <1>2. S \subseteq FiniteSubsetsOf(Keys)
    BY <1>1, FS_Difference DEF FiniteSubsetsOf
  <1>3. S # {}
    OBVIOUS
  <1>4. IsWellFoundedOn(R, FiniteSubsetsOf(Keys))
    BY FS_StrictSubsetOrderingWellFounded
  <1> HIDE DEF S, R
  <1>5. \E X \in S : \A Y \in S : ~(<<Y, X>> \in R)
    BY <1>2, <1>3, <1>4, WFMin
  <1>6. PICK n \in B : \A Y \in S : ~(<<Y, D \ d[n]>> \in R)
    BY <1>5 DEF S
  <1>7. ASSUME t.parent[n] \in B PROVE FALSE
    <2> DEFINE p == t.parent[n]
    <2>1. p \in Keys /\ n \in Keys /\ p \in D
      BY <1>1, <1>7
    <2>2. PICK s \in Sides : t.child[s][p] = n
      BY <2>1, NullIsNoKey DEF Tree, LinksAgree
    <2>3. d[n] \subseteq d[p] /\ p \in d[p] /\ p \notin d[n]
      BY <2>1, <2>2, BelowFacts
    <2>4. D \ d[p] \in S
      BY <1>7 DEF S
    <2>5. D \ d[p] \subseteq D \ d[n] /\ D \ d[p] # D \ d[n]
      BY <2>1, <2>3
    <2>6. <<D \ d[p], D \ d[n]>> \in R
      BY <1>1, <2>5 DEF R, StrictSubsetOrdering
    <2> QED
      BY <1>6, <2>4, <2>6
  <1> QED
    BY <1>7

(* A node that is not below n is on the same side of all that are.         *)
LEMMA OneSide ==
    ASSUME NEW t, NEW d, Tree(t, d), NEW n \in d[t.root], NEW j \in d[t.root], j \notin d[n],
           NEW m \in d[n]
    PROVE  Toward(j, m) = Toward(j, n) /\ j # m
  <1> DEFINE D == d[t.root]
             B == {a \in D : \E b \in D : b \notin d[a] /\ \E c \in d[a] : Toward(b, c) # Toward(b, a)}
  <1>1. D \in SUBSET Keys
    BY TreeTypes, BelowFacts DEF Tree
  <1>2. ASSUME B # {} PROVE FALSE
    <2>1. PICK a \in B : t.parent[a] \notin B
      BY <1>2, HighestNode
    <2>2. PICK b \in D : b \notin d[a] /\ \E c \in d[a] : Toward(b, c) # Toward(b, a)
      BY <2>1
    <2>3. PICK c \in d[a] : Toward(b, c) # Toward(b, a)
      BY <2>2
    <2> DEFINE p == t.parent[a]
    <2>4. a \in D /\ a \in Keys /\ a # t.root /\ b \in Keys
      BY <1>1, <2>1, <2>2
    <2>5. p \in Keys
      BY <2>4, TreeTypes DEF Tree, LinksAgree
    <2>6. PICK s \in Sides : t.child[s][p] = a
      BY <2>4, <2>5, NullIsNoKey DEF Tree, LinksAgree
    <2>7. p \in D /\ a \in d[p] /\ a \in d[a]
      BY <2>4, <2>5, <2>6, NullIsNoKey, ChildFacts, BelowFacts
    <2>8. d[p] = {p} \cup d[a] \cup d[t.child[Other(s)][p]] /\ c \in d[p] /\ c \in Keys
      BY <2>3, <2>4, <2>5, <2>6, BelowFacts DEF Pointers
    <2>9. \A e \in d[a] : Toward(p, e) = Other(s) /\ e # p /\ e \in Keys
      <3> SUFFICES ASSUME NEW e \in d[a] PROVE Toward(p, e) = Other(s) /\ e # p /\ e \in Keys
        OBVIOUS
      <3>1. Toward(e, p) = s /\ e # p
        BY <2>5, <2>6 DEF Tree, IsSorted
      <3>2. e \in Keys
        BY <2>4, BelowFacts DEF Pointers
      <3> QED
        BY <2>5, <3>1, <3>2, OrderFacts
    <2> HIDE DEF D, B, p
    <2>10. CASE b \notin d[p]
      <3>1. \A e \in d[p] : Toward(b, e) = Toward(b, p)
        BY <2>1, <2>2, <2>7, <2>10 DEF B, p
      <3> QED
        BY <2>3, <2>7, <2>8, <3>1
    <2>11. CASE b = p
      BY <2>3, <2>7, <2>9, <2>11
    <2>12. CASE b \in d[t.child[Other(s)][p]]
      <3>1. Toward(b, p) = Other(s) /\ b # p /\ Other(s) \in Sides
        BY <2>5, <2>12, SideFacts DEF Tree, IsSorted
      <3>2. \A e \in d[a] : Toward(b, e) = Other(s)
        <4> SUFFICES ASSUME NEW e \in d[a] PROVE Toward(b, e) = Other(s)
          OBVIOUS
        <4>1. Toward(p, e) = Other(s) /\ e # p /\ e \in Keys
          BY <2>9
        <4> QED
          BY <2>4, <2>5, <3>1, <4>1, OrderFacts
      <3> QED
        BY <2>3, <2>7, <3>2
    <2> QED
      BY <2>2, <2>8, <2>10, <2>11, <2>12
  <1> QED
    BY <1>2

(* The nodes that are not below n, on one side of it                       *)
Beyond(t, d, n, side) == {j \in d[t.root] \ d[n] : Toward(j, n) = side}

LEMMA BeyondFacts ==
    ASSUME NEW t, NEW d, Tree(t, d), NEW n \in d[t.root], NEW side \in Sides
    PROVE  /\ t.parent[n] = Null => Beyond(t, d, n, side) = {}
           /\ t.parent[n] # Null /\ n = t.child[side][t.parent[n]] =>
                Beyond(t, d, n, side) = Beyond(t, d, t.parent[n], side)
           /\ t.parent[n] # Null /\ n # t.child[side][t.parent[n]] =>
                IsEnd(t.parent[n], Beyond(t, d, n, side), Other(side))
           /\ t.parent[n] # Null => t.parent[n] \in d[t.root]
           /\ Beyond(t, d, n, side) \in SUBSET Keys /\ n \in Keys
  <1> DEFINE D == d[t.root]
             p == t.parent[n]
             o == Other(side)
  <1>1. D \in SUBSET Keys /\ n \in Keys /\ n \in d[n] /\ o \in Sides /\ o # side
        /\ \A s \in Sides : s = side \/ s = o
    BY TreeTypes, BelowFacts, SideFacts DEF Tree
  <1>2. p = Null => Beyond(t, d, n, side) = {}
    <2>1. p = Null => n = t.root
      BY <1>1 DEF Tree, LinksAgree
    <2> QED
      BY <2>1 DEF Beyond
  <1>3. ASSUME p # Null
        PROVE  /\ p \in D
               /\ n = t.child[side][p] => Beyond(t, d, n, side) = Beyond(t, d, p, side)
               /\ n # t.child[side][p] => IsEnd(p, Beyond(t, d, n, side), o)
    <2>1. p \in Keys
      BY <1>1, <1>3, TreeTypes DEF Tree, Pointers
    <2>2. PICK s \in Sides : t.child[s][p] = n
      BY <1>1, <1>3 DEF Tree, LinksAgree
    <2> DEFINE c == t.child[Other(s)][p]
    <2>3. p \in D /\ p \notin d[n]
      BY <1>1, <2>1, <2>2, NullIsNoKey, ChildFacts, BelowFacts
    <2>4. d[p] = {p} \cup d[n] \cup d[c] /\ d[p] \subseteq Keys /\ n \in d[p]
      BY <1>1, <2>1, <2>2, BelowFacts DEF Pointers
    <2>5. /\ \A e \in d[n] : Toward(e, p) = s /\ e # p
          /\ \A e \in d[c] : Toward(e, p) = Other(s) /\ e # p
      BY <2>1, <2>2, SideFacts DEF Tree, IsSorted
    <2>6. \A j \in D : j \notin d[p] => Toward(j, n) = Toward(j, p)
      BY <2>3, <2>4, OneSide
    <2>7. Toward(p, n) = Other(s)
      BY <1>1, <2>1, <2>5, OrderFacts
    <2>8. \A e \in d[c] : Toward(e, n) = Other(s)
      <3> SUFFICES ASSUME NEW e \in d[c] PROVE Toward(e, n) = Other(s)
        OBVIOUS
      <3>1. e \in Keys /\ n # p /\ Other(s) \in Sides
        BY <1>1, <2>3, <2>4, SideFacts
      <3> QED
        BY <1>1, <2>1, <2>5, <2>7, <3>1, OrderFacts
    <2>9. Other(s) # s /\ c = t.child[Other(s)][p]
      BY SideFacts
    <2> HIDE DEF D, p, o, c
    <2>10. CASE s = side
      <3>1. \A j \in D : j \in d[c] \cup {p} => Toward(j, n) # side
        BY <2>7, <2>8, <2>9, <2>10
      <3>2. Beyond(t, d, n, side) = Beyond(t, d, p, side)
        BY <2>4, <2>6, <3>1 DEF Beyond, D
      <3> QED
        BY <2>2, <2>3, <2>10, <3>2
    <2>11. CASE s = o
      <3>1. Other(s) = side
        BY <2>11, SideFacts DEF o
      <3>2. p \in Beyond(t, d, n, side)
        BY <2>3, <2>7, <3>1 DEF Beyond, D
      <3>3. ASSUME NEW m \in Beyond(t, d, n, side), m # p PROVE Toward(p, m) = o
        <4>1. m \in D /\ m \notin d[n] /\ Toward(m, n) = side /\ m \in Keys
          BY <1>1, <3>3 DEF Beyond, D
        <4>2. Toward(m, p) = side
          BY <2>4, <2>5, <2>6, <3>1, <3>3, <4>1
        <4> QED
          BY <2>1, <3>3, <4>1, <4>2, OrderFacts DEF o
      <3>4. t.child[side][p] # n
        <4>1. ASSUME t.child[side][p] = n PROVE FALSE
          BY <1>1, <2>1, <2>2, <2>11, <4>1, NullIsNoKey, ChildFacts
        <4> QED
          BY <4>1
      <3> QED
        BY <2>3, <3>2, <3>3, <3>4 DEF IsEnd
    <2> QED
      BY <1>1, <2>10, <2>11
  <1>4. Beyond(t, d, n, side) \in SUBSET Keys
    BY <1>1 DEF Beyond
  <1> QED
    BY <1>1, <1>2, <1>3, <1>4

(* RB_NEXT and RB_PREV                                                     *)
LEMMA StepIs ==
    ASSUME NEW t, NEW d, Tree(t, d), NEW k \in d[t.root], NEW side \in Sides
    PROVE  Step(t, side, k) =
             End({j \in d[t.root] : j # k /\ Toward(j, k) = side}, Other(side))
  <1> DEFINE D == d[t.root]
             o == Other(side)
             N == {j \in D : j # k /\ Toward(j, k) = side}
             Body(f) == [n \in Keys |->
                IF t.parent[n] # Null /\ n = t.child[side][t.parent[n]]
                THEN f[t.parent[n]] ELSE t.parent[n]]
             up == CHOOSE f : f = Body(f)
             g == [n \in Keys |-> IF n \in D THEN End(Beyond(t, d, n, side), o) ELSE Null]
             B == {n \in D : up[n] # g[n]}
             c == t.child[side][k]
  <1>1. D \in SUBSET Keys /\ k \in Keys /\ o \in Sides /\ o # side /\ Other(o) = side
    BY TreeTypes, BelowFacts, SideFacts DEF Tree
  <1>2. ASSUME NEW n \in Keys
        PROVE  g[n] = IF t.parent[n] # Null /\ n = t.child[side][t.parent[n]]
                      THEN g[t.parent[n]] ELSE t.parent[n]
    <2> DEFINE p == t.parent[n]
    <2>1. CASE n \notin D
      <3>1. t.parent[n] = Null
        BY <2>1 DEF Tree, LinksAgree
      <3> QED
        BY <2>1, <3>1
    <2>2. CASE n \in D
      <3>1. /\ p = Null => Beyond(t, d, n, side) = {}
            /\ p # Null /\ n = t.child[side][p] => Beyond(t, d, n, side) = Beyond(t, d, p, side)
            /\ p # Null /\ n # t.child[side][p] => IsEnd(p, Beyond(t, d, n, side), o)
            /\ p # Null => p \in D
            /\ Beyond(t, d, n, side) \in SUBSET Keys
        BY <2>2, BeyondFacts
      <3>2. g[n] = End(Beyond(t, d, n, side), o)
        BY <2>2
      <3>3. p # Null => g[p] = End(Beyond(t, d, p, side), o)
        BY <1>1, <3>1
      <3> HIDE DEF g, p, D, o
      <3>4. CASE p = Null
        <4>1. End(Beyond(t, d, n, side), o) = Null
          BY <1>1, <3>1, <3>4, EndIs
        <4> QED
          BY <3>2, <3>4, <4>1 DEF p
      <3>5. CASE p # Null /\ n = t.child[side][p]
        BY <3>1, <3>2, <3>3, <3>5 DEF p
      <3>6. CASE p # Null /\ n # t.child[side][p]
        <4>1. End(Beyond(t, d, n, side), o) = p
          BY <1>1, <3>1, <3>6, EndIs
        <4> QED
          BY <3>2, <3>6, <4>1 DEF p
      <3> QED
        BY <3>4, <3>5, <3>6
    <2> QED
      BY <2>1, <2>2
  <1>3. g = Body(g)
    <2>1. g = [n \in Keys |-> g[n]]
      OBVIOUS
    <2> HIDE DEF g
    <2>2. \A n \in Keys : g[n] = Body(g)[n]
      BY <1>2
    <2> QED
      BY <2>1, <2>2
  <1>4. up = Body(up)
    BY <1>3
  <1> HIDE DEF up
  <1>5. \A n \in Keys : up[n] = IF t.parent[n] # Null /\ n = t.child[side][t.parent[n]]
                                THEN up[t.parent[n]] ELSE t.parent[n]
    BY <1>4
  <1>6. g[k] = End(Beyond(t, d, k, side), o)
    BY <1>1
  <1> HIDE DEF g
  <1>7. ASSUME B # {} PROVE FALSE
    <2>1. PICK n \in B : t.parent[n] \notin B
      BY <1>7, HighestNode
    <2>2. n \in D /\ n \in Keys /\ up[n] # g[n]
      BY <1>1, <2>1
    <2>3. t.parent[n] # Null => t.parent[n] \in D
      BY <2>2, BeyondFacts
    <2>4. t.parent[n] # Null => up[t.parent[n]] = g[t.parent[n]]
      BY <2>1, <2>3
    <2> QED
      BY <1>2, <1>5, <2>2, <2>4
  <1>8. up[k] = g[k]
    BY <1>7
  <1>9. Step(t, side, k) = IF c # Null THEN Extreme(t, o, c) ELSE up[k]
    BY DEF Step, up
  <1>10. \A j \in D : j \in d[k] => j = k \/ j \in d[c] \/ j \in d[t.child[o][k]]
    BY <1>1, BelowFacts
  <1>11. /\ \A j \in d[c] : Toward(j, k) = side /\ j # k
         /\ \A j \in d[t.child[o][k]] : Toward(j, k) = o
    BY <1>1 DEF Tree, IsSorted
  <1>12. d[c] \subseteq d[k] /\ d[k] \subseteq D
    BY <1>1, BelowFacts, BelowBelow, TreeTypes DEF Tree
  <1> HIDE DEF D, o, c, B
  <1>13. N = d[c] \cup Beyond(t, d, k, side)
    <2>1. \A j \in N : j \in d[c] \/ j \in Beyond(t, d, k, side)
      BY <1>1, <1>10, <1>11 DEF Beyond, D
    <2>2. \A j \in Beyond(t, d, k, side) : j \in N
      <3>1. k \in d[k]
        BY <1>1, BelowFacts
      <3> QED
        BY <3>1 DEF Beyond, D
    <2>3. \A j \in d[c] : j \in N
      BY <1>11, <1>12
    <2> QED
      BY <2>1, <2>2, <2>3
  <1>14. N \in SUBSET Keys
    BY <1>1
  <1>15. CASE c = Null
    <2>1. d[c] = {}
      BY <1>15 DEF Tree, IsBelow
    <2> QED
      BY <1>6, <1>8, <1>9, <1>13, <1>15, <2>1 DEF D, o
  <1>16. CASE c # Null
    <2> DEFINE e == Extreme(t, o, c)
    <2>1. c \in Keys
      BY <1>1, <1>16, TreeTypes DEF Tree, c, Pointers
    <2>2. e \in d[c] /\ \A m \in d[c] : m # e => Toward(e, m) = o
      BY <1>1, <2>1, ExtremeIs DEF Outermost
    <2> HIDE DEF e
    <2>3. ASSUME NEW m \in Beyond(t, d, k, side) PROVE Toward(e, m) = o
      <3>1. m \in d[t.root] /\ m \notin d[k] /\ Toward(m, k) = side /\ m \in Keys /\ e \in Keys
        BY <1>1, <1>12, <2>2 DEF Beyond, D
      <3>2. Toward(m, e) = side /\ m # e
        BY <1>12, <2>2, <3>1, OneSide
      <3> QED
        BY <3>1, <3>2, OrderFacts DEF o
    <2>4. IsEnd(e, N, o)
      BY <1>13, <2>2, <2>3 DEF IsEnd
    <2> HIDE DEF N
    <2>5. End(N, o) = e
      BY <1>1, <1>14, <2>4, EndIs
    <2> QED
      BY <1>9, <1>16, <2>5 DEF N, D, o, e
  <1> QED
    BY <1>15, <1>16

(* A finite set that is not empty has a least key.                         *)
LEMMA LeastExists ==
    ASSUME NEW S \in SUBSET Keys, IsFiniteSet(S), S # {}
    PROVE  \E e \in S : IsEnd(e, S, "left")
  <1> DEFINE F == {{j \in S : Toward(j, i) = "left"} : i \in S}
             R == StrictSubsetOrdering(Keys)
  <1>1. F \subseteq FiniteSubsetsOf(Keys)
    BY FS_Subset DEF FiniteSubsetsOf
  <1>2. \A i \in S : {j \in S : Toward(j, i) = "left"} \in F
    OBVIOUS
  <1>3. IsWellFoundedOn(R, FiniteSubsetsOf(Keys))
    BY FS_StrictSubsetOrderingWellFounded
  <1> HIDE DEF F, R
  <1>4. \E X \in F : \A Y \in F : ~(<<Y, X>> \in R)
    BY <1>1, <1>2, <1>3, WFMin
  <1>5. PICK e \in S : \A Y \in F : ~(<<Y, {j \in S : Toward(j, e) = "left"}>> \in R)
    BY <1>4 DEF F
  <1>6. ASSUME NEW m \in S, m # e PROVE Toward(e, m) = "left"
    <2> DEFINE X == {j \in S : Toward(j, e) = "left"}
               Y == {j \in S : Toward(j, m) = "left"}
    <2>1. SUFFICES ASSUME m < e PROVE FALSE
      BY <1>6, KeysAreIntegers DEF Toward
    <2>2. /\ m \in Int /\ e \in Int
          /\ \A j \in S : j \in Int
          /\ \A i, j \in S : Toward(j, i) = "left" <=> j < i
      BY KeysAreIntegers DEF Toward
    <2>3. Y = {j \in S : j < m} /\ X = {j \in S : j < e}
      BY <2>2
    <2> HIDE DEF X, Y
    <2>4. m \in X /\ m \notin Y
      BY <2>1, <2>2, <2>3
    <2>5. \A j \in S : j < m => j < e
      BY <2>1, <2>2
    <2>6. Y \subseteq X /\ X \in SUBSET Keys /\ Y \in SUBSET Keys
      BY <2>3, <2>5
    <2>7. <<Y, X>> \in R
      BY <2>4, <2>6 DEF R, StrictSubsetOrdering
    <2> QED
      BY <1>5, <2>7 DEF F, X, Y
  <1> QED
    BY <1>6 DEF IsEnd

(* The keys at or under n from k on                                        *)
KeysFrom(d, k, n) == {j \in d[n] : j >= k}

LEMMA KeysFromFacts ==
    ASSUME NEW t, NEW d, Tree(t, d), NEW k \in Keys, NEW n \in Pointers
    PROVE  End(KeysFrom(d, k, n), "left") =
             IF n = Null \/ n = k THEN n
             ELSE LET res == End(KeysFrom(d, k, t.child[Toward(k, n)][n]), "left")
                  IN IF res = Null /\ k < n THEN n ELSE res
  <1> DEFINE c == t.child[Toward(k, n)][n]
             S == KeysFrom(d, k, n)
             C == KeysFrom(d, k, c)
  <1>1. S \in SUBSET Keys /\ Null \notin Keys
    BY BelowFacts, NullIsNoKey DEF KeysFrom
  <1>2. CASE n = Null
    <2>1. S = {}
      BY <1>2 DEF KeysFrom, Tree, IsBelow
    <2> HIDE DEF S
    <2>2. End(S, "left") = Null
      BY <1>1, <2>1, EndIs DEF Sides
    <2> QED
      BY <1>2, <2>2 DEF S
  <1>3. CASE n = k
    <2>1. IsEnd(k, S, "left")
      BY <1>1, <1>3, BelowFacts, KeysAreIntegers DEF IsEnd, KeysFrom, Toward
    <2> HIDE DEF S
    <2>2. End(S, "left") = k
      BY <1>1, <2>1, EndIs DEF Sides
    <2> QED
      BY <1>3, <2>2 DEF S
  <1>4. ASSUME n # Null, n # k
        PROVE  End(S, "left") = IF End(C, "left") = Null /\ k < n THEN n ELSE End(C, "left")
    <2>1. n \in Keys /\ n \in Int /\ k \in Int
      BY <1>4, KeysAreIntegers DEF Pointers
    <2>2. c \in Pointers /\ d[c] \subseteq Keys /\ IsFiniteSet(d[c])
      BY <2>1, TreeTypes, SideFacts, BelowFacts DEF Tree
    <2>3. C \in SUBSET Keys /\ IsFiniteSet(C)
      BY <2>2, FS_Subset DEF KeysFrom
    <2>4. CASE n < k
      <3>1. Toward(k, n) = "right" /\ c = t.child["right"][n]
        BY <2>1, <2>4 DEF Toward
      <3>2. d[n] = {n} \cup d[t.child["left"][n]] \cup d[c]
        BY <2>1, <3>1 DEF Tree, IsBelow
      <3>3. \A j \in d[t.child["left"][n]] : Toward(j, n) = "left" /\ j \in Keys
        BY <2>1, BelowFacts, TreeTypes DEF Tree, IsSorted, Sides
      <3>4. \A j \in d[t.child["left"][n]] : ~(j >= k)
        <4> SUFFICES ASSUME NEW j \in d[t.child["left"][n]] PROVE ~(j >= k)
          OBVIOUS
        <4>1. j \in Int /\ j < n
          BY <3>3, KeysAreIntegers DEF Toward
        <4> QED
          BY <2>1, <2>4, <4>1
      <3>5. S = C
        BY <2>1, <2>4, <3>2, <3>4 DEF KeysFrom
      <3> QED
        BY <2>1, <2>4, <3>5
    <2>5. CASE k < n
      <3>1. Toward(k, n) = "left" /\ c = t.child["left"][n]
        BY <2>1, <2>5 DEF Toward
      <3> DEFINE r == t.child["right"][n]
      <3>2. d[n] = {n} \cup d[c] \cup d[r]
        BY <2>1, <3>1 DEF Tree, IsBelow
      <3>3. \A j \in d[c] : Toward(j, n) = "left" /\ j # n /\ j \in Keys
        BY <2>1, <2>2, <3>1 DEF Tree, IsSorted, Sides
      <3>4. \A j \in d[r] : Toward(j, n) = "right" /\ j # n /\ j \in Keys
        BY <2>1, BelowFacts, TreeTypes DEF Tree, IsSorted, Sides
      <3> HIDE DEF c, r
      <3>5. n \in S /\ \A j \in S : j = n \/ j \in C \/ j \in d[r]
        BY <2>1, <2>5, <3>2 DEF KeysFrom
      <3>6. \A j \in d[r] : j \in Int /\ n < j /\ Toward(n, j) = "left"
        <4> SUFFICES ASSUME NEW j \in d[r] PROVE j \in Int /\ n < j /\ Toward(n, j) = "left"
          OBVIOUS
        <4>1. j \in Int /\ ~(j < n) /\ j # n
          BY <3>4, KeysAreIntegers DEF Toward
        <4>2. n < j
          BY <2>1, <4>1
        <4> QED
          BY <4>1, <4>2 DEF Toward
      <3>7. CASE C = {}
        <4>1. IsEnd(n, S, "left")
          BY <3>5, <3>6, <3>7 DEF IsEnd
        <4> HIDE DEF S, C
        <4>2. End(S, "left") = n /\ End(C, "left") = Null
          BY <1>1, <2>3, <3>7, <4>1, EndIs DEF Sides
        <4> QED
          BY <2>5, <4>2
      <3>8. CASE C # {}
        <4>1. PICK e \in C : IsEnd(e, C, "left")
          BY <2>3, <3>8, LeastExists
        <4>2. e \in d[c] /\ e \in d[n] /\ e \in S /\ e \in Int /\ e < n
          BY <2>1, <3>2, <3>3, KeysAreIntegers DEF KeysFrom, Toward
        <4>3. \A j \in d[r] : j \in Int /\ e < j
          BY <2>1, <3>6, <4>2
        <4>4. IsEnd(e, S, "left")
          BY <3>5, <4>1, <4>2, <4>3 DEF IsEnd, Toward
        <4> HIDE DEF S, C
        <4>5. End(S, "left") = e /\ End(C, "left") = e /\ e \in Keys
          BY <1>1, <2>3, <4>1, <4>4, EndIs DEF Sides
        <4> QED
          BY <1>1, <4>5
      <3> QED
        BY <3>7, <3>8
    <2> QED
      BY <1>4, <2>1, <2>4, <2>5
  <1> QED
    BY <1>2, <1>3, <1>4

(* RB_NFIND                                                                *)
LEMMA NFindIs ==
    ASSUME NEW t, NEW d, Tree(t, d), NEW k \in Keys
    PROVE  NFind(t, k) = End({j \in d[t.root] : j >= k}, "left")
  <1> DEFINE Body(f) == [n \in Pointers |->
                IF n = Null \/ n = k THEN n
                ELSE LET res == f[t.child[Toward(k, n)][n]]
                     IN IF res = Null /\ k < n THEN n ELSE res]
             down == CHOOSE f : f = Body(f)
             g == [n \in Pointers |-> End(KeysFrom(d, k, n), "left")]
             B == {n \in Keys : down[n] # g[n]}
  <1>1. ASSUME NEW n \in Keys PROVE t.child[Toward(k, n)][n] \in Pointers
    BY TreeTypes, SideFacts DEF Tree
  <1>2. ASSUME NEW n \in Pointers
        PROVE  g[n] = IF n = Null \/ n = k THEN n
                      ELSE LET res == g[t.child[Toward(k, n)][n]]
                           IN IF res = Null /\ k < n THEN n ELSE res
    <2>1. End(KeysFrom(d, k, n), "left") =
             IF n = Null \/ n = k THEN n
             ELSE LET res == End(KeysFrom(d, k, t.child[Toward(k, n)][n]), "left")
                  IN IF res = Null /\ k < n THEN n ELSE res
      BY KeysFromFacts
    <2>2. n # Null => n \in Keys
      BY DEF Pointers
    <2> QED
      BY <1>1, <2>1, <2>2
  <1>3. g = [n \in Pointers |-> g[n]]
    OBVIOUS
  <1>4. \A n \in Pointers : g[n] = End(KeysFrom(d, k, n), "left")
    OBVIOUS
  <1> HIDE DEF g
  <1>5. g = Body(g)
    <2>1. \A n \in Pointers : g[n] = Body(g)[n]
      BY <1>2
    <2> QED
      BY <1>3, <2>1
  <1>6. down = Body(down)
    BY <1>5
  <1> HIDE DEF down
  <1>7. \A n \in Pointers : down[n] = IF n = Null \/ n = k THEN n
                      ELSE LET res == down[t.child[Toward(k, n)][n]]
                           IN IF res = Null /\ k < n THEN n ELSE res
    BY <1>6
  <1>8. down[Null] = g[Null]
    BY <1>2, <1>7 DEF Pointers
  <1>9. ASSUME B # {} PROVE FALSE
    <2>1. PICK n \in B : \A s \in Sides : t.child[s][n] \notin B
      BY <1>9, LowestNode
    <2> DEFINE c == t.child[Toward(k, n)][n]
    <2>2. n \in Pointers /\ n \in Keys /\ c \in Pointers /\ c \notin B
      BY <1>1, <2>1, SideFacts DEF Pointers
    <2>3. down[c] = g[c]
      BY <1>8, <2>2 DEF Pointers
    <2> QED
      BY <1>2, <1>7, <2>1, <2>2, <2>3
  <1>10. \A n \in Pointers : down[n] = g[n]
    BY <1>8, <1>9 DEF Pointers
  <1>11. NFind(t, k) = down[t.root]
    BY DEF NFind, down
  <1> QED
    BY <1>4, <1>10, <1>11, TreeTypes DEF Tree, KeysFrom

(* Between operations, what find, nfind, next, prev, min and max return on *)
(* their walks over the links is what the set of keys promises.            *)
LEMMA InvQueriesAnswer == ASSUME Inv PROVE QueriesAnswer
  <1> SUFFICES ASSUME pc = "idle"
               PROVE  /\ \A k \in Keys : /\ Find(tree, k) = Ordered!At(k)
                                         /\ NFind(tree, k) = Ordered!From(k)
                      /\ \A k \in KeysIn(tree) : /\ Step(tree, "right", k) = Ordered!After(k)
                                                 /\ Step(tree, "left", k) = Ordered!Before(k)
                      /\ Extreme(tree, "left", tree.root) = Ordered!First
                      /\ Extreme(tree, "right", tree.root) = Ordered!Last
    BY DEF QueriesAnswer
  <1>1. PICK z : IsRedBlack(tree, KeysIn(tree), Null, z, Null, Null)
    BY WhenIdle
  <1>2. PICK d : Tree(tree, d) /\ KeysIn(tree) = d[tree.root]
    BY <1>1 DEF IsRedBlack
  <1>3. KeysIn(tree) \subseteq Keys /\ KeysIn(tree) \subseteq Int
        /\ "left" \in Sides /\ "right" \in Sides
        /\ Other("left") = "right" /\ Other("right") = "left"
    <2>1. KeysIn(tree) \subseteq Keys
      BY <1>2, BelowFacts, TreeTypes DEF Tree
    <2> QED
      BY <2>1, KeysAreIntegers DEF Sides, Other
  <1>4. ASSUME NEW k \in Keys
        PROVE  Find(tree, k) = Ordered!At(k) /\ NFind(tree, k) = Ordered!From(k)
    <2>1. Find(tree, k) = IF k \in KeysIn(tree) THEN k ELSE Null
      BY <1>2, FindIs
    <2>2. NFind(tree, k) = End({j \in KeysIn(tree) : j >= k}, "left")
      BY <1>2, NFindIs
    <2> QED
      BY <2>1, <2>2 DEF Ordered!At, Ordered!From, End
  <1>5. ASSUME NEW k \in KeysIn(tree)
        PROVE  Step(tree, "right", k) = Ordered!After(k) /\ Step(tree, "left", k) = Ordered!Before(k)
    <2>1. Step(tree, "right", k) = End({j \in KeysIn(tree) : j # k /\ Toward(j, k) = "right"}, "left")
      BY <1>2, <1>3, StepIs
    <2>2. Step(tree, "left", k) = End({j \in KeysIn(tree) : j # k /\ Toward(j, k) = "left"}, "right")
      BY <1>2, <1>3, StepIs
    <2>3. k \in Int /\ \A j \in KeysIn(tree) : j \in Int
      BY <1>3
    <2>4. \A j \in KeysIn(tree) : /\ j # k /\ Toward(j, k) = "right" <=> j > k
                                  /\ j # k /\ Toward(j, k) = "left" <=> j < k
      BY <2>3 DEF Toward
    <2>5. {j \in KeysIn(tree) : j # k /\ Toward(j, k) = "right"} = {j \in KeysIn(tree) : j > k}
      BY <2>4
    <2>6. {j \in KeysIn(tree) : j # k /\ Toward(j, k) = "left"} = {j \in KeysIn(tree) : j < k}
      BY <2>4
    <2> QED
      BY <2>1, <2>2, <2>5, <2>6 DEF Ordered!After, Ordered!Before, End
  <1>6. Extreme(tree, "left", tree.root) = Ordered!First
    BY <1>2, <1>3, ExtremeIsEnd DEF Ordered!First, End
  <1>7. Extreme(tree, "right", tree.root) = Ordered!Last
    BY <1>2, <1>3, ExtremeIsEnd DEF Ordered!Last, End
  <1> QED
    BY <1>4, <1>5, <1>6, <1>7

(* The answers of all queries between operations, in every reachable state *)
THEOREM QueriesAreRight == Spec => []QueriesAnswer
  <1>1. Inv /\ [Next]_vars => Inv'
    BY NextInv
  <1> QED
    BY <1>1, InitInv, InvQueriesAnswer, PTL DEF Spec
=============================================================================
