---------------------------- MODULE Argz_proofs ----------------------------
(***************************************************************************)
(* Proofs about argz.c, for vectors, texts and patterns of any length.     *)
(*                                                                         *)
(* A block is a vector of the strings s when there are places st where     *)
(* they begin.  Each call is shown to turn a vector of some strings into   *)
(* one of those that it is meant to make; what the queries and the         *)
(* reference make of a block then follows from st.                         *)
(***************************************************************************)
EXTENDS Argz, FiniteSetTheorems, SequenceTheorems, WellFoundedInduction, TLAPS

-----------------------------------------------------------------------------
(* Induction, upward and downward.  What is to be shown of a number is     *)
(* that it is in a set; that a recursive function exists is shown of the   *)
(* parts of it up to a number, or from it on.                              *)

LEMMA GreatestIs ==
    ASSUME NEW n \in Nat, NEW T, T \subseteq 1..n, T # {}
    PROVE  \E k \in T : \A j \in T : j <= k
  <1> DEFINE Segments == {k..n : k \in T}
             R == StrictSubsetOrdering(Nat)
  <1>1. \A k \in T : k \in Int /\ k..n \subseteq Nat /\ k <= n
    BY SMT
  <1>2. Segments \subseteq FiniteSubsetsOf(Nat)
    <2>1. \A k \in T : IsFiniteSet(k..n)
      BY <1>1, FS_Interval
    <2> QED
      BY <1>1, <2>1, Zenon DEF FiniteSubsetsOf
  <1>3. Segments # {}
    OBVIOUS
  <1>4. IsWellFoundedOn(R, FiniteSubsetsOf(Nat))
    BY FS_StrictSubsetOrderingWellFounded
  <1> HIDE DEF Segments, R
  <1>5. PICK X \in Segments : \A Y \in Segments : ~(<<Y, X>> \in R)
    BY <1>2, <1>3, <1>4, WFMin
  <1>6. PICK k \in T : X = k..n
    BY <1>5, Zenon DEF Segments
  <1>7. ASSUME NEW j \in T, j > k PROVE FALSE
    <2>1. j..n \in Segments
      BY DEF Segments
    <2>2. j..n \subseteq k..n /\ j..n # k..n
      BY <1>1, <1>7, SMT
    <2>3. <<j..n, k..n>> \in R
      BY <1>1, <2>2 DEF R, StrictSubsetOrdering
    <2> QED
      BY <1>5, <1>6, <2>1, <2>3
  <1> QED
    BY <1>1, <1>7, SMT

LEMMA Upward ==
    ASSUME NEW m \in Nat, NEW D, 0 \in D, \A k \in 0..m - 1 : k \in D => k + 1 \in D
    PROVE  \A k \in 0..m : k \in D
  <1> DEFINE T == {k \in 1..m + 1 : \A j \in 0..k - 1 : j \in D}
  <1>1. 1 \in T
    OBVIOUS
  <1>2. PICK k \in T : \A j \in T : j <= k
    <2>1. T \subseteq 1..m + 1 /\ m + 1 \in Nat
      OBVIOUS
    <2> HIDE DEF T
    <2> QED
      BY <1>1, <2>1, GreatestIs
  <1>3. k = m + 1
    <2> SUFFICES ASSUME k # m + 1 PROVE FALSE
      OBVIOUS
    <2>1. k \in 1..m /\ k - 1 \in 0..m - 1 /\ k - 1 \in D
      OBVIOUS
    <2>2. k \in D
      <3>1. (k - 1) + 1 = k
        BY <2>1
      <3> QED
        BY <2>1, <3>1
    <2>3. \A j \in 0..k : j \in D
      <3>1. \A j \in 0..k : j \in 0..k - 1 \/ j = k
        BY <2>1
      <3> QED
        BY <2>2, <3>1
    <2>4. k + 1 \in T
      BY <2>1, <2>3
    <2> QED
      BY <1>2, <2>1, <2>4
  <1> QED
    BY <1>3

LEMMA Downward ==
    ASSUME NEW m \in Nat, NEW D,
           \A k \in 1..m : (\A j \in k + 1..m : j \in D) => k \in D
    PROVE  \A k \in 1..m : k \in D
  <1> DEFINE T == {k \in 1..m : k \notin D}
  <1> SUFFICES ASSUME T # {} PROVE FALSE
    OBVIOUS
  <1>1. PICK k \in T : \A j \in T : j <= k
    <2>1. T \subseteq 1..m
      OBVIOUS
    <2> HIDE DEF T
    <2> QED
      BY <2>1, GreatestIs
  <1>2. \A j \in k + 1..m : j \in D
    BY <1>1
  <1> QED
    BY <1>1, <1>2

(* f[0] is z and f[k + 1] is F of k and f[k].                              *)
Steps(f, F, m, z) == f[0] = z /\ \A k \in 0..m - 1 : f[k + 1] = F[k][f[k]]

LEMMA StepsExist ==
    ASSUME NEW m \in Nat, NEW S, NEW z \in S, NEW F \in [0..m - 1 -> [S -> S]]
    PROVE  \E f \in [0..m -> S] : Steps(f, F, m, z)
  <1> DEFINE D == {k \in 0..m : \E f \in [0..k -> S] : Steps(f, F, k, z)}
  <1>1. 0 \in D
    <2>1. [j \in 0..0 |-> z] \in [0..0 -> S] /\ Steps([j \in 0..0 |-> z], F, 0, z)
      BY DEF Steps
    <2> QED
      BY <2>1
  <1>2. ASSUME NEW k \in 0..m - 1, k \in D PROVE k + 1 \in D
    <2>1. PICK f \in [0..k -> S] : Steps(f, F, k, z)
      BY <1>2
    <2> DEFINE g == [j \in 0..k + 1 |-> IF j = k + 1 THEN F[k][f[k]] ELSE f[j]]
    <2>2. f[k] \in S /\ F[k][f[k]] \in S
      OBVIOUS
    <2>3. g \in [0..k + 1 -> S]
      BY <2>2
    <2>4. g[0] = z
      BY <2>1 DEF Steps
    <2>5. ASSUME NEW j \in 0..(k + 1) - 1 PROVE g[j + 1] = F[j][g[j]]
      <3>1. CASE j = k
        BY <3>1
      <3>2. CASE j # k
        <4>1. j \in 0..k - 1 /\ j + 1 \in 0..k
          BY <3>2
        <4>2. g[j + 1] = f[j + 1] /\ g[j] = f[j]
          BY <4>1
        <4> QED
          BY <2>1, <4>1, <4>2 DEF Steps
      <3> QED
        BY <3>1, <3>2
    <2> HIDE DEF g
    <2>6. Steps(g, F, k + 1, z)
      BY <2>4, <2>5 DEF Steps
    <2> QED
      BY <2>3, <2>6
  <1>3. m \in D
    <2> HIDE DEF D
    <2>1. \A k \in 0..m - 1 : k \in D => k + 1 \in D
      BY <1>2
    <2>2. \A k \in 0..m : k \in D
      BY <1>1, <2>1, Upward, Zenon
    <2> QED
      BY <2>2
  <1> QED
    BY <1>3

(* f[m + 1] is z, and f[p] is F of p and f[nx[p]], further on.             *)
Jumps(f, F, nx, m, z) == f[m + 1] = z /\ \A p \in 1..m : f[p] = F[p][f[nx[p]]]

LEMMA JumpsExist ==
    ASSUME NEW m \in Nat, NEW S, NEW z \in S, NEW F \in [1..m -> [S -> S]],
           NEW nx \in [1..m -> 1..m + 1], \A p \in 1..m : nx[p] > p
    PROVE  \E f \in [1..m + 1 -> S] : Jumps(f, F, nx, m, z)
  <1> DEFINE Good(f, k) == /\ f[m + 1] = z
                           /\ \A p \in m + 1 - k..m : f[p] = F[p][f[nx[p]]]
             D == {k \in 0..m : \E f \in [1..m + 1 -> S] : Good(f, k)}
  <1>1. 0 \in D
    <2> DEFINE f == [p \in 1..m + 1 |-> z]
    <2>1. f \in [1..m + 1 -> S] /\ Good(f, 0)
      OBVIOUS
    <2> QED
      BY <2>1
  <1>2. ASSUME NEW k \in 0..m - 1, k \in D PROVE k + 1 \in D
    <2>1. PICK f \in [1..m + 1 -> S] : Good(f, k)
      BY <1>2
    <2> DEFINE at == m - k
               g == [f EXCEPT ![at] = F[at][f[nx[at]]]]
    <2>2. at \in 1..m /\ nx[at] \in 1..m + 1 /\ nx[at] > at
      OBVIOUS
    <2>3. F[at][f[nx[at]]] \in S
      BY <2>2
    <2>4. g \in [1..m + 1 -> S] /\ g[m + 1] = z
      BY <2>1, <2>2, <2>3
    <2>5. ASSUME NEW p \in m + 1 - (k + 1)..m PROVE g[p] = F[p][g[nx[p]]]
      <3>1. p \in 1..m /\ nx[p] \in 1..m + 1 /\ nx[p] > p /\ p >= at
        BY <2>2
      <3>2. g[nx[p]] = f[nx[p]]
        BY <2>2, <3>1
      <3>3. CASE p = at
        BY <2>2, <3>2, <3>3
      <3>4. CASE p # at
        <4>1. p \in m + 1 - k..m /\ g[p] = f[p]
          BY <3>1, <3>4
        <4> QED
          BY <2>1, <3>2, <4>1
      <3> QED
        BY <3>3, <3>4
    <2> HIDE DEF g
    <2>6. Good(g, k + 1)
      BY <2>4, <2>5
    <2> QED
      BY <2>4, <2>6
  <1>3. m \in D
    <2> HIDE DEF D
    <2>1. \A k \in 0..m - 1 : k \in D => k + 1 \in D
      BY <1>2
    <2>2. \A k \in 0..m : k \in D
      BY <1>1, <2>1, Upward, Zenon
    <2> QED
      BY <2>2
  <1>4. PICK f \in [1..m + 1 -> S] : Good(f, m)
    BY <1>3
  <1>5. m + 1 - m = 1
    OBVIOUS
  <1> QED
    BY <1>4, <1>5 DEF Jumps

-----------------------------------------------------------------------------
(* Sequences                                                               *)

LEMMA CatIs ==
    ASSUME NEW S, NEW a \in Seq(S), NEW b \in Seq(S)
    PROVE  /\ a \o b \in Seq(S) /\ Len(a \o b) = Len(a) + Len(b)
           /\ Len(a) \in Nat /\ Len(b) \in Nat /\ Len(a \o b) \in Nat
           /\ \A i \in 1..Len(a) : (a \o b)[i] = a[i]
           /\ \A i \in 1..Len(b) : (a \o b)[Len(a) + i] = b[i]
  <1>1. Len(a) \in Nat /\ Len(b) \in Nat
    BY LenProperties
  <1>2. /\ a \o b \in Seq(S) /\ Len(a \o b) = Len(a) + Len(b)
        /\ \A i \in 1..Len(a) + Len(b) :
             (a \o b)[i] = IF i <= Len(a) THEN a[i] ELSE b[i - Len(a)]
    BY ConcatProperties
  <1>3. \A i \in 1..Len(b) : Len(a) + i \in 1..Len(a) + Len(b) /\ (Len(a) + i) - Len(a) = i
    BY <1>1
  <1> QED
    BY <1>1, <1>2, <1>3

LEMMA PartIs ==
    ASSUME NEW S, NEW a \in Seq(S), NEW m \in Int, NEW n \in Int, 1 <= m, n <= Len(a)
    PROVE  /\ SubSeq(a, m, n) \in Seq(S)
           /\ Len(SubSeq(a, m, n)) = IF m <= n THEN n - m + 1 ELSE 0
           /\ \A i \in 1..n - m + 1 : SubSeq(a, m, n)[i] = a[m + i - 1]
  <1>1. Len(a) \in Nat /\ \A i \in 1..Len(a) : a[i] \in S
    BY LenProperties, ElementOfSeq
  <1>2. \A i \in m..n : a[i] \in S
    BY <1>1
  <1> QED
    BY <1>2, SubSeqProperties

(* A sequence is its two parts at any place, one behind the other.         *)
LEMMA PartsAreAll ==
    ASSUME NEW S, NEW a \in Seq(S), NEW m \in 1..Len(a) + 1
    PROVE  SubSeq(a, 1, m - 1) \o SubSeq(a, m, Len(a)) = a
  <1> DEFINE u == SubSeq(a, 1, m - 1)
             v == SubSeq(a, m, Len(a))
  <1>1. Len(a) \in Nat /\ m \in Nat
    BY LenProperties
  <1>2. u \in Seq(S) /\ Len(u) = m - 1 /\ \A i \in 1..m - 1 : u[i] = a[i]
    BY <1>1, PartIs
  <1>3. v \in Seq(S) /\ Len(v) = Len(a) + 1 - m /\ \A i \in 1..Len(a) + 1 - m : v[i] = a[m + i - 1]
    BY <1>1, PartIs
  <1> HIDE DEF u, v
  <1>4. /\ u \o v \in Seq(S) /\ Len(u \o v) = Len(a)
        /\ \A i \in 1..Len(u) : (u \o v)[i] = u[i]
        /\ \A i \in 1..Len(v) : (u \o v)[Len(u) + i] = v[i]
    <2>1. /\ u \o v \in Seq(S) /\ Len(u \o v) = Len(u) + Len(v)
          /\ \A i \in 1..Len(u) : (u \o v)[i] = u[i]
          /\ \A i \in 1..Len(v) : (u \o v)[Len(u) + i] = v[i]
      <3>1. u \in Seq(S) /\ v \in Seq(S)
        BY <1>2, <1>3
      <3> QED
        BY ONLY <3>1, CatIs
    <2>2. Len(u) + Len(v) = Len(a)
      BY <1>1, <1>2, <1>3
    <2> QED
      BY <2>1, <2>2
  <1>5. ASSUME NEW i \in 1..Len(a) PROVE (u \o v)[i] = a[i]
    <2>1. CASE i <= m - 1
      BY <1>1, <1>2, <1>4, <2>1
    <2>2. CASE i >= m
      <3>1. i - (m - 1) \in 1..Len(v) /\ Len(u) + (i - (m - 1)) = i
        BY <1>1, <1>2, <1>3, <2>2
      <3>2. (u \o v)[i] = v[i - (m - 1)]
        BY <1>4, <3>1
      <3>3. v[i - (m - 1)] = a[m + (i - (m - 1)) - 1]
        BY <1>1, <1>3, <3>1
      <3>4. m + (i - (m - 1)) - 1 = i
        BY <1>1
      <3> QED
        BY <3>2, <3>3, <3>4
    <2>3. i <= m - 1 \/ i >= m
      BY <1>1
    <2> QED
      BY <2>1, <2>2, <2>3, Zenon
  <1>6. u \o v = a
    BY <1>4, <1>5, SeqEqual
  <1> QED
    BY <1>6 DEF u, v

-----------------------------------------------------------------------------
(* Vectors.  st[k] is where the string s[k] begins, and the last of st is  *)
(* the place behind the block.                                             *)

Chars == Letters \cup {NUL}

VectorOf(s, b, st) ==
    /\ s \in Seq(Seq(Letters)) /\ b \in Seq(Chars)
    /\ st \in [1..Len(s) + 1 -> Nat]
    /\ st[1] = 1 /\ st[Len(s) + 1] = Len(b) + 1
    /\ \A k \in 1..Len(s) :
         /\ st[k + 1] = st[k] + Len(s[k]) + 1
         /\ b[st[k + 1] - 1] = NUL
         /\ \A j \in 1..Len(s[k]) : b[st[k] + j - 1] = s[k][j]

IsVector(s, b) == \E st : VectorOf(s, b, st)

LEMMA CharFacts ==
    /\ NUL \notin Letters /\ NUL \in Chars /\ Letters \subseteq Chars /\ Delim \in Letters
    /\ Delim # NUL /\ Letters \subseteq Nat /\ Chars \subseteq Nat
    /\ \A c \in Chars : c = NUL \/ c \in Letters
    /\ \A t \in Seq(Letters) : t \in Seq(Chars)
  <1>1. /\ NUL \notin Letters /\ NUL \in Chars /\ Letters \subseteq Chars /\ Delim \in Letters
        /\ Delim # NUL /\ Letters \subseteq Nat /\ Chars \subseteq Nat
        /\ \A c \in Chars : c = NUL \/ c \in Letters
    BY LettersAreNoNul DEF NUL, Chars
  <1>2. ASSUME NEW t \in Seq(Letters) PROVE t \in Seq(Chars)
    <2>1. /\ Len(t) \in Nat /\ \A i \in 1..Len(t) : t[i] \in Letters
          /\ t = [i \in 1..Len(t) |-> t[i]]
      BY LenProperties, ElementOfSeq
    <2>2. \A i \in 1..Len(t) : t[i] \in Chars
      BY <1>1, <2>1
    <2> QED
      BY <2>1, <2>2, IsASeq
  <1> QED
    BY <1>1, <1>2

LEMMA WordFacts ==
    ASSUME NEW t \in Seq(Letters)
    PROVE  /\ Len(t) \in Nat /\ t \in Seq(Chars) /\ \A i \in 1..Len(t) : t[i] \in Letters
           /\ CString(t) \in Seq(Chars) /\ Len(CString(t)) = Len(t) + 1
           /\ \A i \in 1..Len(t) : CString(t)[i] = t[i]
           /\ CString(t)[Len(t) + 1] = NUL
  BY CharFacts, LenProperties, ElementOfSeq, AppendProperties DEF CString

LEMMA StringFacts ==
    ASSUME NEW s \in Seq(Seq(Letters))
    PROVE  /\ Len(s) \in Nat
           /\ \A k \in 1..Len(s) :
                /\ s[k] \in Seq(Letters) /\ Len(s[k]) \in Nat
                /\ \A j \in 1..Len(s[k]) : s[k][j] \in Letters
  BY LenProperties, ElementOfSeq

LEMMA StartsRise ==
    ASSUME NEW s, NEW b, NEW st, VectorOf(s, b, st)
    PROVE  /\ Len(s) \in Nat /\ Len(b) \in Nat
           /\ \A j, k \in 1..Len(s) + 1 : j < k => st[j] < st[k]
           /\ \A k \in 1..Len(s) + 1 : st[k] \in 1..Len(b) + 1
  <1> DEFINE n == Len(s)
  <1>1. n \in Nat /\ Len(b) \in Nat /\ \A k \in 1..n : Len(s[k]) \in Nat
    BY StringFacts, LenProperties DEF VectorOf
  <1>2. /\ st \in [1..n + 1 -> Nat] /\ st[1] = 1 /\ st[n + 1] = Len(b) + 1
        /\ \A k \in 1..n : st[k + 1] = st[k] + Len(s[k]) + 1
    BY DEF VectorOf
  <1> HIDE DEF n
  <1>3. \A k \in 1..n + 1 : st[k] \in Nat
    BY <1>2
  <1>4. \A k \in 1..n : st[k] < st[k + 1]
    <2> TAKE k \in 1..n
    <2>1. k \in 1..n + 1 /\ Len(s[k]) \in Nat /\ st[k + 1] = st[k] + Len(s[k]) + 1
      BY <1>1, <1>2
    <2> QED
      BY <1>3, <2>1
  <1>5. ASSUME NEW j \in 1..n + 1 PROVE \A k \in 1..n + 1 : j < k => st[j] < st[k]
    <2> DEFINE D == {i \in 0..n + 1 - j : i > 0 => st[j] < st[j + i]}
    <2>1. 0 \in D /\ n + 1 - j \in Nat
      BY <1>1
    <2>2. \A i \in 0..(n + 1 - j) - 1 : i \in D => i + 1 \in D
      <3> TAKE i \in 0..(n + 1 - j) - 1
      <3> HAVE i \in D
      <3>1. j + i \in 1..n /\ j + (i + 1) = (j + i) + 1 /\ j + i + 1 \in 1..n + 1
        BY <1>1
      <3>2. st[j + i] < st[(j + i) + 1] /\ st[j + i] \in Nat /\ st[j] \in Nat /\ st[(j + i) + 1] \in Nat
        BY <1>1, <1>3, <1>4, <3>1
      <3>3. i > 0 \/ j + i = j
        BY <1>1
      <3> QED
        BY <1>1, <3>1, <3>2, <3>3
    <2> HIDE DEF D
    <2>3. \A i \in 0..n + 1 - j : i \in D
      BY <2>1, <2>2, Upward, Zenon
    <2>4. ASSUME NEW k \in 1..n + 1, j < k PROVE st[j] < st[k]
      <3>1. k - j \in D /\ k - j > 0 /\ j + (k - j) = k
        BY <1>1, <2>3, <2>4
      <3> QED
        BY <3>1 DEF D
    <2> QED
      BY <2>4
  <1>6. ASSUME NEW k \in 1..n + 1 PROVE st[k] \in 1..Len(b) + 1
    <2>1. 1 \in 1..n + 1 /\ n + 1 \in 1..n + 1 /\ st[k] \in Nat
      BY <1>1, <1>2
    <2>2. k = 1 \/ st[1] < st[k]
      BY <1>1, <1>5, <2>1
    <2>3. k = n + 1 \/ st[k] < st[n + 1]
      BY <1>1, <1>5, <2>1
    <2> QED
      BY <1>1, <1>2, <2>1, <2>2, <2>3
  <1> QED
    BY <1>1, <1>5, <1>6 DEF n
LEMMA EntryAt ==
    ASSUME NEW s, NEW b, NEW st, VectorOf(s, b, st), NEW p \in 1..Len(b)
    PROVE  \E k \in 1..Len(s) : st[k] <= p /\ p < st[k + 1]
  <1> DEFINE n == Len(s)
             T == {k \in 1..n + 1 : st[k] <= p}
  <1>1. n \in Nat /\ Len(b) \in Nat /\ \A k \in 1..n + 1 : st[k] \in 1..Len(b) + 1
    BY StartsRise
  <1>2. st[1] = 1 /\ st[n + 1] = Len(b) + 1
    BY DEF VectorOf
  <1> HIDE DEF n
  <1>3. 1 \in T /\ T \subseteq 1..n + 1 /\ n + 1 \in Nat
    BY <1>1, <1>2
  <1>4. PICK k \in T : \A j \in T : j <= k
    <2> HIDE DEF T
    <2> QED
      BY <1>3, GreatestIs
  <1>5. k # n + 1
    BY <1>1, <1>2
  <1>6. k \in 1..n /\ k + 1 \in 1..n + 1 /\ st[k + 1] \in Nat
    BY <1>1, <1>5
  <1>7. ~(st[k + 1] <= p)
    BY <1>1, <1>4, <1>6
  <1> QED
    BY <1>1, <1>6, <1>7 DEF n

(* The NULs of a vector are at the ends of its strings.                    *)
LEMMA NulPlaces ==
    ASSUME NEW s, NEW b, NEW st, VectorOf(s, b, st)
    PROVE  /\ \A k \in 1..Len(s) : st[k + 1] - 1 \in 1..Len(b) /\ b[st[k + 1] - 1] = NUL
           /\ \A k \in 1..Len(s), p \in 1..Len(b) :
                st[k] <= p /\ p < st[k + 1] - 1 => b[p] # NUL
           /\ \A p \in 1..Len(b) : b[p] = NUL => \E k \in 1..Len(s) : p = st[k + 1] - 1
  <1> DEFINE n == Len(s)
  <1>1. /\ n \in Nat /\ Len(b) \in Nat /\ \A k \in 1..n + 1 : st[k] \in 1..Len(b) + 1
        /\ \A j, k \in 1..n + 1 : j < k => st[j] < st[k]
    BY StartsRise
  <1>2. /\ \A k \in 1..n : /\ st[k + 1] = st[k] + Len(s[k]) + 1
                           /\ b[st[k + 1] - 1] = NUL
                           /\ \A j \in 1..Len(s[k]) : b[st[k] + j - 1] = s[k][j]
        /\ \A k \in 1..n : Len(s[k]) \in Nat /\ \A j \in 1..Len(s[k]) : s[k][j] \in Letters
    BY StringFacts DEF VectorOf
  <1> HIDE DEF n
  <1>3. ASSUME NEW k \in 1..n PROVE st[k + 1] - 1 \in 1..Len(b) /\ b[st[k + 1] - 1] = NUL
    <2>1. k \in 1..n + 1 /\ k + 1 \in 1..n + 1
      BY <1>1
    <2>2. st[k] < st[k + 1] /\ st[k] \in 1..Len(b) + 1 /\ st[k + 1] \in 1..Len(b) + 1
      BY <1>1, <2>1
    <2>3. st[k + 1] - 1 \in 1..Len(b)
      BY <1>1, <2>2
    <2> QED
      BY <1>2, <2>3
  <1>4. ASSUME NEW k \in 1..n, NEW p \in 1..Len(b), st[k] <= p, p < st[k + 1] - 1
        PROVE  b[p] # NUL
    <2>1. k \in 1..n + 1 /\ st[k] \in Nat
      BY <1>1
    <2>2. p - st[k] + 1 \in 1..Len(s[k]) /\ st[k] + (p - st[k] + 1) - 1 = p
      <3>1. st[k + 1] = st[k] + Len(s[k]) + 1 /\ Len(s[k]) \in Nat /\ p \in Nat
        BY <1>1, <1>2
      <3>2. st[k] <= p /\ p < st[k + 1] - 1
        BY <1>4
      <3>3. p - st[k] >= 0 /\ p - st[k] < Len(s[k])
        BY <2>1, <3>1, <3>2
      <3> QED
        BY <2>1, <3>1, <3>3
    <2>3. b[p] = s[k][p - st[k] + 1] /\ s[k][p - st[k] + 1] \in Letters
      BY <1>2, <2>2
    <2> QED
      BY <2>3, CharFacts
  <1>5. ASSUME NEW p \in 1..Len(b), b[p] = NUL PROVE \E k \in 1..n : p = st[k + 1] - 1
    <2>1. PICK k \in 1..n : st[k] <= p /\ p < st[k + 1]
      BY EntryAt DEF n
    <2>2. k + 1 \in 1..n + 1 /\ st[k + 1] \in Nat
      BY <1>1
    <2>3. ~(p < st[k + 1] - 1)
      BY <1>4, <1>5, <2>1
    <2>4. p \in Nat /\ p < st[k + 1]
      BY <1>1, <2>1
    <2>5. p = st[k + 1] - 1
      BY ONLY <2>2, <2>3, <2>4
    <2> QED
      BY <2>5
  <1> QED
    BY <1>3, <1>4, <1>5 DEF n

LEMMA NulFromIs ==
    ASSUME NEW s, NEW b, NEW st, VectorOf(s, b, st), NEW k \in 1..Len(s), NEW p \in 1..Len(b),
           st[k] <= p, p < st[k + 1]
    PROVE  NulFrom(b, p) = st[k + 1] - 1
  <1> DEFINE q == st[k + 1] - 1
             S == {i \in p..Len(b) : b[i] = NUL}
  <1>1. q \in 1..Len(b) /\ b[q] = NUL /\ Len(b) \in Nat
    BY NulPlaces, StartsRise
  <1>2. p <= q
    <2>1. Len(s) \in Nat /\ k + 1 \in 1..Len(s) + 1
      BY StartsRise
    <2>2. st[k + 1] \in Nat
      BY <2>1, StartsRise
    <2> QED
      BY <2>2
  <1>3. q \in S
    BY <1>1, <1>2
  <1>4. ASSUME NEW i \in S PROVE q <= i
    <2>1. i \in 1..Len(b) /\ st[k] <= i /\ b[i] = NUL
      <3>1. Len(s) \in Nat /\ k \in 1..Len(s) + 1 /\ st[k] \in Nat
        BY StartsRise
      <3> QED
        BY <1>1, <3>1
    <2>2. ~(i < q)
      BY <2>1, NulPlaces
    <2> QED
      BY <1>1, <2>1, <2>2
  <1>5. S \subseteq Int
    BY <1>1
  <1> HIDE DEF S, q
  <1>6. Min(S) = q
    <2>1. \A x \in S : (\A y \in S : x <= y) => x = q
      <3> TAKE x \in S
      <3>1. q <= x /\ q \in Int /\ x \in Int
        BY <1>3, <1>4, <1>5
      <3> QED
        BY <1>3, <3>1
    <2> QED
      BY <1>3, <1>4, <2>1, Zenon DEF Min
  <1> QED
    BY <1>6 DEF NulFrom, S, q

-----------------------------------------------------------------------------
(* The pieces of a sequence that is cut where E rises to.                  *)

Cuts(E, n, b, at) ==
    /\ n \in Nat /\ E \in [0..n + 1 -> Nat]
    /\ E[0] = 0 /\ E[n + 1] = Len(b) + 1
    /\ \A j, k \in 0..n + 1 : j < k => E[j] < E[k]
    /\ at = {E[k] : k \in 1..n}

LEMMA RisingImage ==
    ASSUME NEW lo \in Int, NEW hi \in Int, lo <= hi + 1, NEW E,
           \A k \in lo..hi : E[k] \in Nat, \A j, k \in lo..hi : j < k => E[j] < E[k]
    PROVE  LET T == {E[k] : k \in lo..hi}
           IN IsFiniteSet(T) /\ Cardinality(T) = hi + 1 - lo
  <1> DEFINE T == {E[k] : k \in lo..hi}
             f == [k \in lo..hi |-> E[k]]
  <1>1. f \in Bijection(lo..hi, T)
    <2>1. f \in Surjection(lo..hi, T)
      BY DEF Surjection
    <2>2. f \in Injection(lo..hi, T)
      <3>1. \A j, k \in lo..hi : f[j] = f[k] => j = k
        <4> TAKE j, k \in lo..hi
        <4> HAVE f[j] = f[k]
        <4>1. E[j] = E[k] /\ E[j] \in Nat
          OBVIOUS
        <4>2. ~(j < k) /\ ~(k < j)
          BY <4>1
        <4> QED
          BY <4>2
      <3>2. f \in [lo..hi -> T]
        OBVIOUS
      <3> QED
        BY <3>1, <3>2 DEF Injection, IsInjective
    <2> QED
      BY <2>1, <2>2 DEF Bijection
  <1>2. IsFiniteSet(lo..hi) /\ Cardinality(lo..hi) = hi + 1 - lo
    BY FS_Interval
  <1> HIDE DEF T, f
  <1>3. IsFiniteSet(T) /\ Cardinality(T) = Cardinality(lo..hi)
    BY <1>1, <1>2, FS_Bijection DEF ExistsBijection
  <1> QED
    BY <1>2, <1>3 DEF T

LEMMA CutIs ==
    ASSUME NEW E, NEW n, NEW b, NEW at, Cuts(E, n, b, at), Len(b) \in Nat
    PROVE  Cut(b, at) = [k \in 1..n + 1 |-> SubSeq(b, E[k - 1] + 1, E[k] - 1)]
  <1> DEFINE edges == {0, Len(b) + 1} \cup at
             Edge(k) == CHOOSE p \in edges : Cardinality({q \in edges : q < p}) = k
  <1>1. /\ n \in Nat /\ E \in [0..n + 1 -> Nat] /\ E[0] = 0 /\ E[n + 1] = Len(b) + 1
        /\ \A j, k \in 0..n + 1 : j < k => E[j] < E[k]
        /\ at = {E[k] : k \in 1..n}
    BY DEF Cuts
  <1>2. \A k \in 0..n + 1 : E[k] \in Nat
    BY <1>1
  <1>3. Cardinality(at) = n
    <2>1. /\ \A k \in 1..n : E[k] \in Nat
          /\ \A j, k \in 1..n : j < k => E[j] < E[k]
          /\ 1 \in Int /\ n \in Int /\ 1 <= n + 1 /\ n + 1 - 1 = n
      BY <1>1, <1>2
    <2>2. Cardinality({E[k] : k \in 1..n}) = n + 1 - 1
      BY ONLY <2>1, RisingImage
    <2> QED
      BY <1>1, <2>1, <2>2
  <1>4. edges = {E[k] : k \in 0..n + 1}
    <2>1. \A k \in 0..n + 1 : k = 0 \/ k = n + 1 \/ k \in 1..n
      BY <1>1
    <2>2. 0 \in 0..n + 1 /\ n + 1 \in 0..n + 1 /\ \A k \in 1..n : k \in 0..n + 1
      BY <1>1
    <2> QED
      BY <1>1, <2>1, <2>2
  <1> HIDE DEF edges
  <1>5. ASSUME NEW k \in 0..n + 1 PROVE Cardinality({q \in edges : q < E[k]}) = k
    <2>1. {q \in edges : q < E[k]} = {E[j] : j \in 0..k - 1}
      <3>1. ASSUME NEW q \in edges, q < E[k] PROVE q \in {E[j] : j \in 0..k - 1}
        <4>1. PICK j \in 0..n + 1 : q = E[j]
          BY <1>4
        <4>2. ~(k < j) /\ j # k
          BY <1>1, <1>2, <3>1, <4>1
        <4>3. j \in 0..k - 1
          BY <1>1, <4>2
        <4> QED
          BY <4>1, <4>3
      <3>2. ASSUME NEW j \in 0..k - 1 PROVE E[j] \in edges /\ E[j] < E[k]
        <4>1. j \in 0..n + 1 /\ j < k
          BY <1>1
        <4> QED
          BY <1>1, <1>4, <4>1
      <3> QED
        BY <3>1, <3>2
    <2>2. /\ \A j \in 0..k - 1 : E[j] \in Nat
          /\ \A i, j \in 0..k - 1 : i < j => E[i] < E[j]
          /\ 0 \in Int /\ k - 1 \in Int /\ 0 <= (k - 1) + 1 /\ (k - 1) + 1 - 0 = k
      BY <1>1, <1>2
    <2>3. Cardinality({E[j] : j \in 0..k - 1}) = (k - 1) + 1 - 0
      BY ONLY <2>2, RisingImage
    <2> QED
      BY <2>1, <2>2, <2>3
  <1>6. ASSUME NEW k \in 0..n + 1 PROVE Edge(k) = E[k]
    <2>1. E[k] \in edges /\ Cardinality({q \in edges : q < E[k]}) = k
      BY <1>4, <1>5
    <2>2. ASSUME NEW p \in edges, Cardinality({q \in edges : q < p}) = k PROVE p = E[k]
      <3>1. PICK j \in 0..n + 1 : p = E[j]
        BY <1>4
      <3>2. Cardinality({q \in edges : q < E[j]}) = j
        BY <1>5
      <3> QED
        BY <2>2, <3>1, <3>2
    <2> QED
      BY <2>1, <2>2
  <1> HIDE DEF Edge
  <1>7. ASSUME NEW k \in 1..n + 1
        PROVE  SubSeq(b, Edge(k - 1) + 1, Edge(k) - 1) = SubSeq(b, E[k - 1] + 1, E[k] - 1)
    <2>1. k \in 0..n + 1 /\ k - 1 \in 0..n + 1
      BY <1>1
    <2> QED
      BY <1>6, <2>1
  <1>8. Cut(b, at) = [k \in 1..n + 1 |-> SubSeq(b, Edge(k - 1) + 1, Edge(k) - 1)]
    BY <1>3 DEF Cut, edges, Edge
  <1> QED
    BY <1>7, <1>8
LEMMA StringAt ==
    ASSUME NEW s, NEW b, NEW st, VectorOf(s, b, st), NEW k \in 1..Len(s)
    PROVE  SubSeq(b, st[k], st[k + 1] - 2) = s[k]
  <1> DEFINE n == Len(s)
  <1>1. /\ b \in Seq(Chars) /\ st[k + 1] = st[k] + Len(s[k]) + 1
        /\ \A j \in 1..Len(s[k]) : b[st[k] + j - 1] = s[k][j]
        /\ s[k] \in Seq(Letters) /\ Len(s[k]) \in Nat
    BY StringFacts DEF VectorOf
  <1>2. n \in Nat /\ Len(b) \in Nat /\ \A i \in 1..n + 1 : st[i] \in 1..Len(b) + 1
    BY StartsRise
  <1> HIDE DEF n
  <1> DEFINE u == SubSeq(b, st[k], st[k + 1] - 2)
             m == Len(s[k])
  <1>3. /\ st[k] \in Int /\ st[k + 1] - 2 \in Int /\ 1 <= st[k] /\ st[k + 1] - 2 <= Len(b)
        /\ st[k + 1] = st[k] + m + 1 /\ m \in Nat
    <2>1. k \in 1..n + 1 /\ k + 1 \in 1..n + 1
      BY <1>2 DEF n
    <2>2. st[k] \in 1..Len(b) + 1 /\ st[k + 1] \in 1..Len(b) + 1
      BY <1>2, <2>1
    <2>3. st[k + 1] = st[k] + m + 1 /\ m \in Nat
      BY <1>1
    <2>4. Len(b) \in Nat
      BY <1>2
    <2> HIDE DEF m
    <2> QED
      BY ONLY <2>2, <2>3, <2>4
  <1>4. s[k] \in Seq(Letters) /\ s[k] \in Seq(Chars) /\ \A j \in 1..m : b[st[k] + j - 1] = s[k][j]
    BY <1>1, CharFacts
  <1> HIDE DEF m
  <1>5. /\ u \in Seq(Chars)
        /\ Len(u) = IF st[k] <= st[k + 1] - 2 THEN st[k + 1] - 2 - st[k] + 1 ELSE 0
        /\ \A i \in 1..st[k + 1] - 2 - st[k] + 1 : u[i] = b[st[k] + i - 1]
    <2>1. b \in Seq(Chars)
      BY <1>1
    <2> DEFINE lo == st[k]
               hi == st[k + 1] - 2
    <2>2. lo \in Int /\ hi \in Int /\ 1 <= lo /\ hi <= Len(b)
      BY <1>3
    <2> HIDE DEF lo, hi
    <2>3. /\ SubSeq(b, lo, hi) \in Seq(Chars)
          /\ Len(SubSeq(b, lo, hi)) = IF lo <= hi THEN hi - lo + 1 ELSE 0
          /\ \A i \in 1..hi - lo + 1 : SubSeq(b, lo, hi)[i] = b[lo + i - 1]
      BY ONLY <2>1, <2>2, PartIs
    <2> QED
      BY ONLY <2>3 DEF lo, hi
  <1> HIDE DEF u
  <1>6. st[k + 1] - 2 - st[k] + 1 = m /\ Len(u) = m
    <2> DEFINE x == st[k]
               y == st[k + 1]
    <2>1. x \in Int /\ y = x + m + 1 /\ m \in Nat
      BY <1>3
    <2> HIDE DEF x, y
    <2>2. y - 2 - x + 1 = m /\ (IF x <= y - 2 THEN y - 2 - x + 1 ELSE 0) = m
      BY ONLY <2>1
    <2> QED
      BY <1>5, <2>2 DEF x, y
  <1>7. \A i \in 1..Len(u) : u[i] = s[k][i]
    BY <1>4, <1>5, <1>6
  <1>8. u = s[k]
    BY <1>4, <1>5, <1>6, <1>7, SeqEqual DEF m
  <1> QED
    BY <1>8 DEF u

(* What the reference finds in a block is what it is a vector of.          *)
LEMMA StringsAre ==
    ASSUME NEW s, NEW b, IsVector(s, b)
    PROVE  Strings(b) = s
  <1>1. PICK st : VectorOf(s, b, st)
    BY DEF IsVector
  <1> DEFINE n == Len(s)
             at == {p \in DOMAIN b : b[p] = NUL}
             E == [k \in 0..n + 1 |-> IF k = n + 1 THEN Len(b) + 1 ELSE st[k + 1] - 1]
             pieces == [k \in 1..n + 1 |-> SubSeq(b, E[k - 1] + 1, E[k] - 1)]
  <1>2. /\ n \in Nat /\ Len(b) \in Nat /\ \A k \in 1..n + 1 : st[k] \in 1..Len(b) + 1
        /\ \A j, k \in 1..n + 1 : j < k => st[j] < st[k]
    BY <1>1, StartsRise
  <1>3. /\ s \in Seq(Seq(Letters)) /\ b \in Seq(Chars)
        /\ st[1] = 1 /\ st[n + 1] = Len(b) + 1
        /\ \A k \in 1..n : /\ st[k + 1] = st[k] + Len(s[k]) + 1
                           /\ \A j \in 1..Len(s[k]) : b[st[k] + j - 1] = s[k][j]
        /\ \A k \in 1..n : /\ s[k] \in Seq(Letters) /\ Len(s[k]) \in Nat
                           /\ \A j \in 1..Len(s[k]) : s[k][j] \in Letters
    BY <1>1, StringFacts DEF VectorOf
  <1>4. DOMAIN b = 1..Len(b)
    BY <1>3, LenProperties
  <1>5. Cuts(E, n, b, at)
    <2> HIDE DEF n
    <2>1. \A k \in 0..n : E[k] = st[k + 1] - 1 /\ k + 1 \in 1..n + 1
      BY <1>2
    <2>2. E[n + 1] = Len(b) + 1
      BY <1>2
    <2>3. E[0] = 0
      BY <1>2, <1>3, <2>1
    <2>4. \A k \in 0..n : E[k] \in 0..Len(b)
      BY <1>2, <2>1
    <2>5. E \in [0..n + 1 -> Nat]
      <3>1. \A k \in 0..n + 1 : E[k] \in Nat
        BY <1>2, <2>2, <2>4
      <3> QED
        BY <3>1
    <2> HIDE DEF E
    <2>6. ASSUME NEW j \in 0..n + 1, NEW k \in 0..n + 1, j < k PROVE E[j] < E[k]
      <3>1. j \in 0..n
        BY <1>2, <2>6
      <3>2. CASE k = n + 1
        BY <1>2, <2>2, <2>4, <3>1, <3>2
      <3>3. CASE k \in 0..n
        <4>1. st[j + 1] < st[k + 1] /\ st[j + 1] \in Nat /\ st[k + 1] \in Nat
          BY <1>2, <2>6, <3>1, <3>3
        <4> QED
          BY <2>1, <3>1, <3>3, <4>1
      <3> QED
        BY <1>2, <3>2, <3>3
    <2>7. at = {E[k] : k \in 1..n}
      <3>1. \A k \in 1..n : E[k] = st[k + 1] - 1
        BY <2>1
      <3>2. \A k \in 1..n : E[k] \in 1..Len(b) /\ b[E[k]] = NUL
        BY <1>1, <3>1, NulPlaces DEF n
      <3>3. \A p \in 1..Len(b) : b[p] = NUL => \E k \in 1..n : p = E[k]
        BY <1>1, <3>1, NulPlaces DEF n
      <3> QED
        BY <1>4, <3>2, <3>3
    <2> HIDE DEF at
    <2> QED
      BY <1>2, <2>2, <2>3, <2>5, <2>6, <2>7 DEF Cuts
  <1>6. Cut(b, at) = pieces
    <2> HIDE DEF E, at
    <2> QED
      BY <1>2, <1>5, CutIs
  <1>7. ASSUME NEW k \in 1..n PROVE pieces[k] = s[k]
    <2> HIDE DEF n
    <2>1. E[k - 1] + 1 = st[k] /\ E[k] - 1 = st[k + 1] - 2
      <3>1. k - 1 \in 0..n + 1 /\ k \in 0..n + 1 /\ k - 1 # n + 1 /\ k # n + 1
            /\ (k - 1) + 1 = k
        BY <1>2
      <3>2. E[k - 1] = st[k] - 1 /\ E[k] = st[k + 1] - 1
        BY <3>1
      <3>3. st[k] \in Nat /\ st[k + 1] \in Nat
        BY <1>2
      <3> HIDE DEF E
      <3> QED
        BY <3>2, <3>3
    <2>2. pieces[k] = SubSeq(b, st[k], st[k + 1] - 2)
      <3>1. k \in 1..n + 1
        BY <1>2
      <3> HIDE DEF E
      <3> QED
        BY <2>1, <3>1
    <2> HIDE DEF pieces, E, at
    <2>3. SubSeq(b, st[k], st[k + 1] - 2) = s[k]
      BY <1>1, StringAt DEF n
    <2> QED
      BY <2>2, <2>3
  <1>8. Strings(b) = SubSeq(pieces, 1, n)
    <2>1. Len(pieces) = n + 1 /\ (n + 1) - 1 = n
      BY <1>2
    <2> HIDE DEF pieces, at
    <2> QED
      BY <1>6, <2>1 DEF Strings, Front, at
  <1>9. SubSeq(pieces, 1, n) = s
    <2> HIDE DEF pieces, E, at, n
    <2>1. \A k \in 1..n : pieces[k] \in Seq(Letters)
      BY <1>3, <1>7
    <2>2. /\ SubSeq(pieces, 1, n) \in Seq(Seq(Letters))
          /\ Len(SubSeq(pieces, 1, n)) = IF 1 <= n THEN n - 1 + 1 ELSE 0
          /\ \A i \in 1..n - 1 + 1 : SubSeq(pieces, 1, n)[i] = pieces[1 + i - 1]
      <3>1. 1 \in Int /\ n \in Int
        BY <1>2
      <3> QED
        BY ONLY <2>1, <3>1, SubSeqProperties
    <2> DEFINE v == SubSeq(pieces, 1, n)
    <2>3. Len(v) = n /\ \A i \in 1..n : v[i] = pieces[i]
      BY <1>2, <2>2
    <2>4. \A i \in 1..n : v[i] = s[i]
      BY <1>7, <2>3
    <2> HIDE DEF v
    <2>5. v \in Seq(Seq(Letters)) /\ Len(v) = Len(s)
      BY <2>2, <2>3 DEF v, n
    <2>6. v = s
      BY <1>3, <2>3, <2>4, <2>5, SeqEqual
    <2> QED
      BY <2>6 DEF v
  <1> QED
    BY <1>8, <1>9
LEMMA EmptyVector == IsVector(<<>>, <<>>)
  <1> DEFINE st == [k \in 1..1 |-> 1]
  <1>1. <<>> \in Seq(Seq(Letters)) /\ <<>> \in Seq(Chars)
    BY EmptySeq
  <1>2. VectorOf(<<>>, <<>>, st)
    BY <1>1, EmptySeq DEF VectorOf
  <1> QED
    BY <1>2 DEF IsVector

LEMMA OneVector ==
    ASSUME NEW t \in Seq(Letters)
    PROVE  IsVector(<<t>>, CString(t))
  <1> DEFINE m == Len(t)
             st == [k \in 1..2 |-> IF k = 1 THEN 1 ELSE m + 2]
             c == CString(t)
  <1>1. /\ m \in Nat /\ c \in Seq(Chars) /\ Len(c) = m + 1
        /\ \A i \in 1..m : c[i] = t[i]
        /\ c[m + 1] = NUL
    BY WordFacts
  <1>2. <<t>> \in Seq(Seq(Letters)) /\ Len(<<t>>) = 1 /\ <<t>>[1] = t
    OBVIOUS
  <1> HIDE DEF m, c
  <1>3. st \in [1..2 -> Nat] /\ st[1] = 1 /\ st[2] = m + 2
    BY <1>1
  <1> HIDE DEF st
  <1>4. ASSUME NEW k \in 1..1
        PROVE  /\ st[k + 1] = st[k] + m + 1 /\ c[st[k + 1] - 1] = NUL
               /\ \A j \in 1..m : c[st[k] + j - 1] = t[j]
    <2>1. k = 1 /\ k + 1 = 2 /\ st[k] = 1 /\ st[k + 1] = m + 2
      BY <1>3
    <2>2. st[k + 1] - 1 = m + 1 /\ st[k + 1] = st[k] + m + 1 /\ \A j \in 1..m : st[k] + j - 1 = j
      BY <1>1, <2>1
    <2> QED
      BY <1>1, <2>2
  <1>5. VectorOf(<<t>>, c, st)
    BY <1>1, <1>2, <1>3, <1>4 DEF VectorOf, m
  <1> QED
    BY <1>5 DEF IsVector, c

LEMMA CatVector ==
    ASSUME NEW s, NEW b, NEW t, NEW c, IsVector(s, b), IsVector(t, c)
    PROVE  IsVector(s \o t, b \o c)
  <1>1. PICK st : VectorOf(s, b, st)
    BY DEF IsVector
  <1>2. PICK tt : VectorOf(t, c, tt)
    BY DEF IsVector
  <1> DEFINE m == Len(s)
             n == Len(t)
             l == Len(b)
             u == s \o t
             d == b \o c
             at == [k \in 1..m + n + 1 |-> IF k <= m THEN st[k] ELSE l + tt[k - m]]
  <1>3. /\ m \in Nat /\ l \in Nat /\ \A k \in 1..m + 1 : st[k] \in 1..l + 1
        /\ n \in Nat /\ Len(c) \in Nat /\ \A k \in 1..n + 1 : tt[k] \in 1..Len(c) + 1
    BY <1>1, <1>2, StartsRise
  <1>4. /\ s \in Seq(Seq(Letters)) /\ t \in Seq(Seq(Letters)) /\ b \in Seq(Chars) /\ c \in Seq(Chars)
        /\ st[1] = 1 /\ st[m + 1] = l + 1 /\ tt[1] = 1 /\ tt[n + 1] = Len(c) + 1
        /\ \A k \in 1..m : /\ st[k + 1] = st[k] + Len(s[k]) + 1
                           /\ b[st[k + 1] - 1] = NUL
                           /\ \A j \in 1..Len(s[k]) : b[st[k] + j - 1] = s[k][j]
        /\ \A k \in 1..n : /\ tt[k + 1] = tt[k] + Len(t[k]) + 1
                           /\ c[tt[k + 1] - 1] = NUL
                           /\ \A j \in 1..Len(t[k]) : c[tt[k] + j - 1] = t[k][j]
    BY <1>1, <1>2 DEF VectorOf
  <1>5. /\ \A k \in 1..m : Len(s[k]) \in Nat
        /\ \A k \in 1..n : Len(t[k]) \in Nat
    BY <1>4, StringFacts
  <1>6. /\ u \in Seq(Seq(Letters)) /\ Len(u) = m + n
        /\ \A k \in 1..m : u[k] = s[k]
        /\ \A k \in 1..n : u[m + k] = t[k]
    BY <1>4, CatIs
  <1>7. /\ d \in Seq(Chars) /\ Len(d) = l + Len(c)
        /\ \A k \in 1..l : d[k] = b[k]
        /\ \A k \in 1..Len(c) : d[l + k] = c[k]
    BY <1>4, CatIs
  <1> HIDE DEF m, n, l, u, d
  <1>8. \A k \in 1..m + 1 : at[k] = st[k]
    <2> TAKE k \in 1..m + 1
    <2>1. k \in 1..m + n + 1
      BY <1>3
    <2>2. CASE k <= m
      BY <2>1, <2>2
    <2>3. CASE k = m + 1
      <3>1. at[k] = l + tt[1]
        BY <1>3, <2>1, <2>3
      <3> QED
        BY <1>3, <1>4, <2>3, <3>1
    <2> QED
      BY <1>3, <2>2, <2>3
  <1>9. \A k \in 1..n + 1 : at[m + k] = l + tt[k]
    <2> TAKE k \in 1..n + 1
    <2>1. m + k \in 1..m + n + 1 /\ ~(m + k <= m) /\ (m + k) - m = k
      BY <1>3
    <2> QED
      BY <2>1
  <1>10. at \in [1..m + n + 1 -> Nat]
    <2>1. ASSUME NEW k \in 1..m + n + 1 PROVE at[k] \in Nat
      <3>1. CASE k <= m
        <4>1. k \in 1..m + 1
          BY <1>3, <3>1
        <4> QED
          BY <1>3, <1>8, <4>1
      <3>2. CASE k > m
        <4>1. k - m \in 1..n + 1 /\ m + (k - m) = k
          BY <1>3, <3>2
        <4> QED
          BY <1>3, <1>9, <4>1
      <3> QED
        BY <1>3, <3>1, <3>2
    <2> QED
      BY <2>1
  <1> HIDE DEF at
  <1>11. at[1] = 1 /\ at[m + n + 1] = Len(d) + 1
    <2>1. 1 \in 1..m + 1 /\ n + 1 \in 1..n + 1 /\ m + (n + 1) = m + n + 1
      BY <1>3
    <2>2. at[m + n + 1] = l + tt[n + 1]
      BY <1>9, <2>1
    <2>3. l + (Len(c) + 1) = l + Len(c) + 1
      BY <1>3
    <2> QED
      BY <1>4, <1>7, <1>8, <2>1, <2>2, <2>3
  <1>12. ASSUME NEW k \in 1..m + n
         PROVE  /\ at[k + 1] = at[k] + Len(u[k]) + 1
                /\ d[at[k + 1] - 1] = NUL
                /\ \A j \in 1..Len(u[k]) : d[at[k] + j - 1] = u[k][j]
    <2>1. CASE k <= m
      <3>1. k \in 1..m /\ k \in 1..m + 1 /\ k + 1 \in 1..m + 1
        BY <1>3, <2>1
      <3>2. /\ at[k] = st[k] /\ at[k + 1] = st[k + 1] /\ u[k] = s[k]
            /\ st[k] \in 1..l + 1 /\ st[k + 1] \in 1..l + 1 /\ Len(s[k]) \in Nat
            /\ st[k + 1] = st[k] + Len(s[k]) + 1
        BY <1>3, <1>4, <1>5, <1>6, <1>8, <3>1
      <3>3. st[k + 1] - 1 \in 1..l /\ \A j \in 1..Len(s[k]) : st[k] + j - 1 \in 1..l
        <4> DEFINE x == st[k]
                   y == st[k + 1]
                   z == Len(s[k])
        <4>1. l \in Nat /\ x \in 1..l + 1 /\ y \in 1..l + 1 /\ z \in Nat /\ y = x + z + 1
          BY <1>3, <3>2
        <4> HIDE DEF x, y, z
        <4>2. y - 1 \in 1..l /\ \A j \in 1..z : x + j - 1 \in 1..l
          BY ONLY <4>1
        <4> QED
          BY <4>2 DEF x, y, z
      <3>4. d[st[k + 1] - 1] = NUL
        BY <1>4, <1>7, <3>1, <3>3
      <3>5. \A j \in 1..Len(s[k]) : d[st[k] + j - 1] = s[k][j]
        BY <1>4, <1>7, <3>1, <3>3
      <3> QED
        BY <3>2, <3>4, <3>5
    <2>2. CASE k > m
      <3> DEFINE i == k - m
      <3>1. /\ i \in 1..n /\ i \in 1..n + 1 /\ i + 1 \in 1..n + 1
            /\ k = m + i /\ k + 1 = m + (i + 1)
        BY <1>3, <2>2
      <3> HIDE DEF i
      <3>2. /\ at[k] = l + tt[i] /\ at[k + 1] = l + tt[i + 1] /\ u[k] = t[i]
            /\ tt[i] \in 1..Len(c) + 1 /\ tt[i + 1] \in 1..Len(c) + 1 /\ Len(t[i]) \in Nat
            /\ tt[i + 1] = tt[i] + Len(t[i]) + 1
        BY <1>3, <1>4, <1>5, <1>6, <1>9, <3>1
      <3>3. /\ tt[i + 1] - 1 \in 1..Len(c) /\ \A j \in 1..Len(t[i]) : tt[i] + j - 1 \in 1..Len(c)
            /\ at[k + 1] - 1 = l + (tt[i + 1] - 1)
            /\ \A j \in 1..Len(t[i]) : at[k] + j - 1 = l + (tt[i] + j - 1)
            /\ at[k + 1] = at[k] + Len(t[i]) + 1
        <4> DEFINE x == tt[i]
                   y == tt[i + 1]
                   z == Len(t[i])
                   v == Len(c)
        <4>1. /\ l \in Nat /\ v \in Nat /\ x \in 1..v + 1 /\ y \in 1..v + 1 /\ z \in Nat
              /\ y = x + z + 1
          BY <1>3, <3>2
        <4>2. at[k] = l + x /\ at[k + 1] = l + y
          BY <3>2
        <4> HIDE DEF x, y, z, v
        <4>3. /\ y - 1 \in 1..v /\ \A j \in 1..z : x + j - 1 \in 1..v
              /\ (l + y) - 1 = l + (y - 1)
              /\ \A j \in 1..z : (l + x) + j - 1 = l + (x + j - 1)
              /\ l + y = (l + x) + z + 1
          BY ONLY <4>1
        <4>4. at[k + 1] - 1 = l + (y - 1)
          BY <4>2, <4>3, Zenon
        <4>5. \A j \in 1..z : at[k] + j - 1 = l + (x + j - 1)
          BY <4>2, <4>3, Zenon
        <4>6. at[k + 1] = at[k] + z + 1
          BY <4>2, <4>3, Zenon
        <4> QED
          BY <4>3, <4>4, <4>5, <4>6, Zenon DEF x, y, z, v
      <3>4. d[at[k + 1] - 1] = NUL
        <4>1. d[l + (tt[i + 1] - 1)] = c[tt[i + 1] - 1]
          BY <1>7, <3>3, Zenon
        <4> QED
          BY <1>4, <3>1, <3>3, <4>1
      <3>5. ASSUME NEW j \in 1..Len(t[i]) PROVE d[at[k] + j - 1] = t[i][j]
        <4>1. d[l + (tt[i] + j - 1)] = c[tt[i] + j - 1]
          BY <1>7, <3>3, Zenon
        <4>2. c[tt[i] + j - 1] = t[i][j]
          BY <1>4, <3>1, Zenon
        <4> QED
          BY <3>3, <4>1, <4>2, Zenon
      <3> QED
        BY <3>2, <3>3, <3>4, <3>5
    <2>3. k <= m \/ k > m
      BY <1>3
    <2> QED
      BY <2>1, <2>2, <2>3, Zenon
  <1>13. VectorOf(u, d, at)
    BY <1>6, <1>7, <1>10, <1>11, <1>12 DEF VectorOf
  <1> QED
    BY <1>13 DEF IsVector, u, d

LEMMA VectorFacts ==
    ASSUME NEW s, NEW b, IsVector(s, b)
    PROVE  /\ s \in Seq(Seq(Letters)) /\ b \in Seq(Chars)
           /\ Len(s) \in Nat /\ Len(b) \in Nat
           /\ b = <<>> <=> s = <<>>
           /\ b # <<>> => b[Len(b)] = NUL
           /\ Strings(b) = s
  <1>1. PICK st : VectorOf(s, b, st)
    BY DEF IsVector
  <1>2. s \in Seq(Seq(Letters)) /\ b \in Seq(Chars)
    BY <1>1 DEF VectorOf
  <1>3. Len(s) \in Nat /\ Len(b) \in Nat
    BY <1>2, LenProperties
  <1>4. /\ s # <<>> => Len(s) \in Nat \ {0}
        /\ b # <<>> => Len(b) \in Nat \ {0}
        /\ Len(<<>>) = 0
    BY <1>2, EmptySeq
  <1>5. CASE s = <<>>
    <2>1. Len(s) = 0 /\ 0 + 1 = 1 /\ st[1] = 1 /\ st[Len(s) + 1] = Len(b) + 1
      BY <1>1, <1>4, <1>5 DEF VectorOf
    <2>2. Len(b) = 0
      BY <1>3, <2>1
    <2>3. b = <<>>
      BY <1>4, <2>2
    <2> QED
      BY <1>2, <1>3, <1>5, <2>3, StringsAre
  <1>6. CASE s # <<>>
    <2>1. Len(s) \in 1..Len(s)
      BY <1>4, <1>6
    <2>2. st[Len(s) + 1] - 1 \in 1..Len(b) /\ b[st[Len(s) + 1] - 1] = NUL
      BY <1>1, <2>1, NulPlaces
    <2>3. st[Len(s) + 1] - 1 = Len(b)
      BY <1>1, <1>3 DEF VectorOf
    <2>4. Len(b) # 0
      BY <1>3, <2>2, <2>3
    <2> QED
      BY <1>2, <1>3, <1>4, <1>6, <2>2, <2>3, <2>4, StringsAre
  <1> QED
    BY <1>5, <1>6
LEMMA PartVector ==
    ASSUME NEW s, NEW b, NEW st, VectorOf(s, b, st),
           NEW i \in 1..Len(s) + 1, NEW j \in 1..Len(s) + 1, i <= j
    PROVE  IsVector(SubSeq(s, i, j - 1), SubSeq(b, st[i], st[j] - 1))
  <1> DEFINE m == Len(s)
             l == Len(b)
             lo == st[i]
             hi == st[j]
             n == j - i
             u == SubSeq(s, i, j - 1)
             d == SubSeq(b, lo, hi - 1)
             at == [k \in 1..n + 1 |-> st[i + k - 1] - lo + 1]
  <1>1. /\ m \in Nat /\ l \in Nat /\ \A k \in 1..m + 1 : st[k] \in 1..l + 1
        /\ \A x, y \in 1..m + 1 : x < y => st[x] < st[y]
    BY StartsRise
  <1>2. /\ s \in Seq(Seq(Letters)) /\ b \in Seq(Chars)
        /\ \A k \in 1..m : /\ st[k + 1] = st[k] + Len(s[k]) + 1
                           /\ b[st[k + 1] - 1] = NUL
                           /\ \A x \in 1..Len(s[k]) : b[st[k] + x - 1] = s[k][x]
        /\ \A k \in 1..m : Len(s[k]) \in Nat
    BY StringFacts DEF VectorOf
  <1>3. n \in Nat /\ i \in 1..m + 1 /\ j \in 1..m + 1 /\ j = i + n /\ lo \in 1..l + 1 /\ hi \in 1..l + 1
    BY <1>1
  <1>4. u \in Seq(Seq(Letters)) /\ Len(u) = n /\ \A k \in 1..n : u[k] = s[i + k - 1]
    <2> DEFINE e == j - 1
    <2>1. i \in Int /\ e \in Int /\ 1 <= i /\ e <= Len(s)
      BY <1>1
    <2>2. n = e - i + 1 /\ n = IF i <= e THEN e - i + 1 ELSE 0
      BY <1>3
    <2> HIDE DEF e, n
    <2>3. /\ SubSeq(s, i, e) \in Seq(Seq(Letters))
          /\ Len(SubSeq(s, i, e)) = IF i <= e THEN e - i + 1 ELSE 0
          /\ \A k \in 1..e - i + 1 : SubSeq(s, i, e)[k] = s[i + k - 1]
      BY <1>2, <2>1, PartIs
    <2> QED
      BY <2>2, <2>3 DEF e
  <1> HIDE DEF m, l
  <1>5. lo <= hi
    <2>1. i = j \/ i < j
      BY <1>1
    <2> QED
      BY <1>1, <1>3, <2>1
  <1>6. d \in Seq(Chars) /\ Len(d) = hi - lo /\ \A k \in 1..hi - lo : d[k] = b[lo + k - 1]
    <2> DEFINE e == hi - 1
    <2>1. lo \in Int /\ e \in Int /\ 1 <= lo /\ e <= Len(b)
      <3> HIDE DEF lo, hi
      <3> QED
        BY <1>1, <1>3 DEF l
    <2>2. hi - lo = e - lo + 1 /\ hi - lo = IF lo <= e THEN e - lo + 1 ELSE 0
      <3> HIDE DEF lo, hi
      <3> QED
        BY <1>3, <1>5
    <2> HIDE DEF e, lo, hi
    <2>3. /\ SubSeq(b, lo, e) \in Seq(Chars)
          /\ Len(SubSeq(b, lo, e)) = IF lo <= e THEN e - lo + 1 ELSE 0
          /\ \A k \in 1..e - lo + 1 : SubSeq(b, lo, e)[k] = b[lo + k - 1]
      BY <1>2, <2>1, PartIs
    <2> QED
      BY <2>2, <2>3 DEF e
  <1> HIDE DEF u, d, n
  <1>7. ASSUME NEW k \in 1..n + 1
        PROVE  /\ i + k - 1 \in 1..m + 1 /\ at[k] = st[i + k - 1] - lo + 1
               /\ st[i + k - 1] \in Nat /\ lo <= st[i + k - 1] /\ st[i + k - 1] <= hi
    <2>1. /\ i + k - 1 \in 1..m + 1 /\ (i = i + k - 1 \/ i < i + k - 1)
          /\ (i + k - 1 = j \/ i + k - 1 < j)
      BY <1>1, <1>3
    <2>2. at[k] = st[i + k - 1] - lo + 1
      OBVIOUS
    <2> DEFINE q == i + k - 1
    <2> HIDE DEF q, at
    <2>3. st[q] \in Nat /\ (i = q \/ st[i] < st[q]) /\ (q = j \/ st[q] < st[j])
      BY <1>1, <1>3, <2>1 DEF q
    <2>4. lo <= st[q] /\ st[q] <= hi
      BY <1>3, <2>3
    <2> QED
      BY <2>1, <2>2, <2>3, <2>4 DEF q
  <1>8. at \in [1..n + 1 -> Nat]
    <2>1. ASSUME NEW k \in 1..n + 1 PROVE st[i + k - 1] - lo + 1 \in Nat
      <3> DEFINE x == st[i + k - 1]
      <3>1. x \in Nat /\ lo <= x
        BY <1>7
      <3>2. lo \in Nat
        BY <1>1, <1>3
      <3> HIDE DEF x, lo
      <3> QED
        BY ONLY <3>1, <3>2 DEF x
    <2> QED
      BY <2>1
  <1> HIDE DEF at
  <1>9. at[1] = 1 /\ at[n + 1] = (hi - lo) + 1
    <2>1. 1 \in 1..n + 1 /\ n + 1 \in 1..n + 1 /\ i + 1 - 1 = i /\ i + (n + 1) - 1 = j
      BY <1>1, <1>3
    <2>2. at[1] = lo - lo + 1 /\ at[n + 1] = hi - lo + 1
      BY <1>7, <2>1
    <2> HIDE DEF lo, hi
    <2> QED
      BY <1>3, <2>2
  <1>10. ASSUME NEW k \in 1..n
         PROVE  /\ at[k + 1] = at[k] + Len(u[k]) + 1
                /\ d[at[k + 1] - 1] = NUL
                /\ \A x \in 1..Len(u[k]) : d[at[k] + x - 1] = u[k][x]
    <2> DEFINE q == i + k - 1
               w == Len(s[q])
               x0 == st[q]
               y0 == st[q + 1]
    <2>1. k \in 1..n + 1 /\ k + 1 \in 1..n + 1 /\ q \in 1..m /\ i + (k + 1) - 1 = q + 1
      BY <1>1, <1>3
    <2>2. u[k] = s[q] /\ w \in Nat /\ y0 = x0 + w + 1
      BY <1>2, <1>4, <2>1
    <2>3. at[k] = x0 - lo + 1 /\ x0 \in Nat /\ lo <= x0 /\ x0 <= hi
      BY <1>7, <2>1
    <2>4. at[k + 1] = y0 - lo + 1 /\ y0 \in Nat /\ lo <= y0 /\ y0 <= hi
      BY <1>7, <2>1
    <2>5. b[y0 - 1] = NUL /\ \A x \in 1..w : b[x0 + x - 1] = s[q][x]
      BY <1>2, <2>1
    <2>6. lo \in Nat /\ hi \in Nat
      <3> HIDE DEF lo, hi
      <3> QED
        BY <1>1, <1>3
    <2> HIDE DEF q, w, x0, y0, lo, hi
    <2>7. /\ at[k + 1] - 1 = y0 - lo /\ y0 - lo \in 1..hi - lo /\ lo + (y0 - lo) - 1 = y0 - 1
          /\ at[k + 1] = at[k] + w + 1
      BY ONLY <2>2, <2>3, <2>4, <2>6
    <2>8. d[at[k + 1] - 1] = NUL
      <3>1. d[y0 - lo] = b[lo + (y0 - lo) - 1]
        BY <1>6, <2>7, Zenon
      <3> QED
        BY <2>5, <2>7, <3>1, Zenon
    <2>9. ASSUME NEW x \in 1..w PROVE d[at[k] + x - 1] = s[q][x]
      <3>1. /\ at[k] + x - 1 = x0 - lo + x /\ x0 - lo + x \in 1..hi - lo
            /\ lo + (x0 - lo + x) - 1 = x0 + x - 1
        BY ONLY <2>2, <2>3, <2>4, <2>6, x \in 1..w
      <3>2. d[x0 - lo + x] = b[lo + (x0 - lo + x) - 1]
        BY <1>6, <3>1, Zenon
      <3> QED
        BY <2>5, <3>1, <3>2, Zenon
    <2> QED
      BY <2>2, <2>7, <2>8, <2>9 DEF w
  <1>11. VectorOf(u, d, at)
    <2> HIDE DEF lo, hi
    <2> QED
      BY <1>4, <1>6, <1>8, <1>9, <1>10 DEF VectorOf
  <1> QED
    BY <1>11 DEF IsVector, u, d
-----------------------------------------------------------------------------
(* What the queries return for a vector                                    *)

LEMMA NextStarts ==
    ASSUME NEW s, NEW b, NEW st, VectorOf(s, b, st)
    PROVE  /\ \A p \in 1..Len(b) : NulFrom(b, p) + 1 \in 1..Len(b) + 1 /\ NulFrom(b, p) + 1 > p
           /\ \A k \in 1..Len(s) : st[k] \in 1..Len(b) /\ NulFrom(b, st[k]) + 1 = st[k + 1]
  <1>1. /\ Len(s) \in Nat /\ Len(b) \in Nat /\ \A k \in 1..Len(s) + 1 : st[k] \in 1..Len(b) + 1
        /\ \A x, y \in 1..Len(s) + 1 : x < y => st[x] < st[y]
    BY StartsRise
  <1>2. ASSUME NEW p \in 1..Len(b)
        PROVE  NulFrom(b, p) + 1 \in 1..Len(b) + 1 /\ NulFrom(b, p) + 1 > p
    <2>1. PICK k \in 1..Len(s) : st[k] <= p /\ p < st[k + 1]
      BY EntryAt
    <2>2. NulFrom(b, p) = st[k + 1] - 1
      BY <2>1, NulFromIs
    <2>3. k + 1 \in 1..Len(s) + 1
      BY <1>1
    <2>4. st[k + 1] \in 1..Len(b) + 1
      BY <1>1, <2>3
    <2> QED
      BY <1>1, <2>1, <2>2, <2>4
  <1>3. ASSUME NEW k \in 1..Len(s)
        PROVE  st[k] \in 1..Len(b) /\ NulFrom(b, st[k]) + 1 = st[k + 1]
    <2>1. k \in 1..Len(s) + 1 /\ k + 1 \in 1..Len(s) + 1 /\ k < k + 1
      BY <1>1
    <2>2. st[k] < st[k + 1] /\ st[k] \in 1..Len(b) + 1 /\ st[k + 1] \in 1..Len(b) + 1
      BY <1>1, <2>1
    <2>3. st[k] \in 1..Len(b) /\ st[k] <= st[k]
      BY <1>1, <2>2
    <2>4. NulFrom(b, st[k]) = st[k + 1] - 1
      BY <2>2, <2>3, NulFromIs
    <2> QED
      BY <2>2, <2>3, <2>4
  <1> QED
    BY <1>2, <1>3

(* What a program has that may go on                                       *)
Holds(s, b) == len = Len(b) /\ (len > 0 => argz = b) /\ IsVector(s, b)

LEMMA CountIs ==
    ASSUME NEW s, NEW b, Holds(s, b)
    PROVE  argz_count = Len(s)
  <1>1. PICK st : VectorOf(s, b, st)
    BY DEF Holds, IsVector
  <1> DEFINE Body(f) == [p \in 1..len + 1 |-> IF p > len THEN 0 ELSE 1 + f[NulFrom(argz, p) + 1]]
             from == CHOOSE f : f = Body(f)
             nx == [p \in 1..len |-> NulFrom(b, p) + 1]
             F == [p \in 1..len |-> [x \in Nat |-> 1 + x]]
             n == Len(s)
  <1>2. /\ len = Len(b) /\ (len > 0 => argz = b) /\ n \in Nat /\ len \in Nat
        /\ \A k \in 1..n + 1 : st[k] \in 1..len + 1
    BY <1>1, StartsRise DEF Holds
  <1>3. /\ \A p \in 1..len : NulFrom(b, p) + 1 \in 1..len + 1 /\ NulFrom(b, p) + 1 > p
        /\ \A k \in 1..n : st[k] \in 1..len /\ NulFrom(b, st[k]) + 1 = st[k + 1]
        /\ st[n + 1] = len + 1
    <2>1. /\ \A p \in 1..Len(b) : NulFrom(b, p) + 1 \in 1..Len(b) + 1 /\ NulFrom(b, p) + 1 > p
          /\ \A k \in 1..Len(s) : st[k] \in 1..Len(b) /\ NulFrom(b, st[k]) + 1 = st[k + 1]
      BY <1>1, NextStarts
    <2>2. st[Len(s) + 1] = Len(b) + 1
      BY <1>1 DEF VectorOf
    <2> QED
      BY <1>2, <2>1, <2>2, Zenon
  <1>4. \A p \in 1..len : argz = b
    BY <1>2
  <1>5. \E f : f = Body(f)
    <2>1. nx \in [1..len -> 1..len + 1] /\ \A p \in 1..len : nx[p] > p
      BY <1>3
    <2>2. F \in [1..len -> [Nat -> Nat]] /\ 0 \in Nat
      OBVIOUS
    <2> HIDE DEF F, nx
    <2>3. PICK f \in [1..len + 1 -> Nat] : Jumps(f, F, nx, len, 0)
      BY <1>2, <2>1, <2>2, JumpsExist
    <2>4. ASSUME NEW p \in 1..len PROVE f[p] = 1 + f[NulFrom(argz, p) + 1]
      <3>1. f[p] = F[p][f[nx[p]]] /\ nx[p] = NulFrom(argz, p) + 1
        BY <1>4, <2>3 DEF Jumps, nx
      <3>2. f[nx[p]] \in Nat
        BY <2>1
      <3> QED
        BY <3>1, <3>2 DEF F
    <2>5. \A p \in 1..len + 1 : p > len <=> p \notin 1..len
      BY <1>2
    <2>6. \A p \in 1..len + 1 : p > len <=> p = len + 1
      BY <1>2
    <2>7. f = Body(f)
      BY <2>3, <2>4, <2>5, <2>6 DEF Jumps
    <2> QED
      BY <2>7
  <1>6. from = Body(from)
    BY <1>5
  <1> HIDE DEF from
  <1>7. \A p \in 1..len : from[p] = 1 + from[NulFrom(b, p) + 1]
    BY <1>2, <1>4, <1>6
  <1>8. from[len + 1] = 0
    BY <1>2, <1>6
  <1> HIDE DEF n, Body
  <1>9. \A k \in 1..n + 1 : from[st[k]] = n + 1 - k
    <2> DEFINE D == {k \in 1..n + 1 : from[st[k]] = n + 1 - k}
    <2>1. ASSUME NEW k \in 1..n + 1, \A j \in k + 1..n + 1 : j \in D
          PROVE  k \in D
      <3>1. CASE k = n + 1
        BY <1>2, <1>3, <1>8, <3>1
      <3>2. CASE k \in 1..n
        <4>1. k + 1 \in D
          BY <1>2, <2>1, <3>2
        <4>2. from[st[k]] = 1 + from[st[k + 1]]
          BY <1>3, <1>7, <3>2
        <4> QED
          BY <1>2, <4>1, <4>2
      <3> QED
        BY <1>2, <3>1, <3>2
    <2>2. n + 1 \in Nat
      BY <1>2
    <2> HIDE DEF D
    <2>3. \A k \in 1..n + 1 : k \in D
      BY <2>1, <2>2, Downward, Zenon
    <2> QED
      BY <2>3 DEF D
  <1>10. argz_count = from[1]
    BY DEF argz_count, from, Body
  <1>11. 1 \in 1..n + 1 /\ n + 1 - 1 = n /\ st[1] = 1
    BY <1>1, <1>2 DEF VectorOf
  <1> QED
    BY <1>9, <1>10, <1>11 DEF n

LEMMA ExtractIs ==
    ASSUME NEW s, NEW b, Holds(s, b), NEW st, VectorOf(s, b, st)
    PROVE  argz_extract = [k \in 1..Len(s) |-> st[k]]
  <1> DEFINE Body(f) == [p \in 1..len + 1 |->
                            IF p > len THEN <<>> ELSE <<p>> \o f[NulFrom(argz, p) + 1]]
             from == CHOOSE f : f = Body(f)
             nx == [p \in 1..len |-> NulFrom(b, p) + 1]
             F == [p \in 1..len |-> [x \in Seq(Nat) |-> <<p>> \o x]]
             n == Len(s)
  <1>2. /\ len = Len(b) /\ (len > 0 => argz = b) /\ n \in Nat /\ len \in Nat
        /\ \A k \in 1..n + 1 : st[k] \in 1..len + 1
    BY StartsRise DEF Holds
  <1>3. /\ \A p \in 1..len : NulFrom(b, p) + 1 \in 1..len + 1 /\ NulFrom(b, p) + 1 > p
        /\ \A k \in 1..n : st[k] \in 1..len /\ NulFrom(b, st[k]) + 1 = st[k + 1]
        /\ st[n + 1] = len + 1
    <2>1. /\ \A p \in 1..Len(b) : NulFrom(b, p) + 1 \in 1..Len(b) + 1 /\ NulFrom(b, p) + 1 > p
          /\ \A k \in 1..Len(s) : st[k] \in 1..Len(b) /\ NulFrom(b, st[k]) + 1 = st[k + 1]
      BY NextStarts
    <2>2. st[Len(s) + 1] = Len(b) + 1
      BY DEF VectorOf
    <2> QED
      BY <1>2, <2>1, <2>2, Zenon
  <1>4. \A p \in 1..len : argz = b
    BY <1>2
  <1>5. \E f : f = Body(f)
    <2>1. nx \in [1..len -> 1..len + 1] /\ \A p \in 1..len : nx[p] > p
      BY <1>3
    <2>2. F \in [1..len -> [Seq(Nat) -> Seq(Nat)]] /\ <<>> \in Seq(Nat)
      <3>1. \A p \in 1..len : <<p>> \in Seq(Nat)
        BY <1>2
      <3>2. \A p \in 1..len : \A x \in Seq(Nat) : <<p>> \o x \in Seq(Nat)
        BY <3>1, ConcatProperties
      <3> QED
        BY <3>2, EmptySeq
    <2> HIDE DEF F, nx
    <2>3. PICK f \in [1..len + 1 -> Seq(Nat)] : Jumps(f, F, nx, len, <<>>)
      BY <1>2, <2>1, <2>2, JumpsExist
    <2>4. ASSUME NEW p \in 1..len PROVE f[p] = <<p>> \o f[NulFrom(argz, p) + 1]
      <3>1. f[p] = F[p][f[nx[p]]] /\ nx[p] = NulFrom(argz, p) + 1
        BY <1>4, <2>3 DEF Jumps, nx
      <3>2. f[nx[p]] \in Seq(Nat)
        BY <2>1
      <3> QED
        BY <3>1, <3>2 DEF F
    <2>5. \A p \in 1..len + 1 : (p > len <=> p \notin 1..len) /\ (p > len <=> p = len + 1)
      BY <1>2
    <2>7. f = Body(f)
      BY <2>3, <2>4, <2>5 DEF Jumps
    <2> QED
      BY <2>7
  <1>6. from = Body(from)
    BY <1>5
  <1> HIDE DEF from
  <1>7. ASSUME NEW p \in 1..len PROVE from[p] = <<p>> \o from[NulFrom(b, p) + 1]
    <2>1. p \in 1..len + 1 /\ ~(p > len)
      BY <1>2
    <2>2. Body(from)[p] = <<p>> \o from[NulFrom(argz, p) + 1]
      BY <2>1
    <2> QED
      BY <1>4, <1>6, <2>2
  <1>8. from[len + 1] = <<>>
    BY <1>2, <1>6
  <1> HIDE DEF n, Body
  <1> DEFINE R(k) == [j \in 1..n + 1 - k |-> st[k + j - 1]]
  <1>9. \A k \in 1..n + 1 : from[st[k]] = R(k)
    <2> DEFINE D == {k \in 1..n + 1 : from[st[k]] = R(k)}
    <2>1. ASSUME NEW k \in 1..n + 1, \A j \in k + 1..n + 1 : j \in D
          PROVE  k \in D
      <3>1. CASE k = n + 1
        <4>1. n + 1 - k = 0
          BY <1>2, <3>1
        <4>2. R(k) = <<>>
          BY <4>1
        <4> QED
          BY <1>3, <1>8, <3>1, <4>2
      <3>2. CASE k \in 1..n
        <4>1. k + 1 \in D
          BY <1>2, <2>1, <3>2
        <4>2. from[st[k]] = <<st[k]>> \o R(k + 1)
          <5>1. st[k] \in 1..len /\ NulFrom(b, st[k]) + 1 = st[k + 1] /\ from[st[k + 1]] = R(k + 1)
            BY <1>3, <3>2, <4>1
          <5> HIDE DEF R
          <5> QED
            BY <1>7, <5>1, Zenon
        <4>3. /\ <<st[k]>> \in Seq(Nat) /\ Len(<<st[k]>>) = 1 /\ <<st[k]>>[1] = st[k]
          BY <1>2, <3>2
        <4>4. /\ n + 1 - k \in Nat /\ n + 1 - (k + 1) \in Nat
              /\ n + 1 - k = 1 + (n + 1 - (k + 1))
          BY <1>2, <3>2
        <4>5. \A j \in 1..n + 1 - (k + 1) : (k + 1) + j - 1 \in 1..n + 1
          BY <1>2, <3>2
        <4>6. \A j \in 1..n + 1 - k : k + j - 1 \in 1..n + 1
          BY <1>2, <3>2
        <4>7. R(k + 1) \in Seq(Nat) /\ Len(R(k + 1)) = n + 1 - (k + 1)
          <5>1. \A j \in 1..n + 1 - (k + 1) : st[(k + 1) + j - 1] \in Nat
            BY <1>2, <4>5
          <5> QED
            BY <4>4, <5>1, IsASeq
        <4>8. R(k) \in Seq(Nat) /\ Len(R(k)) = n + 1 - k
          <5>1. \A j \in 1..n + 1 - k : st[k + j - 1] \in Nat
            BY <1>2, <4>6
          <5> QED
            BY <4>4, <5>1, IsASeq
        <4>9. /\ <<st[k]>> \o R(k + 1) \in Seq(Nat)
              /\ Len(<<st[k]>> \o R(k + 1)) = n + 1 - k
              /\ (<<st[k]>> \o R(k + 1))[1] = st[k]
              /\ \A j \in 1..n + 1 - (k + 1) : (<<st[k]>> \o R(k + 1))[1 + j] = R(k + 1)[j]
          <5> HIDE DEF R
          <5>1. 1 \in 1..1
            OBVIOUS
          <5> QED
            BY <4>3, <4>4, <4>7, <5>1, CatIs
        <4>10. ASSUME NEW j \in 1..n + 1 - k PROVE (<<st[k]>> \o R(k + 1))[j] = R(k)[j]
          <5>1. CASE j = 1
            <6>1. R(k)[1] = st[k + 1 - 1] /\ k + 1 - 1 = k
              BY <1>2, <4>4
            <6> HIDE DEF R
            <6> QED
              BY <4>9, <5>1, <6>1
          <5>2. CASE j # 1
            <6>1. j - 1 \in 1..n + 1 - (k + 1) /\ 1 + (j - 1) = j /\ (k + 1) + (j - 1) - 1 = k + j - 1
              BY <1>2, <3>2, <5>2
            <6>2. R(k + 1)[j - 1] = st[k + j - 1] /\ R(k)[j] = st[k + j - 1]
              BY <6>1
            <6> HIDE DEF R
            <6> QED
              BY <4>9, <6>1, <6>2
          <5> QED
            BY <5>1, <5>2
        <4>11. <<st[k]>> \o R(k + 1) = R(k)
          <5> HIDE DEF R
          <5> QED
            BY <4>8, <4>9, <4>10, SeqEqual
        <4> QED
          BY <4>2, <4>11
      <3> QED
        BY <1>2, <3>1, <3>2
    <2>2. n + 1 \in Nat
      BY <1>2
    <2> HIDE DEF D
    <2>3. \A k \in 1..n + 1 : k \in D
      BY <2>1, <2>2, Downward, Zenon
    <2> QED
      BY <2>3 DEF D
  <1>10. argz_extract = from[1]
    BY DEF argz_extract, from, Body
  <1>11. 1 \in 1..n + 1 /\ st[1] = 1 /\ n + 1 - 1 = n /\ \A j \in 1..n : 1 + j - 1 = j
    BY <1>2 DEF VectorOf
  <1>12. R(1) = [k \in 1..n |-> st[k]]
    BY <1>11
  <1> QED
    BY <1>9, <1>10, <1>11, <1>12 DEF n
LEMMA QueriesFind ==
    ASSUME NEW s, Holds(s, Block)
    PROVE  QueriesFindAll
  <1> DEFINE b == Block
             n == Len(s)
             places == argz_extract
  <1>1. PICK st : VectorOf(s, b, st)
    BY DEF Holds, IsVector
  <1>2. argz_count = n /\ places = [k \in 1..n |-> st[k]] /\ Strings(b) = s
    BY <1>1, CountIs, ExtractIs, StringsAre DEF Holds
  <1>3. /\ s \in Seq(Seq(Letters)) /\ n \in Nat /\ Len(b) \in Nat /\ st[1] = 1
        /\ \A k \in 1..n + 1 : st[k] \in 1..Len(b) + 1
        /\ \A x, y \in 1..n + 1 : x < y => st[x] < st[y]
        /\ st[n + 1] = Len(b) + 1
    <2> HIDE DEF b, places
    <2>1. s \in Seq(Seq(Letters)) /\ st[1] = 1 /\ st[n + 1] = Len(b) + 1
      BY <1>1 DEF VectorOf
    <2>2. /\ n \in Nat /\ Len(b) \in Nat /\ \A k \in 1..n + 1 : st[k] \in 1..Len(b) + 1
          /\ \A x, y \in 1..n + 1 : x < y => st[x] < st[y]
      BY <1>1, StartsRise
    <2> QED
      BY <2>1, <2>2, Zenon
  <1>4. len = Len(b) /\ (len > 0 => argz = b)
    BY DEF Holds
  <1>5. \A k \in 1..n : st[k] \in 1..Len(b) /\ NulFrom(b, st[k]) + 1 = st[k + 1]
    BY <1>1, NextStarts
  <1>6. \A k \in 1..n : SubSeq(b, st[k], st[k + 1] - 2) = s[k]
    BY <1>1, StringAt
  <1>7. DOMAIN places = 1..n /\ \A k \in 1..n : places[k] = st[k]
    BY <1>2
  <1>8. /\ n > 0 => len > 0
        /\ \A k \in 1..n : k + 1 \in 1..n + 1 /\ (k < n => k + 1 \in 1..n)
    BY <1>3, <1>4, <1>5
  <1> HIDE DEF b, n, places
  <1>9. ASSUME NEW i \in DOMAIN places
        PROVE  /\ SubSeq(argz, places[i], NulFrom(argz, places[i]) - 1) = s[i]
               /\ argz_next(places[i]) = IF i = n THEN 0 ELSE places[i + 1]
    <2>1. i \in 1..n /\ places[i] = st[i] /\ argz = b
      BY <1>3, <1>4, <1>7, <1>8
    <2>2. i + 1 \in 1..n + 1 /\ st[i] \in 1..len /\ st[i + 1] \in 1..len + 1
      BY <1>3, <1>4, <1>5, <1>8, <2>1
    <2>3. NulFrom(argz, st[i]) + 1 = st[i + 1]
      BY <1>5, <2>1
    <2>4. NulFrom(argz, st[i]) \in Int
      <3>1. PICK k \in 1..n : NulFrom(b, st[i]) = st[k + 1] - 1
        <4>1. st[i] <= st[i] /\ st[i] < st[i + 1] /\ st[i] \in 1..Len(b)
          BY <1>3, <1>5, <1>8, <2>1
        <4> QED
          BY <1>1, <2>1, <4>1, NulFromIs DEF n
      <3>2. st[k + 1] \in Int
        BY <1>3, <1>8
      <3> QED
        BY <2>1, <3>1, <3>2
    <2>5. NulFrom(argz, st[i]) - 1 = st[i + 1] - 2
      BY <2>2, <2>3, <2>4
    <2>6. SubSeq(argz, places[i], NulFrom(argz, places[i]) - 1) = s[i]
      BY <1>6, <2>1, <2>5
    <2>7. argz_next(places[i]) = IF st[i + 1] > len THEN 0 ELSE st[i + 1]
      <3>1. places[i] # 0 /\ places[i] <= len
        BY <1>3, <1>4, <2>1, <2>2
      <3> QED
        BY <2>1, <2>3, <3>1 DEF argz_next
    <2>8. st[i + 1] > len <=> i = n
      <3>1. CASE i = n
        BY <1>3, <1>4, <3>1
      <3>2. CASE i # n
        <4>1. i + 1 \in 1..n
          BY <1>3, <2>1, <3>2
        <4>2. st[i + 1] \in 1..len
          BY <1>4, <1>5, <4>1
        <4> QED
          BY <1>3, <1>4, <3>2, <4>2
      <3> QED
        BY <3>1, <3>2
    <2>9. i # n => places[i + 1] = st[i + 1]
      BY <1>3, <1>7, <2>1
    <2> QED
      BY <2>6, <2>7, <2>8, <2>9
  <1>10. [i \in DOMAIN places |-> SubSeq(argz, places[i], NulFrom(argz, places[i]) - 1)] = s
    <2>1. s = [i \in 1..n |-> s[i]]
      BY <1>3, LenProperties DEF n
    <2> QED
      BY <1>7, <1>9, <2>1
  <1>11. places # <<>> => argz_next(0) = places[1]
    <2>1. places # <<>> => n > 0
      <3>1. n = 0 => places = <<>>
        <4>1. n = 0 => 1..n = {}
          OBVIOUS
        <4>2. n = 0 => places = [k \in {} |-> st[k]]
          BY <1>2, <4>1
        <4> QED
          BY <4>2
      <3> QED
        BY <1>3, <3>1
    <2>2. n > 0 => places[1] = 1 /\ argz_next(0) = 1
      BY <1>3, <1>7, <1>8 DEF argz_next
    <2> QED
      BY <2>1, <2>2
  <1>12. Len(places) = n
    BY <1>2, <1>3
  <1> QED
    BY <1>2, <1>9, <1>10, <1>11, <1>12 DEF QueriesFindAll, b, n, places
-----------------------------------------------------------------------------
(* The reference finds the entry that a place is in, and so does the code. *)

LEMMA EntryIndexIs ==
    ASSUME NEW s, NEW b, NEW st, VectorOf(s, b, st), NEW k \in 1..Len(s), NEW p \in 1..Len(b),
           st[k] <= p, p < st[k + 1]
    PROVE  EntryIndex(b, p) = k
  <1> DEFINE n == Len(s)
             E == [j \in 1..n |-> st[j + 1] - 1]
             T == {q \in 1..p - 1 : b[q] = NUL}
  <1>1. /\ n \in Nat /\ Len(b) \in Nat /\ \A x \in 1..n + 1 : st[x] \in 1..Len(b) + 1
        /\ \A x, y \in 1..n + 1 : x < y => st[x] < st[y]
    BY StartsRise
  <1>2. /\ \A j \in 1..n : st[j + 1] - 1 \in 1..Len(b) /\ b[st[j + 1] - 1] = NUL
        /\ \A q \in 1..Len(b) : b[q] = NUL => \E j \in 1..n : q = st[j + 1] - 1
    BY NulPlaces
  <1> HIDE DEF n
  <1>3. \A j \in 1..n : E[j] = st[j + 1] - 1 /\ j + 1 \in 1..n + 1 /\ st[j + 1] \in Nat
    BY <1>1
  <1>4. k \in 1..n /\ k \in 1..n + 1
    BY <1>1 DEF n
  <1> HIDE DEF E
  <1>5. T = {E[j] : j \in 1..k - 1}
    <2>1. ASSUME NEW q \in T PROVE \E j \in 1..k - 1 : q = E[j]
      <3>1. q \in 1..Len(b) /\ q < p /\ b[q] = NUL
        BY <1>1
      <3>2. PICK j \in 1..n : q = st[j + 1] - 1
        BY <1>2, <3>1
      <3>3. j < k
        <4> SUFFICES ASSUME j >= k PROVE FALSE
          BY <1>1, <1>4
        <4>1. st[k + 1] <= st[j + 1]
          <5>1. k + 1 \in 1..n + 1 /\ j + 1 \in 1..n + 1 /\ (k = j \/ k + 1 < j + 1)
            BY <1>1, <1>4
          <5>2. k = j \/ st[k + 1] < st[j + 1]
            BY <1>1, <5>1
          <5> QED
            BY <1>3, <1>4, <5>2
        <4>2. st[k + 1] \in Nat /\ st[j + 1] \in Nat /\ p \in Nat
          BY <1>1, <1>3, <1>4
        <4> QED
          BY <3>1, <3>2, <4>1, <4>2
      <3>4. j \in 1..k - 1 /\ E[j] = q
        BY <1>1, <1>3, <1>4, <3>2, <3>3
      <3> QED
        BY <3>4
    <2>2. ASSUME NEW j \in 1..k - 1 PROVE E[j] \in T
      <3>1. j \in 1..n /\ j + 1 \in 1..n + 1 /\ (j + 1 = k \/ j + 1 < k)
        BY <1>1, <1>4
      <3>2. j + 1 = k \/ st[j + 1] < st[k]
        BY <1>1, <1>4, <3>1
      <3>3. E[j] = st[j + 1] - 1 /\ st[j + 1] \in Nat /\ st[k] \in Nat
        BY <1>1, <1>3, <1>4, <3>1
      <3>4. E[j] \in 1..Len(b) /\ b[E[j]] = NUL
        BY <1>2, <3>1, <3>3
      <3>5. E[j] < p
        BY <3>2, <3>3
      <3> QED
        BY <1>1, <3>4, <3>5
    <2> HIDE DEF T
    <2>3. T \subseteq {E[j] : j \in 1..k - 1}
      BY <2>1
    <2> QED
      BY <2>2, <2>3
  <1>6. Cardinality({E[j] : j \in 1..k - 1}) = k - 1
    <2>1. ASSUME NEW j \in 1..k - 1 PROVE j \in 1..n /\ E[j] \in Nat
      <3>1. j \in 1..n
        BY <1>1, <1>4
      <3>2. st[j + 1] - 1 \in Nat
        BY <1>1, <1>2, <3>1
      <3> QED
        BY <1>3, <3>1, <3>2
    <2>2. \A i, j \in 1..k - 1 : i < j => E[i] < E[j]
      <3> TAKE i, j \in 1..k - 1
      <3> HAVE i < j
      <3>1. i + 1 \in 1..n + 1 /\ j + 1 \in 1..n + 1 /\ i + 1 < j + 1
        BY <1>1, <1>4
      <3>2. st[i + 1] < st[j + 1] /\ st[i + 1] \in Nat /\ st[j + 1] \in Nat
        BY <1>1, <3>1
      <3>3. E[i] = st[i + 1] - 1 /\ E[j] = st[j + 1] - 1
        BY <1>3, <2>1
      <3> QED
        BY <3>2, <3>3
    <2> DEFINE hi == k - 1
    <2>3. 1 \in Int /\ hi \in Int /\ 1 <= hi + 1 /\ hi + 1 - 1 = k - 1
      BY <1>1, <1>4
    <2>4. /\ \A j \in 1..hi : E[j] \in Nat
          /\ \A i, j \in 1..hi : i < j => E[i] < E[j]
      BY <2>1, <2>2
    <2> HIDE DEF hi
    <2>5. Cardinality({E[j] : j \in 1..hi}) = hi + 1 - 1
      BY ONLY <2>3, <2>4, RisingImage
    <2> QED
      BY <2>3, <2>5 DEF hi
  <1> HIDE DEF T
  <1>7. 1 + Cardinality(T) = k
    BY <1>1, <1>4, <1>5, <1>6
  <1> QED
    BY <1>7 DEF EntryIndex, T

LEMMA EntryOfIs ==
    ASSUME NEW s, NEW st, VectorOf(s, argz, st), NEW k \in 1..Len(s), NEW before \in 1..Len(argz),
           st[k] <= before, before < st[k + 1]
    PROVE  EntryOf(before) = st[k]
  <1> DEFINE Body(f) == [p \in 1..before |->
                            IF p = 1 \/ argz[p - 1] = NUL THEN p ELSE f[p - 1]]
             back == CHOOSE f : f = Body(f)
             F == [p \in 0..before - 1 |->
                      [x \in Nat |-> IF p + 1 = 1 \/ argz[p] = NUL THEN p + 1 ELSE x]]
             n == Len(s)
  <1>1. /\ n \in Nat /\ Len(argz) \in Nat /\ \A x \in 1..n + 1 : st[x] \in 1..Len(argz) + 1
    BY StartsRise
  <1>2. /\ \A j \in 1..n : st[j + 1] - 1 \in 1..Len(argz) /\ argz[st[j + 1] - 1] = NUL
        /\ \A j \in 1..n, p \in 1..Len(argz) : st[j] <= p /\ p < st[j + 1] - 1 => argz[p] # NUL
        /\ st[1] = 1
    <2>1. st[1] = 1
      BY DEF VectorOf
    <2> QED
      BY <2>1, NulPlaces
  <1>3. k \in 1..n + 1 /\ k + 1 \in 1..n + 1 /\ before \in Nat /\ before >= 1
    BY <1>1
  <1>4. \E f : f = Body(f)
    <2>1. F \in [0..before - 1 -> [Nat -> Nat]] /\ 0 \in Nat
      BY <1>3
    <2> HIDE DEF F
    <2>2. PICK g \in [0..before -> Nat] : Steps(g, F, before, 0)
      BY <1>3, <2>1, StepsExist
    <2> DEFINE f == [p \in 1..before |-> g[p]]
    <2>3. ASSUME NEW p \in 1..before
          PROVE  g[p] = IF p = 1 \/ argz[p - 1] = NUL THEN p ELSE f[p - 1]
      <3>1. p - 1 \in 0..before - 1 /\ (p - 1) + 1 = p
        BY <1>3
      <3>2. g[p] = F[p - 1][g[p - 1]]
        BY <2>2, <3>1 DEF Steps
      <3>3. p - 1 \in 0..before /\ g[p - 1] \in Nat
        BY <2>2, <3>1
      <3>4. g[p] = IF p = 1 \/ argz[p - 1] = NUL THEN p ELSE g[p - 1]
        BY <3>1, <3>2, <3>3 DEF F
      <3>5. p # 1 => f[p - 1] = g[p - 1]
        BY <1>3
      <3> HIDE DEF f
      <3> QED
        BY <3>4, <3>5
    <2>4. f = Body(f)
      BY <2>3
    <2> QED
      BY <2>4
  <1>5. back = Body(back)
    BY <1>4
  <1> HIDE DEF back
  <1>6. \A p \in 1..before : back[p] = IF p = 1 \/ argz[p - 1] = NUL THEN p ELSE back[p - 1]
    BY <1>5
  <1> DEFINE x == st[k]
             y == st[k + 1]
             D == {i \in 0..before - x : back[x + i] = x}
  <1>7. /\ x \in Nat /\ y \in Nat /\ x >= 1 /\ x <= before /\ before < y /\ y <= Len(argz) + 1
    BY <1>1, <1>3
  <1>8. 0 \in D
    <2>1. x = 1 \/ argz[x - 1] = NUL
      <3>1. CASE k = 1
        BY <1>2, <3>1
      <3>2. CASE k # 1
        <4>1. k - 1 \in 1..n /\ (k - 1) + 1 = k
          BY <1>1, <1>3, <3>2
        <4> QED
          BY <1>2, <4>1
      <3> QED
        BY <3>1, <3>2
    <2> HIDE DEF x, y
    <2>2. x \in 1..before /\ 0 \in 0..before - x /\ x + 0 = x
      BY <1>3, <1>7
    <2> QED
      BY <1>6, <2>1, <2>2
  <1>9. \A i \in 0..(before - x) - 1 : i \in D => i + 1 \in D
    <2> TAKE i \in 0..(before - x) - 1
    <2> HAVE i \in D
    <2>1. /\ x + i \in 1..Len(argz) /\ x <= x + i /\ x + i < y - 1
          /\ x + (i + 1) \in 1..before /\ (x + (i + 1)) - 1 = x + i /\ x + (i + 1) # 1
          /\ i + 1 \in 0..before - x
      <3> HIDE DEF x, y
      <3> QED
        BY <1>1, <1>3, <1>7
    <2>2. argz[x + i] # NUL
      <3>1. k \in 1..n
        OBVIOUS
      <3> QED
        BY <1>2, <2>1, <3>1
    <2> HIDE DEF x, y
    <2>3. back[x + (i + 1)] = back[x + i]
      BY <1>6, <2>1, <2>2
    <2> QED
      BY <2>1, <2>3
  <1>10. before - x \in 0..before - x /\ before - x \in Nat /\ x + (before - x) = before
    <2> HIDE DEF x, y
    <2> QED
      BY <1>3, <1>7
  <1>11. \A i \in 0..before - x : i \in D
    <2> HIDE DEF D, x, y
    <2> QED
      BY <1>8, <1>9, <1>10, Upward, Zenon
  <1>12. back[before] = x
    <2> HIDE DEF x, y
    <2> QED
      BY <1>10, <1>11
  <1> QED
    BY <1>12 DEF EntryOf, back, Body

-----------------------------------------------------------------------------
(* The calls                                                               *)

(* A program that may go on holds the strings s in block.                  *)
HeldIn(s, block, length) ==
    /\ block # Wild
    /\ IsVector(s, IF block = Null THEN <<>> ELSE block)
    /\ length = Len(IF block = Null THEN <<>> ELSE block)
    /\ block = Null <=> length = 0

(* What a call of a program that holds s may come to: what it is for, an   *)
(* error that changes nothing or loses the vector, or a spoilt block.      *)
Spoilt == argz' = Wild /\ call'.op = "insert" /\ InFirst(call'.at)

Outcome(s) ==
    \/ Spoilt
    \/ IF err' = "0" THEN \E t : t = Meaning(call', s) /\ HeldIn(t, argz', len')
       ELSE \/ UNCHANGED <<argz, len>>
            \/ call'.op \in {"create", "create_sep", "add_sep"} /\ argz' = Null

LEMMA MeaningIs ==
    ASSUME NEW s, NEW at, NEW text, NEW with
    PROVE  /\ Meaning(Call("add", at, text, with), s) = Append(s, text)
           /\ Meaning(Call("create", at, text, with), s) = with
           /\ Meaning(Call("create_sep", at, text, with), s) = Words(text)
           /\ Meaning(Call("add_sep", at, text, with), s) = s \o Words(text)
           /\ Meaning(Call("delete", at, text, with), s) = RemoveAt(s, EntryIndex(argz, at))
           /\ Meaning(Call("insert", at, text, with), s) =
                IF at = 0 THEN Append(s, text) ELSE InsertAt(s, EntryIndex(argz, at), text)
           /\ Meaning(Call("stringify", at, text, with), s) =
                IF s = <<>> THEN <<>> ELSE <<Joined(s)>>
           /\ Meaning(Call("replace", at, text, with), s) =
                IF text = <<>> THEN s ELSE [i \in DOMAIN s |-> Substitute(s[i], text, with)]
           /\ Meaning(Call("drop", at, text, with), s) = <<>>
           /\ Meaning(NoCall, s) = s
  BY DEF Meaning, Call, NoCall

(* A call has returned the vector d of the strings t.                      *)
LEMMA Held ==
    ASSUME NEW t, NEW d, IsVector(t, d), NEW block, NEW length,
           block = IF d = <<>> THEN Null ELSE d, length = Len(d)
    PROVE  HeldIn(t, block, length)
  <1>1. d \in Seq(Chars) /\ Len(d) \in Nat
    BY VectorFacts
  <1>2. d # Null /\ d # Wild /\ Null # Wild
    BY <1>1, NullIsNoBlock DEF Chars, NUL
  <1>3. d = <<>> <=> Len(d) = 0
    BY <1>1, EmptySeq
  <1>4. (IF block = Null THEN <<>> ELSE block) = d
    BY <1>2
  <1> QED
    BY <1>2, <1>3, <1>4 DEF HeldIn

LEMMA HeldFacts ==
    ASSUME NEW s, HeldIn(s, argz, len)
    PROVE  /\ Holds(s, Block) /\ IsVector(s, Block) /\ len = Len(Block) /\ len \in Nat
           /\ argz = IF Block = <<>> THEN Null ELSE Block
           /\ len > 0 => argz = Block /\ argz # Null
           /\ s \in Seq(Seq(Letters)) /\ Block \in Seq(Chars)
           /\ s = <<>> <=> Block = <<>>
           /\ Block = <<>> <=> len = 0
           /\ argz # Wild
  <1>0. argz # Wild /\ Block = (IF argz = Null THEN <<>> ELSE argz)
    BY DEF HeldIn, Block
  <1>1. IsVector(s, Block) /\ len = Len(Block) /\ (argz = Null <=> len = 0)
    BY <1>0 DEF HeldIn
  <1>2. s \in Seq(Seq(Letters)) /\ Block \in Seq(Chars) /\ (Block = <<>> <=> s = <<>>) /\ len \in Nat
    BY <1>1, VectorFacts
  <1>3. Block = <<>> <=> len = 0
    BY <1>1, <1>2, EmptySeq
  <1>4. len > 0 => argz = Block /\ argz # Null
    BY <1>0, <1>1, <1>2
  <1>5. len = 0 => argz = Null
    BY <1>1
  <1>6. argz = IF Block = <<>> THEN Null ELSE Block
    BY <1>0, <1>1, <1>3, <1>5
  <1> QED
    BY <1>0, <1>1, <1>2, <1>3, <1>4, <1>6 DEF Holds
LEMMA OneMore ==
    ASSUME NEW S, NEW a \in Seq(S), NEW k \in 0..Len(a) - 1
    PROVE  SubSeq(a, 1, k + 1) = SubSeq(a, 1, k) \o <<a[k + 1]>>
  <1> DEFINE u == SubSeq(a, 1, k + 1)
             v == SubSeq(a, 1, k)
             e == <<a[k + 1]>>
             n == k + 1
  <1>1. Len(a) \in Nat /\ k \in Nat /\ k + 1 \in 1..Len(a) /\ 1 \in Int /\ n \in Int /\ n <= Len(a)
    BY LenProperties
  <1>2. a[k + 1] \in S
    BY <1>1, ElementOfSeq
  <1>3. u \in Seq(S) /\ Len(u) = k + 1 /\ \A i \in 1..k + 1 : u[i] = a[i]
    <2>1. /\ SubSeq(a, 1, n) \in Seq(S)
          /\ Len(SubSeq(a, 1, n)) = IF 1 <= n THEN n - 1 + 1 ELSE 0
          /\ \A i \in 1..n - 1 + 1 : SubSeq(a, 1, n)[i] = a[1 + i - 1]
      <3> HIDE DEF n
      <3> QED
        BY <1>1, PartIs
    <2> QED
      BY <1>1, <2>1
  <1>4. v \in Seq(S) /\ Len(v) = k /\ \A i \in 1..k : v[i] = a[i]
    <2>1. /\ SubSeq(a, 1, k) \in Seq(S)
          /\ Len(SubSeq(a, 1, k)) = IF 1 <= k THEN k - 1 + 1 ELSE 0
          /\ \A i \in 1..k - 1 + 1 : SubSeq(a, 1, k)[i] = a[1 + i - 1]
      BY <1>1, PartIs
    <2> QED
      BY <1>1, <2>1
  <1>5. e \in Seq(S) /\ Len(e) = 1 /\ e[1] = a[k + 1]
    BY <1>2
  <1> HIDE DEF u, v, e, n
  <1>6. /\ v \o e \in Seq(S) /\ Len(v \o e) = Len(v) + Len(e)
        /\ \A i \in 1..Len(v) : (v \o e)[i] = v[i]
        /\ \A i \in 1..Len(e) : (v \o e)[Len(v) + i] = e[i]
    <2>1. v \in Seq(S) /\ e \in Seq(S)
      BY <1>4, <1>5
    <2> QED
      BY ONLY <2>1, CatIs
  <1>7. \A i \in 1..k + 1 : (v \o e)[i] = u[i]
    <2> TAKE i \in 1..k + 1
    <2>1. CASE i \in 1..k
      BY <1>3, <1>4, <1>6, <2>1
    <2>2. CASE i = k + 1
      <3>1. (v \o e)[k + 1] = e[1]
        BY <1>4, <1>5, <1>6
      <3> QED
        BY <1>1, <1>3, <1>5, <2>2, <3>1
    <2>3. i \in 1..k \/ i = k + 1
      BY <1>1
    <2> QED
      BY <2>1, <2>2, <2>3, Zenon
  <1>8. u = v \o e
    BY <1>3, <1>4, <1>5, <1>6, <1>7, SeqEqual
  <1> QED
    BY <1>8 DEF u, v, e

LEMMA Ends ==
    ASSUME NEW S, NEW a \in Seq(S)
    PROVE  SubSeq(a, 1, Len(a)) = a /\ SubSeq(a, 1, 0) = <<>> /\ SubSeq(a, Len(a) + 1, Len(a)) = <<>>
  <1> DEFINE l == Len(a)
             o == l + 1
  <1>1. l \in Nat /\ o \in Nat
    BY LenProperties
  <1>2. /\ SubSeq(a, 1, l) \in Seq(S) /\ Len(SubSeq(a, 1, l)) = l
        /\ \A i \in 1..l : SubSeq(a, 1, l)[i] = a[i]
    <2>1. 1 \in Int /\ l \in Int /\ l <= Len(a) /\ (l = IF 1 <= l THEN l - 1 + 1 ELSE 0) /\ l - 1 + 1 = l
      BY <1>1
    <2>2. \A i \in 1..l : 1 + i - 1 = i
      BY <1>1
    <2> HIDE DEF l
    <2> QED
      BY <2>1, <2>2, PartIs
  <1>3. SubSeq(a, 1, 0) \in Seq(S) /\ Len(SubSeq(a, 1, 0)) = 0
    BY <1>1, PartIs
  <1>4. SubSeq(a, o, l) \in Seq(S) /\ Len(SubSeq(a, o, l)) = 0
    <2>1. o \in Int /\ l \in Int /\ l <= Len(a) /\ 1 <= o /\ ~(o <= l)
      BY <1>1
    <2> HIDE DEF o, l
    <2> QED
      BY <2>1, PartIs
  <1>5. SubSeq(a, 1, l) = a
    <2> DEFINE v == SubSeq(a, 1, l)
    <2>1. v \in Seq(S) /\ Len(v) = Len(a) /\ \A i \in 1..Len(v) : v[i] = a[i]
      BY <1>2
    <2> HIDE DEF v
    <2>2. v = a
      BY <2>1, SeqEqual
    <2> QED
      BY <2>2 DEF v
  <1>6. SubSeq(a, 1, 0) = <<>>
    BY <1>3, EmptySeq
  <1>7. SubSeq(a, o, l) = <<>>
    <2> DEFINE v == SubSeq(a, o, l)
    <2>1. v \in Seq(S) /\ Len(v) = 0
      BY <1>4
    <2> HIDE DEF v
    <2>2. v = <<>>
      BY <2>1, EmptySeq
    <2> QED
      BY <2>2 DEF v
  <1> QED
    BY <1>5, <1>6, <1>7

(* Strings put one behind the other, each with its NUL, are a vector.      *)
LEMMA BuiltVector ==
    ASSUME NEW s \in Seq(Seq(Letters)), NEW p,
           p[0] = <<>>, \A k \in 0..Len(s) - 1 : p[k + 1] = p[k] \o CString(s[k + 1])
    PROVE  IsVector(s, p[Len(s)])
  <1> DEFINE m == Len(s)
             D == {k \in 0..m : IsVector(SubSeq(s, 1, k), p[k])}
  <1>1. m \in Nat /\ \A k \in 1..m : s[k] \in Seq(Letters)
    BY StringFacts
  <1>2. 0 \in D
    <2>1. 0 \in 0..m /\ SubSeq(s, 1, 0) = <<>>
      BY <1>1, Ends
    <2>2. IsVector(SubSeq(s, 1, 0), p[0])
      BY <2>1, EmptyVector
    <2> QED
      BY <2>1, <2>2
  <1>3. \A k \in 0..m - 1 : k \in D => k + 1 \in D
    <2> TAKE k \in 0..m - 1
    <2> HAVE k \in D
    <2>1. k + 1 \in 1..m /\ k + 1 \in 0..m
      BY <1>1
    <2>2. IsVector(<<s[k + 1]>>, CString(s[k + 1]))
      BY <1>1, <2>1, OneVector
    <2>3. IsVector(SubSeq(s, 1, k) \o <<s[k + 1]>>, p[k] \o CString(s[k + 1]))
      BY <2>2, CatVector
    <2>4. SubSeq(s, 1, k + 1) = SubSeq(s, 1, k) \o <<s[k + 1]>>
      BY OneMore
    <2> QED
      BY <2>1, <2>3, <2>4
  <1> HIDE DEF D
  <1>4. \A k \in 0..m : k \in D
    <2> HIDE DEF m
    <2> QED
      BY <1>1, <1>2, <1>3, Upward, Zenon
  <1>5. m \in D /\ SubSeq(s, 1, m) = s
    BY <1>1, <1>4, Ends
  <1> QED
    BY <1>5 DEF D

LEMMA GivenTexts ==
    /\ \A text \in Texts : text \in Seq(Letters)
    /\ \A argv \in UNION {[1..n -> Texts] : n \in 0..MaxStrings} : argv \in Seq(Seq(Letters))
  <1>1. ASSUME NEW text \in Texts PROVE text \in Seq(Letters)
    <2>1. PICK n \in 0..MaxText : text \in [1..n -> Letters]
      BY DEF Texts
    <2>2. n \in Nat /\ text = [i \in 1..n |-> text[i]] /\ \A i \in 1..n : text[i] \in Letters
      BY <2>1, BoundsAreNumbers
    <2> QED
      BY <2>2, IsASeq
  <1>2. ASSUME NEW argv \in UNION {[1..n -> Texts] : n \in 0..MaxStrings} PROVE argv \in Seq(Seq(Letters))
    <2>1. PICK n \in 0..MaxStrings : argv \in [1..n -> Texts]
      OBVIOUS
    <2>2. /\ n \in Nat /\ argv = [i \in 1..n |-> argv[i]]
          /\ \A i \in 1..n : argv[i] \in Seq(Letters)
      BY <1>1, <2>1, BoundsAreNumbers
    <2> QED
      BY <2>2, IsASeq
  <1> QED
    BY <1>1, <1>2

(* What is appended to the block is appended to the strings.               *)
LEMMA AppendedHeld ==
    ASSUME NEW s, HeldIn(s, argz, len), NEW text \in Seq(Letters),
           Appended(CString(text)), Meaning(call', s) = Append(s, text)
    PROVE  Outcome(s)
  <1> DEFINE d == Block \o CString(text)
  <1>1. IsVector(s, Block) /\ s \in Seq(Seq(Letters)) /\ len = Len(Block) /\ Block \in Seq(Chars)
    BY HeldFacts
  <1>2. CString(text) \in Seq(Chars) /\ Len(CString(text)) = Len(text) + 1 /\ Len(text) \in Nat
    BY WordFacts
  <1>3. IsVector(Append(s, text), d)
    <2>1. Append(s, text) = s \o <<text>>
      BY <1>1, AppendIsConcat
    <2> QED
      BY <1>1, <2>1, OneVector, CatVector
  <1>4. Len(d) = len + Len(CString(text)) /\ d # <<>>
    <2>1. Len(d) = len + Len(CString(text)) /\ Len(Block) \in Nat
      BY <1>1, <1>2, CatIs
    <2>2. Len(d) # 0
      BY <1>1, <1>2, <2>1
    <2> QED
      BY <2>1, <2>2, EmptySeq
  <1>5. CASE Returns(d, len + Len(CString(text)), "0")
    <2>1. argz' = d /\ len' = Len(d) /\ err' = "0"
      BY <1>4, <1>5 DEF Returns
    <2> HIDE DEF d
    <2>2. HeldIn(Append(s, text), argz', len')
      BY <1>3, <1>4, <2>1, Held
    <2> QED
      BY <2>1, <2>2 DEF Outcome
  <1>6. CASE Returns(argz, len, "ENOMEM")
    BY <1>6 DEF Returns, Outcome
  <1> QED
    BY <1>5, <1>6 DEF Appended

LEMMA AddHeld ==
    ASSUME NEW s, HeldIn(s, argz, len), NEW text \in Seq(Letters), argz_add(text)
    PROVE  Outcome(s)
  <1>1. Meaning(call', s) = Append(s, text)
    BY MeaningIs DEF argz_add
  <1> QED
    BY <1>1, AppendedHeld DEF argz_add

LEMMA CreateHeld ==
    ASSUME NEW s, HeldIn(s, argz, len), NEW argv \in Seq(Seq(Letters)), argz_create(argv)
    PROVE  Outcome(s)
  <1> DEFINE m == Len(argv)
             Body(f) == [k \in 0..m |-> IF k = 0 THEN <<>> ELSE f[k - 1] \o CString(argv[k])]
             p == CHOOSE f : f = Body(f)
             F == [k \in 0..m - 1 |-> [x \in Seq(Chars) |-> x \o CString(argv[k + 1])]]
             block == p[m]
  <1>1. m \in Nat /\ \A k \in 1..m : argv[k] \in Seq(Letters) /\ CString(argv[k]) \in Seq(Chars)
    BY StringFacts, WordFacts
  <1>2. \E f : f = Body(f)
    <2>1. F \in [0..m - 1 -> [Seq(Chars) -> Seq(Chars)]] /\ <<>> \in Seq(Chars)
      <3>1. \A k \in 0..m - 1 : k + 1 \in 1..m
        BY <1>1
      <3>2. \A k \in 0..m - 1 : \A x \in Seq(Chars) : x \o CString(argv[k + 1]) \in Seq(Chars)
        BY <1>1, <3>1, ConcatProperties
      <3> QED
        BY <3>2, EmptySeq
    <2> HIDE DEF F, m
    <2>2. PICK f \in [0..m -> Seq(Chars)] : Steps(f, F, m, <<>>)
      BY <1>1, <2>1, StepsExist
    <2>3. ASSUME NEW k \in 1..m PROVE f[k] = f[k - 1] \o CString(argv[k])
      <3>1. k - 1 \in 0..m - 1 /\ (k - 1) + 1 = k /\ k - 1 \in 0..m
        BY <1>1
      <3>2. f[k] = F[k - 1][f[k - 1]] /\ f[k - 1] \in Seq(Chars)
        BY <2>2, <3>1 DEF Steps
      <3> QED
        BY <3>1, <3>2 DEF F
    <2>4. f[0] = <<>> /\ \A k \in 0..m : k # 0 => k \in 1..m
      BY <2>2 DEF Steps
    <2>5. f = Body(f)
      BY <2>3, <2>4
    <2> QED
      BY <2>5
  <1>3. p = Body(p)
    BY <1>2
  <1> HIDE DEF p
  <1>4. p[0] = <<>> /\ \A k \in 0..m - 1 : p[k + 1] = p[k] \o CString(argv[k + 1])
    <2>1. 0 \in 0..m /\ \A k \in 0..m - 1 : k + 1 \in 0..m /\ k + 1 # 0 /\ (k + 1) - 1 = k
      BY <1>1
    <2>2. \A k \in 0..m : p[k] = IF k = 0 THEN <<>> ELSE p[k - 1] \o CString(argv[k])
      BY <1>3
    <2> HIDE DEF m
    <2> QED
      BY <2>1, <2>2
  <1>5. IsVector(argv, block)
    BY <1>4, BuiltVector
  <1>6. /\ argz = Null
        /\ call' = Call("create", 0, <<>>, argv)
        /\ \/ Returns(IF block = <<>> THEN Null ELSE block, Len(block), "0")
           \/ block # <<>> /\ Returns(Null, len, "ENOMEM")
    BY DEF argz_create, p, Body
  <1>7. Meaning(call', s) = argv /\ call'.op = "create"
    <2>1. Meaning(Call("create", 0, <<>>, argv), s) = argv
      BY MeaningIs
    <2>2. Call("create", 0, <<>>, argv).op = "create"
      BY DEF Call
    <2> QED
      BY <1>6, <2>1, <2>2, Zenon
  <1> HIDE DEF block, m, Body
  <1>8. CASE Returns(IF block = <<>> THEN Null ELSE block, Len(block), "0")
    <2>1. HeldIn(argv, argz', len') /\ err' = "0"
      BY <1>5, <1>8, Held DEF Returns
    <2> QED
      BY <1>7, <2>1 DEF Outcome
  <1>9. CASE Returns(Null, len, "ENOMEM")
    BY <1>7, <1>9 DEF Returns, Outcome
  <1> QED
    BY <1>6, <1>8, <1>9
(* A vector falls apart into two where a string begins.                    *)
LEMMA Around ==
    ASSUME NEW s, NEW b, NEW st, VectorOf(s, b, st), NEW i \in 1..Len(s) + 1
    PROVE  \E left, right :
             /\ left = SubSeq(b, 1, st[i] - 1) /\ right = SubSeq(b, st[i], Len(b))
             /\ IsVector(SubSeq(s, 1, i - 1), left) /\ Len(left) = st[i] - 1
             /\ IsVector(SubSeq(s, i, Len(s)), right) /\ Len(right) = Len(b) + 1 - st[i]
  <1> DEFINE n == Len(s)
             l == Len(b)
             x == st[i]
             e == x - 1
  <1>1. /\ n \in Nat /\ l \in Nat /\ \A k \in 1..n + 1 : st[k] \in 1..l + 1
    BY StartsRise
  <1>2. b \in Seq(Chars) /\ st[1] = 1 /\ st[n + 1] = l + 1
    BY DEF VectorOf
  <1>3. 1 \in 1..n + 1 /\ n + 1 \in 1..n + 1 /\ 1 <= i /\ i <= n + 1 /\ (n + 1) - 1 = n /\ (l + 1) - 1 = l
    BY <1>1
  <1>4. IsVector(SubSeq(s, 1, i - 1), SubSeq(b, st[1], st[i] - 1))
    BY <1>3, PartVector
  <1>5. IsVector(SubSeq(s, i, (n + 1) - 1), SubSeq(b, st[i], st[n + 1] - 1))
    BY <1>3, PartVector
  <1>6. x \in 1..l + 1
    BY <1>1
  <1> HIDE DEF x
  <1>7. /\ e \in Int /\ l \in Int /\ x \in Int /\ 1 <= x /\ e <= l
        /\ (IF 1 <= e THEN e - 1 + 1 ELSE 0) = x - 1
        /\ (IF x <= l THEN l - x + 1 ELSE 0) = l + 1 - x
    BY <1>1, <1>6
  <1> HIDE DEF e
  <1>8. Len(SubSeq(b, 1, e)) = IF 1 <= e THEN e - 1 + 1 ELSE 0
    BY <1>2, <1>7, PartIs
  <1>9. Len(SubSeq(b, x, l)) = IF x <= l THEN l - x + 1 ELSE 0
    BY <1>2, <1>7, PartIs
  <1> DEFINE left == SubSeq(b, 1, e)
             right == SubSeq(b, x, l)
  <1>10. Len(left) = x - 1 /\ Len(right) = l + 1 - x
    BY <1>7, <1>8, <1>9
  <1>11. IsVector(SubSeq(s, 1, i - 1), left) /\ IsVector(SubSeq(s, i, n), right)
    BY <1>2, <1>3, <1>4, <1>5 DEF x, e
  <1>12. left = SubSeq(b, 1, st[i] - 1) /\ right = SubSeq(b, st[i], l)
    BY DEF x, e
  <1> HIDE DEF left, right
  <1> QED
    BY <1>10, <1>11, <1>12 DEF x

LEMMA DeleteHeld ==
    ASSUME NEW s, HeldIn(s, argz, len), NEW i \in 1..argz_count, argz_delete(argz_extract[i])
    PROVE  Outcome(s)
  <1> DEFINE n == Len(s)
             b == Block
  <1>1. /\ Holds(s, b) /\ IsVector(s, b) /\ len = Len(b) /\ len \in Nat
        /\ len > 0 => argz = b
        /\ s \in Seq(Seq(Letters)) /\ b \in Seq(Chars)
    BY HeldFacts
  <1>2. PICK st : VectorOf(s, b, st)
    BY <1>1 DEF IsVector
  <1>3. i \in 1..n /\ argz_extract[i] = st[i]
    BY <1>1, <1>2, CountIs, ExtractIs
  <1>4. st[i] \in 1..Len(b) /\ NulFrom(b, st[i]) + 1 = st[i + 1]
    BY <1>2, <1>3, NextStarts
  <1>5. n \in Nat /\ i \in 1..n + 1 /\ i + 1 \in 1..n + 1
    BY <1>1, <1>3, StringFacts
  <1>6. st[i + 1] \in 1..Len(b) + 1 /\ st[i] < st[i + 1]
    <2>1. /\ \A j, k \in 1..Len(s) + 1 : j < k => st[j] < st[k]
          /\ \A k \in 1..Len(s) + 1 : st[k] \in 1..Len(b) + 1
      BY <1>2, StartsRise
    <2>2. i < i + 1
      BY <1>3
    <2> QED
      BY <1>5, <2>1, <2>2
  <1> DEFINE x == st[i]
             y == st[i + 1]
  <1>7. PICK left : /\ left = SubSeq(b, 1, x - 1) /\ Len(left) = x - 1
                    /\ IsVector(SubSeq(s, 1, i - 1), left)
    <2>1. \E l, r : /\ l = SubSeq(b, 1, st[i] - 1) /\ r = SubSeq(b, st[i], Len(b))
                    /\ IsVector(SubSeq(s, 1, i - 1), l) /\ Len(l) = st[i] - 1
                    /\ IsVector(SubSeq(s, i, Len(s)), r) /\ Len(r) = Len(b) + 1 - st[i]
      <3>1. VectorOf(s, b, st) /\ i \in 1..Len(s) + 1
        BY <1>2, <1>5
      <3> HIDE DEF b
      <3> QED
        BY <3>1, Around
    <2> QED
      BY <2>1, Zenon
  <1>8. PICK right : /\ right = SubSeq(b, y, len) /\ Len(right) = len + 1 - y
                     /\ IsVector(SubSeq(s, i + 1, Len(s)), right)
    <2> DEFINE j == i + 1
    <2>1. VectorOf(s, b, st) /\ j \in 1..Len(s) + 1
      BY <1>2, <1>5
    <2>2. \E l, r : /\ l = SubSeq(b, 1, st[j] - 1) /\ r = SubSeq(b, st[j], Len(b))
                    /\ IsVector(SubSeq(s, 1, j - 1), l) /\ Len(l) = st[j] - 1
                    /\ IsVector(SubSeq(s, j, Len(s)), r) /\ Len(r) = Len(b) + 1 - st[j]
      <3> HIDE DEF b, j
      <3> QED
        BY <2>1, Around
    <2> QED
      BY <1>1, <2>2, Zenon
  <1> DEFINE d == left \o right
             t == SubSeq(s, 1, i - 1) \o SubSeq(s, i + 1, Len(s))
  <1>9. IsVector(t, d)
    BY <1>7, <1>8, CatVector
  <1>10. /\ call' = Call("delete", x, <<>>, <<>>)
         /\ Returns(IF len = y - x THEN Null ELSE d, len - (y - x), "0")
    <2>1. argz = b /\ len > 0
      BY <1>1, <1>4
    <2>2. /\ call' = Call("delete", x, <<>>, <<>>)
          /\ LET entry_len == NulFrom(b, x) + 1 - x
                 rest == SubSeq(b, 1, x - 1) \o SubSeq(b, x + entry_len, len)
             IN Returns(IF len = entry_len THEN Null ELSE rest, len - entry_len, "0")
      BY <1>3, <2>1 DEF argz_delete
    <2>3. NulFrom(b, x) + 1 - x = y - x /\ x + (y - x) = y
      <3>1. x \in Int /\ y \in Int /\ NulFrom(b, x) = y - 1
        <4>1. st[i] <= st[i]
          BY <1>4
        <4> QED
          BY <1>2, <1>3, <1>4, <1>6, <4>1, NulFromIs
      <3> HIDE DEF x, y, b
      <3> QED
        BY <3>1
    <2> HIDE DEF x, y, b
    <2> QED
      BY <1>7, <1>8, <2>2, <2>3
  <1>11. left \in Seq(Chars) /\ right \in Seq(Chars)
    BY <1>7, <1>8, VectorFacts
  <1>12. x \in 1..len /\ y \in 1..len + 1
    BY <1>1, <1>4, <1>6
  <1> HIDE DEF x, y, b
  <1>13. Len(d) = len - (y - x)
    <2>1. Len(d) = Len(left) + Len(right)
      BY <1>11, ConcatProperties
    <2> QED
      <3> HIDE DEF d
      <3> QED
        BY <1>1, <1>7, <1>8, <1>12, <2>1
  <1>14. d = <<>> <=> len = y - x
    <2>1. d \in Seq(Chars)
      BY <1>11, ConcatProperties
    <2>2. d = <<>> <=> Len(d) = 0
      BY <2>1, EmptySeq
    <2>3. len - (y - x) = 0 <=> len = y - x
      BY <1>1, <1>12
    <2> QED
      BY <1>13, <2>2, <2>3
  <1>15. t = Meaning(call', s)
    <2>1. EntryIndex(argz, x) = i
      <3>1. argz = b
        BY <1>1, <1>4 DEF b
      <3>2. x \in 1..Len(b) /\ st[i] <= x /\ x < st[i + 1]
        BY <1>4, <1>6 DEF x
      <3> QED
        BY <1>2, <1>3, <3>1, <3>2, EntryIndexIs
    <2>2. Meaning(Call("delete", x, <<>>, <<>>), s) = RemoveAt(s, EntryIndex(argz, x))
      BY MeaningIs
    <2> QED
      BY <1>10, <2>1, <2>2 DEF RemoveAt
  <1> HIDE DEF d, t
  <1>16. HeldIn(t, argz', len') /\ err' = "0"
    <2>1. argz' = (IF d = <<>> THEN Null ELSE d) /\ len' = Len(d) /\ err' = "0"
      BY <1>10, <1>13, <1>14 DEF Returns
    <2> QED
      BY <1>9, <2>1, Held
  <1> QED
    BY <1>15, <1>16 DEF Outcome

LEMMA InsertHeld ==
    ASSUME NEW s, HeldIn(s, argz, len), NEW text \in Seq(Letters), NEW before \in 0..len + 1,
           argz_insert(before, text)
    PROVE  Outcome(s)
  <1> DEFINE n == Len(s)
             b == Block
             c == CString(text)
  <1>1. /\ Holds(s, b) /\ IsVector(s, b) /\ len = Len(b) /\ len \in Nat
        /\ len > 0 => argz = b
        /\ s \in Seq(Seq(Letters)) /\ b \in Seq(Chars)
    BY HeldFacts
  <1>2. call' = Call("insert", before, text, <<>>)
    BY DEF argz_insert
  <1>3. Meaning(call', s) = IF before = 0 THEN Append(s, text)
                            ELSE InsertAt(s, EntryIndex(argz, before), text)
    BY <1>2, MeaningIs
  <1>4. CASE before = 0 /\ Appended(c)
    BY <1>3, <1>4, AppendedHeld
  <1>5. CASE Returns(argz, len, "EINVAL")
    BY <1>5 DEF Returns, Outcome
  <1>6. CASE Returns(argz, len, "ENOMEM")
    BY <1>6 DEF Returns, Outcome
  <1>7. CASE /\ before \in 1..len
             /\ LET p == EntryOf(before)
                IN Returns(SubSeq(argz, 1, p - 1) \o c \o SubSeq(argz, p, len),
                           len + Len(text) + 1, "0")
    <2>1. argz = b /\ before \in 1..Len(b)
      BY <1>1, <1>7
    <2>2. PICK st : VectorOf(s, b, st)
      BY <1>1 DEF IsVector
    <2>3. PICK k \in 1..n : st[k] <= before /\ before < st[k + 1]
      BY <2>1, <2>2, EntryAt
    <2>4. EntryIndex(argz, before) = k
      BY <2>1, <2>2, <2>3, EntryIndexIs
    <2>5. EntryOf(before) = st[k]
      BY <2>1, <2>2, <2>3, EntryOfIs
    <2> DEFINE x == st[k]
    <2>6. k \in 1..n + 1
      BY <1>1, <2>3, StringFacts
    <2>7. PICK left, right :
             /\ left = SubSeq(b, 1, x - 1) /\ right = SubSeq(b, x, Len(b))
             /\ IsVector(SubSeq(s, 1, k - 1), left) /\ Len(left) = x - 1
             /\ IsVector(SubSeq(s, k, Len(s)), right) /\ Len(right) = Len(b) + 1 - x
      <3>1. VectorOf(s, b, st) /\ k \in 1..Len(s) + 1
        BY <2>2, <2>6
      <3> HIDE DEF b
      <3> QED
        BY <3>1, Around
    <2> DEFINE d == left \o c \o right
               t == SubSeq(s, 1, k - 1) \o <<text>> \o SubSeq(s, k, Len(s))
    <2>8. IsVector(t, d)
      <3>1. IsVector(SubSeq(s, 1, k - 1) \o <<text>>, left \o c)
        BY <2>7, OneVector, CatVector
      <3> QED
        BY <2>7, <3>1, CatVector
    <2>9. x \in 1..Len(b) + 1
      BY <2>2, <2>6, StartsRise
    <2>10. Returns(d, len + Len(text) + 1, "0")
      BY <1>1, <1>7, <2>1, <2>5, <2>7
    <2>11. /\ left \in Seq(Chars) /\ right \in Seq(Chars)
           /\ c \in Seq(Chars) /\ Len(c) = Len(text) + 1 /\ Len(text) \in Nat
      BY <2>7, VectorFacts, WordFacts
    <2> HIDE DEF x, b, c
    <2>12. d \in Seq(Chars) /\ Len(d) = len + Len(text) + 1 /\ d # <<>>
      <3>1. left \o c \in Seq(Chars) /\ Len(left \o c) = Len(left) + Len(c)
        BY <2>11, ConcatProperties
      <3>2. d \in Seq(Chars) /\ Len(d) = Len(left \o c) + Len(right)
        BY <2>11, <3>1, ConcatProperties
      <3>3. Len(d) = len + Len(text) + 1
        <4> HIDE DEF d
        <4>1. Len(d) = (x - 1) + (Len(text) + 1) + (len + 1 - x)
          BY <1>1, <2>7, <2>11, <3>1, <3>2
        <4>2. x \in Int /\ len \in Nat /\ Len(text) \in Nat
          BY <1>1, <2>9, <2>11
        <4> QED
          BY ONLY <4>1, <4>2
      <3>4. Len(d) # 0
        BY <1>1, <2>11, <3>3
      <3> QED
        BY <3>2, <3>3, <3>4, EmptySeq
    <2>13. t = Meaning(call', s)
      <3>1. before # 0
        BY <1>7
      <3> QED
        BY <1>3, <2>4, <3>1 DEF InsertAt
    <2> HIDE DEF d, t
    <2>14. HeldIn(t, argz', len') /\ err' = "0"
      <3>1. argz' = (IF d = <<>> THEN Null ELSE d) /\ len' = Len(d) /\ err' = "0"
        BY <2>10, <2>12 DEF Returns
      <3> QED
        BY <2>8, <3>1, Held
    <2> QED
      BY <2>13, <2>14 DEF Outcome
  <1>8. CASE InFirst(before) /\ Returns(Wild, len + Len(text) + 1, "0")
    BY <1>2, <1>8 DEF Returns, Call, Spoilt, Outcome
  <1> QED
    BY <1>4, <1>5, <1>6, <1>7, <1>8 DEF argz_insert
-----------------------------------------------------------------------------
(* argz_stringify                                                          *)

LEMMA CatCString ==
    ASSUME NEW a \in Seq(Chars), NEW t \in Seq(Letters)
    PROVE  a \o CString(t) = Append(a \o t, NUL)
  <1>1. t \in Seq(Chars) /\ NUL \in Chars /\ <<NUL>> \in Seq(Chars)
    BY CharFacts
  <1>2. CString(t) = t \o <<NUL>>
    BY <1>1, AppendIsConcat DEF CString
  <1>3. a \o t \in Seq(Chars)
    BY <1>1, ConcatProperties
  <1>4. Append(a \o t, NUL) = (a \o t) \o <<NUL>>
    BY <1>1, <1>3, AppendIsConcat
  <1>5. (a \o t) \o <<NUL>> = a \o (t \o <<NUL>>)
    BY <1>1, ConcatAssociative
  <1> QED
    BY <1>2, <1>4, <1>5

LEMMA LastPiece ==
    ASSUME NEW s, NEW b, NEW st, VectorOf(s, b, st), NEW k \in 1..Len(s), k = Len(s)
    PROVE  SubSeq(b, st[k], Len(b)) = CString(s[k])
  <1> DEFINE x == st[k]
             l == Len(b)
             m == Len(s[k])
             u == SubSeq(b, x, l)
             c == CString(s[k])
  <1>1. /\ b \in Seq(Chars) /\ st[k + 1] = l + 1 /\ st[k + 1] = x + m + 1
        /\ b[st[k + 1] - 1] = NUL
        /\ \A j \in 1..m : b[x + j - 1] = s[k][j]
    BY DEF VectorOf
  <1>2. x \in 1..l /\ l \in Nat
    BY NextStarts, StartsRise
  <1>3. s[k] \in Seq(Letters) /\ m \in Nat
    BY StringFacts DEF VectorOf
  <1>4. c \in Seq(Chars) /\ Len(c) = m + 1 /\ c[m + 1] = NUL /\ \A j \in 1..m : c[j] = s[k][j]
    BY <1>3, WordFacts
  <1> HIDE DEF x, l, m, c
  <1>5. l = x + m /\ (l + 1) - 1 = l
    BY <1>1, <1>2, <1>3
  <1>6. /\ u \in Seq(Chars)
        /\ Len(u) = IF x <= l THEN l - x + 1 ELSE 0
        /\ \A i \in 1..l - x + 1 : u[i] = b[x + i - 1]
    <2>1. x \in Int /\ l \in Int /\ 1 <= x /\ l <= Len(b)
      BY <1>2 DEF l
    <2> QED
      BY <1>1, <2>1, PartIs
  <1> HIDE DEF u
  <1>7. Len(u) = m + 1 /\ l - x + 1 = m + 1
    BY <1>2, <1>3, <1>5, <1>6
  <1>8. \A i \in 1..Len(u) : u[i] = c[i]
    <2> TAKE i \in 1..Len(u)
    <2>1. i \in 1..m + 1 /\ i \in 1..l - x + 1
      BY <1>7
    <2>2. u[i] = b[x + i - 1]
      BY <1>6, <2>1
    <2>3. CASE i \in 1..m
      BY <1>1, <1>4, <2>2, <2>3
    <2>4. CASE i = m + 1
      <3>1. x + i - 1 = l
        BY <1>2, <1>3, <1>5, <2>4
      <3> QED
        BY <1>1, <1>4, <1>5, <2>2, <2>4, <3>1
    <2>5. i \in 1..m \/ i = m + 1
      BY <1>3, <2>1
    <2> QED
      BY <2>3, <2>4, <2>5, Zenon
  <1>9. u = c
    BY <1>4, <1>6, <1>7, <1>8, SeqEqual
  <1> QED
    BY <1>9 DEF u, c, x, l

LEMMA JoinedIs ==
    ASSUME NEW s \in Seq(Seq(Letters)), s # <<>>
    PROVE  \E from \in [1..Len(s) -> Seq(Letters)] :
             /\ Joined(s) = from[1]
             /\ from[Len(s)] = s[Len(s)]
             /\ \A k \in 1..Len(s) - 1 : from[k] = s[k] \o <<Delim>> \o from[k + 1]
  <1> DEFINE n == Len(s)
             Body(f) == [k \in DOMAIN s |->
                            IF k = Len(s) THEN s[k] ELSE s[k] \o <<Delim>> \o f[k + 1]]
             from == CHOOSE f : f = Body(f)
             nx == [k \in 1..n |-> k + 1]
             F == [k \in 1..n |-> [x \in Seq(Letters) |->
                                     IF k = n THEN s[k] ELSE s[k] \o <<Delim>> \o x]]
  <1>1. n \in Nat /\ n >= 1 /\ \A k \in 1..n : s[k] \in Seq(Letters)
    BY StringFacts, EmptySeq
  <1>2. DOMAIN s = 1..n
    BY LenProperties
  <1>3. <<Delim>> \in Seq(Letters)
    BY CharFacts
  <1>4. \A k \in 1..n, x \in Seq(Letters) : s[k] \o <<Delim>> \o x \in Seq(Letters)
    BY <1>1, <1>3, ConcatProperties
  <1>5. \E f : f = Body(f)
    <2>1. nx \in [1..n -> 1..n + 1] /\ \A k \in 1..n : nx[k] > k
      BY <1>1
    <2>2. F \in [1..n -> [Seq(Letters) -> Seq(Letters)]] /\ <<>> \in Seq(Letters)
      BY <1>1, <1>4, EmptySeq
    <2> HIDE DEF F, nx, n
    <2>3. PICK g \in [1..n + 1 -> Seq(Letters)] : Jumps(g, F, nx, n, <<>>)
      BY <1>1, <2>1, <2>2, JumpsExist
    <2> DEFINE f == [k \in 1..n |-> g[k]]
    <2>4. ASSUME NEW k \in 1..n
          PROVE  g[k] = IF k = n THEN s[k] ELSE s[k] \o <<Delim>> \o f[k + 1]
      <3>1. g[k] = F[k][g[nx[k]]] /\ nx[k] = k + 1
        BY <2>3 DEF Jumps, nx
      <3>2. g[nx[k]] \in Seq(Letters)
        BY <2>1
      <3>3. g[k] = IF k = n THEN s[k] ELSE s[k] \o <<Delim>> \o g[k + 1]
        BY <3>1, <3>2 DEF F
      <3>4. k # n => f[k + 1] = g[k + 1]
        BY <1>1
      <3> HIDE DEF f
      <3> QED
        BY <3>3, <3>4
    <2>5. Body(f) = [k \in 1..n |-> IF k = n THEN s[k] ELSE s[k] \o <<Delim>> \o f[k + 1]]
      BY <1>2 DEF n
    <2>6. f = Body(f)
      BY <2>4, <2>5
    <2> QED
      BY <2>6
  <1>6. from = Body(from)
    BY <1>5
  <1> HIDE DEF from
  <1>7. from = [k \in 1..n |-> IF k = n THEN s[k] ELSE s[k] \o <<Delim>> \o from[k + 1]]
    BY <1>2, <1>6
  <1> HIDE DEF Body, n
  <1>8. /\ \A k \in 1..n : from[k] = IF k = n THEN s[k] ELSE s[k] \o <<Delim>> \o from[k + 1]
        /\ from = [k \in 1..n |-> from[k]]
    <2>1. \A k \in 1..n : from[k] = IF k = n THEN s[k] ELSE s[k] \o <<Delim>> \o from[k + 1]
      BY <1>7
    <2>2. from = [k \in 1..n |-> from[k]]
      BY <1>7, <2>1
    <2> QED
      BY <2>1, <2>2
  <1> DEFINE D == {k \in 1..n : from[k] \in Seq(Letters)}
  <1>9. ASSUME NEW k \in 1..n, \A j \in k + 1..n : j \in D
        PROVE  k \in D
    <2>1. CASE k = n
      BY <1>1, <1>8, <2>1
    <2>2. CASE k # n
      <3>1. k + 1 \in D
        BY <1>1, <1>9, <2>2
      <3>2. from[k + 1] \in Seq(Letters)
        BY <3>1
      <3> QED
        BY <1>4, <1>8, <2>2, <3>2
    <2> QED
      BY <2>1, <2>2
  <1> HIDE DEF D
  <1>10. \A k \in 1..n : k \in D
    BY <1>1, <1>9, Downward, Zenon
  <1>11. \A k \in 1..n : from[k] \in Seq(Letters)
    BY <1>10 DEF D
  <1>12. from \in [1..n -> Seq(Letters)]
    BY <1>8, <1>11
  <1>13. /\ n \in 1..n /\ \A k \in 1..n - 1 : k \in 1..n /\ k # n
    BY <1>1
  <1>14. Joined(s) = from[1]
    BY DEF Joined, from, Body
  <1> QED
    BY <1>8, <1>12, <1>13, <1>14 DEF n

LEMMA StringifyHeld ==
    ASSUME NEW s, HeldIn(s, argz, len), argz_stringify
    PROVE  Outcome(s)
  <1> DEFINE n == Len(s)
             b == Block
             Body(f) == [p \in 1..len |->
                            LET nul == NulFrom(argz, p)
                            IN IF nul >= len THEN SubSeq(argz, p, len)
                               ELSE Append(SubSeq(argz, p, nul - 1), Delim) \o f[nul + 1]]
             over == CHOOSE f : f = Body(f)
  <1>1. /\ IsVector(s, b) /\ len = Len(b) /\ len \in Nat
        /\ len > 0 => argz = b
        /\ s \in Seq(Seq(Letters)) /\ b \in Seq(Chars)
        /\ (s = <<>> <=> b = <<>>) /\ (b = <<>> <=> len = 0)
        /\ argz = IF b = <<>> THEN Null ELSE b
    BY HeldFacts
  <1>2. /\ call' = Call("stringify", 0, <<>>, <<>>)
        /\ Returns(IF len = 0 THEN argz ELSE over[1], len, "0")
    BY DEF argz_stringify, over, Body
  <1>3. Meaning(call', s) = IF s = <<>> THEN <<>> ELSE <<Joined(s)>>
    BY <1>2, MeaningIs
  <1>4. CASE len = 0
    <2>1. argz' = argz /\ len' = len /\ err' = "0"
      BY <1>2, <1>4 DEF Returns
    <2>2. s = Meaning(call', s)
      BY <1>1, <1>3, <1>4
    <2> QED
      BY <2>1, <2>2 DEF Outcome
  <1>5. CASE len # 0
    <2>1. argz = b /\ s # <<>> /\ n \in Nat /\ n >= 1
      BY <1>1, <1>5, EmptySeq, StringFacts
    <2>2. PICK st : VectorOf(s, b, st)
      BY <1>1 DEF IsVector
    <2>3. /\ \A p \in 1..len : NulFrom(b, p) + 1 \in 1..len + 1 /\ NulFrom(b, p) + 1 > p
          /\ \A k \in 1..n : st[k] \in 1..len /\ NulFrom(b, st[k]) + 1 = st[k + 1]
      BY <1>1, <2>2, NextStarts
    <2>4. \A p \in 1..len : NulFrom(b, p) \in Int
      <3> TAKE p \in 1..len
      <3>1. p \in 1..Len(b)
        BY <1>1
      <3>2. PICK k \in 1..n : st[k] <= p /\ p < st[k + 1]
        BY <2>2, <3>1, EntryAt
      <3>3. NulFrom(b, p) = st[k + 1] - 1
        BY <2>2, <3>1, <3>2, NulFromIs
      <3>4. k + 1 \in 1..n + 1
        BY <2>1
      <3>5. st[k + 1] \in Int
        BY <2>2, <3>4, StartsRise
      <3> QED
        BY <3>3, <3>5
    <2> HIDE DEF b, n
    <2>5. \E f : f = Body(f)
      <3> DEFINE nx == [p \in 1..len |-> NulFrom(b, p) + 1]
                 head == [p \in 1..len |-> Append(SubSeq(b, p, NulFrom(b, p) - 1), Delim)]
                 F == [p \in 1..len |-> [x \in Seq(Chars) |->
                         IF NulFrom(b, p) >= len THEN SubSeq(b, p, len) ELSE head[p] \o x]]
      <3>1. nx \in [1..len -> 1..len + 1] /\ \A p \in 1..len : nx[p] > p
        BY <2>3
      <3>2. ASSUME NEW p \in 1..len
            PROVE  head[p] \in Seq(Chars) /\ SubSeq(b, p, len) \in Seq(Chars)
        <4> DEFINE e == NulFrom(b, p) - 1
        <4>1. e \in Int /\ e <= Len(b) /\ p \in Int /\ 1 <= p /\ len \in Int /\ len <= Len(b)
          BY <1>1, <2>3, <2>4
        <4> HIDE DEF e
        <4>2. SubSeq(b, p, e) \in Seq(Chars) /\ SubSeq(b, p, len) \in Seq(Chars)
          BY <1>1, <4>1, PartIs
        <4>3. Append(SubSeq(b, p, e), Delim) \in Seq(Chars)
          BY <4>2, CharFacts, AppendProperties
        <4> QED
          BY <4>2, <4>3 DEF e
      <3>3. F \in [1..len -> [Seq(Chars) -> Seq(Chars)]] /\ <<>> \in Seq(Chars)
        <4> HIDE DEF head
        <4>1. \A p \in 1..len, x \in Seq(Chars) : head[p] \o x \in Seq(Chars)
          BY <3>2, ConcatProperties
        <4> QED
          BY <3>2, <4>1, EmptySeq
      <3> HIDE DEF F, nx
      <3>4. PICK g \in [1..len + 1 -> Seq(Chars)] : Jumps(g, F, nx, len, <<>>)
        BY <1>1, <3>1, <3>3, JumpsExist
      <3> DEFINE f == [p \in 1..len |-> g[p]]
      <3>5. ASSUME NEW p \in 1..len
            PROVE  g[p] = IF NulFrom(b, p) >= len THEN SubSeq(b, p, len)
                          ELSE head[p] \o f[NulFrom(b, p) + 1]
        <4>1. g[p] = F[p][g[nx[p]]] /\ nx[p] = NulFrom(b, p) + 1
          BY <3>4 DEF Jumps, nx
        <4>2. g[nx[p]] \in Seq(Chars)
          BY <3>1
        <4>3. g[p] = IF NulFrom(b, p) >= len THEN SubSeq(b, p, len)
                     ELSE head[p] \o g[NulFrom(b, p) + 1]
          <5> HIDE DEF head
          <5> QED
            BY <4>1, <4>2 DEF F
        <4>4. ~(NulFrom(b, p) >= len) => f[NulFrom(b, p) + 1] = g[NulFrom(b, p) + 1]
          <5>1. ~(NulFrom(b, p) >= len) => NulFrom(b, p) + 1 \in 1..len
            BY <1>1, <2>3, <2>4
          <5> QED
            BY <5>1
        <4> HIDE DEF f, head
        <4> QED
          BY <4>3, <4>4
      <3>6. f = Body(f)
        BY <2>1, <3>5
      <3> QED
        BY <3>6
    <2>6. over = Body(over)
      BY <2>5
    <2> HIDE DEF over
    <2>7. ASSUME NEW p \in 1..len
          PROVE  over[p] = IF NulFrom(b, p) >= len THEN SubSeq(b, p, len)
                           ELSE Append(SubSeq(b, p, NulFrom(b, p) - 1), Delim)
                                \o over[NulFrom(b, p) + 1]
      BY <2>1, <2>6
    <2> HIDE DEF Body
    <2>8. PICK from \in [1..n -> Seq(Letters)] :
             /\ Joined(s) = from[1]
             /\ from[n] = s[n]
             /\ \A k \in 1..n - 1 : from[k] = s[k] \o <<Delim>> \o from[k + 1]
      BY <1>1, <2>1, JoinedIs DEF n
    <2>9. /\ \A k \in 1..n : s[k] \in Seq(Letters) /\ Len(s[k]) \in Nat
          /\ \A k \in 1..n : st[k + 1] = st[k] + Len(s[k]) + 1 /\ st[k] \in 1..len
          /\ st[1] = 1 /\ st[n + 1] = len + 1
      <3>1. \A k \in 1..n : s[k] \in Seq(Letters) /\ Len(s[k]) \in Nat
        BY <1>1, StringFacts DEF n
      <3>2. /\ \A k \in 1..n : st[k + 1] = st[k] + Len(s[k]) + 1
            /\ st[1] = 1 /\ st[n + 1] = len + 1
        BY <1>1, <2>2 DEF VectorOf, n
      <3> QED
        BY <2>3, <3>1, <3>2
    <2> DEFINE D == {k \in 1..n : over[st[k]] = CString(from[k]) /\ Len(from[k]) = len - st[k]}
    <2>10. ASSUME NEW k \in 1..n, \A j \in k + 1..n : j \in D
           PROVE  k \in D
      <3>1. st[k] \in 1..len /\ NulFrom(b, st[k]) = st[k + 1] - 1 /\ k + 1 \in 1..n + 1
        <4>1. st[k] \in 1..len /\ NulFrom(b, st[k]) \in Int /\ NulFrom(b, st[k]) + 1 = st[k + 1]
          BY <2>3, <2>4
        <4> DEFINE nul == NulFrom(b, st[k])
        <4>2. nul \in Int /\ nul + 1 = st[k + 1]
          BY <4>1
        <4> HIDE DEF nul
        <4>3. nul = st[k + 1] - 1
          BY ONLY <4>2
        <4>4. k + 1 \in 1..n + 1
          BY <2>1
        <4> QED
          BY <4>1, <4>3, <4>4 DEF nul
      <3>2. CASE k = n
        <4>1. NulFrom(b, st[k]) >= len
          BY <1>1, <2>9, <3>1, <3>2
        <4>2. over[st[k]] = SubSeq(b, st[k], len)
          BY <2>7, <3>1, <4>1
        <4>3. SubSeq(b, st[k], Len(b)) = CString(s[k])
          BY <2>2, <3>2, LastPiece DEF n
        <4>4. Len(s[k]) = len - st[k]
          <5> DEFINE x == st[k]
                     y == st[k + 1]
          <5>1. x \in Nat /\ y = x + Len(s[k]) + 1 /\ y = len + 1 /\ Len(s[k]) \in Nat /\ len \in Nat
            BY <1>1, <2>9, <3>1, <3>2
          <5> HIDE DEF x, y
          <5>2. Len(s[k]) = len - x
            BY ONLY <5>1
          <5> QED
            BY <5>2 DEF x
        <4> QED
          BY <1>1, <2>8, <3>2, <4>2, <4>3, <4>4
      <3>3. CASE k # n
        <4>1. k + 1 \in D /\ k \in 1..n - 1 /\ k + 1 \in 1..n
          BY <2>1, <2>10, <3>3
        <4>2. st[k + 1] \in 1..len
          BY <2>9, <4>1
        <4>3. ~(NulFrom(b, st[k]) >= len)
          BY <1>1, <3>1, <4>2
        <4>4. over[st[k]] = Append(SubSeq(b, st[k], NulFrom(b, st[k]) - 1), Delim)
                            \o over[NulFrom(b, st[k]) + 1]
          BY <2>7, <3>1, <4>3
        <4>5. NulFrom(b, st[k]) - 1 = st[k + 1] - 2 /\ NulFrom(b, st[k]) + 1 = st[k + 1]
          BY <3>1, <4>2
        <4>6. SubSeq(b, st[k], st[k + 1] - 2) = s[k]
          BY <2>2, StringAt DEF n
        <4>7. over[st[k]] = Append(s[k], Delim) \o CString(from[k + 1])
          BY <4>1, <4>4, <4>5, <4>6
        <4> DEFINE a == s[k]
                   t == from[k + 1]
                   e == a \o <<Delim>>
        <4>8. a \in Seq(Letters) /\ t \in Seq(Letters) /\ Len(t) = len - st[k + 1] /\ Len(a) \in Nat
          BY <2>9, <4>1
        <4>9. from[k] = e \o t
          BY <2>8, <4>1
        <4> HIDE DEF a, t
        <4>10. Append(a, Delim) = e /\ e \in Seq(Letters) /\ Len(e) = Len(a) + 1
          BY <4>8, CharFacts, AppendProperties, AppendIsConcat
        <4> HIDE DEF e
        <4>11. e \o t \in Seq(Letters) /\ Len(e \o t) = Len(e) + Len(t)
          BY <4>8, <4>10, ConcatProperties
        <4>12. e \o CString(t) = CString(e \o t)
          <5>1. e \in Seq(Chars)
            BY <4>10, CharFacts
          <5> QED
            BY <4>8, <5>1, CatCString DEF CString
        <4>13. over[st[k]] = CString(from[k])
          BY <4>7, <4>9, <4>10, <4>12 DEF a, t
        <4>14. Len(from[k]) = len - st[k]
          <5> DEFINE x == st[k]
                     y == st[k + 1]
          <5>1. /\ x \in Nat /\ y = x + Len(a) + 1 /\ Len(a) \in Nat /\ len \in Nat
                /\ Len(t) = len - y /\ Len(e) = Len(a) + 1 /\ Len(e \o t) = Len(e) + Len(t)
            BY <1>1, <2>9, <3>1, <4>8, <4>10, <4>11 DEF a
          <5> HIDE DEF x, y
          <5> DEFINE z == Len(e \o t)
          <5>2. z = Len(e) + Len(t)
            BY <5>1
          <5> HIDE DEF z
          <5>3. z = len - x
            BY ONLY <5>1, <5>2
          <5> QED
            BY <4>9, <5>3 DEF x, z
        <4> QED
          BY <4>13, <4>14
      <3> QED
        BY <3>2, <3>3
    <2> HIDE DEF D
    <2>11. \A k \in 1..n : k \in D
      BY <2>1, <2>10, Downward, Zenon
    <2> DEFINE t == <<Joined(s)>>
               d == CString(Joined(s))
    <2>12. over[1] = d /\ Len(Joined(s)) = len - 1 /\ Joined(s) \in Seq(Letters)
      <3>1. 1 \in 1..n /\ 1 \in D
        BY <2>1, <2>11
      <3> QED
        BY <2>8, <2>9, <3>1 DEF D
    <2>13. IsVector(t, d)
      BY <2>12, OneVector
    <2>14. Len(d) = len /\ d \in Seq(Chars)
      BY <1>1, <2>12, WordFacts
    <2>15. t = Meaning(call', s)
      BY <1>3, <2>1
    <2> HIDE DEF t, d
    <2>16. HeldIn(t, argz', len') /\ err' = "0"
      <3>1. d # <<>>
        BY <1>5, <2>14, EmptySeq
      <3>2. argz' = (IF d = <<>> THEN Null ELSE d) /\ len' = Len(d) /\ err' = "0"
        BY <1>2, <1>5, <2>12, <2>14, <3>1 DEF Returns
      <3> QED
        BY <2>13, <3>2, Held
    <2> QED
      BY <2>15, <2>16 DEF Outcome
  <1> QED
    BY <1>4, <1>5
-----------------------------------------------------------------------------
(* argz_create_sep and argz_add_sep                                        *)

Rises(E, n, m, at) ==
    /\ n \in Nat /\ E \in [0..n + 1 -> Nat]
    /\ E[0] = 0 /\ E[n + 1] = m + 1
    /\ \A j, k \in 0..n + 1 : j < k => E[j] < E[k]
    /\ at = {E[k] : k \in 1..n}

(* The last place moves on, or becomes one of those inside.                *)
LEMMA RisesOn ==
    ASSUME NEW E, NEW n, NEW m \in Nat, NEW at, Rises(E, n, m, at)
    PROVE  /\ \E F : Rises(F, n, m + 1, at)
           /\ \E F : Rises(F, n + 1, m + 1, at \cup {m + 1})
  <1> DEFINE F == [k \in 0..n + 1 |-> IF k = n + 1 THEN m + 2 ELSE E[k]]
             G == [k \in 0..(n + 1) + 1 |-> IF k = (n + 1) + 1 THEN m + 2 ELSE E[k]]
  <1>1. /\ n \in Nat /\ E[0] = 0 /\ E[n + 1] = m + 1
        /\ \A k \in 0..n + 1 : E[k] \in Nat
        /\ \A j, k \in 0..n + 1 : j < k => E[j] < E[k]
        /\ at = {E[k] : k \in 1..n}
    BY DEF Rises
  <1>2. \A k \in 0..n : k \in 0..n + 1 /\ E[k] < m + 1
    BY <1>1
  <1>3. F[n + 1] = (m + 1) + 1 /\ \A k \in 0..n : F[k] = E[k]
    BY <1>1
  <1>4. F \in [0..n + 1 -> Nat]
    BY <1>1
  <1>5. G[(n + 1) + 1] = (m + 1) + 1 /\ \A k \in 0..n + 1 : G[k] = E[k]
    BY <1>1
  <1>6. G \in [0..(n + 1) + 1 -> Nat]
    <2>1. \A k \in 0..(n + 1) + 1 : k # (n + 1) + 1 => k \in 0..n + 1
      BY <1>1
    <2> QED
      BY <1>1, <2>1
  <1> HIDE DEF F, G
  <1>7. ASSUME NEW j \in 0..n + 1, NEW k \in 0..n + 1, j < k PROVE F[j] < F[k]
    <2>1. j \in 0..n /\ (k \in 0..n \/ k = n + 1)
      BY <1>1, <1>7
    <2>2. CASE k \in 0..n
      BY <1>1, <1>2, <1>3, <1>7, <2>1, <2>2
    <2>3. CASE k = n + 1
      <3>1. F[j] = E[j] /\ E[j] \in Nat /\ E[j] < m + 1 /\ F[k] = (m + 1) + 1
        BY <1>1, <1>2, <1>3, <2>1, <2>3
      <3> QED
        BY <3>1
    <2> QED
      BY <2>1, <2>2, <2>3
  <1>8. ASSUME NEW j \in 0..(n + 1) + 1, NEW k \in 0..(n + 1) + 1, j < k PROVE G[j] < G[k]
    <2>1. j \in 0..n + 1 /\ (k \in 0..n + 1 \/ k = (n + 1) + 1)
      BY <1>1, <1>8
    <2>2. CASE k \in 0..n + 1
      BY <1>1, <1>5, <1>8, <2>1, <2>2
    <2>3. CASE k = (n + 1) + 1
      <3>1. j \in 0..n \/ j = n + 1
        BY <1>1, <2>1
      <3>2. E[j] \in Nat /\ E[j] <= m + 1
        BY <1>1, <1>2, <3>1
      <3>3. G[j] = E[j] /\ G[k] = (m + 1) + 1
        BY <1>5, <2>1, <2>3
      <3> QED
        BY <3>2, <3>3
    <2> QED
      BY <2>1, <2>2, <2>3
  <1>9. at = {F[k] : k \in 1..n}
    <2>1. \A k \in 1..n : F[k] = E[k]
      BY <1>1, <1>3
    <2> QED
      BY <1>1, <2>1
  <1>10. at \cup {m + 1} = {G[k] : k \in 1..n + 1}
    <2>1. \A k \in 1..n + 1 : G[k] = E[k] /\ (k \in 1..n \/ k = n + 1)
      BY <1>1, <1>5
    <2>2. n + 1 \in 1..n + 1 /\ \A k \in 1..n : k \in 1..n + 1
      BY <1>1
    <2> QED
      BY <1>1, <2>1, <2>2
  <1>11. 0 \in 0..n /\ 0 \in 0..n + 1 /\ n + 1 \in Nat
    BY <1>1
  <1>12. Rises(F, n, m + 1, at)
    BY <1>1, <1>3, <1>4, <1>7, <1>9, <1>11 DEF Rises
  <1>13. Rises(G, n + 1, m + 1, at \cup {m + 1})
    BY <1>1, <1>5, <1>6, <1>8, <1>10, <1>11 DEF Rises
  <1> QED
    BY <1>12, <1>13

LEMMA CutsExist ==
    ASSUME NEW b, Len(b) \in Nat, NEW at, at \subseteq 1..Len(b)
    PROVE  \E n, E : Cuts(E, n, b, at)
  <1> DEFINE m == Len(b)
             In(j) == at \cap 1..j
             D == {j \in 0..m : \E n, E : Rises(E, n, j, In(j))}
  <1>1. 0 \in D
    <2> DEFINE E == [k \in 0..0 + 1 |-> k]
    <2>1. In(0) = {}
      OBVIOUS
    <2>2. Rises(E, 0, 0, {})
      BY DEF Rises
    <2> HIDE DEF E
    <2> QED
      BY <2>1, <2>2
  <1>2. \A j \in 0..m - 1 : j \in D => j + 1 \in D
    <2> TAKE j \in 0..m - 1
    <2> HAVE j \in D
    <2>1. PICK n, E : Rises(E, n, j, In(j))
      OBVIOUS
    <2>2. n + 1 = n + 1 /\ j \in Nat /\ j + 1 \in 0..m
      OBVIOUS
    <2>3. \A i \in 1..j + 1 : i \in 1..j \/ i = j + 1
      BY <2>2
    <2>4. \A i \in 1..j : i \in 1..j + 1
      BY <2>2
    <2>5. CASE j + 1 \in at
      <3>1. j + 1 \in 1..j + 1
        BY <2>2
      <3>2. In(j + 1) = In(j) \cup {j + 1}
        BY <2>3, <2>4, <2>5, <3>1
      <3> HIDE DEF In
      <3>3. \E F : Rises(F, n + 1, j + 1, In(j) \cup {j + 1})
        BY <2>1, <2>2, RisesOn
      <3> QED
        BY <2>2, <3>2, <3>3
    <2>6. CASE j + 1 \notin at
      <3>1. In(j + 1) = In(j)
        BY <2>3, <2>4, <2>6
      <3> HIDE DEF In
      <3>2. \E F : Rises(F, n, j + 1, In(j))
        BY <2>1, <2>2, RisesOn
      <3> QED
        BY <2>2, <3>1, <3>2
    <2> QED
      BY <2>5, <2>6
  <1>3. m \in D
    <2> HIDE DEF D, m
    <2>1. \A j \in 0..m : j \in D
      BY <1>1, <1>2, Upward, Zenon DEF m
    <2>2. m \in 0..m
      BY DEF m
    <2> QED
      BY <2>1, <2>2
  <1>4. In(m) = at
    OBVIOUS
  <1>5. PICK n, E : Rises(E, n, m, at)
    <2> HIDE DEF In
    <2> QED
      BY <1>3, <1>4
  <1>6. Cuts(E, n, b, at)
    BY <1>5 DEF Cuts, Rises
  <1> QED
    BY <1>6

DelimsIn(text) == {p \in DOMAIN text : text[p] = Delim}

(* The k-th piece of a text that is cut where E rises to                   *)
Piece(text, E, k) == SubSeq(text, E[k - 1] + 1, E[k] - 1)

LEMMA WordsAre ==
    ASSUME NEW text \in Seq(Letters), text # <<>>, NEW E, NEW n, Cuts(E, n, text, DelimsIn(text)),
           \A k \in 1..n + 1 : Piece(text, E, k) \in Seq(Letters)
    PROVE  \E kept \in [0..n + 1 -> Seq(Seq(Letters))] :
             /\ Words(text) = kept[n + 1] /\ kept[0] = <<>>
             /\ \A k \in 1..n + 1 :
                  kept[k] = IF Piece(text, E, k) = <<>> /\ k < n + 1 THEN kept[k - 1]
                            ELSE Append(kept[k - 1], Piece(text, E, k))
  <1> DEFINE W == [k \in 1..n + 1 |-> Piece(text, E, k)]
             Body(f) == [k \in 0..Len(W) |->
                            IF k = 0 THEN <<>>
                            ELSE IF W[k] = <<>> /\ k < Len(W) THEN f[k - 1]
                            ELSE Append(f[k - 1], W[k])]
             kept == CHOOSE f : f = Body(f)
             S == Seq(Seq(Letters))
             F == [k \in 0..(n + 1) - 1 |-> [x \in S |->
                     IF W[k + 1] = <<>> /\ k + 1 < n + 1 THEN x ELSE Append(x, W[k + 1])]]
  <1>1. n \in Nat /\ n + 1 \in Nat
    BY DEF Cuts
  <1>2. Len(W) = n + 1 /\ \A k \in 1..n + 1 : W[k] = Piece(text, E, k) /\ W[k] \in Seq(Letters)
    BY <1>1
  <1> HIDE DEF W
  <1>3. F \in [0..(n + 1) - 1 -> [S -> S]]
    <2>1. \A k \in 0..(n + 1) - 1 : k + 1 \in 1..n + 1
      BY <1>1
    <2>2. \A k \in 0..(n + 1) - 1, x \in S : Append(x, W[k + 1]) \in S
      BY <1>2, <2>1, AppendProperties
    <2> HIDE DEF S
    <2> QED
      BY <2>2
  <1> HIDE DEF F
  <1>4. PICK g \in [0..n + 1 -> S] : Steps(g, F, n + 1, <<>>)
    <2>1. <<>> \in S
      BY EmptySeq
    <2> HIDE DEF S
    <2> QED
      BY <1>1, <1>3, <2>1, StepsExist
  <1>5. ASSUME NEW k \in 1..n + 1
        PROVE  g[k] = IF W[k] = <<>> /\ k < n + 1 THEN g[k - 1] ELSE Append(g[k - 1], W[k])
    <2>1. k - 1 \in 0..(n + 1) - 1 /\ (k - 1) + 1 = k /\ k - 1 \in 0..n + 1
      BY <1>1
    <2>2. g[k] = F[k - 1][g[k - 1]] /\ g[k - 1] \in S
      BY <1>4, <2>1 DEF Steps
    <2> HIDE DEF S
    <2> QED
      BY <2>1, <2>2 DEF F
  <1>6. g[0] = <<>>
    BY <1>4 DEF Steps
  <1>7. g = Body(g)
    <2>1. \A k \in 0..n + 1 : k = 0 \/ k \in 1..n + 1
      BY <1>1
    <2> HIDE DEF S
    <2> QED
      BY <1>2, <1>4, <1>5, <1>6, <2>1
  <1>8. kept = Body(kept)
    BY <1>7
  <1> HIDE DEF kept
  <1>9. /\ kept[0] = <<>>
        /\ \A k \in 1..n + 1 :
             kept[k] = IF W[k] = <<>> /\ k < n + 1 THEN kept[k - 1] ELSE Append(kept[k - 1], W[k])
        /\ kept = [k \in 0..n + 1 |-> kept[k]]
    <2>1. 0 \in 0..n + 1 /\ \A k \in 1..n + 1 : k \in 0..n + 1 /\ k # 0
      BY <1>1
    <2>2. \A k \in 0..n + 1 : kept[k] = IF k = 0 THEN <<>>
                                        ELSE IF W[k] = <<>> /\ k < n + 1 THEN kept[k - 1]
                                        ELSE Append(kept[k - 1], W[k])
      BY <1>2, <1>8
    <2>3. kept = [k \in 0..n + 1 |-> kept[k]]
      BY <1>2, <1>8
    <2> QED
      BY <2>1, <2>2, <2>3
  <1> DEFINE D == {k \in 0..n + 1 : kept[k] \in S}
  <1>10. 0 \in D
    <2>1. 0 \in 0..n + 1 /\ <<>> \in S
      BY <1>1, EmptySeq
    <2> HIDE DEF S
    <2> QED
      BY <1>9, <2>1
  <1>11. \A k \in 0..(n + 1) - 1 : k \in D => k + 1 \in D
    <2> TAKE k \in 0..(n + 1) - 1
    <2> HAVE k \in D
    <2>1. k + 1 \in 1..n + 1 /\ k + 1 \in 0..n + 1 /\ (k + 1) - 1 = k
      BY <1>1
    <2>2. W[k + 1] \in Seq(Letters) /\ kept[k] \in S
      BY <1>2, <2>1
    <2>3. Append(kept[k], W[k + 1]) \in S
      BY <2>2, AppendProperties
    <2> HIDE DEF S
    <2>4. kept[k + 1] = kept[k] \/ kept[k + 1] = Append(kept[k], W[k + 1])
      BY <1>9, <2>1
    <2> QED
      BY <2>1, <2>2, <2>3, <2>4
  <1>12. \A k \in 0..n + 1 : k \in D
    <2> HIDE DEF D
    <2> QED
      BY <1>1, <1>10, <1>11, Upward, Zenon
  <1>13. kept \in [0..n + 1 -> S]
    <2> HIDE DEF S
    <2> QED
      BY <1>9, <1>12
  <1>14. Words(text) = kept[n + 1]
    <2>1. Cut(text, DelimsIn(text)) = W
      <3>1. Len(text) \in Nat
        BY LenProperties
      <3>2. Cut(text, DelimsIn(text)) = [k \in 1..n + 1 |-> SubSeq(text, E[k - 1] + 1, E[k] - 1)]
        BY <3>1, CutIs
      <3> QED
        BY <3>2 DEF W, Piece
    <2>2. Words(text) = kept[Len(W)]
      BY <2>1 DEF Words, DelimsIn, kept, Body
    <2> QED
      BY <1>2, <2>2
  <1> QED
    BY <1>2, <1>9, <1>13, <1>14
LEMMA Regroup ==
    ASSUME NEW S, NEW a \in Seq(S), NEW b \in Seq(S), NEW c \in Seq(S)
    PROVE  (a \o b) \o c = a \o (b \o c)
  BY ConcatAssociative

LEMMA RegroupAll ==
    \A a, b, c \in Seq(Letters) : (a \o b) \o c = a \o (b \o c)
  <1> TAKE a, b, c \in Seq(Letters)
  <1> QED
    BY Regroup

LEMMA AppendCat ==
    ASSUME NEW S, NEW a \in Seq(S), NEW b \in Seq(S), NEW e \in S
    PROVE  Append(a \o b, e) = a \o (b \o <<e>>)
  <1>1. <<e>> \in Seq(S) /\ a \o b \in Seq(S)
    BY ConcatProperties
  <1>2. Append(a \o b, e) = (a \o b) \o <<e>>
    BY <1>1, AppendIsConcat
  <1>3. (a \o b) \o <<e>> = a \o (b \o <<e>>)
    BY <1>1, ConcatAssociative
  <1> QED
    BY <1>2, <1>3

LEMMA CatAppend ==
    ASSUME NEW S, NEW a \in Seq(S), NEW b \in Seq(S), NEW e \in S
    PROVE  (a \o b) \o <<e>> = a \o Append(b, e)
  <1>1. <<e>> \in Seq(S)
    OBVIOUS
  <1>2. Append(b, e) = b \o <<e>>
    BY AppendIsConcat
  <1>3. (a \o b) \o <<e>> = a \o (b \o <<e>>)
    BY <1>1, ConcatAssociative
  <1> QED
    BY <1>2, <1>3

LEMMA SeparatedSteps ==
    ASSUME NEW start \in Seq(Chars), NEW text \in Seq(Letters)
    PROVE  \E m \in [0..Len(text) + 1 -> [out : Seq(Chars), nlen : Int]] :
             /\ Separated(start, text) = m[Len(text) + 1]
             /\ m[0] = [out |-> start, nlen |-> Len(text) + 1]
             /\ \A rp \in 1..Len(text) + 1 : m[rp] = Copied(m[rp - 1], CString(text)[rp])
  <1> DEFINE l == Len(text) + 1
             c == CString(text)
             z == [out |-> start, nlen |-> l]
             Body(f) == [rp \in 0..l |->
                            IF rp = 0 THEN z ELSE Copied(f[rp - 1], c[rp])]
             m == CHOOSE f : f = Body(f)
             S == [out : Seq(Chars), nlen : Int]
             F == [rp \in 0..l - 1 |-> [x \in S |-> Copied(x, c[rp + 1])]]
  <1>1. l \in Nat /\ l >= 1 /\ \A rp \in 1..l : c[rp] \in Chars
    <2>1. c \in Seq(Chars) /\ Len(c) = l /\ Len(text) \in Nat
      BY WordFacts
    <2> QED
      BY <2>1, ElementOfSeq
  <1> HIDE DEF c, l
  <1>2. z \in S
    BY <1>1
  <1>3. ASSUME NEW x \in S, NEW e \in Chars PROVE Copied(x, e) \in S
    <2>1. x.out \in Seq(Chars) /\ x.nlen \in Int /\ x = [out |-> x.out, nlen |-> x.nlen]
      OBVIOUS
    <2>2. Append(x.out, e) \in Seq(Chars) /\ Append(x.out, NUL) \in Seq(Chars)
      BY <2>1, CharFacts, AppendProperties
    <2>3. [x EXCEPT !.out = Append(@, e)] \in S
      BY <2>1, <2>2
    <2>4. [x EXCEPT !.out = Append(@, NUL)] \in S
      BY <2>1, <2>2
    <2>5. [x EXCEPT !.nlen = @ - 1] \in S
      BY <2>1
    <2> HIDE DEF S
    <2> QED
      BY <2>3, <2>4, <2>5 DEF Copied
  <1> HIDE DEF S, z
  <1>4. F \in [0..l - 1 -> [S -> S]]
    <2>1. \A rp \in 0..l - 1 : rp + 1 \in 1..l
      BY <1>1
    <2>2. \A rp \in 0..l - 1 : c[rp + 1] \in Chars
      BY <1>1, <2>1
    <2>3. \A rp \in 0..l - 1, x \in S : Copied(x, c[rp + 1]) \in S
      BY <1>3, <2>2
    <2> QED
      BY <2>3
  <1> HIDE DEF F
  <1>5. PICK g \in [0..l -> S] : Steps(g, F, l, z)
    BY <1>1, <1>2, <1>4, StepsExist
  <1>6. ASSUME NEW rp \in 1..l PROVE g[rp] = Copied(g[rp - 1], c[rp])
    <2>1. rp - 1 \in 0..l - 1 /\ (rp - 1) + 1 = rp /\ rp - 1 \in 0..l
      BY <1>1
    <2>2. g[rp] = F[rp - 1][g[rp - 1]] /\ g[rp - 1] \in S
      BY <1>5, <2>1 DEF Steps
    <2> QED
      BY <2>1, <2>2 DEF F
  <1>7. g[0] = z
    BY <1>5 DEF Steps
  <1>8. g = Body(g)
    <2>1. \A rp \in 0..l : rp = 0 \/ rp \in 1..l
      BY <1>1
    <2> QED
      BY <1>5, <1>6, <1>7, <2>1
  <1>9. m = Body(m)
    BY <1>8
  <1> HIDE DEF m
  <1>10. /\ m[0] = z /\ \A rp \in 1..l : m[rp] = Copied(m[rp - 1], c[rp])
         /\ m = [rp \in 0..l |-> m[rp]]
    <2>1. 0 \in 0..l /\ \A rp \in 1..l : rp \in 0..l /\ rp # 0
      BY <1>1
    <2>2. \A rp \in 0..l : m[rp] = IF rp = 0 THEN z ELSE Copied(m[rp - 1], c[rp])
      BY <1>9
    <2>3. m = [rp \in 0..l |-> m[rp]]
      BY <1>9
    <2> QED
      BY <2>1, <2>2, <2>3
  <1> DEFINE D == {rp \in 0..l : m[rp] \in S}
  <1>11. 0 \in D
    BY <1>1, <1>2, <1>10
  <1>12. \A rp \in 0..l - 1 : rp \in D => rp + 1 \in D
    <2> TAKE rp \in 0..l - 1
    <2> HAVE rp \in D
    <2>1. rp + 1 \in 1..l /\ rp + 1 \in 0..l /\ (rp + 1) - 1 = rp
      BY <1>1
    <2>2. m[rp + 1] = Copied(m[rp], c[rp + 1]) /\ c[rp + 1] \in Chars
      BY <1>1, <1>10, <2>1
    <2> QED
      BY <1>3, <2>1, <2>2
  <1>13. \A rp \in 0..l : rp \in D
    <2> HIDE DEF D
    <2> QED
      BY <1>1, <1>11, <1>12, Upward, Zenon
  <1>14. m \in [0..l -> S]
    BY <1>10, <1>13
  <1>15. Separated(start, text) = m[l]
    BY DEF Separated, m, Body, z, l, c
  <1> QED
    BY <1>10, <1>14, <1>15 DEF S, z, l, c

Copying(m, c, l) ==
    /\ l \in Nat /\ m \in [0..l -> [out : Seq(Chars), nlen : Int]]
    /\ \A rp \in 1..l : m[rp] = Copied(m[rp - 1], c[rp])

(* What is no delimiter is copied.                                         *)
Plain(w, c, r, l) ==
    /\ w \in Seq(Letters) /\ r + Len(w) <= l
    /\ \A i \in 1..Len(w) : w[i] = c[r + i] /\ w[i] # Delim

Grown(x, y, w) == y.out = x.out \o w /\ y.nlen = x.nlen

LEMMA WordCopied ==
    ASSUME NEW l, NEW c, NEW m, Copying(m, c, l), NEW r \in 0..l, NEW w, Plain(w, c, r, l)
    PROVE  Grown(m[r], m[r + Len(w)], w)
  <1> DEFINE e == Len(w)
             o == m[r].out
             D == {i \in 0..e : /\ m[r + i].out = o \o SubSeq(w, 1, i)
                                /\ m[r + i].nlen = m[r].nlen}
  <1> USE DEF Copying, Plain
  <1>1. e \in Nat /\ w \in Seq(Chars) /\ \A i \in 1..e : w[i] \in Letters
    BY WordFacts
  <1>2. o \in Seq(Chars)
    OBVIOUS
  <1> HIDE DEF o
  <1>3. 0 \in D
    <2>1. SubSeq(w, 1, 0) = <<>> /\ o \o <<>> = o /\ r + 0 = r /\ 0 \in 0..e
      BY <1>1, <1>2, Ends, ConcatEmptySeq
    <2>2. m[r].out = o
      BY DEF o
    <2> HIDE DEF e
    <2> QED
      BY <2>1, <2>2
  <1>4. \A i \in 0..e - 1 : i \in D => i + 1 \in D
    <2> TAKE i \in 0..e - 1
    <2> HAVE i \in D
    <2>1. /\ i + 1 \in 1..e /\ i + 1 \in 0..e /\ i \in Nat
          /\ r + (i + 1) \in 1..l /\ (r + (i + 1)) - 1 = r + i /\ r + i \in 0..l
      BY <1>1
    <2>2. m[r + (i + 1)] = Copied(m[r + i], c[r + (i + 1)])
      BY <2>1
    <2>3. c[r + (i + 1)] = w[i + 1] /\ w[i + 1] # Delim /\ w[i + 1] \in Chars
      BY <1>1, <2>1, CharFacts
    <2> DEFINE x == m[r + i]
               v == SubSeq(w, 1, i)
    <2>4. x \in [out : Seq(Chars), nlen : Int]
      BY <2>1
    <2>5. x.out = o \o v /\ x.nlen = m[r].nlen
      OBVIOUS
    <2>6. v \in Seq(Chars) /\ SubSeq(w, 1, i + 1) = v \o <<w[i + 1]>>
      <3>1. w \in Seq(Chars) /\ 1 \in Int /\ i \in Int /\ 1 <= 1 /\ i <= Len(w)
        BY <1>1, <2>1
      <3>2. v \in Seq(Chars)
        BY ONLY <3>1, PartIs
      <3> QED
        BY <1>1, <3>2, OneMore
    <2> HIDE DEF x, v, e
    <2>7. Copied(x, w[i + 1]) = [x EXCEPT !.out = Append(@, w[i + 1])]
      BY <2>3 DEF Copied
    <2>8. /\ [x EXCEPT !.out = Append(@, w[i + 1])].out = Append(o \o v, w[i + 1])
          /\ [x EXCEPT !.out = Append(@, w[i + 1])].nlen = x.nlen
      BY <2>4, <2>5
    <2>9. Append(o \o v, w[i + 1]) = o \o (v \o <<w[i + 1]>>)
      <3> DEFINE y == w[i + 1]
      <3>1. o \in Seq(Chars) /\ v \in Seq(Chars) /\ y \in Chars
        BY <1>2, <2>3, <2>6
      <3> HIDE DEF y
      <3>2. Append(o \o v, y) = o \o (v \o <<y>>)
        BY ONLY <3>1, AppendCat
      <3> QED
        BY <3>2 DEF y
    <2>10. m[r + (i + 1)] = Copied(x, w[i + 1])
      BY <2>2, <2>3 DEF x
    <2>11. m[r + (i + 1)].out = o \o SubSeq(w, 1, i + 1)
      BY <2>6, <2>7, <2>8, <2>9, <2>10
    <2>12. m[r + (i + 1)].nlen = m[r].nlen
      BY <2>5, <2>7, <2>8, <2>10
    <2> QED
      BY <2>1, <2>11, <2>12
  <1> HIDE DEF D
  <1>5. \A i \in 0..e : i \in D
    BY <1>1, <1>3, <1>4, Upward, Zenon
  <1>6. e \in D /\ SubSeq(w, 1, e) = w
    BY <1>1, <1>5, Ends
  <1> QED
    BY <1>6 DEF D, o, Grown

(* A piece of a text, and what follows it there                            *)
PieceIs(text, E, n, k) ==
    /\ E[k - 1] \in Nat /\ E[k] \in Nat /\ E[k - 1] < E[k] /\ E[k] <= Len(text) + 1
    /\ Piece(text, E, k) \in Seq(Letters)
    /\ Len(Piece(text, E, k)) = E[k] - 1 - E[k - 1]
    /\ \A i \in 1..Len(Piece(text, E, k)) :
         /\ Piece(text, E, k)[i] = CString(text)[E[k - 1] + i]
         /\ Piece(text, E, k)[i] # Delim
    /\ CString(text)[E[k]] = IF k = n + 1 THEN NUL ELSE Delim

LEMMA PieceFacts ==
    ASSUME NEW text \in Seq(Letters), NEW E, NEW n, Cuts(E, n, text, DelimsIn(text)),
           NEW k \in 1..n + 1
    PROVE  PieceIs(text, E, n, k)
  <1> DEFINE l == Len(text)
             c == CString(text)
             r == E[k - 1]
             e == E[k]
             w == SubSeq(text, r + 1, e - 1)
  <1>1. /\ n \in Nat /\ E[0] = 0 /\ E[n + 1] = l + 1
        /\ \A j \in 0..n + 1 : E[j] \in Nat
        /\ \A i, j \in 0..n + 1 : i < j => E[i] < E[j]
        /\ {p \in DOMAIN text : text[p] = Delim} = {E[j] : j \in 1..n}
    BY DEF Cuts, DelimsIn
  <1>2. /\ l \in Nat /\ c[l + 1] = NUL /\ \A i \in 1..l : c[i] = text[i]
        /\ DOMAIN text = 1..l
    BY WordFacts, LenProperties
  <1> HIDE DEF l, c
  <1>3. k - 1 \in 0..n + 1 /\ k \in 0..n + 1 /\ k - 1 < k
    BY <1>1
  <1>4. r \in Nat /\ e \in Nat /\ r < e /\ e <= l + 1
    <2>1. E[k] = E[n + 1] \/ E[k] < E[n + 1]
      <3>1. n + 1 \in 0..n + 1 /\ (k = n + 1 \/ k < n + 1)
        BY <1>1
      <3> QED
        BY <1>1, <1>3, <3>1
    <2>2. E[k - 1] \in Nat /\ E[k] \in Nat /\ E[k - 1] < E[k]
      BY <1>1, <1>3
    <2> QED
      BY <1>1, <1>2, <2>1, <2>2
  <1>5. ASSUME NEW p \in 1..l, r < p, p < e PROVE text[p] # Delim
    <2> SUFFICES ASSUME text[p] = Delim PROVE FALSE
      OBVIOUS
    <2>1. p \in {q \in DOMAIN text : text[q] = Delim}
      BY <1>2
    <2>2. PICK j \in 1..n : p = E[j]
      BY <1>1, <2>1
    <2>3. j \in 0..n + 1 /\ (j = k - 1 \/ j < k - 1 \/ j = k \/ k < j)
      BY <1>1, <1>3
    <2>4. E[j] = E[k - 1] \/ E[j] < E[k - 1] \/ E[j] = E[k] \/ E[k] < E[j]
      BY <1>1, <1>3, <2>3
    <2>5. E[j] \in Nat
      BY <1>1, <2>3
    <2> QED
      BY <1>4, <1>5, <2>2, <2>4, <2>5
  <1>6. c[e] = IF k = n + 1 THEN NUL ELSE Delim
    <2>1. CASE k = n + 1
      BY <1>1, <1>2, <2>1
    <2>2. CASE k # n + 1
      <3>1. k \in 1..n
        BY <1>1, <2>2
      <3>2. e \in {p \in DOMAIN text : text[p] = Delim}
        BY <1>1, <3>1
      <3>3. e \in 1..l /\ text[e] = Delim
        BY <1>2, <3>2
      <3> QED
        BY <1>2, <2>2, <3>3
    <2> QED
      BY <2>1, <2>2
  <1> DEFINE lo == r + 1
             hi == e - 1
  <1>7. /\ w \in Seq(Letters)
        /\ Len(w) = IF lo <= hi THEN hi - lo + 1 ELSE 0
        /\ \A i \in 1..hi - lo + 1 : w[i] = text[lo + i - 1]
    <2>1. lo \in Int /\ hi \in Int /\ 1 <= lo /\ hi <= Len(text)
      <3> HIDE DEF r, e
      <3> QED
        BY <1>2, <1>4 DEF l
    <2> HIDE DEF lo, hi
    <2>2. /\ SubSeq(text, lo, hi) \in Seq(Letters)
          /\ Len(SubSeq(text, lo, hi)) = IF lo <= hi THEN hi - lo + 1 ELSE 0
          /\ \A i \in 1..hi - lo + 1 : SubSeq(text, lo, hi)[i] = text[lo + i - 1]
      BY <2>1, PartIs
    <2> QED
      BY <2>2 DEF lo, hi
  <1> HIDE DEF r, e, w
  <1>8. Len(w) = e - 1 - r /\ hi - lo + 1 = e - 1 - r
    <2>1. (IF lo <= hi THEN hi - lo + 1 ELSE 0) = e - 1 - r
      BY <1>4
    <2>2. hi - lo + 1 = e - 1 - r
      BY <1>4
    <2> HIDE DEF lo, hi
    <2> QED
      BY <1>7, <2>1, <2>2
  <1>9. \A i \in 1..Len(w) : w[i] = c[r + i] /\ w[i] # Delim
    <2> TAKE i \in 1..Len(w)
    <2>1. /\ i \in 1..hi - lo + 1 /\ lo + i - 1 = r + i /\ r + i \in 1..l /\ r < r + i /\ r + i < e
      BY <1>2, <1>4, <1>8
    <2>2. w[i] = text[r + i]
      BY <1>7, <2>1
    <2> QED
      BY <1>2, <1>5, <2>1, <2>2
  <1>10. Piece(text, E, k) = w
    BY DEF Piece, w, r, e
  <1> QED
    BY <1>4, <1>6, <1>7, <1>8, <1>9, <1>10 DEF PieceIs, l, c, r, e

LEMMA SeparatedIs ==
    ASSUME NEW s, NEW b, IsVector(s, b), NEW text \in Seq(Letters), text # <<>>
    PROVE  /\ IsVector(s \o Words(text), Separated(b, text).out)
           /\ Len(b) + Separated(b, text).nlen = Len(Separated(b, text).out)
           /\ Separated(b, text).nlen \in Int /\ Separated(b, text).out # <<>>
           /\ Words(text) \in Seq(Seq(Letters))
  <1> DEFINE l == Len(text) + 1
             c == CString(text)
             S == [out : Seq(Chars), nlen : Int]
  <1>1. /\ s \in Seq(Seq(Letters)) /\ b \in Seq(Chars) /\ Len(b) \in Nat
        /\ Len(text) \in Nat /\ l \in Nat
    BY VectorFacts, LenProperties
  <1>2. PICK m \in [0..l -> S] :
             /\ Separated(b, text) = m[l]
             /\ m[0] = [out |-> b, nlen |-> l]
             /\ \A rp \in 1..l : m[rp] = Copied(m[rp - 1], c[rp])
    BY <1>1, SeparatedSteps
  <1>3. PICK n, E : Cuts(E, n, text, DelimsIn(text))
    <2>1. DelimsIn(text) \subseteq 1..Len(text)
      BY LenProperties DEF DelimsIn
    <2> QED
      BY <1>1, <2>1, CutsExist
  <1>4. n \in Nat /\ E[0] = 0 /\ E[n + 1] = l
    BY <1>3 DEF Cuts
  <1>5. PICK kept \in [0..n + 1 -> Seq(Seq(Letters))] :
             /\ Words(text) = kept[n + 1] /\ kept[0] = <<>>
             /\ \A k \in 1..n + 1 :
                  kept[k] = IF Piece(text, E, k) = <<>> /\ k < n + 1 THEN kept[k - 1]
                            ELSE Append(kept[k - 1], Piece(text, E, k))
    <2>1. \A k \in 1..n + 1 : Piece(text, E, k) \in Seq(Letters)
      BY <1>3, PieceFacts DEF PieceIs
    <2> QED
      BY <1>3, <2>1, WordsAre
  <1> HIDE DEF l, c
  <1> DEFINE Reached(k) == /\ IsVector(s \o kept[k], m[E[k]].out)
                           /\ Len(m[E[k]].out) + l = Len(b) + m[E[k]].nlen + E[k]
             D == {k \in 0..n + 1 : Reached(k)}
  <1>6. 0 \in D
    <2>1. s \o kept[0] = s
      BY <1>1, <1>5, ConcatEmptySeq
    <2>2. m[0].out = b /\ m[0].nlen = l /\ 0 \in 0..n + 1
      BY <1>2, <1>4
    <2>3. IsVector(s \o kept[0], m[E[0]].out)
      BY <1>4, <2>1, <2>2
    <2>4. Len(m[E[0]].out) + l = Len(b) + m[E[0]].nlen + E[0]
      BY <1>1, <1>4, <2>2
    <2> QED
      BY <2>2, <2>3, <2>4
  <1>7. ASSUME NEW k \in 1..n + 1, Reached(k - 1) PROVE Reached(k)
    <2> DEFINE r == E[k - 1]
               e == E[k]
               w == Piece(text, E, k)
               o == m[r].out
               x == m[e - 1]
               kp == kept[k - 1]
    <2>1. /\ r \in Nat /\ e \in Nat /\ r < e /\ e <= l
          /\ w \in Seq(Letters) /\ Len(w) = e - 1 - r
          /\ \A i \in 1..Len(w) : w[i] = c[r + i] /\ w[i] # Delim
          /\ c[e] = IF k = n + 1 THEN NUL ELSE Delim
      <3> DEFINE w1 == Piece(text, E, k)
                 l1 == Len(text) + 1
                 c1 == CString(text)
      <3>1. /\ E[k - 1] \in Nat /\ E[k] \in Nat /\ E[k - 1] < E[k] /\ E[k] <= l1
            /\ w1 \in Seq(Letters) /\ Len(w1) = E[k] - 1 - E[k - 1]
            /\ \A i \in 1..Len(w1) : w1[i] = c1[E[k - 1] + i] /\ w1[i] # Delim
            /\ c1[E[k]] = IF k = n + 1 THEN NUL ELSE Delim
        <4>1. PieceIs(text, E, n, k)
          BY <1>3, PieceFacts
        <4> QED
          BY <4>1 DEF PieceIs
      <3> HIDE DEF w1
      <3>2. w1 = w
        BY DEF w1
      <3> HIDE DEF w
      <3> QED
        BY <3>1, <3>2, Zenon DEF l, c
    <2>2. /\ kept[k] = IF w = <<>> /\ k < n + 1 THEN kp ELSE Append(kp, w)
          /\ kp \in Seq(Seq(Letters))
      <3>1. k - 1 \in 0..n + 1
        BY <1>4
      <3> QED
        BY <1>5, <3>1
    <2>3. IsVector(s \o kp, o) /\ Len(o) + l = Len(b) + m[r].nlen + r
      BY <1>7
    <2> HIDE DEF r, e, w, kp
    <2>4. /\ r \in 0..l /\ e \in 1..l /\ e - 1 \in 0..l /\ r + Len(w) = e - 1 /\ r + Len(w) <= l
      BY <1>1, <2>1
    <2>5. x \in S /\ m[r] \in S
      BY <2>4
    <2>6. x.out = o \o w /\ x.nlen = m[r].nlen
      <3>1. Grown(m[r], m[r + Len(w)], w)
        <4>1. /\ l \in Nat /\ m \in [0..l -> [out : Seq(Chars), nlen : Int]]
              /\ \A rp \in 1..l : m[rp] = Copied(m[rp - 1], c[rp])
              /\ r \in 0..l /\ w \in Seq(Letters) /\ r + Len(w) <= l
              /\ \A i \in 1..Len(w) : w[i] = c[r + i] /\ w[i] # Delim
          BY <1>1, <1>2, <2>1, <2>4
        <4>2. Copying(m, c, l) /\ r \in 0..l
          BY <4>1 DEF Copying
        <4>3. Plain(w, c, r, l)
          BY <4>1 DEF Plain
        <4> QED
          BY ONLY <4>2, <4>3, WordCopied, Zenon
      <3> QED
        BY <2>4, <3>1 DEF Grown
    <2>7. m[e] = Copied(x, c[e])
      BY <1>2, <2>4
    <2>8. m[r].nlen \in Int /\ o \in Seq(Chars) /\ Len(o) \in Nat
      BY <2>3, <2>5, VectorFacts
    <2> HIDE DEF o, x, S
    <2>9. CASE w = <<>> /\ k < n + 1
      <3>1. x.out = o /\ e = r + 1 /\ c[e] = Delim
        <4>1. o \o <<>> = o
          BY <2>8, ConcatEmptySeq
        <4>2. Len(w) = 0
          BY <2>9
        <4> QED
          BY <1>4, <2>1, <2>6, <2>9, <4>1, <4>2
      <3>2. o = <<>> \/ Last(o) = NUL
        BY <2>3, VectorFacts DEF Last
      <3>3. Copied(x, c[e]) = [x EXCEPT !.nlen = @ - 1]
        BY <3>1, <3>2 DEF Copied
      <3>4. m[e].out = o /\ m[e].nlen = m[r].nlen - 1
        BY <2>5, <2>6, <2>7, <3>1, <3>3 DEF S
      <3>5. Len(m[e].out) + l = Len(b) + m[e].nlen + e
        <4> DEFINE y == m[r].nlen
                   q == Len(o)
                   z == Len(b)
        <4>1. y \in Int /\ q \in Nat /\ l \in Nat /\ z \in Nat /\ r \in Nat /\ q + l = z + y + r
          BY <1>1, <2>1, <2>3, <2>8
        <4> HIDE DEF y, q, z
        <4>2. q + l = z + (y - 1) + (r + 1)
          BY ONLY <4>1
        <4> QED
          BY <3>1, <3>4, <4>2 DEF y, q, z
      <3>6. IsVector(s \o kept[k], m[e].out)
        BY <2>2, <2>3, <2>9, <3>4
      <3> QED
        BY <3>5, <3>6 DEF e
    <2>10. CASE ~(w = <<>> /\ k < n + 1)
      <3>1. Copied(x, c[e]) = [x EXCEPT !.out = Append(@, NUL)]
        <4>1. CASE k = n + 1
          <5>1. c[e] = NUL /\ c[e] # Delim
            BY <2>1, <4>1, CharFacts
          <5> QED
            BY <5>1 DEF Copied
        <4>2. CASE k # n + 1
          <5>1. w # <<>> /\ c[e] = Delim
            BY <1>4, <2>1, <2>10, <4>2
          <5>2. Len(w) \in 1..Len(w) /\ Len(w) # 0 /\ Len(w) \in Nat
            BY <2>1, <5>1, EmptySeq, LenProperties
          <5>3. w[Len(w)] \in Letters
            BY <2>1, <5>2, WordFacts
          <5>4. w \in Seq(Chars)
            BY <2>1, WordFacts
          <5>5. Len(o \o w) = Len(o) + Len(w) /\ (o \o w)[Len(o) + Len(w)] = w[Len(w)]
            BY <2>8, <5>2, <5>4, CatIs
          <5>6. o \o w # <<>>
            <6> DEFINE ow == o \o w
            <6>1. Len(ow) = Len(o) + Len(w) /\ ow \in Seq(Chars)
              BY <2>8, <5>4, <5>5, ConcatProperties
            <6> HIDE DEF ow
            <6>2. Len(ow) # 0
              BY <2>8, <5>2, <6>1
            <6> QED
              BY <6>1, <6>2, EmptySeq DEF ow
          <5>7. Last(o \o w) # NUL
            BY <5>3, <5>5, CharFacts DEF Last
          <5> QED
            BY <2>6, <5>1, <5>6, <5>7 DEF Copied
        <4> QED
          BY <4>1, <4>2
      <3>2. m[e].out = Append(o \o w, NUL) /\ m[e].nlen = m[r].nlen
        BY <2>5, <2>6, <2>7, <3>1 DEF S
      <3>3. m[e].out = o \o CString(w)
        BY <2>1, <2>8, <3>2, CatCString
      <3>4. kept[k] = Append(kp, w)
        BY <2>2, <2>10
      <3>5. IsVector((s \o kp) \o <<w>>, o \o CString(w))
        BY <2>1, <2>3, OneVector, CatVector
      <3>6. (s \o kp) \o <<w>> = s \o Append(kp, w)
        <4> DEFINE T == Seq(Letters)
        <4>1. s \in Seq(T) /\ kp \in Seq(T) /\ w \in T
          BY <1>1, <2>1, <2>2
        <4> HIDE DEF T
        <4> QED
          BY ONLY <4>1, CatAppend
      <3>7. IsVector(s \o kept[k], m[e].out)
        BY <3>3, <3>4, <3>5, <3>6
      <3>8. Len(m[e].out) = Len(o) + Len(w) + 1
        <4>1. CString(w) \in Seq(Chars) /\ Len(CString(w)) = Len(w) + 1 /\ Len(w) \in Nat
          BY <2>1, WordFacts
        <4>2. Len(o \o CString(w)) = Len(o) + Len(CString(w))
          BY <2>8, <4>1, ConcatProperties
        <4> QED
          BY <2>8, <3>3, <4>1, <4>2
      <3>9. Len(m[e].out) + l = Len(b) + m[e].nlen + e
        <4> DEFINE y == m[r].nlen
                   q == Len(o)
                   v == Len(w)
                   z == Len(b)
        <4>1. /\ y \in Int /\ q \in Nat /\ l \in Nat /\ z \in Nat /\ r \in Nat /\ e \in Nat
              /\ q + l = z + y + r /\ v = e - 1 - r
          BY <1>1, <2>1, <2>3, <2>8
        <4> HIDE DEF y, q, v, z
        <4>2. (q + v + 1) + l = z + y + e
          BY ONLY <4>1
        <4> QED
          BY <3>2, <3>8, <4>2 DEF y, q, v, z
      <3> QED
        BY <3>7, <3>9 DEF e
    <2> QED
      BY <2>9, <2>10
  <1>8. \A k \in 0..(n + 1) - 1 : k \in D => k + 1 \in D
    <2> TAKE k \in 0..(n + 1) - 1
    <2> HAVE k \in D
    <2>1. k + 1 \in 1..n + 1 /\ k + 1 \in 0..n + 1 /\ (k + 1) - 1 = k
      BY <1>4
    <2>2. Reached(k)
      OBVIOUS
    <2> HIDE DEF Reached
    <2>3. Reached((k + 1) - 1)
      BY <2>1, <2>2
    <2>4. Reached(k + 1)
      BY <1>7, <2>1, <2>3
    <2> QED
      BY <2>1, <2>4
  <1>9. Reached(n + 1)
    <2> HIDE DEF Reached, D
    <2>1. n + 1 \in Nat /\ n + 1 \in 0..n + 1
      BY <1>4
    <2>2. \A k \in 0..n + 1 : k \in D
      BY <1>6, <1>8, <2>1, Upward, Zenon
    <2> QED
      BY <2>1, <2>2 DEF D
  <1> DEFINE f == m[l]
  <1>10. IsVector(s \o Words(text), f.out) /\ Len(f.out) + l = Len(b) + f.nlen + l
    BY <1>4, <1>5, <1>9
  <1>11. f.nlen \in Int /\ f.out \in Seq(Chars)
    <2>1. l \in 0..l
      BY <1>1
    <2>2. f \in S
      BY <1>2, <2>1
    <2> HIDE DEF f
    <2> QED
      BY <2>2
  <1>12. Len(b) + f.nlen = Len(f.out)
    <2> DEFINE y == f.nlen
               q == Len(f.out)
               z == Len(b)
    <2>1. y \in Int /\ q \in Nat /\ l \in Nat /\ z \in Nat /\ q + l = z + y + l
      BY <1>1, <1>10, <1>11, LenProperties
    <2> HIDE DEF y, q, z
    <2>2. z + y = q
      BY ONLY <2>1
    <2> QED
      BY <2>2 DEF y, q, z
  <1>13. f.out # <<>> /\ Words(text) \in Seq(Seq(Letters))
    <2>1. n + 1 \in 1..n + 1 /\ ~(n + 1 < n + 1) /\ n \in 0..n + 1 /\ (n + 1) - 1 = n
      BY <1>4
    <2>2. Piece(text, E, n + 1) \in Seq(Letters)
      <3>1. \A k \in 1..n + 1 : Piece(text, E, k) \in Seq(Letters)
        BY <1>3, PieceFacts DEF PieceIs
      <3> QED
        BY ONLY <2>1, <3>1, Zenon
    <2>3. Words(text) = Append(kept[n], Piece(text, E, n + 1)) /\ kept[n] \in Seq(Seq(Letters))
      BY <1>5, <2>1
    <2>4. Words(text) \in Seq(Seq(Letters)) /\ Words(text) # <<>>
      <3> DEFINE a == kept[n]
                 w == Piece(text, E, n + 1)
                 T == Seq(Letters)
      <3>1. a \in Seq(T) /\ w \in T
        BY <2>2, <2>3
      <3> HIDE DEF a, w, T
      <3>2. Append(a, w) \in Seq(T) /\ Append(a, w) # <<>>
        BY ONLY <3>1, AppendProperties
      <3> QED
        BY <2>3, <3>2 DEF a, w, T
    <2>5. s \o Words(text) # <<>>
      <3> DEFINE t == Words(text)
                 st == s \o t
      <3>1. Len(t) \in Nat /\ Len(t) # 0 /\ Len(s) \in Nat /\ Len(st) = Len(s) + Len(t)
        BY <1>1, <2>4, EmptySeq, LenProperties, ConcatProperties
      <3> HIDE DEF st, t
      <3>2. Len(st) # 0
        BY <3>1
      <3>3. Len(<<>>) = 0
        BY EmptySeq
      <3> QED
        BY <3>2, <3>3 DEF st, t
    <2> QED
      BY <1>10, <2>4, <2>5, VectorFacts
  <1> QED
    BY <1>2, <1>10, <1>11, <1>12, <1>13
LEMMA CreateSepHeld ==
    ASSUME NEW s, HeldIn(s, argz, len), NEW text \in Seq(Letters), argz_create_sep(text)
    PROVE  Outcome(s)
  <1> DEFINE m == Separated(<<>>, text)
             t == Words(text)
  <1>1. /\ call' = Call("create_sep", 0, text, <<>>)
        /\ \/ text = <<>> /\ Returns(Null, 0, "0")
           \/ text # <<>> /\ Returns(m.out, m.nlen, "0")
           \/ text # <<>> /\ Returns(Null, len, "ENOMEM")
    BY DEF argz_create_sep
  <1>2. Meaning(call', s) = t /\ call'.op = "create_sep"
    <2>1. Meaning(Call("create_sep", 0, text, <<>>), s) = t
      BY MeaningIs
    <2>2. Call("create_sep", 0, text, <<>>).op = "create_sep"
      BY DEF Call
    <2> QED
      BY <1>1, <2>1, <2>2, Zenon
  <1>3. CASE text = <<>> /\ Returns(Null, 0, "0")
    <2>1. t = <<>>
      BY <1>3 DEF Words
    <2>2. HeldIn(<<>>, Null, 0)
      <3>1. Len(<<>>) = 0
        OBVIOUS
      <3> QED
        BY <3>1, EmptyVector, Held
    <2> HIDE DEF t
    <2>3. argz' = Null /\ len' = 0 /\ err' = "0"
      BY <1>3 DEF Returns
    <2> QED
      BY <1>2, <2>1, <2>2, <2>3 DEF Outcome
  <1>4. CASE text # <<>> /\ Returns(m.out, m.nlen, "0")
    <2>1. /\ IsVector(<<>> \o t, m.out) /\ Len(<<>>) + m.nlen = Len(m.out) /\ m.nlen \in Int
          /\ m.out # <<>> /\ t \in Seq(Seq(Letters))
      BY <1>4, EmptyVector, SeparatedIs
    <2> HIDE DEF m, t
    <2>2. <<>> \o t = t
      BY <2>1, ConcatEmptySeq
    <2>3. m.nlen = Len(m.out)
      <3> DEFINE x == Len(m.out)
      <3>1. 0 + m.nlen = x /\ m.nlen \in Int
        BY <2>1
      <3> HIDE DEF x
      <3>2. m.nlen = x
        BY <3>1
      <3> QED
        BY <3>2 DEF x
    <2>4. argz' = m.out /\ len' = m.nlen /\ err' = "0"
      BY <1>4 DEF Returns
    <2> DEFINE d == m.out
    <2>5. IsVector(t, d) /\ argz' = (IF d = <<>> THEN Null ELSE d) /\ len' = Len(d)
      BY <2>1, <2>2, <2>3, <2>4
    <2> HIDE DEF d
    <2>6. HeldIn(t, argz', len')
      BY <2>5, Held
    <2> QED
      BY <1>2, <2>4, <2>6 DEF Outcome
  <1>5. CASE Returns(Null, len, "ENOMEM")
    BY <1>2, <1>5 DEF Returns, Outcome
  <1> QED
    BY <1>1, <1>3, <1>4, <1>5

LEMMA AddSepHeld ==
    ASSUME NEW s, HeldIn(s, argz, len), NEW text \in Seq(Letters), argz_add_sep(text)
    PROVE  Outcome(s)
  <1> DEFINE m == Separated(Block, text)
             t == s \o Words(text)
  <1>1. /\ call' = Call("add_sep", 0, text, <<>>)
        /\ \/ text = <<>> /\ Returns(argz, len, "0")
           \/ text # <<>> /\ Returns(m.out, len + m.nlen, "0")
           \/ text # <<>> /\ Returns(Null, len, "ENOMEM")
    BY DEF argz_add_sep
  <1>2. Meaning(call', s) = t /\ call'.op = "add_sep"
    <2>1. Meaning(Call("add_sep", 0, text, <<>>), s) = t
      BY MeaningIs
    <2>2. Call("add_sep", 0, text, <<>>).op = "add_sep"
      BY DEF Call
    <2> QED
      BY <1>1, <2>1, <2>2, Zenon
  <1>3. s \in Seq(Seq(Letters)) /\ IsVector(s, Block) /\ len = Len(Block)
    BY HeldFacts
  <1>4. CASE text = <<>> /\ Returns(argz, len, "0")
    <2>1. Words(text) = <<>>
      BY <1>4 DEF Words
    <2>2. t = s
      BY <1>3, <2>1, ConcatEmptySeq
    <2> HIDE DEF t
    <2>3. argz' = argz /\ len' = len /\ err' = "0"
      BY <1>4 DEF Returns
    <2> QED
      BY <1>2, <2>2, <2>3 DEF Outcome
  <1>5. CASE text # <<>> /\ Returns(m.out, len + m.nlen, "0")
    <2>1. IsVector(t, m.out) /\ Len(Block) + m.nlen = Len(m.out) /\ m.out # <<>>
      BY <1>3, <1>5, SeparatedIs
    <2> HIDE DEF m, t
    <2>2. argz' = m.out /\ len' = len + m.nlen /\ err' = "0"
      BY <1>5 DEF Returns
    <2> DEFINE d == m.out
    <2>3. IsVector(t, d) /\ argz' = (IF d = <<>> THEN Null ELSE d) /\ len' = Len(d)
      BY <1>3, <2>1, <2>2
    <2> HIDE DEF d
    <2>4. HeldIn(t, argz', len')
      BY <2>3, Held
    <2> QED
      BY <1>2, <2>2, <2>4 DEF Outcome
  <1>6. CASE Returns(Null, len, "ENOMEM")
    BY <1>2, <1>6 DEF Returns, Outcome
  <1> QED
    BY <1>1, <1>4, <1>5, <1>6
-----------------------------------------------------------------------------
(* argz_replace: one string                                                *)

(* A part of a part                                                        *)
LEMMA PartOfPart ==
    ASSUME NEW S, NEW a \in Seq(S), NEW p \in 1..Len(a) + 1, NEW i \in Nat, NEW n \in Nat,
           i >= 1, p + i - 1 + n <= Len(a) + 1
    PROVE  SubSeq(SubSeq(a, p, Len(a)), i, i + n - 1) = SubSeq(a, p + i - 1, p + i - 1 + n - 1)
  <1> DEFINE l == Len(a)
             f == SubSeq(a, p, l)
             hi == i + n - 1
             lo2 == p + i - 1
             hi2 == lo2 + n - 1
             u == SubSeq(f, i, hi)
             v == SubSeq(a, lo2, hi2)
  <1>1. l \in Nat /\ p \in Nat /\ p >= 1 /\ p <= l + 1
    BY LenProperties
  <1>2. f \in Seq(S) /\ Len(f) = l + 1 - p /\ \A j \in 1..l + 1 - p : f[j] = a[p + j - 1]
    <2>1. p \in Int /\ l \in Int /\ 1 <= p /\ l <= Len(a)
      BY <1>1
    <2>2. l - p + 1 = l + 1 - p /\ (IF p <= l THEN l - p + 1 ELSE 0) = l + 1 - p
      BY <1>1
    <2> HIDE DEF l
    <2>3. /\ SubSeq(a, p, l) \in Seq(S)
          /\ Len(SubSeq(a, p, l)) = IF p <= l THEN l - p + 1 ELSE 0
          /\ \A j \in 1..l - p + 1 : SubSeq(a, p, l)[j] = a[p + j - 1]
      BY <2>1, PartIs
    <2> QED
      BY <2>2, <2>3
  <1> HIDE DEF f, l
  <1>3. /\ i \in Int /\ hi \in Int /\ 1 <= i /\ hi <= l + 1 - p
        /\ lo2 \in Int /\ hi2 \in Int /\ 1 <= lo2 /\ hi2 <= l
        /\ hi - i + 1 = n /\ (IF i <= hi THEN hi - i + 1 ELSE 0) = n
        /\ hi2 - lo2 + 1 = n /\ (IF lo2 <= hi2 THEN hi2 - lo2 + 1 ELSE 0) = n
        /\ \A j \in 1..n : /\ i + j - 1 \in 1..l + 1 - p
                           /\ p + (i + j - 1) - 1 = lo2 + j - 1
    BY <1>1 DEF l
  <1> HIDE DEF hi, lo2, hi2
  <1>4. u \in Seq(S) /\ Len(u) = n /\ \A j \in 1..n : u[j] = f[i + j - 1]
    <2>1. f \in Seq(S) /\ i \in Int /\ hi \in Int /\ 1 <= i /\ hi <= Len(f)
      BY <1>2, <1>3
    <2>2. /\ SubSeq(f, i, hi) \in Seq(S)
          /\ Len(SubSeq(f, i, hi)) = IF i <= hi THEN hi - i + 1 ELSE 0
          /\ \A j \in 1..hi - i + 1 : SubSeq(f, i, hi)[j] = f[i + j - 1]
      BY ONLY <2>1, PartIs
    <2> QED
      BY <1>3, <2>2
  <1>5. v \in Seq(S) /\ Len(v) = n /\ \A j \in 1..n : v[j] = a[lo2 + j - 1]
    <2>1. a \in Seq(S) /\ lo2 \in Int /\ hi2 \in Int /\ 1 <= lo2 /\ hi2 <= Len(a)
      BY <1>3 DEF l
    <2>2. /\ SubSeq(a, lo2, hi2) \in Seq(S)
          /\ Len(SubSeq(a, lo2, hi2)) = IF lo2 <= hi2 THEN hi2 - lo2 + 1 ELSE 0
          /\ \A j \in 1..hi2 - lo2 + 1 : SubSeq(a, lo2, hi2)[j] = a[lo2 + j - 1]
      BY ONLY <2>1, PartIs
    <2> QED
      BY <1>3, <2>2
  <1> HIDE DEF u, v
  <1>6. \A j \in 1..Len(u) : u[j] = v[j]
    <2> TAKE j \in 1..Len(u)
    <2>1. j \in 1..n
      BY <1>4
    <2>2. f[i + j - 1] = a[p + (i + j - 1) - 1]
      BY <1>2, <1>3, <2>1
    <2> QED
      BY <1>3, <1>4, <1>5, <2>1, <2>2
  <1>7. u = v
    BY <1>4, <1>5, <1>6, SeqEqual
  <1> QED
    BY <1>7 DEF u, v, f, l, hi, lo2, hi2

(* A part that begins one place further on                                 *)
LEMMA OneLess ==
    ASSUME NEW S, NEW a \in Seq(S), NEW p \in 1..Len(a), NEW q \in p..Len(a)
    PROVE  SubSeq(a, p, q) = <<a[p]>> \o SubSeq(a, p + 1, q)
  <1> DEFINE u == SubSeq(a, p, q)
             o == p + 1
             v == SubSeq(a, o, q)
             e == <<a[p]>>
  <1>1. Len(a) \in Nat /\ p \in Nat /\ q \in Nat /\ 1 <= p /\ p <= q /\ q <= Len(a)
    BY LenProperties
  <1>2. u \in Seq(S) /\ Len(u) = q - p + 1 /\ \A i \in 1..q - p + 1 : u[i] = a[p + i - 1]
    BY <1>1, PartIs
  <1>3. o \in Int /\ 1 <= o /\ (IF o <= q THEN q - o + 1 ELSE 0) = q - p /\ q - o + 1 = q - p
    BY <1>1
  <1> HIDE DEF o
  <1>4. v \in Seq(S) /\ Len(v) = q - p /\ \A i \in 1..q - p : v[i] = a[o + i - 1]
    <2>1. /\ v \in Seq(S) /\ Len(v) = (IF o <= q THEN q - o + 1 ELSE 0)
          /\ \A i \in 1..q - o + 1 : v[i] = a[o + i - 1]
      <3>1. q \in Int
        BY <1>1
      <3> QED
        BY <1>1, <1>3, <3>1, PartIs
    <2> HIDE DEF v
    <2> QED
      BY <1>3, <2>1
  <1>5. e \in Seq(S) /\ Len(e) = 1 /\ e[1] = a[p]
    <2>1. a[p] \in S
      BY ElementOfSeq
    <2> QED
      BY <2>1
  <1> HIDE DEF u, v, e
  <1>6. /\ e \o v \in Seq(S) /\ Len(e \o v) = Len(e) + Len(v)
        /\ \A i \in 1..Len(e) : (e \o v)[i] = e[i]
        /\ \A i \in 1..Len(v) : (e \o v)[Len(e) + i] = v[i]
    <2>1. e \in Seq(S) /\ v \in Seq(S)
      BY <1>4, <1>5
    <2> QED
      BY ONLY <2>1, CatIs
  <1> DEFINE w == e \o v
  <1>7. w \in Seq(S) /\ Len(w) = q - p + 1
    <2> DEFINE x == Len(w)
    <2>1. x = Len(e) + Len(v) /\ Len(e) = 1 /\ Len(v) = q - p
      BY <1>4, <1>5, <1>6
    <2> HIDE DEF x
    <2>2. x = q - p + 1
      BY <1>1, <2>1
    <2> QED
      BY <1>6, <2>2 DEF x
  <1>8. \A i \in 1..q - p + 1 : u[i] = w[i]
    <2> TAKE i \in 1..q - p + 1
    <2>1. CASE i = 1
      <3>1. w[1] = e[1]
        BY <1>5, <1>6
      <3>2. u[1] = a[p]
        <4>1. 1 \in 1..q - p + 1 /\ p + 1 - 1 = p
          BY <1>1
        <4> QED
          BY <1>2, <4>1
      <3> HIDE DEF w
      <3> QED
        BY <1>5, <2>1, <3>1, <3>2
    <2>2. CASE i # 1
      <3>1. i - 1 \in 1..q - p /\ 1 + (i - 1) = i /\ o + (i - 1) - 1 = p + i - 1
        BY <1>1, <2>2 DEF o
      <3>2. w[1 + (i - 1)] = v[i - 1]
        BY <1>4, <1>5, <1>6, <3>1
      <3> HIDE DEF w
      <3> QED
        BY <1>2, <1>4, <3>1, <3>2
    <2> QED
      BY <2>1, <2>2
  <1> HIDE DEF w
  <1>9. u = w
    BY <1>2, <1>7, <1>8, SeqEqual
  <1> QED
    BY <1>9 DEF u, v, w, e, o

MatchAt(arg, q, str) ==
    q + Len(str) - 1 <= Len(arg) /\ SubSeq(arg, q, q + Len(str) - 1) = str

(* strstr finds the first match from p on.                                 *)
LEMMA FirstMatch ==
    ASSUME NEW arg \in Seq(Letters), NEW str \in Seq(Letters), str # <<>>,
           NEW p \in 1..Len(arg) + 1
    PROVE  LET match == StrStr(From(arg, p), str)
           IN /\ match \in Nat
              /\ match = 0 => \A q \in p..Len(arg) : ~MatchAt(arg, q, str)
              /\ match # 0 => /\ p + match - 1 \in p..Len(arg)
                              /\ p + match - 1 + Len(str) \in p + 1..Len(arg) + 1
                              /\ MatchAt(arg, p + match - 1, str)
                              /\ \A q \in p..p + match - 2 : ~MatchAt(arg, q, str)
  <1> DEFINE f == From(arg, p)
             l == Len(arg)
             n == Len(str)
             at == {i \in 1..Len(f) - n + 1 : SubSeq(f, i, i + n - 1) = str}
             match == StrStr(f, str)
  <1>1. l \in Nat /\ n \in Nat /\ n >= 1 /\ p \in Nat /\ p >= 1 /\ p <= l + 1
    BY LenProperties, EmptySeq
  <1>2. Len(f) = l + 1 - p
    <2>1. p \in Int /\ l \in Int /\ 1 <= p /\ l <= Len(arg)
      BY <1>1
    <2>2. (IF p <= l THEN l - p + 1 ELSE 0) = l + 1 - p
      BY <1>1
    <2> HIDE DEF l
    <2>3. Len(SubSeq(arg, p, l)) = IF p <= l THEN l - p + 1 ELSE 0
      BY <2>1, PartIs
    <2> QED
      BY <2>2, <2>3 DEF From, l
  <1> HIDE DEF f
  <1>3. ASSUME NEW i \in Nat, i >= 1
        PROVE  i \in at <=> MatchAt(arg, p + i - 1, str)
    <2>1. i \in 1..Len(f) - n + 1 <=> p + i - 1 + n - 1 <= l
      BY <1>1, <1>2, <1>3
    <2>2. p + i - 1 + n - 1 <= l =>
            SubSeq(f, i, i + n - 1) = SubSeq(arg, p + i - 1, p + i - 1 + n - 1)
      <3> SUFFICES ASSUME p + i - 1 + n - 1 <= l
                   PROVE  SubSeq(f, i, i + n - 1) = SubSeq(arg, p + i - 1, p + i - 1 + n - 1)
        OBVIOUS
      <3>1. p + i - 1 + n <= l + 1
        BY <1>1
      <3> QED
        BY <1>1, <1>3, <3>1, PartOfPart DEF f, From
    <2> QED
      BY <2>1, <2>2 DEF MatchAt
  <1>4. at \subseteq Nat \ {0} /\ \A i \in at : i <= l + 1
    BY <1>1, <1>2
  <1>5. match = IF at = {} THEN 0 ELSE Min(at)
    BY DEF StrStr
  <1>6. at # {} => Min(at) \in at /\ \A i \in at : Min(at) <= i
    <2> HIDE DEF at
    <2> SUFFICES ASSUME at # {} PROVE Min(at) \in at /\ \A i \in at : Min(at) <= i
      OBVIOUS
    <2>1. \E i \in at : \A j \in at : i <= j
      <3> DEFINE T == {k \in 1..l + 1 : l + 2 - k \in at}
      <3>1. T \subseteq 1..l + 1 /\ l + 1 \in Nat
        BY <1>1
      <3>2. \A i \in at : l + 2 - i \in T
        BY <1>1, <1>4
      <3>3. T # {}
        BY <3>2
      <3>4. PICK k \in T : \A j \in T : j <= k
        <4> HIDE DEF T
        <4> QED
          BY <3>1, <3>3, GreatestIs
      <3>5. l + 2 - k \in at /\ k \in Nat
        BY <1>1, <3>4
      <3>6. \A i \in at : l + 2 - k <= i
        <4> TAKE i \in at
        <4>1. l + 2 - i <= k /\ i \in Nat
          BY <1>4, <3>2, <3>4
        <4> QED
          BY <1>1, <3>5, <4>1
      <3> QED
        BY <3>5, <3>6
    <2> QED
      BY <2>1 DEF Min
  <1> HIDE DEF at, match
  <1>7. match \in Nat
    BY <1>4, <1>5, <1>6
  <1>8. ASSUME match = 0, NEW q \in p..l PROVE ~MatchAt(arg, q, str)
    <2>1. q - p + 1 \in Nat /\ q - p + 1 >= 1 /\ p + (q - p + 1) - 1 = q
      BY <1>1
    <2>2. at = {}
      BY <1>4, <1>5, <1>6, <1>8
    <2>3. q - p + 1 \in at <=> MatchAt(arg, p + (q - p + 1) - 1, str)
      BY <1>3, <2>1
    <2> QED
      BY <2>1, <2>2, <2>3
  <1>9. ASSUME match # 0
        PROVE  /\ p + match - 1 \in p..l
               /\ p + match - 1 + n \in p + 1..l + 1
               /\ MatchAt(arg, p + match - 1, str)
               /\ \A q \in p..p + match - 2 : ~MatchAt(arg, q, str)
    <2>1. match \in at /\ (\A i \in at : match <= i) /\ match >= 1
      BY <1>4, <1>5, <1>6, <1>7, <1>9
    <2>2. MatchAt(arg, p + match - 1, str)
      BY <1>3, <1>7, <2>1
    <2>3. p + match - 1 + n - 1 <= l
      BY <2>2 DEF MatchAt
    <2>4. p + match - 1 \in p..l /\ p + match - 1 + n \in p + 1..l + 1
      BY <1>1, <1>7, <2>1, <2>3
    <2>5. ASSUME NEW q \in p..p + match - 2 PROVE ~MatchAt(arg, q, str)
      <3>1. q - p + 1 \in Nat /\ q - p + 1 >= 1 /\ p + (q - p + 1) - 1 = q /\ q - p + 1 < match
        BY <1>1, <1>7
      <3>2. q - p + 1 \notin at
        BY <1>7, <2>1, <3>1
      <3>3. q - p + 1 \in at <=> MatchAt(arg, p + (q - p + 1) - 1, str)
        BY <1>3, <3>1
      <3> QED
        BY <3>1, <3>2, <3>3
    <2> QED
      BY <2>2, <2>4, <2>5
  <1> QED
    BY <1>7, <1>8, <1>9 DEF match, f, l, n
(* Substitute, place by place                                              *)
Unfolds(from, arg, str, with) ==
    /\ from \in [1..Len(arg) + 1 -> Seq(Letters)]
    /\ from[Len(arg) + 1] = <<>>
    /\ \A p \in 1..Len(arg) :
         /\ MatchAt(arg, p, str) => /\ p + Len(str) \in p + 1..Len(arg) + 1
                                    /\ from[p] = with \o from[p + Len(str)]
         /\ ~MatchAt(arg, p, str) => from[p] = <<arg[p]>> \o from[p + 1]

LEMMA SubstituteIs ==
    ASSUME NEW arg \in Seq(Letters), NEW str \in Seq(Letters), str # <<>>,
           NEW with \in Seq(Letters)
    PROVE  \E from : /\ Unfolds(from, arg, str, with)
                     /\ Substitute(arg, str, with) = from[1]
  <1> DEFINE l == Len(arg)
             n == Len(str)
             W == Seq(Letters)
             Body(f) == [p \in 1..Len(arg) + 1 |->
                            IF p > Len(arg) THEN <<>>
                            ELSE IF p + Len(str) - 1 <= Len(arg) /\ SubSeq(arg, p, p + Len(str) - 1) = str
                                 THEN with \o f[p + Len(str)]
                            ELSE <<arg[p]>> \o f[p + 1]]
             from == CHOOSE f : f = Body(f)
             nx == [p \in 1..l |-> IF MatchAt(arg, p, str) THEN p + n ELSE p + 1]
             F == [p \in 1..l |-> [x \in W |-> IF MatchAt(arg, p, str) THEN with \o x
                                               ELSE <<arg[p]>> \o x]]
  <1>1. l \in Nat /\ n \in Nat /\ n >= 1
    BY LenProperties, EmptySeq
  <1>2. \A p \in 1..l : MatchAt(arg, p, str) => p + n \in p + 1..l + 1
    <2> SUFFICES ASSUME NEW p \in 1..l, MatchAt(arg, p, str) PROVE p + n \in p + 1..l + 1
      OBVIOUS
    <2>1. p + n - 1 <= l
      BY DEF MatchAt
    <2> QED
      BY <1>1, <2>1
  <1>3. nx \in [1..l -> 1..l + 1] /\ \A p \in 1..l : nx[p] > p
    <2>1. \A p \in 1..l : p + 1 \in 1..l + 1 /\ p + 1 > p
      BY <1>1
    <2>2. \A p \in 1..l : MatchAt(arg, p, str) => p + n \in 1..l + 1 /\ p + n > p
      BY <1>1, <1>2
    <2> HIDE DEF l, n
    <2> QED
      BY <2>1, <2>2
  <1>4. F \in [1..l -> [W -> W]] /\ <<>> \in W
    <2>1. \A p \in 1..l : <<arg[p]>> \in W
      BY ElementOfSeq
    <2>2. \A p \in 1..l : \A x \in W : with \o x \in W /\ <<arg[p]>> \o x \in W
      BY <2>1, ConcatProperties
    <2>3. <<>> \in W
      BY EmptySeq
    <2> HIDE DEF W, l
    <2> QED
      BY <2>2, <2>3
  <1>5. \E f : f = Body(f)
    <2> HIDE DEF F, nx, W
    <2>1. PICK f \in [1..l + 1 -> W] : Jumps(f, F, nx, l, <<>>)
      BY <1>1, <1>3, <1>4, JumpsExist
    <2>2. ASSUME NEW p \in 1..l
          PROVE  f[p] = IF MatchAt(arg, p, str) THEN with \o f[p + n] ELSE <<arg[p]>> \o f[p + 1]
      <3>1. f[p] = F[p][f[nx[p]]] /\ nx[p] = IF MatchAt(arg, p, str) THEN p + n ELSE p + 1
        BY <2>1 DEF Jumps, nx
      <3>2. f[nx[p]] \in W
        BY <1>3
      <3> HIDE DEF n, l
      <3> QED
        BY <3>1, <3>2 DEF F
    <2>3. \A p \in 1..l + 1 : (p > l <=> p \notin 1..l) /\ (p > l <=> p = l + 1)
      BY <1>1
    <2>4. f[l + 1] = <<>>
      BY <2>1 DEF Jumps
    <2>5. f = [p \in 1..l + 1 |->
                 IF p > l THEN <<>>
                 ELSE IF MatchAt(arg, p, str) THEN with \o f[p + n] ELSE <<arg[p]>> \o f[p + 1]]
      <3> HIDE DEF n, l
      <3> QED
        BY <2>2, <2>3, <2>4
    <2> QED
      BY <2>5 DEF MatchAt
  <1>6. from = Body(from)
    BY <1>5
  <1> HIDE DEF from
  <1>7. from = [p \in 1..l + 1 |->
                  IF p > l THEN <<>>
                  ELSE IF MatchAt(arg, p, str) THEN with \o from[p + n]
                  ELSE <<arg[p]>> \o from[p + 1]]
    BY <1>6 DEF MatchAt
  <1>8. Substitute(arg, str, with) = from[1]
    BY DEF Substitute, from
  <1> HIDE DEF Body, l, n
  <1>9. from[l + 1] = <<>>
    BY <1>1, <1>7
  <1>10. ASSUME NEW p \in 1..l
         PROVE  /\ MatchAt(arg, p, str) => from[p] = with \o from[p + n]
                /\ ~MatchAt(arg, p, str) => from[p] = <<arg[p]>> \o from[p + 1]
    <2>1. p \in 1..l + 1 /\ ~(p > l)
      BY <1>1
    <2> QED
      BY <1>7, <2>1
  <1>11. from \in [1..l + 1 -> W]
    <2> DEFINE D == {p \in 1..l + 1 : from[p] \in W}
    <2>1. ASSUME NEW p \in 1..l + 1, \A q \in p + 1..l + 1 : q \in D PROVE p \in D
      <3>1. CASE p = l + 1
        BY <1>4, <1>9, <3>1
      <3>2. CASE p \in 1..l /\ MatchAt(arg, p, str)
        <4>1. p + n \in D
          BY <1>2, <2>1, <3>2
        <4>2. from[p] = F[p][from[p + n]] /\ from[p + n] \in W
          BY <1>10, <3>2, <4>1
        <4> HIDE DEF F
        <4> QED
          BY <1>4, <3>2, <4>2
      <3>3. CASE p \in 1..l /\ ~MatchAt(arg, p, str)
        <4>1. p + 1 \in p + 1..l + 1
          BY <1>1, <3>3
        <4>2. p + 1 \in D
          BY <2>1, <4>1
        <4>3. from[p] = F[p][from[p + 1]] /\ from[p + 1] \in W
          BY <1>10, <3>3, <4>2
        <4> HIDE DEF F
        <4> QED
          BY <1>4, <3>3, <4>3
      <3>4. p = l + 1 \/ p \in 1..l
        BY <1>1
      <3> QED
        BY <3>1, <3>2, <3>3, <3>4
    <2>2. l + 1 \in Nat
      BY <1>1
    <2> HIDE DEF D
    <2>3. \A p \in 1..l + 1 : p \in D
      BY <2>1, <2>2, Downward, Zenon
    <2>4. \A p \in 1..l + 1 : from[p] \in W
      BY <2>3 DEF D
    <2> HIDE DEF W
    <2> QED
      BY <1>7, <2>4
  <1>12. Unfolds(from, arg, str, with)
    BY <1>2, <1>9, <1>10, <1>11 DEF Unfolds, l, n
  <1> QED
    BY <1>8, <1>12
(* Where nothing matches, Substitute copies.                               *)
Copies(from, arg, str) ==
    \A r \in 1..Len(arg) + 1 : \A p \in 1..r :
       (\A q \in p..r - 1 : ~MatchAt(arg, q, str)) => from[p] = SubSeq(arg, p, r - 1) \o from[r]

LEMMA Unmatched ==
    ASSUME NEW arg \in Seq(Letters), NEW str \in Seq(Letters), str # <<>>,
           NEW with \in Seq(Letters), NEW from, Unfolds(from, arg, str, with)
    PROVE  Copies(from, arg, str)
  <1> SUFFICES ASSUME NEW r \in 1..Len(arg) + 1
               PROVE  \A p \in 1..r :
                        (\A q \in p..r - 1 : ~MatchAt(arg, q, str))
                           => from[p] = SubSeq(arg, p, r - 1) \o from[r]
    BY DEF Copies
  <1> DEFINE l == Len(arg)
             W == Seq(Letters)
             D == {i \in 1..r : (\A q \in i..r - 1 : ~MatchAt(arg, q, str))
                                   => from[i] = SubSeq(arg, i, r - 1) \o from[r]}
  <1>1. l \in Nat /\ r \in Nat /\ r >= 1 /\ r <= l + 1
    BY LenProperties
  <1>2. \A i \in 1..l + 1 : from[i] \in W
    BY DEF Unfolds
  <1>3. from[r] \in W
    BY <1>1, <1>2
  <1>4. ASSUME NEW i \in 1..r, \A j \in i + 1..r : j \in D PROVE i \in D
    <2> SUFFICES ASSUME \A q \in i..r - 1 : ~MatchAt(arg, q, str)
                 PROVE  from[i] = SubSeq(arg, i, r - 1) \o from[r]
      OBVIOUS
    <2>1. CASE i = r
      <3>1. SubSeq(arg, i, r - 1) = <<>>
        <4>1. arg \in Seq(Letters) /\ i \in Int /\ r - 1 \in Int /\ 1 <= i /\ r - 1 <= Len(arg)
          BY <1>1
        <4>2. SubSeq(arg, i, r - 1) \in Seq(Letters)
          BY ONLY <4>1, PartIs
        <4>3. Len(SubSeq(arg, i, r - 1)) = IF i <= r - 1 THEN r - 1 - i + 1 ELSE 0
          BY ONLY <4>1, PartIs
        <4>4. ~(i <= r - 1)
          BY <1>1, <2>1
        <4>5. Len(SubSeq(arg, i, r - 1)) = 0
          <5> DEFINE z == Len(SubSeq(arg, i, r - 1))
          <5> HIDE DEF z
          <5>1. z = IF i <= r - 1 THEN r - 1 - i + 1 ELSE 0
            BY <4>3 DEF z
          <5>2. z = 0
            BY <4>4, <5>1
          <5> QED
            BY <5>2 DEF z
        <4> QED
          BY <4>2, <4>5, EmptySeq
      <3>2. <<>> \o from[r] = from[r]
        BY <1>3, ConcatEmptySeq
      <3> QED
        BY <2>1, <3>1, <3>2
    <2>2. CASE i # r
      <3>1. i + 1 \in i + 1..r /\ i \in 1..l /\ r - 1 \in i..l /\ i \in i..r - 1
        BY <1>1, <2>2
      <3>2. from[i + 1] = SubSeq(arg, i + 1, r - 1) \o from[r]
        <4>1. \A q \in i + 1..r - 1 : q \in i..r - 1
          BY <1>1
        <4>2. i + 1 \in D
          BY <1>4, <3>1
        <4> QED
          BY <4>1, <4>2
      <3>3. from[i] = <<arg[i]>> \o from[i + 1]
        BY <3>1 DEF Unfolds
      <3>4. SubSeq(arg, i, r - 1) = <<arg[i]>> \o SubSeq(arg, i + 1, r - 1)
        BY <3>1, OneLess
      <3>5. arg[i] \in Letters /\ SubSeq(arg, i + 1, r - 1) \in W
        <4>1. arg[i] \in Letters
          BY <3>1, ElementOfSeq
        <4>2. arg \in Seq(Letters) /\ i + 1 \in Int /\ r - 1 \in Int /\ 1 <= i + 1 /\ r - 1 <= Len(arg)
          BY <1>1
        <4>3. SubSeq(arg, i + 1, r - 1) \in Seq(Letters)
          BY ONLY <4>2, PartIs
        <4> QED
          BY <4>1, <4>3
      <3>6. <<arg[i]>> \o from[i + 1] = SubSeq(arg, i, r - 1) \o from[r]
        <4>1. /\ arg[i] \in Letters /\ SubSeq(arg, i + 1, r - 1) \in Seq(Letters)
              /\ from[r] \in Seq(Letters)
          BY <1>3, <3>5
        <4>2. <<arg[i]>> \in Seq(Letters)
          BY <4>1
        <4>3. \A a, b, c \in Seq(Letters) : (a \o b) \o c = a \o (b \o c)
          BY ONLY RegroupAll, Zenon
        <4>4. (<<arg[i]>> \o SubSeq(arg, i + 1, r - 1)) \o from[r]
                = <<arg[i]>> \o (SubSeq(arg, i + 1, r - 1) \o from[r])
          BY ONLY <4>1, <4>2, <4>3, Zenon
        <4> QED
          BY ONLY <3>2, <3>4, <4>4, Zenon
      <3> QED
        BY <3>3, <3>6
    <2> QED
      BY <2>1, <2>2
  <1> HIDE DEF D
  <1>5. \A i \in 1..r : i \in D
    BY <1>1, <1>4, Downward, Zenon
  <1> QED
    BY <1>5 DEF D

(* Where the first match from p on is, and what follows it                 *)
LEMMA Matching ==
    ASSUME NEW arg \in Seq(Letters), NEW str \in Seq(Letters), str # <<>>,
           NEW p \in 1..Len(arg) + 1
    PROVE  LET match == StrStr(From(arg, p), str)
           IN /\ match = 0 => \A q \in p..Len(arg) : ~MatchAt(arg, q, str)
              /\ match # 0 =>
                   \E r \in p..Len(arg) :
                      /\ p + match - 2 = r - 1
                      /\ AfterMatch(arg, p, str) = r + Len(str)
                      /\ r + Len(str) \in p + 1..Len(arg) + 1
                      /\ MatchAt(arg, r, str)
                      /\ \A q \in p..r - 1 : ~MatchAt(arg, q, str)
  <1> DEFINE match == StrStr(From(arg, p), str)
             r == p + match - 1
  <1>1. /\ match \in Nat
        /\ match = 0 => \A q \in p..Len(arg) : ~MatchAt(arg, q, str)
        /\ match # 0 => /\ r \in p..Len(arg)
                        /\ r + Len(str) \in p + 1..Len(arg) + 1
                        /\ MatchAt(arg, r, str)
                        /\ \A q \in p..p + match - 2 : ~MatchAt(arg, q, str)
    BY FirstMatch
  <1>2. AfterMatch(arg, p, str) = r + Len(str)
    BY DEF AfterMatch
  <1>3. p + match - 2 = r - 1
    <2> HIDE DEF match
    <2> QED
      BY <1>1
  <1> HIDE DEF r, match
  <1>4. ASSUME match # 0
        PROVE  \E r2 \in p..Len(arg) :
                 /\ p + match - 2 = r2 - 1
                 /\ AfterMatch(arg, p, str) = r2 + Len(str)
                 /\ r2 + Len(str) \in p + 1..Len(arg) + 1
                 /\ MatchAt(arg, r2, str)
                 /\ \A q \in p..r2 - 1 : ~MatchAt(arg, q, str)
    <2>1. \A q \in p..r - 1 : ~MatchAt(arg, q, str)
      BY <1>1, <1>3, <1>4
    <2> QED
      BY <1>1, <1>2, <1>3, <1>4, <2>1
  <1> QED
    BY <1>1, <1>4 DEF match
LEMMA PartOfText ==
    ASSUME NEW arg \in Seq(Letters), NEW p \in Nat \ {0}, NEW q \in Int, q <= Len(arg)
    PROVE  SubSeq(arg, p, q) \in Seq(Letters)
  <1>1. p \in Int /\ 1 <= p
    OBVIOUS
  <1> QED
    BY <1>1, PartIs

LEMMA FromIs ==
    ASSUME NEW arg \in Seq(Letters)
    PROVE  /\ \A p \in 1..Len(arg) + 1 : From(arg, p) \in Seq(Letters)
           /\ From(arg, Len(arg) + 1) = <<>>
           /\ From(arg, 1) = arg
  <1> DEFINE l == Len(arg)
  <1>1. l \in Nat
    BY LenProperties
  <1>2. \A p \in 1..l + 1 : From(arg, p) \in Seq(Letters)
    <2> TAKE p \in 1..l + 1
    <2>1. p \in Nat \ {0} /\ l \in Int /\ l <= Len(arg)
      BY <1>1
    <2> HIDE DEF l
    <2>2. SubSeq(arg, p, l) \in Seq(Letters)
      BY ONLY <2>1, PartOfText
    <2> QED
      BY <2>2 DEF From, l
  <1>3. From(arg, l + 1) = <<>>
    <2> DEFINE p == l + 1
    <2>1. p \in Int /\ l \in Int /\ 1 <= p /\ l <= Len(arg) /\ ~(p <= l)
      BY <1>1
    <2> HIDE DEF l, p
    <2>2. /\ SubSeq(arg, p, l) \in Seq(Letters)
          /\ Len(SubSeq(arg, p, l)) = IF p <= l THEN l - p + 1 ELSE 0
      BY ONLY <2>1, PartIs
    <2>3. SubSeq(arg, p, l) = <<>>
      BY <2>1, <2>2, EmptySeq
    <2> QED
      BY <2>3 DEF From, l, p
  <1>4. From(arg, 1) = arg
    <2>1. 1 \in 1..l + 1 /\ 1 - 1 = 0
      BY <1>1
    <2>2. SubSeq(arg, 1, 1 - 1) \o SubSeq(arg, 1, Len(arg)) = arg
      BY <2>1, PartsAreAll
    <2>3. SubSeq(arg, 1, 0) = <<>>
      <3>1. /\ SubSeq(arg, 1, 0) \in Seq(Letters)
            /\ Len(SubSeq(arg, 1, 0)) = IF 1 <= 0 THEN 0 - 1 + 1 ELSE 0
        BY <1>1, PartIs
      <3> QED
        BY <3>1, EmptySeq
    <2>4. SubSeq(arg, 1, Len(arg)) \in Seq(Letters)
      BY <1>2, <2>1 DEF From
    <2> QED
      BY <2>1, <2>2, <2>3, <2>4, ConcatEmptySeq DEF From
  <1> QED
    BY <1>2, <1>3, <1>4

(* One string with its matches replaced, as the code has it                *)
LEMMA SubstitutedIs ==
    ASSUME NEW arg \in Seq(Letters), NEW str \in Seq(Letters), str # <<>>,
           NEW with \in Seq(Letters)
    PROVE  /\ Substituted(arg, str, with) = Substitute(arg, str, with)
           /\ Substitute(arg, str, with) \in Seq(Letters)
  <1> DEFINE l == Len(arg)
             W == Seq(Letters)
             match(p) == StrStr(From(arg, p), str)
             after(p) == AfterMatch(arg, p, str)
             before(p) == SubSeq(arg, p, p + match(p) - 2)
             Body(f) == [p \in 1..Len(arg) + 1 |->
                            LET match2 == StrStr(From(arg, p), str)
                            IN IF match2 = 0 THEN From(arg, p)
                               ELSE SubSeq(arg, p, p + match2 - 2) \o with
                                      \o f[AfterMatch(arg, p, str)]]
             to == CHOOSE f : f = Body(f)
             nx == [p \in 1..l |-> IF match(p) = 0 THEN l + 1 ELSE after(p)]
             F == [p \in 1..l |-> [x \in W |-> IF match(p) = 0 THEN From(arg, p)
                                               ELSE before(p) \o with \o x]]
  <1>1. l \in Nat
    BY LenProperties
  <1>2. ASSUME NEW p \in 1..l + 1, match(p) # 0
        PROVE  \E r \in p..l :
                  /\ p + match(p) - 2 = r - 1
                  /\ after(p) = r + Len(str)
                  /\ r + Len(str) \in p + 1..l + 1
                  /\ MatchAt(arg, r, str)
                  /\ \A q \in p..r - 1 : ~MatchAt(arg, q, str)
    BY <1>2, Matching
  <1>3. ASSUME NEW p \in 1..l + 1, match(p) = 0
        PROVE  \A q \in p..l : ~MatchAt(arg, q, str)
    BY <1>3, Matching
  <1>4. /\ \A p \in 1..l + 1 : From(arg, p) \in W
        /\ From(arg, l + 1) = <<>>
    BY FromIs
  <1>5. \A p \in 1..l : match(p) # 0 => /\ before(p) \in W
                                        /\ after(p) \in 1..l + 1 /\ after(p) > p
    <2> SUFFICES ASSUME NEW p \in 1..l, match(p) # 0
                 PROVE  before(p) \in W /\ after(p) \in 1..l + 1 /\ after(p) > p
      OBVIOUS
    <2>0. p \in 1..l + 1
      BY <1>1
    <2> HIDE DEF match, after
    <2>1. PICK r \in p..l : /\ p + match(p) - 2 = r - 1
                            /\ after(p) = r + Len(str)
                            /\ r + Len(str) \in p + 1..l + 1
      BY <1>2, <2>0
    <2>2. p \in Nat \ {0} /\ r - 1 \in Int /\ r - 1 <= Len(arg)
      BY <1>1
    <2>3. SubSeq(arg, p, r - 1) \in Seq(Letters)
      BY ONLY <2>2, PartOfText
    <2>4. before(p) = SubSeq(arg, p, r - 1)
      BY <2>1
    <2>5. after(p) \in 1..l + 1 /\ after(p) > p
      <3> HIDE DEF l
      <3> QED
        BY <1>1, <2>1
    <2> QED
      BY <2>3, <2>4, <2>5
  <1>6. match(l + 1) = 0
    <2> SUFFICES ASSUME match(l + 1) # 0 PROVE FALSE
      OBVIOUS
    <2>1. l + 1 \in 1..l + 1
      BY <1>1
    <2> HIDE DEF match, after
    <2>2. \E r \in l + 1..l : TRUE
      BY <1>2, <2>1
    <2> QED
      BY <1>1, <2>2
  <1>7. \E f : f = Body(f)
    <2>1. nx \in [1..l -> 1..l + 1] /\ \A p \in 1..l : nx[p] > p
      <3>1. \A p \in 1..l : l + 1 \in 1..l + 1 /\ l + 1 > p
        BY <1>1
      <3> HIDE DEF l, match, after
      <3> QED
        BY <1>5, <3>1
    <2>2. F \in [1..l -> [W -> W]] /\ <<>> \in W
      <3>1. \A p \in 1..l : \A x \in W : match(p) # 0 => before(p) \o with \o x \in W
        <4> TAKE p \in 1..l
        <4> TAKE x \in W
        <4> HAVE match(p) # 0
        <4> DEFINE b == before(p)
        <4>1. b \in W
          BY <1>5
        <4> HIDE DEF b
        <4>2. b \o with \in W
          BY <4>1, ConcatProperties
        <4>3. b \o with \o x \in W
          BY <4>2, ConcatProperties
        <4> QED
          BY <4>3 DEF b
      <3>2. \A p \in 1..l : From(arg, p) \in W
        BY <1>1, <1>4
      <3>3. <<>> \in W
        BY EmptySeq
      <3> HIDE DEF l, W, match, before
      <3> QED
        BY <3>1, <3>2, <3>3
    <2> HIDE DEF F, nx
    <2>3. PICK f \in [1..l + 1 -> W] : Jumps(f, F, nx, l, <<>>)
      BY <1>1, <2>1, <2>2, JumpsExist
    <2>4. ASSUME NEW p \in 1..l
          PROVE  f[p] = IF match(p) = 0 THEN From(arg, p) ELSE before(p) \o with \o f[after(p)]
      <3>1. f[p] = F[p][f[nx[p]]] /\ nx[p] = IF match(p) = 0 THEN l + 1 ELSE after(p)
        BY <2>3 DEF Jumps, nx
      <3>2. f[nx[p]] \in W
        BY <2>1
      <3> HIDE DEF l, W, match, before, after
      <3> QED
        BY <3>1, <3>2 DEF F
    <2>5. f[l + 1] = From(arg, l + 1)
      BY <1>4, <2>3 DEF Jumps
    <2>6. \A p \in 1..l + 1 : p = l + 1 \/ p \in 1..l
      BY <1>1
    <2>7. f = [p \in 1..l + 1 |-> IF match(p) = 0 THEN From(arg, p)
                                  ELSE before(p) \o with \o f[after(p)]]
      <3> HIDE DEF l, W, match, before, after
      <3> QED
        BY <1>6, <2>4, <2>5, <2>6
    <2> QED
      BY <2>7
  <1>8. to = Body(to)
    BY <1>7
  <1> HIDE DEF to
  <1>9. to = [p \in 1..l + 1 |-> IF match(p) = 0 THEN From(arg, p)
                                 ELSE before(p) \o with \o to[after(p)]]
    BY <1>8
  <1>10. Substituted(arg, str, with) = to[1]
    BY DEF Substituted, to
  <1> HIDE DEF Body, match, after, F
  <1>11. PICK from : Unfolds(from, arg, str, with) /\ Substitute(arg, str, with) = from[1]
    BY SubstituteIs
  <1>12. from \in [1..l + 1 -> W] /\ from[l + 1] = <<>>
    BY <1>11 DEF Unfolds
  <1>16. \A r \in 1..Len(arg) + 1 : \A p \in 1..r :
            (\A q \in p..r - 1 : ~MatchAt(arg, q, str))
               => from[p] = SubSeq(arg, p, r - 1) \o from[r]
    <2>1. Copies(from, arg, str)
      BY <1>11, Unmatched
    <2> QED
      BY <2>1 DEF Copies
  <1>13. \A p \in 1..l + 1 : to[p] = from[p]
    <2> DEFINE D == {p \in 1..l + 1 : to[p] = from[p]}
    <2>1. ASSUME NEW p \in 1..l + 1, \A q \in p + 1..l + 1 : q \in D PROVE p \in D
      <3>1. CASE match(p) = 0
        <4>1. to[p] = From(arg, p)
          BY <1>9, <3>1
        <4>2. l + 1 \in 1..Len(arg) + 1 /\ p \in 1..l + 1 /\ l + 1 - 1 = Len(arg)
          BY <1>1
        <4>3. PICK r \in 1..Len(arg) + 1 : r = l + 1
          BY <4>2
        <4>4. \A q \in p..r - 1 : ~MatchAt(arg, q, str)
          <5>1. \A q \in p..l : ~MatchAt(arg, q, str)
            BY <1>3, <3>1
          <5>2. r - 1 = l
            BY <1>1, <4>3
          <5> QED
            BY ONLY <5>1, <5>2, Zenon
        <4>5. from[p] = From(arg, p) \o <<>>
          <5>1. from[p] = SubSeq(arg, p, r - 1) \o from[r]
            BY <1>16, <4>2, <4>3, <4>4
          <5>2. r - 1 = Len(arg)
            BY <1>1, <4>3
          <5>3. from[r] = <<>>
            BY <1>12, <4>3
          <5> QED
            BY ONLY <5>1, <5>2, <5>3 DEF From
        <4>6. From(arg, p) \o <<>> = From(arg, p)
          BY <1>4, ConcatEmptySeq
        <4> QED
          BY <4>1, <4>5, <4>6
      <3>2. CASE match(p) # 0
        <4>1. PICK r \in p..l : /\ p + match(p) - 2 = r - 1
                                /\ after(p) = r + Len(str)
                                /\ r + Len(str) \in p + 1..l + 1
                                /\ MatchAt(arg, r, str)
                                /\ \A q \in p..r - 1 : ~MatchAt(arg, q, str)
          BY <1>2, <3>2
        <4>2. r \in 1..l + 1 /\ p \in 1..r /\ r \in 1..l
          BY <1>1
        <4>3. from[p] = SubSeq(arg, p, r - 1) \o from[r]
          BY <1>16, <4>1, <4>2, Zenon
        <4>4. from[r] = with \o from[r + Len(str)]
          BY <1>11, <4>1, <4>2 DEF Unfolds
        <4>5. to[p] = SubSeq(arg, p, r - 1) \o with \o to[r + Len(str)]
          BY <1>9, <3>2, <4>1
        <4>6. to[r + Len(str)] = from[r + Len(str)]
          BY <2>1, <4>1
        <4>7. r + Len(str) \in 1..l + 1
          <5> DEFINE n == r + Len(str)
          <5>1. n \in p + 1..l + 1
            BY <4>1
          <5> HIDE DEF n
          <5> QED
            BY <1>1, <5>1 DEF n
        <4>8. from[r + Len(str)] \in Seq(Letters)
          BY <1>12, <4>7
        <4>9. SubSeq(arg, p, r - 1) \in Seq(Letters)
          <5>1. p \in Nat \ {0} /\ r - 1 \in Int /\ r - 1 <= Len(arg)
            BY <1>1
          <5> QED
            BY ONLY <5>1, PartOfText
        <4>10. (SubSeq(arg, p, r - 1) \o with) \o from[r + Len(str)]
                 = SubSeq(arg, p, r - 1) \o (with \o from[r + Len(str)])
          BY <4>8, <4>9, RegroupAll, Zenon
        <4>11. to[p] = from[p]
          BY ONLY <4>3, <4>4, <4>5, <4>6, <4>10, Zenon
        <4> QED
          BY <4>11
      <3> QED
        BY <3>1, <3>2
    <2>2. l + 1 \in Nat
      BY <1>1
    <2> HIDE DEF D
    <2>3. \A p \in 1..l + 1 : p \in D
      BY <2>1, <2>2, Downward, Zenon
    <2> QED
      BY <2>3 DEF D
  <1>14. 1 \in 1..l + 1
    BY <1>1
  <1>15. to[1] = from[1] /\ from[1] \in W
    BY <1>12, <1>13, <1>14
  <1> QED
    BY <1>10, <1>11, <1>15
LEMMA NothingMatches ==
    ASSUME NEW arg \in Seq(Letters), NEW str \in Seq(Letters), str # <<>>,
           NEW with \in Seq(Letters), StrStr(arg, str) = 0
    PROVE  Substitute(arg, str, with) = arg
  <1> DEFINE l == Len(arg)
  <1>1. l \in Nat /\ 1 \in 1..Len(arg) + 1
    BY LenProperties
  <1>2. From(arg, 1) = arg
    BY FromIs
  <1>3. \A q \in 1..l : ~MatchAt(arg, q, str)
    <2>1. StrStr(From(arg, 1), str) = 0
      BY <1>2
    <2> QED
      BY <1>1, <2>1, Matching
  <1>4. PICK from : Unfolds(from, arg, str, with) /\ Substitute(arg, str, with) = from[1]
    BY SubstituteIs
  <1>5. PICK r \in 1..Len(arg) + 1 : r = l + 1
    BY <1>1
  <1>6. from[1] = SubSeq(arg, 1, r - 1) \o from[r]
    <2>1. Copies(from, arg, str)
      BY <1>4, Unmatched
    <2>2. 1 \in 1..r /\ r - 1 = l
      BY <1>1, <1>5
    <2>3. \A q \in 1..r - 1 : ~MatchAt(arg, q, str)
      BY ONLY <1>3, <2>2, Zenon
    <2> QED
      BY <2>1, <2>2, <2>3 DEF Copies
  <1>7. from[r] = <<>>
    BY <1>4, <1>5 DEF Unfolds
  <1>8. r - 1 = Len(arg)
    BY <1>1, <1>5
  <1>9. from[1] = From(arg, 1) \o <<>>
    BY ONLY <1>6, <1>7, <1>8 DEF From
  <1> QED
    BY <1>2, <1>4, <1>9, ConcatEmptySeq

LEMMA AllocationsAre ==
    ASSUME NEW arg \in Seq(Letters), NEW str \in Seq(Letters), str # <<>>
    PROVE  Allocations(arg, str) \in Nat
  <1> DEFINE l == Len(arg)
             match(p) == StrStr(From(arg, p), str)
             after(p) == AfterMatch(arg, p, str)
             Body(f) == [p \in 1..Len(arg) + 1 |->
                            IF StrStr(From(arg, p), str) = 0 THEN 0
                            ELSE 2 + f[AfterMatch(arg, p, str)]]
             from == CHOOSE f : f = Body(f)
             nx == [p \in 1..l |-> IF match(p) = 0 THEN l + 1 ELSE after(p)]
             F == [p \in 1..l |-> [x \in Nat |-> IF match(p) = 0 THEN 0 ELSE 2 + x]]
  <1>1. l \in Nat
    BY LenProperties
  <1>2. ASSUME NEW p \in 1..l + 1, match(p) # 0
        PROVE  \E r \in p..l : after(p) = r + Len(str) /\ r + Len(str) \in p + 1..l + 1
    BY <1>2, Matching
  <1>3. \A p \in 1..l : match(p) # 0 => after(p) \in 1..l + 1 /\ after(p) > p
    <2> SUFFICES ASSUME NEW p \in 1..l, match(p) # 0
                 PROVE  after(p) \in 1..l + 1 /\ after(p) > p
      OBVIOUS
    <2>0. p \in 1..l + 1
      BY <1>1
    <2> HIDE DEF match, after
    <2>1. PICK r \in p..l : after(p) = r + Len(str) /\ r + Len(str) \in p + 1..l + 1
      BY <1>2, <2>0
    <2> HIDE DEF l
    <2> QED
      BY <1>1, <2>1
  <1>4. match(l + 1) = 0
    <2> SUFFICES ASSUME match(l + 1) # 0 PROVE FALSE
      OBVIOUS
    <2>1. l + 1 \in 1..l + 1
      BY <1>1
    <2> HIDE DEF match, after
    <2>2. \E r \in l + 1..l : TRUE
      BY <1>2, <2>1
    <2> QED
      BY <1>1, <2>2
  <1>5. \E f : f = Body(f)
    <2>1. nx \in [1..l -> 1..l + 1] /\ \A p \in 1..l : nx[p] > p
      <3>1. \A p \in 1..l : l + 1 \in 1..l + 1 /\ l + 1 > p
        BY <1>1
      <3> HIDE DEF l, match, after
      <3> QED
        BY <1>3, <3>1
    <2>2. F \in [1..l -> [Nat -> Nat]] /\ 0 \in Nat
      <3>1. \A p \in 1..l : \A x \in Nat : (IF match(p) = 0 THEN 0 ELSE 2 + x) \in Nat
        <4>1. 0 \in Nat /\ \A x \in Nat : 2 + x \in Nat
          OBVIOUS
        <4> HIDE DEF l, match, nx, F, Body
        <4> QED
          BY ONLY <4>1, Zenon
      <3> HIDE DEF l, match
      <3> QED
        BY <3>1
    <2> HIDE DEF F, nx
    <2>3. PICK f \in [1..l + 1 -> Nat] : Jumps(f, F, nx, l, 0)
      BY <1>1, <2>1, <2>2, JumpsExist
    <2>4. ASSUME NEW p \in 1..l
          PROVE  f[p] = IF match(p) = 0 THEN 0 ELSE 2 + f[after(p)]
      <3>1. f[p] = F[p][f[nx[p]]] /\ nx[p] = IF match(p) = 0 THEN l + 1 ELSE after(p)
        BY <2>3 DEF Jumps, nx
      <3>2. f[nx[p]] \in Nat
        BY <2>1
      <3> HIDE DEF l, match, after
      <3> QED
        BY <3>1, <3>2 DEF F
    <2>5. f[l + 1] = 0
      BY <2>3 DEF Jumps
    <2>6. \A p \in 1..l + 1 : p = l + 1 \/ p \in 1..l
      BY <1>1
    <2>7. f = [p \in 1..l + 1 |-> IF match(p) = 0 THEN 0 ELSE 2 + f[after(p)]]
      <3> HIDE DEF l, match, after
      <3> QED
        BY <1>4, <2>4, <2>5, <2>6
    <2> QED
      BY <2>7
  <1>6. from = Body(from)
    BY <1>5
  <1> HIDE DEF from
  <1>7. from = [p \in 1..l + 1 |-> IF match(p) = 0 THEN 0 ELSE 2 + from[after(p)]]
    BY <1>6
  <1>8. Allocations(arg, str) = 1 + from[1]
    BY DEF Allocations, from
  <1> HIDE DEF Body, match, after, F, nx
  <1>9. \A p \in 1..l + 1 : from[p] \in Nat
    <2> DEFINE D == {p \in 1..l + 1 : from[p] \in Nat}
    <2>1. ASSUME NEW p \in 1..l + 1, \A q \in p + 1..l + 1 : q \in D PROVE p \in D
      <3>1. CASE match(p) = 0
        BY <1>7, <3>1
      <3>2. CASE match(p) # 0
        <4>1. p # l + 1
          BY <1>4, <3>2
        <4>2. p \in 1..l
          BY <1>1, <4>1
        <4>3. after(p) \in p + 1..l + 1
          <5>1. after(p) \in 1..l + 1 /\ after(p) > p
            BY <1>3, <3>2, <4>2
          <5>2. PICK y : y = after(p)
            OBVIOUS
          <5>3. l + 1 \in Int /\ p \in Int
            BY <1>1, <4>2
          <5>4. y \in p + 1..l + 1
            BY ONLY <5>1, <5>2, <5>3
          <5> QED
            BY <5>2, <5>4
        <4>4. from[after(p)] \in Nat
          BY <2>1, <4>3
        <4>5. from[p] = 2 + from[after(p)]
          BY <1>7, <3>2
        <4> QED
          BY <4>4, <4>5
      <3> QED
        BY <3>1, <3>2
    <2>2. l + 1 \in Nat
      BY <1>1
    <2> HIDE DEF D
    <2>3. \A p \in 1..l + 1 : p \in D
      BY <2>1, <2>2, Downward, Zenon
    <2> QED
      BY <2>3 DEF D
  <1>10. from[1] \in Nat
    BY <1>1, <1>9
  <1> QED
    BY <1>8, <1>10
(* What the loop over the entries keeps                                    *)
Loops == [dst : Seq(Chars), delayed_copy : BOOLEAN, err : {"0", "ENOMEM"}, room : Int]

LEMMA TakeIs ==
    ASSUME NEW m \in Loops, NEW n \in Nat
    PROVE  /\ Take(m, n) \in Loops
           /\ Take(m, n).dst = m.dst /\ Take(m, n).delayed_copy = m.delayed_copy
           /\ Take(m, n).err = "0" => m.err = "0"
  <1>1. /\ m.dst \in Seq(Chars) /\ m.delayed_copy \in BOOLEAN /\ m.err \in {"0", "ENOMEM"}
        /\ m.room \in Int
        /\ m = [dst |-> m.dst, delayed_copy |-> m.delayed_copy, err |-> m.err, room |-> m.room]
    BY DEF Loops
  <1>2. m.room - n \in Int
    BY <1>1
  <1>3. CASE m.room < n
    <2>1. Take(m, n) = [dst |-> m.dst, delayed_copy |-> m.delayed_copy, err |-> "ENOMEM", room |-> 0]
      BY <1>1, <1>3 DEF Take
    <2> QED
      BY <1>1, <2>1 DEF Loops
  <1>4. CASE ~(m.room < n)
    <2> DEFINE left == m.room - n
    <2>1. Take(m, n) = [m EXCEPT !.room = left]
      BY <1>4 DEF Take
    <2>2. left \in Int
      BY <1>2
    <2> HIDE DEF left
    <2>3. Take(m, n) = [dst |-> m.dst, delayed_copy |-> m.delayed_copy, err |-> m.err, room |-> left]
      BY <1>1, <2>1
    <2> QED
      BY <1>1, <2>2, <2>3 DEF Loops
  <1> QED
    BY <1>3, <1>4

LEMMA PutIs ==
    ASSUME NEW m \in Loops, NEW bytes \in Seq(Chars)
    PROVE  /\ Put(m, bytes) \in Loops
           /\ Put(m, bytes).delayed_copy = m.delayed_copy
           /\ Put(m, bytes).err = m.err
           /\ m.err = "0" => Put(m, bytes).dst = m.dst \o bytes
  <1>1. m.dst \o bytes \in Seq(Chars)
    <2>1. m.dst \in Seq(Chars)
      BY DEF Loops
    <2> QED
      BY <2>1, ConcatProperties
  <1> QED
    BY <1>1 DEF Put, Loops

(* The new vector after k strings, t being all of them as they become      *)
Going(m, k, s, t, str) ==
    /\ m \in Loops
    /\ m.err = "0" =>
         /\ m.delayed_copy => m.dst = <<>> /\ \A i \in 1..k : StrStr(s[i], str) = 0
         /\ ~m.delayed_copy => IsVector(SubSeq(t, 1, k), m.dst)

(* One more string is put behind it.                                       *)
LEMMA PutMore ==
    ASSUME NEW s, NEW str, NEW t \in Seq(Seq(Letters)), NEW k \in 0..Len(t) - 1,
           NEW m \in Loops, m.err = "0" => ~m.delayed_copy /\ IsVector(SubSeq(t, 1, k), m.dst)
    PROVE  Going(Put(Take(m, 1), CString(t[k + 1])), k + 1, s, t, str)
  <1> DEFINE x == t[k + 1]
             taken == Take(m, 1)
             put == Put(taken, CString(x))
  <1>1. x \in Seq(Letters) /\ CString(x) \in Seq(Chars)
    <2>1. k + 1 \in 1..Len(t)
      BY StringFacts
    <2> QED
      BY <2>1, StringFacts, WordFacts
  <1>2. /\ taken \in Loops /\ taken.dst = m.dst /\ taken.delayed_copy = m.delayed_copy
        /\ taken.err = "0" => m.err = "0"
    BY TakeIs
  <1> HIDE DEF taken, x
  <1>3. /\ put \in Loops /\ put.delayed_copy = taken.delayed_copy /\ put.err = taken.err
        /\ taken.err = "0" => put.dst = taken.dst \o CString(x)
    BY <1>1, <1>2, PutIs
  <1> HIDE DEF put
  <1>4. ASSUME put.err = "0"
        PROVE  ~put.delayed_copy /\ IsVector(SubSeq(t, 1, k + 1), put.dst)
    <2>1. /\ m.err = "0" /\ ~m.delayed_copy /\ IsVector(SubSeq(t, 1, k), m.dst)
          /\ put.dst = m.dst \o CString(x) /\ ~put.delayed_copy
      BY <1>2, <1>3, <1>4
    <2>2. IsVector(<<x>>, CString(x))
      BY <1>1, OneVector
    <2>3. IsVector(SubSeq(t, 1, k) \o <<x>>, m.dst \o CString(x))
      BY <2>1, <2>2, CatVector
    <2>4. SubSeq(t, 1, k + 1) = SubSeq(t, 1, k) \o <<x>>
      BY OneMore DEF x
    <2> QED
      BY <2>1, <2>3, <2>4
  <1>5. Going(put, k + 1, s, t, str)
    BY <1>3, <1>4 DEF Going
  <1> QED
    BY <1>5 DEF put, taken, x
(* The new vector begun, at the first match, with a copy of what precedes  *)
Begun(m, n, entry) ==
    LET copied == Take(m, n)
    IN IF copied.err = "0" /\ m.delayed_copy
       THEN LET some == IF entry > 1 THEN Take(copied, 1) ELSE copied
            IN [Put(some, SubSeq(argz, 1, entry - 1)) EXCEPT !.delayed_copy = FALSE]
       ELSE copied

(* One entry, arg, and what the loop keeps before and after it             *)
OneEntry(next, m, entry, arg, str, with) ==
    next = IF m.err # "0" \/ (StrStr(arg, str) = 0 /\ m.delayed_copy) THEN m
           ELSE IF StrStr(arg, str) = 0 THEN Put(Take(m, 1), CString(arg))
           ELSE IF Begun(m, Allocations(arg, str), entry).err # "0"
                THEN Begun(m, Allocations(arg, str), entry)
           ELSE Put(Take(Begun(m, Allocations(arg, str), entry), 1),
                    CString(Substituted(arg, str, with)))

LEMMA ReplacedIs ==
    ASSUME NEW m, NEW entry, NEW str, NEW with
    PROVE  OneEntry(Replaced(m, entry, str, with), m, entry,
                    SubSeq(argz, entry, NulFrom(argz, entry) - 1), str, with)
  BY DEF Replaced, Begun, OneEntry

LEMMA BegunIs ==
    ASSUME NEW m \in Loops, m.err = "0", NEW n \in Nat, NEW entry, NEW left \in Seq(Chars),
           SubSeq(argz, 1, entry - 1) = left
    PROVE  /\ Begun(m, n, entry) \in Loops
           /\ Begun(m, n, entry).err = "0" =>
                /\ ~Begun(m, n, entry).delayed_copy
                /\ Begun(m, n, entry).dst = IF m.delayed_copy THEN m.dst \o left ELSE m.dst
  <1> DEFINE copied == Take(m, n)
             some == IF entry > 1 THEN Take(copied, 1) ELSE copied
             put == Put(some, left)
             begun == Begun(m, n, entry)
  <1>1. /\ copied \in Loops /\ copied.dst = m.dst /\ copied.delayed_copy = m.delayed_copy
    BY TakeIs
  <1> HIDE DEF copied
  <1>2. some \in Loops /\ some.dst = m.dst
    <2>1. Take(copied, 1) \in Loops /\ Take(copied, 1).dst = copied.dst
      BY <1>1, TakeIs
    <2> QED
      BY <1>1, <2>1
  <1> HIDE DEF some
  <1>3. put \in Loops /\ put.err = some.err /\ (some.err = "0" => put.dst = some.dst \o left)
    BY <1>2, PutIs
  <1> HIDE DEF put
  <1>4. CASE copied.err = "0" /\ m.delayed_copy
    <2>1. begun = [put EXCEPT !.delayed_copy = FALSE]
      BY <1>4 DEF Begun, copied, some, put
    <2>2. begun \in Loops /\ begun.err = put.err /\ begun.dst = put.dst /\ begun.delayed_copy = FALSE
      BY <1>3, <2>1 DEF Loops
    <2> HIDE DEF begun
    <2>3. put.err = "0" => put.dst = m.dst \o left
      BY <1>2, <1>3
    <2>4. /\ begun \in Loops
          /\ begun.err = "0" =>
               ~begun.delayed_copy /\ begun.dst = IF m.delayed_copy THEN m.dst \o left ELSE m.dst
      BY <1>4, <2>2, <2>3
    <2> QED
      BY <2>4 DEF begun
  <1>5. CASE ~(copied.err = "0" /\ m.delayed_copy)
    <2>1. begun = copied
      BY <1>5 DEF Begun, copied
    <2> HIDE DEF begun
    <2>2. /\ begun \in Loops
          /\ begun.err = "0" =>
               ~begun.delayed_copy /\ begun.dst = IF m.delayed_copy THEN m.dst \o left ELSE m.dst
      <3>1. m.delayed_copy \in BOOLEAN
        BY DEF Loops
      <3> QED
        BY <1>1, <1>5, <2>1, <3>1
    <2> QED
      BY <2>2 DEF begun
  <1> QED
    BY <1>4, <1>5

(* One entry: what it is, what is before it                                *)
LEMMA EntryIs ==
    ASSUME NEW s, HeldIn(s, argz, len), NEW st, VectorOf(s, Block, st), NEW k \in 1..Len(s)
    PROVE  /\ SubSeq(argz, st[k], NulFrom(argz, st[k]) - 1) = s[k]
           /\ \E left \in Seq(Chars) : /\ SubSeq(argz, 1, st[k] - 1) = left
                                       /\ IsVector(SubSeq(s, 1, k - 1), left)
  <1> DEFINE b == Block
  <1>1. st[k] \in 1..Len(b) /\ NulFrom(b, st[k]) + 1 = st[k + 1]
    BY NextStarts
  <1>2. argz = b
    <2>1. len = Len(b) /\ (len > 0 => argz = b) /\ len \in Nat
      BY HeldFacts
    <2>2. Len(b) > 0
      BY <1>1, <2>1
    <2> QED
      BY <2>1, <2>2
  <1>3. SubSeq(b, st[k], st[k + 1] - 2) = s[k]
    BY StringAt
  <1>4. NulFrom(b, st[k]) - 1 = st[k + 1] - 2
    <2> DEFINE x == st[k + 1]
               y == NulFrom(b, st[k])
    <2>1. x \in Int
      <3>1. k + 1 \in 1..Len(s) + 1
        BY StartsRise
      <3>2. st[k + 1] \in 1..Len(b) + 1
        BY <3>1, StartsRise
      <3> QED
        BY <3>2
    <2>2. y = x - 1
      <3>1. NulFrom(b, st[k]) = st[k + 1] - 1
        <4>1. st[k] <= st[k] /\ st[k] < st[k + 1]
          <5>1. /\ k \in 1..Len(s) + 1 /\ k + 1 \in 1..Len(s) + 1 /\ k < k + 1
            BY StartsRise
          <5> QED
            BY <1>1, <5>1, StartsRise
        <4> QED
          BY <1>1, <4>1, NulFromIs
      <3> QED
        BY <3>1
    <2> HIDE DEF x, y
    <2>3. y - 1 = x - 2
      BY <2>1, <2>2
    <2> QED
      BY <2>3 DEF x, y
  <1>5. PICK left : /\ left = SubSeq(b, 1, st[k] - 1)
                    /\ IsVector(SubSeq(s, 1, k - 1), left)
    <2>1. k \in 1..Len(s) + 1
      BY StartsRise
    <2> QED
      BY <2>1, Around
  <1>6. left \in Seq(Chars)
    BY <1>5, VectorFacts
  <1> HIDE DEF b
  <1> QED
    BY <1>2, <1>3, <1>4, <1>5, <1>6
Become(s, str, with) == [i \in 1..Len(s) |-> Substitute(s[i], str, with)]

LEMMA BecomeIs ==
    ASSUME NEW s \in Seq(Seq(Letters)), NEW str \in Seq(Letters), str # <<>>,
           NEW with \in Seq(Letters)
    PROVE  LET t == Become(s, str, with)
           IN /\ t \in Seq(Seq(Letters)) /\ Len(t) = Len(s) /\ Len(s) \in Nat
              /\ \A i \in 1..Len(s) : t[i] = Substitute(s[i], str, with)
              /\ [i \in DOMAIN s |-> Substitute(s[i], str, with)] = t
  <1> DEFINE n == Len(s)
             t == Become(s, str, with)
  <1>1. n \in Nat /\ \A i \in 1..n : s[i] \in Seq(Letters)
    BY StringFacts
  <1>2. \A i \in 1..n : Substitute(s[i], str, with) \in Seq(Letters)
    BY <1>1, SubstitutedIs
  <1>3. t = [i \in 1..n |-> Substitute(s[i], str, with)]
    BY DEF Become
  <1> HIDE DEF t
  <1>4. t \in Seq(Seq(Letters)) /\ Len(t) = n /\ \A i \in 1..n : t[i] = Substitute(s[i], str, with)
    BY <1>1, <1>2, <1>3, IsASeq
  <1>5. DOMAIN s = 1..n
    BY LenProperties
  <1>6. [i \in DOMAIN s |-> Substitute(s[i], str, with)] = t
    BY <1>3, <1>5
  <1> QED
    BY <1>1, <1>4, <1>6 DEF t

(* Strings without a match stay as they are.                               *)
LEMMA SameSoFar ==
    ASSUME NEW s \in Seq(Seq(Letters)), NEW str \in Seq(Letters), str # <<>>,
           NEW with \in Seq(Letters), NEW k \in 0..Len(s),
           \A i \in 1..k : StrStr(s[i], str) = 0
    PROVE  SubSeq(Become(s, str, with), 1, k) = SubSeq(s, 1, k)
  <1> DEFINE n == Len(s)
             t == Become(s, str, with)
             u == SubSeq(t, 1, k)
             v == SubSeq(s, 1, k)
             T == Seq(Letters)
  <1>1. /\ t \in Seq(T) /\ Len(t) = n /\ n \in Nat
        /\ \A i \in 1..n : t[i] = Substitute(s[i], str, with)
    BY BecomeIs
  <1>2. \A i \in 1..n : s[i] \in T
    BY StringFacts
  <1> HIDE DEF t
  <1>3. /\ s \in Seq(T) /\ 1 \in Int /\ k \in Int /\ 1 <= 1 /\ k <= Len(s) /\ k <= Len(t)
        /\ (IF 1 <= k THEN k - 1 + 1 ELSE 0) = k /\ k - 1 + 1 = k
        /\ \A i \in 1..k : 1 + i - 1 = i /\ i \in 1..n
    BY <1>1
  <1> HIDE DEF T, n
  <1>4. u \in Seq(T) /\ Len(u) = k /\ \A i \in 1..k : u[i] = t[i]
    <2>1. /\ u \in Seq(T) /\ Len(u) = IF 1 <= k THEN k - 1 + 1 ELSE 0
          /\ \A i \in 1..k - 1 + 1 : u[i] = t[1 + i - 1]
      BY <1>1, <1>3, PartIs
    <2> HIDE DEF u
    <2> QED
      BY <1>3, <2>1
  <1>5. v \in Seq(T) /\ Len(v) = k /\ \A i \in 1..k : v[i] = s[i]
    <2>1. /\ v \in Seq(T) /\ Len(v) = IF 1 <= k THEN k - 1 + 1 ELSE 0
          /\ \A i \in 1..k - 1 + 1 : v[i] = s[1 + i - 1]
      BY <1>3, PartIs
    <2> HIDE DEF v
    <2> QED
      BY <1>3, <2>1
  <1> HIDE DEF u, v
  <1>6. \A i \in 1..k : t[i] = s[i]
    <2> TAKE i \in 1..k
    <2>1. i \in 1..n /\ StrStr(s[i], str) = 0
      BY <1>3
    <2>2. s[i] \in Seq(Letters)
      BY <1>2, <2>1 DEF T
    <2>3. Substitute(s[i], str, with) = s[i]
      BY <2>1, <2>2, NothingMatches
    <2> QED
      BY <1>1, <2>1, <2>3
  <1>7. u = v
    BY <1>4, <1>5, <1>6, SeqEqual
  <1> QED
    BY <1>7 DEF u, v, t

LEMMA ReplacedType ==
    ASSUME NEW s, HeldIn(s, argz, len), NEW st, VectorOf(s, Block, st), NEW k \in 1..Len(s),
           NEW str \in Seq(Letters), str # <<>>, NEW with \in Seq(Letters), NEW m \in Loops
    PROVE  Replaced(m, st[k], str, with) \in Loops
  <1> DEFINE arg == s[k]
             a == Allocations(arg, str)
             begun == Begun(m, a, st[k])
             new == Substituted(arg, str, with)
  <1>1. s \in Seq(Seq(Letters))
    BY HeldFacts
  <1>2. arg \in Seq(Letters)
    BY <1>1, StringFacts
  <1>3. arg = SubSeq(argz, st[k], NulFrom(argz, st[k]) - 1)
    BY EntryIs
  <1>4. PICK left \in Seq(Chars) : SubSeq(argz, 1, st[k] - 1) = left
    BY EntryIs
  <1> HIDE DEF arg
  <1>5. Replaced(m, st[k], str, with) =
           IF m.err # "0" \/ (StrStr(arg, str) = 0 /\ m.delayed_copy) THEN m
           ELSE IF StrStr(arg, str) = 0 THEN Put(Take(m, 1), CString(arg))
           ELSE IF begun.err # "0" THEN begun
           ELSE Put(Take(begun, 1), CString(new))
    <2>1. OneEntry(Replaced(m, st[k], str, with), m, st[k], arg, str, with)
      BY <1>3, ReplacedIs
    <2> QED
      BY <2>1 DEF OneEntry
  <1>6. a \in Nat /\ new \in Seq(Letters)
    BY <1>2, AllocationsAre, SubstitutedIs
  <1> HIDE DEF a, new
  <1>7. m.err = "0" => begun \in Loops
    BY <1>4, <1>6, BegunIs
  <1> HIDE DEF begun
  <1>8. CString(arg) \in Seq(Chars) /\ CString(new) \in Seq(Chars)
    BY <1>2, <1>6, WordFacts
  <1>9. Put(Take(m, 1), CString(arg)) \in Loops
    BY <1>8, TakeIs, PutIs
  <1>10. m.err = "0" => Put(Take(begun, 1), CString(new)) \in Loops
    BY <1>7, <1>8, TakeIs, PutIs
  <1> QED
    BY <1>5, <1>7, <1>9, <1>10

LEMMA ReplacedGoes ==
    ASSUME NEW s, HeldIn(s, argz, len), NEW st, VectorOf(s, Block, st), NEW k \in 1..Len(s),
           NEW str \in Seq(Letters), str # <<>>, NEW with \in Seq(Letters), NEW m,
           Going(m, k - 1, s, Become(s, str, with), str)
    PROVE  Going(Replaced(m, st[k], str, with), k, s, Become(s, str, with), str)
  <1> DEFINE arg == s[k]
             a == Allocations(arg, str)
             begun == Begun(m, a, st[k])
             new == Substituted(arg, str, with)
             t == Become(s, str, with)
             j == k - 1
             next == Replaced(m, st[k], str, with)
  <1>1. s \in Seq(Seq(Letters))
    BY HeldFacts
  <1>2. /\ t \in Seq(Seq(Letters)) /\ Len(t) = Len(s) /\ Len(s) \in Nat
        /\ t[k] = Substitute(arg, str, with)
    BY <1>1, BecomeIs
  <1>3. arg \in Seq(Letters)
    BY <1>1, StringFacts
  <1>4. arg = SubSeq(argz, st[k], NulFrom(argz, st[k]) - 1)
    BY EntryIs
  <1>5. PICK left \in Seq(Chars) : /\ SubSeq(argz, 1, st[k] - 1) = left
                                   /\ IsVector(SubSeq(s, 1, k - 1), left)
    BY EntryIs
  <1>6. j \in 0..Len(t) - 1 /\ j + 1 = k /\ j \in 0..Len(s) /\ \A i \in 1..k : i \in 1..j \/ i = k
    <2> HIDE DEF t
    <2> QED
      BY <1>2
  <1>7. Going(m, j, s, t, str)
    OBVIOUS
  <1>8. m \in Loops
    BY <1>7 DEF Going
  <1>9. Replaced(m, st[k], str, with) =
           IF m.err # "0" \/ (StrStr(arg, str) = 0 /\ m.delayed_copy) THEN m
           ELSE IF StrStr(arg, str) = 0 THEN Put(Take(m, 1), CString(arg))
           ELSE IF begun.err # "0" THEN begun
           ELSE Put(Take(begun, 1), CString(new))
    <2>1. OneEntry(Replaced(m, st[k], str, with), m, st[k], arg, str, with)
      BY <1>4, ReplacedIs
    <2> QED
      BY <2>1 DEF OneEntry
  <1>10. a \in Nat /\ new = t[k]
    BY <1>2, <1>3, AllocationsAre, SubstitutedIs
  <1>11. StrStr(arg, str) = 0 => arg = t[k]
    BY <1>2, <1>3, NothingMatches
  <1> DEFINE none == \A i \in 1..j : StrStr(s[i], str) = 0
  <1>12. none => SubSeq(t, 1, j) = SubSeq(s, 1, j)
    <2>1. s \in Seq(Seq(Letters)) /\ j \in 0..Len(s)
      BY <1>1, <1>6
    <2> HIDE DEF j
    <2> QED
      BY <2>1, SameSoFar
  <1>13. none /\ arg = s[k] /\ StrStr(arg, str) = 0 => \A i \in 1..k : StrStr(s[i], str) = 0
    BY <1>6
  <1>14. IsVector(SubSeq(s, 1, j), left)
    BY <1>5
  <1>15. arg = s[k]
    OBVIOUS
  <1> HIDE DEF t, j, a, new, arg
  <1>16. m.err = "0" =>
            /\ m.delayed_copy => m.dst = <<>> /\ none
            /\ ~m.delayed_copy => IsVector(SubSeq(t, 1, j), m.dst)
    BY <1>7 DEF Going
  <1> HIDE DEF none
  <1>17. CASE m.err # "0"
    BY <1>8, <1>9, <1>17 DEF Going, t
  <1>18. CASE m.err = "0" /\ StrStr(arg, str) = 0 /\ m.delayed_copy
    <2>1. next = m
      BY <1>9, <1>18
    <2>2. m.dst = <<>> /\ \A i \in 1..k : StrStr(s[i], str) = 0
      BY <1>13, <1>15, <1>16, <1>18
    <2> HIDE DEF next
    <2> QED
      BY <1>8, <1>18, <2>1, <2>2 DEF Going, next
  <1>19. CASE m.err = "0" /\ StrStr(arg, str) = 0 /\ ~m.delayed_copy
    <2>1. next = Put(Take(m, 1), CString(t[j + 1]))
      BY <1>6, <1>9, <1>11, <1>19
    <2>2. m.err = "0" => ~m.delayed_copy /\ IsVector(SubSeq(t, 1, j), m.dst)
      BY <1>16, <1>19
    <2>3. Going(Put(Take(m, 1), CString(t[j + 1])), j + 1, s, t, str)
      BY <1>2, <1>6, <1>8, <2>2, PutMore
    <2> QED
      BY <1>6, <2>1, <2>3 DEF t
  <1>20. CASE m.err = "0" /\ StrStr(arg, str) # 0
    <2>1. /\ begun \in Loops
          /\ begun.err = "0" =>
               ~begun.delayed_copy /\ begun.dst = IF m.delayed_copy THEN m.dst \o left ELSE m.dst
      BY <1>5, <1>8, <1>10, <1>20, BegunIs
    <2> HIDE DEF begun
    <2>2. CASE begun.err # "0"
      <3>1. next = begun
        BY <1>9, <1>20, <2>2
      <3> QED
        BY <2>1, <2>2, <3>1 DEF Going, t
    <2>3. CASE begun.err = "0"
      <3>1. IsVector(SubSeq(t, 1, j), begun.dst)
        <4>1. CASE m.delayed_copy
          <5>1. <<>> \o left = left
            BY ConcatEmptySeq
          <5>2. begun.dst = left
            BY <1>16, <1>20, <2>1, <2>3, <4>1, <5>1
          <5>3. SubSeq(t, 1, j) = SubSeq(s, 1, j)
            BY <1>12, <1>16, <1>20, <4>1
          <5> QED
            BY <1>14, <5>2, <5>3
        <4>2. CASE ~m.delayed_copy
          BY <1>16, <1>20, <2>1, <2>3, <4>2
        <4> QED
          BY <4>1, <4>2
      <3>2. next = Put(Take(begun, 1), CString(t[j + 1]))
        BY <1>6, <1>9, <1>10, <1>20, <2>3
      <3>3. Going(Put(Take(begun, 1), CString(t[j + 1])), j + 1, s, t, str)
        BY <1>2, <1>6, <2>1, <3>1, PutMore
      <3> QED
        BY <1>6, <3>2, <3>3 DEF t
    <2> QED
      BY <2>2, <2>3
  <1> QED
    BY <1>17, <1>18, <1>19, <1>20 DEF t
(* The loop over the entries exists, and does what it is for.              *)
LEMMA ReplaceHeld ==
    ASSUME NEW s, HeldIn(s, argz, len), NEW str \in Seq(Letters), NEW with \in Seq(Letters),
           NEW room \in Nat, argz_replace(str, with, room)
    PROVE  Outcome(s)
  <1> DEFINE n == Len(s)
             t == Become(s, str, with)
             start == [dst |-> <<>>, delayed_copy |-> TRUE, err |-> "0", room |-> room]
             Body(f) == [k \in 0..Len(argz_extract) |->
                            IF k = 0 THEN start
                            ELSE Replaced(f[k - 1], argz_extract[k], str, with)]
             loop == CHOOSE f : f = Body(f)
             m == loop[Len(argz_extract)]
  <1>1. /\ call' = Call("replace", 0, str, with)
        /\ \/ str = <<>> /\ Returns(argz, len, "0")
           \/ /\ str # <<>> /\ m.err = "0"
              /\ Returns(IF m.delayed_copy THEN argz ELSE m.dst,
                         IF m.delayed_copy THEN len ELSE Len(m.dst), "0")
           \/ str # <<>> /\ m.err # "0" /\ Returns(argz, len, m.err)
    BY DEF argz_replace
  <1>2. Meaning(call', s) =
           IF str = <<>> THEN s ELSE [i \in DOMAIN s |-> Substitute(s[i], str, with)]
    BY <1>1, MeaningIs
  <1>3. CASE str = <<>>
    <2>1. Meaning(call', s) = s
      BY <1>2, <1>3
    <2>2. argz' = argz /\ len' = len /\ err' = "0"
      BY <1>1, <1>3 DEF Returns
    <2> QED
      BY <2>1, <2>2 DEF Outcome
  <1>4. CASE str # <<>>
    <2>1. s \in Seq(Seq(Letters)) /\ Holds(s, Block) /\ IsVector(s, Block)
      BY HeldFacts
    <2>2. PICK st : VectorOf(s, Block, st)
      BY <2>1 DEF IsVector
    <2>3. argz_extract = [k \in 1..n |-> st[k]]
      BY <2>1, <2>2, ExtractIs
    <2>4. n \in Nat /\ t \in Seq(Seq(Letters)) /\ Len(t) = n /\ Meaning(call', s) = t
      BY <1>2, <1>4, <2>1, BecomeIs
    <2>5. Len(argz_extract) = n /\ \A k \in 1..n : argz_extract[k] = st[k]
      <3> DEFINE e == argz_extract
      <3>1. \A k \in 1..n : st[k] \in Nat
        BY <2>2, <2>4, StartsRise
      <3>2. e = [k \in 1..n |-> st[k]]
        BY <2>3
      <3> HIDE DEF e
      <3>3. Len(e) = n
        BY <2>4, <3>1, <3>2, IsASeq
      <3> QED
        BY <3>2, <3>3 DEF e
    <2>6. start \in Loops
      <3>1. <<>> \in Seq(Chars) /\ room \in Int
        BY EmptySeq
      <3> QED
        BY <3>1 DEF Loops
    <2> HIDE DEF start, n
    <2>7. Body(loop) = [k \in 0..n |-> IF k = 0 THEN start
                                       ELSE Replaced(loop[k - 1], argz_extract[k], str, with)]
      BY <2>5
    <2>8. \E f : f = Body(f)
      <3> DEFINE F == [k \in 0..n - 1 |-> [x \in Loops |-> Replaced(x, st[k + 1], str, with)]]
      <3>1. F \in [0..n - 1 -> [Loops -> Loops]]
        <4>1. ASSUME NEW k \in 0..n - 1, NEW x \in Loops
              PROVE  Replaced(x, st[k + 1], str, with) \in Loops
          <5>1. k + 1 \in 1..Len(s)
            BY <2>4 DEF n
          <5> QED
            BY <1>4, <2>2, <5>1, ReplacedType
        <4> QED
          BY <4>1
      <3> HIDE DEF F
      <3>2. PICK f \in [0..n -> Loops] : Steps(f, F, n, start)
        BY <2>4, <2>6, <3>1, StepsExist
      <3>3. ASSUME NEW k \in 1..n
            PROVE  f[k] = Replaced(f[k - 1], argz_extract[k], str, with)
        <4>1. k - 1 \in 0..n - 1 /\ (k - 1) + 1 = k /\ k - 1 \in 0..n
          BY <2>4
        <4>2. f[k] = F[k - 1][f[k - 1]] /\ f[k - 1] \in Loops
          BY <3>2, <4>1 DEF Steps
        <4>3. F[k - 1][f[k - 1]] = Replaced(f[k - 1], st[k], str, with)
          BY <4>1, <4>2 DEF F
        <4> QED
          BY <2>5, <4>2, <4>3
      <3>4. f[0] = start /\ \A k \in 0..n : k # 0 => k \in 1..n
        BY <3>2 DEF Steps
      <3>5. f = [k \in 0..n |-> IF k = 0 THEN start
                                ELSE Replaced(f[k - 1], argz_extract[k], str, with)]
        BY <3>3, <3>4
      <3>6. f = Body(f)
        BY <2>5, <3>5
      <3> QED
        BY <3>6
    <2>9. loop = Body(loop)
      BY <2>8
    <2>10. m = loop[n]
      BY <2>5
    <2> HIDE DEF loop, m, Body, t
    <2>11. loop[0] = start
      BY <2>4, <2>7, <2>9
    <2>12. ASSUME NEW k \in 1..n PROVE loop[k] = Replaced(loop[k - 1], st[k], str, with)
      <3>1. k \in 0..n /\ k # 0
        BY <2>4
      <3>2. loop[k] = Replaced(loop[k - 1], argz_extract[k], str, with)
        BY <2>7, <2>9, <3>1
      <3> QED
        BY <2>5, <3>2
    <2>13. Going(loop[0], 0, s, t, str)
      BY <2>6, <2>11 DEF Going, start
    <2>14. Going(m, n, s, t, str)
      <3> DEFINE D == {k \in 0..n : Going(loop[k], k, s, t, str)}
      <3>1. 0 \in D
        BY <2>4, <2>13
      <3>2. ASSUME NEW k \in 0..n - 1, k \in D PROVE k + 1 \in D
        <4>1. k + 1 \in 1..n /\ (k + 1) - 1 = k /\ k + 1 \in 0..n
          BY <2>4
        <4>2. loop[k + 1] = Replaced(loop[k], st[k + 1], str, with)
          BY <2>12, <4>1
        <4>3. PICK j \in 1..Len(s) : j = k + 1
          BY <4>1 DEF n
        <4>4. Going(loop[k], j - 1, s, Become(s, str, with), str)
          BY <3>2, <4>1, <4>3 DEF t
        <4>5. Going(Replaced(loop[k], st[j], str, with), j, s, Become(s, str, with), str)
          BY <1>4, <2>2, <4>4, ReplacedGoes
        <4> QED
          BY <4>1, <4>2, <4>3, <4>5 DEF t
      <3> HIDE DEF D
      <3>3. \A k \in 0..n - 1 : k \in D => k + 1 \in D
        BY <3>2
      <3>4. \A k \in 0..n : k \in D
        BY <2>4, <3>1, <3>3, Upward, Zenon
      <3>5. n \in D
        BY <2>4, <3>4
      <3> QED
        BY <2>10, <3>5 DEF D
    <2>15. CASE m.err # "0"
      <3>1. argz' = argz /\ len' = len /\ err' # "0"
        BY <1>1, <1>4, <2>15 DEF Returns
      <3> QED
        BY <3>1 DEF Outcome
    <2>16. CASE m.err = "0" /\ m.delayed_copy
      <3>1. argz' = argz /\ len' = len /\ err' = "0"
        BY <1>1, <1>4, <2>16 DEF Returns
      <3>2. \A i \in 1..n : StrStr(s[i], str) = 0
        BY <2>14, <2>16 DEF Going
      <3>3. SubSeq(t, 1, n) = SubSeq(s, 1, n)
        <4>1. n \in 0..Len(s)
          BY <2>4 DEF n
        <4> QED
          BY <1>4, <2>1, <3>2, <4>1, SameSoFar DEF t
      <3>4. t = s
        <4>1. SubSeq(s, 1, Len(s)) = s /\ SubSeq(t, 1, Len(t)) = t
          BY <2>1, <2>4, Ends
        <4>2. Len(t) = n /\ Len(s) = n
          BY <2>4 DEF n
        <4> QED
          BY ONLY <3>3, <4>1, <4>2, Zenon
      <3> QED
        BY <2>4, <3>1, <3>4 DEF Outcome
    <2>17. CASE m.err = "0" /\ ~m.delayed_copy
      <3>1. argz' = m.dst /\ len' = Len(m.dst) /\ err' = "0"
        BY <1>1, <1>4, <2>17 DEF Returns
      <3>2. IsVector(SubSeq(t, 1, n), m.dst)
        BY <2>14, <2>17 DEF Going
      <3>3. SubSeq(t, 1, n) = t
        <4>1. SubSeq(t, 1, Len(t)) = t
          BY <2>4, Ends
        <4> QED
          BY <2>4, <4>1
      <3>4. n # 0
        <4>1. n = 0 => m = start
          BY <2>10, <2>11
        <4> QED
          BY <2>17, <4>1 DEF start
      <3>5. t # <<>>
        BY <2>4, <3>4, EmptySeq
      <3>6. m.dst # <<>>
        BY <3>2, <3>3, <3>5, VectorFacts
      <3>7. HeldIn(t, argz', len')
        BY <3>1, <3>2, <3>3, <3>6, Held
      <3> QED
        BY <2>4, <3>1, <3>7 DEF Outcome
    <2> QED
      BY <2>15, <2>16, <2>17
  <1> QED
    BY <1>3, <1>4
-----------------------------------------------------------------------------
(* All calls                                                               *)

ArgzInv == Lost \/ argz = Wild \/ \E s : HeldIn(s, argz, len)

LEMMA CallsHeld ==
    ASSUME NEW s, HeldIn(s, argz, len), CallAny
    PROVE  Outcome(s)
  <1>1. ASSUME NEW text \in Texts, argz_add(text) PROVE Outcome(s)
    BY <1>1, GivenTexts, AddHeld
  <1>2. ASSUME NEW text \in Texts, argz_add_sep(text) PROVE Outcome(s)
    BY <1>2, GivenTexts, AddSepHeld
  <1>3. ASSUME NEW text \in Texts, argz_create_sep(text) PROVE Outcome(s)
    BY <1>3, GivenTexts, CreateSepHeld
  <1>4. ASSUME NEW text \in Texts, NEW before \in 0..len + 1, argz_insert(before, text)
        PROVE  Outcome(s)
    BY <1>4, GivenTexts, InsertHeld
  <1>5. ASSUME NEW argv \in UNION {[1..n -> Texts] : n \in 0..MaxStrings}, argz_create(argv)
        PROVE  Outcome(s)
    BY <1>5, GivenTexts, CreateHeld
  <1>6. ASSUME NEW i \in 1..argz_count, argz_delete(argz_extract[i]) PROVE Outcome(s)
    BY <1>6, DeleteHeld
  <1>7. ASSUME argz_stringify PROVE Outcome(s)
    BY <1>7, StringifyHeld
  <1>8. ASSUME NEW str \in Patterns, NEW with \in Substitutes, NEW room \in Rooms,
               argz_replace(str, with, room)
        PROVE  Outcome(s)
    <2>1. str \in Seq(Letters) /\ with \in Seq(Letters) /\ room \in Nat
      BY TextsAreOfLetters, BoundsAreNumbers
    <2> QED
      BY <1>8, <2>1, ReplaceHeld
  <1> QED
    BY <1>1, <1>2, <1>3, <1>4, <1>5, <1>6, <1>7, <1>8 DEF CallAny

LEMMA NothingHeld == HeldIn(<<>>, Null, 0)
  <1>1. Len(<<>>) = 0
    OBVIOUS
  <1> QED
    BY <1>1, EmptyVector, NullIsNoBlock DEF HeldIn

LEMMA InvHeld == ArgzSpec => []ArgzInv
  <1>1. InitArgz => ArgzInv
    BY NothingHeld DEF InitArgz, ArgzInv
  <1>2. ArgzInv /\ [NextArgz]_argzVars => ArgzInv'
    <2> SUFFICES ASSUME ArgzInv, [NextArgz]_argzVars PROVE ArgzInv'
      OBVIOUS
    <2>1. CASE UNCHANGED <<argz, len>>
      BY <2>1 DEF ArgzInv, Lost
    <2>2. CASE Drop
      BY <2>2, NothingHeld DEF Drop, ArgzInv
    <2>3. CASE argz # Wild /\ ~Lost /\ CallAny
      <3>1. PICK s : HeldIn(s, argz, len)
        BY <2>3 DEF ArgzInv
      <3>2. Outcome(s)
        BY <2>3, <3>1, CallsHeld
      <3>0. CASE Spoilt
        BY <3>0 DEF Spoilt, ArgzInv
      <3>3. CASE ~Spoilt /\ err' = "0"
        <4>1. \E t : HeldIn(t, argz', len')
          BY <3>2, <3>3 DEF Outcome
        <4> QED
          BY <4>1 DEF ArgzInv
      <3>4. CASE err' # "0" /\ argz' = Null
        <4>1. CASE len' # 0
          BY <3>4, <4>1 DEF ArgzInv, Lost
        <4>2. CASE len' = 0
          <5>1. HeldIn(<<>>, argz', len')
            BY <3>4, <4>2, NothingHeld
          <5> QED
            BY <5>1 DEF ArgzInv
        <4> QED
          BY <4>1, <4>2
      <3> QED
        BY <2>1, <3>0, <3>2, <3>3, <3>4 DEF Outcome
    <2> QED
      BY <2>1, <2>2, <2>3 DEF NextArgz, GoOn, argzVars
  <1> QED
    BY <1>1, <1>2, PTL DEF ArgzSpec

(* Whatever the program calls, and whatever fails, the vector ends with a  *)
(* NUL, is as long as len says, and is NULL when it is empty, unless it is *)
(* lost or was written to in front of its block.                           *)
THEOREM ArgzIsWellFormed == ArgzSpec => []WellFormed
  <1>1. ArgzInv => WellFormed
    <2> SUFFICES ASSUME NEW s, HeldIn(s, argz, len) PROVE WellFormed
      BY DEF ArgzInv, WellFormed
    <2>1. /\ len = Len(Block) /\ len \in Nat /\ (argz = Null <=> len = 0)
          /\ IsVector(s, Block) /\ Block \in Seq(Chars) /\ (len > 0 => argz = Block)
      BY HeldFacts DEF HeldIn
    <2>2. argz # Null => argz[len] = NUL /\ \A p \in 1..len : argz[p] \in Letters \cup {NUL}
      <3> SUFFICES ASSUME argz # Null
                   PROVE  argz[len] = NUL /\ \A p \in 1..len : argz[p] \in Letters \cup {NUL}
        OBVIOUS
      <3>1. len > 0 /\ argz = Block
        BY <2>1
      <3>2. Block # <<>>
        BY <2>1, <3>1, EmptySeq
      <3>3. Block[Len(Block)] = NUL
        BY <2>1, <3>2, VectorFacts
      <3>4. \A p \in 1..Len(Block) : Block[p] \in Chars
        BY <2>1, ElementOfSeq
      <3> HIDE DEF Block
      <3> QED
        BY <2>1, <3>1, <3>3, <3>4 DEF Chars
    <2> QED
      BY <2>1, <2>2 DEF WellFormed
  <1> QED
    BY <1>1, InvHeld, PTL

(* argz_count, argz_extract and argz_next find all strings of the vector,  *)
(* each at its beginning, in the order in which they stand.                *)
THEOREM ArgzQueriesFindAll == ArgzSpec => []QueriesFindAll
  <1>1. ArgzInv => QueriesFindAll
    <2>1. CASE Lost \/ argz = Wild
      BY <2>1 DEF QueriesFindAll
    <2>2. ASSUME NEW s, HeldIn(s, argz, len) PROVE QueriesFindAll
      <3>1. Holds(s, Block)
        BY <2>2, HeldFacts
      <3> QED
        BY <3>1, QueriesFind
    <2> QED
      BY <2>1, <2>2 DEF ArgzInv
  <1> QED
    BY <1>1, InvHeld, PTL

(* Every function does to the strings what it is for when it returns 0,    *)
(* and otherwise has left the vector alone, or lost it all; only           *)
(* argz_insert, and only at a pointer inside the first entry, may write in *)
(* front of the block.                                                     *)
THEOREM ArgzDoesAsMeant == ArgzSpec => DoesAsMeant
  <1> DEFINE Meant == IF argz' = Wild
                      THEN argz = Wild \/ (call'.op = "insert" /\ InFirst(call'.at))
                      ELSE IF err' = "0" THEN Strings(Block)' = Meaning(call', Strings(Block))
                      ELSE \/ UNCHANGED <<argz, len>>
                           \/ call'.op \in {"create", "create_sep", "add_sep"} /\ argz' = Null
  <1>1. ArgzInv /\ [NextArgz]_argzVars => [Meant]_argzVars
    <2> SUFFICES ASSUME ArgzInv, NextArgz PROVE Meant
      OBVIOUS
    <2>1. CASE GoOn
      <3>1. call' = NoCall /\ err' = "0" /\ Strings(Block)' = Strings(Block)
        BY <2>1 DEF GoOn, Block
      <3>2. Meaning(NoCall, Strings(Block)) = Strings(Block)
        BY MeaningIs
      <3>3. argz' = argz
        BY <2>1 DEF GoOn
      <3> QED
        BY <3>1, <3>2, <3>3
    <2>2. CASE Drop
      <3>1. call' = Call("drop", 0, <<>>, <<>>) /\ err' = "0" /\ Block' = <<>>
        BY <2>2 DEF Drop, Block
      <3>2. Meaning(Call("drop", 0, <<>>, <<>>), Strings(Block)) = <<>>
        BY MeaningIs
      <3>3. Strings(<<>>) = <<>>
        BY EmptyVector, VectorFacts
      <3>4. Strings(Block)' = Strings(Block')
        OBVIOUS
      <3>5. argz' # Wild
        BY <2>2, NullIsNoBlock DEF Drop
      <3> QED
        BY <3>1, <3>2, <3>3, <3>4, <3>5
    <2>3. CASE argz # Wild /\ ~Lost /\ CallAny
      <3>1. PICK s : HeldIn(s, argz, len)
        BY <2>3 DEF ArgzInv
      <3>2. Outcome(s)
        BY <2>3, <3>1, CallsHeld
      <3>3. Strings(Block) = s
        BY <3>1, HeldFacts, VectorFacts
      <3>6. CASE Spoilt
        BY <3>6 DEF Spoilt
      <3>4. CASE ~Spoilt /\ err' = "0"
        <4>1. PICK t : t = Meaning(call', s) /\ HeldIn(t, argz', len')
          BY <3>2, <3>4 DEF Outcome
        <4>2. argz' # Wild /\ IsVector(t, Block')
          BY <4>1 DEF HeldIn, Block
        <4>3. Strings(Block') = t
          BY <4>2, VectorFacts
        <4>4. Strings(Block)' = t
          BY <4>3
        <4> QED
          BY <3>3, <3>4, <4>1, <4>2, <4>4
      <3>5. CASE ~Spoilt /\ err' # "0"
        <4>1. \/ UNCHANGED <<argz, len>>
              \/ call'.op \in {"create", "create_sep", "add_sep"} /\ argz' = Null
          BY <3>2, <3>5 DEF Outcome
        <4>2. argz' # Wild
          BY <2>3, <4>1, NullIsNoBlock
        <4> QED
          BY <3>5, <4>1, <4>2
      <3> QED
        BY <3>4, <3>5, <3>6
    <2> QED
      BY <2>1, <2>2, <2>3 DEF NextArgz
  <1> QED
    BY <1>1, InvHeld, PTL DEF ArgzSpec, DoesAsMeant
=============================================================================
