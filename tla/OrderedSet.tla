----------------------------- MODULE OrderedSet -----------------------------
(* What an ordered collection with one element per key promises: insert,   *)
(* remove, and queries that answer by the order of the keys.               *)
EXTENDS Integers

CONSTANTS Keys, Null

VARIABLES set

Least(S) == IF S = {} THEN Null ELSE CHOOSE k \in S : \A j \in S : k <= j
Greatest(S) == IF S = {} THEN Null ELSE CHOOSE k \in S : \A j \in S : j <= k

At(k) == IF k \in set THEN k ELSE Null
From(k) == Least({j \in set : j >= k})
After(k) == Least({j \in set : j > k})
Before(k) == Greatest({j \in set : j < k})
First == Least(set)
Last == Greatest(set)

Insert(k) == set' = set \cup {k}
Remove(k) == k \in set /\ set' = set \ {k}

SetSpec == set = {} /\ [][\E k \in Keys : Insert(k) \/ Remove(k)]_set
=============================================================================
