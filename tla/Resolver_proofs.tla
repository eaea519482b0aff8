-------------------------- MODULE Resolver_proofs ---------------------------
(***************************************************************************)
(* Of the resolver, for any schedule of delays, any number of servers, ids *)
(* and questions, and any finite set of TTLs: no resend meets a closed     *)
(* socket, a query is answered once, and no name server but the first is   *)
(* ever asked. All three follow from one inductive invariant, Inv.         *)
(***************************************************************************)
EXTENDS Resolver, SequenceTheorems, FiniteSetTheorems, WellFoundedInduction, TLAPS

-----------------------------------------------------------------------------
(* The constants. A finite set of numbers that is not empty has a largest: *)
(* the well-founded order of its subsets gives the smallest of the sets {m *)
(* : k <= m}.                                                              *)
LEMMA LargestIs ==
  ASSUME NEW S, S \subseteq Nat, IsFiniteSet(S), S # {}
  PROVE  Largest(S) \in S /\ \A m \in S : m <= Largest(S)
<1> DEFINE Upper(k) == {m \in S : k <= m}
           Uppers == {Upper(k) : k \in S}
           R == StrictSubsetOrdering(S)
<1>1. Uppers \subseteq FiniteSubsetsOf(S)
  <2>1. \A k \in S : Upper(k) \subseteq S OBVIOUS
  <2>2. \A k \in S : IsFiniteSet(Upper(k)) BY <2>1, FS_Subset
  <2> HIDE DEF Upper
  <2> QED BY <2>1, <2>2, Zenon DEF FiniteSubsetsOf
<1>2. Uppers # {} OBVIOUS
<1>3. IsWellFoundedOn(R, FiniteSubsetsOf(S)) BY FS_StrictSubsetOrderingWellFounded
<1> HIDE DEF Uppers, R
<1>4. \E X \in Uppers : \A Y \in Uppers : ~(<<Y, X>> \in R) BY <1>1, <1>2, <1>3, WFMin
<1>5. PICK X \in Uppers : \A Y \in Uppers : ~(<<Y, X>> \in R) BY <1>4
<1>6. PICK k \in S : X = Upper(k) BY <1>5, Zenon DEF Uppers
<1>7. ASSUME NEW j \in S, j > k PROVE FALSE
  <2>1. Upper(j) \in Uppers BY DEF Uppers
  <2>2. Upper(j) \subseteq Upper(k) /\ Upper(j) # Upper(k)
    <3>1. j \in Nat /\ k \in Nat /\ k \in Upper(k) /\ k \notin Upper(j) BY <1>7, SMT
    <3>2. \A m \in S : j <= m => k <= m BY <1>7, SMT
    <3> QED BY <3>1, <3>2
  <2>3. <<Upper(j), Upper(k)>> \in R BY <2>2 DEF R, StrictSubsetOrdering
  <2> QED BY <1>5, <1>6, <2>1, <2>3
<1>8. \A j \in S : j <= k BY <1>7, SMT
<1> QED BY <1>8 DEF Largest

(* Every delay of the schedule, and every TTL, is within the bound that    *)
(* the types are stated with.                                              *)
LEMMA DelayFacts ==
  /\ Len(Delays) \in Nat /\ 1 \in 1..Len(Delays) /\ MaxDelay \in Nat
  /\ \A i \in 1..Len(Delays) : Delays[i] \in 0..MaxDelay
<1>1. Delays \in Seq(Nat \ {0}) /\ Delays # <<>> BY DelaysAssumption
<1>2. /\ Len(Delays) \in Nat \ {0} /\ DOMAIN Delays = 1..Len(Delays)
      /\ \A i \in 1..Len(Delays) : Delays[i] \in Nat
  <2>1. Len(Delays) \in Nat \ {0} BY <1>1, EmptySeq
  <2>2. DOMAIN Delays = 1..Len(Delays) BY <1>1, LenProperties
  <2>3. \A i \in 1..Len(Delays) : Delays[i] \in Nat \ {0} BY <1>1, ElementOfSeq
  <2> QED BY <2>1, <2>2, <2>3
<1>3. 1 \in 1..Len(Delays) BY <1>2, SMT
<1> DEFINE S == {Delays[i] : i \in DOMAIN Delays}
<1>4. S \subseteq Nat /\ S # {} BY <1>2, <1>3
<1>5. IsFiniteSet(S)
  <2>1. Delays = [i \in 1..Len(Delays) |-> Delays[i]] BY <1>1, <1>2
  <2>2. Delays \in [1..Len(Delays) -> S] BY <1>2, <2>1
  <2>3. Delays \in Surjection(1..Len(Delays), S) BY <1>2, <2>2 DEF Surjection
  <2>4. IsFiniteSet(1..Len(Delays)) BY <1>2, FS_Interval
  <2> QED BY <2>3, <2>4, FS_Surjection
<1>6. MaxDelay \in Nat /\ \A m \in S : m <= MaxDelay BY <1>4, <1>5, LargestIs DEF MaxDelay
<1>7. \A i \in 1..Len(Delays) : Delays[i] \in 0..MaxDelay
  <2> SUFFICES ASSUME NEW i \in 1..Len(Delays) PROVE Delays[i] \in 0..MaxDelay
    OBVIOUS
  <2>1. Delays[i] \in Nat /\ Delays[i] <= MaxDelay BY <1>2, <1>6
  <2> QED BY <1>6, <2>1, SMT
<1> QED BY <1>2, <1>3, <1>6, <1>7

LEMMA LifeFacts == /\ MaxLife \in Nat
                   /\ \A t \in TTLs : t \in 0..MaxLife
<1>1. TTLs \cup {0} \subseteq Nat /\ TTLs \cup {0} # {} BY TTLsAssumption
<1>2. IsFiniteSet(TTLs \cup {0}) BY TTLsAssumption, FS_AddElement
<1>3. MaxLife \in Nat /\ \A t \in TTLs \cup {0} : t <= MaxLife
  BY <1>1, <1>2, LargestIs DEF MaxLife
<1>4. \A t \in TTLs : t \in Nat /\ t <= MaxLife BY <1>1, <1>3
<1> QED BY <1>3, <1>4, SMT

(* What query makes of an entry of active, and what pulse makes of one     *)
(* that has a try left, is an entry.                                       *)
LEMMA TryFacts == FirstTry \in Queries
<1>1. 1 \in 1..MaxServers BY MaxServersIsPositive, SMT
<1> QED BY <1>1, DelayFacts DEF FirstTry, Queries

LEMMA AgainFacts ==
  ASSUME NEW o \in Queries, servers \in 1..MaxServers, ~GivenUp(o)
  PROVE  Again(o) \in Queries
<1>1. /\ o.server \in 1..MaxServers /\ o.delay \in 1..Len(Delays)
      /\ o = [server |-> o.server, delay |-> o.delay, wait |-> o.wait]
  BY DEF Queries
<1>2. MaxServers \in Nat /\ 1 \in 1..MaxServers BY MaxServersIsPositive, SMT
<1>3. CASE o.server + 1 <= servers
  <2>1. o.server + 1 \in 1..MaxServers BY <1>1, <1>2, <1>3, SMT
  <2>2. Delays[o.delay] \in 0..MaxDelay BY <1>1, DelayFacts
  <2> QED BY <1>3, <2>1, <2>2 DEF Again, Queries
<1>4. CASE ~(o.server + 1 <= servers)
  <2>1. o.server >= servers BY <1>1, <1>2, <1>4, SMT
  <2>2. o.delay # Len(Delays) BY <2>1 DEF GivenUp
  <2>3. o.delay + 1 \in 1..Len(Delays) BY <1>1, <2>2, DelayFacts, SMT
  <2>4. Delays[o.delay + 1] \in 0..MaxDelay BY <2>3, DelayFacts
  <2> QED BY <1>2, <1>4, <2>3, <2>4 DEF Again, Queries
<1> QED BY <1>3, <1>4

-----------------------------------------------------------------------------
(* The queries of a question that are outstanding, with whatever ids.      *)
WaitingFor(q) == {k \in DOMAIN active : k[2] = q}

(* The inductive invariant. Beside the types: the socket is open while a   *)
(* query waits; queries are finitely many, so that they can be counted;    *)
(* and each reply applied used up a query.                                 *)
Inv ==
    /\ TypeOK
    /\ DOMAIN active # {} => open
    /\ IsFiniteSet(DOMAIN active)
    /\ AnsweredOnce

(* Counting: the outstanding queries of a question are a natural number,   *)
(* and a step that adds no query and applies no reply keeps the count.     *)
LEMMA CountFacts ==
  ASSUME Inv, NEW q \in Questions
  PROVE  /\ IsFiniteSet(WaitingFor(q)) /\ Cardinality(WaitingFor(q)) \in Nat
         /\ applied[q] \in Nat /\ asked[q] \in 0..MaxQueries
         /\ applied[q] + Cardinality(WaitingFor(q)) <= asked[q]
<1>1. IsFiniteSet(WaitingFor(q)) BY FS_Subset DEF Inv, WaitingFor
<1>2. Cardinality(WaitingFor(q)) \in Nat BY <1>1, FS_CardinalityType
<1> QED BY <1>1, <1>2 DEF Inv, TypeOK, AnsweredOnce, WaitingFor

LEMMA FewerWait ==
  ASSUME Inv, DOMAIN active' \subseteq DOMAIN active, asked' = asked, applied' = applied
  PROVE  AnsweredOnce' /\ IsFiniteSet(DOMAIN active')
<1>1. IsFiniteSet(DOMAIN active') BY FS_Subset DEF Inv
<1>2. ASSUME NEW q \in Questions
      PROVE  applied'[q] + Cardinality({k \in DOMAIN active' : k[2] = q}) <= asked'[q]
  <2> DEFINE W == {k \in DOMAIN active' : k[2] = q}
  <2>1. W \subseteq WaitingFor(q) BY DEF WaitingFor
  <2>2. IsFiniteSet(W) /\ Cardinality(W) <= Cardinality(WaitingFor(q))
    BY <2>1, CountFacts, FS_Subset
  <2>3. Cardinality(W) \in Nat BY <2>2, FS_CardinalityType
  <2> HIDE DEF W
  <2>4. applied[q] + Cardinality(W) <= asked[q] BY <2>2, <2>3, CountFacts, SMT
  <2> QED BY <2>4 DEF W
<1> QED BY <1>1, <1>2 DEF AnsweredOnce

-----------------------------------------------------------------------------
(* Each operation keeps Inv. query adds one entry (or, with an id that is  *)
(* in use, overwrites one) and counts one question asked.                  *)
LEMMA AskKeeps ==
  ASSUME Inv, NEW who \in Coroutines \cup {Main}, NEW q \in Questions, Ask(who, q),
         pc' \in {"run", "receive"}, servers' = servers,
         looking' \in {{}} \cup {{p} : p \in Questions}
  PROVE  Inv'
<1>1. TypeOK /\ life' = life /\ immortal' = immortal /\ replies' = replies /\ applied' = applied
  BY DEF Inv, Ask, cache
<1>2. PICK id \in Ids :
        /\ requests' = requests \cup {<<id, q>>}
        /\ active' = [k \in DOMAIN active \cup {<<id, q>>} |->
                        IF k = <<id, q>> THEN FirstTry ELSE active[k]]
  BY DEF Ask
<1>3. DOMAIN active' = DOMAIN active \cup {<<id, q>>} /\ <<id, q>> \in Keys
  BY <1>2 DEF Keys
<1>4. /\ asked' = [asked EXCEPT ![q] = asked[q] + 1] /\ asked[q] + 1 \in 0..MaxQueries
      /\ asked \in [Questions -> 0..MaxQueries] /\ asked[q] \in Nat
  <2>1. asked[q] \in 0..MaxQueries /\ asked[q] < MaxQueries /\ MaxQueries \in Nat
    BY <1>1, MaxQueriesIsNatural DEF TypeOK, Ask
  <2>2. asked[q] + 1 \in 0..MaxQueries /\ asked[q] \in Nat BY <2>1, SMT
  <2> QED BY <1>1, <2>2 DEF TypeOK, Ask
<1>5. TypeOK'
  <2>1. active' \in [DOMAIN active' -> Queries] /\ DOMAIN active' \subseteq Keys
    BY <1>1, <1>2, <1>3, TryFacts DEF TypeOK
  <2>2. requests' \subseteq Keys BY <1>1, <1>2, <1>3 DEF TypeOK
  <2>3. wanted' \subseteq Questions \X Coroutines BY <1>1 DEF Ask, TypeOK
  <2>4. asked' \in [Questions -> 0..MaxQueries] BY <1>4
  <2>5. open' \in BOOLEAN BY DEF Ask
  <2> QED BY <1>1, <2>1, <2>2, <2>3, <2>4, <2>5 DEF TypeOK
<1>6. open' BY DEF Ask
<1>7. IsFiniteSet(DOMAIN active')
  <2>1. IsFiniteSet(DOMAIN active) BY DEF Inv
  <2>2. IsFiniteSet(DOMAIN active \cup {<<id, q>>}) BY <2>1, FS_AddElement
  <2> QED BY <1>3, <2>2
<1>8. AnsweredOnce'
  <2> SUFFICES ASSUME NEW p \in Questions
               PROVE  applied'[p] + Cardinality({k \in DOMAIN active' : k[2] = p}) <= asked'[p]
    BY DEF AnsweredOnce
  <2> DEFINE W == {k \in DOMAIN active' : k[2] = p}
  <2>1. CASE p = q
    <3>1. W = WaitingFor(q) \cup {<<id, q>>} BY <1>3, <2>1 DEF WaitingFor
    <3>2. Cardinality(W) = Cardinality(WaitingFor(q)) \/ Cardinality(W) = Cardinality(WaitingFor(q)) + 1
      BY <3>1, CountFacts, FS_AddElement
    <3>3. asked'[q] = asked[q] + 1 BY <1>4
    <3> HIDE DEF W
    <3>4. applied[q] + Cardinality(W) <= asked[q] + 1 BY <1>4, <3>2, CountFacts, SMT
    <3> QED BY <1>1, <2>1, <3>3, <3>4 DEF W
  <2>2. CASE p # q
    <3>1. W = WaitingFor(p) BY <1>3, <2>2 DEF WaitingFor
    <3>2. asked'[p] = asked[p] BY <1>4, <2>2
    <3> QED BY <1>1, <3>1, <3>2, CountFacts
  <2> QED BY <2>1, <2>2
<1> QED BY <1>5, <1>6, <1>7, <1>8 DEF Inv

(* A step that leaves the queries, the socket and the counts alone.        *)
LEMMA SameQueries ==
  ASSUME Inv, TypeOK', active' = active, open' = open, asked' = asked, applied' = applied
  PROVE  Inv'
<1>1. AnsweredOnce' /\ IsFiniteSet(DOMAIN active') BY FewerWait
<1> QED BY <1>1 DEF Inv

(* receive: a packet that matches takes its entry away and counts one      *)
(* reply; if it was the last entry, the sockets are closed. Any other      *)
(* packet ends the loop and changes nothing else.                          *)
LEMMA ReceiveKeeps == ASSUME Inv, NEW m \in replies, Receive(m) PROVE Inv'
<1> DEFINE k == <<m[1], m[2]>>
<1>1. /\ TypeOK /\ servers' = servers /\ looking' = looking /\ wanted' = wanted /\ asked' = asked
      /\ m[1] \in Ids /\ m[2] \in Questions /\ m[3] \in TTLs \cup {NoRecord}
  BY DEF Receive, Inv, TypeOK
<1>2. CASE k \in DOMAIN active
  <2>1. /\ Remember(m[2], m[3]) /\ active' = Retired(k) /\ open' = (DOMAIN active' # {})
        /\ requests' \subseteq requests /\ replies' \subseteq replies /\ pc' = pc
    BY <1>2 DEF Receive, Quiet
  <2>2. DOMAIN active' = DOMAIN active \ {k} /\ \A j \in DOMAIN active' : active'[j] = active[j]
    BY <2>1 DEF Retired
  <2>3. life' \in [Questions -> 0..MaxLife] /\ immortal' \in [Questions -> BOOLEAN]
    <3>1. life' \in [Questions -> 0..MaxLife]
      BY <1>1, <2>1, LifeFacts DEF Remember, TypeOK
    <3>2. immortal' \in [Questions -> BOOLEAN]
      BY <1>1, <2>1 DEF Remember, TypeOK
    <3> QED BY <3>1, <3>2
  <2>4. /\ applied' = [applied EXCEPT ![m[2]] = applied[m[2]] + 1]
        /\ applied \in [Questions -> Nat] /\ applied' \in [Questions -> Nat]
    <3>1. applied \in [Questions -> Nat] BY <1>1 DEF TypeOK
    <3>2. applied[m[2]] + 1 \in Nat BY <1>1, <3>1, SMT
    <3> QED BY <1>1, <2>1, <3>1, <3>2 DEF Remember
  <2>5. TypeOK'
    <3>1. active' \in [DOMAIN active' -> Queries] /\ DOMAIN active' \subseteq Keys
      BY <1>1, <2>1, <2>2 DEF Retired, TypeOK
    <3>2. requests' \subseteq Keys /\ replies' \subseteq Ids \X Questions \X (TTLs \cup {NoRecord})
      BY <1>1, <2>1 DEF TypeOK
    <3>3. open' \in BOOLEAN BY <2>1
    <3> QED BY <1>1, <2>1, <2>3, <2>4, <3>1, <3>2, <3>3 DEF TypeOK
  <2>6. IsFiniteSet(DOMAIN active') BY <2>2, FS_Subset DEF Inv
  <2>7. AnsweredOnce'
    <3> SUFFICES ASSUME NEW p \in Questions
                 PROVE  applied'[p] + Cardinality({j \in DOMAIN active' : j[2] = p}) <= asked'[p]
      BY DEF AnsweredOnce
    <3> DEFINE W == {j \in DOMAIN active' : j[2] = p}
    <3>1. CASE p = m[2]
      <4>1. W = WaitingFor(p) \ {k} /\ k \in WaitingFor(p) BY <1>2, <2>2, <3>1 DEF WaitingFor
      <4>2. Cardinality(W) = Cardinality(WaitingFor(p)) - 1
        <5>1. IsFiniteSet(WaitingFor(p)) BY CountFacts
        <5>2. W = WaitingFor(p) \ {k} /\ k \in WaitingFor(p) BY <4>1
        <5> HIDE DEF W, k
        <5>3. Cardinality(WaitingFor(p) \ {k}) = Cardinality(WaitingFor(p)) - 1
          BY <5>1, <5>2, FS_RemoveElement
        <5> QED BY <5>2, <5>3
      <4>3. applied'[p] = applied[p] + 1 BY <2>4, <3>1
      <4> HIDE DEF W
      <4>4. (applied[p] + 1) + Cardinality(W) <= asked[p]
        <5>1. /\ Cardinality(WaitingFor(p)) \in Nat /\ applied[p] \in Nat /\ asked[p] \in Int
              /\ applied[p] + Cardinality(WaitingFor(p)) <= asked[p]
          BY CountFacts
        <5> QED BY <4>2, <5>1, SMT
      <4> QED BY <1>1, <4>3, <4>4 DEF W
    <3>2. CASE p # m[2]
      <4>1. W = WaitingFor(p) BY <2>2, <3>2 DEF WaitingFor
      <4>2. applied'[p] = applied[p] BY <2>4, <3>2
      <4> QED BY <1>1, <4>1, <4>2, CountFacts
    <3> QED BY <3>1, <3>2
  <2> QED BY <2>1, <2>5, <2>6, <2>7 DEF Inv
<1>3. CASE k \notin DOMAIN active
  <2>1. /\ pc' = "retry" /\ replies' \subseteq replies /\ active' = active /\ open' = open
        /\ life' = life /\ immortal' = immortal /\ requests' = requests /\ applied' = applied
    BY <1>3 DEF Receive, cache
  <2>2. TypeOK' BY <1>1, <2>1 DEF TypeOK
  <2> QED BY <1>1, <2>1, <2>2, SameQueries
<1> QED BY <1>2, <1>3

(* pulse: an entry of active that is still there is as it was, or resent   *)
(* to server 1, the only one that has a socket, or moved on and still due. *)
LEMMA RetryFacts ==
  ASSUME Inv, Retry \/ RetryRaises
  PROVE  /\ DOMAIN active' \subseteq DOMAIN active
         /\ active' = [k \in DOMAIN active' |-> active'[k]]
         /\ \A k \in DOMAIN active' :
              \/ active'[k] = active[k]
              \/ k \in Resent /\ active'[k] = Again(active[k]) /\ active'[k].server = 1
              \/ k \in Resent /\ active'[k] = [Again(active[k]) EXCEPT !.wait = 0]
<1>1. Resent \subseteq Due /\ Due \subseteq DOMAIN active BY DEF Resent, Due
<1>2. CASE Retry
  <2>1. /\ DOMAIN active' = (DOMAIN active \ Due) \cup Resent
        /\ \A k \in DOMAIN active' : active'[k] = IF k \in Due THEN Again(active[k]) ELSE active[k]
    BY <1>2 DEF Retry
  <2>2. \A k \in Resent : Again(active[k]).server = 1 BY <1>2 DEF Retry, HasSocket
  <2>3. \A k \in DOMAIN active' : k \notin Due \/ k \in Resent BY <2>1
  <2>4. active' = [k \in DOMAIN active' |-> active'[k]] BY <1>2 DEF Retry
  <2> QED BY <1>1, <2>1, <2>2, <2>3, <2>4
<1>3. CASE RetryRaises
  <2>1. PICK k \in Resent : \E S \in SUBSET (Due \ {k}) :
          /\ \A j \in S \cap Resent : HasSocket(Again(active[j]).server)
          /\ active' = [j \in DOMAIN active \ (S \ Resent) |->
                          IF j = k THEN [Again(active[j]) EXCEPT !.wait = 0]
                          ELSE IF j \in S THEN Again(active[j]) ELSE active[j]]
    BY <1>3 DEF RetryRaises
  <2>2. PICK S \in SUBSET (Due \ {k}) :
          /\ \A j \in S \cap Resent : HasSocket(Again(active[j]).server)
          /\ active' = [j \in DOMAIN active \ (S \ Resent) |->
                          IF j = k THEN [Again(active[j]) EXCEPT !.wait = 0]
                          ELSE IF j \in S THEN Again(active[j]) ELSE active[j]]
    BY <2>1
  <2>3. DOMAIN active' = DOMAIN active \ (S \ Resent) BY <2>2
  <2>4. ASSUME NEW j \in DOMAIN active'
        PROVE  \/ active'[j] = active[j]
               \/ j \in Resent /\ active'[j] = Again(active[j]) /\ active'[j].server = 1
               \/ j \in Resent /\ active'[j] = [Again(active[j]) EXCEPT !.wait = 0]
    <3>1. CASE j = k BY <2>2, <3>1
    <3>2. CASE j # k /\ j \in S
      <4>1. j \in Resent BY <2>3, <3>2
      <4>2. active'[j] = Again(active[j]) BY <2>2, <3>2
      <4>3. Again(active[j]).server = 1 BY <2>2, <3>2, <4>1 DEF HasSocket
      <4> QED BY <4>1, <4>2, <4>3
    <3>3. CASE j # k /\ j \notin S BY <2>2, <3>3
    <3> QED BY <3>1, <3>2, <3>3
  <2>5. active' = [j \in DOMAIN active' |-> active'[j]] BY <2>2
  <2> QED BY <2>3, <2>4, <2>5
<1> QED BY <1>2, <1>3

(* pulse only drops entries and replaces entries, also where it raises.    *)
LEMMA RetryKeeps == ASSUME Inv, Retry \/ RetryRaises PROVE Inv'
<1>1. /\ TypeOK /\ servers' = servers /\ open' = open /\ life' = life /\ immortal' = immortal
      /\ wanted' = wanted /\ replies' = replies /\ asked' = asked /\ applied' = applied
  BY DEF Inv, Retry, RetryRaises, cache, history
<1>2. TypeOK'
  <2>1. \A k \in DOMAIN active' : active'[k] \in Queries
    <3> SUFFICES ASSUME NEW k \in DOMAIN active' PROVE active'[k] \in Queries
      OBVIOUS
    <3>1. k \in DOMAIN active /\ active[k] \in Queries BY <1>1, RetryFacts DEF TypeOK
    <3>2. CASE active'[k] = active[k] BY <3>1, <3>2
    <3>3. CASE k \in Resent /\ active'[k] \in {Again(active[k]), [Again(active[k]) EXCEPT !.wait = 0]}
      <4>1. ~GivenUp(active[k]) /\ servers \in 1..MaxServers BY <1>1, <3>3 DEF Resent, TypeOK
      <4>2. Again(active[k]) \in Queries BY <3>1, <4>1, AgainFacts
      <4>3. 0 \in 0..MaxDelay BY DelayFacts, SMT
      <4> QED BY <3>3, <4>2, <4>3 DEF Queries
    <3> QED BY <3>2, <3>3, RetryFacts
  <2>2. active' \in [DOMAIN active' -> Queries]
    <3>1. active' = [k \in DOMAIN active' |-> active'[k]] BY RetryFacts
    <3> QED BY <2>1, <3>1, Zenon
  <2>3. DOMAIN active' \subseteq Keys BY <1>1, RetryFacts DEF TypeOK
  <2>4. requests' \subseteq Keys BY <1>1 DEF Retry, RetryRaises, TypeOK, Resent, Due
  <2>5. pc' \in {"run", "receive"} /\ looking' \in {{}, looking} BY DEF Retry, RetryRaises, Return
  <2> QED BY <1>1, <2>2, <2>3, <2>4, <2>5 DEF TypeOK
<1>3. AnsweredOnce' /\ IsFiniteSet(DOMAIN active') BY <1>1, RetryFacts, FewerWait
<1> QED BY <1>1, <1>2, <1>3, RetryFacts DEF Inv

(* Time passes: every wait, and every life in the cache, is one less or 0. *)
LEMMA TickKeeps == ASSUME Inv, Tick PROVE Inv'
<1>1. /\ TypeOK /\ pc' = pc /\ servers' = servers /\ looking' = looking /\ open' = open
      /\ immortal' = immortal /\ wanted' = wanted /\ requests' = requests /\ replies' = replies
      /\ asked' = asked /\ applied' = applied
  BY DEF Inv, Tick, net, history
<1>2. /\ DOMAIN active' = DOMAIN active
      /\ \A k \in DOMAIN active : active'[k] = [active[k] EXCEPT !.wait = Less(active[k].wait)]
  BY DEF Tick
<1>3. \A d \in Nat : \A n \in 0..d : Less(n) \in 0..d BY SMT DEF Less
<1>4. MaxDelay \in Nat BY DelayFacts
<1>5. \A k \in DOMAIN active : active'[k] \in Queries /\ active'[k].server = active[k].server
  <2> SUFFICES ASSUME NEW k \in DOMAIN active
               PROVE  active'[k] \in Queries /\ active'[k].server = active[k].server
    OBVIOUS
  <2>1. active[k] \in Queries BY <1>1 DEF TypeOK
  <2>2. Less(active[k].wait) \in 0..MaxDelay BY <1>3, <1>4, <2>1 DEF Queries
  <2> QED BY <1>2, <2>1, <2>2 DEF Queries
<1>6. TypeOK'
  <2>1. active' \in [DOMAIN active' -> Queries] /\ DOMAIN active' \subseteq Keys
    BY <1>1, <1>2, <1>5 DEF Tick, TypeOK
  <2>2. life' \in [Questions -> 0..MaxLife]
    <3>1. \A q \in Questions : Less(life[q]) \in 0..MaxLife BY <1>1, <1>3, LifeFacts DEF TypeOK
    <3> QED BY <3>1 DEF Tick
  <2> QED BY <1>1, <2>1, <2>2 DEF TypeOK
<1>7. AnsweredOnce' /\ IsFiniteSet(DOMAIN active') BY <1>1, <1>2, FewerWait
<1> QED BY <1>1, <1>2, <1>5, <1>6, <1>7 DEF Inv

-----------------------------------------------------------------------------
(* Init establishes Inv, and every step of Next keeps it.                  *)
LEMMA InitHolds == Init => Inv
<1> SUFFICES ASSUME Init PROVE Inv
  OBVIOUS
<1>1. DOMAIN active = {} /\ active \in [{} -> Queries]
  <2>1. active = <<>> BY DEF Init
  <2> QED BY <2>1, SMT
<1>2. 0 \in 0..MaxLife /\ 0 \in 0..MaxQueries BY LifeFacts, MaxQueriesIsNatural, SMT
<1>3. TypeOK
  <2>1. servers \in 1..MaxServers BY DEF Init
  <2> QED BY <1>1, <1>2, <2>1 DEF Init, TypeOK
<1>4. IsFiniteSet(DOMAIN active) BY <1>1, FS_EmptySet
<1>5. ASSUME NEW q \in Questions
      PROVE  applied[q] + Cardinality({k \in DOMAIN active : k[2] = q}) <= asked[q]
  <2>1. {k \in DOMAIN active : k[2] = q} = {} BY <1>1
  <2>2. applied[q] = 0 /\ asked[q] = 0 BY <1>5 DEF Init
  <2> QED BY <2>1, <2>2, FS_EmptySet
<1> QED BY <1>1, <1>3, <1>4, <1>5 DEF Inv, AnsweredOnce

LEMMA NextKeeps == Inv /\ [Next]_vars => Inv'
<1> SUFFICES ASSUME Inv, [Next]_vars PROVE Inv'
  OBVIOUS
<1>0. TypeOK BY DEF Inv
<1>1. ASSUME NEW q \in Questions, NEW who \in Coroutines \cup {Main},
             Query(who, q) \/ Lookup(who, q)
      PROVE  Inv'
  <2>1. CASE Ask(who, q)
    <3>1. /\ pc' \in {"run", "receive"} /\ servers' = servers
          /\ looking' \in {{}} \cup {{p} : p \in Questions}
      BY <1>0, <1>1 DEF Query, Lookup, TypeOK
    <3> QED BY <2>1, <3>1, AskKeeps
  <2>2. CASE Lookup(who, q) /\ ~Ask(who, q)
    <3>1. /\ pc' = "receive" /\ looking' = {q} /\ servers' = servers /\ active' = active
          /\ open' = open /\ life' = life /\ immortal' = immortal /\ wanted' = wanted
          /\ requests' = requests /\ replies' = replies /\ asked' = asked /\ applied' = applied
      BY <2>2 DEF Lookup, cache, net, history
    <3>2. TypeOK' BY <1>0, <3>1 DEF TypeOK
    <3> QED BY <3>1, <3>2, SameQueries
  <2> QED BY <1>1, <2>1, <2>2 DEF Query
<1>2. CASE Pulse
  <2>1. TypeOK' BY <1>0, <1>2 DEF Pulse, TypeOK, cache, net, history
  <2> QED BY <1>2, <2>1, SameQueries DEF Pulse, history
<1>3. CASE Purge
  <2>1. 0 \in 0..MaxLife BY LifeFacts, SMT
  <2>2. life' \in [Questions -> 0..MaxLife] /\ immortal' \in [Questions -> BOOLEAN]
    BY <1>0, <1>3, <2>1 DEF Purge, TypeOK
  <2>3. TypeOK' BY <1>0, <1>3, <2>2 DEF Purge, TypeOK, net, history
  <2> QED BY <1>3, <2>3, SameQueries DEF Purge, history
<1>4. CASE AddNameServer \/ SetNameServer
  <2>1. servers' \in 1..MaxServers
    <3>1. servers \in 1..MaxServers /\ MaxServers \in Nat \ {0} BY <1>0, MaxServersIsPositive DEF TypeOK
    <3>2. servers < MaxServers => servers + 1 \in 1..MaxServers BY <3>1, SMT
    <3>3. 1 \in 1..MaxServers BY <3>1, SMT
    <3> QED BY <1>4, <3>2, <3>3 DEF AddNameServer, SetNameServer
  <2>2. TypeOK' BY <1>0, <1>4, <2>1 DEF AddNameServer, SetNameServer, TypeOK, cache, net, history
  <2> QED BY <1>4, <2>2, SameQueries DEF AddNameServer, SetNameServer, history
<1>5. ASSUME NEW m \in replies, Receive(m) PROVE Inv'
  BY <1>5, ReceiveKeeps
<1>6. ASSUME NEW m \in replies, LoseReply(m) PROVE Inv'
  <2>1. TypeOK' BY <1>0, <1>6 DEF LoseReply, TypeOK, cache, history
  <2> QED BY <1>6, <2>1, SameQueries DEF LoseReply, history
<1>7. CASE NothingToReceive
  <2>1. TypeOK' BY <1>0, <1>7 DEF NothingToReceive, TypeOK, cache, net, history
  <2> QED BY <1>7, <2>1, SameQueries DEF NothingToReceive, history
<1>8. CASE Retry \/ RetryRaises BY <1>8, RetryKeeps
<1>9. ASSUME NEW k \in requests, LoseRequest(k) PROVE Inv'
  <2>1. TypeOK' BY <1>0, <1>9 DEF LoseRequest, TypeOK, cache, history
  <2> QED BY <1>9, <2>1, SameQueries DEF LoseRequest, history
<1>10. ASSUME NEW k \in requests, NEW t \in TTLs \cup {NoRecord}, Answer(k, t) PROVE Inv'
  <2>1. k \in Keys BY <1>0 DEF TypeOK
  <2>2. <<k[1], k[2], t>> \in Ids \X Questions \X (TTLs \cup {NoRecord}) BY <2>1 DEF Keys
  <2>3. TypeOK' BY <1>0, <1>10, <2>2 DEF Answer, TypeOK, cache, history
  <2> QED BY <1>10, <2>3, SameQueries DEF Answer, history
<1>11. CASE Tick BY <1>11, TickKeeps
<1>12. CASE UNCHANGED vars
  <2>1. TypeOK' BY <1>0, <1>12 DEF vars, TypeOK, cache, net, history
  <2> QED BY <1>12, <2>1, SameQueries DEF vars, history
<1> QED BY <1>1, <1>2, <1>3, <1>4, <1>5, <1>6, <1>7, <1>8, <1>9, <1>10, <1>11, <1>12 DEF Next

LEMMA Inductive == Spec => []Inv
BY InitHolds, NextKeeps, PTL DEF Spec

-----------------------------------------------------------------------------
(* pulse never resends through a socket that closeall took away            *)
(* (dns.lua:687): while any query is outstanding, socket 1 is open.        *)
THEOREM SocketsAreThere == Spec => []SocketWhileWaiting
<1>1. Inv => SocketWhileWaiting BY DEF Inv, SocketWhileWaiting
<1> QED BY <1>1, Inductive, PTL

(* Replies cached and queries still waiting are together never more than   *)
(* the queries sent: a reply that comes twice, late, or to an id used      *)
(* again, adds nothing to the cache (receive, dns.lua:641).                *)
THEOREM RepliesCountOnce == Spec => []AnsweredOnce
<1>1. Inv => AnsweredOnce BY DEF Inv
<1> QED BY <1>1, Inductive, PTL

(* No name server but the first is ever asked. What pulse resends          *)
(* (dns.lua:671-687) had come to the last server, and goes to the first    *)
(* with the next delay; moving on to any other leaves the query due, with  *)
(* no later deadline, since sending to a server without a socket raises.   *)
THEOREM OthersAreNotAsked == Spec => OnlyFirstIsAsked
<1> DEFINE A == \A k \in DOMAIN active \cap DOMAIN active' :
                  active'[k].wait > active[k].wait =>
                    \/ asked'[k[2]] > asked[k[2]]
                    \/ /\ active[k].server >= servers /\ active'[k].server = 1
                       /\ active'[k].delay = active[k].delay + 1
<1>1. Inv /\ [Next]_vars => [A]_vars
  <2> DEFINE Fresh(k) == asked'[k[2]] > asked[k[2]]
             NextRound(k) == /\ active[k].server >= servers /\ active'[k].server = 1
                             /\ active'[k].delay = active[k].delay + 1
  <2> SUFFICES ASSUME Inv, Next, NEW k \in DOMAIN active \cap DOMAIN active',
                      active'[k].wait > active[k].wait
               PROVE  Fresh(k) \/ NextRound(k)
    OBVIOUS
  <2>1. /\ TypeOK /\ active[k] \in Queries /\ active[k].wait \in Nat /\ k[2] \in Questions
        /\ servers \in Nat /\ active[k].server \in Nat
    <3>1. active[k] \in Queries /\ k \in Keys /\ servers \in 1..MaxServers BY DEF Inv, TypeOK
    <3>2. active[k].wait \in 0..MaxDelay /\ active[k].server \in 1..MaxServers
      BY <3>1 DEF Queries
    <3>3. active[k].wait \in Nat /\ active[k].server \in Nat BY <3>2
    <3> QED BY <3>1, <3>3, MaxServersIsPositive DEF Inv, Keys
  <2>2. ~(active[k].wait > active[k].wait) BY <2>1, SMT
  <2>3. active'[k] # active[k] BY <2>2
  <2>4. ASSUME NEW q \in Questions, NEW who \in Coroutines \cup {Main},
               Query(who, q) \/ Lookup(who, q)
        PROVE  Fresh(k)
    <3>1. Ask(who, q) BY <2>3, <2>4 DEF Query, Lookup
    <3>2. PICK id \in Ids :
            active' = [j \in DOMAIN active \cup {<<id, q>>} |->
                          IF j = <<id, q>> THEN FirstTry ELSE active[j]]
      BY <3>1 DEF Ask
    <3>3. k = <<id, q>> BY <2>3, <3>2
    <3>4. asked[q] \in Nat /\ asked'[q] = asked[q] + 1
      BY <2>1, <3>1, MaxQueriesIsNatural DEF Ask, TypeOK
    <3>5. k[2] = q BY <3>3
    <3> QED BY <3>4, <3>5, SMT
  <2>5. ASSUME NEW m \in replies, Receive(m) PROVE FALSE
    BY <2>3, <2>5 DEF Receive, Retired
  <2>6. CASE Retry \/ RetryRaises
    <3>1. k \in Resent /\ ~GivenUp(active[k]) /\ servers \in 1..MaxServers
      BY <2>1, <2>3, <2>6, RetryFacts DEF Resent, TypeOK
    <3>2. Again(active[k]) \in Queries BY <2>1, <3>1, AgainFacts
    <3>3. active'[k] # [Again(active[k]) EXCEPT !.wait = 0]
      <4>1. [Again(active[k]) EXCEPT !.wait = 0].wait = 0 BY <3>2 DEF Queries
      <4>2. ~(0 > active[k].wait) BY <2>1, SMT
      <4> QED BY <4>1, <4>2
    <3>4. active'[k] = Again(active[k]) /\ Again(active[k]).server = 1
      BY <2>3, <2>6, <3>3, RetryFacts
    <3>5. ~(active[k].server + 1 <= servers)
      <4>1. SUFFICES ASSUME active[k].server + 1 <= servers PROVE FALSE
        OBVIOUS
      <4>2. Again(active[k]).server = active[k].server + 1
        BY <2>1, <4>1 DEF Again, Queries
      <4>3. active[k].server \in 1..MaxServers BY <2>1 DEF Queries
      <4> QED BY <3>4, <4>2, <4>3, SMT
    <3>6. active[k].server >= servers BY <2>1, <3>5, SMT
    <3>7. Again(active[k]).delay = active[k].delay + 1 BY <3>5 DEF Again
    <3> QED BY <3>4, <3>6, <3>7
  <2>7. CASE Tick
    <3>1. active'[k] = [active[k] EXCEPT !.wait = Less(active[k].wait)] BY <2>7 DEF Tick
    <3>2. active'[k].wait = Less(active[k].wait) BY <2>1, <3>1 DEF Queries
    <3>3. ~(Less(active[k].wait) > active[k].wait) BY <2>1, SMT DEF Less
    <3> QED BY <3>2, <3>3
  <2>8. ASSUME NEW m \in replies, LoseReply(m) PROVE FALSE
    BY <2>3, <2>8 DEF LoseReply
  <2>9. ASSUME NEW j \in requests, LoseRequest(j) PROVE FALSE
    BY <2>3, <2>9 DEF LoseRequest
  <2>10. ASSUME NEW j \in requests, NEW t \in TTLs \cup {NoRecord}, Answer(j, t) PROVE FALSE
    BY <2>3, <2>10 DEF Answer
  <2>11. ~(Pulse \/ Purge \/ AddNameServer \/ SetNameServer \/ NothingToReceive)
    BY <2>3 DEF Pulse, Purge, AddNameServer, SetNameServer, NothingToReceive
  <2> QED BY <2>4, <2>5, <2>6, <2>7, <2>8, <2>9, <2>10, <2>11 DEF Next
<1> QED BY <1>1, Inductive, PTL DEF Spec, OnlyFirstIsAsked
=============================================================================
