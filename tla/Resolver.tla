------------------------------ MODULE Resolver ------------------------------
(***************************************************************************)
(* The resolver of main/lua-dns/dns.lua: queries that are sent over UDP,   *)
(* resent on a schedule, answered in any order, or not at all, and a cache *)
(* of the records received.  One thread runs it: pulse and lookup of the   *)
(* program's own loop, and query from the coroutines it resumes.           *)
(*                                                                         *)
(* A clock of whole seconds is kept as what is left of each deadline.  The *)
(* cached records of a question are reduced to how long the longest-lived  *)
(* of them still has, and whether one with a TTL of 0, which never gets a  *)
(* time of death, is among them.                                           *)
(***************************************************************************)
EXTENDS Integers, Sequences, FiniteSets

CONSTANTS Coroutines,   \* what may call query and wait for the answer
          Main,         \* the program outside any coroutine
          Questions,    \* name, type and class, encoded
          Ids,          \* what dns.random(0, 0xffff) may return
          Delays,       \* resolver.delays
          TTLs,         \* the TTLs of records; no record at all is NoRecord
          NoRecord,
          MaxServers,   \* bound: how many name servers are configured
          MaxQueries    \* bound: how often a question is asked

ASSUME MaxServersIsPositive == MaxServers \in Nat \ {0}
ASSUME DelaysAssumption == Delays \in Seq(Nat \ {0}) /\ Delays # <<>>
ASSUME TTLsAssumption == TTLs \subseteq Nat /\ IsFiniteSet(TTLs) /\ NoRecord \notin TTLs
ASSUME MainIsNoCoroutine == Main \notin Coroutines
ASSUME MaxQueriesIsNatural == MaxQueries \in Nat

VARIABLES
    pc,        \* "run", or in pulse "receive" or "retry"
    servers,   \* how many name servers there are: #self.server
    looking,   \* the question lookup is waiting for, or {} outside lookup
    active,    \* the outstanding queries: their server, delay, time to retry
    open,      \* socket[1] is open
    life, immortal,   \* the cache: see above
    wanted,    \* <<question, coroutine>>: who waits for which answer
    requests, replies,   \* packets under way between socket[1] and the server
    asked,     \* history: how often query sent each question
    applied    \* history: how many replies to each question were cached

net == <<requests, replies>>
cache == <<life, immortal>>
history == <<asked, applied>>
vars == <<pc, servers, looking, active, open, cache, wanted, net, history>>

Keys == Ids \X Questions
Largest(S) == CHOOSE n \in S : \A m \in S : m <= n
MaxDelay == Largest({Delays[i] : i \in DOMAIN Delays})
MaxLife == Largest(TTLs \cup {0})
Queries == [server : 1..MaxServers, delay : 1..Len(Delays), wait : 0..MaxDelay]

Init ==
    /\ pc = "run" /\ looking = {} /\ servers \in 1..MaxServers
    /\ active = <<>> /\ open = FALSE
    /\ life = [q \in Questions |-> 0] /\ immortal = [q \in Questions |-> FALSE]
    /\ wanted = {} /\ requests = {} /\ replies = {}
    /\ asked = [q \in Questions |-> 0] /\ applied = [q \in Questions |-> 0]

(* Error: one query left taken for none.                                   *)
QuietButOne(a) == Cardinality(DOMAIN a) <= 1

(* next (self.active) is nil                                               *)
Quiet(a) == DOMAIN a = {}

(* peek, after prune: records whose time of death has come are dropped.    *)
Cached(q) == life[q] > 0 \/ immortal[q]

-----------------------------------------------------------------------------
FirstTry == [server |-> 1, delay |-> 1, wait |-> Delays[1]]

(* query: the cache answers, or a packet with a random id goes to server 1 *)
(* and a calling coroutine is entered in wanted.                           *)
Ask(who, q) ==
    /\ ~Cached(q)
    /\ asked[q] < MaxQueries
    /\ \E id \in Ids :
        /\ requests' = requests \cup {<<id, q>>}
        /\ active' = [k \in DOMAIN active \cup {<<id, q>>} |->
                        IF k = <<id, q>>
                        THEN FirstTry
                        ELSE active[k]]
    /\ open' = TRUE
    /\ wanted' = wanted \cup ({<<q, who>>} \ {<<q, Main>>})
    /\ asked' = [asked EXCEPT ![q] = @ + 1]
    /\ UNCHANGED <<cache, replies, applied>>

Query(who, q) ==
    /\ pc = "run" /\ looking = {}
    /\ Ask(who, q)
    /\ UNCHANGED <<pc, servers, looking>>

(* addnameserver and setnameserver; adddefaultnameservers, before the      *)
(* first query, is what Init found.                                        *)
AddNameServer ==
    /\ pc = "run" /\ servers < MaxServers
    /\ servers' = servers + 1
    /\ UNCHANGED <<pc, looking, active, open, cache, wanted, net, history>>

SetNameServer ==
    /\ pc = "run"
    /\ servers' = 1
    /\ UNCHANGED <<pc, looking, active, open, cache, wanted, net, history>>

(* lookup: query, then pulse until nothing is outstanding.                 *)
Lookup(who, q) ==
    /\ pc = "run" /\ looking = {}
    /\ \/ Ask(who, q)
       \/ Cached(q) /\ UNCHANGED <<active, open, cache, wanted, net, history>>
    /\ looking' = {q}
    /\ pc' = "receive"
    /\ UNCHANGED servers

(* pulse called by the program's own loop.  (receive indexes a table of    *)
(* sockets that the first query creates.)                                  *)
Pulse ==
    /\ pc = "run" /\ looking = {}
    /\ \E q \in Questions : asked[q] > 0
    /\ pc' = "receive"
    /\ UNCHANGED <<servers, looking, active, open, cache, wanted, net, history>>

(* purge.  (With 'soft' it drops what peek would drop anyway, or raises an *)
(* error at a record with a TTL of 0: its assert is nil since module().)   *)
Purge ==
    /\ pc = "run" /\ looking = {}
    /\ life' = [q \in Questions |-> 0]
    /\ immortal' = [q \in Questions |-> FALSE]
    /\ UNCHANGED <<pc, servers, looking, active, open, wanted, net, history>>

-----------------------------------------------------------------------------
(* remember appends the records of a reply to the cache.                   *)
Remember(q, ttl) ==
    /\ life' = IF ttl \in TTLs /\ ttl > life[q]
               THEN [life EXCEPT ![q] = ttl] ELSE life
    /\ immortal' = [immortal EXCEPT ![q] = @ \/ ttl = 0]
    /\ applied' = [applied EXCEPT ![q] = @ + 1]

(* Error: the query is not retired.                                        *)
NotRetired(k) == active

Retired(k) == [j \in DOMAIN active \ {k} |-> active[j]]

(* receive takes a packet from the socket (the network may deliver it      *)
(* again) and drops it unless its id and question are those of an active   *)
(* query.  When no query is left the socket is closed: what is under way   *)
(* then has no port to arrive at.  The question it looks up in wanted is   *)
(* the list of questions, which has no name, so that no coroutine is ever  *)
(* resumed and no entry removed.                                           *)
Receive(m) ==
    /\ pc = "receive" /\ open
    /\ m \in replies
    /\ LET k == <<m[1], m[2]>>
       IN IF k \in DOMAIN active
          THEN /\ Remember(m[2], m[3])
               /\ active' = Retired(k)
               /\ open' = ~Quiet(active')
               /\ requests' = IF open' THEN requests ELSE {}
               /\ \/ replies' = IF open' THEN replies ELSE {}
                  \/ replies' = IF open' THEN replies \ {m} ELSE {}
               /\ UNCHANGED pc
          ELSE /\ pc' = "retry"
               /\ replies' \in {replies, replies \ {m}}
               /\ UNCHANGED <<active, open, cache, requests, applied>>
    /\ UNCHANGED <<servers, looking, wanted, asked>>

NothingToReceive ==
    /\ pc = "receive"
    /\ pc' = "retry"
    /\ UNCHANGED <<servers, looking, active, open, cache, wanted, net, history>>

(* The rest of pulse: every query whose time has come goes to the next     *)
(* server, or to the first again after a longer delay, or is given up.     *)
Due == {k \in DOMAIN active : active[k].wait = 0}

(* Error: every round with the first delay.                                *)
AgainForEver(o) ==
    IF o.server + 1 <= servers
    THEN [o EXCEPT !.server = @ + 1, !.wait = Delays[o.delay]]
    ELSE [o EXCEPT !.server = 1, !.wait = Delays[o.delay]]

Again(o) ==
    IF o.server + 1 <= servers
    THEN [o EXCEPT !.server = @ + 1, !.wait = Delays[o.delay]]
    ELSE [server |-> 1, delay |-> o.delay + 1, wait |-> Delays[o.delay + 1]]

GivenUp(o) == o.server >= servers /\ o.delay = Len(Delays)

Resent == {k \in Due : ~GivenUp(active[k])}

(* Error: one socket taken to reach every server.                          *)
HasAnySocket(server) == open

HasSocket(server) == server = 1 /\ open

(* pulse returns nil when no query is left, and lookup with it; otherwise  *)
(* lookup pulses again when a packet is there or four seconds later.       *)
Return(a) ==
    /\ looking' = IF Quiet(a) THEN {} ELSE looking
    /\ pc' = IF Quiet(a) \/ looking = {} THEN "run" ELSE "receive"

Retry ==
    /\ pc = "retry"
    /\ \A k \in Resent : HasSocket(Again(active[k]).server)
    /\ active' = [k \in (DOMAIN active \ Due) \cup Resent |->
                    IF k \in Due THEN Again(active[k]) ELSE active[k]]
    /\ requests' = requests \cup Resent
    /\ Return(active')
    /\ UNCHANGED <<servers, open, cache, wanted, replies, history>>

(* Only server 1 ever gets a socket, which closeall takes away: sending    *)
(* without one raises an error, after the query was moved on and before it *)
(* gets its next deadline.  What pulse came to before it has been resent   *)
(* or given up.  The error leaves pulse, and lookup, for whoever catches   *)
(* it.                                                                     *)
RetryRaises ==
    /\ pc = "retry"
    /\ \E k \in Resent : \E S \in SUBSET (Due \ {k}) :
        /\ ~HasSocket(Again(active[k]).server)
        /\ \A j \in S \cap Resent : HasSocket(Again(active[j]).server)
        /\ active' = [j \in DOMAIN active \ (S \ Resent) |->
                        IF j = k THEN [Again(active[j]) EXCEPT !.wait = 0]
                        ELSE IF j \in S THEN Again(active[j]) ELSE active[j]]
        /\ requests' = requests \cup (S \cap Resent)
    /\ pc' = "run" /\ looking' = {}
    /\ UNCHANGED <<servers, open, cache, wanted, replies, history>>

-----------------------------------------------------------------------------
(* The server answers a request that reaches it; packets get lost.         *)
Answer(k, ttl) ==
    /\ k \in requests
    /\ requests' \in {requests, requests \ {k}}
    /\ replies' = replies \cup {<<k[1], k[2], ttl>>}
    /\ UNCHANGED <<pc, servers, looking, active, open, cache, wanted, history>>

LoseRequest(k) ==
    /\ k \in requests
    /\ requests' = requests \ {k}
    /\ UNCHANGED <<pc, servers, looking, active, open, cache, wanted, replies, history>>

LoseReply(m) ==
    /\ m \in replies
    /\ replies' = replies \ {m}
    /\ UNCHANGED <<pc, servers, looking, active, open, cache, wanted, requests, history>>

(* A second passes: between two calls, in the select of lookup, or anywhere *)
(* in pulse.                                                               *)
Less(n) == IF n = 0 THEN 0 ELSE n - 1

Tick ==
    /\ \/ \E k \in DOMAIN active : active[k].wait > 0
       \/ \E q \in Questions : life[q] > 0
    /\ active' = [k \in DOMAIN active |-> [active[k] EXCEPT !.wait = Less(@)]]
    /\ life' = [q \in Questions |-> Less(life[q])]
    /\ UNCHANGED <<pc, servers, looking, open, immortal, wanted, net, history>>

Next ==
    \/ \E q \in Questions, who \in Coroutines \cup {Main} :
          Query(who, q) \/ Lookup(who, q)
    \/ Pulse \/ Purge \/ AddNameServer \/ SetNameServer
    \/ \E m \in replies : Receive(m) \/ LoseReply(m)
    \/ NothingToReceive \/ Retry \/ RetryRaises
    \/ \E k \in requests : LoseRequest(k)
    \/ \E k \in requests, t \in TTLs \cup {NoRecord} : Answer(k, t)
    \/ Tick

Spec == Init /\ [][Next]_vars

(* Time passes and the thread is not stopped.                              *)
Fairness == /\ WF_vars(Tick) /\ WF_vars(NothingToReceive)
            /\ WF_vars(Retry \/ RetryRaises)

FairSpec == Spec /\ Fairness

-----------------------------------------------------------------------------
TypeOK ==
    /\ pc \in {"run", "receive", "retry"}
    /\ servers \in 1..MaxServers
    /\ looking \in {{}} \cup {{q} : q \in Questions}
    /\ open \in BOOLEAN
    /\ DOMAIN active \subseteq Keys /\ active \in [DOMAIN active -> Queries]
    /\ life \in [Questions -> 0..MaxLife] /\ immortal \in [Questions -> BOOLEAN]
    /\ wanted \subseteq Questions \X Coroutines
    /\ requests \subseteq Keys
    /\ replies \subseteq Ids \X Questions \X (TTLs \cup {NoRecord})
    /\ asked \in [Questions -> 0..MaxQueries]
    /\ applied \in [Questions -> Nat]

-----------------------------------------------------------------------------
(* pulse never resends over a socket that is gone (dns.lua:687): closeall  *)
(* runs only when no query of any id is left, a timeout leaves the socket  *)
(* open, and every query opens it, also across errors that pulse raised.   *)
(* So with one name server no call of pulse ends in an error.              *)
SocketWhileWaiting == TypeOK /\ (DOMAIN active # {} => open)

(* A query is answered at most once: a reply the network delivers twice,   *)
(* or that comes after a resent query was answered, adds nothing to the    *)
(* cache, whatever ids dns.random repeats.                                 *)
AnsweredOnce == \A q \in Questions :
    applied[q] + Cardinality({k \in DOMAIN active : k[2] = q}) <= asked[q]

(* lookup returns, or raises with a second name server, whatever is lost:  *)
(* every query is answered or given up after the last delay.               *)
LookupReturns == (looking # {}) ~> (looking = {})

(* No name server but the first is ever asked: a query that pulse resends  *)
(* had come to the last one and goes to the first again, with the next     *)
(* delay.  (To move on to any other raises, and the next pulse moves on    *)
(* from there.)                                                            *)
OnlyFirstIsAsked ==
    [][\A k \in DOMAIN active \cap DOMAIN active' :
         active'[k].wait > active[k].wait =>
           \/ asked'[k[2]] > asked[k[2]]
           \/ /\ active[k].server >= servers /\ active'[k].server = 1
              /\ active'[k].delay = active[k].delay + 1]_vars

(* What the comments say (dns.lua:611 and 648): the coroutine that wants   *)
(* the answer is remembered, and taken off the wanted list by receive when *)
(* the answer to its question comes.                                       *)
AnsweredIsNotWanted == [][\A q \in Questions :
    applied'[q] > applied[q] => \A c \in Coroutines : <<q, c>> \notin wanted']_vars
=============================================================================
