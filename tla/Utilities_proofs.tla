-------------------------- MODULE Utilities_proofs ---------------------------
(***************************************************************************)
(* Proofs about two of the small C programs, for data of any length.       *)
(*                                                                         *)
(* ssl_client keeps both streams in order: what is not at one end of a     *)
(* stream is on its way, in the order in which it was written.             *)
(*                                                                         *)
(* Neither b64_ntop nor b64_pton writes past its target, what was encoded  *)
(* is decoded to the same bytes, and a text that is decoded is the only    *)
(* one for its bytes.  Three bytes and four digits are a quantum: with q   *)
(* of them behind it b64_pton is at byte 3 * q + Past and has read         *)
(* 4 * q + state digits, and all arithmetic is that of one quantum.        *)
(***************************************************************************)
EXTENDS SslClient, Base64, FiniteSetTheorems, SequenceTheorems, TLAPS


-----------------------------------------------------------------------------
(* Sequences of bytes.                                                     *)

LEMMA Concats ==
    ASSUME NEW a \in Seq(Nat), NEW b \in Seq(Nat)
    PROVE  a \o b \in Seq(Nat) /\ Len(a \o b) = Len(a) + Len(b) /\ a \o <<>> = a /\ <<>> \o a = a
  BY ConcatProperties, ConcatEmptySeq

LEMMA Regroup ==
    ASSUME NEW a \in Seq(Nat), NEW b \in Seq(Nat), NEW c \in Seq(Nat)
    PROVE  a \o b \o c = a \o (b \o c)
  BY ConcatAssociative

LEMMA FirstMoves ==
    ASSUME NEW a \in Seq(Nat), NEW b \in Seq(Nat), b # <<>>
    PROVE  /\ Head(b) \in Nat /\ Tail(b) \in Seq(Nat)
           /\ Append(a, Head(b)) \in Seq(Nat)
           /\ Append(a, Head(b)) \o Tail(b) = a \o b
  <1> DEFINE e == Head(b)
             t == Tail(b)
  <1>1. Len(b) \in Nat /\ Len(b) > 0 /\ e = b[1] /\ e \in Nat
    BY EmptySeq, LenProperties
  <1>2. /\ t \in Seq(Nat) /\ Len(t) = Len(b) - 1
        /\ \A j \in 1..(Len(b) - 1) : t[j] = b[j + 1]
    BY <1>1, HeadTailProperties
  <1>3. /\ Append(a, e) \in Seq(Nat) /\ Len(Append(a, e)) = Len(a) + 1
        /\ \A j \in 1..Len(a) : Append(a, e)[j] = a[j]
        /\ Append(a, e)[Len(a) + 1] = e
    BY <1>1, AppendProperties
  <1> DEFINE u == Append(a, e)
  <1> HIDE DEF e, t, u
  <1>4. /\ u \o t \in Seq(Nat) /\ Len(u \o t) = Len(u) + Len(t)
        /\ \A j \in 1..(Len(u) + Len(t)) : (u \o t)[j] = IF j <= Len(u) THEN u[j] ELSE t[j - Len(u)]
    BY <1>2, <1>3, ConcatProperties DEF u
  <1>5. /\ a \o b \in Seq(Nat) /\ Len(a \o b) = Len(a) + Len(b)
        /\ \A j \in 1..(Len(a) + Len(b)) : (a \o b)[j] = IF j <= Len(a) THEN a[j] ELSE b[j - Len(a)]
    BY ConcatProperties
  <1>6. Len(u) = Len(a) + 1 /\ u \in Seq(Nat) /\ Len(a) \in Nat
        /\ (\A j \in 1..Len(a) : u[j] = a[j]) /\ u[Len(a) + 1] = e
    BY <1>3, LenProperties DEF u
  <1>7. \A j \in 1..Len(a \o b) : (u \o t)[j] = (a \o b)[j]
    <2> SUFFICES ASSUME NEW j \in 1..Len(a \o b) PROVE (u \o t)[j] = (a \o b)[j]
      OBVIOUS
    <2>1. j \in 1..(Len(a) + Len(b)) /\ j \in 1..(Len(u) + Len(t))
      BY <1>1, <1>2, <1>5, <1>6
    <2>2. CASE j <= Len(a)
      BY <2>1, <2>2, <1>4, <1>5, <1>6
    <2>3. CASE j = Len(a) + 1
      BY <2>1, <2>3, <1>1, <1>4, <1>5, <1>6
    <2>4. CASE j > Len(a) + 1
      <3>1. j - Len(u) \in 1..(Len(b) - 1) /\ j - Len(a) = (j - Len(u)) + 1
            /\ ~(j <= Len(u)) /\ ~(j <= Len(a))
        BY <2>1, <2>4, <1>1, <1>6
      <3> QED
        BY <2>1, <3>1, <1>2, <1>4, <1>5
    <2> QED
      BY <2>1, <2>2, <2>3, <2>4, <1>6
  <1>8. Len(u \o t) = Len(a \o b)
    BY <1>1, <1>2, <1>4, <1>5, <1>6
  <1>9. u \o t = a \o b
    BY <1>4, <1>5, <1>7, <1>8, SeqEqual
  <1> QED
    BY <1>1, <1>2, <1>6, <1>9 DEF u, e, t

LEMMA LastAdded ==
    ASSUME NEW a \in Seq(Nat), NEW b \in Seq(Nat), NEW e \in Nat
    PROVE  Append(b, e) \in Seq(Nat) /\ a \o Append(b, e) = Append(a \o b, e)
  <1>1. <<e>> \in Seq(Nat) /\ a \o b \in Seq(Nat) /\ Append(b, e) \in Seq(Nat)
    BY ConcatProperties, AppendProperties
  <1>2. Append(b, e) = b \o <<e>> /\ Append(a \o b, e) = (a \o b) \o <<e>>
    BY <1>1, AppendIsConcat
  <1>3. a \o (b \o <<e>>) = (a \o b) \o <<e>>
    BY <1>1, ConcatAssociative
  <1> QED
    BY <1>1, <1>2, <1>3

LEMMA Cut ==
    ASSUME NEW s \in Seq(Nat), NEW k \in 1..Len(s)
    PROVE  /\ SubSeq(s, 1, k) \in Seq(Nat) /\ SubSeq(s, k + 1, Len(s)) \in Seq(Nat)
           /\ Len(SubSeq(s, 1, k)) = k /\ Len(SubSeq(s, k + 1, Len(s))) = Len(s) - k
           /\ SubSeq(s, 1, k) \o SubSeq(s, k + 1, Len(s)) = s
           /\ \A j \in 1..(Len(s) - k) : SubSeq(s, k + 1, Len(s))[j] = s[k + j]
  <1> DEFINE m == Len(s)
             u == SubSeq(s, 1, k)
             v == SubSeq(s, k + 1, m)
  <1>1. m \in Nat /\ k \in Nat /\ 1 <= k /\ k <= m /\ k \in 0..m /\ k + 1 \in 1..(m + 1)
    BY LenProperties
  <1> HIDE DEF m
  <1>2. \A j \in 1..k : s[j] \in Nat
    BY <1>1, ElementOfSeq DEF m
  <1>3. \A j \in (k + 1)..m : s[j] \in Nat
    BY <1>1, ElementOfSeq DEF m
  <1>4. /\ u \in Seq(Nat) /\ Len(u) = k /\ \A j \in 1..k : u[j] = s[j]
    BY <1>1, <1>2, SubSeqProperties
  <1>5. /\ v \in Seq(Nat) /\ Len(v) = m - k /\ \A j \in 1..(m - k) : v[j] = s[k + j]
    BY <1>1, <1>3, SubSeqProperties
  <1> HIDE DEF u, v
  <1>6. /\ u \o v \in Seq(Nat) /\ Len(u \o v) = Len(u) + Len(v)
        /\ \A j \in 1..(Len(u) + Len(v)) : (u \o v)[j] = IF j <= Len(u) THEN u[j] ELSE v[j - Len(u)]
    BY <1>4, <1>5, ConcatProperties
  <1>7. Len(u \o v) = m
    BY <1>1, <1>4, <1>5, <1>6
  <1>8. \A j \in 1..m : (u \o v)[j] = s[j]
    <2> SUFFICES ASSUME NEW j \in 1..m PROVE (u \o v)[j] = s[j]
      OBVIOUS
    <2>1. CASE j <= k
      BY <2>1, <1>1, <1>4, <1>5, <1>6
    <2>2. CASE ~(j <= k)
      <3>1. j - k \in 1..(m - k) /\ k + (j - k) = j /\ j \in 1..(k + (m - k))
        BY <2>2, <1>1
      <3>2. (u \o v)[j] = v[j - k]
        BY <2>2, <3>1, <1>4, <1>5, <1>6
      <3> QED
        BY <3>1, <3>2, <1>5
    <2> QED
      BY <2>1, <2>2
  <1>9. u \o v = s
    BY <1>6, <1>7, <1>8, SeqEqual DEF m
  <1> QED
    BY <1>4, <1>5, <1>9 DEF u, v, m

LEMMA UpToFacts ==
    ASSUME NEW k \in Nat
    PROVE  /\ UpTo(k) \in Seq(Nat) /\ Len(UpTo(k)) = k
           /\ UpTo(k + 1) = Append(UpTo(k), k + 1)
  <1> DEFINE u == UpTo(k)
             v == UpTo(k + 1)
             w == Append(u, k + 1)
  <1>1. \A m \in Nat : /\ UpTo(m) \in Seq(Nat) /\ Len(UpTo(m)) = m
                       /\ \A j \in 1..m : UpTo(m)[j] = j
    BY DEF UpTo
  <1>2. u \in Seq(Nat) /\ Len(u) = k /\ \A j \in 1..k : u[j] = j
    BY <1>1
  <1>3. v \in Seq(Nat) /\ Len(v) = k + 1 /\ \A j \in 1..(k + 1) : v[j] = j
    BY <1>1
  <1> HIDE DEF u, v
  <1>4. /\ w \in Seq(Nat) /\ Len(w) = k + 1
        /\ \A j \in 1..k : w[j] = u[j]
        /\ w[k + 1] = k + 1
    BY <1>2, AppendProperties
  <1> HIDE DEF w
  <1>5. \A j \in 1..(k + 1) : v[j] = w[j]
    BY <1>2, <1>3, <1>4
  <1>6. v = w
    BY <1>3, <1>4, <1>5, SeqEqual
  <1> QED
    BY <1>2, <1>6 DEF u, v, w

-----------------------------------------------------------------------------
(* What the server has sent: a ticket is not behind another record.        *)
TicketFirst(s) == \A k \in 2..Len(s) : s[k] # Ticket

LEMMA DataFacts ==
    ASSUME NEW s \in Seq(Nat)
    PROVE  /\ Data(s) \in Seq(Nat)
           /\ s # <<>> /\ Head(s) # Ticket => Data(s) = s
           /\ s # <<>> /\ Head(s) = Ticket => Data(s) = Tail(s)
           /\ s = <<>> => Data(s) = <<>>
  BY HeadTailProperties DEF Data

LEMMA DataOfRest ==
    ASSUME NEW s \in Seq(Nat), TicketFirst(s), NEW k \in 1..Len(s), NEW t \in Seq(Nat),
           Len(t) = Len(s) - k, \A j \in 1..(Len(s) - k) : t[j] = s[k + j]
    PROVE  Data(t) = t /\ TicketFirst(t)
  <1>1. Len(s) \in Nat /\ k \in Nat /\ 1 <= k /\ k <= Len(s)
    BY LenProperties
  <1>2. ASSUME NEW j \in 1..Len(t) PROVE t[j] # Ticket
    <2>1. j \in 1..(Len(s) - k) /\ k + j \in 2..Len(s)
      BY <1>1
    <2> QED
      BY <2>1 DEF TicketFirst
  <1>3. t # <<>> => Head(t) = t[1] /\ 1 \in 1..Len(t)
    BY EmptySeq, LenProperties
  <1>4. Data(t) = t
    BY <1>2, <1>3, DataFacts
  <1> QED
    BY <1>2, <1>4 DEF TicketFirst

LEMMA DataAppended ==
    ASSUME NEW s \in Seq(Nat), TicketFirst(s), NEW e \in Nat \ {0}
    PROVE  Data(Append(s, e)) = Append(Data(s), e) /\ TicketFirst(Append(s, e))
  <1> DEFINE u == Append(s, e)
  <1>1. /\ u \in Seq(Nat) /\ Len(u) = Len(s) + 1 /\ Len(s) \in Nat
        /\ \A j \in 1..Len(s) : u[j] = s[j]
        /\ u[Len(s) + 1] = e /\ u # <<>>
    BY AppendProperties, LenProperties
  <1>2. TicketFirst(u)
    BY <1>1 DEF TicketFirst, Ticket
  <1>3. CASE s = <<>>
    <2>1. Head(u) = e
      BY <1>3
    <2> QED
      BY <1>1, <1>2, <1>3, <2>1, DataFacts DEF Ticket
  <1>4. CASE s # <<>>
    <2>1. Head(u) = Head(s) /\ Tail(u) = Append(Tail(s), e)
      BY <1>4
    <2>2. CASE Head(s) = Ticket
      BY <1>1, <1>2, <1>4, <2>1, <2>2, DataFacts
    <2>3. CASE Head(s) # Ticket
      BY <1>1, <1>2, <1>4, <2>1, <2>3, DataFacts
    <2> QED
      BY <2>2, <2>3
  <1> QED
    BY <1>3, <1>4

-----------------------------------------------------------------------------
(* The request and the reply from one end to the other: what copy_loop     *)
(* holds in buf lies between a pipe it has read and one it will write.     *)
HeldForServer == IF pc \in {"write_tls", "fatal"} THEN buf ELSE <<>>
HeldForUser == IF pc \in {"write_stdout", "write_failed"} THEN Bytes(n) ELSE <<>>
Request == got \o toServer \o HeldForServer \o stdin
AllReplies == out \o stdout \o HeldForUser \o Data(fromServer)

Streams ==
    /\ buf \in Seq(Nat) /\ stdin \in Seq(Nat) /\ stdout \in Seq(Nat) /\ out \in Seq(Nat)
    /\ toServer \in Seq(Nat) /\ got \in Seq(Nat) /\ fromServer \in Seq(Nat)

(* While buf holds bytes, i and n say which; none has been skipped, unless *)
(* stdout took less than it was given.                                     *)
Holding ==
    /\ pc \in {"write_tls", "fatal"} => n = Len(buf)
    /\ pc \in {"write_stdout", "write_failed"} => i + n = Len(buf) /\ (short \/ i = 0)

ReplyComplete == Len(AllReplies) = sent /\ (short \/ AllReplies = UpTo(sent))

Inv ==
    /\ Streams /\ TypeOK /\ Holding /\ TicketFirst(fromServer)
    /\ Request = UpTo(asked) /\ ReplyComplete

LEMMA InvIsEnough == Inv => StreamsInOrder
  BY DEF Inv, StreamsInOrder, RequestInOrder, ReplyInOrder, Request, AllReplies,
         HeldForServer, HeldForUser, ReplyComplete

(* The whole of the invariant in one view, for the steps below.            *)
LEMMA Facts ==
    ASSUME Inv
    PROVE  /\ buf \in Seq(Nat) /\ stdin \in Seq(Nat) /\ stdout \in Seq(Nat) /\ out \in Seq(Nat)
           /\ toServer \in Seq(Nat) /\ got \in Seq(Nat) /\ fromServer \in Seq(Nat)
           /\ Data(fromServer) \in Seq(Nat) /\ TicketFirst(fromServer)
           /\ i \in 0..Capacity /\ n \in 0..Capacity /\ Capacity \in Nat
           /\ asked \in 0..Requests /\ sent \in 0..Replies
           /\ Len(buf) <= Capacity /\ Len(stdin) <= Capacity /\ Len(stdout) <= Capacity
           /\ Len(toServer) <= Capacity /\ Len(fromServer) <= Capacity
           /\ HeldForServer \in Seq(Nat) /\ HeldForUser \in Seq(Nat)
  <1>1. buf \in Seq(Nat) /\ Len(buf) \in Nat /\ \A k \in 1..Len(buf) : buf[k] \in Nat
    BY LenProperties, ElementOfSeq DEF Inv, Streams
  <1>2. n \in Nat /\ i \in Nat
    BY AmountsAreNatural DEF Inv, TypeOK
  <1>3. \A k \in 1..n : Width * i + k \in Nat \ {0}
    BY <1>2, WidthIsPositive
  <1>4. Bytes(n) \in Seq(Nat)
    BY <1>1, <1>2, <1>3 DEF Bytes, Stale
  <1> QED
    BY <1>1, <1>4, DataFacts, AmountsAreNatural, EmptySeq
       DEF Inv, Streams, TypeOK, HeldForServer, HeldForUser

LEMMA BytesAdded ==
    ASSUME NEW a \in Seq(Nat), NEW r \in Nat, Bytes(r) \in Seq(Nat), Len(Bytes(r)) = r
    PROVE  a \o Bytes(r) \in Seq(Nat) /\ Len(a \o Bytes(r)) = Len(a) + r
  <1> DEFINE b == Bytes(r)
  <1>1. b \in Seq(Nat) /\ Len(b) = r
    OBVIOUS
  <1> HIDE DEF b
  <1>2. a \o b \in Seq(Nat) /\ Len(a \o b) = Len(a) + Len(b)
    BY <1>1, Concats
  <1> QED
    BY <1>1, <1>2 DEF b

LEMMA BytesFacts ==
    ASSUME Inv, NEW r \in 1..n
    PROVE  /\ Bytes(r) \in Seq(Nat) /\ Len(Bytes(r)) = r
           /\ i = 0 /\ r = Len(buf) => Bytes(r) = buf
  <1>1. buf \in Seq(Nat) /\ Len(buf) \in Nat /\ \A k \in 1..Len(buf) : buf[k] \in Nat
    BY LenProperties, ElementOfSeq DEF Inv, Streams
  <1>2. n \in Nat /\ i \in Nat /\ r \in Nat
    BY AmountsAreNatural DEF Inv, TypeOK
  <1>3. \A k \in 1..r : Width * i + k \in Nat \ {0}
    BY <1>2, WidthIsPositive
  <1>4. Bytes(r) \in Seq(Nat) /\ Len(Bytes(r)) = r
    BY <1>1, <1>2, <1>3 DEF Bytes, Stale
  <1>5. ASSUME i = 0, r = Len(buf) PROVE Bytes(r) = buf
    <2>1. Width * i = 0
      BY <1>5, WidthIsPositive
    <2>2. \A k \in 1..r : Bytes(r)[k] = buf[k]
      BY <1>2, <1>5, <2>1 DEF Bytes
    <2> QED
      BY <1>1, <1>4, <1>5, <2>2, SeqEqual
  <1> QED
    BY <1>4, <1>5

-----------------------------------------------------------------------------
LEMMA InitInv == Init => Inv
  <1> SUFFICES ASSUME Init PROVE Inv
    OBVIOUS
  <1> USE DEF Init
  <1>1. Streams
    BY EmptySeq DEF Streams
  <1>2. TypeOK
    <2>1. Len(<<>>) = 0 /\ 0 \in 0..Requests /\ 0 \in 0..Replies /\ 0 \in 0..Capacity
          /\ 0 <= Capacity
      BY AmountsAreNatural, EmptySeq
    <2> QED
      BY <2>1 DEF TypeOK
  <1>3. TicketFirst(fromServer) /\ Holding
    BY EmptySeq DEF TicketFirst, Holding
  <1>4. <<>> \in Seq(Nat) /\ Len(<<>>) = 0 /\ <<>> \o <<>> \o <<>> \o <<>> = <<>>
    BY EmptySeq, ConcatEmptySeq
  <1>5. UpTo(0) = <<>>
    BY UpToFacts, EmptySeq
  <1>6. Data(<<>>) = <<>>
    BY EmptySeq, DataFacts
  <1>7. Request = UpTo(asked)
    BY <1>4, <1>5 DEF Request, HeldForServer
  <1>8. ReplyComplete
    BY <1>4, <1>5, <1>6 DEF ReplyComplete, AllReplies, HeldForUser
  <1> QED
    BY <1>1, <1>2, <1>3, <1>7, <1>8 DEF Inv

(* A step that moves no byte of the request, or none of the reply.         *)
LEMMA RequestKept ==
    ASSUME Inv, got' = got, toServer' = toServer, stdin' = stdin, asked' = asked,
           HeldForServer' = HeldForServer
    PROVE  (Request = UpTo(asked))'
  BY DEF Inv, Request

LEMMA ReplyKept ==
    ASSUME Inv, out' = out, stdout' = stdout, fromServer' = fromServer, sent' = sent,
           HeldForUser' = HeldForUser, short' = short
    PROVE  ReplyComplete' /\ TicketFirst(fromServer)'
  BY DEF Inv, ReplyComplete, AllReplies, Data

(* Steps that move no bytes.                                               *)
LEMMA NoBytesMove ==
    ASSUME Inv, Poll \/ EndOfInput \/ WriteFails \/ EndOfSession \/ ReadFails
                \/ WriteStdoutFails \/ CloseStdin \/ Close \/ UNCHANGED vars
    PROVE  Inv'
  <1> USE DEF client, user, server, pipes, vars, Poll, EndOfInput, WriteFails, EndOfSession,
              ReadFails, WriteStdoutFails, CloseStdin, Close, Afterwards
  <1>1. /\ UNCHANGED <<pipes, out, got, asked, sent, buf, i, n, short>>
        /\ pc' \in {"write_tls", "fatal"} <=> pc \in {"write_tls", "fatal"}
        /\ pc' \in {"write_stdout", "write_failed"} <=> pc \in {"write_stdout", "write_failed"}
    OBVIOUS
  <1>2. Streams'
    BY <1>1 DEF Inv, Streams
  <1>3. TypeOK'
    BY DEF Inv, TypeOK
  <1>4. Holding'
    BY <1>1 DEF Inv, Holding
  <1>5. HeldForServer' = HeldForServer /\ HeldForUser' = HeldForUser
    BY <1>1 DEF HeldForServer, HeldForUser, Bytes
  <1>6. (Request = UpTo(asked))' /\ ReplyComplete' /\ TicketFirst(fromServer)'
    BY <1>1, <1>5, RequestKept, ReplyKept
  <1> QED
    BY <1>2, <1>3, <1>4, <1>6 DEF Inv

LEMMA ReadStdinStep ==
    ASSUME Inv, ReadStdin
    PROVE  Inv'
  <1> USE DEF ReadStdin, user, server
  <1>1. Streams' /\ TypeOK' /\ Holding'
    <2>1. Len(stdin) \in 0..Capacity /\ 0 \in 0..Capacity /\ Len(<<>>) = 0 /\ <<>> \in Seq(Nat)
          /\ 0 <= Capacity
      BY Facts, LenProperties, EmptySeq
    <2>2. TypeOK'
      BY <2>1 DEF Inv, TypeOK
    <2> QED
      BY <2>1, <2>2 DEF Inv, Streams, Holding
  <1>2. (Request = UpTo(asked))'
    <2>1. HeldForServer = <<>> /\ HeldForServer' = stdin /\ stdin' = <<>>
      BY DEF HeldForServer
    <2>2. got \o toServer \in Seq(Nat)
      BY Facts, Concats
    <2>3. got \o toServer \o stdin \in Seq(Nat)
      BY <2>2, Facts, Concats
    <2>4. got \o toServer \o stdin \o <<>> = got \o toServer \o <<>> \o stdin
      BY <2>2, <2>3, Facts, Concats
    <2> QED
      BY <2>1, <2>4 DEF Inv, Request
  <1>3. HeldForUser' = HeldForUser
    BY DEF HeldForUser
  <1>4. ReplyComplete' /\ TicketFirst(fromServer)'
    BY <1>3, ReplyKept
  <1> QED
    BY <1>1, <1>2, <1>4 DEF Inv

LEMMA WriteTlsStep ==
    ASSUME Inv, WriteTls
    PROVE  Inv'
  <1> USE DEF WriteTls, user, server, Afterwards
  <1>1. Streams' /\ TypeOK' /\ Holding'
    <2>1. n = Len(buf) /\ n \in 0..Capacity /\ 0 \in 0..Capacity
      BY Facts DEF Inv, Holding
    <2>2. toServer \o buf \in Seq(Nat) /\ Len(toServer \o buf) <= Capacity
      BY <2>1, Facts, Concats
    <2>3. TypeOK'
      BY <2>1, <2>2 DEF Inv, TypeOK
    <2> QED
      BY <2>1, <2>2, <2>3 DEF Inv, Streams, Holding
  <1>2. (Request = UpTo(asked))'
    <2>1. HeldForServer = buf /\ HeldForServer' = <<>> /\ toServer' = toServer \o buf
      BY DEF HeldForServer
    <2>2. got \o (toServer \o buf) \in Seq(Nat)
      BY Facts, Concats
    <2>3. got \o (toServer \o buf) \o <<>> = got \o (toServer \o buf)
      BY <2>2, Concats
    <2>4. got \in Seq(Nat) /\ toServer \in Seq(Nat) /\ buf \in Seq(Nat)
      BY Facts
    <2>5. got \o toServer \o buf = got \o (toServer \o buf)
      BY <2>4, Regroup
    <2> QED
      BY <2>1, <2>3, <2>5 DEF Inv, Request
  <1>3. HeldForUser' = HeldForUser
    BY DEF HeldForUser
  <1>4. ReplyComplete' /\ TicketFirst(fromServer)'
    BY <1>3, ReplyKept
  <1> QED
    BY <1>1, <1>2, <1>4 DEF Inv

LEMMA AskStep ==
    ASSUME Inv, Ask
    PROVE  Inv'
  <1> USE DEF Ask, client, server
  <1>1. asked \in Nat /\ asked + 1 \in 0..Requests /\ asked + 1 \in Nat
    BY AmountsAreNatural DEF Inv, TypeOK
  <1>2. Append(stdin, asked + 1) \in Seq(Nat) /\ Len(Append(stdin, asked + 1)) <= Capacity
    BY <1>1, Facts, AppendProperties
  <1>3. Streams' /\ Holding'
    BY <1>2 DEF Inv, Streams, Holding
  <1>4. TypeOK'
    BY <1>1, <1>2 DEF Inv, TypeOK
  <1>5. (Request = UpTo(asked))'
    <2>1. HeldForServer' = HeldForServer
      BY DEF HeldForServer
    <2>2. got \o toServer \o HeldForServer \in Seq(Nat)
      BY Facts, Concats
    <2>3. got \o toServer \o HeldForServer \o Append(stdin, asked + 1)
            = Append(got \o toServer \o HeldForServer \o stdin, asked + 1)
      BY <1>1, <2>2, Facts, LastAdded
    <2> QED
      BY <1>1, <2>1, <2>3, UpToFacts DEF Inv, Request
  <1>6. HeldForUser' = HeldForUser
    BY DEF HeldForUser, Bytes
  <1>7. ReplyComplete' /\ TicketFirst(fromServer)'
    BY <1>6, ReplyKept
  <1> QED
    BY <1>3, <1>4, <1>5, <1>7 DEF Inv

LEMMA ReceiveStep ==
    ASSUME Inv, Receive
    PROVE  Inv'
  <1> USE DEF Receive, client, user
  <1>1. /\ Tail(toServer) \in Seq(Nat) /\ Append(got, Head(toServer)) \in Seq(Nat)
        /\ Append(got, Head(toServer)) \o Tail(toServer) = got \o toServer
    BY Facts, FirstMoves
  <1>2. Len(Tail(toServer)) <= Capacity
    BY Facts, HeadTailProperties
  <1>3. Streams' /\ Holding'
    BY <1>1 DEF Inv, Streams, Holding
  <1>4. TypeOK'
    BY <1>1, <1>2 DEF Inv, TypeOK
  <1>5. (Request = UpTo(asked))'
    <2>1. HeldForServer' = HeldForServer
      BY DEF HeldForServer
    <2> QED
      BY <1>1, <2>1 DEF Inv, Request
  <1>6. HeldForUser' = HeldForUser
    BY DEF HeldForUser, Bytes
  <1>7. ReplyComplete' /\ TicketFirst(fromServer)'
    BY <1>6, ReplyKept
  <1> QED
    BY <1>3, <1>4, <1>5, <1>7 DEF Inv

-----------------------------------------------------------------------------
LEMMA ReadTicketStep ==
    ASSUME Inv, ReadTicket
    PROVE  Inv'
  <1> USE DEF ReadTicket, user, server
  <1>1. 1 \in 1..Len(fromServer) /\ Tail(fromServer) \in Seq(Nat)
        /\ Len(Tail(fromServer)) = Len(fromServer) - 1
        /\ \A j \in 1..(Len(fromServer) - 1) : Tail(fromServer)[j] = fromServer[1 + j]
    BY Facts, HeadTailProperties, EmptySeq, LenProperties
  <1>2. Data(Tail(fromServer)) = Tail(fromServer) /\ TicketFirst(Tail(fromServer))
    BY <1>1, Facts, DataOfRest
  <1>3. Data(fromServer) = Tail(fromServer)
    BY Facts, DataFacts
  <1>4. Len(Tail(fromServer)) <= Capacity
    BY <1>1, Facts, LenProperties
  <1>5. Streams' /\ Holding'
    BY <1>1 DEF Inv, Streams, Holding
  <1>6. TypeOK'
    BY <1>4 DEF Inv, TypeOK
  <1>7. HeldForServer' = HeldForServer /\ HeldForUser' = HeldForUser
    BY DEF HeldForServer, HeldForUser
  <1>8. (Request = UpTo(asked))'
    BY <1>7, RequestKept
  <1>9. ReplyComplete' /\ TicketFirst(fromServer)'
    BY <1>2, <1>3, <1>7 DEF Inv, ReplyComplete, AllReplies
  <1> QED
    BY <1>5, <1>6, <1>8, <1>9 DEF Inv

LEMMA ReadTlsStep ==
    ASSUME Inv, ReadTls
    PROVE  Inv'
  <1> USE DEF ReadTls, user, server
  <1>1. PICK k \in 1..Len(fromServer) :
          /\ \A j \in 1..k : fromServer[j] # Ticket
          /\ buf' = SubSeq(fromServer, 1, k) /\ i' = 0 /\ n' = k
          /\ fromServer' = SubSeq(fromServer, k + 1, Len(fromServer))
    OBVIOUS
  <1> DEFINE front == SubSeq(fromServer, 1, k)
             rest == SubSeq(fromServer, k + 1, Len(fromServer))
  <1>2. /\ front \in Seq(Nat) /\ rest \in Seq(Nat) /\ Len(front) = k
        /\ Len(rest) = Len(fromServer) - k /\ front \o rest = fromServer
        /\ \A j \in 1..(Len(fromServer) - k) : rest[j] = fromServer[k + j]
    BY Facts, Cut
  <1>3. Len(fromServer) \in Nat /\ k \in Nat /\ k >= 1 /\ k <= Len(fromServer) /\ 1 \in 1..k
    BY Facts, LenProperties
  <1>4. Data(fromServer) = fromServer
    <2>1. fromServer # <<>> => Head(fromServer) = fromServer[1]
      BY Facts
    <2> QED
      BY <1>1, <1>3, <2>1 DEF Data
  <1> HIDE DEF front, rest
  <1>5. Data(rest) = rest /\ TicketFirst(rest)
    BY <1>2, Facts, DataOfRest
  <1>6. buf' = front /\ fromServer' = rest
    BY <1>1 DEF front, rest
  <1>7. k \in 0..Capacity /\ 0 \in 0..Capacity /\ Len(front) <= Capacity /\ Len(rest) <= Capacity
    <2>1. Capacity \in Nat /\ Len(fromServer) <= Capacity
      BY Facts
    <2> QED
      BY <1>2, <1>3, <2>1
  <1>8. Streams' /\ Holding'
    <2>1. Streams'
      BY <1>2, <1>6 DEF Inv, Streams
    <2>2. pc' = "write_stdout" /\ i' = 0 /\ i' + n' = Len(buf')
      BY <1>1, <1>2, <1>3, <1>6
    <2> QED
      BY <2>1, <2>2 DEF Holding
  <1>9. TypeOK'
    BY <1>1, <1>6, <1>7 DEF Inv, TypeOK
  <1>10. HeldForServer' = HeldForServer
    BY DEF HeldForServer
  <1>11. (Request = UpTo(asked))'
    BY <1>10, RequestKept
  <1>12. HeldForUser' = front
    <2>1. HeldForUser' = Bytes(k)'
      BY <1>1 DEF HeldForUser, Bytes
    <2>2. \A j \in 1..k : Width * 0 + j = j
      BY <1>3, WidthIsPositive
    <2>3. Bytes(k)' = [j \in 1..k |-> front[j]]
      BY <1>1, <1>2, <1>6, <2>2 DEF Bytes
    <2>4. front = [j \in 1..k |-> front[j]]
      BY <1>2
    <2> QED
      BY <2>1, <2>3, <2>4
  <1>13. AllReplies' = AllReplies
    <2>1. HeldForUser = <<>>
      BY DEF HeldForUser
    <2>2. out \o stdout \in Seq(Nat)
      BY Facts, Concats
    <2>3. out \o stdout \o front \o rest = out \o stdout \o (front \o rest)
      BY <1>2, <2>2, Regroup
    <2>4. out \o stdout \o <<>> = out \o stdout
      BY <2>2, Concats
    <2> QED
      BY <1>2, <1>4, <1>5, <1>6, <1>12, <2>1, <2>3, <2>4 DEF AllReplies
  <1>14. ReplyComplete' /\ TicketFirst(fromServer)'
    BY <1>5, <1>6, <1>13 DEF Inv, ReplyComplete
  <1> QED
    BY <1>8, <1>9, <1>11, <1>14 DEF Inv

LEMMA WriteStdoutStep ==
    ASSUME Inv, WriteStdout
    PROVE  Inv'
  <1> USE DEF WriteStdout, user, server
  <1>1. PICK r \in 1..n :
          /\ Len(stdout) + r <= Capacity
          /\ stdout' = stdout \o Bytes(r)
          /\ i' = i + r /\ n' = n - r
          /\ pc' = IF r = n THEN "poll" ELSE "write_stdout"
          /\ short' = (short \/ r < n)
    OBVIOUS
  <1>2. Bytes(r) \in Seq(Nat) /\ Len(Bytes(r)) = r
    BY BytesFacts
  <1>3. /\ i \in Nat /\ n \in Nat /\ r \in Nat /\ 1 <= r /\ r <= n /\ Capacity \in Nat
        /\ i + n = Len(buf) /\ Len(buf) <= Capacity /\ (short \/ i = 0) /\ short \in BOOLEAN
    BY AmountsAreNatural DEF Inv, TypeOK, Holding
  <1>4. /\ out \in Seq(Nat) /\ stdout \in Seq(Nat)
        /\ stdout \o Bytes(r) \in Seq(Nat) /\ Len(stdout \o Bytes(r)) = Len(stdout) + r
    <2>1. out \in Seq(Nat) /\ stdout \in Seq(Nat)
      BY Facts
    <2> QED
      BY <1>1, <1>2, <2>1, BytesAdded
  <1>5. /\ i + r \in 0..Capacity /\ n - r \in 0..Capacity /\ (i + r) + (n - r) = Len(buf)
        /\ n - r \in Nat /\ i + r \in Nat /\ short' \in BOOLEAN
        /\ r # n => short'
    <2>1. r # n => r < n
      BY <1>3
    <2>2. short' \in BOOLEAN /\ (r # n => short')
      BY <1>1, <2>1
    <2>3. /\ i + r \in 0..Capacity /\ n - r \in 0..Capacity /\ (i + r) + (n - r) = Len(buf)
          /\ n - r \in Nat /\ i + r \in Nat
      <3>1. /\ i \in Nat /\ n \in Nat /\ r \in Nat /\ 1 <= r /\ r <= n /\ Capacity \in Nat
            /\ i + n = Len(buf) /\ i + n <= Capacity
        BY <1>3
      <3>2. /\ i + r \in 0..Capacity /\ n - r \in 0..Capacity
            /\ (i + r) + (n - r) = i + n /\ n - r \in Nat /\ i + r \in Nat
        BY <3>1
      <3> QED
        BY <3>1, <3>2
    <2> QED
      BY <2>2, <2>3
  <1>6. Streams'
    BY <1>1, <1>4 DEF Inv, Streams
  <1>7. TypeOK'
    BY <1>1, <1>4, <1>5 DEF Inv, TypeOK
  <1>8. Holding'
    BY <1>1, <1>5 DEF Inv, Holding
  <1>9. HeldForServer' = HeldForServer
    BY <1>1 DEF HeldForServer
  <1>10. (Request = UpTo(asked))'
    BY <1>9, RequestKept
  <1>11. ReplyComplete'
    <2> DEFINE before == out \o stdout
               held == Bytes(n)
               behind == Data(fromServer)
               held2 == HeldForUser'
    <2>1. HeldForUser = held
      BY DEF HeldForUser
    <2>2. held \in Seq(Nat) /\ Len(held) = n
      BY <1>3, BytesFacts
    <2>3. before \in Seq(Nat) /\ behind \in Seq(Nat)
      BY Facts, Concats
    <2>4. held2 \in Seq(Nat) /\ Len(held2) = n - r /\ (r = n => held2 = <<>>)
      <3>1. CASE r = n
        BY <1>1, <1>3, <3>1, EmptySeq DEF HeldForUser
      <3>2. CASE r # n
        <4> DEFINE q == Width * (i + r)
                   m == n - r
                   byte(k) == IF q + k <= Len(buf) THEN buf[q + k] ELSE Stale
        <4>1. held2 = [k \in 1..m |-> byte(k)]
          BY <1>1, <3>2 DEF HeldForUser, Bytes
        <4>2. q \in Nat /\ m \in Nat
          BY <1>5, WidthIsPositive
        <4>3. buf \in Seq(Nat)
          BY Facts
        <4>4. Len(buf) \in Nat /\ \A k \in 1..Len(buf) : buf[k] \in Nat
          BY <4>3, LenProperties, ElementOfSeq
        <4> HIDE DEF q
        <4>5. \A k \in 1..m : byte(k) \in Nat
          BY <4>2, <4>4 DEF Stale
        <4> HIDE DEF m, byte, held2
        <4>6. held2 \in Seq(Nat) /\ Len(held2) = m
          BY <4>1, <4>2, <4>5
        <4> QED
          BY <3>2, <4>6 DEF m
      <3> QED
        BY <3>1, <3>2
    <2>5. AllReplies = before \o held \o behind
      BY <2>1 DEF AllReplies
    <2>6. AllReplies' = (out \o (stdout \o Bytes(r))) \o held2 \o behind
      BY <1>1 DEF AllReplies, Data
    <2>7. out \o (stdout \o Bytes(r)) = before \o Bytes(r)
      BY <1>2, <1>4, Regroup
    <2> HIDE DEF before, held, behind, held2
    <2>8. /\ before \o held \in Seq(Nat) /\ before \o Bytes(r) \in Seq(Nat)
          /\ before \o Bytes(r) \o held2 \in Seq(Nat)
          /\ Len(before \o held) = Len(before) + n
          /\ Len(before \o Bytes(r) \o held2) = Len(before) + r + (n - r)
      <3>1. before \o held \in Seq(Nat) /\ Len(before \o held) = Len(before) + n
        BY <2>2, <2>3, Concats
      <3>2. before \o Bytes(r) \in Seq(Nat) /\ Len(before \o Bytes(r)) = Len(before) + r
        BY <1>2, <1>3, <2>3, BytesAdded
      <3>3. /\ before \o Bytes(r) \o held2 \in Seq(Nat)
            /\ Len(before \o Bytes(r) \o held2) = Len(before \o Bytes(r)) + (n - r)
        BY <2>4, <3>2, Concats
      <3> QED
        BY <3>1, <3>2, <3>3
    <2>9. Len(before) \in Nat /\ Len(behind) \in Nat
      BY <2>3, LenProperties
    <2>10. Len(AllReplies) = Len(before) + n + Len(behind)
      BY <2>2, <2>3, <2>5, <2>8, Concats
    <2>11. Len(AllReplies') = Len(before) + r + (n - r) + Len(behind)
      BY <2>3, <2>6, <2>7, <2>8, Concats
    <2>12. Len(AllReplies') = sent
      BY <1>3, <2>9, <2>10, <2>11 DEF Inv, ReplyComplete
    <2>13. ASSUME ~short' PROVE AllReplies' = UpTo(sent)
      <3>1. r = n /\ ~short /\ i = 0
        <4>1. short' = (short \/ r < n) /\ (short \/ i = 0)
          BY <1>1, <1>3
        <4> QED
          BY <1>5, <2>13, <4>1, Zenon
      <3>2. Bytes(r) = held /\ held2 = <<>>
        BY <2>4, <3>1 DEF held
      <3>3. before \o Bytes(r) \o held2 = before \o held
        BY <2>8, <3>2, Concats
      <3> QED
        BY <2>5, <2>6, <2>7, <3>1, <3>3 DEF Inv, ReplyComplete
    <2> QED
      BY <2>12, <2>13 DEF ReplyComplete
  <1> QED
    BY <1>6, <1>7, <1>8, <1>10, <1>11 DEF Inv

LEMMA ReadStdoutStep ==
    ASSUME Inv, ReadStdout
    PROVE  Inv'
  <1> USE DEF ReadStdout, client, server
  <1>1. /\ Tail(stdout) \in Seq(Nat) /\ Append(out, Head(stdout)) \in Seq(Nat)
        /\ Append(out, Head(stdout)) \o Tail(stdout) = out \o stdout
    BY Facts, FirstMoves
  <1>2. Len(Tail(stdout)) <= Capacity
    BY Facts, HeadTailProperties
  <1>3. Streams' /\ Holding'
    BY <1>1 DEF Inv, Streams, Holding
  <1>4. TypeOK'
    BY <1>2 DEF Inv, TypeOK
  <1>5. HeldForServer' = HeldForServer /\ HeldForUser' = HeldForUser
    BY DEF HeldForServer, HeldForUser, Bytes
  <1>6. (Request = UpTo(asked))'
    BY <1>5, RequestKept
  <1>7. ReplyComplete' /\ TicketFirst(fromServer)'
    BY <1>1, <1>5 DEF Inv, ReplyComplete, AllReplies, Data
  <1> QED
    BY <1>3, <1>4, <1>6, <1>7 DEF Inv

LEMMA ReplyStep ==
    ASSUME Inv, Reply
    PROVE  Inv'
  <1> USE DEF Reply, client, user
  <1>1. sent \in Nat /\ sent + 1 \in 0..Replies /\ sent + 1 \in Nat \ {0}
    BY AmountsAreNatural DEF Inv, TypeOK
  <1>2. /\ Append(fromServer, sent + 1) \in Seq(Nat)
        /\ Len(Append(fromServer, sent + 1)) <= Capacity
    BY <1>1, Facts, AppendProperties
  <1>3. /\ Data(Append(fromServer, sent + 1)) = Append(Data(fromServer), sent + 1)
        /\ TicketFirst(Append(fromServer, sent + 1))
    BY <1>1, Facts, DataAppended
  <1>4. Streams' /\ Holding'
    BY <1>2 DEF Inv, Streams, Holding
  <1>5. TypeOK'
    BY <1>1, <1>2 DEF Inv, TypeOK
  <1>6. HeldForServer' = HeldForServer /\ HeldForUser' = HeldForUser
    BY DEF HeldForServer, HeldForUser, Bytes
  <1>7. (Request = UpTo(asked))'
    BY <1>6, RequestKept
  <1>8. AllReplies' = Append(AllReplies, sent + 1) /\ AllReplies \in Seq(Nat)
    <2>1. out \o stdout \o HeldForUser \in Seq(Nat)
      BY Facts, Concats
    <2>2. out \o stdout \o HeldForUser \o Append(Data(fromServer), sent + 1)
            = Append(out \o stdout \o HeldForUser \o Data(fromServer), sent + 1)
      BY <1>1, <2>1, Facts, LastAdded
    <2>3. AllReplies \in Seq(Nat)
      BY <2>1, Facts, Concats DEF AllReplies
    <2> QED
      BY <1>3, <1>6, <2>2, <2>3 DEF AllReplies
  <1>9. ReplyComplete'
    <2>1. Len(AllReplies') = sent + 1
      BY <1>1, <1>8, AppendProperties DEF Inv, ReplyComplete
    <2> QED
      BY <1>1, <1>8, <2>1, UpToFacts DEF Inv, ReplyComplete
  <1> QED
    BY <1>3, <1>4, <1>5, <1>7, <1>9 DEF Inv

(* A ticket is sent while nothing has been replied, so that no byte can be *)
(* on the way.                                                             *)
LEMMA SendTicketStep ==
    ASSUME Inv, SendTicket
    PROVE  Inv'
  <1> USE DEF SendTicket, client, user, server
  <1>1. fromServer = <<>>
    <2> DEFINE before == out \o stdout \o HeldForUser
    <2>1. before \in Seq(Nat)
      BY Facts, Concats
    <2>2. Data(fromServer) = fromServer
      <3>1. fromServer # <<>> => Head(fromServer) = fromServer[1] /\ 1 \in DOMAIN fromServer
        BY Facts, EmptySeq, LenProperties
      <3> QED
        BY <3>1 DEF Data
    <2>3. AllReplies = before \o fromServer
      BY <2>2 DEF AllReplies
    <2> HIDE DEF before
    <2>4. Len(before) + Len(fromServer) = 0
      BY <2>1, <2>3, Facts, Concats DEF Inv, ReplyComplete
    <2> QED
      BY <2>1, <2>4, Facts, EmptySeq, LenProperties
  <1>2. fromServer' = <<Ticket>> /\ fromServer' \in Seq(Nat) /\ Len(fromServer') <= Capacity
    BY <1>1, Facts DEF Ticket
  <1>3. Data(fromServer') = <<>> /\ Data(fromServer) = <<>> /\ TicketFirst(fromServer')
    BY <1>1, <1>2 DEF Data, TicketFirst
  <1>4. Streams' /\ Holding'
    BY <1>2 DEF Inv, Streams, Holding
  <1>5. TypeOK'
    BY <1>2 DEF Inv, TypeOK
  <1>6. HeldForServer' = HeldForServer /\ HeldForUser' = HeldForUser
    BY DEF HeldForServer, HeldForUser, Bytes
  <1>7. (Request = UpTo(asked))'
    BY <1>6, RequestKept
  <1>8. ReplyComplete'
    BY <1>3, <1>6 DEF Inv, ReplyComplete, AllReplies
  <1> QED
    BY <1>3, <1>4, <1>5, <1>7, <1>8 DEF Inv

LEMMA NextInv == Inv /\ [Next]_vars => Inv'
  BY NoBytesMove, ReadStdinStep, WriteTlsStep, AskStep, ReceiveStep, ReadTicketStep,
     ReadTlsStep, WriteStdoutStep, ReadStdoutStep, ReplyStep, SendTicketStep
     DEF Next, Client, User, Server

(* Request and reply arrive in order and complete, whatever their lengths  *)
(* and those of the pipes, and however the program, the client and the     *)
(* server take turns.                                                      *)
THEOREM InOrder == Spec => []StreamsInOrder
  BY InitInv, NextInv, InvIsEnough, PTL DEF Spec

-----------------------------------------------------------------------------
(* ssl_client.c, above; base64.c, from here on.                            *)


Octets == 0..255

-----------------------------------------------------------------------------
(* Quanta.                                                                 *)

LEMMA Quanta ==
    ASSUME NEW num \in Nat
    PROVE  \E q \in Nat, r \in 0..2 : num = 3 * q + r
  <1>1. num \div 3 \in Nat /\ num % 3 \in 0..2 /\ num = 3 * (num \div 3) + (num % 3)
    OBVIOUS
  <1> QED BY <1>1

LEMMA Lengths ==
    ASSUME NEW q \in Nat, NEW r \in 0..2, NEW num \in Nat, num = 3 * q + r
    PROVE  /\ (num + 2) \div 3 = IF r = 0 THEN q ELSE q + 1
           /\ (8 * num + 5) \div 6 = IF r = 0 THEN 4 * q ELSE 4 * q + r + 1
           /\ num % 3 = r
  OBVIOUS

LEMMA OctetAt ==
    ASSUME NEW s \in Seq(Octets), NEW k \in Nat \ {0}
    PROVE  ByteOf(s, k) \in Octets
  <1>1. CASE k <= Len(s)
    <2>1. Len(s) \in Nat /\ k \in 1..Len(s)
      BY <1>1, LenProperties
    <2>2. s[k] \in Octets
      BY <2>1, ElementOfSeq
    <2> QED BY <1>1, <2>2 DEF ByteOf
  <1>2. CASE ~(k <= Len(s))
    BY <1>2 DEF ByteOf, Octets
  <1> QED BY <1>1, <1>2

LEMMA DigitsOfQuantum ==
    ASSUME NEW s, NEW q \in Nat
    PROVE  /\ DigitOf(s, 4 * q + 1) = ByteOf(s, 3 * q + 1) \div 4
           /\ DigitOf(s, 4 * q + 2) = (ByteOf(s, 3 * q + 1) % 4) * 16 + ByteOf(s, 3 * q + 2) \div 16
           /\ DigitOf(s, 4 * q + 3) = (ByteOf(s, 3 * q + 2) % 16) * 4 + ByteOf(s, 3 * q + 3) \div 64
           /\ DigitOf(s, 4 * q + 4) = ByteOf(s, 3 * q + 3) % 64
  <1> DEFINE O == Output(ByteOf(s, 3 * q + 1), ByteOf(s, 3 * q + 2), ByteOf(s, 3 * q + 3))
  <1>1. \A j \in 1..4 : DigitOf(s, 4 * q + j) = O[j]
    <2> TAKE j \in 1..4
    <2>1. (4 * q + j - 1) \div 4 = q /\ ((4 * q + j - 1) % 4) + 1 = j
      OBVIOUS
    <2> QED BY ONLY <2>1 DEF DigitOf
  <1>2. DigitOf(s, 4 * q + 1) = O[1] /\ DigitOf(s, 4 * q + 2) = O[2]
        /\ DigitOf(s, 4 * q + 3) = O[3] /\ DigitOf(s, 4 * q + 4) = O[4]
    <2> HIDE DEF O
    <2> QED BY <1>1
  <1> QED BY <1>2 DEF Output

(* Every place of a digit is one of four in some quantum.                  *)
LEMMA InQuantum ==
    ASSUME NEW k \in Nat \ {0}
    PROVE  \E q \in Nat : k \in {4 * q + 1, 4 * q + 2, 4 * q + 3, 4 * q + 4}
  <1>1. (k - 1) \div 4 \in Nat /\ k - 1 - 4 * ((k - 1) \div 4) \in 0..3
    OBVIOUS
  <1> QED BY <1>1

LEMMA DigitsAreDigits ==
    ASSUME NEW s \in Seq(Octets), NEW k \in Nat \ {0}
    PROVE  DigitOf(s, k) \in Digits
  <1>1. PICK q \in Nat : k \in {4 * q + 1, 4 * q + 2, 4 * q + 3, 4 * q + 4}
    BY InQuantum
  <1>2. /\ ByteOf(s, 3 * q + 1) \in Octets /\ ByteOf(s, 3 * q + 2) \in Octets
        /\ ByteOf(s, 3 * q + 3) \in Octets
    BY OctetAt
  <1> DEFINE a == ByteOf(s, 3 * q + 1)
             b == ByteOf(s, 3 * q + 2)
             c == ByteOf(s, 3 * q + 3)
  <1>3. /\ DigitOf(s, 4 * q + 1) = a \div 4
        /\ DigitOf(s, 4 * q + 2) = (a % 4) * 16 + (b \div 16)
        /\ DigitOf(s, 4 * q + 3) = (b % 16) * 4 + (c \div 64)
        /\ DigitOf(s, 4 * q + 4) = c % 64
    BY DigitsOfQuantum
  <1> HIDE DEF a, b, c
  <1>4. a \in 0..255 /\ b \in 0..255 /\ c \in 0..255
    BY <1>2 DEF Octets, a, b, c
  <1>5. a \div 4 \in 0..63 /\ (a % 4) * 16 + (b \div 16) \in 0..63
        /\ (b % 16) * 4 + (c \div 64) \in 0..63 /\ c % 64 \in 0..63
    BY ONLY <1>4
  <1> QED BY <1>1, <1>3, <1>5 DEF Digits

LEMMA EncodingIs ==
    ASSUME NEW s \in Seq(Octets), NEW q \in Nat, NEW r \in 0..2, Len(s) = 3 * q + r
    PROVE  /\ Encoding(s) \in Seq(0..64)
           /\ Len(Encoding(s)) = IF r = 0 THEN 4 * q ELSE 4 * q + 4
           /\ \A k \in 1..Len(Encoding(s)) :
                Encoding(s)[k] = IF k <= (IF r = 0 THEN 4 * q ELSE 4 * q + r + 1)
                                 THEN DigitOf(s, k) ELSE Pad
  <1> DEFINE num == Len(s)
             all == IF r = 0 THEN 4 * q ELSE 4 * q + 4
             digits == IF r = 0 THEN 4 * q ELSE 4 * q + r + 1
  <1>1. num \in Nat /\ 4 * ((num + 2) \div 3) = all /\ (8 * num + 5) \div 6 = digits /\ all \in Nat
    BY Lengths
  <1>2. Encoding(s) = [k \in 1..all |-> IF k <= digits THEN DigitOf(s, k) ELSE Pad]
    BY <1>1 DEF Encoding
  <1> HIDE DEF all, digits
  <1>3. \A k \in 1..all : (IF k <= digits THEN DigitOf(s, k) ELSE Pad) \in 0..64
    <2> TAKE k \in 1..all
    <2>1. k \in Nat \ {0} BY <1>1
    <2>2. DigitOf(s, k) \in 0..63 BY <2>1, DigitsAreDigits DEF Digits
    <2> QED BY <2>2 DEF Pad
  <1>4. Encoding(s) \in Seq(0..64) /\ Len(Encoding(s)) = all
    BY <1>1, <1>2, <1>3, IsASeq
  <1> QED BY <1>2, <1>4 DEF all, digits

(* Digits are determined by the bytes.                                     *)
LEMMA SameDigit ==
    ASSUME NEW s, NEW t, NEW k \in Nat \ {0}, NEW m \in Nat,
           \A j \in 1..m : ByteOf(s, j) = ByteOf(t, j),
           3 * ((k - 1) \div 4) + 3 <= m
    PROVE  DigitOf(s, k) = DigitOf(t, k)
  <1> DEFINE q == (k - 1) \div 4
  <1>1. q \in Nat /\ 3 * q + 1 \in 1..m /\ 3 * q + 2 \in 1..m /\ 3 * q + 3 \in 1..m
    OBVIOUS
  <1> QED BY <1>1 DEF DigitOf

-----------------------------------------------------------------------------
(* Places: characters are counted without white space.                     *)

LEMMA PlacesAreFinite ==
    ASSUME NEW text, NEW k \in Nat
    PROVE  /\ IsFiniteSet({j \in 1..k : text[j] # Space})
           /\ Place(text, k) \in Nat
  <1>1. IsFiniteSet(1..k)
    BY FS_Interval
  <1>2. IsFiniteSet({j \in 1..k : text[j] # Space})
    BY <1>1, FS_Subset
  <1> QED BY <1>2, FS_CardinalityType DEF Place

LEMMA FirstPlace == ASSUME NEW text PROVE Place(text, 0) = 0
  <1>1. {j \in 1..0 : text[j] # Space} = {}
    OBVIOUS
  <1> QED BY <1>1, FS_EmptySet DEF Place

LEMMA NextPlace ==
    ASSUME NEW text, NEW k \in Nat
    PROVE  Place(text, k + 1) = IF text[k + 1] # Space THEN Place(text, k) + 1
                                ELSE Place(text, k)
  <1> DEFINE A == {j \in 1..k : text[j] # Space}
             B == {j \in 1..(k + 1) : text[j] # Space}
  <1>1. IsFiniteSet(A) /\ k + 1 \notin A
    <2>1. IsFiniteSet(A) BY PlacesAreFinite
    <2>2. k + 1 \notin A BY SMT
    <2> QED BY <2>1, <2>2
  <1>2. CASE text[k + 1] # Space
    <2>1. B = A \cup {k + 1}
      BY <1>2
    <2>2. Cardinality(B) = Cardinality(A) + 1
      <3> HIDE DEF A, B
      <3> QED BY <1>1, <2>1, FS_AddElement
    <2> QED BY <1>2, <2>2 DEF Place
  <1>3. CASE text[k + 1] = Space
    <2>1. B = A
      BY <1>3
    <2> QED BY <1>3, <2>1 DEF Place
  <1> QED BY <1>2, <1>3

LEMMA NoPlaceBetween ==
    ASSUME NEW text, NEW a \in Nat, NEW b \in Nat, a <= b,
           \A j \in (a + 1)..b : text[j] = Space
    PROVE  Place(text, b) = Place(text, a)
  <1>1. {j \in 1..b : text[j] # Space} = {j \in 1..a : text[j] # Space}
    <2>1. ASSUME NEW j \in 1..b, text[j] # Space PROVE j \in 1..a
      <3>1. ~(j \in (a + 1)..b)
        BY <2>1
      <3> QED BY <3>1
    <2> QED BY <2>1
  <1> QED BY <1>1 DEF Place

LEMMA PlacesBefore ==
    ASSUME NEW text, NEW c \in Nat, NEW k \in 1..c, text[k] # Space
    PROVE  Place(text, k) \in 1..Place(text, c)
  <1> DEFINE A == {j \in 1..k : text[j] # Space}
             B == {j \in 1..c : text[j] # Space}
  <1>1. IsFiniteSet(A) /\ IsFiniteSet(B) /\ A \subseteq B /\ k \in A
    <2>1. k \in Nat /\ IsFiniteSet(A) /\ IsFiniteSet(B)
      BY PlacesAreFinite
    <2>2. A \subseteq B /\ k \in A
      BY SMT
    <2> QED BY <2>1, <2>2
  <1> HIDE DEF A, B
  <1>2. /\ Cardinality(A) \in Nat /\ Cardinality(B) \in Nat /\ Cardinality(A) <= Cardinality(B)
        /\ Cardinality(A) # 0
    BY <1>1, FS_Subset, FS_CardinalityType, FS_EmptySet
  <1> QED BY <1>2 DEF A, B, Place

-----------------------------------------------------------------------------
(* The invariant.                                                          *)

Conversion ==
    /\ job \in {"ntop", "pton"} /\ size \in Nat \cup {Unlimited}
    /\ result \in Nat \cup {-1, Running}
    /\ tarindex \in Nat /\ state \in 0..3
    /\ encoded \in Seq(Octets) \cup {Nothing}
    /\ job = "ntop" => /\ given \in Seq(Octets) /\ source \in Seq(Octets)
                       /\ target \in Seq(0..64) /\ size \in Nat /\ encoded = Nothing
    /\ job = "pton" => /\ given \in Seq(0..66) /\ source \in Seq(0..66)
                       /\ target \in Seq(Octets)

(* What is left to read is the end of what was given.                      *)
IsRestOf(s, g) ==
    /\ Len(s) <= Len(g)
    /\ \A k \in 1..Len(s) : s[k] = g[Len(g) - Len(s) + k]

Begins(t, e) == \A k \in 1..Len(t) : t[k] = e[k]

(* b64_ntop: what is written is the beginning of the encoding.             *)
Encodes ==
    /\ IsRestOf(source, given) /\ Len(target) <= size
    /\ Begins(target, Encoding(given))
    /\ \/ source = <<>> /\ Len(target) = EncodedLength
       \/ \E q \in Nat : Len(target) = 4 * q /\ 3 * q + Len(source) = Len(given)

Encoded ==
    /\ Len(target) <= size
    /\ result = IF EncodedLength < size THEN EncodedLength ELSE -1
    /\ result >= 0 => target = Encoding(given)

(* b64_pton: behind the bytes that are complete there is one with only     *)
(* high bits.                                                              *)
Fills ==
    /\ Len(target) = tarindex + (IF state = 0 THEN 0 ELSE 1)
    /\ Len(target) <= size
    /\ state = 1 => target[tarindex + 1] % 4 = 0
    /\ state = 2 => target[tarindex + 1] % 16 = 0
    /\ state = 3 => target[tarindex + 1] % 64 = 0

Consumed == Len(given) - Len(source)

Past == IF state = 0 THEN 0 ELSE state - 1

(* Every character that was read is the digit that the bytes now have      *)
(* there.                                                                  *)
Decodes(q) ==
    /\ IsRestOf(source, given)
    /\ tarindex = 3 * q + Past
    /\ Place(given, Consumed) = 4 * q + state
    /\ size # Unlimited =>
        \A k \in 1..Consumed :
            given[k] # Space => given[k] = DigitOf(target, Place(given, k))

(* Of a text that was encoded: the complete bytes are those that were      *)
(* encoded, and the last one has their high bits.                          *)
Restores(q) ==
    /\ given = Encoding(encoded) /\ tarindex <= Len(encoded)
    /\ Consumed = 4 * q + state
    /\ Consumed <= (8 * Len(encoded) + 5) \div 6
    /\ size # Unlimited =>
        /\ \A k \in 1..tarindex : target[k] = encoded[k]
        /\ LET rest == ByteOf(encoded, tarindex + 1)
           IN /\ state = 1 => target[tarindex + 1] = 4 * (rest \div 4)
              /\ state = 2 => target[tarindex + 1] = 16 * (rest \div 16)
              /\ state = 3 => target[tarindex + 1] = 64 * (rest \div 64)

Base64Inv ==
    /\ Conversion
    /\ job = "ntop" /\ result = Running => Encodes
    /\ job = "ntop" /\ result # Running => Encoded
    /\ job = "pton" => IF size = Unlimited THEN target = <<>> ELSE Fills
    /\ job = "pton" /\ result = Running =>
        \E q \in Nat : Decodes(q) /\ (encoded # Nothing => Restores(q))
    /\ job = "pton" /\ result # Running => RoundTrip /\ OneTextEach

-----------------------------------------------------------------------------
(* Reading.                                                                *)

LEMMA TailIsRest ==
    ASSUME NEW S, NEW g \in Seq(S), NEW s \in Seq(S), IsRestOf(s, g), s # <<>>
    PROVE  /\ Tail(s) \in Seq(S) /\ Len(Tail(s)) = Len(s) - 1 /\ IsRestOf(Tail(s), g)
           /\ Head(s) \in S /\ Head(s) = g[Len(g) - Len(s) + 1]
           /\ Len(s) \in Nat \ {0} /\ Len(g) \in Nat /\ Len(s) <= Len(g)
  <1>1. Len(s) \in Nat \ {0} /\ Len(g) \in Nat
    BY EmptySeq, LenProperties
  <1>2. /\ Tail(s) \in Seq(S) /\ Len(Tail(s)) = Len(s) - 1 /\ Head(s) \in S
        /\ \A k \in 1..Len(Tail(s)) : Tail(s)[k] = s[k + 1]
    BY HeadTailProperties
  <1>3. Head(s) = s[1]
    BY <1>1
  <1> DEFINE t == Tail(s)
             h == Head(s)
  <1> HIDE DEF t, h
  <1>4. ASSUME NEW k \in 1..Len(t) PROVE t[k] = g[Len(g) - Len(t) + k]
    <2>1. k + 1 \in 1..Len(s) /\ Len(g) - Len(s) + (k + 1) = Len(g) - Len(t) + k
      BY <1>1, <1>2 DEF t
    <2> QED BY <1>2, <2>1 DEF IsRestOf, t
  <1>5. h = g[Len(g) - Len(s) + 1] /\ Len(t) <= Len(g) /\ Len(s) <= Len(g)
    BY <1>1, <1>2, <1>3 DEF IsRestOf, t, h
  <1>6. IsRestOf(t, g)
    BY <1>4, <1>5 DEF IsRestOf
  <1> QED BY <1>1, <1>2, <1>5, <1>6 DEF t, h

LEMMA CutIsRest ==
    ASSUME NEW S, NEW g \in Seq(S), NEW s \in Seq(S), IsRestOf(s, g), Len(s) > 2
    PROVE  /\ SubSeq(s, 4, Len(s)) \in Seq(S) /\ Len(SubSeq(s, 4, Len(s))) = Len(s) - 3
           /\ IsRestOf(SubSeq(s, 4, Len(s)), g)
  <1>1. Len(s) \in Nat /\ Len(g) \in Nat /\ Len(s) > 2
    BY LenProperties
  <1>2. \A k \in 4..Len(s) : s[k] \in S
    BY <1>1, ElementOfSeq
  <1> DEFINE t == SubSeq(s, 4, Len(s))
  <1>3. /\ t \in Seq(S) /\ Len(t) = IF 4 <= Len(s) THEN Len(s) - 4 + 1 ELSE 0
        /\ \A k \in 1..(Len(s) - 4 + 1) : t[k] = s[4 + k - 1]
    BY <1>1, <1>2, SubSeqProperties
  <1> HIDE DEF t
  <1>4. Len(t) = Len(s) - 3
    <2> DEFINE m == Len(s)
    <2> HIDE DEF m
    <2>1. m \in Nat /\ m > 2 /\ Len(t) = IF 4 <= m THEN m - 4 + 1 ELSE 0
      BY <1>1, <1>3 DEF m
    <2>2. Len(t) = m - 3
      BY ONLY <2>1
    <2> QED BY <2>2 DEF m
  <1>5. ASSUME NEW k \in 1..Len(t) PROVE t[k] = g[Len(g) - Len(t) + k]
    <2>1. k + 3 \in 1..Len(s) /\ 4 + k - 1 = k + 3 /\ k \in 1..(Len(s) - 4 + 1)
          /\ Len(g) - Len(s) + (k + 3) = Len(g) - Len(t) + k
      BY <1>1, <1>4
    <2>2. t[k] = s[k + 3] /\ s[k + 3] = g[Len(g) - Len(s) + (k + 3)]
      BY <1>3, <2>1 DEF IsRestOf
    <2> QED BY <2>1, <2>2
  <1>6. Len(t) <= Len(g)
    BY <1>1, <1>4 DEF IsRestOf
  <1>7. IsRestOf(t, g)
    BY <1>5, <1>6 DEF IsRestOf
  <1> QED BY <1>3, <1>4, <1>7 DEF t

-----------------------------------------------------------------------------
(* b64_ntop.                                                               *)

Continues(w, e, from) == \A k \in 1..4 : w[k] = e[from + k]

LEMMA QuantumWritten ==
    ASSUME NEW t \in Seq(0..64), NEW w \in Seq(0..64), Len(w) = 4, NEW e,
           Begins(t, e), Continues(w, e, Len(t))
    PROVE  /\ t \o w \in Seq(0..64) /\ Len(t \o w) = Len(t) + 4
           /\ Begins(t \o w, e)
  <1> DEFINE u == t \o w
  <1>1. /\ u \in Seq(0..64) /\ Len(u) = Len(t) + Len(w)
        /\ \A k \in 1..(Len(t) + Len(w)) : u[k] = IF k <= Len(t) THEN t[k] ELSE w[k - Len(t)]
    BY ConcatProperties
  <1>2. Len(t) \in Nat
    BY LenProperties
  <1> HIDE DEF u
  <1>3. ASSUME NEW k \in 1..(Len(t) + 4) PROVE u[k] = e[k]
    <2>1. CASE k <= Len(t)
      BY <1>1, <1>2, <2>1 DEF Begins
    <2>2. CASE ~(k <= Len(t))
      <3>1. k - Len(t) \in 1..4 /\ Len(t) + (k - Len(t)) = k /\ k \in 1..(Len(t) + Len(w))
        BY <1>2, <2>2
      <3> QED BY <1>1, <2>2, <3>1 DEF Continues
    <2> QED BY <2>1, <2>2
  <1>4. Len(u) = Len(t) + 4
    BY <1>1
  <1>5. Begins(u, e)
    BY <1>3, <1>4 DEF Begins
  <1> QED BY <1>1, <1>4, <1>5 DEF u

(* What is due next, when q quanta are written.                            *)
LEMMA DigitsDue ==
    ASSUME NEW s \in Seq(Octets), NEW q \in Nat, NEW m \in Nat \ {0}, Len(s) = 3 * q + m
    PROVE  /\ \A k \in 1..4 : Encoding(s)[4 * q + k] =
                IF m > 2 \/ k <= m + 1 THEN DigitOf(s, 4 * q + k) ELSE Pad
           /\ 4 * ((Len(s) + 2) \div 3) >= 4 * q + 4
           /\ m \in {1, 2} => 4 * ((Len(s) + 2) \div 3) = 4 * q + 4
           /\ Len(Encoding(s)) = 4 * ((Len(s) + 2) \div 3)
  <1>0. Len(s) \in Nat
    BY LenProperties
  <1>1. PICK p \in Nat, r \in 0..2 : Len(s) = 3 * p + r
    BY <1>0, Quanta
  <1> DEFINE all == IF r = 0 THEN 4 * p ELSE 4 * p + 4
             digits == IF r = 0 THEN 4 * p ELSE 4 * p + r + 1
  <1>2. /\ Len(Encoding(s)) = all
        /\ \A k \in 1..Len(Encoding(s)) :
                Encoding(s)[k] = IF k <= digits THEN DigitOf(s, k) ELSE Pad
    BY <1>1, EncodingIs
  <1>3. 4 * ((Len(s) + 2) \div 3) = all
    BY <1>1, Lengths
  <1>4. 3 * p + r = 3 * q + m
    BY <1>1
  <1>5. ASSUME NEW k \in 1..4
        PROVE  4 * q + k \in 1..all /\ (4 * q + k <= digits <=> m > 2 \/ k <= m + 1)
    BY ONLY <1>4, <1>5, p \in Nat, r \in 0..2, q \in Nat, m \in Nat \ {0}
  <1>6. all >= 4 * q + 4 /\ (m \in {1, 2} => all = 4 * q + 4)
    BY <1>4
  <1> HIDE DEF all, digits
  <1>7. ASSUME NEW k \in 1..4
        PROVE  Encoding(s)[4 * q + k] =
                IF m > 2 \/ k <= m + 1 THEN DigitOf(s, 4 * q + k) ELSE Pad
    BY <1>2, <1>5
  <1> QED BY <1>2, <1>3, <1>6, <1>7

LEMMA QuantumStep ==
    ASSUME Base64Inv, Quantum
    PROVE  Base64Inv'
  <1>1. /\ job = "ntop" /\ result = Running /\ Len(source) > 2 /\ Conversion /\ Encodes
        /\ source' = SubSeq(source, 4, Len(source))
        /\ UNCHANGED <<job, given, size, state, tarindex, encoded>>
        /\ Written(Output(source[1], source[2], source[3]))
    BY DEF Base64Inv, Quantum
  <1>2. /\ given \in Seq(Octets) /\ source \in Seq(Octets) /\ target \in Seq(0..64)
        /\ size \in Nat /\ encoded = Nothing /\ tarindex \in Nat /\ state \in 0..3
    BY <1>1 DEF Conversion
  <1>3. Len(source) \in Nat /\ Len(given) \in Nat /\ Len(target) \in Nat
    BY <1>2, LenProperties
  <1>4. source # <<>>
    BY <1>1, <1>3, EmptySeq
  <1>5. PICK q \in Nat : Len(target) = 4 * q /\ 3 * q + Len(source) = Len(given)
    BY <1>1, <1>4 DEF Encodes
  <1>6. /\ source' \in Seq(Octets) /\ Len(source') = Len(source) - 3
        /\ IsRestOf(source', given)
    BY <1>1, <1>2, CutIsRest DEF Encodes
  <1>7. \A k \in 1..3 : source[k] = ByteOf(given, 3 * q + k)
    <2> TAKE k \in 1..3
    <2>1. k \in 1..Len(source) /\ Len(given) - Len(source) + k = 3 * q + k /\ 3 * q + k <= Len(given)
      BY <1>1, <1>3, <1>5
    <2> QED BY <1>1, <2>1 DEF Encodes, IsRestOf, ByteOf
  <1> DEFINE w == Output(source[1], source[2], source[3])
  <1>8. /\ w = <<DigitOf(given, 4 * q + 1), DigitOf(given, 4 * q + 2),
                 DigitOf(given, 4 * q + 3), DigitOf(given, 4 * q + 4)>>
    BY <1>7, DigitsOfQuantum DEF Output
  <1>9. \A k \in 1..4 : Encoding(given)[4 * q + k] = DigitOf(given, 4 * q + k)
        /\ EncodedLength >= 4 * q + 4
    <2> DEFINE m == Len(source)
    <2>1. m \in Nat \ {0} /\ m > 2 /\ Len(given) = 3 * q + m
      BY <1>1, <1>3, <1>5
    <2> HIDE DEF m
    <2>2. /\ \A k \in 1..4 : Encoding(given)[4 * q + k] =
                IF m > 2 \/ k <= m + 1 THEN DigitOf(given, 4 * q + k) ELSE Pad
          /\ 4 * ((Len(given) + 2) \div 3) >= 4 * q + 4
      BY <1>2, <2>1, DigitsDue
    <2> QED BY <2>1, <2>2 DEF EncodedLength
  <1>10. \A k \in 1..4 : DigitOf(given, 4 * q + k) \in 0..63
    <2> TAKE k \in 1..4
    <2>1. 4 * q + k \in Nat \ {0} OBVIOUS
    <2> QED BY <1>2, <2>1, DigitsAreDigits DEF Digits
  <1>11. w \in Seq(0..64) /\ Len(w) = 4 /\ Continues(w, Encoding(given), Len(target))
    <2>1. /\ DigitOf(given, 4 * q + 1) \in 0..64 /\ DigitOf(given, 4 * q + 2) \in 0..64
          /\ DigitOf(given, 4 * q + 3) \in 0..64 /\ DigitOf(given, 4 * q + 4) \in 0..64
      BY <1>10
    <2> HIDE DEF w
    <2>2. w \in Seq(0..64) /\ Len(w) = 4 /\ \A k \in 1..4 : w[k] = DigitOf(given, 4 * q + k)
      BY <2>1, <1>8
    <2> QED BY <2>2, <1>5, <1>9 DEF Continues
  <1>12. EncodedLength' = EncodedLength /\ Encoding(given)' = Encoding(given)
    BY <1>1 DEF EncodedLength
  <1>13. CASE Len(target) + 4 > size
    <2>1. result' = -1 /\ target' = target
      BY <1>1, <1>13 DEF Written
    <2>2. Encoded'
      <3>1. ~(EncodedLength < size) /\ Len(target) <= size
        BY <1>1, <1>2, <1>3, <1>5, <1>9, <1>13 DEF Encodes, EncodedLength
      <3> QED BY <2>1, <3>1, <1>1, <1>12 DEF Encoded
    <2>3. Conversion'
      BY <1>1, <1>2, <1>6, <2>1 DEF Conversion
    <2> QED BY <1>1, <2>1, <2>2, <2>3 DEF Base64Inv, Running
  <1>14. CASE ~(Len(target) + 4 > size)
    <2>1. result' = Running /\ target' = target \o w
      BY <1>1, <1>14 DEF Written
    <2> HIDE DEF w
    <2>2. /\ target' \in Seq(0..64) /\ Len(target') = Len(target) + 4
          /\ Begins(target', Encoding(given))
      BY <1>1, <1>2, <1>11, <2>1, QuantumWritten DEF Encodes
    <2>3. Encodes'
      <3>1. q + 1 \in Nat /\ Len(target') = 4 * (q + 1) /\ 3 * (q + 1) + Len(source') = Len(given)
            /\ Len(target') <= size
        <4> DEFINE a == Len(target)
                   b == Len(source)
                   c == Len(given)
                   v == Len(target')
                   x == Len(source')
        <4>1. /\ a = 4 * q /\ 3 * q + b = c /\ v = a + 4 /\ x = b - 3 /\ ~(a + 4 > size)
              /\ a \in Nat /\ b \in Nat /\ c \in Nat /\ size \in Nat
          BY <1>2, <1>3, <1>5, <1>6, <1>14, <2>2
        <4> HIDE DEF a, b, c, v, x
        <4>2. q + 1 \in Nat /\ v = 4 * (q + 1) /\ 3 * (q + 1) + x = c /\ v <= size
          BY ONLY <4>1, q \in Nat
        <4> QED BY <4>2 DEF v, x, c
      <3>2. \E p \in Nat : Len(target') = 4 * p /\ 3 * p + Len(source') = Len(given)
        BY <3>1
      <3> QED BY <1>1, <1>6, <1>12, <2>2, <3>1, <3>2 DEF Encodes, IsRestOf, Begins
    <2>4. Conversion'
      BY <1>1, <1>2, <1>6, <2>1, <2>2 DEF Conversion
    <2> QED BY <1>1, <2>1, <2>3, <2>4 DEF Base64Inv
  <1> QED BY <1>13, <1>14

LEMMA PaddedStep ==
    ASSUME Base64Inv, Padded
    PROVE  Base64Inv'
  <1> DEFINE m == Len(source)
             w == LET output == Output(source[1], IF m = 2 THEN source[2] ELSE 0, 0)
                  IN <<output[1], output[2], IF m = 1 THEN Pad ELSE output[3], Pad>>
  <1>1. /\ job = "ntop" /\ result = Running /\ m \in {1, 2} /\ Conversion /\ Encodes
        /\ source' = <<>> /\ Written(w)
        /\ UNCHANGED <<job, given, size, state, tarindex, encoded>>
    BY DEF Base64Inv, Padded
  <1>2. /\ given \in Seq(Octets) /\ source \in Seq(Octets) /\ target \in Seq(0..64)
        /\ size \in Nat /\ encoded = Nothing /\ tarindex \in Nat /\ state \in 0..3
    BY <1>1 DEF Conversion
  <1>3. m \in Nat /\ Len(given) \in Nat /\ Len(target) \in Nat /\ source # <<>>
    BY <1>1, <1>2, LenProperties, EmptySeq
  <1>4. PICK q \in Nat : Len(target) = 4 * q /\ 3 * q + m = Len(given)
    BY <1>1, <1>3 DEF Encodes
  <1>5. /\ ByteOf(given, 3 * q + 1) = source[1]
        /\ ByteOf(given, 3 * q + 2) = IF m = 2 THEN source[2] ELSE 0
        /\ ByteOf(given, 3 * q + 3) = 0
    <2>1. \A k \in 1..m : source[k] = given[3 * q + k]
      <3> TAKE k \in 1..m
      <3>1. Len(given) - Len(source) + k = 3 * q + k
        BY <1>3, <1>4
      <3> QED BY <1>1, <3>1 DEF Encodes, IsRestOf
    <2> HIDE DEF m
    <2>2. source[1] = given[3 * q + 1] /\ (m = 2 => source[2] = given[3 * q + 2])
      BY <2>1, <1>1
    <2>3. /\ 3 * q + 1 <= Len(given) /\ (3 * q + 2 <= Len(given) <=> m = 2)
          /\ ~(3 * q + 3 <= Len(given))
      BY <1>1, <1>4
    <2> QED BY <2>2, <2>3 DEF ByteOf
  <1>6. w = <<DigitOf(given, 4 * q + 1), DigitOf(given, 4 * q + 2),
              IF m = 1 THEN Pad ELSE DigitOf(given, 4 * q + 3), Pad>>
    <2> HIDE DEF m
    <2> QED BY <1>5, DigitsOfQuantum DEF Output
  <1>7. /\ \A k \in 1..4 : Encoding(given)[4 * q + k] =
                IF k <= m + 1 THEN DigitOf(given, 4 * q + k) ELSE Pad
        /\ EncodedLength = 4 * q + 4
    <2> HIDE DEF m
    <2>1. m \in Nat \ {0} /\ Len(given) = 3 * q + m /\ ~(m > 2)
      BY <1>1, <1>4
    <2>2. /\ \A k \in 1..4 : Encoding(given)[4 * q + k] =
                IF m > 2 \/ k <= m + 1 THEN DigitOf(given, 4 * q + k) ELSE Pad
          /\ (m \in {1, 2} => 4 * ((Len(given) + 2) \div 3) = 4 * q + 4)
      BY <1>2, <2>1, DigitsDue
    <2> QED BY <1>1, <2>1, <2>2 DEF EncodedLength
  <1>8. w \in Seq(0..64) /\ Len(w) = 4 /\ Continues(w, Encoding(given), Len(target))
    <2>1. \A k \in 1..4 : DigitOf(given, 4 * q + k) \in 0..64
      <3> TAKE k \in 1..4
      <3>1. 4 * q + k \in Nat \ {0} OBVIOUS
      <3>2. DigitOf(given, 4 * q + k) \in 0..63
        BY <1>2, <3>1, DigitsAreDigits DEF Digits
      <3> QED BY <3>2
    <2>2. /\ DigitOf(given, 4 * q + 1) \in 0..64 /\ DigitOf(given, 4 * q + 2) \in 0..64
          /\ DigitOf(given, 4 * q + 3) \in 0..64 /\ Pad \in 0..64
      BY <2>1 DEF Pad
    <2> HIDE DEF w, m
    <2>3. w \in Seq(0..64) /\ Len(w) = 4
      BY <2>2, <1>6
    <2>4. /\ w[1] = DigitOf(given, 4 * q + 1) /\ w[2] = DigitOf(given, 4 * q + 2)
          /\ w[3] = (IF m = 1 THEN Pad ELSE DigitOf(given, 4 * q + 3)) /\ w[4] = Pad
      BY <1>6
    <2>5. \A k \in 1..4 : w[k] = IF k <= m + 1 THEN DigitOf(given, 4 * q + k) ELSE Pad
      BY <2>4, <1>1
    <2> QED BY <2>3, <2>5, <1>4, <1>7 DEF Continues
  <1>9. EncodedLength' = EncodedLength /\ Encoding(given)' = Encoding(given)
    BY <1>1 DEF EncodedLength
  <1> HIDE DEF w
  <1>10. source' \in Seq(Octets) /\ Len(source') = 0
    BY <1>1
  <1>11. CASE Len(target) + 4 > size
    <2>1. result' = -1 /\ target' = target
      BY <1>1, <1>11 DEF Written
    <2>2. Encoded'
      <3>1. ~(EncodedLength < size) /\ Len(target) <= size
        BY <1>1, <1>2, <1>3, <1>4, <1>7, <1>11 DEF Encodes
      <3> QED BY <2>1, <3>1, <1>1, <1>9 DEF Encoded
    <2>3. Conversion'
      BY <1>1, <1>2, <1>10, <2>1 DEF Conversion
    <2> QED BY <1>1, <2>1, <2>2, <2>3 DEF Base64Inv, Running
  <1>12. CASE ~(Len(target) + 4 > size)
    <2>1. result' = Running /\ target' = target \o w
      BY <1>1, <1>12 DEF Written
    <2>2. /\ target' \in Seq(0..64) /\ Len(target') = Len(target) + 4
          /\ Begins(target', Encoding(given))
      BY <1>1, <1>2, <1>8, <2>1, QuantumWritten DEF Encodes
    <2>3. Encodes'
      <3>1. Len(target') = EncodedLength /\ Len(target') <= size
        BY <1>2, <1>3, <1>4, <1>7, <1>12, <2>2
      <3>2. IsRestOf(source', given')
        BY <1>1, <1>3, <1>10 DEF IsRestOf
      <3> QED BY <1>1, <1>9, <2>2, <3>1, <3>2 DEF Encodes, Begins
    <2>4. Conversion'
      BY <1>1, <1>2, <1>10, <2>1, <2>2 DEF Conversion
    <2> QED BY <1>1, <2>1, <2>3, <2>4 DEF Base64Inv
  <1> QED BY <1>11, <1>12

LEMMA EncodingLength ==
    ASSUME NEW s \in Seq(Octets)
    PROVE  /\ Encoding(s) \in Seq(0..64)
           /\ Len(Encoding(s)) = 4 * ((Len(s) + 2) \div 3)
           /\ Len(s) \in Nat
  <1>1. Len(s) \in Nat
    BY LenProperties
  <1>2. PICK q \in Nat, r \in 0..2 : Len(s) = 3 * q + r
    BY <1>1, Quanta
  <1>3. Encoding(s) \in Seq(0..64) /\ Len(Encoding(s)) = IF r = 0 THEN 4 * q ELSE 4 * q + 4
    BY <1>2, EncodingIs
  <1>4. (Len(s) + 2) \div 3 = IF r = 0 THEN q ELSE q + 1
    BY <1>1, <1>2, Lengths
  <1> QED BY <1>1, <1>3, <1>4

LEMMA TerminateStep ==
    ASSUME Base64Inv, Terminate
    PROVE  Base64Inv'
  <1>1. /\ job = "ntop" /\ result = Running /\ source = <<>> /\ Conversion /\ Encodes
        /\ result' = IF Len(target) >= size THEN -1 ELSE Len(target)
        /\ UNCHANGED <<job, given, size, source, target, state, tarindex, encoded>>
    BY DEF Base64Inv, Terminate
  <1>2. /\ given \in Seq(Octets) /\ source \in Seq(Octets) /\ target \in Seq(0..64)
        /\ size \in Nat /\ encoded = Nothing /\ tarindex \in Nat /\ state \in 0..3
    BY <1>1 DEF Conversion
  <1>3. Len(target) \in Nat /\ Len(given) \in Nat /\ Len(source) = 0
    BY <1>1, <1>2, LenProperties
  <1>4. Len(target) = EncodedLength
    <2>1. ASSUME NEW q \in Nat, Len(target) = 4 * q, 3 * q + Len(source) = Len(given)
          PROVE  Len(target) = EncodedLength
      <3>1. Len(given) = 3 * q + 0
        BY <1>3, <2>1
      <3>2. (Len(given) + 2) \div 3 = q
        BY <1>3, <3>1, Lengths
      <3> QED BY <2>1, <3>2 DEF EncodedLength
    <2> QED BY <1>1, <2>1 DEF Encodes
  <1>5. target = Encoding(given)
    <2>1. Encoding(given) \in Seq(0..64) /\ Len(Encoding(given)) = Len(target)
      BY <1>2, <1>4, EncodingLength DEF EncodedLength
    <2>2. \A k \in 1..Len(target) : target[k] = Encoding(given)[k]
      BY <1>1 DEF Encodes, Begins
    <2> QED BY <1>2, <2>1, <2>2, SeqEqual
  <1>6. EncodedLength' = EncodedLength /\ Encoding(given)' = Encoding(given)
    BY <1>1 DEF EncodedLength
  <1>7. result' # Running /\ result' \in Nat \cup {-1}
    BY <1>1, <1>3 DEF Running
  <1>8. Encoded'
    <2>1. Len(target) <= size
      BY <1>1 DEF Encodes
    <2>2. result' = IF EncodedLength < size THEN EncodedLength ELSE -1
      BY <1>1, <1>2, <1>3, <1>4
    <2> QED BY <1>1, <1>5, <1>6, <2>1, <2>2 DEF Encoded
  <1>9. Conversion'
    BY <1>1, <1>2, <1>7 DEF Conversion
  <1> QED BY <1>1, <1>7, <1>8, <1>9 DEF Base64Inv

(* Nothing is read yet.                                                    *)
LEMMA Afresh ==
    ASSUME Conversion', job' = "pton", source' = given', result' = Running,
           target' = <<>>, state' = 0, tarindex' = 0,
           encoded' # Nothing => encoded' \in Seq(Octets) /\ given' = Encoding(encoded')
    PROVE  Base64Inv'
  <1>1. given' \in Seq(0..66) /\ Len(given') \in Nat
    BY LenProperties DEF Conversion
  <1>2. IsRestOf(source', given') /\ Consumed' = 0
    BY <1>1 DEF IsRestOf, Consumed
  <1>3. Decodes(0)'
    BY <1>2, FirstPlace DEF Decodes, Past
  <1>4. ASSUME encoded' # Nothing PROVE Restores(0)'
    <2>1. Len(encoded') \in Nat
      BY <1>4, LenProperties
    <2>2. (8 * Len(encoded') + 5) \div 6 \in Nat
      BY <2>1
    <2> QED BY <1>2, <1>4, <2>1, <2>2 DEF Restores
  <1>5. size' # Unlimited => Fills'
    <2>1. Len(target') = 0
      OBVIOUS
    <2> QED BY <2>1 DEF Conversion, Fills
  <1>6. \E q \in Nat : Decodes(q)' /\ (encoded' # Nothing => Restores(q)')
    BY <1>3, <1>4
  <1> QED BY <1>5, <1>6 DEF Base64Inv

-----------------------------------------------------------------------------
(* b64_pton begins.                                                        *)

LEMMA DecodeAgainStep ==
    ASSUME Base64Inv, DecodeAgain
    PROVE  Base64Inv'
  <1>1. /\ job = "ntop" /\ result >= 0 /\ Conversion
        /\ \E z \in Sizes : Convert("pton", target, z, given)
    BY DEF Base64Inv, DecodeAgain
  <1>2. PICK z \in Sizes : Convert("pton", target, z, given)
    BY <1>1
  <1>3. /\ job' = "pton" /\ given' = target /\ size' = z /\ source' = target
        /\ encoded' = given /\ target' = <<>> /\ state' = 0 /\ tarindex' = 0
        /\ result' = Running
    BY <1>2 DEF Convert
  <1>4. given \in Seq(Octets) /\ target \in Seq(0..64)
    BY <1>1 DEF Conversion
  <1>5. target = Encoding(given)
    <2>1. result # Running
      BY <1>1 DEF Running
    <2> QED BY <1>1, <2>1 DEF Base64Inv, Encoded
  <1>6. target \in Seq(0..66)
    BY <1>4, SeqMonotonic
  <1>7. z \in Nat \cup {Unlimited}
    BY SizesAreSizes
  <1>8. Conversion'
    BY <1>3, <1>4, <1>6, <1>7 DEF Conversion, Running
  <1> QED BY <1>3, <1>4, <1>5, <1>8, Afresh

LEMMA Base64Init == ASSUME InitBase64 PROVE Base64Inv
  <1>1. /\ size \in Nat \cup {Unlimited} /\ (job = "ntop" => size # Unlimited)
        /\ source = given /\ encoded = Nothing
        /\ target = <<>> /\ state = 0 /\ tarindex = 0 /\ result = Running
    BY SizesAreSizes DEF InitBase64
  <1>2. CASE job = "ntop" /\ given \in Inputs
    <2>1. given \in Seq(Octets) /\ size \in Nat /\ Len(given) \in Nat
      BY <1>1, <1>2, InputsAreBytes, LenProperties DEF Octets
    <2>2. Conversion
      BY <1>1, <1>2, <2>1 DEF Conversion
    <2>3. Encodes
      <3>1. IsRestOf(source, given)
        BY <1>1, <2>1 DEF IsRestOf
      <3>2. Len(target) = 4 * 0 /\ 3 * 0 + Len(source) = Len(given)
        BY <1>1, <2>1
      <3>3. Begins(target, Encoding(given)) /\ Len(target) <= size
        BY <1>1, <2>1 DEF Begins
      <3> QED BY <3>1, <3>2, <3>3 DEF Encodes
    <2> QED BY <1>1, <1>2, <2>2, <2>3 DEF Base64Inv
  <1>3. CASE job = "pton" /\ given \in Sources
    <2>1. given \in Seq(0..66) /\ Len(given) \in Nat
      BY <1>3, SourcesAreCharacters, LenProperties
    <2>2. Conversion
      BY <1>1, <1>3, <2>1 DEF Conversion
    <2>3. Decodes(0)
      <3>1. IsRestOf(source, given) /\ Consumed = 0
        BY <1>1, <2>1 DEF IsRestOf, Consumed
      <3> QED BY <1>1, <3>1, FirstPlace DEF Decodes, Past
    <2>4. size # Unlimited => Fills
      <3>1. Len(target) = 0
        BY <1>1
      <3> QED BY <1>1, <3>1 DEF Fills
    <2> QED BY <1>1, <1>3, <2>2, <2>3, <2>4 DEF Base64Inv
  <1> QED BY <1>2, <1>3 DEF InitBase64

-----------------------------------------------------------------------------
(* A digit.  Decoded gives the bytes as follows.                           *)

Grown(t, d) ==
    /\ t \in Seq(Octets)
    /\ Len(t) = tarindex + (IF state \in {1, 2} THEN 2 ELSE 1)
    /\ \A k \in 1..tarindex : t[k] = target[k]
    /\ state = 0 => t[tarindex + 1] = d * 4
    /\ state = 1 => /\ t[tarindex + 1] = target[tarindex + 1] + (d \div 16)
                    /\ t[tarindex + 2] = (d % 16) * 16
    /\ state = 2 => /\ t[tarindex + 1] = target[tarindex + 1] + (d \div 4)
                    /\ t[tarindex + 2] = (d % 4) * 64
    /\ state = 3 => t[tarindex + 1] = target[tarindex + 1] + d

LEMMA GrowsByOne ==
    ASSUME NEW s \in Seq(Octets), NEW num \in Nat, num <= Len(s), NEW b \in Octets
    PROVE  LET t == Append(SubSeq(s, 1, num), b)
           IN /\ t \in Seq(Octets) /\ Len(t) = num + 1 /\ t[num + 1] = b
              /\ \A k \in 1..num : t[k] = s[k]
  <1>1. Len(s) \in Nat
    BY LenProperties
  <1> DEFINE p == SubSeq(s, 1, num)
  <1>2. \A k \in 1..num : s[k] \in Octets
    BY <1>1, ElementOfSeq
  <1>3. /\ p \in Seq(Octets) /\ Len(p) = num
        /\ \A k \in 1..num : p[k] = s[k]
    BY <1>2, SubSeqProperties
  <1> HIDE DEF p
  <1>4. /\ Append(p, b) \in Seq(Octets) /\ Len(Append(p, b)) = num + 1
        /\ Append(p, b)[num + 1] = b /\ \A k \in 1..num : Append(p, b)[k] = p[k]
    BY <1>3, AppendProperties
  <1> QED BY <1>3, <1>4 DEF p

LEMMA GrowsByTwo ==
    ASSUME NEW s \in Seq(Octets), NEW num \in Nat, num <= Len(s), NEW b \in Octets, NEW c \in Octets
    PROVE  LET t == SubSeq(s, 1, num) \o <<b, c>>
           IN /\ t \in Seq(Octets) /\ Len(t) = num + 2 /\ t[num + 1] = b /\ t[num + 2] = c
              /\ \A k \in 1..num : t[k] = s[k]
  <1>1. Len(s) \in Nat
    BY LenProperties
  <1> DEFINE p == SubSeq(s, 1, num)
             w == <<b, c>>
  <1>2. \A k \in 1..num : s[k] \in Octets
    BY <1>1, ElementOfSeq
  <1>3. /\ p \in Seq(Octets) /\ Len(p) = num
        /\ \A k \in 1..num : p[k] = s[k]
    BY <1>2, SubSeqProperties
  <1>4. w \in Seq(Octets) /\ Len(w) = 2 /\ w[1] = b /\ w[2] = c
    OBVIOUS
  <1> DEFINE u == p \o w
  <1> HIDE DEF p, w
  <1>5. /\ u \in Seq(Octets) /\ Len(u) = Len(p) + Len(w)
        /\ \A k \in 1..(Len(p) + Len(w)) : u[k] = IF k <= Len(p) THEN p[k] ELSE w[k - Len(p)]
    BY <1>3, <1>4, ConcatProperties
  <1> HIDE DEF u
  <1>6. u[num + 1] = b /\ u[num + 2] = c /\ Len(u) = num + 2
    <2>1. num + 1 \in 1..(num + 2) /\ num + 2 \in 1..(num + 2) /\ (num + 1) - num = 1 /\ (num + 2) - num = 2
          /\ ~(num + 1 <= num) /\ ~(num + 2 <= num)
      OBVIOUS
    <2> QED BY <1>3, <1>4, <1>5, <2>1
  <1>7. \A k \in 1..num : u[k] = p[k]
    BY <1>3, <1>4, <1>5
  <1> QED BY <1>3, <1>5, <1>6, <1>7 DEF u, p, w

LEMMA DecodedCases ==
    ASSUME state \in 0..3, NEW d
    PROVE  LET kept == SubSeq(target, 1, tarindex)
           IN /\ state = 0 => Decoded(d) = Append(kept, d * 4)
              /\ state = 1 => Decoded(d) = kept \o <<Byte(tarindex) + (d \div 16), (d % 16) * 16>>
              /\ state = 2 => Decoded(d) = kept \o <<Byte(tarindex) + (d \div 4), (d % 4) * 64>>
              /\ state = 3 => Decoded(d) = Append(kept, Byte(tarindex) + d)
  <1> DEFINE kept == SubSeq(target, 1, tarindex)
             a == Append(kept, d * 4)
             b == kept \o <<Byte(tarindex) + (d \div 16), (d % 16) * 16>>
             c == kept \o <<Byte(tarindex) + (d \div 4), (d % 4) * 64>>
             e == Append(kept, Byte(tarindex) + d)
  <1>1. Decoded(d) = CASE state = 0 -> a [] state = 1 -> b [] state = 2 -> c [] state = 3 -> e
    BY Zenon DEF Decoded
  <1> HIDE DEF a, b, c, e
  <1>2. /\ state = 0 => Decoded(d) = a
        /\ state = 1 => Decoded(d) = b
        /\ state = 2 => Decoded(d) = c
        /\ state = 3 => Decoded(d) = e
    BY <1>1, SMT
  <1> QED BY <1>2, Zenon DEF a, b, c, e

LEMMA DecodedGrows ==
    ASSUME Conversion, job = "pton", Fills, size # Unlimited, NEW d \in Digits
    PROVE  Grown(Decoded(d), d)
  <1>1. /\ target \in Seq(Octets) /\ tarindex \in Nat /\ state \in 0..3
        /\ Len(target) = tarindex + (IF state = 0 THEN 0 ELSE 1) /\ tarindex <= Len(target)
        /\ d \in 0..63
    BY DEF Conversion, Fills, Digits
  <1>2. CASE state = 0
    <2>1. d * 4 \in Octets BY <1>1 DEF Octets
    <2>2. Decoded(d) = Append(SubSeq(target, 1, tarindex), d * 4)
      BY <1>1, <1>2, DecodedCases
    <2> QED BY <1>1, <1>2, <2>1, <2>2, GrowsByOne DEF Grown
  <1>3. ASSUME state # 0
        PROVE  /\ Byte(tarindex) = target[tarindex + 1] /\ target[tarindex + 1] \in 0..255
    <2>1. tarindex < Len(target) /\ tarindex + 1 \in 1..Len(target)
      BY <1>1, <1>3
    <2> QED BY <1>1, <2>1, ElementOfSeq DEF Byte, Octets
  <1> DEFINE b == target[tarindex + 1]
  <1>4. CASE state = 1
    <2>0. b \in 0..255 /\ b % 4 = 0 BY <1>3, <1>4 DEF Fills
    <2> HIDE DEF b
    <2>1. b + (d \div 16) \in Octets /\ (d % 16) * 16 \in Octets
      BY ONLY <2>0, <1>1 DEF Octets
    <2>2. Decoded(d) = SubSeq(target, 1, tarindex) \o <<b + (d \div 16), (d % 16) * 16>>
      <3>1. Byte(tarindex) = b
        BY <1>3, <1>4 DEF b
      <3>2. Decoded(d) = SubSeq(target, 1, tarindex) \o <<Byte(tarindex) + (d \div 16), (d % 16) * 16>>
        BY ONLY <1>1, <1>4, DecodedCases, Zenon
      <3> QED BY ONLY <3>1, <3>2, Zenon
    <2>3. /\ Decoded(d) \in Seq(Octets) /\ Len(Decoded(d)) = tarindex + 2
          /\ Decoded(d)[tarindex + 1] = b + (d \div 16) /\ Decoded(d)[tarindex + 2] = (d % 16) * 16
          /\ \A k \in 1..tarindex : Decoded(d)[k] = target[k]
      BY <1>1, <2>1, <2>2, GrowsByTwo
    <2> QED BY <1>4, <2>3 DEF Grown, b
  <1>5. CASE state = 2
    <2>0. b \in 0..255 /\ b % 16 = 0 BY <1>3, <1>5 DEF Fills
    <2> HIDE DEF b
    <2>1. b + (d \div 4) \in Octets /\ (d % 4) * 64 \in Octets
      BY ONLY <2>0, <1>1 DEF Octets
    <2>2. Decoded(d) = SubSeq(target, 1, tarindex) \o <<b + (d \div 4), (d % 4) * 64>>
      <3>1. Byte(tarindex) = b
        BY <1>3, <1>5 DEF b
      <3>2. Decoded(d) = SubSeq(target, 1, tarindex) \o <<Byte(tarindex) + (d \div 4), (d % 4) * 64>>
        BY ONLY <1>1, <1>5, DecodedCases, Zenon
      <3> QED BY ONLY <3>1, <3>2, Zenon
    <2>3. /\ Decoded(d) \in Seq(Octets) /\ Len(Decoded(d)) = tarindex + 2
          /\ Decoded(d)[tarindex + 1] = b + (d \div 4) /\ Decoded(d)[tarindex + 2] = (d % 4) * 64
          /\ \A k \in 1..tarindex : Decoded(d)[k] = target[k]
      BY <1>1, <2>1, <2>2, GrowsByTwo
    <2> QED BY <1>5, <2>3 DEF Grown, b
  <1>6. CASE state = 3
    <2>0. b \in 0..255 /\ b % 64 = 0 BY <1>3, <1>6 DEF Fills
    <2> HIDE DEF b
    <2>1. b + d \in Octets
      BY ONLY <2>0, <1>1 DEF Octets
    <2>2. Decoded(d) = Append(SubSeq(target, 1, tarindex), b + d)
      BY <1>1, <1>3, <1>6, <2>0, DecodedCases DEF b
    <2>3. /\ Decoded(d) \in Seq(Octets) /\ Len(Decoded(d)) = tarindex + 1
          /\ Decoded(d)[tarindex + 1] = b + d
          /\ \A k \in 1..tarindex : Decoded(d)[k] = target[k]
      BY <1>1, <2>1, <2>2, GrowsByOne
    <2> QED BY <1>6, <2>3 DEF Grown, b
  <1> QED BY <1>1, <1>2, <1>4, <1>5, <1>6

Advances ==
    /\ state' = (state + 1) % 4
    /\ tarindex' = IF state = 0 THEN tarindex ELSE tarindex + 1
    /\ UNCHANGED <<job, given, size, encoded>>

LEMMA AdvancesTo ==
    ASSUME Conversion, Advances
    PROVE  /\ state = 0 => state' = 1 /\ tarindex' = tarindex
           /\ state = 1 => state' = 2 /\ tarindex' = tarindex + 1
           /\ state = 2 => state' = 3 /\ tarindex' = tarindex + 1
           /\ state = 3 => state' = 0 /\ tarindex' = tarindex + 1
           /\ state' \in 0..3 /\ tarindex' \in Nat
  BY DEF Conversion, Advances

LEMMA GrownFills ==
    ASSUME Conversion, job = "pton", Fills, size # Unlimited, Room, NEW d \in Digits,
           Advances, Grown(target', d)
    PROVE  Fills' /\ target' \in Seq(Octets)
  <1>1. /\ tarindex \in Nat /\ state \in 0..3 /\ size \in Nat /\ size' = size /\ d \in 0..63
    BY DEF Conversion, Advances, Digits
  <1>2. /\ IF state \in {1, 2} THEN tarindex + 1 < size ELSE tarindex < size
    BY DEF Room
  <1>3. /\ target' \in Seq(Octets)
        /\ Len(target') = tarindex + (IF state \in {1, 2} THEN 2 ELSE 1)
    BY DEF Grown
  <1>4. CASE state = 0
    <2>1. target'[tarindex + 1] = d * 4 /\ Len(target') = tarindex + 1
      BY <1>3, <1>4 DEF Grown
    <2> QED BY <1>1, <1>2, <1>3, <1>4, <2>1, AdvancesTo DEF Fills
  <1>5. CASE state = 1
    <2>1. target'[tarindex + 2] = (d % 16) * 16 /\ Len(target') = tarindex + 2
      BY <1>3, <1>5 DEF Grown
    <2>2. state' = 2 /\ tarindex' = tarindex + 1 /\ tarindex' + 1 = tarindex + 2
      BY <1>1, <1>5, AdvancesTo
    <2>3. ((d % 16) * 16) % 16 = 0
      BY <1>1
    <2> QED BY <1>1, <1>2, <1>3, <1>5, <2>1, <2>2, <2>3 DEF Fills
  <1>6. CASE state = 2
    <2>1. target'[tarindex + 2] = (d % 4) * 64 /\ Len(target') = tarindex + 2
      BY <1>3, <1>6 DEF Grown
    <2>2. state' = 3 /\ tarindex' = tarindex + 1 /\ tarindex' + 1 = tarindex + 2
      BY <1>1, <1>6, AdvancesTo
    <2>3. ((d % 4) * 64) % 64 = 0
      BY <1>1
    <2> QED BY <1>1, <1>2, <1>3, <1>6, <2>1, <2>2, <2>3 DEF Fills
  <1>7. CASE state = 3
    <2>1. Len(target') = tarindex + 1
      BY <1>3, <1>7
    <2>2. state' = 0 /\ tarindex' = tarindex + 1
      BY <1>1, <1>7, AdvancesTo
    <2> QED BY <1>1, <1>2, <1>3, <1>7, <2>1, <2>2 DEF Fills
  <1> QED BY <1>1, <1>3, <1>4, <1>5, <1>6, <1>7

(* The digits that were read stay what they are, and the new one is next.  *)
LEMMA GrownDigits ==
    ASSUME Conversion, job = "pton", Fills, NEW d \in Digits, NEW t, Grown(t, d),
           NEW q \in Nat, tarindex = 3 * q + Past
    PROVE  /\ \A k \in 1..(4 * q + state) : DigitOf(t, k) = DigitOf(target, k)
           /\ DigitOf(t, 4 * q + state + 1) = d
  <1>1. /\ target \in Seq(Octets) /\ tarindex \in Nat /\ state \in 0..3 /\ d \in 0..63
        /\ Len(target) = tarindex + (IF state = 0 THEN 0 ELSE 1)
        /\ t \in Seq(Octets) /\ Len(t) = tarindex + (IF state \in {1, 2} THEN 2 ELSE 1)
        /\ \A k \in 1..tarindex : t[k] = target[k]
    BY DEF Conversion, Fills, Digits, Grown
  <1>2. \A k \in 1..tarindex : ByteOf(t, k) = ByteOf(target, k)
    BY <1>1 DEF ByteOf
  <1>3. ASSUME NEW k \in 1..(4 * q) PROVE DigitOf(t, k) = DigitOf(target, k)
    <2>1. k \in Nat \ {0} /\ 3 * ((k - 1) \div 4) + 3 <= 3 * q /\ 3 * q \in Nat /\ 3 * q <= tarindex
      BY <1>1 DEF Past
    <2>2. \A j \in 1..(3 * q) : ByteOf(t, j) = ByteOf(target, j)
      BY <1>1, <1>2, <2>1
    <2> QED BY <2>1, <2>2, SameDigit
  <1> DEFINE a == ByteOf(target, 3 * q + 1)
             b == ByteOf(target, 3 * q + 2)
             c == ByteOf(target, 3 * q + 3)
             x == ByteOf(t, 3 * q + 1)
             y == ByteOf(t, 3 * q + 2)
             z == ByteOf(t, 3 * q + 3)
  <1>4. a \in 0..255 /\ b \in 0..255 /\ c \in 0..255
    <2>1. 3 * q + 1 \in Nat \ {0} /\ 3 * q + 2 \in Nat \ {0} /\ 3 * q + 3 \in Nat \ {0}
      OBVIOUS
    <2>2. a \in Octets /\ b \in Octets /\ c \in Octets
      BY <1>1, <2>1, OctetAt
    <2> HIDE DEF a, b, c
    <2> QED BY <2>2 DEF Octets
  <1>5. /\ DigitOf(target, 4 * q + 1) = a \div 4
        /\ DigitOf(target, 4 * q + 2) = (a % 4) * 16 + (b \div 16)
        /\ DigitOf(target, 4 * q + 3) = (b % 16) * 4 + (c \div 64)
    BY DigitsOfQuantum
  <1>6. /\ DigitOf(t, 4 * q + 1) = x \div 4
        /\ DigitOf(t, 4 * q + 2) = (x % 4) * 16 + (y \div 16)
        /\ DigitOf(t, 4 * q + 3) = (y % 16) * 4 + (z \div 64)
        /\ DigitOf(t, 4 * q + 4) = z % 64
    BY DigitsOfQuantum
  <1>7. /\ state = 0 => x = d * 4
        /\ state = 1 => a % 4 = 0 /\ x = a + (d \div 16) /\ y = (d % 16) * 16
        /\ state = 2 => x = a /\ b % 16 = 0 /\ y = b + (d \div 4) /\ z = (d % 4) * 64
        /\ state = 3 => x = a /\ y = b /\ c % 64 = 0 /\ z = c + d
    <2>1. CASE state = 0
      <3>1. tarindex = 3 * q /\ Len(t) = 3 * q + 1 /\ t[3 * q + 1] = d * 4
        BY <1>1, <2>1 DEF Past, Grown
      <3> QED BY <2>1, <3>1 DEF ByteOf
    <2>2. CASE state = 1
      <3>1. tarindex = 3 * q /\ Len(t) = 3 * q + 2 /\ Len(target) = 3 * q + 1
        BY <1>1, <2>2 DEF Past
      <3>2. /\ t[3 * q + 1] = target[3 * q + 1] + (d \div 16) /\ t[3 * q + 2] = (d % 16) * 16
            /\ target[3 * q + 1] % 4 = 0
        BY <2>2, <3>1 DEF Grown, Fills
      <3> QED BY <2>2, <3>1, <3>2 DEF ByteOf
    <2>3. CASE state = 2
      <3>1. tarindex = 3 * q + 1 /\ Len(t) = 3 * q + 3 /\ Len(target) = 3 * q + 2
            /\ tarindex + 1 = 3 * q + 2 /\ tarindex + 2 = 3 * q + 3 /\ 3 * q + 1 \in 1..tarindex
        BY <1>1, <2>3 DEF Past
      <3>2. /\ t[3 * q + 2] = target[3 * q + 2] + (d \div 4) /\ t[3 * q + 3] = (d % 4) * 64
            /\ target[3 * q + 2] % 16 = 0
        BY <2>3, <3>1 DEF Grown, Fills
      <3>3. x = a
        BY <1>2, <3>1
      <3> QED BY <2>3, <3>1, <3>2, <3>3 DEF ByteOf
    <2>4. CASE state = 3
      <3>1. tarindex = 3 * q + 2 /\ Len(t) = 3 * q + 3 /\ Len(target) = 3 * q + 3
            /\ tarindex + 1 = 3 * q + 3 /\ 3 * q + 1 \in 1..tarindex /\ 3 * q + 2 \in 1..tarindex
        BY <1>1, <2>4 DEF Past
      <3>2. /\ t[3 * q + 3] = target[3 * q + 3] + d /\ target[3 * q + 3] % 64 = 0
        BY <2>4, <3>1 DEF Grown, Fills
      <3>3. x = a /\ y = b
        BY <1>2, <3>1
      <3> QED BY <2>4, <3>1, <3>2, <3>3 DEF ByteOf
    <2> QED BY <1>1, <2>1, <2>2, <2>3, <2>4
  <1> HIDE DEF a, b, c, x, y, z
  <1>8. /\ state = 0 => x \div 4 = d
        /\ state = 1 => x \div 4 = a \div 4 /\ (x % 4) * 16 + (y \div 16) = d
        /\ state = 2 => /\ x = a /\ y \div 16 = b \div 16
                        /\ (y % 16) * 4 + (z \div 64) = d
        /\ state = 3 => x = a /\ y = b /\ z \div 64 = c \div 64 /\ z % 64 = d
    <2>1. CASE state = 0
      <3>1. x = d * 4 /\ d \in 0..63 BY <1>1, <1>7, <2>1
      <3>2. x \div 4 = d BY ONLY <3>1
      <3> QED BY <2>1, <3>2
    <2>2. CASE state = 1
      <3>1. a \in 0..255 /\ a % 4 = 0 /\ x = a + (d \div 16) /\ y = (d % 16) * 16 /\ d \in 0..63
        BY <1>1, <1>4, <1>7, <2>2
      <3>2. x \div 4 = a \div 4 /\ x % 4 = d \div 16 /\ y \div 16 = d % 16
        BY ONLY <3>1
      <3>3. (d \div 16) * 16 + (d % 16) = d
        BY ONLY <3>1
      <3> QED BY <2>2, <3>2, <3>3
    <2>3. CASE state = 2
      <3>1. /\ x = a /\ b \in 0..255 /\ b % 16 = 0 /\ y = b + (d \div 4) /\ z = (d % 4) * 64
            /\ d \in 0..63
        BY <1>1, <1>4, <1>7, <2>3
      <3>2. y \div 16 = b \div 16 /\ y % 16 = d \div 4 /\ z \div 64 = d % 4
        BY ONLY <3>1
      <3>3. (d \div 4) * 4 + (d % 4) = d
        BY ONLY <3>1
      <3> QED BY <2>3, <3>1, <3>2, <3>3
    <2>4. CASE state = 3
      <3>1. x = a /\ y = b /\ c \in 0..255 /\ c % 64 = 0 /\ z = c + d /\ d \in 0..63
        BY <1>1, <1>4, <1>7, <2>4
      <3>2. z \div 64 = c \div 64 /\ z % 64 = d
        BY ONLY <3>1
      <3> QED BY <2>4, <3>1, <3>2
    <2> QED BY <1>1, <2>1, <2>2, <2>3, <2>4
  <1>9. ASSUME NEW k \in 1..(4 * q + state), ~(k <= 4 * q)
        PROVE  DigitOf(t, k) = DigitOf(target, k)
    <2>1. \/ k = 4 * q + 1 /\ state \in 1..3
          \/ k = 4 * q + 2 /\ state \in 2..3
          \/ k = 4 * q + 3 /\ state = 3
      <3>1. k \in Nat /\ k <= 4 * q + state /\ ~(k <= 4 * q) /\ state \in 0..3
        BY <1>1, <1>9
      <3> QED BY ONLY <3>1, q \in Nat
    <2> QED BY <1>5, <1>6, <1>8, <2>1
  <1>10. DigitOf(t, 4 * q + state + 1) = d
    <2>1. CASE state = 0
      <3>1. 4 * q + state + 1 = 4 * q + 1 BY <2>1
      <3> QED BY <1>6, <1>8, <2>1, <3>1
    <2>2. CASE state = 1
      <3>1. 4 * q + state + 1 = 4 * q + 2 BY <2>2
      <3> QED BY <1>6, <1>8, <2>2, <3>1
    <2>3. CASE state = 2
      <3>1. 4 * q + state + 1 = 4 * q + 3 BY <2>3
      <3> QED BY <1>6, <1>8, <2>3, <3>1
    <2>4. CASE state = 3
      <3>1. 4 * q + state + 1 = 4 * q + 4 BY <2>4
      <3> QED BY <1>6, <1>8, <2>4, <3>1
    <2> QED BY <1>1, <2>1, <2>2, <2>3, <2>4
  <1>11. ASSUME NEW k \in 1..(4 * q + state) PROVE DigitOf(t, k) = DigitOf(target, k)
    <2>1. CASE k <= 4 * q
      BY <1>3, <2>1
    <2>2. CASE ~(k <= 4 * q)
      BY <1>9, <2>2
    <2> QED BY <2>1, <2>2
  <1> QED BY <1>10, <1>11

LEMMA Reads ==
    ASSUME Conversion, job = "pton", source # <<>>, IsRestOf(source, given),
           source' = Tail(source), given' = given
    PROVE  /\ Consumed \in Nat /\ Consumed' = Consumed + 1 /\ Consumed + 1 \in 1..Len(given)
           /\ given[Consumed + 1] = Head(source) /\ Head(source) \in 0..66
           /\ IsRestOf(source, given)' /\ source' \in Seq(0..66)
  <1> DEFINE b == Len(source)
             c == Len(given)
             h == Head(source)
  <1>1. /\ Tail(source) \in Seq(0..66) /\ Len(Tail(source)) = b - 1
        /\ IsRestOf(Tail(source), given) /\ h \in 0..66 /\ h = given[c - b + 1]
        /\ b \in Nat \ {0} /\ c \in Nat /\ b <= c
    BY TailIsRest DEF Conversion
  <1> HIDE DEF b, c, h
  <1>2. Consumed = c - b /\ Consumed' = c - (b - 1)
    BY <1>1 DEF Consumed, b, c
  <1>3. c - b \in Nat /\ c - (b - 1) = (c - b) + 1 /\ (c - b) + 1 \in 1..c
    BY ONLY <1>1
  <1>4. IsRestOf(source', given')
    BY <1>1
  <1> QED BY <1>1, <1>2, <1>3, <1>4 DEF h, c

LEMMA DigitsAreNoOthers ==
    ASSUME NEW d \in Digits
    PROVE  d # Space /\ d # Pad /\ d # Other
  BY DEF Digits, Space, Pad, Other

LEMMA DigitDecodes ==
    ASSUME Conversion, job = "pton", source # <<>>, Head(source) \in Digits,
           source' = Tail(source), Advances,
           size # Unlimited => Fills /\ Grown(target', Head(source)),
           NEW q \in Nat, Decodes(q), NEW p, p = IF state = 3 THEN q + 1 ELSE q
    PROVE  Decodes(p)'
  <1> DEFINE d == Head(source)
  <1>1. /\ Consumed \in Nat /\ Consumed' = Consumed + 1
        /\ given[Consumed + 1] = d /\ IsRestOf(source, given)'
        /\ given' = given /\ size' = size
    BY Reads DEF Decodes, Advances
  <1>2. tarindex = 3 * q + Past /\ Place(given, Consumed) = 4 * q + state /\ state \in 0..3
    BY DEF Decodes, Conversion
  <1>3. d # Space
    BY DigitsAreNoOthers
  <1>4. Place(given, Consumed + 1) = 4 * q + state + 1
    BY <1>1, <1>2, <1>3, NextPlace
  <1> HIDE DEF d
  <1>5. 4 * q + state + 1 = 4 * p + state' /\ tarindex' = 3 * p + Past'
    <2>1. tarindex \in Nat BY DEF Conversion
    <2> QED BY <1>2, <2>1, AdvancesTo DEF Past
  <1>6. ASSUME size # Unlimited, NEW k \in 1..(Consumed + 1), given[k] # Space
        PROVE  given[k] = DigitOf(target', Place(given, k))
    <2>1. /\ \A j \in 1..(4 * q + state) : DigitOf(target', j) = DigitOf(target, j)
          /\ DigitOf(target', 4 * q + state + 1) = d
      BY <1>2, <1>6, GrownDigits DEF d
    <2>2. CASE k \in 1..Consumed
      <3>1. given[k] = DigitOf(target, Place(given, k))
        BY <1>6, <2>2 DEF Decodes
      <3>2. Place(given, k) \in 1..(4 * q + state)
        BY <1>1, <1>2, <1>6, <2>2, PlacesBefore
      <3> QED BY <2>1, <3>1, <3>2
    <2>3. CASE k = Consumed + 1
      BY <1>1, <1>4, <2>1, <2>3
    <2> QED BY <1>1, <2>2, <2>3
  <1>7. Place(given', Consumed') = 4 * p + state'
    BY <1>1, <1>4, <1>5
  <1>8. size' # Unlimited =>
            \A k \in 1..Consumed' : given'[k] # Space => given'[k] = DigitOf(target', Place(given', k))
    BY <1>1, <1>6
  <1> QED BY <1>1, <1>5, <1>7, <1>8 DEF Decodes

-----------------------------------------------------------------------------
(* A digit of what was encoded.                                            *)

LEMMA Reaches ==
    ASSUME NEW num \in Nat, NEW q \in Nat, NEW z \in 0..3, 4 * q + z + 1 <= (8 * num + 5) \div 6
    PROVE  /\ z = 0 => num >= 3 * q + 1
           /\ z = 1 => num >= 3 * q + 1 /\ num + (IF num % 3 = 0 THEN 0 ELSE 1) >= 3 * q + 2
           /\ z = 2 => num >= 3 * q + 2 /\ num + (IF num % 3 = 0 THEN 0 ELSE 1) >= 3 * q + 3
           /\ z = 3 => num >= 3 * q + 3
  <1>1. PICK u \in Nat, r \in 0..2 : num = 3 * u + r
    BY Quanta
  <1>2. /\ (8 * num + 5) \div 6 = (IF r = 0 THEN 4 * u ELSE 4 * u + r + 1)
        /\ num % 3 = r
    BY <1>1, Lengths
  <1>3. 4 * q + z + 1 <= IF r = 0 THEN 4 * u ELSE 4 * u + r + 1
    BY <1>2
  <1>4. /\ z = 0 => 3 * u + r >= 3 * q + 1
        /\ z = 1 => 3 * u + r >= 3 * q + 1 /\ 3 * u + r + (IF r = 0 THEN 0 ELSE 1) >= 3 * q + 2
        /\ z = 2 => 3 * u + r >= 3 * q + 2 /\ 3 * u + r + (IF r = 0 THEN 0 ELSE 1) >= 3 * q + 3
        /\ z = 3 => 3 * u + r >= 3 * q + 3
    BY ONLY <1>3, u \in Nat, r \in 0..2, q \in Nat, z \in 0..3
  <1> QED BY <1>1, <1>2, <1>4

LEMMA NextDigit ==
    ASSUME NEW s \in Seq(Octets), NEW k \in 1..Len(Encoding(s)), Encoding(s)[k] # Pad
    PROVE  k <= (8 * Len(s) + 5) \div 6 /\ Encoding(s)[k] = DigitOf(s, k)
  <1>0. Len(s) \in Nat
    BY LenProperties
  <1>1. PICK q \in Nat, r \in 0..2 : Len(s) = 3 * q + r
    BY <1>0, Quanta
  <1>2. Encoding(s)[k] = IF k <= (IF r = 0 THEN 4 * q ELSE 4 * q + r + 1)
                         THEN DigitOf(s, k) ELSE Pad
    BY <1>1, EncodingIs
  <1>3. (8 * Len(s) + 5) \div 6 = IF r = 0 THEN 4 * q ELSE 4 * q + r + 1
    BY <1>0, <1>1, Lengths
  <1> QED BY <1>2, <1>3

LEMMA DigitOfEncoded ==
    ASSUME Conversion, job = "pton", source # <<>>, IsRestOf(source, given),
           Head(source) \in Digits, source' = Tail(source), given' = given,
           encoded # Nothing, NEW q \in Nat, Restores(q)
    PROVE  /\ encoded \in Seq(Octets) /\ Len(encoded) \in Nat
           /\ Consumed + 1 <= (8 * Len(encoded) + 5) \div 6
           /\ Head(source) = DigitOf(encoded, 4 * q + state + 1)
           /\ 4 * q + state + 1 <= (8 * Len(encoded) + 5) \div 6
  <1>1. encoded \in Seq(Octets) /\ Len(encoded) \in Nat
    BY LenProperties DEF Conversion
  <1>2. /\ Consumed \in Nat /\ Consumed + 1 \in 1..Len(given) /\ given[Consumed + 1] = Head(source)
    BY Reads
  <1>3. given = Encoding(encoded) /\ Consumed = 4 * q + state
    BY DEF Restores
  <1>4. Head(source) # Pad
    BY DigitsAreNoOthers
  <1>5. /\ Consumed + 1 <= (8 * Len(encoded) + 5) \div 6
        /\ Encoding(encoded)[Consumed + 1] = DigitOf(encoded, Consumed + 1)
    BY <1>1, <1>2, <1>3, <1>4, NextDigit
  <1> QED BY <1>1, <1>2, <1>3, <1>5

LEMMA DigitRestores ==
    ASSUME Conversion, job = "pton", source # <<>>, IsRestOf(source, given),
           Head(source) \in Digits, source' = Tail(source), Advances,
           size # Unlimited => Fills /\ Grown(target', Head(source)),
           encoded # Nothing, NEW q \in Nat, tarindex = 3 * q + Past, Restores(q),
           NEW p, p = IF state = 3 THEN q + 1 ELSE q
    PROVE  Restores(p)'
  <1> DEFINE d == Head(source)
             a == ByteOf(encoded, 3 * q + 1)
             b == ByteOf(encoded, 3 * q + 2)
             c == ByteOf(encoded, 3 * q + 3)
             num == Len(encoded)
  <1>1. /\ given' = given /\ size' = size /\ encoded' = encoded
        /\ state \in 0..3 /\ tarindex \in Nat
    BY DEF Advances, Conversion
  <1>2. /\ encoded \in Seq(Octets) /\ num \in Nat /\ Consumed + 1 <= (8 * num + 5) \div 6
        /\ d = DigitOf(encoded, 4 * q + state + 1)
        /\ 4 * q + state + 1 <= (8 * num + 5) \div 6
    BY <1>1, DigitOfEncoded
  <1>3. Consumed' = Consumed + 1 /\ Consumed = 4 * q + state /\ d \in 0..63
    BY <1>1, Reads DEF Restores, Digits
  <1>4. /\ state = 0 => num >= 3 * q + 1
        /\ state = 1 => num >= 3 * q + 1
        /\ state = 2 => num >= 3 * q + 2
        /\ state = 3 => num >= 3 * q + 3
    BY <1>1, <1>2, Reaches
  <1>5. a \in 0..255 /\ b \in 0..255 /\ c \in 0..255
    <2>1. 3 * q + 1 \in Nat \ {0} /\ 3 * q + 2 \in Nat \ {0} /\ 3 * q + 3 \in Nat \ {0}
      OBVIOUS
    <2>2. a \in Octets /\ b \in Octets /\ c \in Octets
      BY <1>2, <2>1, OctetAt
    <2> HIDE DEF a, b, c
    <2> QED BY <2>2 DEF Octets
  <1>6. /\ state = 0 => d = a \div 4
        /\ state = 1 => d = (a % 4) * 16 + (b \div 16)
        /\ state = 2 => d = (b % 16) * 4 + (c \div 64)
        /\ state = 3 => d = c % 64
    <2>1. /\ DigitOf(encoded, 4 * q + 1) = a \div 4
          /\ DigitOf(encoded, 4 * q + 2) = (a % 4) * 16 + (b \div 16)
          /\ DigitOf(encoded, 4 * q + 3) = (b % 16) * 4 + (c \div 64)
          /\ DigitOf(encoded, 4 * q + 4) = c % 64
      BY DigitsOfQuantum
    <2> HIDE DEF a, b, c, d
    <2>2. CASE state = 0
      <3>1. 4 * q + state + 1 = 4 * q + 1 BY <2>2
      <3> QED BY <1>2, <2>1, <2>2, <3>1
    <2>3. CASE state = 1
      <3>1. 4 * q + state + 1 = 4 * q + 2 BY <2>3
      <3> QED BY <1>2, <2>1, <2>3, <3>1
    <2>4. CASE state = 2
      <3>1. 4 * q + state + 1 = 4 * q + 3 BY <2>4
      <3> QED BY <1>2, <2>1, <2>4, <3>1
    <2>5. CASE state = 3
      <3>1. 4 * q + state + 1 = 4 * q + 4 BY <2>5
      <3> QED BY <1>2, <2>1, <2>5, <3>1
    <2> QED BY <1>1, <2>2, <2>3, <2>4, <2>5
  <1>7. tarindex' <= num
    <2> HIDE DEF num
    <2>1. tarindex <= num BY DEF Restores, num
    <2> QED BY <1>1, <1>4, <2>1, <1>2, AdvancesTo DEF Past
  <1>8. Consumed' = 4 * p + state'
    BY <1>1, <1>3, AdvancesTo
  <1> DEFINE rest == ByteOf(encoded, tarindex + 1)
             next == ByteOf(encoded, tarindex + 2)
  <1>9. ASSUME size # Unlimited
        PROVE  /\ state = 0 => target'[tarindex + 1] = 4 * (rest \div 4)
               /\ state = 1 => target'[tarindex + 1] = rest /\ target'[tarindex + 2] = 16 * (next \div 16)
               /\ state = 2 => target'[tarindex + 1] = rest /\ target'[tarindex + 2] = 64 * (next \div 64)
               /\ state = 3 => target'[tarindex + 1] = rest
    <2>1. CASE state = 0
      <3>1. rest = a /\ target'[tarindex + 1] = d * 4
        BY <1>9, <2>1 DEF Past, Grown
      <3> HIDE DEF a, d, rest
      <3> QED BY <1>5, <1>6, <2>1, <3>1
    <2>2. CASE state = 1
      <3>1. /\ rest = a /\ next = b /\ target[tarindex + 1] = 4 * (rest \div 4)
            /\ target'[tarindex + 1] = target[tarindex + 1] + (d \div 16)
            /\ target'[tarindex + 2] = (d % 16) * 16
        BY <1>9, <2>2 DEF Past, Grown, Restores
      <3> HIDE DEF a, b, d, rest, next
      <3>2. (d \div 16) = a % 4 /\ d % 16 = b \div 16
        BY <1>5, <1>6, <2>2
      <3>3. 4 * (a \div 4) + (a % 4) = a
        BY <1>5
      <3> QED BY <2>2, <3>1, <3>2, <3>3, <1>5
    <2>3. CASE state = 2
      <3>1. /\ rest = b /\ next = c /\ target[tarindex + 1] = 16 * (rest \div 16)
            /\ target'[tarindex + 1] = target[tarindex + 1] + (d \div 4)
            /\ target'[tarindex + 2] = (d % 4) * 64
        BY <1>9, <2>3 DEF Past, Grown, Restores
      <3> HIDE DEF b, c, d, rest, next
      <3>2. (d \div 4) = b % 16 /\ d % 4 = c \div 64
        BY <1>5, <1>6, <2>3
      <3>3. 16 * (b \div 16) + (b % 16) = b
        BY <1>5
      <3> QED BY <2>3, <3>1, <3>2, <3>3, <1>5
    <2>4. CASE state = 3
      <3>1. /\ rest = c /\ target[tarindex + 1] = 64 * (rest \div 64)
            /\ target'[tarindex + 1] = target[tarindex + 1] + d
        BY <1>9, <2>4 DEF Past, Grown, Restores
      <3> HIDE DEF c, d, rest
      <3>3. 64 * (c \div 64) + (c % 64) = c
        BY <1>5
      <3> QED BY <2>4, <3>1, <3>3, <1>5, <1>6
    <2> QED BY <2>1, <2>2, <2>3, <2>4
  <1> HIDE DEF a, b, c, d
  <1>10. ASSUME size # Unlimited, NEW k \in 1..tarindex'
         PROVE  target'[k] = encoded[k]
    <2>1. CASE k \in 1..tarindex
      BY <1>10, <2>1 DEF Grown, Restores
    <2>2. CASE ~(k \in 1..tarindex)
      <3>1. k = tarindex + 1 /\ state \in 1..3 /\ tarindex' = tarindex + 1
        BY <1>1, <1>10, <2>2, AdvancesTo
      <3>2. target'[k] = rest
        BY <1>9, <1>10, <3>1
      <3>3. rest = encoded[k]
        BY <1>1, <1>2, <1>7, <3>1 DEF ByteOf
      <3> QED BY <3>2, <3>3
    <2> QED BY <2>1, <2>2
  <1>11. ASSUME size # Unlimited
         PROVE  LET left == ByteOf(encoded, tarindex' + 1)
                IN /\ state' = 1 => target'[tarindex' + 1] = 4 * (left \div 4)
                   /\ state' = 2 => target'[tarindex' + 1] = 16 * (left \div 16)
                   /\ state' = 3 => target'[tarindex' + 1] = 64 * (left \div 64)
    <2>1. CASE state = 0
      BY <1>9, <1>11, <2>1, AdvancesTo
    <2>2. CASE state = 1
      <3>1. state' = 2 /\ tarindex' + 1 = tarindex + 2
        BY <1>1, <2>2, AdvancesTo
      <3> QED BY <1>9, <1>11, <2>2, <3>1
    <2>3. CASE state = 2
      <3>1. state' = 3 /\ tarindex' + 1 = tarindex + 2
        BY <1>1, <2>3, AdvancesTo
      <3> QED BY <1>9, <1>11, <2>3, <3>1
    <2>4. CASE state = 3
      BY <2>4, AdvancesTo
    <2> QED BY <1>1, <2>1, <2>2, <2>3, <2>4
  <1>12. given' = Encoding(encoded') /\ Consumed' <= (8 * Len(encoded') + 5) \div 6
    BY <1>1, <1>2, <1>3 DEF Restores
  <1>13. size' # Unlimited =>
            /\ \A k \in 1..tarindex' : target'[k] = encoded'[k]
            /\ LET left == ByteOf(encoded', tarindex' + 1)
               IN /\ state' = 1 => target'[tarindex' + 1] = 4 * (left \div 4)
                  /\ state' = 2 => target'[tarindex' + 1] = 16 * (left \div 16)
                  /\ state' = 3 => target'[tarindex' + 1] = 64 * (left \div 64)
    BY <1>1, <1>10, <1>11
  <1>14. tarindex' <= Len(encoded')
    BY <1>1, <1>7
  <1> QED BY <1>8, <1>12, <1>13, <1>14 DEF Restores

(* There is no room for a digit only when the bytes need more.             *)
LEMMA DigitRefused ==
    ASSUME Conversion, job = "pton", source # <<>>, IsRestOf(source, given),
           Head(source) \in Digits, source' = Tail(source), given' = given,
           encoded # Nothing, NEW q \in Nat, tarindex = 3 * q + Past, Restores(q), ~Room
    PROVE  size # Unlimited /\ size < BytesNeeded(encoded)
  <1> DEFINE num == Len(encoded)
  <1>1. /\ num \in Nat /\ 4 * q + state + 1 <= (8 * num + 5) \div 6 /\ state \in 0..3 /\ tarindex \in Nat
    BY DigitOfEncoded DEF Conversion
  <1>2. size # Unlimited /\ size \in Nat
        /\ ~((IF state \in {1, 2} THEN tarindex + 1 ELSE tarindex) < size)
    BY DEF Room, Conversion
  <1>3. BytesNeeded(encoded) = num + (IF num % 3 = 0 THEN 0 ELSE 1)
    BY DEF BytesNeeded
  <1> HIDE DEF num
  <1>4. /\ state = 0 => num >= 3 * q + 1
        /\ state = 1 => num + (IF num % 3 = 0 THEN 0 ELSE 1) >= 3 * q + 2
        /\ state = 2 => num + (IF num % 3 = 0 THEN 0 ELSE 1) >= 3 * q + 3
        /\ state = 3 => num >= 3 * q + 3
    BY <1>1, Reaches
  <1> DEFINE needed == num + (IF num % 3 = 0 THEN 0 ELSE 1)
  <1>5. needed \in Nat /\ needed >= num
    BY <1>1
  <1> HIDE DEF needed
  <1>6. /\ state = 0 => num >= 3 * q + 1 /\ tarindex = 3 * q
        /\ state = 1 => needed >= 3 * q + 2 /\ tarindex = 3 * q
        /\ state = 2 => needed >= 3 * q + 3 /\ tarindex = 3 * q + 1
        /\ state = 3 => num >= 3 * q + 3 /\ tarindex = 3 * q + 2
    BY <1>1, <1>4 DEF needed, Past
  <1>7. size < needed
    BY ONLY <1>1, <1>2, <1>5, <1>6, q \in Nat
  <1> QED BY <1>2, <1>3, <1>7 DEF needed

-----------------------------------------------------------------------------
(* Steps of b64_pton.                                                      *)

LEMMA DigitStep ==
    ASSUME Base64Inv, Digit
    PROVE  Base64Inv'
  <1>1. /\ job = "pton" /\ result = Running /\ source # <<>> /\ Head(source) \in Digits
        /\ source' = Tail(source) /\ UNCHANGED <<job, given, size, encoded>> /\ Conversion
        /\ size = Unlimited => target = <<>>
        /\ size # Unlimited => Fills
    BY DEF Base64Inv, Digit
  <1>2. PICK q \in Nat : Decodes(q) /\ (encoded # Nothing => Restores(q))
    BY <1>1 DEF Base64Inv
  <1>3. /\ size \in Nat \cup {Unlimited} /\ encoded \in Seq(Octets) \cup {Nothing}
        /\ given \in Seq(0..66) /\ target \in Seq(Octets) /\ tarindex \in Nat /\ state \in 0..3
    BY <1>1 DEF Conversion
  <1>4. /\ IsRestOf(source, given) /\ tarindex = 3 * q + Past
    BY <1>2 DEF Decodes
  <1>5. source' \in Seq(0..66)
    BY <1>1, <1>4, Reads
  <1>6. CASE ~Room
    <2>1. result' = -1 /\ UNCHANGED <<target, state, tarindex>>
      BY <1>1, <1>6 DEF Digit
    <2>2. Conversion'
      BY <1>1, <1>3, <1>5, <2>1 DEF Conversion
    <2>3. size' # Unlimited => Fills'
      BY <1>1, <2>1 DEF Fills
    <2>4. RoundTrip'
      <3>1. encoded # Nothing => size # Unlimited /\ size < BytesNeeded(encoded)
        BY <1>1, <1>2, <1>4, <1>6, DigitRefused
      <3>2. BytesNeeded(encoded)' = BytesNeeded(encoded)
        BY <1>1 DEF BytesNeeded
      <3> QED BY <1>1, <2>1, <3>1, <3>2 DEF RoundTrip
    <2>5. OneTextEach'
      BY <2>1 DEF OneTextEach
    <2> QED BY <1>1, <2>1, <2>2, <2>3, <2>4, <2>5 DEF Base64Inv, Running
  <1>7. CASE Room
    <2>1. /\ target' = IF size = Unlimited THEN target ELSE Decoded(Head(source))
          /\ Advances /\ result' = Running
      BY <1>1, <1>7 DEF Digit, Advances
    <2>2. size # Unlimited => Grown(target', Head(source))
      BY <1>1, <2>1, DecodedGrows
    <2>3. size # Unlimited => Fills' /\ target' \in Seq(Octets)
      BY <1>1, <1>7, <2>1, <2>2, GrownFills
    <2>4. size = Unlimited => target' = <<>>
      BY <1>1, <2>1
    <2>5. state' \in 0..3 /\ tarindex' \in Nat
      BY <1>1, <2>1, AdvancesTo
    <2>6. Conversion'
      BY <1>1, <1>3, <1>5, <2>1, <2>3, <2>4, <2>5 DEF Conversion
    <2>7. PICK p \in Nat : p = IF state = 3 THEN q + 1 ELSE q
      OBVIOUS
    <2>8. Decodes(p)'
      BY <1>1, <1>2, <2>1, <2>2, <2>7, DigitDecodes
    <2>9. encoded' # Nothing => Restores(p)'
      BY <1>1, <1>2, <1>4, <2>1, <2>2, <2>7, DigitRestores DEF Advances
    <2> QED BY <1>1, <2>1, <2>3, <2>4, <2>6, <2>8, <2>9 DEF Base64Inv
  <1> QED BY <1>6, <1>7

LEMMA SpaceStep ==
    ASSUME Base64Inv, SkipSpace
    PROVE  Base64Inv'
  <1>1. /\ job = "pton" /\ result = Running /\ source # <<>> /\ Head(source) = Space
        /\ source' = Tail(source) /\ Conversion
        /\ UNCHANGED <<job, given, size, target, state, tarindex, result, encoded>>
        /\ IF size = Unlimited THEN target = <<>> ELSE Fills
    BY DEF Base64Inv, SkipSpace
  <1>2. PICK q \in Nat : Decodes(q) /\ (encoded # Nothing => Restores(q))
    BY <1>1 DEF Base64Inv
  <1>3. /\ Consumed \in Nat /\ Consumed' = Consumed + 1 /\ Consumed + 1 \in 1..Len(given)
        /\ given[Consumed + 1] = Space /\ IsRestOf(source, given)' /\ source' \in Seq(0..66)
    BY <1>1, <1>2, Reads DEF Decodes
  <1>4. Conversion'
    BY <1>1, <1>3 DEF Conversion
  <1>5. IF size' = Unlimited THEN target' = <<>> ELSE Fills'
    BY <1>1 DEF Fills
  <1>6. Decodes(q)'
    <2>1. Place(given, Consumed + 1) = Place(given, Consumed)
      BY <1>3, NextPlace
    <2>2. \A k \in 1..(Consumed + 1) : given[k] # Space => k \in 1..Consumed
      BY <1>3
    <2>3. Past' = Past
      BY <1>1 DEF Past
    <2> QED BY <1>1, <1>2, <1>3, <2>1, <2>2, <2>3 DEF Decodes
  <1>7. encoded = Nothing
    <2>1. SUFFICES ASSUME encoded # Nothing PROVE FALSE
      OBVIOUS
    <2>2. encoded \in Seq(Octets) /\ given = Encoding(encoded)
      BY <1>1, <1>2, <2>1 DEF Conversion, Restores
    <2>3. given[Consumed + 1] \in 0..64
      BY <1>3, <2>2, EncodingLength, ElementOfSeq
    <2> QED BY <1>3, <2>3 DEF Space
  <1> QED BY <1>1, <1>4, <1>5, <1>6, <1>7 DEF Base64Inv

LEMMA RejectStep ==
    ASSUME Base64Inv, Reject
    PROVE  Base64Inv'
  <1>1. /\ job = "pton" /\ result = Running /\ source # <<>> /\ Head(source) = Other
        /\ result' = -1 /\ Conversion
        /\ UNCHANGED <<job, given, size, source, target, state, tarindex, encoded>>
        /\ IF size = Unlimited THEN target = <<>> ELSE Fills
    BY DEF Base64Inv, Reject
  <1>2. PICK q \in Nat : Decodes(q) /\ (encoded # Nothing => Restores(q))
    BY <1>1 DEF Base64Inv
  <1>3. Conversion'
    BY <1>1 DEF Conversion
  <1>4. IF size' = Unlimited THEN target' = <<>> ELSE Fills'
    BY <1>1 DEF Fills
  <1>5. encoded = Nothing
    <2>1. SUFFICES ASSUME encoded # Nothing PROVE FALSE
      OBVIOUS
    <2>2. encoded \in Seq(Octets) /\ given = Encoding(encoded)
      BY <1>1, <1>2, <2>1 DEF Conversion, Restores
    <2>3. Head(source) \in 0..64
      <3>1. given \in Seq(0..64)
        BY <2>2, EncodingLength
      <3>2. source \in Seq(0..66) /\ given \in Seq(0..66) /\ IsRestOf(source, given)
        BY <1>1, <1>2 DEF Conversion, Decodes
      <3>3. /\ Head(source) = given[Len(given) - Len(source) + 1]
            /\ Len(source) \in Nat \ {0} /\ Len(given) \in Nat /\ Len(source) <= Len(given)
        BY <1>1, <3>2, TailIsRest
      <3> DEFINE k == Len(given) - Len(source) + 1
      <3>4. k \in 1..Len(given)
        BY <3>3
      <3> QED BY <3>1, <3>3, <3>4, ElementOfSeq
    <2>4. Other \notin 0..64
      BY DEF Other
    <2> QED BY <1>1, <2>3, <2>4
  <1>6. RoundTrip' /\ OneTextEach'
    BY <1>1, <1>5 DEF RoundTrip, OneTextEach
  <1> QED BY <1>1, <1>3, <1>4, <1>6 DEF Base64Inv, Running

-----------------------------------------------------------------------------
(* The end of a text.                                                      *)

LEMMA EndOfEncoded ==
    ASSUME Conversion, job = "pton", encoded # Nothing, IsRestOf(source, given),
           NEW q \in Nat, tarindex = 3 * q + Past, Restores(q),
           size # Unlimited => Fills
    PROVE  /\ source # <<>> /\ Head(source) = Pad =>
                state \in {2, 3} /\ tarindex = Len(encoded) /\ ValidPad
           /\ source = <<>> => state = 0 /\ tarindex = Len(encoded)
  <1> DEFINE num == Len(encoded)
  <1>1. /\ encoded \in Seq(Octets) /\ num \in Nat /\ given \in Seq(0..66) /\ source \in Seq(0..66)
        /\ Len(given) \in Nat /\ Len(source) \in Nat /\ state \in 0..3 /\ tarindex \in Nat
    BY LenProperties DEF Conversion
  <1>2. PICK u \in Nat, r \in 0..2 : num = 3 * u + r
    BY <1>1, Quanta
  <1> DEFINE digits == IF r = 0 THEN 4 * u ELSE 4 * u + r + 1
             all == IF r = 0 THEN 4 * u ELSE 4 * u + 4
  <1>3. /\ Len(given) = all
        /\ \A k \in 1..Len(given) : given[k] = IF k <= digits THEN DigitOf(encoded, k) ELSE Pad
    BY <1>1, <1>2, EncodingIs DEF Restores
  <1>4. /\ Consumed = 4 * q + state /\ Consumed = Len(given) - Len(source)
        /\ 4 * q + state <= digits
    BY <1>1, <1>2, Lengths DEF Restores, Consumed
  <1>5. CASE source # <<>> /\ Head(source) = Pad
    <2>1. Len(source) \in Nat \ {0} /\ given[Consumed + 1] = Pad /\ Consumed + 1 \in 1..Len(given)
      <3>1. /\ Head(source) = given[Len(given) - Len(source) + 1]
            /\ Len(source) \in Nat \ {0} /\ Len(source) <= Len(given)
        BY <1>1, <1>5, TailIsRest
      <3>2. Consumed + 1 \in 1..Len(given)
        BY <1>1, <1>4, <3>1
      <3> QED BY <1>4, <1>5, <3>1, <3>2
    <2>2. ~(Consumed + 1 <= digits)
      <3>1. DigitOf(encoded, Consumed + 1) # Pad
        <4>1. Consumed + 1 \in Nat \ {0} BY <2>1
        <4> QED BY <1>1, <4>1, DigitsAreDigits, DigitsAreNoOthers
      <3> HIDE DEF digits
      <3> QED BY <1>3, <2>1, <3>1
    <2>3. /\ 4 * q + state = digits /\ Len(source) = all - digits /\ Len(source) > 0
      <3>1. digits \in Int /\ all \in Int
        OBVIOUS
      <3> DEFINE left == Len(source)
                 read == Consumed
                 length == Len(given)
      <3> HIDE DEF digits, all
      <3>2. /\ read = 4 * q + state /\ read = length - left /\ 4 * q + state <= digits
            /\ length = all /\ ~(read + 1 <= digits) /\ left \in Nat \ {0}
        BY <1>3, <1>4, <2>1, <2>2
      <3> HIDE DEF left, read, length
      <3>3. 4 * q + state = digits /\ left = all - digits /\ left > 0
        BY ONLY <1>1, <3>1, <3>2, q \in Nat
      <3> QED BY <3>3 DEF left
    <2>4. state \in {2, 3} /\ u = q /\ r = state - 1 /\ Len(source) = 4 - state
      <3> DEFINE left == Len(source)
      <3> HIDE DEF left
      <3>1. 4 * q + state = digits /\ left = all - digits /\ left > 0 /\ state \in 0..3
        BY <1>1, <2>3 DEF left
      <3>2. CASE r = 0
        BY <3>1, <3>2
      <3>3. CASE r = 1
        <4>1. 4 * q + state = 4 * u + 2 /\ left = 2
          BY <3>1, <3>3
        <4>2. u = q /\ state = 2
          BY ONLY <4>1, <3>1, u \in Nat, q \in Nat
        <4> QED BY <3>3, <4>1, <4>2 DEF left
      <3>4. CASE r = 2
        <4>1. 4 * q + state = 4 * u + 3 /\ left = 1
          BY <3>1, <3>4
        <4>2. u = q /\ state = 3
          BY ONLY <4>1, <3>1, u \in Nat, q \in Nat
        <4> QED BY <3>4, <4>1, <4>2 DEF left
      <3> QED BY <3>2, <3>3, <3>4
    <2>5. tarindex = num
      BY <1>1, <1>2, <2>4 DEF Past
    <2>6. \A k \in 2..Len(source) : source[k] = Pad
      <3> TAKE k \in 2..Len(source)
      <3>1. k \in 1..Len(source) /\ Consumed + k \in 1..Len(given) /\ ~(Consumed + k <= digits)
        <4>1. digits \in Int
          OBVIOUS
        <4> DEFINE left == Len(source)
                   read == Consumed
                   length == Len(given)
        <4> HIDE DEF digits
        <4>2. read = digits /\ read = length - left /\ left \in Nat /\ length \in Nat /\ k \in 2..left
              /\ read + 1 \in 1..length
          BY <1>1, <1>4, <2>1, <2>3
        <4> HIDE DEF left, read, length
        <4>3. k \in 1..left /\ read + k \in 1..length /\ ~(read + k <= digits)
          BY ONLY <4>1, <4>2
        <4> QED BY <4>3 DEF left, read, length
      <3>2. source[k] = given[Consumed + k]
        BY <1>4, <3>1 DEF IsRestOf
      <3> HIDE DEF digits
      <3> QED BY <1>3, <3>1, <3>2
    <2>7. PaddedToTheEnd
      <3>1. Pad # Space
        BY DEF Pad, Space
      <3>2. Behind = 2..Len(source)
        BY <2>6, <3>1 DEF Behind
      <3>3. CASE state = 2
        <4>1. Behind = {2} /\ 2 \in 2..Len(source)
          BY <2>4, <3>2, <3>3
        <4> QED BY <2>6, <3>3, <4>1 DEF PaddedToTheEnd
      <3>4. CASE state = 3
        <4>1. Behind = {}
          BY <2>4, <3>2, <3>4
        <4> QED BY <3>4, <4>1 DEF PaddedToTheEnd
      <3> QED BY <2>4, <3>3, <3>4
    <2>8. size # Unlimited => target[tarindex + 1] = 0
      <3>1. ByteOf(encoded, tarindex + 1) = 0
        BY <1>1, <2>5 DEF ByteOf
      <3>2. 16 * (0 \div 16) = 0 /\ 64 * (0 \div 64) = 0
        OBVIOUS
      <3> QED BY <2>4, <3>1, <3>2 DEF Restores
    <2> QED BY <1>5, <2>4, <2>5, <2>7, <2>8 DEF ValidPad
  <1>6. CASE source = <<>>
    <2>1. Len(source) = 0
      BY <1>6
    <2>2. 4 * q + state = all
      BY <1>3, <1>4, <2>1
    <2>3. state = 0 /\ u = q /\ r = 0
      <3>1. 4 * q + state = all /\ all <= digits /\ state \in 0..3
        BY <1>1, <1>4, <2>2
      <3>2. r = 0 /\ 4 * q + state = 4 * u
        BY <3>1
      <3>3. state = 0 /\ u = q
        BY ONLY <3>1, <3>2, u \in Nat, q \in Nat
      <3> QED BY <3>2, <3>3
    <2> QED BY <1>2, <1>6, <2>3 DEF Past
  <1> QED BY <1>5, <1>6

(* What was encoded is there when all of it was read.                      *)
LEMMA BytesRestored ==
    ASSUME Conversion, job = "pton", encoded # Nothing, NEW q \in Nat, Restores(q),
           size # Unlimited, Fills, tarindex = 3 * q + Past, tarindex = Len(encoded),
           state \in {0, 2, 3}
    PROVE  ~(size < BytesNeeded(encoded)) /\ SubSeq(target, 1, tarindex) = encoded
  <1>1. /\ encoded \in Seq(Octets) /\ tarindex \in Nat /\ target \in Seq(Octets) /\ size \in Nat
        /\ Len(target) \in Nat /\ Len(target) = tarindex + (IF state = 0 THEN 0 ELSE 1)
        /\ Len(target) <= size
    BY LenProperties DEF Conversion, Fills
  <1>2. tarindex % 3 = Past
    <2>1. Past \in 0..2
      BY DEF Past
    <2> HIDE DEF Past
    <2> QED BY <1>1, <2>1, Lengths
  <1>3. BytesNeeded(encoded) = Len(target)
    BY <1>1, <1>2 DEF BytesNeeded, Past
  <1>4. \A k \in 1..tarindex : target[k] = encoded[k] /\ target[k] \in Octets
    <2> TAKE k \in 1..tarindex
    <2>1. k \in 1..Len(target)
      BY <1>1
    <2> QED BY <1>1, <2>1, ElementOfSeq DEF Restores
  <1> DEFINE t == SubSeq(target, 1, tarindex)
  <1>5. t \in Seq(Octets) /\ Len(t) = tarindex /\ \A k \in 1..tarindex : t[k] = target[k]
    BY <1>1, <1>4, SubSeqProperties
  <1> HIDE DEF t
  <1>6. t = encoded
    BY <1>1, <1>4, <1>5, SeqEqual
  <1> QED BY <1>1, <1>3, <1>6 DEF t

(* A byte of which nothing counts adds nothing to the digits.              *)
LEMMA KeptDigits ==
    ASSUME Conversion, job = "pton", Fills, state = 0 \/ target[tarindex + 1] = 0
    PROVE  LET kept == SubSeq(target, 1, tarindex)
           IN /\ kept \in Seq(Octets) /\ Len(kept) = tarindex
              /\ \A k \in Nat \ {0} : DigitOf(kept, k) = DigitOf(target, k)
  <1>1. /\ tarindex \in Nat /\ target \in Seq(Octets) /\ Len(target) \in Nat
        /\ Len(target) = tarindex + (IF state = 0 THEN 0 ELSE 1)
    BY LenProperties DEF Conversion, Fills
  <1>2. \A k \in 1..tarindex : target[k] \in Octets
    <2> TAKE k \in 1..tarindex
    <2>1. k \in 1..Len(target)
      BY <1>1
    <2> QED BY <1>1, <2>1, ElementOfSeq
  <1> DEFINE t == SubSeq(target, 1, tarindex)
  <1>3. t \in Seq(Octets) /\ Len(t) = tarindex /\ \A k \in 1..tarindex : t[k] = target[k]
    BY <1>1, <1>2, SubSeqProperties
  <1> HIDE DEF t
  <1>4. ASSUME NEW k \in Nat \ {0} PROVE ByteOf(t, k) = ByteOf(target, k)
    <2>1. CASE k <= tarindex
      <3>1. k \in 1..tarindex /\ k <= Len(target)
        BY <1>1, <2>1
      <3> QED BY <1>3, <2>1, <3>1 DEF ByteOf
    <2>2. CASE k = tarindex + 1 /\ state # 0
      <3>1. k <= Len(target) /\ ~(k <= tarindex) /\ target[k] = 0
        BY <1>1, <2>2
      <3> QED BY <1>3, <3>1 DEF ByteOf
    <2>3. CASE k > tarindex + 1 \/ (k > tarindex /\ state = 0)
      <3>1. ~(k <= Len(target)) /\ ~(k <= tarindex)
        BY <1>1, <2>3
      <3> QED BY <1>3, <3>1 DEF ByteOf
    <2> QED BY <1>1, <2>1, <2>2, <2>3
  <1>5. ASSUME NEW k \in Nat \ {0} PROVE DigitOf(t, k) = DigitOf(target, k)
    <2> DEFINE m == 3 * ((k - 1) \div 4) + 3
    <2>1. m \in Nat
      OBVIOUS
    <2>2. \A j \in 1..m : ByteOf(t, j) = ByteOf(target, j)
      <3> HIDE DEF m
      <3> QED BY <1>4, <2>1
    <2> QED BY <2>1, <2>2, SameDigit
  <1> QED BY <1>3, <1>5 DEF t

(* A text that ends as it should is the encoding of the bytes, but for     *)
(* white space.                                                            *)
LEMMA EndReads ==
    ASSUME Conversion, job = "pton", size # Unlimited, Fills, NEW q \in Nat, Decodes(q),
           \/ source # <<>> /\ Head(source) = Pad /\ state \in {2, 3} /\ ValidPad
           \/ source = <<>> /\ state = 0
    PROVE  ReadsAs(given, Encoding(SubSeq(target, 1, tarindex)))
  <1> DEFINE kept == SubSeq(target, 1, tarindex)
             e == Encoding(kept)
             c == Consumed
             all == IF state = 0 THEN 4 * q ELSE 4 * q + 4
  <1>1. /\ given \in Seq(0..66) /\ source \in Seq(0..66) /\ Len(given) \in Nat /\ Len(source) \in Nat
        /\ state \in 0..3 /\ tarindex \in Nat /\ tarindex = 3 * q + Past /\ state # 1
        /\ IsRestOf(source, given) /\ Place(given, c) = 4 * q + state
        /\ c = Len(given) - Len(source) /\ c \in Nat /\ Len(source) <= Len(given)
    BY LenProperties DEF Conversion, Decodes, IsRestOf, Consumed
  <1>2. /\ kept \in Seq(Octets) /\ Len(kept) = tarindex
        /\ \A k \in Nat \ {0} : DigitOf(kept, k) = DigitOf(target, k)
    <2>1. state = 0 \/ target[tarindex + 1] = 0
      BY DEF ValidPad
    <2> QED BY <2>1, KeptDigits
  <1>3. Len(e) = all /\ \A k \in 1..all : e[k] = IF k <= 4 * q + state THEN DigitOf(kept, k) ELSE Pad
    <2>1. Past \in 0..2 /\ (Past = 0 <=> state = 0) /\ (state # 0 => Past = state - 1)
      BY <1>1 DEF Past
    <2>2. Len(kept) = 3 * q + Past
      BY <1>1, <1>2
    <2> HIDE DEF kept
    <2>3. /\ Len(e) = IF Past = 0 THEN 4 * q ELSE 4 * q + 4
          /\ \A k \in 1..Len(e) :
                e[k] = IF k <= (IF Past = 0 THEN 4 * q ELSE 4 * q + Past + 1)
                       THEN DigitOf(kept, k) ELSE Pad
      BY <1>2, <2>1, <2>2, EncodingIs
    <2>4. (IF Past = 0 THEN 4 * q ELSE 4 * q + Past + 1) = 4 * q + state
      BY <2>1, <1>1
    <2> HIDE DEF e
    <2> QED BY <2>1, <2>3, <2>4
  <1> HIDE DEF kept, e, c
  <1>4. ASSUME NEW k \in 1..c, given[k] # Space
        PROVE  Place(given, k) \in 1..(4 * q + state) /\ given[k] = e[Place(given, k)]
    <2>1. Place(given, k) \in 1..(4 * q + state)
      BY <1>1, <1>4, PlacesBefore
    <2>2. given[k] = DigitOf(target, Place(given, k))
      BY <1>4 DEF Decodes, c
    <2>3. Place(given, k) \in 1..all /\ Place(given, k) \in Nat \ {0} /\ Place(given, k) <= 4 * q + state
      BY <2>1, <1>1
    <2> QED BY <1>2, <1>3, <2>1, <2>2, <2>3
  <1>5. CASE source = <<>> /\ state = 0
    <2>1. Len(given) = c
      BY <1>1, <1>5
    <2>2. Place(given, Len(given)) = Len(e)
      BY <1>1, <1>3, <1>5, <2>1
    <2>3. \A k \in 1..Len(given) : given[k] # Space => given[k] = e[Place(given, k)]
      BY <1>4, <2>1
    <2> QED BY <2>2, <2>3 DEF ReadsAs, e, kept
  <1>6. CASE source # <<>> /\ Head(source) = Pad /\ state \in {2, 3} /\ ValidPad
    <2>1. /\ given[c + 1] = Pad /\ c + 1 \in 1..Len(given) /\ Len(source) \in Nat \ {0}
      <3>1. /\ Head(source) = given[Len(given) - Len(source) + 1]
            /\ Len(source) \in Nat \ {0}
        BY <1>1, <1>6, TailIsRest
      <3> QED BY <1>1, <1>6, <3>1
    <2>2. Pad # Space
      BY DEF Pad, Space
    <2>3. Place(given, c + 1) = 4 * q + state + 1
      BY <1>1, <2>1, <2>2, NextPlace
    <2>4. \A k \in 2..Len(source) : source[k] = given[c + k]
      BY <1>1 DEF IsRestOf
    <2>5. all = 4 * q + 4 /\ \A k \in 1..all : k > 4 * q + state => e[k] = Pad
      BY <1>1, <1>3, <1>6
    <2>6. ASSUME NEW b \in Nat, c + 1 <= b, b <= Len(given),
                 \A k \in (b + 1)..Len(given) : k - c \notin Behind
          PROVE  Place(given, Len(given)) = Place(given, b)
      <3>1. ASSUME NEW k \in (b + 1)..Len(given) PROVE given[k] = Space
        <4>1. k - c \in 2..Len(source) /\ c + (k - c) = k
          BY <1>1, <2>6
        <4>2. source[k - c] = Space
          BY <2>6, <3>1, <4>1 DEF Behind
        <4> QED BY <2>4, <4>1, <4>2
      <3> QED BY <1>1, <2>6, <3>1, NoPlaceBetween
    <2>7. CASE state = 3
      <3>1. Behind = {}
        BY <1>6, <2>7 DEF ValidPad, PaddedToTheEnd
      <3>2. Place(given, Len(given)) = 4 * q + 4
        <4>1. c + 1 \in Nat /\ c + 1 <= Len(given)
          BY <1>1, <2>1
        <4> QED BY <2>3, <2>6, <2>7, <3>1, <4>1
      <3>3. ASSUME NEW k \in 1..Len(given), given[k] # Space
            PROVE  given[k] = e[Place(given, k)]
        <4>1. CASE k \in 1..c
          BY <1>4, <3>3, <4>1
        <4>2. CASE k = c + 1
          <5>1. 4 * q + state + 1 \in 1..all /\ 4 * q + state + 1 > 4 * q + state
            BY <2>5, <2>7
          <5> QED BY <2>1, <2>3, <2>5, <4>2, <5>1
        <4>3. CASE k > c + 1
          <5>1. k - c \in 2..Len(source) /\ c + (k - c) = k
            BY <1>1, <4>3
          <5>2. k - c \in Behind
            BY <2>4, <3>3, <5>1 DEF Behind
          <5> QED BY <3>1, <5>2
        <4>4. k \in 1..c \/ k = c + 1 \/ k > c + 1
          <5>1. c \in Nat BY <1>1
          <5> QED BY ONLY <5>1, k \in 1..Len(given), Len(given) \in Nat
        <4> QED BY ONLY <4>1, <4>2, <4>3, <4>4, Zenon
      <3> QED BY <1>3, <2>5, <3>2, <3>3 DEF ReadsAs, e, kept
    <2>8. CASE state = 2
      <3>1. PICK b \in Behind : Behind = {b} /\ source[b] = Pad
        BY <1>6, <2>8 DEF ValidPad, PaddedToTheEnd
      <3>2. b \in 2..Len(source)
        BY DEF Behind
      <3> DEFINE m == c + b
      <3>3. /\ m - 1 \in Nat /\ m - 1 >= c + 1 /\ m <= Len(given) /\ m - c = b /\ (m - 1) + 1 = m
            /\ m \in Nat /\ c + 1 \in Nat
        BY <1>1, <3>2
      <3> HIDE DEF m
      <3>4. Place(given, m - 1) = Place(given, c + 1)
        <4>1. ASSUME NEW k \in (c + 1 + 1)..(m - 1) PROVE given[k] = Space
          <5>1. k - c \in 2..Len(source) /\ c + (k - c) = k /\ k - c # b
            BY <1>1, <3>2, <3>3
          <5>2. source[k - c] = Space
            BY <3>1, <5>1 DEF Behind
          <5> QED BY <2>4, <5>1, <5>2
        <4> QED BY <3>3, <4>1, NoPlaceBetween
      <3>5. given[m] = Pad
        BY <2>4, <3>1, <3>2 DEF m
      <3>6. Place(given, m) = 4 * q + 4
        <4>1. Place(given, (m - 1) + 1) = Place(given, m - 1) + 1
          BY <2>2, <3>3, <3>5, NextPlace
        <4> QED BY <2>3, <2>8, <3>3, <3>4, <4>1
      <3>7. Place(given, Len(given)) = 4 * q + 4
        <4>1. \A k \in (m + 1)..Len(given) : k - c \notin Behind
          BY <1>1, <3>1, <3>3
        <4> QED BY <2>6, <3>3, <3>6, <4>1
      <3>8. ASSUME NEW k \in 1..Len(given), given[k] # Space
            PROVE  given[k] = e[Place(given, k)]
        <4>1. CASE k \in 1..c
          BY <1>4, <3>8, <4>1
        <4>2. CASE k = c + 1
          <5>1. 4 * q + state + 1 \in 1..all /\ 4 * q + state + 1 > 4 * q + state
            BY <2>5, <2>8
          <5> QED BY <2>1, <2>3, <2>5, <4>2, <5>1
        <4>3. CASE k > c + 1
          <5>1. k - c \in 2..Len(source) /\ c + (k - c) = k
            BY <1>1, <4>3
          <5>2. k - c \in Behind
            BY <2>4, <3>8, <5>1 DEF Behind
          <5>3. k = m
            BY <1>1, <3>1, <3>3, <5>2
          <5>4. 4 * q + 4 \in 1..all /\ 4 * q + 4 > 4 * q + state
            BY <2>5, <2>8
          <5> QED BY <2>5, <3>5, <3>6, <5>3, <5>4
        <4>4. k \in 1..c \/ k = c + 1 \/ k > c + 1
          <5>1. c \in Nat BY <1>1
          <5> QED BY ONLY <5>1, k \in 1..Len(given), Len(given) \in Nat
        <4> QED BY ONLY <4>1, <4>2, <4>3, <4>4, Zenon
      <3> QED BY <1>3, <2>5, <3>7, <3>8 DEF ReadsAs, e, kept
    <2> QED BY <1>6, <2>7, <2>8
  <1> QED BY <1>5, <1>6

LEMMA FinishStep ==
    ASSUME Base64Inv, Finish
    PROVE  Base64Inv'
  <1>1. /\ job = "pton" /\ result = Running /\ Conversion
        /\ UNCHANGED <<job, given, size, source, target, state, tarindex, encoded>>
        /\ size = Unlimited => target = <<>>
        /\ size # Unlimited => Fills
        /\ \/ source # <<>> /\ Head(source) = Pad
              /\ result' = IF state \in {2, 3} /\ ValidPad THEN tarindex ELSE -1
           \/ source = <<>>
              /\ result' = IF state = 0 THEN tarindex ELSE -1
    BY DEF Base64Inv, Finish
  <1>2. PICK q \in Nat : Decodes(q) /\ (encoded # Nothing => Restores(q))
    BY <1>1 DEF Base64Inv
  <1>3. IsRestOf(source, given) /\ tarindex = 3 * q + Past
    BY <1>2 DEF Decodes
  <1>4. tarindex \in Nat /\ state \in 0..3
    BY <1>1 DEF Conversion
  <1>5. \/ result' = -1
        \/ /\ result' = tarindex
           /\ \/ source # <<>> /\ Head(source) = Pad /\ state \in {2, 3} /\ ValidPad
              \/ source = <<>> /\ state = 0
    <2>1. CASE source # <<>> /\ Head(source) = Pad
      <3>1. result' = IF state \in {2, 3} /\ ValidPad THEN tarindex ELSE -1
        BY <1>1, <2>1
      <3>2. CASE state \in {2, 3} /\ ValidPad
        BY <2>1, <3>1, <3>2, Zenon
      <3>3. CASE ~(state \in {2, 3} /\ ValidPad)
        BY <3>1, <3>3, Zenon
      <3> QED BY <3>2, <3>3
    <2>2. CASE source = <<>>
      <3>1. result' = IF state = 0 THEN tarindex ELSE -1
        BY <1>1, <2>2
      <3> QED BY <2>2, <3>1
    <2> QED BY <1>1, <2>1, <2>2
  <1>6. Conversion' /\ result' # Running
    BY <1>1, <1>4, <1>5 DEF Conversion, Running
  <1>7. size' # Unlimited => Fills'
    BY <1>1 DEF Fills
  <1>8. OneTextEach'
    <2> SUFFICES ASSUME result' >= 0, size' # Unlimited
                 PROVE  ReadsAs(given', Encoding(SubSeq(target', 1, result')))
      BY DEF OneTextEach
    <2>1. result' # -1
      OBVIOUS
    <2>2. result' = tarindex
      BY <1>5, <2>1, Zenon
    <2>3. ReadsAs(given, Encoding(SubSeq(target, 1, tarindex)))
      BY <1>1, <1>2, <1>5, <2>1, EndReads
    <2> QED BY <1>1, <2>2, <2>3
  <1>9. RoundTrip'
    <2> SUFFICES ASSUME encoded # Nothing
                 PROVE  IF size = Unlimited THEN result' = Len(encoded)
                        ELSE IF size < BytesNeeded(encoded) THEN result' = -1
                        ELSE result' = Len(encoded) /\ SubSeq(target, 1, result') = encoded
      BY <1>1 DEF RoundTrip, BytesNeeded
    <2>1. /\ source # <<>> /\ Head(source) = Pad =>
                state \in {2, 3} /\ tarindex = Len(encoded) /\ ValidPad
          /\ source = <<>> => state = 0 /\ tarindex = Len(encoded)
      BY <1>1, <1>2, <1>3, EndOfEncoded
    <2>2. result' = tarindex /\ tarindex = Len(encoded) /\ state \in {0, 2, 3}
      BY <1>1, <2>1
    <2>3. size # Unlimited => ~(size < BytesNeeded(encoded)) /\ SubSeq(target, 1, tarindex) = encoded
      BY <1>1, <1>2, <1>3, <2>2, BytesRestored
    <2> QED BY <2>2, <2>3
  <1> QED BY <1>1, <1>6, <1>7, <1>8, <1>9 DEF Base64Inv

LEMMA Base64Step ==
    ASSUME Base64Inv, [NextBase64]_base64Vars
    PROVE  Base64Inv'
  <1>1. CASE Quantum
    BY <1>1, QuantumStep
  <1>2. CASE Padded
    BY <1>2, PaddedStep
  <1>3. CASE Terminate
    BY <1>3, TerminateStep
  <1>4. CASE Digit
    BY <1>4, DigitStep
  <1>5. CASE SkipSpace
    BY <1>5, SpaceStep
  <1>6. CASE Reject
    BY <1>6, RejectStep
  <1>7. CASE Finish
    BY <1>7, FinishStep
  <1>8. CASE DecodeAgain
    BY <1>8, DecodeAgainStep
  <1>9. CASE UNCHANGED base64Vars
    <2>1. UNCHANGED <<job, given, size, source, target, state, tarindex, result, encoded>>
      BY <1>9 DEF base64Vars
    <2> QED BY <2>1 DEF Base64Inv, Conversion, Encodes, Encoded, Fills, Decodes, Restores,
                   IsRestOf, Begins, EncodedLength, Consumed, Past, RoundTrip, OneTextEach,
                   BytesNeeded
  <1> QED BY <1>1, <1>2, <1>3, <1>4, <1>5, <1>6, <1>7, <1>8, <1>9 DEF NextBase64

LEMMA Base64InvImplies ==
    ASSUME Base64Inv
    PROVE  WithinTarget /\ RoundTrip /\ OneTextEach
  <1>1. Conversion
    BY DEF Base64Inv
  <1>2. CASE job = "ntop"
    <2>1. target \in Seq(0..64) /\ given \in Seq(Octets) /\ size \in Nat /\ Len(target) \in Nat
      BY <1>1, <1>2, LenProperties DEF Conversion
    <2>2. Len(target) + (IF result >= 0 THEN 1 ELSE 0) <= size
      <3>1. CASE result = Running
        <4>1. Len(target) <= size
          BY <1>2, <3>1 DEF Base64Inv, Encodes
        <4> QED BY <2>1, <3>1, <4>1 DEF Running
      <3>2. CASE result # Running
        <4>1. Encoded
          BY <1>2, <3>2 DEF Base64Inv
        <4>2. CASE result >= 0
          <5>1. target = Encoding(given) /\ Len(target) = EncodedLength
            BY <2>1, <4>1, <4>2, EncodingLength DEF Encoded, EncodedLength
          <5> HIDE DEF EncodedLength
          <5>2. EncodedLength < size
            BY <4>1, <4>2 DEF Encoded
          <5> QED BY <2>1, <4>2, <5>1, <5>2
        <4>3. CASE ~(result >= 0)
          BY <2>1, <4>1, <4>3 DEF Encoded
        <4> QED BY <4>2, <4>3
      <3> QED BY <3>1, <3>2
    <2>3. \A k \in DOMAIN target : target[k] \in Digits \cup {Pad}
      <3>1. \A k \in DOMAIN target : target[k] \in 0..64
        BY <2>1, LenProperties, ElementOfSeq
      <3> QED BY <3>1 DEF Digits, Pad
    <2>4. result # Running => result = IF EncodedLength < size THEN EncodedLength ELSE -1
      BY <1>2 DEF Base64Inv, Encoded
    <2>5. WithinTarget
      BY <1>2, <2>2, <2>3 DEF WithinTarget
    <2>6. RoundTrip /\ OneTextEach
      BY <1>2, <2>4 DEF RoundTrip, OneTextEach
    <2> QED BY <2>5, <2>6
  <1>3. CASE job = "pton"
    <2>1. target \in Seq(Octets)
      BY <1>1, <1>3 DEF Conversion
    <2>2. WithinTarget
      <3>1. \A k \in DOMAIN target : target[k] \in Octets
        BY <2>1, LenProperties, ElementOfSeq
      <3>2. size # Unlimited => Len(target) <= size
        BY <1>3 DEF Base64Inv, Fills
      <3> QED BY <1>3, <3>1, <3>2 DEF WithinTarget, Octets
    <2>3. RoundTrip /\ OneTextEach
      <3>1. CASE result = Running
        BY <1>3, <3>1 DEF RoundTrip, OneTextEach, Running
      <3>2. CASE result # Running
        BY <1>3, <3>2 DEF Base64Inv
      <3> QED BY <3>1, <3>2
    <2> QED BY <2>2, <2>3
  <1> QED BY <1>1, <1>2, <1>3 DEF Conversion

LEMMA Base64Invariant == Base64Spec => []Base64Inv
  <1>1. InitBase64 => Base64Inv
    BY Base64Init
  <1>2. Base64Inv /\ [NextBase64]_base64Vars => Base64Inv'
    BY Base64Step
  <1> QED BY <1>1, <1>2, PTL DEF Base64Spec

(* Neither b64_ntop nor b64_pton writes past its target, whatever it is    *)
(* given, and they write characters of base64 and bytes.                   *)
THEOREM Base64StaysWithinTarget == Base64Spec => []WithinTarget
  <1>1. Base64Inv => WithinTarget
    BY Base64InvImplies
  <1> QED BY <1>1, Base64Invariant, PTL

(* b64_pton gives back the bytes that b64_ntop was given, however many,    *)
(* and both fail exactly when there is too little room.                    *)
THEOREM Base64RoundTrip == Base64Spec => []RoundTrip
  <1>1. Base64Inv => RoundTrip
    BY Base64InvImplies
  <1> QED BY <1>1, Base64Invariant, PTL

(* b64_pton accepts one text for given bytes, but for white space: the one *)
(* that b64_ntop makes.                                                    *)
THEOREM Base64OneTextEach == Base64Spec => []OneTextEach
  <1>1. Base64Inv => OneTextEach
    BY Base64InvImplies
  <1> QED BY <1>1, Base64Invariant, PTL
=============================================================================
