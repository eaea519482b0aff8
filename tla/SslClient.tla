----------------------------- MODULE SslClient -----------------------------
(***************************************************************************)
(* The copy loop of main/busybox/ssl_client.c between a TLS session and    *)
(* the standard streams, with the program that uses it (stdin, stdout) and *)
(* the server at the other end.                                            *)
(*                                                                         *)
(* Request and reply are numbered bytes.  A pipe or socket holds up to     *)
(* Capacity of them, and a blocking write waits until all it has fits.     *)
(* The server may send a session ticket, as TLS 1.3 servers do: a record   *)
(* without data.  Handshake and options are left out.                      *)
(***************************************************************************)
EXTENDS Integers, Sequences

CONSTANTS Requests, Replies,  \* how many bytes there are of each
          Capacity,           \* of a pipe or a socket
          Width               \* sizeof (size_t), that of an element of buf

ASSUME AmountsAreNatural == Requests \in Nat /\ Replies \in Nat /\ Capacity \in Nat
ASSUME WidthIsPositive == Width \in Nat \ {0}

VARIABLES pc,
          fd0, revents1,      \* is stdin still polled?  what poll said of TLS
          buf, i, n,          \* locals of the copying functions
          stdin, stdinOpen,   \* given by the user and not yet read
          stdout, out,        \* not yet, and already, read by the user
          toServer, got,      \* not yet, and already, read by the server
          fromServer, serverOpen,
          asked, sent,        \* how much of request and reply has been written
          prompted,           \* does the server wait for the whole request?
          short, ticket       \* history: a short write on stdout, a ticket read

client == <<pc, fd0, revents1, buf, i, n, short, ticket>>
user == <<asked, stdinOpen, out>>
server == <<sent, serverOpen, got, prompted>>
pipes == <<stdin, stdout, toServer, fromServer>>
vars == <<client, user, server, pipes>>

Ticket == 0
Stale == 0      \* a byte that is in the buffer from before

Init ==
    /\ pc = "poll" /\ fd0 = TRUE /\ revents1 = FALSE
    /\ buf = <<>> /\ i = 0 /\ n = 0
    /\ stdin = <<>> /\ stdinOpen = TRUE /\ stdout = <<>> /\ out = <<>>
    /\ toServer = <<>> /\ got = <<>> /\ fromServer = <<>> /\ serverOpen = TRUE
    /\ asked = 0 /\ sent = 0 /\ prompted \in BOOLEAN
    /\ short = FALSE /\ ticket = FALSE

-----------------------------------------------------------------------------
(* poll waits until one of the descriptors has something.                  *)
Poll ==
    /\ pc = "poll"
    /\ LET ready0 == fd0 /\ (stdin # <<>> \/ ~stdinOpen)
           ready1 == fromServer # <<>> \/ ~serverOpen
       IN /\ ready0 \/ ready1
          /\ pc' = IF ready0 THEN "read_stdin" ELSE "read_tls"
          /\ revents1' = ready1
    /\ UNCHANGED <<fd0, buf, i, n, short, ticket, user, server, pipes>>

Afterwards == IF revents1 THEN "read_tls" ELSE "poll"

(* Error: the end of the input is not remembered.                          *)
EndOfInputIgnored ==
    /\ pc = "read_stdin" /\ stdin = <<>>
    /\ pc' = "poll"
    /\ UNCHANGED <<fd0, revents1, buf, i, n, short, ticket, user, server, pipes>>

(* The end of the input, or an error: stdin is polled no more.             *)
EndOfInput ==
    /\ pc = "read_stdin" /\ stdin = <<>>
    /\ fd0' = FALSE
    /\ pc' = Afterwards
    /\ UNCHANGED <<revents1, buf, i, n, short, ticket, user, server, pipes>>

ReadStdin ==
    /\ pc = "read_stdin" /\ stdin # <<>>
    /\ buf' = stdin /\ i' = 0 /\ n' = Len(stdin)
    /\ stdin' = <<>>
    /\ pc' = "write_tls"
    /\ UNCHANGED <<fd0, revents1, short, ticket, user, server, stdout, toServer, fromServer>>

(* Error: the end of what was read is not written.                         *)
WriteTlsOnce ==
    /\ pc = "write_tls" /\ serverOpen
    /\ Len(toServer) + 1 <= Capacity
    /\ toServer' = Append(toServer, Head(buf))
    /\ i' = n /\ n' = 0
    /\ pc' = Afterwards
    /\ UNCHANGED <<fd0, revents1, buf, short, ticket, user, server, stdin, stdout, fromServer>>

(* Without SSL_MODE_ENABLE_PARTIAL_WRITE SSL_write takes all or waits.     *)
WriteTls ==
    /\ pc = "write_tls" /\ serverOpen
    /\ Len(toServer) + n <= Capacity
    /\ toServer' = toServer \o buf
    /\ i' = n /\ n' = 0
    /\ pc' = Afterwards
    /\ UNCHANGED <<fd0, revents1, buf, short, ticket, user, server, stdin, stdout, fromServer>>

(* The server is gone: ssl_fatal.                                          *)
WriteFails ==
    /\ pc = "write_tls" /\ ~serverOpen
    /\ pc' = "fatal"
    /\ UNCHANGED <<fd0, revents1, buf, i, n, short, ticket, user, server, pipes>>

-----------------------------------------------------------------------------
(* With SSL_MODE_AUTO_RETRY SSL_read does not return after a record that   *)
(* has no data, but waits for the next.                                    *)
ReadTicket ==
    /\ pc = "read_tls" /\ fromServer # <<>> /\ Head(fromServer) = Ticket
    /\ fromServer' = Tail(fromServer)
    /\ ticket' = TRUE
    /\ UNCHANGED <<pc, fd0, revents1, buf, i, n, short, user, server, stdin, stdout, toServer>>

ReadTls ==
    /\ pc = "read_tls"
    /\ \E k \in 1..Len(fromServer) :
        /\ \A j \in 1..k : fromServer[j] # Ticket
        /\ buf' = SubSeq(fromServer, 1, k) /\ i' = 0 /\ n' = k
        /\ fromServer' = SubSeq(fromServer, k + 1, Len(fromServer))
    /\ pc' = "write_stdout"
    /\ UNCHANGED <<fd0, revents1, short, ticket, user, server, stdin, stdout, toServer>>

(* Error: the session is taken for ended when nothing has arrived yet.     *)
EndOfSessionEarly ==
    /\ pc = "read_tls" /\ fromServer = <<>>
    /\ pc' = "done"
    /\ UNCHANGED <<fd0, revents1, buf, i, n, short, ticket, user, server, pipes>>

EndOfSession ==
    /\ pc = "read_tls" /\ fromServer = <<>> /\ ~serverOpen
    /\ pc' = "done"
    /\ UNCHANGED <<fd0, revents1, buf, i, n, short, ticket, user, server, pipes>>

(* The session is broken off, or what arrives is no record: ssl_fatal.     *)
ReadFails ==
    /\ pc = "read_tls" /\ (fromServer # <<>> \/ ~serverOpen)
    /\ pc' = "read_failed"
    /\ UNCHANGED <<fd0, revents1, buf, i, n, short, ticket, user, server, pipes>>

(* write is given &buf[i], where buf is an array of size_t: after a short  *)
(* write of i bytes it goes on Width * i bytes behind the beginning.       *)
Bytes(r) ==
    [k \in 1..r |-> IF Width * i + k <= Len(buf) THEN buf[Width * i + k] ELSE Stale]

WriteStdout ==
    /\ pc = "write_stdout"
    /\ \E r \in 1..n :
        /\ Len(stdout) + r <= Capacity
        /\ stdout' = stdout \o Bytes(r)
        /\ i' = i + r /\ n' = n - r
        /\ pc' = IF r = n THEN "poll" ELSE "write_stdout"
        /\ short' = (short \/ r < n)
    /\ UNCHANGED <<fd0, revents1, buf, ticket, user, server, stdin, toServer, fromServer>>

(* stdout is closed, or full: err.                                         *)
WriteStdoutFails ==
    /\ pc = "write_stdout"
    /\ pc' = "write_failed"
    /\ UNCHANGED <<fd0, revents1, buf, i, n, short, ticket, user, server, pipes>>

Client == Poll \/ EndOfInput \/ ReadStdin \/ WriteTls \/ WriteFails
          \/ ReadTicket \/ ReadTls \/ EndOfSession \/ ReadFails
          \/ WriteStdout \/ WriteStdoutFails

-----------------------------------------------------------------------------
Ask ==
    /\ asked < Requests /\ Len(stdin) < Capacity
    /\ asked' = asked + 1
    /\ stdin' = Append(stdin, asked + 1)
    /\ UNCHANGED <<client, server, stdinOpen, out, stdout, toServer, fromServer>>

CloseStdin ==
    /\ asked = Requests /\ stdinOpen
    /\ stdinOpen' = FALSE
    /\ UNCHANGED <<client, server, pipes, asked, out>>

ReadStdout ==
    /\ stdout # <<>>
    /\ out' = Append(out, Head(stdout)) /\ stdout' = Tail(stdout)
    /\ UNCHANGED <<client, server, asked, stdinOpen, stdin, toServer, fromServer>>

User == Ask \/ ReadStdout

Receive ==
    /\ toServer # <<>>
    /\ got' = Append(got, Head(toServer)) /\ toServer' = Tail(toServer)
    /\ UNCHANGED <<client, user, sent, serverOpen, prompted, stdin, stdout, fromServer>>

Reply ==
    /\ serverOpen /\ sent < Replies /\ Len(fromServer) < Capacity
    /\ prompted => Len(got) = Requests
    /\ sent' = sent + 1
    /\ fromServer' = Append(fromServer, sent + 1)
    /\ UNCHANGED <<client, user, serverOpen, got, prompted, stdin, stdout, toServer>>

SendTicket ==
    /\ serverOpen /\ sent = 0 /\ Len(fromServer) < Capacity
    /\ ~ticket /\ Ticket \notin {fromServer[k] : k \in DOMAIN fromServer}
    /\ fromServer' = Append(fromServer, Ticket)
    /\ UNCHANGED <<client, user, server, stdin, stdout, toServer>>

(* When it has replied, or before, if it wishes                            *)
Close ==
    /\ serverOpen /\ serverOpen' = FALSE
    /\ UNCHANGED <<client, user, pipes, sent, got, prompted>>

Server == Receive \/ Reply \/ (sent = Replies /\ Close)

Next == Client \/ User \/ CloseStdin \/ Server \/ SendTicket \/ Close

Spec == Init /\ [][Next]_vars

(* The client runs, the user writes its request and reads what it gets,    *)
(* the server reads, replies and closes.                                   *)
FairSpec == Spec /\ WF_vars(Client) /\ WF_vars(User) /\ WF_vars(Server)

-----------------------------------------------------------------------------
UpTo(k) == [j \in 1..k |-> j]

(* The bytes among what the server has sent: a ticket is ahead of them.    *)
Data(s) == IF s # <<>> /\ Head(s) = Ticket THEN Tail(s) ELSE s

TypeOK ==
    /\ pc \in {"poll", "read_stdin", "write_tls", "read_tls", "write_stdout",
               "done", "fatal", "read_failed", "write_failed"}
    /\ {fd0, revents1, stdinOpen, serverOpen, prompted, short, ticket} \subseteq BOOLEAN
    /\ asked \in 0..Requests /\ sent \in 0..Replies
    /\ i \in 0..Capacity /\ n \in 0..Capacity
    /\ \A s \in {buf, stdin, stdout, toServer, fromServer} : Len(s) <= Capacity

(* The request arrives as it was given, and nothing of it is lost on the   *)
(* way, unless the server is gone.                                         *)
RequestInOrder ==
    got \o toServer \o (IF pc \in {"write_tls", "fatal"} THEN buf ELSE <<>>) \o stdin
        = UpTo(asked)

(* As many bytes of the reply as were sent are on the way or there, and,   *)
(* until stdout takes less than it is given, they are those bytes.         *)
ReplyInOrder ==
    LET pending == IF pc \in {"write_stdout", "write_failed"} THEN Bytes(n) ELSE <<>>
        all == out \o stdout \o pending \o Data(fromServer)
    IN Len(all) = sent /\ (short \/ all = UpTo(sent))

StreamsInOrder == TypeOK /\ RequestInOrder /\ ReplyInOrder

(* The loop ends, or, as poll does not tell a ticket from data, it waits   *)
(* in SSL_read for a reply to what it has not read from stdin.             *)
Waiting == pc = "read_tls" /\ ticket /\ prompted

EndsOrWaits ==
    <>(pc \in {"done", "fatal", "read_failed", "write_failed"}) \/ <>[]Waiting

(* When the session has ended the user gets all that the server has sent.  *)
AllArrives == pc = "done" /\ ~short ~> out = UpTo(sent)
=============================================================================
