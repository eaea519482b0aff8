--------------------------- MODULE Aaudit_proofs ----------------------------
(***************************************************************************)
(* Theorems about Aaudit, for every set of files, contents, requests and   *)
(* bounds.  Type correctness holds for any number of processes; that the   *)
(* audit log is kept, for processes that run one after the other.          *)
(***************************************************************************)
EXTENDS AauditProps, SequenceTheorems, TLAPS

LEMMA SingletonIsSeq == ASSUME NEW T, NEW t \in T PROVE <<t>> \in Seq(T)
  OBVIOUS

LEMMA ReplacedTipIsSeq ==
    ASSUME NEW T, NEW c \in Seq(T), c # <<>>, NEW t \in T
    PROVE  [c EXCEPT ![Len(c)] = t] \in Seq(T)
  OBVIOUS

(* fast-import leaves a branch where it is or moves it to the new commit.  *)
LEMMA MovedIsSeq ==
    ASSUME NEW b \in Seq(Trees), NEW c \in Seq(Trees)
    PROVE  Moved(b, c) \in Seq(Trees)
  BY DEF Moved

LEMMA EmptyTreeIsTree == EmptyTree \in Trees
  BY DEF EmptyTree, Trees, Log!EmptyTree, Log!Trees

(* What a killed writer leaves for fast-import to commit is a commit.      *)
LEMMA TornIsSeq ==
    ASSUME TypeOK, NEW p \in Handlers, NEW c \in Torn(p)
    PROVE  c \in Seq(Trees)
  <1>1. CASE pc[p] = "stream"
    <2>1. c = <<EmptyTree>>
      BY <1>1 DEF Torn
    <2> QED
      BY <2>1, EmptyTreeIsTree, SingletonIsSeq
  <1>2. CASE pc[p] = "close" /\ own[p] # <<>>
    <2>1. PICK t \in Partial(snap[p]) : c = [own[p] EXCEPT ![Len(own[p])] = t]
      BY <1>2 DEF Torn
    <2>2. t \in Trees
      BY <2>1 DEF Partial
    <2>3. own[p] \in Seq(Trees)
      BY DEF TypeOK
    <2> QED
      BY <1>2, <2>1, <2>2, <2>3, ReplacedTipIsSeq
  <1>3. CASE pc[p] # "stream" /\ ~(pc[p] = "close" /\ own[p] # <<>>)
    BY <1>3 DEF Torn
  <1> QED
    BY <1>1, <1>2, <1>3

LEMMA InitTypeOK == Init => TypeOK
  <1> SUFFICES ASSUME Init PROVE TypeOK
    OBVIOUS
  <1>1. <<>> \in Seq(Trees)
    OBVIOUS
  <1>2. edits \in 0..MaxEdits /\ crashes \in 0..MaxCrashes
    BY BoundsAreNaturals DEF Init
  <1>3. own \in [Handlers -> Seq(Trees)] /\ shown \in [Handlers -> Seq(Trees)]
    BY <1>1 DEF Init
  <1> QED
    BY <1>1, <1>2, <1>3, EmptyTreeIsTree DEF Init, TypeOK, HostTrees, Steps, Replies

(* Answering puts the handler back in the shape it starts in.              *)
LEMMA AnswerTypeOK ==
    ASSUME TypeOK, NEW p \in Handlers, NEW r \in Replies, Answer(p, r)
    PROVE  /\ pc' \in [Handlers -> Steps] /\ reply' \in [Handlers -> Replies]
           /\ conf' \in [Handlers -> BOOLEAN]
           /\ own' \in [Handlers -> Seq(Trees)]
           /\ shown' \in [Handlers -> Seq(Trees)]
  <1>1. <<>> \in Seq(Trees)
    OBVIOUS
  <1> QED
    BY <1>1 DEF Answer, TypeOK, Steps

LEMMA StepTypeOK ==
    ASSUME TypeOK, NEW p \in Handlers, Step(p)
    PROVE  TypeOK'
  <1> USE DEF TypeOK, vars, repo, world, request, Goto
  <1>1. CASE Access(p)
    <2>1. CASE \E r \in Replies : Answer(p, r)
      BY <1>1, <2>1, AnswerTypeOK DEF Access
    <2>2. CASE \E s \in Steps : Goto(p, "access", s)
                                /\ UNCHANGED <<conf, own, shown, reply>>
      BY <1>1, <2>2 DEF Access
    <2> QED
      BY <1>1, <2>1, <2>2 DEF Access, Steps, Replies
  <1>2. CASE InitRepository(p) \/ TruncateConfig(p) \/ FillConfig(p) \/ AddKnownHost(p)
    BY <1>2 DEF InitRepository, TruncateConfig, FillConfig, AddKnownHost, Steps
  <1>3. CASE LoadConfig(p)
    BY <1>3 DEF LoadConfig, Steps
  <1>4. CASE StreamCommit(p)
    <2>1. <<host>> \in Seq(Trees)
      BY SingletonIsSeq
    <2>2. Append(master, host) \in Seq(Trees)
      BY AppendProperties
    <2>3. own' \in [Handlers -> Seq(Trees)]
      BY <1>4, <2>1, <2>2 DEF StreamCommit
    <2> QED
      BY <1>4, <2>3 DEF StreamCommit, Steps
  <1>5. CASE StreamRejected(p)
    BY <1>5 DEF StreamRejected, Steps
  <1>6. CASE StreamBroken(p)
    BY <1>6, AnswerTypeOK DEF StreamBroken, Replies
  <1>7. CASE CloseImport(p)
    <2>1. import' \in Seq(Trees)
      BY <1>7, MovedIsSeq DEF CloseImport
    <2> QED
      BY <1>7, <2>1 DEF CloseImport, Steps
  <1>8. CASE TouchStamp(p)
    BY <1>8 DEF TouchStamp, Steps
  <1>9. CASE GenerateDiff(p)
    BY <1>9 DEF GenerateDiff, Steps
  <1>10. CASE MailAccepted(p)
    BY <1>10 DEF MailAccepted, Steps
  <1>11. CASE MailFailed(p)
    BY <1>11 DEF MailFailed, Steps
  <1>12. CASE Refuse(p) \/ Drop(p) \/ Unlink(p)
    <2>1. <<>> \in Seq(Trees)
      OBVIOUS
    <2> QED
      BY <1>12, <2>1, AnswerTypeOK DEF Refuse, Drop, Unlink, DeleteImport, Replies
  <1>13. CASE Publish(p)
    BY <1>13 DEF Publish, Steps
  <1> QED
    BY <1>1, <1>2, <1>3, <1>4, <1>5, <1>6, <1>7, <1>8, <1>9, <1>10, <1>11,
       <1>12, <1>13 DEF Step

LEMMA NextTypeOK ==
    ASSUME TypeOK, [Next]_vars
    PROVE  TypeOK'
  <1> USE DEF vars, repo, world, request
  <1>1. CASE \E p \in Handlers : Step(p)
    BY <1>1, StepTypeOK
  <1>2. CASE \E p \in Handlers : Crash(p)
    <2>1. PICK p \in Handlers : Crash(p)
      BY <1>2
    <2>2. PICK c \in Torn(p) \cup {<<>>} : import' = Moved(import, c)
      BY <2>1 DEF Crash
    <2>3. c \in Seq(Trees)
      <3>1. <<>> \in Seq(Trees)
        OBVIOUS
      <3> QED
        BY <2>2, <3>1, TornIsSeq
    <2>4. import' \in Seq(Trees)
      BY <2>2, <2>3, MovedIsSeq DEF TypeOK
    <2>5. crashes' \in 0..MaxCrashes
      BY <2>1, BoundsAreNaturals DEF Crash, TypeOK
    <2>6. /\ pc' \in [Handlers -> Steps] /\ reply' \in [Handlers -> Replies]
          /\ conf' \in [Handlers -> BOOLEAN]
          /\ own' \in [Handlers -> Seq(Trees)]
          /\ shown' \in [Handlers -> Seq(Trees)]
      BY <2>1, AnswerTypeOK DEF Crash, Replies
    <2> QED
      BY <2>1, <2>4, <2>5, <2>6 DEF Crash, TypeOK
  <1>3. CASE \E p \in Handlers, k \in Kinds : Request(p, k)
    BY <1>3, EmptyTreeIsTree DEF Request, TypeOK, Steps, Replies
  <1>4. CASE \E t \in HostTrees : Edit(t)
    BY <1>4, BoundsAreNaturals DEF Edit, TypeOK, HostTrees
  <1>5. CASE Expire
    BY <1>5 DEF Expire, TypeOK
  <1>6. CASE UNCHANGED vars
    BY <1>6 DEF TypeOK
  <1> QED
    BY <1>1, <1>2, <1>3, <1>4, <1>5, <1>6 DEF Next

(* Every variable keeps its type, however many processes are at work and   *)
(* whenever they are killed.                                               *)
THEOREM TypeCorrect == Spec => []TypeOK
  BY InitTypeOK, NextTypeOK, PTL DEF Spec

-----------------------------------------------------------------------------
(* Processes that overlap.  While an import branch exists and nothing was  *)
(* killed, some process is on the way to delete it: repo_update deletes    *)
(* the branch on each of its ways out.                                     *)
Cleaning(p) == pc[p] \in {"stamp", "diff", "mail", "refuse", "publish", "unlink", "drop"}

SomebodyCleans == crashes = 0 /\ import # <<>> => \E p \in Handlers : Cleaning(p)

LEMMA SomebodyCleansStep ==
    ASSUME TypeOK, SomebodyCleans, [Next]_vars
    PROVE  SomebodyCleans'
  <1> USE DEF SomebodyCleans, Cleaning, vars, repo, world, request
  <1>1. pc \in [Handlers -> Steps] /\ crashes \in Nat
    BY BoundsAreNaturals DEF TypeOK
  <1>2. ASSUME NEW p \in Handlers, Step(p) PROVE SomebodyCleans'
    <2>1. crashes' = crashes
      BY <1>2 DEF Step, Access, InitRepository, TruncateConfig, FillConfig, AddKnownHost,
         LoadConfig, StreamCommit, StreamRejected, StreamBroken, CloseImport, TouchStamp,
         GenerateDiff, MailAccepted, MailFailed, Refuse, Drop, Publish, Unlink, DeleteImport
    <2>2. CASE CloseImport(p) \/ TouchStamp(p) \/ GenerateDiff(p) \/ MailAccepted(p)
               \/ MailFailed(p) \/ Publish(p)
      <3>1. Cleaning(p)'
        BY <1>1, <2>2 DEF CloseImport, TouchStamp, GenerateDiff, MailAccepted, MailFailed,
           Publish, Goto
      <3> QED
        BY <3>1
    <2>3. CASE Refuse(p) \/ Drop(p) \/ Unlink(p)
      BY <2>3 DEF Refuse, Drop, Unlink, DeleteImport
    <2>4. CASE Access(p) \/ InitRepository(p) \/ TruncateConfig(p) \/ FillConfig(p)
               \/ AddKnownHost(p) \/ LoadConfig(p)
               \/ StreamCommit(p) \/ StreamRejected(p) \/ StreamBroken(p)
      <3>1. ~Cleaning(p) /\ import' = import
            /\ \A q \in Handlers \ {p} : pc'[q] = pc[q]
        BY <1>1, <2>4 DEF Access, InitRepository, TruncateConfig, FillConfig, AddKnownHost,
           LoadConfig, StreamCommit, StreamRejected, StreamBroken, Goto, Answer
      <3> QED
        BY <2>1, <3>1
    <2> QED
      BY <1>2, <2>2, <2>3, <2>4 DEF Step
  <1>3. ASSUME NEW p \in Handlers, Crash(p) PROVE SomebodyCleans'
    <2>1. crashes' # 0
      BY <1>1, <1>3 DEF Crash
    <2> QED
      BY <2>1
  <1>4. ASSUME NEW p \in Handlers, NEW k \in Kinds, Request(p, k) PROVE SomebodyCleans'
    <2>1. ~Cleaning(p) /\ import' = import /\ crashes' = crashes
          /\ \A q \in Handlers \ {p} : pc'[q] = pc[q]
      BY <1>1, <1>4 DEF Request
    <2> QED
      BY <2>1
  <1>5. CASE (\E t \in HostTrees : Edit(t)) \/ Expire \/ UNCHANGED vars
    BY <1>5 DEF Edit, Expire
  <1> QED
    BY <1>2, <1>3, <1>4, <1>5 DEF Next

(* Any number of processes, of any kind, clean up after each other: unless *)
(* one was killed the import branch is gone when all have answered.        *)
THEOREM OverlappingCleanUp == Spec => []NothingLeftBehind
  <1>1. Init => SomebodyCleans
    BY DEF Init, SomebodyCleans
  <1>2. TypeOK /\ SomebodyCleans /\ [Next]_vars => SomebodyCleans'
    BY SomebodyCleansStep
  <1>3. SomebodyCleans => NothingLeftBehind
    BY DEF SomebodyCleans, NothingLeftBehind, Cleaning
  <1> QED
    BY <1>1, <1>2, <1>3, TypeCorrect, PTL DEF Spec

(* Creating.  Until there is a master nobody deletes the import branch, so *)
(* that every process that has got as far as fast-import's end finds one,  *)
(* with the files of the host, that it can publish.                        *)
OnlyCreates == Kinds = {"create"} /\ MaxCrashes = 0

Root(c) == \E t \in HostTrees : c = <<t>>

CreatesInv ==
    master = <<>> =>
    /\ import = <<>> \/ Root(import)
    /\ \A p \in Handlers :
        /\ pc[p] \in {"idle", "access", "init", "truncate", "fill", "hostkey", "load", "stream",
                      "close", "stamp", "diff", "publish"}
        /\ pc[p] = "close" => Root(own[p])
        /\ pc[p] \in {"stamp", "diff", "publish"} => Root(import)
        /\ reply[p] \notin {"Committed", "NoChanges"}

LEMMA RootFacts ==
    ASSUME NEW c, Root(c)
    PROVE  c # <<>> /\ Log!HasChanges(c) /\ c \in Seq(Trees)
  <1>1. PICK t \in HostTrees : c = <<t>>
    BY DEF Root
  <1>2. c # <<>> /\ Len(c) = 1 /\ c[1] = t
    BY <1>1
  <1>3. t \in [Files -> Contents \cup {Absent}] /\ t # [f \in Files |-> Absent]
    BY DEF HostTrees, Trees, EmptyTree, Log!Trees, Log!EmptyTree
  <1>4. PICK f \in Files : t[f] # Absent
    BY <1>3
  <1>5. f \in Log!Touched(c)
    BY <1>2, <1>4 DEF Log!Touched, Log!Before, Log!EmptyTree
  <1> QED
    BY <1>1, <1>2, <1>5 DEF Log!HasChanges, HostTrees

LEMMA CreatesStep ==
    ASSUME OnlyCreates, TypeOK, host \in HostTrees, CreatesInv, NEW p \in Handlers, Step(p)
    PROVE  CreatesInv'
  <1> SUFFICES ASSUME master' = <<>> PROVE CreatesInv'
    BY DEF CreatesInv
  <1> USE DEF vars, repo, world, request, Goto
  <1>1. /\ pc \in [Handlers -> Steps] /\ own \in [Handlers -> Seq(Trees)]
        /\ reply \in [Handlers -> Replies] /\ \A q \in Handlers : Initial(q)
    BY DEF TypeOK, OnlyCreates, Initial
  <1>2. CASE Publish(p)
    <2>1. CASE master = <<>>
      BY <1>2, <2>1, RootFacts DEF Publish, CreatesInv
    <2>2. CASE master # <<>>
      BY <1>2, <2>2 DEF Publish
    <2> QED
      BY <2>1, <2>2
  <1>3. CASE ~Publish(p)
    <2>1. master = <<>>
      BY <1>3 DEF Step, Access, InitRepository, TruncateConfig, FillConfig, AddKnownHost,
         LoadConfig, StreamCommit, StreamRejected, StreamBroken, CloseImport, TouchStamp,
         GenerateDiff, MailAccepted, MailFailed, Refuse, Drop, Unlink, DeleteImport
    <2> USE <2>1 DEF CreatesInv
    <2>2. CASE Access(p)
      BY <1>1, <2>2 DEF Access, Answer
    <2>3. CASE InitRepository(p) \/ TruncateConfig(p) \/ FillConfig(p) \/ AddKnownHost(p)
      BY <1>1, <2>3 DEF InitRepository, TruncateConfig, FillConfig, AddKnownHost
    <2>4. CASE LoadConfig(p)
      BY <1>1, <2>4 DEF LoadConfig
    <2>5. CASE StreamCommit(p)
      <3>1. own' = [own EXCEPT ![p] = <<host>>] /\ Root(<<host>>)
        BY <1>1, <2>5 DEF StreamCommit, Root
      <3> QED
        BY <1>1, <2>5, <3>1 DEF StreamCommit
    <2>6. CASE StreamRejected(p)
      BY <1>1, <2>6 DEF StreamRejected
    <2>7. CASE StreamBroken(p)
      BY <1>1, <2>7 DEF StreamBroken, Answer
    <2>8. CASE CloseImport(p)
      <3>1. Root(import')
        <4>1. IsAncestor(<<>>, own[p])
          <5>1. own[p] \in Seq(Trees) /\ Len(<<>>) = 0 /\ Len(own[p]) \in Nat
                /\ <<>> = SubSeq(own[p], 1, 0)
            BY <1>1
          <5> QED
            BY <5>1 DEF IsAncestor
        <4> QED
          BY <2>8, <4>1, RootFacts DEF CloseImport, Moved
      <3> QED
        BY <1>1, <2>8, <3>1 DEF CloseImport
    <2>9. CASE TouchStamp(p)
      BY <1>1, <2>9 DEF TouchStamp
    <2>10. CASE GenerateDiff(p)
      <3>1. Changed
        BY <2>10, RootFacts DEF GenerateDiff, Changed
      <3>2. pc' = [pc EXCEPT ![p] = "publish"]
        BY <1>1, <2>10, <3>1 DEF GenerateDiff, MailNeeded
      <3> QED
        BY <1>1, <2>10, <3>2 DEF GenerateDiff
    <2>11. CASE MailAccepted(p) \/ MailFailed(p) \/ Refuse(p) \/ Drop(p) \/ Unlink(p)
      BY <2>11 DEF MailAccepted, MailFailed, Refuse, Drop, Unlink, DeleteImport
    <2> QED
      BY <1>3, <2>2, <2>3, <2>4, <2>5, <2>6, <2>7, <2>8, <2>9, <2>10, <2>11 DEF Step
  <1> QED
    BY <1>2, <1>3

(* The host's tree is never without files.                                 *)
HostHasFiles == host \in HostTrees

LEMMA HostStep ==
    ASSUME HostHasFiles, [Next]_vars
    PROVE  HostHasFiles'
  <1> USE DEF HostHasFiles, vars, repo, world, request
  <1>1. ASSUME NEW p \in Handlers, Step(p) PROVE HostHasFiles'
    BY <1>1 DEF Step, Access, InitRepository, TruncateConfig, FillConfig, AddKnownHost,
       LoadConfig, StreamCommit, StreamRejected, StreamBroken, CloseImport, TouchStamp,
       GenerateDiff, MailAccepted, MailFailed, Refuse, Drop, Publish, Unlink, DeleteImport
  <1>2. CASE ~(\E p \in Handlers : Step(p))
    BY <1>2 DEF Next, Crash, Request, Edit, Expire
  <1> QED
    BY <1>1, <1>2

LEMMA CreatesNext ==
    ASSUME OnlyCreates, TypeOK, HostHasFiles, CreatesInv, [Next]_vars
    PROVE  CreatesInv'
  <1>1. /\ pc \in [Handlers -> Steps] /\ reply \in [Handlers -> Replies]
    BY DEF TypeOK
  <1>2. CASE \E p \in Handlers : Step(p)
    BY <1>2, CreatesStep DEF HostHasFiles
  <1>3. CASE \E p \in Handlers : Crash(p)
    BY <1>3 DEF Crash, OnlyCreates, TypeOK
  <1>4. CASE \E p \in Handlers, k \in Kinds : Request(p, k)
    BY <1>1, <1>4 DEF Request, CreatesInv, repo, world
  <1>5. CASE (\E t \in HostTrees : Edit(t)) \/ Expire \/ UNCHANGED vars
    BY <1>5 DEF Edit, Expire, CreatesInv, vars, repo, world, request
  <1> QED
    BY <1>2, <1>3, <1>4, <1>5 DEF Next

(* However many administrators create the repository of a host at once,    *)
(* none killed: when all have their answers, and any of them was told that *)
(* it succeeded, there is a master.                                        *)
THEOREM RacingCreates ==
    ASSUME OnlyCreates
    PROVE  Spec => []RacingCreatesPublish
  <1>1. Init => CreatesInv /\ HostHasFiles
    BY DEF Init, CreatesInv, HostHasFiles
  <1>2. TypeOK /\ HostHasFiles /\ CreatesInv /\ [Next]_vars => CreatesInv' /\ HostHasFiles'
    BY CreatesNext, HostStep
  <1>3. CreatesInv => RacingCreatesPublish
    BY DEF CreatesInv, RacingCreatesPublish
  <1> QED
    BY <1>1, <1>2, <1>3, TypeCorrect, PTL DEF Spec

-----------------------------------------------------------------------------
(***************************************************************************)
(* Processes that run one after the other keep the audit log, whatever is  *)
(* killed and whichever mail is refused in between: Aaudit implements      *)
(* AuditLog when there is at most one handler at a time.                   *)
(***************************************************************************)

OneAtATime == \A p, q \in Handlers : p = q

LEMMA AppendFacts ==
    ASSUME NEW c \in Seq(Trees), NEW t \in Trees
    PROVE  /\ Append(c, t) \in Seq(Trees) /\ Append(c, t) # <<>>
           /\ Len(Append(c, t)) = Len(c) + 1 /\ Append(c, t) # c
           /\ IsAncestor(c, Append(c, t)) /\ IsAncestor(<<>>, Append(c, t))
  <1>1. /\ Append(c, t) \in Seq(Trees) /\ Append(c, t) # <<>>
        /\ Len(Append(c, t)) = Len(c) + 1
    BY AppendProperties
  <1>2. c = SubSeq(Append(c, t), 1, Len(c))
    OBVIOUS
  <1>3. <<>> = SubSeq(Append(c, t), 1, 0)
    OBVIOUS
  <1>4. Len(c) \in Nat /\ Len(<<>>) = 0
    OBVIOUS
  <1>5. Append(c, t) # c
    BY <1>1, <1>4
  <1>6. IsAncestor(c, Append(c, t))
    BY <1>1, <1>2, <1>4 DEF IsAncestor
  <1>7. IsAncestor(<<>>, Append(c, t))
    BY <1>1, <1>3, <1>4 DEF IsAncestor
  <1> QED
    BY <1>1, <1>5, <1>6, <1>7

LEMMA ReplacedTipOfAppend ==
    ASSUME NEW T, NEW c \in Seq(T), NEW s \in T, NEW t \in T,
           NEW a, a = Append(c, s)
    PROVE  [a EXCEPT ![Len(a)] = t] = Append(c, t)
  <1> DEFINE d == [a EXCEPT ![Len(a)] = t]
  <1>1. a \in Seq(T) /\ Len(a) = Len(c) + 1 /\ a # <<>>
    BY AppendProperties
  <1>2. Append(c, t) \in Seq(T) /\ Len(Append(c, t)) = Len(c) + 1
    BY AppendProperties
  <1>3. \A j \in 1..Len(a) : d[j] = IF j = Len(a) THEN t ELSE a[j]
    <2>1. DOMAIN a = 1..Len(a)
      BY <1>1
    <2>2. \A j \in DOMAIN a : d[j] = IF j = Len(a) THEN t ELSE a[j]
      BY Zenon
    <2> QED
      BY <2>1, <2>2, Zenon
  <1>4. d \in Seq(T)
    BY <1>1
  <1>5. Len(d) = Len(a)
    BY <1>1
  <1> HIDE DEF d
  <1>6. \A j \in 1..Len(d) : d[j] = Append(c, t)[j]
    BY <1>1, <1>3, <1>5, AppendProperties
  <1>7. d = Append(c, t)
    BY <1>1, <1>2, <1>4, <1>5, <1>6, SeqEqual
  <1> QED
    BY <1>7 DEF d

LEMMA AheadFacts ==
    ASSUME TypeOK, NEW c, Ahead(c)
    PROVE  /\ c \in Seq(Trees) /\ c # <<>> /\ c # master
           /\ Len(c) = Len(master) + 1
           /\ IsAncestor(master, c) /\ IsAncestor(<<>>, c)
  BY AppendFacts DEF TypeOK, Ahead

(* A writer killed within the commit tears off the files it did not send.  *)
LEMMA TornIsAhead ==
    ASSUME TypeOK, WorkIsAhead, NEW p \in Handlers, pc[p] = "close",
           NEW c \in Torn(p)
    PROVE  Ahead(c)
  <1>1. PICK t \in Partial(snap[p]) : c = [own[p] EXCEPT ![Len(own[p])] = t]
    BY DEF Torn
  <1>2. own[p] # <<>>
    BY DEF Torn
  <1>3. PICK s \in Trees : own[p] = Append(master, s)
    BY <1>2 DEF WorkIsAhead, Ahead
  <1>4. t \in Trees /\ master \in Seq(Trees)
    BY <1>1 DEF Partial, TypeOK
  <1>5. c = Append(master, t)
    BY <1>1, <1>3, <1>4, ReplacedTipOfAppend
  <1> QED
    BY <1>4, <1>5 DEF Ahead

(* A commit without files shows no changes, so an import with changes that *)
(* is not master is one commit ahead of it.                                *)
LEMMA ChangedIsAhead ==
    ASSUME TypeOK, ImportIsNear, Changed, import = <<>> \/ import # master
    PROVE  Ahead(import)
  <1>1. ~Log!HasChanges(<<EmptyTree>>)
    <2>1. Len(<<EmptyTree>>) = 1 /\ <<EmptyTree>>[1] = EmptyTree
      OBVIOUS
    <2>2. Log!Before(<<EmptyTree>>) = Log!EmptyTree
      BY <2>1 DEF Log!Before
    <2> QED
      BY <2>1, <2>2 DEF Log!HasChanges, Log!Touched, EmptyTree
  <1> QED
    BY <1>1 DEF ImportIsNear, Changed

LEMMA SerialInit == Init => SerialInv
  BY DEF Init, SerialInv, NewIsEmpty, ImportIsNear, ConfigIsKnown, WorkIsAhead

LEMMA SerialStep ==
    ASSUME OneAtATime, TypeOK, SerialInv, NEW p \in Handlers, Step(p)
    PROVE  SerialInv'
  <1> USE DEF SerialInv, vars, repo, world, request, Goto
  <1>1. pc \in [Handlers -> Steps] /\ conf \in [Handlers -> BOOLEAN]
        /\ kind \in [Handlers -> Kinds] /\ own \in [Handlers -> Seq(Trees)]
    BY DEF TypeOK
  <1>2. \A q \in Handlers : q = p
    BY DEF OneAtATime
  <1> USE DEF NewIsEmpty, ImportIsNear, ConfigIsKnown, WorkIsAhead, Ahead
  <1>3. CASE Access(p)
    BY <1>1, <1>2, <1>3 DEF Access, Answer, Initial
  <1>4. CASE InitRepository(p)
    BY <1>1, <1>2, <1>4 DEF InitRepository, Initial
  <1>5. CASE TruncateConfig(p)
    <2>1. NewIsEmpty'
      BY <1>1, <1>2, <1>5 DEF TruncateConfig, Initial
    <2>2. ImportIsNear'
      BY <1>5 DEF TruncateConfig
    <2>3. ConfigIsKnown'
      BY <1>1, <1>2, <1>5 DEF TruncateConfig
    <2>4. WorkIsAhead'
      BY <1>1, <1>2, <1>5 DEF TruncateConfig
    <2> QED
      BY <2>1, <2>2, <2>3, <2>4
  <1>6. CASE FillConfig(p)
    <2>1. NewIsEmpty'
      BY <1>1, <1>2, <1>6 DEF FillConfig, Initial
    <2>2. ImportIsNear'
      BY <1>6 DEF FillConfig
    <2>3. ConfigIsKnown'
      BY <1>1, <1>2, <1>6 DEF FillConfig
    <2>4. WorkIsAhead'
      BY <1>1, <1>2, <1>6 DEF FillConfig
    <2> QED
      BY <2>1, <2>2, <2>3, <2>4
  <1>7. CASE AddKnownHost(p)
    BY <1>1, <1>2, <1>7 DEF AddKnownHost, Initial
  <1>8. CASE LoadConfig(p)
    BY <1>1, <1>2, <1>8 DEF LoadConfig, Initial
  <1>10. CASE StreamRejected(p)
    <2>1. NewIsEmpty'
      BY <1>1, <1>2, <1>10 DEF StreamRejected, Initial
    <2>2. ImportIsNear'
      BY <1>10 DEF StreamRejected
    <2>3. ConfigIsKnown'
      BY <1>1, <1>2, <1>10 DEF StreamRejected
    <2>4. WorkIsAhead'
      BY <1>1, <1>2, <1>10 DEF StreamRejected
    <2> QED
      BY <2>1, <2>2, <2>3, <2>4
  <1>9. CASE StreamCommit(p)
    <2>1. own'[p] = Append(master, host) /\ host \in Trees
      <3>1. Initial(p) => master = <<>>
        BY <1>9 DEF StreamCommit
      <3>2. Append(<<>>, host) = <<host>>
        OBVIOUS
      <3> QED
        BY <1>9, <3>1, <3>2 DEF StreamCommit, TypeOK
    <2>2. NewIsEmpty'
      BY <1>1, <1>2, <1>9 DEF StreamCommit, Initial
    <2>3. ImportIsNear'
      BY <1>9 DEF StreamCommit
    <2>4. ConfigIsKnown'
      BY <1>1, <1>2, <1>9 DEF StreamCommit
    <2>5. own'[p] # <<>>
      BY <2>1, AppendFacts DEF TypeOK
    <2>6. WorkIsAhead'
      BY <1>1, <1>2, <1>9, <2>1, <2>5 DEF StreamCommit
    <2> QED
      BY <2>2, <2>3, <2>4, <2>6
  <1>11. CASE StreamBroken(p)
    BY <1>1, <1>2, <1>11 DEF StreamBroken, Answer, Initial
  <1>12. CASE CloseImport(p)
    <2>1. own[p] # <<>> => Ahead(own[p])
      BY <1>12 DEF CloseImport
    <2>2. import' = import \/ (own[p] # <<>> /\ import' = own[p])
      BY <1>12 DEF CloseImport, Moved
    <2>3. ImportIsNear'
      BY <1>12, <2>1, <2>2 DEF CloseImport
    <2>4. import' = <<>> \/ import' # master
      <3>1. CASE own[p] = <<>>
        BY <1>12, <2>2, <3>1 DEF CloseImport
      <3>2. CASE own[p] # <<>> /\ import' = own[p]
        BY <2>1, <3>2, AheadFacts
      <3>3. CASE own[p] # <<>> /\ import' # own[p]
        <4>1. ~IsAncestor(import, own[p])
          BY <1>12, <3>3 DEF CloseImport, Moved
        <4> QED
          BY <2>1, <2>2, <3>3, <4>1, AheadFacts
      <3> QED
        BY <3>1, <3>2, <3>3
    <2>5. NewIsEmpty' /\ ConfigIsKnown'
      BY <1>1, <1>2, <1>12 DEF CloseImport, Initial
    <2>6. WorkIsAhead'
      BY <1>1, <1>2, <1>12, <2>4 DEF CloseImport
    <2> QED
      BY <2>3, <2>5, <2>6
  <1>13. CASE TouchStamp(p)
    BY <1>1, <1>2, <1>13 DEF TouchStamp, Initial
  <1>14. CASE GenerateDiff(p)
    <2>1. CASE ~Changed
      BY <1>1, <1>2, <1>14, <2>1 DEF GenerateDiff, Initial
    <2>2. CASE Changed
      <3>1. Ahead(import)
        BY <1>14, <2>2, ChangedIsAhead DEF GenerateDiff
      <3>0. PICK r \in Log!Renames(import) :
               pc' = [pc EXCEPT ![p] = IF MailNeeded(p, r) THEN "mail" ELSE "publish"]
        BY <1>14, <2>2 DEF GenerateDiff
      <3>2. ~MailNeeded(p, r) => ~Log!MustBeMailed(import)
        <4>1. Initial(p) => Len(import) = 1
          <5>1. Initial(p) => master = <<>>
            BY <1>14 DEF GenerateDiff
          <5> QED
            BY <3>1, <5>1, AheadFacts
        <4>3. Len(import) = 1 => ~(Len(import) > 1)
          OBVIOUS
        <4>2. conf[p] <=> config = "whole"
          BY <1>14 DEF GenerateDiff
        <4> QED
          BY <4>1, <4>2, <4>3, Zenon DEF MailNeeded, Log!MustBeMailed
      <3>3. NewIsEmpty' /\ ConfigIsKnown' /\ ImportIsNear'
        BY <1>1, <1>2, <1>14 DEF GenerateDiff, Initial
      <3>4. Changed' /\ Ahead(import)' /\ shown'[p] = import
        BY <1>14, <2>2, <3>1 DEF GenerateDiff, Changed, TypeOK
      <3>5. pc'[p] \in {"mail", "publish"}
            /\ (pc'[p] = "publish" => ~MailNeeded(p, r))
        BY <1>1, <3>0
      <3>6. Log!MustBeMailed(import)' <=> Log!MustBeMailed(import)
        BY <1>14 DEF GenerateDiff, Log!MustBeMailed
      <3>7. WorkIsAhead'
        BY <1>1, <1>2, <1>14, <3>2, <3>4, <3>5, <3>6 DEF GenerateDiff
      <3> QED
        BY <3>3, <3>7
    <2> QED
      BY <2>1, <2>2
  <1>15. CASE MailAccepted(p)
    <2>1. NewIsEmpty' /\ ConfigIsKnown' /\ ImportIsNear'
      BY <1>1, <1>2, <1>15 DEF MailAccepted, Initial
    <2>2. Changed' /\ Ahead(import)' /\ import \in mailed'
      BY <1>15 DEF MailAccepted, Changed
    <2>3. WorkIsAhead'
      BY <1>1, <1>2, <1>15, <2>2 DEF MailAccepted
    <2> QED
      BY <2>1, <2>3
  <1>16. CASE MailFailed(p)
    BY <1>1, <1>2, <1>16 DEF MailFailed, Initial
  <1>17. CASE Refuse(p) \/ Drop(p) \/ Unlink(p)
    BY <1>1, <1>2, <1>17 DEF Refuse, Drop, Unlink, DeleteImport, Answer, Initial
  <1>18. CASE Publish(p)
    <2>1. master' = import /\ import' = import
      BY <1>18 DEF Publish, Changed
    <2> QED
      BY <1>1, <1>2, <1>18, <2>1 DEF Publish, Initial
  <1> QED
    BY <1>3, <1>4, <1>5, <1>6, <1>7, <1>8, <1>9, <1>10, <1>11, <1>12, <1>13,
       <1>14, <1>15, <1>16, <1>17, <1>18 DEF Step

LEMMA SerialNext ==
    ASSUME OneAtATime, TypeOK, SerialInv, [Next]_vars
    PROVE  SerialInv'
  <1> USE DEF SerialInv, vars, repo, world, request
  <1>1. /\ pc \in [Handlers -> Steps] /\ conf \in [Handlers -> BOOLEAN]
        /\ kind \in [Handlers -> Kinds] /\ own \in [Handlers -> Seq(Trees)]
    BY DEF TypeOK
  <1>2. CASE \E p \in Handlers : Step(p)
    BY <1>2, SerialStep
  <1>3. CASE \E p \in Handlers : Crash(p)
    <2>1. PICK p \in Handlers : Crash(p)
      BY <1>3
    <2>2. \A q \in Handlers : q = p
      BY DEF OneAtATime
    <2>3. PICK c \in Torn(p) \cup {<<>>} : import' = Moved(import, c)
      BY <2>1 DEF Crash
    <2>4. c \in {<<>>, <<EmptyTree>>} \/ Ahead(c)
      BY <2>3, TornIsAhead DEF Torn
    <2>5. import' \in {import, <<EmptyTree>>} \/ Ahead(import')
      BY <2>3, <2>4 DEF Moved
    <2>6. master' = master
      BY <2>1 DEF Crash
    <2>7. ImportIsNear'
      BY <2>5, <2>6 DEF ImportIsNear, Ahead
    <2>8. ~dir => import' = import
      BY <2>1, <2>3 DEF Crash, Torn, NewIsEmpty, Moved
    <2>9. pc'[p] = "idle" /\ own'[p] = <<>>
      BY <1>1, <2>1 DEF Crash, Answer
    <2>10. NewIsEmpty'
      BY <2>1, <2>2, <2>6, <2>8, <2>9 DEF Crash, NewIsEmpty
    <2>11. ConfigIsKnown' /\ WorkIsAhead'
      BY <2>2, <2>9 DEF ConfigIsKnown, WorkIsAhead
    <2> QED
      BY <2>7, <2>10, <2>11
  <1>4. CASE \E p \in Handlers, k \in Kinds : Request(p, k)
    BY <1>1, <1>4 DEF Request, OneAtATime, NewIsEmpty, ImportIsNear,
       ConfigIsKnown, WorkIsAhead, Initial, Ahead
  <1>5. CASE \E t \in HostTrees : Edit(t)
    BY <1>5 DEF Edit, NewIsEmpty, ImportIsNear, ConfigIsKnown, WorkIsAhead,
       Initial, Ahead, Changed, Log!MustBeMailed
  <1>6. CASE Expire
    BY <1>6 DEF Expire, NewIsEmpty, ImportIsNear, ConfigIsKnown, WorkIsAhead,
       Initial, Ahead, Changed, Log!MustBeMailed
  <1>7. CASE UNCHANGED vars
    BY <1>7 DEF NewIsEmpty, ImportIsNear, ConfigIsKnown, WorkIsAhead,
       Initial, Ahead, Changed, Log!MustBeMailed
  <1> QED
    BY <1>2, <1>3, <1>4, <1>5, <1>6, <1>7 DEF Next

-----------------------------------------------------------------------------
LEMMA LogStep ==
    ASSUME OneAtATime, TypeOK, SerialInv, NEW p \in Handlers, Step(p)
    PROVE  [Log!LogNext]_(Log!logVars)
  <1> USE DEF SerialInv, repo, world, request, Goto, Log!logVars
  <1>1. CASE FillConfig(p)
    BY <1>1 DEF FillConfig, Log!LogNext, Log!Address
  <1>2. CASE TruncateConfig(p)
    BY <1>2 DEF TruncateConfig, NewIsEmpty
  <1>3. CASE MailAccepted(p)
    <2>1. PICK t \in Trees : import = Append(master, t)
      BY <1>3 DEF MailAccepted, WorkIsAhead, Ahead
    <2>2. Log!Mail(t)
      BY <1>3, <2>1 DEF MailAccepted, WorkIsAhead, Log!Mail
    <2> QED
      BY <2>2 DEF Log!LogNext, Trees
  <1>4. CASE Publish(p)
    <2>1. PICK t \in Trees : import = Append(master, t)
      BY <1>4 DEF Publish, WorkIsAhead, Ahead
    <2>2. master' = Append(master, t)
      BY <1>4, <2>1 DEF Publish, WorkIsAhead, Changed
    <2>3. Log!MustBeMailed(Append(master, t)) => Append(master, t) \in mailed
      BY <1>4, <2>1 DEF Publish, WorkIsAhead
    <2>4. Log!Record(t)
      BY <1>4, <2>2, <2>3 DEF Publish, Log!Record
    <2> QED
      BY <2>4 DEF Log!LogNext, Trees
  <1>5. CASE Access(p) \/ InitRepository(p) \/ AddKnownHost(p) \/ LoadConfig(p)
             \/ StreamCommit(p) \/ StreamRejected(p) \/ StreamBroken(p)
             \/ CloseImport(p) \/ TouchStamp(p) \/ GenerateDiff(p)
             \/ MailFailed(p) \/ Refuse(p) \/ Drop(p) \/ Unlink(p)
    <2>1. UNCHANGED <<master, mailed, config>>
      BY <1>5 DEF Access, InitRepository, AddKnownHost, LoadConfig,
         StreamCommit, StreamRejected, StreamBroken, CloseImport, TouchStamp,
         GenerateDiff, MailFailed, Refuse, Drop, Unlink, DeleteImport
    <2> QED
      BY <2>1
  <1> QED
    BY <1>1, <1>2, <1>3, <1>4, <1>5 DEF Step

LEMMA LogNextStep ==
    ASSUME OneAtATime, TypeOK, SerialInv, [Next]_vars
    PROVE  [Log!LogNext]_(Log!logVars)
  <1>1. CASE \E p \in Handlers : Step(p)
    BY <1>1, LogStep
  <1>2. CASE ~(\E p \in Handlers : Step(p))
    <2>1. UNCHANGED <<master, mailed, config>>
      BY <1>2 DEF Next, Crash, Request, Edit, Expire, vars, repo, world
    <2> QED
      BY <2>1 DEF Log!logVars
  <1> QED
    BY <1>1, <1>2

(* With at most one process at a time the invariant behind the audit log   *)
(* holds, ...                                                              *)
THEOREM SerialInvariant ==
    ASSUME OneAtATime
    PROVE  Spec => []SerialInv
  <1>1. TypeOK /\ SerialInv /\ [Next]_vars => SerialInv'
    BY SerialNext
  <1> QED
    BY <1>1, SerialInit, TypeCorrect, PTL DEF Spec

(* ... and the repository is an audit log: whatever is killed, whichever   *)
(* archive is cut short and whichever mail is refused, master only grows   *)
(* by one tree at a time, and never by a visible change with a recipient   *)
(* whose mail had not been accepted.                                       *)
THEOREM AauditKeepsAuditLog ==
    ASSUME OneAtATime
    PROVE  Spec => KeepsAuditLog
  <1>1. Init => Log!LogInit
    BY AlwaysNotifiedIsFlag DEF Init, Log!LogInit
  <1>2. TypeOK /\ SerialInv /\ [Next]_vars => [Log!LogNext]_(Log!logVars)
    BY LogNextStep
  <1> QED
    BY <1>1, <1>2, SerialInvariant, TypeCorrect, PTL
       DEF Spec, KeepsAuditLog, Log!LogSpec

-----------------------------------------------------------------------------
(* The answers.  A process that found no import branch has its own commit, *)
(* made of the tree that it was sent, on branch import from the end of     *)
(* fast-import until it answers; if it imports nothing there is no master. *)
SentIs(p, c) == c = Append(master, snap[p])

CleanFor(p) ==
    /\ pc[p] \in {"access", "init", "truncate", "fill", "hostkey", "load", "stream", "close"}
          => import = <<>>
    /\ pc[p] = "close" => SentIs(p, own[p]) \/ (own[p] = <<>> /\ master = <<>>)
    /\ pc[p] \in {"stamp", "diff"} => SentIs(p, import) \/ (import = <<>> /\ master = <<>>)
    /\ pc[p] \in {"mail", "publish"} => SentIs(p, import)
    /\ pc[p] = "unlink" => Recorded = snap[p]
    /\ pc[p] = "drop" => master = <<>> \/ Recorded = snap[p]

CleanInv == \A p \in Handlers : clean[p] => CleanFor(p)

LEMMA TipOfAppend ==
    ASSUME NEW c \in Seq(Trees), NEW t \in Trees
    PROVE  /\ Append(c, t) # <<>>
           /\ Append(c, t)[Len(Append(c, t))] = t
           /\ Log!Before(Append(c, t)) = IF c = <<>> THEN EmptyTree ELSE c[Len(c)]
  <1>1. /\ Append(c, t) \in Seq(Trees) /\ Len(Append(c, t)) = Len(c) + 1 /\ Len(c) \in Nat
        /\ \A i \in 1..Len(c) : Append(c, t)[i] = c[i]
        /\ Append(c, t)[Len(c) + 1] = t
    BY AppendProperties
  <1>2. c = <<>> <=> Len(c) = 0
    BY EmptySeq
  <1>3. CASE c = <<>>
    BY <1>1, <1>2, <1>3 DEF Log!Before, EmptyTree
  <1>4. CASE c # <<>>
    <2>1. Len(c) \in 1..Len(c) /\ Len(c) + 1 # 1 /\ (Len(c) + 1) - 1 = Len(c)
      BY <1>1, <1>2, <1>4
    <2> QED
      BY <1>1, <1>4, <2>1, AppendFacts DEF Log!Before
  <1> QED
    BY <1>3, <1>4

(* A commit without changes records the tree that is recorded already.     *)
LEMMA UnchangedIsRecorded ==
    ASSUME TypeOK, NEW p \in Handlers, SentIs(p, import), ~Changed
    PROVE  Recorded = snap[p]
  <1>1. master \in Seq(Trees) /\ snap[p] \in Trees
    BY DEF TypeOK
  <1>2. import # <<>> /\ import[Len(import)] = snap[p] /\ Log!Before(import) = Recorded
    BY <1>1, TipOfAppend DEF SentIs, Recorded
  <1>3. \A f \in Files : snap[p][f] = Recorded[f]
    BY <1>2 DEF Changed, Log!HasChanges, Log!Touched
  <1>4. Recorded \in Trees
    <2>1. CASE master = <<>>
      BY <2>1, EmptyTreeIsTree DEF Recorded
    <2>2. CASE master # <<>>
      <3>1. Len(master) \in 1..Len(master)
        BY <1>1, <2>2
      <3> QED
        BY <1>1, <2>2, <3>1, ElementOfSeq DEF Recorded
    <2> QED
      BY <2>1, <2>2
  <1> QED
    BY <1>1, <1>3, <1>4 DEF Trees, Log!Trees

LEMMA CleanStep ==
    ASSUME OneAtATime, TypeOK, SerialInv, CleanInv, NEW p \in Handlers, Step(p)
    PROVE  CleanInv'
  <1> SUFFICES ASSUME clean'[p] PROVE CleanFor(p)'
    BY DEF OneAtATime, CleanInv
  <1> USE DEF vars, repo, world, request, Goto
  <1>1. /\ pc \in [Handlers -> Steps] /\ own \in [Handlers -> Seq(Trees)]
        /\ snap \in [Handlers -> Trees] /\ master \in Seq(Trees)
    BY DEF TypeOK
  <1>2. clean' = clean
    BY DEF Step, Access, InitRepository, TruncateConfig, FillConfig, AddKnownHost,
       LoadConfig, StreamCommit, StreamRejected, StreamBroken, CloseImport, TouchStamp,
       GenerateDiff, MailAccepted, MailFailed, Refuse, Drop, Publish, Unlink, DeleteImport
  <1>3. CleanFor(p)
    BY <1>2 DEF CleanInv
  <1>4. CASE Access(p) \/ StreamBroken(p) \/ Refuse(p) \/ Drop(p) \/ Unlink(p)
    BY <1>1, <1>3, <1>4 DEF CleanFor, Access, StreamBroken, Refuse, Drop, Unlink, DeleteImport,
       Answer
  <1>5. CASE InitRepository(p) \/ TruncateConfig(p) \/ FillConfig(p) \/ AddKnownHost(p)
             \/ LoadConfig(p) \/ MailFailed(p)
    BY <1>1, <1>3, <1>5 DEF CleanFor, InitRepository, TruncateConfig, FillConfig, AddKnownHost,
       LoadConfig, MailFailed
  <1>6. CASE StreamCommit(p)
    <2>1. own'[p] = Append(master, host) /\ snap'[p] = host
      <3>1. Initial(p) => master = <<>>
        BY <1>6 DEF StreamCommit, SerialInv, NewIsEmpty
      <3>2. Append(<<>>, host) = <<host>>
        OBVIOUS
      <3> QED
        BY <1>1, <1>6, <3>1, <3>2 DEF StreamCommit
    <2> QED
      BY <1>1, <1>3, <1>6, <2>1 DEF StreamCommit, CleanFor, SentIs
  <1>7. CASE StreamRejected(p)
    <2>1. own[p] = <<>>
      BY <1>7 DEF StreamRejected, SerialInv, WorkIsAhead
    <2> QED
      BY <1>1, <1>3, <1>7, <2>1 DEF StreamRejected, CleanFor
  <1>8. CASE CloseImport(p)
    <2>1. import = <<>> /\ (SentIs(p, own[p]) \/ (own[p] = <<>> /\ master = <<>>))
      BY <1>3, <1>8 DEF CloseImport, CleanFor
    <2>2. SentIs(p, own[p]) => import' = own[p]
      BY <1>1, <1>8, <2>1, AppendFacts DEF CloseImport, Moved, SentIs
    <2>3. own[p] = <<>> => import' = <<>>
      BY <1>8, <2>1 DEF CloseImport, Moved
    <2> QED
      BY <1>1, <1>3, <1>8, <2>1, <2>2, <2>3 DEF CloseImport, CleanFor, SentIs
  <1>9. CASE TouchStamp(p) \/ MailAccepted(p)
    BY <1>1, <1>3, <1>9 DEF TouchStamp, MailAccepted, CleanFor, SentIs
  <1>10. CASE GenerateDiff(p)
    <2>1. CASE Changed
      <3>0. pc' = [pc EXCEPT ![p] = "mail"] \/ pc' = [pc EXCEPT ![p] = "publish"]
        BY <1>10, <2>1 DEF GenerateDiff
      <3>1. pc'[p] \in {"mail", "publish"} /\ SentIs(p, import)
        BY <1>1, <1>3, <1>10, <2>1, <3>0 DEF GenerateDiff, CleanFor, Changed
      <3> QED
        BY <1>10, <3>1 DEF GenerateDiff, CleanFor, SentIs
    <2>2. CASE ~Changed
      <3>1. pc'[p] = "drop" /\ (master = <<>> \/ Recorded = snap[p])
        BY <1>1, <1>3, <1>10, <2>2, UnchangedIsRecorded DEF GenerateDiff, CleanFor
      <3> QED
        BY <1>10, <3>1 DEF GenerateDiff, CleanFor, Recorded
    <2> QED
      BY <2>1, <2>2
  <1>11. CASE Publish(p)
    <2>1. SentIs(p, import)
      BY <1>3, <1>11 DEF Publish, CleanFor
    <2>2. master' = import
      BY <1>1, <1>11, <2>1, TipOfAppend DEF Publish, SentIs
    <2>3. Recorded' = snap[p]
      BY <1>1, <2>1, <2>2, TipOfAppend DEF SentIs, Recorded
    <2> QED
      BY <1>1, <1>11, <2>3 DEF Publish, CleanFor
  <1> QED
    BY <1>4, <1>5, <1>6, <1>7, <1>8, <1>9, <1>10, <1>11 DEF Step

LEMMA CleanNext ==
    ASSUME OneAtATime, TypeOK, SerialInv, CleanInv, [Next]_vars
    PROVE  CleanInv'
  <1> USE DEF vars, repo, world, request
  <1>1. pc \in [Handlers -> Steps] /\ clean \in [Handlers -> BOOLEAN]
    BY DEF TypeOK
  <1>2. CASE \E p \in Handlers : Step(p)
    BY <1>2, CleanStep
  <1>3. CASE \E p \in Handlers : Crash(p)
    <2>1. PICK p \in Handlers : pc'[p] = "idle"
      BY <1>1, <1>3 DEF Crash, Answer
    <2>2. \A q \in Handlers : CleanFor(q)'
      BY <2>1 DEF OneAtATime, CleanFor
    <2> QED
      BY <2>2 DEF CleanInv
  <1>4. CASE \E p \in Handlers, k \in Kinds : Request(p, k)
    <2>1. PICK p \in Handlers : /\ pc'[p] = "access" /\ import' = import
                                /\ clean'[p] <=> import = <<>>
      BY <1>1, <1>4 DEF Request
    <2>2. clean'[p] => CleanFor(p)'
      BY <2>1 DEF CleanFor
    <2>3. \A q \in Handlers : q = p
      BY DEF OneAtATime
    <2> QED
      BY <2>2, <2>3 DEF CleanInv
  <1>5. CASE (\E t \in HostTrees : Edit(t)) \/ Expire \/ UNCHANGED vars
    BY <1>5 DEF Edit, Expire, CleanInv, CleanFor, SentIs, Recorded
  <1> QED
    BY <1>2, <1>3, <1>4, <1>5 DEF Next

LEMMA CleanAlways == ASSUME OneAtATime PROVE Spec => []CleanInv
  <1>1. Init => CleanInv
    BY DEF Init, CleanInv
  <1>2. TypeOK /\ SerialInv /\ CleanInv /\ [Next]_vars => CleanInv'
    BY CleanNext
  <1> QED
    BY <1>1, <1>2, TypeCorrect, SerialInvariant, PTL DEF Spec

(* Which step gives which answer.                                          *)
LEMMA AnswersComeFrom ==
    ASSUME TypeOK, [Next]_vars, NEW p \in Handlers
    PROVE  /\ Answers(p, "Committed") => pc[p] = "unlink"
           /\ Answers(p, "NoChanges") => pc[p] = "drop"
  <1> USE DEF vars, repo, world, request, Answers, Goto
  <1>1. pc \in [Handlers -> Steps] /\ reply \in [Handlers -> Replies]
    BY DEF TypeOK
  <1>2. ASSUME NEW q \in Handlers, Step(q), pc'[p] = "idle", pc[p] # "idle"
        PROVE  /\ reply'[p] = "Committed" => pc[p] = "unlink"
               /\ reply'[p] = "NoChanges" => pc[p] = "drop"
    <2>1. p = q
      BY <1>1, <1>2 DEF Step, Access, InitRepository, TruncateConfig, FillConfig, AddKnownHost,
         LoadConfig, StreamCommit, StreamRejected, StreamBroken, CloseImport, TouchStamp,
         GenerateDiff, MailAccepted, MailFailed, Refuse, Drop, Publish, Unlink, DeleteImport, Answer
    <2>2. CASE Access(p) \/ StreamBroken(p) \/ Refuse(p) \/ Drop(p) \/ Unlink(p)
      BY <1>1, <1>2, <2>2 DEF Access, StreamBroken, Refuse, Drop, Unlink, DeleteImport, Answer
    <2>3. CASE ~(Access(p) \/ StreamBroken(p) \/ Refuse(p) \/ Drop(p) \/ Unlink(p))
      BY <1>1, <1>2, <2>1, <2>3 DEF Step, InitRepository, TruncateConfig, FillConfig,
         AddKnownHost, LoadConfig, StreamCommit, StreamRejected, CloseImport, TouchStamp,
         GenerateDiff, MailAccepted, MailFailed, Publish
    <2> QED
      BY <2>2, <2>3
  <1>3. CASE \E q \in Handlers : Crash(q)
    BY <1>1, <1>3 DEF Crash, Answer
  <1>4. CASE \E q \in Handlers, k \in Kinds : Request(q, k)
    BY <1>1, <1>4 DEF Request
  <1>5. CASE (\E t \in HostTrees : Edit(t)) \/ Expire \/ UNCHANGED vars
    BY <1>5 DEF Edit, Expire
  <1> QED
    BY <1>2, <1>3, <1>4, <1>5 DEF Next

(* The answer "Committed" is true: whoever gets it from a process that did *)
(* not find the branch of one that was killed, has master at the tree that *)
(* was sent, for any history of crashes, torn imports and refused mails.   *)
THEOREM CommittedIsTrue ==
    ASSUME OneAtATime
    PROVE  Spec => CommittedIsRecorded
  <1>1. TypeOK /\ CleanInv /\ [Next]_vars
          => [\A p \in Handlers : Answers(p, "Committed") /\ clean[p] => Recorded = snap[p]]_vars
    BY AnswersComeFrom DEF CleanInv, CleanFor
  <1> QED
    BY <1>1, CleanAlways, TypeCorrect, PTL DEF Spec, CommittedIsRecorded

(* The answer "No changes detected" is true of a host that has a master:   *)
(* the tree that was sent is the one recorded.                             *)
THEOREM NoChangesAreNone ==
    ASSUME OneAtATime
    PROVE  Spec => NoChangesIsTrue
  <1>1. TypeOK /\ CleanInv /\ [Next]_vars
          => [\A p \in Handlers :
                Answers(p, "NoChanges") /\ clean[p] /\ master # <<>> => Recorded = snap[p]]_vars
    BY AnswersComeFrom DEF CleanInv, CleanFor
  <1> QED
    BY <1>1, CleanAlways, TypeCorrect, PTL DEF Spec, NoChangesIsTrue
=============================================================================
