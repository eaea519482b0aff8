--------------------------- MODULE AauditProps ----------------------------
(***************************************************************************)
(* What is claimed of Aaudit: first for processes that run one after the   *)
(* other, then for processes that overlap.                                 *)
(***************************************************************************)
EXTENDS Aaudit

Answers(p, r) == pc[p] # "idle" /\ pc'[p] = "idle" /\ reply'[p] = r

Recorded == IF master = <<>> THEN EmptyTree ELSE master[Len(master)]

(* Processes that run one after the other, whatever is killed in between,  *)
(* keep the audit log of AuditLog: master only grows, one tree at a time,  *)
(* and a change that has a recipient, and shows a visible path however git *)
(* pairs renamed files, reaches it only after its mail was accepted.       *)
KeepsAuditLog == Log!LogSpec

(* Why it does: the invariant of processes that run one after the other.   *)
(* A repository being created is empty; a branch import left behind is     *)
(* master itself, a torn root or one commit ahead of master; what is about *)
(* to be published is one commit ahead, has changes and has been mailed if *)
(* it must be.                                                             *)
Ahead(c) == \E t \in Trees : c = Append(master, t)

NewIsEmpty ==
    /\ ~dir => config = "none" /\ master = <<>> /\ import = <<>>
    /\ \A p \in Handlers :
        /\ pc[p] = "init" => ~dir
        /\ pc[p] \notin {"idle", "access", "init"} => dir
        /\ pc[p] = "truncate" => config = "none"
        /\ pc[p] \in {"init", "truncate", "fill", "hostkey"} => Initial(p)
        /\ pc[p] \notin {"idle", "access", "unlink"} /\ Initial(p)
              => master = <<>>

ImportIsNear == import \in {<<>>, master, <<EmptyTree>>} \/ Ahead(import)

ConfigIsKnown ==
    \A p \in Handlers :
        pc[p] \in {"stream", "close", "stamp", "diff", "mail", "publish"}
            => conf[p] = (config = "whole")

WorkIsAhead ==
    \A p \in Handlers :
        /\ pc[p] \in {"idle", "access", "init", "truncate", "fill", "hostkey",
                     "load", "stream"} => own[p] = <<>>
        /\ pc[p] = "close" /\ own[p] # <<>> => Ahead(own[p])
        /\ pc[p] = "close" /\ own[p] = <<>> => master = <<>>
        /\ pc[p] \in {"stamp", "diff"} => import = <<>> \/ import # master
        /\ pc[p] \in {"mail", "publish"} => Changed /\ Ahead(import)
        /\ pc[p] = "mail" => shown[p] = import
        /\ pc[p] = "publish" /\ Log!MustBeMailed(import) => import \in mailed

SerialInv == NewIsEmpty /\ ImportIsNear /\ ConfigIsKnown /\ WorkIsAhead

(* "Committed" is true: the process that answers it, if it found no branch *)
(* left behind by one that was killed, leaves master at the tree it was    *)
(* sent.                                                                   *)
CommittedIsRecorded ==
    [][\A p \in Handlers :
         Answers(p, "Committed") /\ clean[p] => Recorded = snap[p]]_vars

(* "No changes detected" is true of a repository that has a master, for a  *)
(* process that found no branch left behind: master has the tree it was    *)
(* sent.                                                                   *)
NoChangesIsTrue ==
    [][\A p \in Handlers :
         Answers(p, "NoChanges") /\ clean[p] /\ master # <<>>
            => Recorded = snap[p]]_vars

(* Once the monitored host has stopped changing, a repository that cron    *)
(* can pull into holds the host's tree, whatever was left behind by the    *)
(* processes that were killed and the mails that were refused.             *)
Auditable == dir /\ config = "whole" /\ knownHost /\ master # <<>>
Converges == <>[](Auditable => Recorded = host)

(* Processes that overlap clean up after each other: with none killed, the *)
(* import branch is gone once all have answered.                           *)
NothingLeftBehind ==
    crashes = 0 /\ (\A p \in Handlers : pc[p] = "idle") => import = <<>>

(* `aaudit create` run by several administrators at once, none killed:     *)
(* if any of them is told it succeeded there is a master at the end, from  *)
(* one of them, whoever deleted whose import branch.                       *)
RacingCreatesPublish ==
    /\ \A p \in Handlers : pc[p] = "idle"
    /\ \E p \in Handlers : reply[p] \in {"Committed", "NoChanges"}
    => master # <<>>

(* What the answer "Committed" (aaudit-server.lua:360) tells the client:   *)
(* something is recorded for the host.                                     *)
CommittedMeansMaster ==
    \A p \in Handlers : reply[p] = "Committed" => master # <<>>

(* What the answer "No changes detected" (aaudit-server.lua:366) tells the *)
(* client: the tree it sent is the one already recorded.                   *)
NoChangesMeansRecorded ==
    [][\A p \in Handlers :
         Answers(p, "NoChanges") => Recorded = snap[p]]_vars
=============================================================================
