------------------------------- MODULE Aaudit -------------------------------
(***************************************************************************)
(* The aaudit server (main/aaudit): every `aaudit create` and `aaudit      *)
(* commit` arrives over ssh at aaudit-shell, and aaudit-repo pulls from    *)
(* cron; each is a process that runs handle() on the git repository of one *)
(* monitored host.  Nothing locks the repository.  A step below ends where *)
(* another process, or a crash, can come between: at a command run with    *)
(* os.execute or io.popen, at a file written, at a mail sent.              *)
(*                                                                         *)
(* A commit is the sequence of trees from its root to its tip (commits     *)
(* that differ only in author, date or message are identified), a branch   *)
(* is a commit or <<>> when it does not exist, and "git refuses to move    *)
(* the branch" is a question of prefixes.                                  *)
(***************************************************************************)
EXTENDS Sequences, Integers

CONSTANTS Handlers,   \* the processes that may run handle() at a time
          Kinds,      \* the requests that arrive: "create", "commit", "pull"
          Files, Contents, Absent, Similar, NoNotify,    \* see AuditLog
          AlwaysNotified,  \* group "all" or the host's own contact is mailed
          MaxEdits,   \* bound: how often the monitored host changes
          MaxCrashes  \* bound: how many processes are killed

ASSUME KindsAreRequests == Kinds \subseteq {"create", "commit", "pull"}
ASSUME AbsentIsNoContents == Absent \notin Contents
ASSUME NoNotifyAreFiles == NoNotify \subseteq Files
ASSUME AlwaysNotifiedIsFlag == AlwaysNotified \in BOOLEAN
ASSUME BoundsAreNaturals == MaxEdits \in Nat /\ MaxCrashes \in Nat

VARIABLES
    \* the files of <address>.git
    dir,         \* the directory exists (whether or not `git init` got to run)
    config,      \* aaudit-repo.json: "none", "empty" (truncated) or "whole"
    master,      \* refs/heads/master
    import,      \* refs/heads/import
    fresh,       \* lastcheck is younger than pull-after
    \* elsewhere on the server, and outside it
    knownHost,   \* the host's key is in known_hosts
    host,        \* the tree the monitored host has now
    mailed,      \* the commits whose diff a mail server has accepted
    edits, crashes,   \* used up of MaxEdits and MaxCrashes
    \* one value for each handler
    pc,          \* what it does next
    kind,        \* its request
    conf,        \* load_repo_configs read a whole aaudit-repo.json
    snap,        \* the tree in the archive it imports
    own,         \* the commit it asks fast-import to make, <<>> if that fails
    shown,       \* the commit whose diff it is about to mail
    clean,       \* history: no import branch was left over when it started
    reply        \* what it answered last

Log == INSTANCE AuditLog WITH log <- master,
                              addressed <- AlwaysNotified \/ config = "whole"

Trees == Log!Trees
EmptyTree == Log!EmptyTree
HostTrees == Trees \ {EmptyTree}    \* an overlay has at least one tracked file

repo == <<dir, config, master, import, fresh, knownHost>>
world == <<host, mailed, edits, crashes>>
request == <<kind, conf, snap, own, shown, clean>>
vars == <<repo, world, request, pc, reply>>

Steps == {"idle", "access", "init", "truncate", "fill", "hostkey", "load",
          "stream", "close", "stamp", "diff", "mail", "refuse", "publish",
          "unlink", "drop"}
Replies == {"none", "Exists", "NoRepository", "Error", "Committed",
            "NoChanges"}

(* Handler p's record types and the repository's.                          *)
TypeOK ==
    /\ dir \in BOOLEAN /\ fresh \in BOOLEAN /\ knownHost \in BOOLEAN
    /\ config \in {"none", "empty", "whole"}
    /\ master \in Seq(Trees) /\ import \in Seq(Trees)
    /\ host \in Trees /\ mailed \subseteq Seq(Trees)
    /\ edits \in 0..MaxEdits /\ crashes \in 0..MaxCrashes
    /\ pc \in [Handlers -> Steps] /\ kind \in [Handlers -> Kinds]
    /\ conf \in [Handlers -> BOOLEAN] /\ clean \in [Handlers -> BOOLEAN]
    /\ snap \in [Handlers -> Trees] /\ reply \in [Handlers -> Replies]
    /\ own \in [Handlers -> Seq(Trees)] /\ shown \in [Handlers -> Seq(Trees)]

Init ==
    /\ dir = FALSE /\ config = "none" /\ master = <<>> /\ import = <<>>
    /\ fresh = FALSE /\ knownHost = FALSE
    /\ host \in HostTrees /\ mailed = {} /\ edits = 0 /\ crashes = 0
    /\ pc = [p \in Handlers |-> "idle"] /\ kind \in [Handlers -> Kinds]
    /\ conf = [p \in Handlers |-> FALSE] /\ clean = [p \in Handlers |-> FALSE]
    /\ snap = [p \in Handlers |-> EmptyTree]
    /\ own = [p \in Handlers |-> <<>>] /\ shown = [p \in Handlers |-> <<>>]
    /\ reply = [p \in Handlers |-> "none"]

-----------------------------------------------------------------------------
Goto(p, from, to) == pc[p] = from /\ pc' = [pc EXCEPT ![p] = to]

(* handle() returns; what the request carried is gone with the process.    *)
Answer(p, r) ==
    /\ pc' = [pc EXCEPT ![p] = "idle"]
    /\ reply' = [reply EXCEPT ![p] = r]
    /\ conf' = [conf EXCEPT ![p] = FALSE]
    /\ own' = [own EXCEPT ![p] = <<>>]
    /\ shown' = [shown EXCEPT ![p] = <<>>]

Initial(p) == kind[p] = "create"

(* aaudit-shell decodes a request; or aaudit-repo finds the repository and *)
(* its stamp is older than pull-after.                                     *)
Request(p, k) ==
    /\ pc[p] = "idle"
    /\ k = "pull" => dir /\ ~fresh
    /\ pc' = [pc EXCEPT ![p] = "access"]
    /\ kind' = [kind EXCEPT ![p] = k]
    /\ clean' = [clean EXCEPT ![p] = import = <<>>]
    /\ reply' = [reply EXCEPT ![p] = "none"]
    /\ snap' = [snap EXCEPT ![p] = EmptyTree]
    /\ UNCHANGED <<repo, world, conf, own, shown>>

(* The access checks of handle().  A pull names the address it read from   *)
(* aaudit-repo.json: without a readable one it asks for "nil.git".         *)
Access(p) ==
    /\ pc[p] = "access"
    /\ UNCHANGED <<repo, world, kind, snap, clean>>
    /\ \/ Initial(p) /\ dir /\ Answer(p, "Exists")
       \/ Initial(p) /\ ~dir /\ Goto(p, "access", "init")
          /\ UNCHANGED <<conf, own, shown, reply>>
       \/ ~Initial(p) /\ (~dir \/ (kind[p] = "pull" /\ config # "whole"))
          /\ Answer(p, "NoRepository")
       \/ ~Initial(p) /\ dir /\ (kind[p] = "pull" => config = "whole")
          /\ Goto(p, "access", "load") /\ UNCHANGED <<conf, own, shown, reply>>

(* repo_create: mkdir and git init, then aaudit-repo.json is opened (which *)
(* truncates it) and written, then the ssh identity goes to known_hosts.   *)
InitRepository(p) ==
    /\ Goto(p, "init", "truncate") /\ dir' = TRUE
    /\ UNCHANGED <<config, master, import, fresh, knownHost, world, request, reply>>

TruncateConfig(p) ==
    /\ Goto(p, "truncate", "fill") /\ config' = "empty"
    /\ UNCHANGED <<dir, master, import, fresh, knownHost, world, request, reply>>

FillConfig(p) ==
    /\ Goto(p, "fill", "hostkey") /\ config' = "whole"
    /\ UNCHANGED <<dir, master, import, fresh, knownHost, world, request, reply>>

(* A request without the host's key adds none.                             *)
AddKnownHost(p) ==
    /\ Goto(p, "hostkey", "load") /\ knownHost' \in {knownHost, TRUE}
    /\ UNCHANGED <<dir, config, master, import, fresh, world, request, reply>>

(* load_repo_configs: an unreadable aaudit-repo.json costs the repository  *)
(* its groups, hence its recipients, and a pull its address.               *)
LoadConfig(p) ==
    /\ Goto(p, "load", "stream")
    /\ conf' = [conf EXCEPT ![p] = config = "whole"]
    /\ UNCHANGED <<repo, world, kind, snap, own, shown, clean, reply>>

-----------------------------------------------------------------------------
(* import_tar.  fast-import makes the commit on branch import from what    *)
(* master is when the "from" line is read, or from nothing initially.      *)
Reachable(p) == kind[p] = "pull" => conf[p] /\ knownHost

StreamCommit(p) ==
    /\ Goto(p, "stream", "close")
    /\ Reachable(p)
    /\ Initial(p) \/ master # <<>>
    /\ snap' = [snap EXCEPT ![p] = host]
    /\ own' = [own EXCEPT ![p] = IF Initial(p) THEN <<host>>
                                              ELSE Append(master, host)]
    /\ UNCHANGED <<repo, world, kind, conf, shown, clean, reply>>

(* "from" names a master that is not there: fast-import gives up, and the  *)
(* handler goes on without noticing.                                       *)
StreamRejected(p) ==
    /\ Goto(p, "stream", "close")
    /\ Reachable(p)
    /\ ~Initial(p) /\ master = <<>>
    /\ snap' = [snap EXCEPT ![p] = host]
    /\ UNCHANGED <<repo, world, kind, conf, own, shown, clean, reply>>

(* The archive is none or ends before its trailer, or the pull cannot      *)
(* connect: an error is answered.  It ends within an entry, which raises,  *)
(* or the writer takes a SIGPIPE from a fast-import that gave up: the      *)
(* process dies without an answer.  Either way no commit was begun, and    *)
(* the stamp is left alone.                                                *)
StreamBroken(p) ==
    /\ pc[p] = "stream"
    /\ \E r \in {"Error", "none"} : Answer(p, r)
    /\ UNCHANGED <<repo, world, kind, snap, clean>>

(* fast-import ends: a branch is moved only to a commit that contains it.  *)
IsAncestor(c, d) == Len(c) <= Len(d) /\ c = SubSeq(d, 1, Len(c))
Moved(branch, c) ==
    IF c # <<>> /\ IsAncestor(branch, c) THEN c ELSE branch

CloseImport(p) ==
    /\ Goto(p, "close", "stamp")
    /\ import' = Moved(import, own[p])
    /\ UNCHANGED <<dir, config, master, fresh, knownHost, world, request, reply>>

TouchStamp(p) ==
    /\ Goto(p, "stamp", "diff") /\ fresh' = TRUE
    /\ UNCHANGED <<dir, config, master, import, knownHost, world, request, reply>>

-----------------------------------------------------------------------------
(* Error: the host's own contact is forgotten.                             *)
MailNeededByGroup(p, r) ==
    ~Initial(p) /\ Log!HasVisibleChanges(import, r) /\ AlwaysNotified

(* generate_diff shows whatever branch import is by now, and repo_update   *)
(* decides from it, as git pairs the files, whether there is anything to   *)
(* commit and to mail.                                                     *)
MailNeeded(p, r) ==
    /\ ~Initial(p)
    /\ Log!HasVisibleChanges(import, r)
    /\ AlwaysNotified \/ conf[p]

(* Error: a change nobody is to be notified of taken for none.             *)
ChangedVisibly == import # <<>> /\ Log!HasVisibleChanges(import, <<>>)

Changed == import # <<>> /\ Log!HasChanges(import)

GenerateDiff(p) ==
    /\ pc[p] = "diff"
    /\ \/ ~Changed /\ pc' = [pc EXCEPT ![p] = "drop"]
       \/ /\ Changed
          /\ \E r \in Log!Renames(import) :
                pc' = [pc EXCEPT ![p] = IF MailNeeded(p, r) THEN "mail"
                                                           ELSE "publish"]
    /\ shown' = [shown EXCEPT ![p] = import]
    /\ UNCHANGED <<repo, world, kind, conf, snap, own, clean, reply>>

MailAccepted(p) ==
    /\ Goto(p, "mail", "publish")
    /\ mailed' = mailed \cup {shown[p]}
    /\ UNCHANGED <<repo, host, edits, crashes, request, reply>>

(* Error: the result of sendcommitdiff is not looked at.                   *)
MailFailedUnnoticed(p) ==
    /\ Goto(p, "mail", "publish")
    /\ UNCHANGED <<repo, world, request, reply>>

MailFailed(p) ==
    /\ Goto(p, "mail", "refuse")
    /\ UNCHANGED <<repo, world, request, reply>>

(* git branch -D import; git gc                                            *)
DeleteImport(p, from, r) ==
    /\ pc[p] = from
    /\ import' = <<>>
    /\ Answer(p, r)
    /\ UNCHANGED <<dir, config, master, fresh, knownHost, world, kind, snap, clean>>

(* Errors: the import branch is kept.                                      *)
RefuseAndKeep(p) ==
    /\ pc[p] = "refuse" /\ Answer(p, "Error")
    /\ UNCHANGED <<repo, world, kind, snap, clean>>

DropNothing(p) ==
    /\ pc[p] = "drop" /\ Answer(p, "NoChanges")
    /\ UNCHANGED <<repo, world, kind, snap, clean>>

Refuse(p) == DeleteImport(p, "refuse", "Error")
Drop(p) == DeleteImport(p, "drop", "NoChanges")

(* Errors: branch without --force; a missing import branch taken for one   *)
(* to publish.                                                             *)
PublishUnforced(p) ==
    /\ Goto(p, "publish", "unlink")
    /\ master' = IF master = <<>> THEN import ELSE master
    /\ UNCHANGED <<dir, config, import, fresh, knownHost, world, request, reply>>

PublishMissing(p) ==
    /\ Goto(p, "publish", "unlink")
    /\ master' = import
    /\ UNCHANGED <<dir, config, import, fresh, knownHost, world, request, reply>>

(* git branch --force master import; git branch -D import                  *)
Publish(p) ==
    /\ Goto(p, "publish", "unlink")
    /\ master' = IF import = <<>> THEN master ELSE import
    /\ UNCHANGED <<dir, config, import, fresh, knownHost, world, request, reply>>

Unlink(p) == DeleteImport(p, "unlink", "Committed")

-----------------------------------------------------------------------------
(* Error: fast-import commits the file it is in the middle of, cut short.  *)
PartialCut(t) == {[t EXCEPT ![f] = "cut"] : f \in Files}

(* A handler is killed.  While it streams, fast-import takes the end of    *)
(* its input for the end of the commit: a commit with no parent and no     *)
(* files if the "from" line was not out yet, one with some of the files    *)
(* after that.                                                             *)
Partial(t) == {u \in Trees : \A f \in Files : u[f] \in {t[f], Absent}}

Torn(p) ==
    CASE pc[p] = "stream" -> {<<EmptyTree>>}
      [] pc[p] = "close" /\ own[p] # <<>> ->
            {[own[p] EXCEPT ![Len(own[p])] = t] : t \in Partial(snap[p])}
      [] OTHER -> {}

Crash(p) ==
    /\ pc[p] # "idle"
    /\ crashes < MaxCrashes
    /\ crashes' = crashes + 1
    /\ \E c \in Torn(p) \cup {<<>>} : import' = Moved(import, c)
    /\ Answer(p, "none")
    /\ UNCHANGED <<dir, config, master, fresh, knownHost, host, mailed, edits,
                   kind, snap, clean>>

(* The monitored host changes; the stamp grows old.                        *)
Edit(t) ==
    /\ edits < MaxEdits
    /\ t # host
    /\ edits' = edits + 1
    /\ host' = t
    /\ UNCHANGED <<repo, mailed, crashes, request, pc, reply>>

Expire ==
    /\ fresh
    /\ fresh' = FALSE
    /\ UNCHANGED <<dir, config, master, import, knownHost, world, request, pc, reply>>

Step(p) ==
    \/ Access(p)
    \/ InitRepository(p) \/ TruncateConfig(p) \/ FillConfig(p) \/ AddKnownHost(p)
    \/ LoadConfig(p)
    \/ StreamCommit(p) \/ StreamRejected(p) \/ StreamBroken(p)
    \/ CloseImport(p) \/ TouchStamp(p)
    \/ GenerateDiff(p) \/ MailAccepted(p) \/ MailFailed(p)
    \/ Refuse(p) \/ Drop(p) \/ Publish(p) \/ Unlink(p)

Next ==
    \/ \E p \in Handlers : Step(p) \/ Crash(p) \/ \E k \in Kinds : Request(p, k)
    \/ \E t \in HostTrees : Edit(t)
    \/ Expire

Spec == Init /\ [][Next]_vars

(* Every process goes on; the stamp grows old; cron starts a pull that is  *)
(* due even if administrators keep the server busy, and neither the host's *)
(* line nor the mail server is down for ever.                              *)
Fairness ==
    /\ WF_vars(Expire)
    /\ \A p \in Handlers :
        /\ WF_vars(Step(p))
        /\ SF_vars(Request(p, "pull"))
        /\ SF_vars(kind[p] = "pull" /\ StreamCommit(p))
        /\ SF_vars(MailAccepted(p))

FairSpec == Spec /\ Fairness
=============================================================================
