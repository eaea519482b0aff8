------------------------------ MODULE AuditLog ------------------------------
(***************************************************************************)
(* What aaudit promises for one monitored host: the trees recorded for it  *)
(* form a log that only grows, and a change somebody is to be told about   *)
(* is entered in the log only after the mail about it was accepted.        *)
(*                                                                         *)
(* A commit is the sequence of trees from the root commit to its tip, so   *)
(* the log itself is the commit that branch master points at.              *)
(***************************************************************************)
EXTENDS Sequences, Integers

CONSTANTS Files,      \* the tracked paths of a host
          Contents,   \* what a tracked file may contain
          Absent,     \* the file is not in the tree
          Similar,    \* pairs of contents that git takes for a renamed file's
          NoNotify    \* the paths that the group's "no_notify" patterns match

VARIABLES log,        \* the trees recorded so far, oldest first
          mailed,     \* the commits whose diff a mail server has accepted
          addressed   \* whether the host's changes have a recipient

logVars == <<log, mailed, addressed>>

Trees == [Files -> Contents \cup {Absent}]
EmptyTree == [f \in Files |-> Absent]
Commits == Seq(Trees) \ {<<>>}

(* The tree that `git show` compares the tip with: the parent's, or none.  *)
Before(c) == IF Len(c) = 1 THEN EmptyTree ELSE c[Len(c) - 1]
Touched(c) == {f \in Files : c[Len(c)][f] # Before(c)[f]}
HasChanges(c) == Touched(c) # {}

(* `git show` takes an added file for a removed one that was renamed if    *)
(* their contents are similar enough (and its limits and its configuration *)
(* allow: any pairing of them is possible).  A renamed pair has one diff   *)
(* header, and only the removed path is read from it.                      *)
Added(c) == {f \in Touched(c) : Before(c)[f] = Absent}
Removed(c) == {f \in Touched(c) : c[Len(c)][f] = Absent}

Renames(c) ==
    {r \in UNION {[S -> Removed(c)] : S \in SUBSET Added(c)} :
        /\ \A f, g \in DOMAIN r : r[f] = r[g] => f = g
        /\ \A f \in DOMAIN r : <<Before(c)[r[f]], c[Len(c)][f]>> \in Similar}

Headers(c, r) == Touched(c) \ DOMAIN r
HasVisibleChanges(c, r) == Headers(c, r) \ NoNotify # {}

(* The first import is the administrator's own and is not announced.  No   *)
(* mail is promised of a change that may be shown as nothing but files     *)
(* renamed from paths that nobody is to be notified of.                    *)
MustBeMailed(c) ==
    addressed /\ Len(c) > 1 /\ \A r \in Renames(c) : HasVisibleChanges(c, r)

LogInit == log = <<>> /\ mailed = {} /\ addressed \in BOOLEAN

(* A recipient becomes known, and stays known.                             *)
Address == addressed' = TRUE /\ UNCHANGED <<log, mailed>>

Mail(t) == /\ mailed' = mailed \cup {Append(log, t)}
           /\ UNCHANGED <<log, addressed>>

Record(t) == /\ MustBeMailed(Append(log, t)) => Append(log, t) \in mailed
             /\ log' = Append(log, t)
             /\ UNCHANGED <<mailed, addressed>>

LogNext == Address \/ \E t \in Trees : Mail(t) \/ Record(t)

LogSpec == LogInit /\ [][LogNext]_logVars
=============================================================================
