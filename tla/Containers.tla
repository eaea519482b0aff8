----------------------------- MODULE Containers -----------------------------
(***************************************************************************)
(* Two containers of the repository in one state machine for TLC: a        *)
(* program uses one of them, the queue of ztact.lua or a splay tree, and   *)
(* leaves the other alone.                                                 *)
(***************************************************************************)
EXTENDS SegQueue, SplayTree

VARIABLE program

containers == <<program, vars, splayVars>>

InitContainers ==
    /\ program \in {"queue", "splay"}
    /\ Init /\ InitSplay
    /\ program # "queue" => slot = <<>>

Queueing == program = "queue" /\ Next /\ UNCHANGED <<program, splayVars>>
Calling == program = "splay" /\ Call /\ UNCHANGED <<program, vars>>
Splaying == program = "splay" /\ Loop /\ UNCHANGED <<program, vars>>

NextContainers == Queueing \/ Calling \/ Splaying

FairContainers ==
    /\ InitContainers /\ [][NextContainers]_containers
    /\ WF_containers(Splaying)
=============================================================================
