------------------------------- MODULE Queues -------------------------------
(***************************************************************************)
(* A program that keeps elements in lists of queue.h, all of one kind, and *)
(* goes over one of them with the FOREACH macro that lets the body remove  *)
(* the element it is given.  The program does what the macros ask of it:   *)
(* it inserts elements that are in no list, and removes those that are in  *)
(* the list.  An element or a head is used through the macros only.        *)
(***************************************************************************)
EXTENDS QueueMacros, FiniteSets

CONSTANTS Kinds

AllKinds == {"SLIST", "LIST", "SIMPLEQ", "STAILQ", "TAILQ", "CIRCLEQ"}

ASSUME KindsAreKnown == Kinds \subseteq AllKinds
ASSUME HeadsAreNoElements ==
    Heads \cap Elements = {} /\ {Null, Poison} \cap (Heads \cup Elements) = {}
ASSUME NullIsNotPoison == Null # Poison
ASSUME NullIsNoCell == {Null, Poison} \cap Cells = {}

VARIABLES kind,    \* which macros the program uses
          mem,     \* the heads and the entries of the elements
          lists,   \* what the program put where: a sequence for each head
          origin,  \* history: the head whose address the back link of the
                   \* first element holds, which LIST_MOVE leaves alone
          loop     \* the running FOREACH: over which head, which way, its
                   \* variables var and tvar, and, as history, the elements
                   \* that it must still come to

vars == <<kind, mem, lists, origin, loop>>

Doubly == kind \in {"LIST", "TAILQ", "CIRCLEQ"}
Tailed == kind \in {"SIMPLEQ", "STAILQ", "TAILQ", "CIRCLEQ"}
EndOf(h) == IF kind = "CIRCLEQ" THEN h ELSE Null

NoLoop == [head |-> Null, reverse |-> FALSE, var |-> Null, tvar |-> Null, due |-> {}]
Idle == loop.head = Null

Fresh(h) ==
    CASE kind = "SLIST" -> SLIST_HEAD_INITIALIZER(h)
      [] kind = "LIST" -> LIST_HEAD_INITIALIZER(h)
      [] kind = "SIMPLEQ" -> SIMPLEQ_HEAD_INITIALIZER(h)
      [] kind = "STAILQ" -> STAILQ_HEAD_INITIALIZER(h)
      [] kind = "TAILQ" -> TAILQ_HEAD_INITIALIZER(h)
      [] kind = "CIRCLEQ" -> CIRCLEQ_HEAD_INITIALIZER(h)

Init ==
    /\ kind \in Kinds
    /\ mem = [c \in Cells |-> CASE c[1] = "first" -> Fresh(c[2]).first
                               [] c[1] = "last" -> Fresh(c[2]).last
                               [] OTHER -> Poison]
    /\ lists = [h \in Heads |-> <<>>]
    /\ origin = [h \in Heads |-> h]
    /\ loop = NoLoop

-----------------------------------------------------------------------------
(* What the macros are for, on sequences                                   *)
Listed(h) == {lists[h][i] : i \in DOMAIN lists[h]}
InUse == UNION {Listed(h) : h \in Heads}
Place(h, e) == CHOOSE i \in DOMAIN lists[h] : lists[h][i] = e

With(s, i, e) ==       \* e inserted as the i-th of s
    [j \in 1..Len(s) + 1 |-> IF j < i THEN s[j] ELSE IF j = i THEN e ELSE s[j - 1]]

Without(s, i) == [j \in 1..Len(s) - 1 |-> IF j < i THEN s[j] ELSE s[j + 1]]

(* The element that the loop has saved stays where it is, and a removed    *)
(* one is none that the loop must come to.                                 *)
Removable(e) == Idle \/ loop.tvar # e

Removed(h, i) ==
    /\ lists' = [lists EXCEPT ![h] = Without(@, i)]
    /\ loop' = [loop EXCEPT !.due = @ \ {lists[h][i]}]

(* LIST_MOVE leaves the back link of the first element at the old head     *)
(* (queue.h:214-220): what goes through it would write to the old head, so *)
(* that this program waits until an insertion at the head has mended it.   *)
Usable(h, e) == e = lists[h][1] => origin[h] = h

InsertHead(h, e) ==
    /\ e \notin InUse
    /\ mem' = CASE kind = "SLIST" -> SLIST_INSERT_HEAD(mem, h, e)
                [] kind = "LIST" -> LIST_INSERT_HEAD(mem, h, e)
                [] kind = "SIMPLEQ" -> SIMPLEQ_INSERT_HEAD(mem, h, e)
                [] kind = "STAILQ" -> STAILQ_INSERT_HEAD(mem, h, e)
                [] kind = "TAILQ" -> TAILQ_INSERT_HEAD(mem, h, e)
                [] kind = "CIRCLEQ" -> CIRCLEQ_INSERT_HEAD(mem, h, e)
    /\ lists' = [lists EXCEPT ![h] = With(@, 1, e)]
    /\ origin' = [origin EXCEPT ![h] = h]
    /\ UNCHANGED <<kind, loop>>

InsertTail(h, e) ==
    /\ Tailed
    /\ e \notin InUse
    /\ mem' = CASE kind = "SIMPLEQ" -> SIMPLEQ_INSERT_TAIL(mem, h, e)
                [] kind = "STAILQ" -> STAILQ_INSERT_TAIL(mem, h, e)
                [] kind = "TAILQ" -> TAILQ_INSERT_TAIL(mem, h, e)
                [] kind = "CIRCLEQ" -> CIRCLEQ_INSERT_TAIL(mem, h, e)
    /\ lists' = [lists EXCEPT ![h] = With(@, Len(@) + 1, e)]
    /\ UNCHANGED <<kind, origin, loop>>

InsertAfter(h, i, e) ==
    /\ e \notin InUse
    /\ LET elm == lists[h][i]
       IN mem' = CASE kind = "SLIST" -> SLIST_INSERT_AFTER(mem, elm, e)
                   [] kind = "LIST" -> LIST_INSERT_AFTER(mem, elm, e)
                   [] kind = "SIMPLEQ" -> SIMPLEQ_INSERT_AFTER(mem, h, elm, e)
                   [] kind = "STAILQ" -> STAILQ_INSERT_AFTER(mem, h, elm, e)
                   [] kind = "TAILQ" -> TAILQ_INSERT_AFTER(mem, h, elm, e)
                   [] kind = "CIRCLEQ" -> CIRCLEQ_INSERT_AFTER(mem, h, elm, e)
    /\ lists' = [lists EXCEPT ![h] = With(@, i + 1, e)]
    /\ UNCHANGED <<kind, origin, loop>>

InsertBefore(h, i, e) ==
    /\ Doubly
    /\ e \notin InUse
    /\ Usable(h, lists[h][i])
    /\ LET elm == lists[h][i]
       IN mem' = CASE kind = "LIST" -> LIST_INSERT_BEFORE(mem, elm, e)
                   [] kind = "TAILQ" -> TAILQ_INSERT_BEFORE(mem, elm, e)
                   [] kind = "CIRCLEQ" -> CIRCLEQ_INSERT_BEFORE(mem, h, elm, e)
    /\ lists' = [lists EXCEPT ![h] = With(@, i, e)]
    /\ UNCHANGED <<kind, origin, loop>>

RemoveHead(h) ==
    /\ kind \in {"SLIST", "SIMPLEQ", "STAILQ"}
    /\ lists[h] # <<>> /\ Removable(lists[h][1])
    /\ LET removed == CASE kind = "SLIST" -> SLIST_REMOVE_HEAD(mem, h)
                        [] kind = "SIMPLEQ" -> SIMPLEQ_REMOVE_HEAD(mem, h)
                        [] kind = "STAILQ" -> STAILQ_REMOVE_HEAD(mem, h)
       IN mem' = Forget(removed, lists[h][1])
    /\ Removed(h, 1)
    /\ UNCHANGED <<kind, origin>>

RemoveAfter(h, i) ==
    /\ kind \in {"SLIST", "SIMPLEQ"}
    /\ i < Len(lists[h]) /\ Removable(lists[h][i + 1])
    /\ LET elm == lists[h][i]
           removed == CASE kind = "SLIST" -> SLIST_REMOVE_AFTER(mem, elm)
                        [] kind = "SIMPLEQ" -> SIMPLEQ_REMOVE_AFTER(mem, h, elm)
       IN mem' = Forget(removed, lists[h][i + 1])
    /\ Removed(h, i + 1)
    /\ UNCHANGED <<kind, origin>>

Remove(h, i) ==
    /\ Removable(lists[h][i]) /\ Usable(h, lists[h][i])
    /\ LET elm == lists[h][i]
       IN mem' = CASE kind = "SLIST" -> Forget(SLIST_REMOVE(mem, h, elm), elm)
                   [] kind = "LIST" -> LIST_REMOVE(mem, elm)
                   [] kind = "SIMPLEQ" -> Forget(SIMPLEQ_REMOVE(mem, h, elm), elm)
                   [] kind = "STAILQ" -> Forget(STAILQ_REMOVE(mem, h, elm), elm)
                   [] kind = "TAILQ" -> TAILQ_REMOVE(mem, h, elm)
                   [] kind = "CIRCLEQ" -> CIRCLEQ_REMOVE(mem, h, elm)
    /\ Removed(h, i)
    /\ UNCHANGED <<kind, origin>>

Replace(h, i, e) ==
    /\ kind \in {"LIST", "TAILQ"}
    /\ e \notin InUse
    /\ Removable(lists[h][i]) /\ Usable(h, lists[h][i])
    /\ LET elm == lists[h][i]
       IN mem' = CASE kind = "LIST" -> LIST_REPLACE(mem, elm, e)
                   [] kind = "TAILQ" -> TAILQ_REPLACE(mem, h, elm, e)
    /\ lists' = [lists EXCEPT ![h][i] = e]
    /\ loop' = [loop EXCEPT !.due = @ \ {lists[h][i]}]
    /\ UNCHANGED <<kind, origin>>

(* All of head2 goes to the end of head1, outside of a loop.               *)
Concat(h1, h2) ==
    /\ kind \in {"SIMPLEQ", "STAILQ", "TAILQ"}
    /\ Idle /\ h1 # h2
    /\ mem' = CASE kind = "SIMPLEQ" -> SIMPLEQ_CONCAT(mem, h1, h2)
                [] kind = "STAILQ" -> STAILQ_CONCAT(mem, h1, h2)
                [] kind = "TAILQ" -> TAILQ_CONCAT(mem, h1, h2)
    /\ lists' = [lists EXCEPT ![h1] = @ \o lists[h2], ![h2] = <<>>]
    /\ UNCHANGED <<kind, origin, loop>>

(* All of head1 becomes head2, which the program has emptied.              *)
Move(h1, h2) ==
    /\ kind = "LIST"
    /\ Idle /\ h1 # h2 /\ lists[h2] = <<>>
    /\ mem' = LIST_MOVE(mem, h1, h2)
    /\ lists' = [lists EXCEPT ![h2] = lists[h1], ![h1] = <<>>]
    /\ origin' = [origin EXCEPT ![h2] = IF lists[h1] = <<>> THEN h2 ELSE origin[h1],
                                ![h1] = h1]
    /\ UNCHANGED <<kind, loop>>

-----------------------------------------------------------------------------
(* FOREACH_SAFE, and TAILQ_FOREACH_REVERSE_SAFE: the next element is saved *)
(* before the body runs; the operations above are the body.  A CIRCLEQ has *)
(* no such macro, and its loops keep the element they are at.              *)
Follow(reverse, e) ==
    IF e = Null THEN Null
    ELSE IF reverse THEN TAILQ_PREV(mem, e) ELSE mem[NextOf(e)]

Begin(h, reverse) ==
    /\ kind # "CIRCLEQ" /\ (reverse => kind = "TAILQ")
    /\ Idle /\ lists[h] # <<>>
    /\ LET var == IF reverse THEN TAILQ_LAST(mem, h) ELSE mem[FirstOf(h)]
       IN loop' = [head |-> h, reverse |-> reverse, var |-> var,
                   tvar |-> Follow(reverse, var), due |-> Listed(h) \ {var}]
    /\ UNCHANGED <<kind, mem, lists, origin>>

(* Error: the next element is read after the body has run.                 *)
AdvanceUnsaved ==
    /\ ~Idle
    /\ LET var == IF mem[NextOf(loop.var)] = Poison THEN Null ELSE mem[NextOf(loop.var)]
       IN loop' = IF var = Null THEN [NoLoop EXCEPT !.due = loop.due]
                  ELSE [loop EXCEPT !.var = var, !.tvar = Follow(loop.reverse, var),
                                    !.due = @ \ {var}]
    /\ UNCHANGED <<kind, mem, lists, origin>>

Advance ==
    /\ ~Idle
    /\ LET var == loop.tvar
       IN loop' = IF var = Null THEN [NoLoop EXCEPT !.due = loop.due]
                  ELSE [loop EXCEPT !.var = var, !.tvar = Follow(loop.reverse, var),
                                    !.due = @ \ {var}]
    /\ UNCHANGED <<kind, mem, lists, origin>>

Next ==
    \/ \E h \in Heads, e \in Elements : InsertHead(h, e) \/ InsertTail(h, e)
    \/ \E h \in Heads : \E i \in DOMAIN lists[h] :
        \/ RemoveAfter(h, i) \/ Remove(h, i)
        \/ \E e \in Elements : InsertAfter(h, i, e) \/ InsertBefore(h, i, e)
                               \/ Replace(h, i, e)
    \/ \E h \in Heads : RemoveHead(h)
    \/ \E h1, h2 \in Heads : Concat(h1, h2) \/ Move(h1, h2)
    \/ \E h \in Heads, reverse \in BOOLEAN : Begin(h, reverse)
    \/ Advance

Spec == Init /\ [][Next]_vars

-----------------------------------------------------------------------------
(* Heads and the links of listed elements never hold what a removal leaves.*)
TypeOK ==
    /\ kind \in Kinds
    /\ mem \in [Cells -> Values]
    /\ \A h \in Heads : mem[FirstOf(h)] # Poison /\ mem[LastOf(h)] # Poison
    /\ lists \in [Heads -> Seq(Elements)] /\ origin \in [Heads -> Heads]
    /\ loop.head \in Heads \cup {Null} /\ loop.reverse \in BOOLEAN
    /\ loop.var \in Elements \cup {Null} /\ loop.tvar \in Elements \cup {Null}
    /\ loop.due \subseteq Elements

(* An element is in one list at a time, once.                              *)
OnceEach ==
    \A h1, h2 \in Heads : \A i \in DOMAIN lists[h1], j \in DOMAIN lists[h2] :
        lists[h1][i] = lists[h2][j] => h1 = h2 /\ i = j

(* The links of the elements are those of the sequence the program made:   *)
(* forward, to the end; backward, but for the first element after          *)
(* LIST_MOVE; and to the place where the next insertion at the tail goes.  *)
Succ(h, i) == IF i <= Len(lists[h]) THEN lists[h][i] ELSE EndOf(h)

BackAt(h, i) ==
    IF i = 1 THEN IF kind = "CIRCLEQ" THEN h ELSE FirstOf(h)
    ELSE IF kind = "CIRCLEQ" THEN lists[h][i - 1] ELSE NextOf(lists[h][i - 1])

Forward(h) ==
    /\ mem[FirstOf(h)] = Succ(h, 1)
    /\ \A i \in 1..Len(lists[h]) : mem[NextOf(lists[h][i])] = Succ(h, i + 1)

Backward(h) ==
    \A i \in 1..Len(lists[h]) :
        mem[PrevOf(lists[h][i])] = BackAt(IF i = 1 THEN origin[h] ELSE h, i)

TailAt(h) == mem[LastOf(h)] = IF Tailed THEN BackAt(h, Len(lists[h]) + 1) ELSE Null

Represented ==
    /\ OnceEach
    /\ \A h \in Heads : Forward(h) /\ (Doubly => Backward(h)) /\ TailAt(h)

(* The conditions that QUEUEDEBUG tests before each operation fail at the  *)
(* first element of a list that was moved (LIST_MOVE, queue.h:214-220),    *)
(* until an insertion at the head has mended its back link, and nowhere    *)
(* else, after any mix of operations.                                      *)
DebugChecksAreExact ==
    /\ kind = "LIST" =>
        \A h \in Heads :
            /\ QUEUEDEBUG_LIST_INSERT_HEAD(mem, h) <=> lists[h] = <<>> \/ origin[h] = h
            /\ \A e \in Listed(h) : QUEUEDEBUG_LIST_OP(mem, e) <=> Usable(h, e)
    /\ kind = "TAILQ" =>
        \A h \in Heads :
            /\ QUEUEDEBUG_TAILQ_INSERT_HEAD(mem, h)
            /\ QUEUEDEBUG_TAILQ_INSERT_TAIL(mem, h)
            /\ \A e \in Listed(h) : /\ QUEUEDEBUG_TAILQ_OP(mem, e)
                                    /\ QUEUEDEBUG_TAILQ_PREREMOVE(mem, h, e)
    /\ kind = "CIRCLEQ" =>
        \A h \in Heads :
            /\ QUEUEDEBUG_CIRCLEQ_HEAD(mem, h)
            /\ \A e \in Listed(h) : QUEUEDEBUG_CIRCLEQ_ELM(mem, h, e)

(* What the header says of lists (queue.h:52-55): an arbitrary element can *)
(* be removed, and elements be added before or after an existing one or at *)
(* the head; so its own checks (226-239) pass whenever the program comes   *)
(* to do so.                                                               *)
AnyElementMayBeUsed ==
    kind = "LIST" =>
        \A h \in Heads :
            /\ QUEUEDEBUG_LIST_INSERT_HEAD(mem, h)
            /\ \A e \in Listed(h) : QUEUEDEBUG_LIST_OP(mem, e)

(* The macros that go backward find the last element and the one before:   *)
(* those of tail queues take an entry for a head (queue.h:423-426), those  *)
(* of simple queues compute with the address of a field, those of circular *)
(* queues go around.                                                       *)
FoundBackward ==
    \A h \in Heads :
        LET s == lists[h]
            n == Len(s)
            last == IF n = 0 THEN Null ELSE s[n]
        IN /\ kind = "TAILQ" =>
                /\ TAILQ_LAST(mem, h) = last
                /\ \A i \in 1..n : TAILQ_PREV(mem, s[i]) = IF i = 1 THEN Null ELSE s[i - 1]
           /\ kind = "SIMPLEQ" => SIMPLEQ_LAST(mem, h) = last
           /\ kind = "STAILQ" => STAILQ_LAST(mem, h) = last
           /\ kind = "CIRCLEQ" =>
                \A i \in 1..n :
                    /\ CIRCLEQ_LOOP_NEXT(mem, h, s[i]) = s[(i % n) + 1]
                    /\ CIRCLEQ_LOOP_PREV(mem, h, s[(i % n) + 1]) = s[i]

(* Whatever the body of a loop inserts and removes, the loop has come to   *)
(* all elements that stayed in the list when it is over.                   *)
LoopComesToAll == Idle => loop.due = {}
=============================================================================
