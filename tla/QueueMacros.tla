---------------------------- MODULE QueueMacros ----------------------------
(***************************************************************************)
(* The macros of main/bsd-compat-headers/queue.h as functions of a memory: *)
(* singly-linked lists (SLIST), lists (LIST), simple queues (SIMPLEQ),     *)
(* singly-linked tail queues (STAILQ), tail queues (TAILQ) and circular    *)
(* queues (CIRCLEQ).                                                       *)
(*                                                                         *)
(* A memory m maps cells, the fields of heads and of elements, to what     *)
(* they hold: an element, a head, the address of a cell, NULL, or Poison.  *)
(* LIST and the tail queues keep addresses of cells in PrevOf and LastOf;  *)
(* CIRCLEQ keeps elements there, and the head itself at both ends.         *)
(***************************************************************************)
EXTENDS Integers, Sequences

CONSTANTS Heads, Elements, Null, Poison

FirstOf(h) == <<"first", h>>
LastOf(h) == <<"last", h>>
NextOf(e) == <<"next", e>>
PrevOf(e) == <<"prev", e>>

Cells == {"first", "last"} \X Heads \cup {"next", "prev"} \X Elements
Values == Elements \cup Heads \cup Cells \cup {Null, Poison}

(* The heads of empty lists                                                *)
SLIST_HEAD_INITIALIZER(h) == [first |-> Null, last |-> Null]
LIST_HEAD_INITIALIZER(h) == [first |-> Null, last |-> Null]
SIMPLEQ_HEAD_INITIALIZER(h) == [first |-> Null, last |-> FirstOf(h)]
TAILQ_HEAD_INITIALIZER(h) == [first |-> Null, last |-> FirstOf(h)]
STAILQ_HEAD_INITIALIZER(h) == [first |-> Null, last |-> FirstOf(h)]
CIRCLEQ_HEAD_INITIALIZER(h) == [first |-> h, last |-> h]

(* An element that has left its list is the caller's: POSTREMOVE writes 1  *)
(* to its links, or the caller frees it.                                   *)
Forget(m, e) == [m EXCEPT ![NextOf(e)] = Poison, ![PrevOf(e)] = Poison]

(* The loop of REMOVE: from the first element on, as long as elm is not    *)
(* the next one                                                            *)
Walk(m, elm) ==
    LET cur[e \in Elements] ==
            IF m[NextOf(e)] \in Elements \ {elm} THEN cur[m[NextOf(e)]] ELSE e
    IN cur

Before(m, h, elm) == Walk(m, elm)[m[FirstOf(h)]]

-----------------------------------------------------------------------------
(* Error: the link of the list is overwritten before it is copied.         *)
SLIST_INSERT_AFTER_Swapped(m, listelm, e) ==
    [m EXCEPT ![NextOf(listelm)] = e, ![NextOf(e)] = e]

SLIST_INSERT_AFTER(m, listelm, e) ==
    [m EXCEPT ![NextOf(e)] = m[NextOf(listelm)], ![NextOf(listelm)] = e]

SLIST_INSERT_HEAD(m, h, e) ==
    [m EXCEPT ![NextOf(e)] = m[FirstOf(h)], ![FirstOf(h)] = e]

SLIST_REMOVE_AFTER(m, listelm) ==
    [m EXCEPT ![NextOf(listelm)] = m[NextOf(m[NextOf(listelm)])]]

SLIST_REMOVE_HEAD(m, h) == [m EXCEPT ![FirstOf(h)] = m[NextOf(m[FirstOf(h)])]]

SLIST_REMOVE(m, h, e) ==
    IF m[FirstOf(h)] = e THEN SLIST_REMOVE_HEAD(m, h)
    ELSE [m EXCEPT ![NextOf(Before(m, h, e))] = m[NextOf(e)]]

-----------------------------------------------------------------------------
BackLink(m, e, cell) == IF e = Null THEN m ELSE [m EXCEPT ![PrevOf(e)] = cell]

LIST_MOVE(m, h1, h2) ==
    [m EXCEPT ![FirstOf(h2)] = m[FirstOf(h1)], ![FirstOf(h1)] = Null]

LIST_INSERT_AFTER(m, listelm, e) ==
    LET told == BackLink(m, m[NextOf(listelm)], NextOf(e))
    IN [told EXCEPT ![NextOf(e)] = m[NextOf(listelm)], ![NextOf(listelm)] = e,
                    ![PrevOf(e)] = NextOf(listelm)]

LIST_INSERT_BEFORE(m, listelm, e) ==
    [m EXCEPT ![PrevOf(e)] = m[PrevOf(listelm)], ![NextOf(e)] = listelm,
              ![m[PrevOf(listelm)]] = e, ![PrevOf(listelm)] = NextOf(e)]

LIST_INSERT_HEAD(m, h, e) ==
    LET told == BackLink(m, m[FirstOf(h)], NextOf(e))
    IN [told EXCEPT ![NextOf(e)] = m[FirstOf(h)], ![FirstOf(h)] = e,
                    ![PrevOf(e)] = FirstOf(h)]

(* Error: the link to the next element is written before it is read.       *)
LIST_REMOVE_Forgotten(m, e) ==
    LET gone == Forget(m, e)
    IN [BackLink(gone, m[NextOf(e)], m[PrevOf(e)])
            EXCEPT ![m[PrevOf(e)]] = gone[NextOf(e)]]

LIST_REMOVE(m, e) ==
    LET told == BackLink(m, m[NextOf(e)], m[PrevOf(e)])
    IN Forget([told EXCEPT ![m[PrevOf(e)]] = m[NextOf(e)]], e)

LIST_REPLACE(m, e, e2) ==
    LET told == BackLink(m, m[NextOf(e)], NextOf(e2))
    IN Forget([told EXCEPT ![NextOf(e2)] = m[NextOf(e)], ![PrevOf(e2)] = m[PrevOf(e)],
                           ![m[PrevOf(e)]] = e2], e)

QUEUEDEBUG_LIST_INSERT_HEAD(m, h) ==
    m[FirstOf(h)] # Null => m[PrevOf(m[FirstOf(h)])] = FirstOf(h)

QUEUEDEBUG_LIST_OP(m, e) ==
    /\ m[NextOf(e)] # Null => m[PrevOf(m[NextOf(e)])] = NextOf(e)
    /\ m[m[PrevOf(e)]] = e

-----------------------------------------------------------------------------
(* (head)->sqh_last = cell, where the next element is NULL                 *)
LastIfEnd(m, h, next, cell) == IF next = Null THEN [m EXCEPT ![LastOf(h)] = cell] ELSE m

SIMPLEQ_INSERT_HEAD(m, h, e) ==
    LastIfEnd([m EXCEPT ![NextOf(e)] = m[FirstOf(h)], ![FirstOf(h)] = e],
              h, m[FirstOf(h)], NextOf(e))

SIMPLEQ_INSERT_TAIL(m, h, e) ==
    [m EXCEPT ![NextOf(e)] = Null, ![m[LastOf(h)]] = e, ![LastOf(h)] = NextOf(e)]

SIMPLEQ_INSERT_AFTER(m, h, listelm, e) ==
    LastIfEnd([m EXCEPT ![NextOf(e)] = m[NextOf(listelm)], ![NextOf(listelm)] = e],
              h, m[NextOf(listelm)], NextOf(e))

SIMPLEQ_REMOVE_HEAD(m, h) ==
    LET next == m[NextOf(m[FirstOf(h)])]
    IN LastIfEnd([m EXCEPT ![FirstOf(h)] = next], h, next, FirstOf(h))

(* Error: the tail pointer is left at the removed element.                 *)
SIMPLEQ_REMOVE_AFTER_KeepLast(m, h, e) ==
    [m EXCEPT ![NextOf(e)] = m[NextOf(m[NextOf(e)])]]

SIMPLEQ_REMOVE_AFTER(m, h, e) ==
    LET next == m[NextOf(m[NextOf(e)])]
    IN LastIfEnd([m EXCEPT ![NextOf(e)] = next], h, next, NextOf(e))

SIMPLEQ_REMOVE(m, h, e) ==
    IF m[FirstOf(h)] = e THEN SIMPLEQ_REMOVE_HEAD(m, h)
    ELSE LET cur == Before(m, h, e)
         IN LastIfEnd([m EXCEPT ![NextOf(cur)] = m[NextOf(e)]],
                      h, m[NextOf(e)], NextOf(cur))

SIMPLEQ_CONCAT(m, h1, h2) ==
    IF m[FirstOf(h2)] = Null THEN m
    ELSE [m EXCEPT ![m[LastOf(h1)]] = m[FirstOf(h2)], ![LastOf(h1)] = m[LastOf(h2)],
                   ![FirstOf(h2)] = Null, ![LastOf(h2)] = FirstOf(h2)]

(* sqh_last less the offset of the field is the element it is in.          *)
SIMPLEQ_LAST(m, h) == IF m[FirstOf(h)] = Null THEN Null ELSE m[LastOf(h)][2]

-----------------------------------------------------------------------------
(* The last field of what a pointer to a cell points to, taken for a head: *)
(* an entry has the layout of one, with prev in the place of last.         *)
AsHead(m, cell) == IF cell[1] = "first" THEN m[LastOf(cell[2])] ELSE m[PrevOf(cell[2])]

TAILQ_LAST(m, h) == m[AsHead(m, m[LastOf(h)])]

TAILQ_PREV(m, e) == m[AsHead(m, m[PrevOf(e)])]

(* The element after a new or a removed link learns of its cell, or, where *)
(* there is none, the head does.                                           *)
Behind(m, h, next, cell) ==
    IF next = Null THEN [m EXCEPT ![LastOf(h)] = cell] ELSE [m EXCEPT ![PrevOf(next)] = cell]

TAILQ_INSERT_HEAD(m, h, e) ==
    LET told == Behind(m, h, m[FirstOf(h)], NextOf(e))
    IN [told EXCEPT ![NextOf(e)] = m[FirstOf(h)], ![FirstOf(h)] = e,
                    ![PrevOf(e)] = FirstOf(h)]

TAILQ_INSERT_TAIL(m, h, e) ==
    [m EXCEPT ![NextOf(e)] = Null, ![PrevOf(e)] = m[LastOf(h)],
              ![m[LastOf(h)]] = e, ![LastOf(h)] = NextOf(e)]

TAILQ_INSERT_AFTER(m, h, listelm, e) ==
    LET told == Behind(m, h, m[NextOf(listelm)], NextOf(e))
    IN [told EXCEPT ![NextOf(e)] = m[NextOf(listelm)], ![NextOf(listelm)] = e,
                    ![PrevOf(e)] = NextOf(listelm)]

TAILQ_INSERT_BEFORE(m, listelm, e) == LIST_INSERT_BEFORE(m, listelm, e)

TAILQ_REMOVE(m, h, e) ==
    LET told == Behind(m, h, m[NextOf(e)], m[PrevOf(e)])
    IN Forget([told EXCEPT ![m[PrevOf(e)]] = m[NextOf(e)]], e)

TAILQ_REPLACE(m, h, e, e2) ==
    LET told == Behind(m, h, m[NextOf(e)], NextOf(e2))
    IN Forget([told EXCEPT ![NextOf(e2)] = m[NextOf(e)], ![PrevOf(e2)] = m[PrevOf(e)],
                           ![m[PrevOf(e)]] = e2], e)

(* Error: the first element of head2 keeps its back link.                  *)
TAILQ_CONCAT_KeepPrev(m, h1, h2) == SIMPLEQ_CONCAT(m, h1, h2)

TAILQ_CONCAT(m, h1, h2) ==
    IF m[FirstOf(h2)] = Null THEN m
    ELSE SIMPLEQ_CONCAT([m EXCEPT ![PrevOf(m[FirstOf(h2)])] = m[LastOf(h1)]], h1, h2)

QUEUEDEBUG_TAILQ_INSERT_HEAD(m, h) ==
    m[FirstOf(h)] # Null => m[PrevOf(m[FirstOf(h)])] = FirstOf(h)

QUEUEDEBUG_TAILQ_INSERT_TAIL(m, h) == m[m[LastOf(h)]] = Null

QUEUEDEBUG_TAILQ_OP(m, e) ==
    /\ m[NextOf(e)] # Null => m[PrevOf(m[NextOf(e)])] = NextOf(e)
    /\ m[m[PrevOf(e)]] = e

QUEUEDEBUG_TAILQ_PREREMOVE(m, h, e) == m[NextOf(e)] = Null => m[LastOf(h)] = NextOf(e)

-----------------------------------------------------------------------------
(* The macros of STAILQ are those of SIMPLEQ under other names.            *)
STAILQ_INSERT_HEAD(m, h, e) == SIMPLEQ_INSERT_HEAD(m, h, e)
STAILQ_INSERT_TAIL(m, h, e) == SIMPLEQ_INSERT_TAIL(m, h, e)
STAILQ_INSERT_AFTER(m, h, listelm, e) == SIMPLEQ_INSERT_AFTER(m, h, listelm, e)
STAILQ_REMOVE_HEAD(m, h) == SIMPLEQ_REMOVE_HEAD(m, h)
STAILQ_REMOVE(m, h, e) == SIMPLEQ_REMOVE(m, h, e)
STAILQ_CONCAT(m, h1, h2) == SIMPLEQ_CONCAT(m, h1, h2)
STAILQ_LAST(m, h) == SIMPLEQ_LAST(m, h)

-----------------------------------------------------------------------------
(* The back link of what follows, the forward link of what precedes: where *)
(* that is the head, its last and its first                                *)
BackCell(h, e) == IF e = h THEN LastOf(h) ELSE PrevOf(e)
ForwardCell(h, e) == IF e = h THEN FirstOf(h) ELSE NextOf(e)

CIRCLEQ_INSERT_AFTER(m, h, listelm, e) ==
    [m EXCEPT ![NextOf(e)] = m[NextOf(listelm)], ![PrevOf(e)] = listelm,
              ![BackCell(h, m[NextOf(listelm)])] = e, ![NextOf(listelm)] = e]

CIRCLEQ_INSERT_BEFORE(m, h, listelm, e) ==
    [m EXCEPT ![NextOf(e)] = listelm, ![PrevOf(e)] = m[PrevOf(listelm)],
              ![ForwardCell(h, m[PrevOf(listelm)])] = e, ![PrevOf(listelm)] = e]

(* Whether there is an element to be told is seen at the other end of the  *)
(* head.                                                                   *)
CIRCLEQ_INSERT_HEAD(m, h, e) ==
    LET behind == IF m[LastOf(h)] = h THEN LastOf(h) ELSE PrevOf(m[FirstOf(h)])
    IN [m EXCEPT ![NextOf(e)] = m[FirstOf(h)], ![PrevOf(e)] = h,
                 ![behind] = e, ![FirstOf(h)] = e]

CIRCLEQ_INSERT_TAIL(m, h, e) ==
    LET before == IF m[FirstOf(h)] = h THEN FirstOf(h) ELSE NextOf(m[LastOf(h)])
    IN [m EXCEPT ![NextOf(e)] = h, ![PrevOf(e)] = m[LastOf(h)],
                 ![before] = e, ![LastOf(h)] = e]

CIRCLEQ_REMOVE(m, h, e) ==
    Forget([m EXCEPT ![BackCell(h, m[NextOf(e)])] = m[PrevOf(e)],
                     ![ForwardCell(h, m[PrevOf(e)])] = m[NextOf(e)]], e)

CIRCLEQ_LOOP_NEXT(m, h, e) == IF m[NextOf(e)] = h THEN m[FirstOf(h)] ELSE m[NextOf(e)]
CIRCLEQ_LOOP_PREV(m, h, e) == IF m[PrevOf(e)] = h THEN m[LastOf(h)] ELSE m[PrevOf(e)]

QUEUEDEBUG_CIRCLEQ_HEAD(m, h) ==
    /\ m[FirstOf(h)] # h => m[PrevOf(m[FirstOf(h)])] = h
    /\ m[LastOf(h)] # h => m[NextOf(m[LastOf(h)])] = h

QUEUEDEBUG_CIRCLEQ_ELM(m, h, e) ==
    /\ IF m[NextOf(e)] = h THEN m[LastOf(h)] = e ELSE m[PrevOf(m[NextOf(e)])] = e
    /\ IF m[PrevOf(e)] = h THEN m[FirstOf(h)] = e ELSE m[NextOf(m[PrevOf(e)])] = e
=============================================================================
