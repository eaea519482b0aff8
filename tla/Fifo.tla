-------------------------------- MODULE Fifo --------------------------------
(***************************************************************************)
(* A first-in first-out queue: what enqueue and dequeue of ztact.lua       *)
(* promise.  A list with elements may be taken for a queue, but only by    *)
(* dequeue: if the first call is one of enqueue, its elements are          *)
(* forgotten.                                                              *)
(***************************************************************************)
EXTENDS Sequences

CONSTANTS Elements,   \* what may be queued
          Nil         \* what dequeue returns of an empty queue

VARIABLES items,      \* the queue, its head first
          out,        \* what the last dequeue returned
          begun       \* there was a call

fifoVars == <<items, out, begun>>

FifoInit == items \in Seq(Elements) /\ out = Nil /\ begun = FALSE

Put(e) == /\ begun \/ items = <<>>
          /\ items' = Append(items, e) /\ begun' = TRUE /\ UNCHANGED out

Forget(e) == /\ ~begun /\ items # <<>>
             /\ items' = <<e>> /\ begun' = TRUE /\ UNCHANGED out

Take == items # <<>> /\ items' = Tail(items) /\ out' = Head(items) /\ begun' = TRUE

TakeNothing == begun /\ items = <<>> /\ out' = Nil /\ UNCHANGED <<items, begun>>

FifoNext == (\E e \in Elements : Put(e) \/ Forget(e)) \/ Take \/ TakeNothing

FifoSpec == FifoInit /\ [][FifoNext]_fifoVars
=============================================================================
