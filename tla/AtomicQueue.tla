----------------------------- MODULE AtomicQueue -----------------------------
(***************************************************************************)
(* What queue.c promises its callers, with no lock, condition variable or  *)
(* waiting: a FIFO of items.  A push to a closed queue loses the item (the *)
(* callers of queue_push ignore its return value); a pop takes the head    *)
(* into the popping thread's hands, or returns NULL and changes nothing.   *)
(***************************************************************************)
EXTENDS Sequences

CONSTANTS Threads, Items

VARIABLES items,   \* the queue contents, head first
          closed,  \* the queue has been closed
          pushed,  \* the items some thread has handed to queue_push
          taken    \* taken[t]: the items thread t received, in order

vars == <<items, closed, pushed, taken>>

Init == /\ items = <<>>
        /\ closed = FALSE
        /\ pushed = {}
        /\ taken = [t \in Threads |-> <<>>]

Put(x) == /\ x \notin pushed
          /\ pushed' = pushed \union {x}
          /\ items' = IF closed THEN items ELSE Append(items, x)
          /\ UNCHANGED <<closed, taken>>

Take(t) == /\ items # <<>>
           /\ taken' = [taken EXCEPT ![t] = Append(@, Head(items))]
           /\ items' = Tail(items)
           /\ UNCHANGED <<closed, pushed>>

Close == /\ closed' = TRUE
         /\ UNCHANGED <<items, pushed, taken>>

Next == \/ \E x \in Items : Put(x)
        \/ \E t \in Threads : Take(t)
        \/ Close

Spec == Init /\ [][Next]_vars
=============================================================================
