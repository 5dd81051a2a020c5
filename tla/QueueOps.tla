------------------------------ MODULE QueueOps ------------------------------
(***************************************************************************)
(* The mutex/condition-variable queue of queue.c as operators on a queue   *)
(* value, so that every module holding queues (BucketQueue, Pipeline) uses *)
(* the same translation.  A queue value is a record:                       *)
(*   items    - the linked list head..tail, as a sequence                  *)
(*   closed   - q->closed                                                  *)
(*   waiting  - threads blocked in pthread_cond_wait(&q->cond)             *)
(*   woken    - threads signalled and not yet back in the mutex            *)
(* A whole queue_push/queue_close, and each half of a queue_pop separated  *)
(* by the condition wait, runs under q->lock and is therefore one step.    *)
(***************************************************************************)
EXTENDS Naturals, Sequences

CONSTANT NULL

\* The flags of queue_pop (queue.h: Q_NOWAIT, Q_FORCE).
NOWAIT == "NOWAIT"
FORCE  == "FORCE"

\* The value queue_pop hands back when the caller goes to sleep in
\* pthread_cond_wait instead of returning.
WAIT == "WAIT"

\* queue_init: an empty, open queue with nobody waiting.
QueueInit == [items |-> <<>>, closed |-> FALSE, waiting |-> {}, woken |-> {}]

\* A push that signals nobody (the pthread_cond_signal left out).
SignalledNone(q) == {q}

\* pthread_cond_signal wakes at least one waiter when there is one; with one
\* call per push we let it wake exactly one, any of them.
Signalled(q) ==
    IF q.waiting = {} THEN {q}
    ELSE {[q EXCEPT !.waiting = @ \ {w}, !.woken = @ \union {w}] : w \in q.waiting}

\* queue_push: a closed queue refuses the item (returns 1, the item is
\* dropped on the floor); otherwise it is appended and one waiter signalled.
\* The set of queues the push can leave behind.
Pushed(q, x) ==
    IF q.closed THEN {q}
    ELSE Signalled([q EXCEPT !.items = Append(@, x)])

\* queue_close without the broadcast.
ClosedNoWake(q) == [q EXCEPT !.closed = TRUE]

\* queue_close: set closed and broadcast to every waiter.
Closed(q) ==
    [q EXCEPT !.closed = TRUE, !.waiting = {}, !.woken = @ \union q.waiting]

\* A pass that returns the head item but leaves q->head in place.
PopPassNoUnlink(q, t, flags, i) ==
    IF q.items # <<>> /\ ~(q.closed /\ FORCE \notin flags)
      THEN [q |-> q, item |-> Head(q.items)]
      ELSE [q |-> q, item |-> NULL]

\* One pass of the body of queue_pop's `for (i=0; i<2; i++)` loop under the
\* lock, for thread t, on pass i.  Result: [q |-> queue after, item |-> the
\* item returned, NULL, or WAIT when the thread goes into cond_wait].
PopPass(q, t, flags, i) ==
    CASE q.closed /\ FORCE \notin flags
            -> [q |-> q, item |-> NULL]
      [] q.items # <<>>
            -> [q |-> [q EXCEPT !.items = Tail(@)], item |-> Head(q.items)]
      [] i = 0 /\ NOWAIT \notin flags
            -> [q |-> [q EXCEPT !.waiting = @ \union {t}], item |-> WAIT]
      [] OTHER
            -> [q |-> q, item |-> NULL]

\* queue_pop up to the condition wait: pass 0, and for a non-waiting pop
\* that found nothing, pass 1 under the same lock (nothing can change).
PopStart(q, t, flags) == PopPass(q, t, flags, 0)

\* The return from pthread_cond_wait once t holds the lock again, followed
\* by pass 1 of the loop: there is no third pass, so an empty queue now
\* makes queue_pop return NULL.
PopResume(q, t, flags) ==
    PopPass([q EXCEPT !.woken = @ \ {t}], t, flags, 1)

\* pthread_cond_wait may return without a signal (POSIX spurious wakeup).
Spurious(q, t) == [q EXCEPT !.waiting = @ \ {t}, !.woken = @ \union {t}]

\* queue_count.
Count(q) == Len(q.items)
=============================================================================
