----------------------------- MODULE BucketQueue -----------------------------
(***************************************************************************)
(* One queue of queue.c used by several threads.  Each thread repeatedly   *)
(* calls queue_push or queue_pop (with any flags); a main thread calls     *)
(* queue_close once.  queue_pop is split at pthread_cond_wait: PopCall is  *)
(* the part before the wait, Resume the part after it.                     *)
(***************************************************************************)
EXTENDS QueueOps, FiniteSets

CONSTANTS Threads, Items

ASSUME NULL \notin Items

\* The flag sets the callers pass: 0 (bucketq_pop), Q_NOWAIT (get_pkt_bucket,
\* run_search) and Q_NOWAIT|Q_FORCE (bucketq_free).
Flags == {{}, {NOWAIT}, {NOWAIT, FORCE}}

VARIABLES q,        \* the queue value (QueueOps)
          pc,       \* "idle" or "waiting" (inside pthread_cond_wait)
          flagsOf,  \* the flags of the pop a waiting thread is in
          ret,      \* the last return of queue_pop in each thread
          taken,    \* the items each thread has popped, in order
          pushed    \* the items handed to queue_push so far

vars == <<q, pc, flagsOf, ret, taken, pushed>>

NoReturn == [called |-> FALSE, flags |-> {}, item |-> NULL, closed |-> FALSE]

Init == /\ q = QueueInit
        /\ pc = [t \in Threads |-> "idle"]
        /\ flagsOf = [t \in Threads |-> {}]
        /\ ret = [t \in Threads |-> NoReturn]
        /\ taken = [t \in Threads |-> <<>>]
        /\ pushed = {}

\* queue_pop hands item back to t: record it, and keep it if not NULL.
Return(t, f, item, nq) ==
    /\ pc' = [pc EXCEPT ![t] = "idle"]
    /\ ret' = [ret EXCEPT ![t] = [called |-> TRUE, flags |-> f,
                                      item |-> item, closed |-> nq.closed]]
    /\ taken' = IF item = NULL THEN taken
                ELSE [taken EXCEPT ![t] = Append(@, item)]

Push(t, x) ==
    /\ pc[t] = "idle"
    /\ x \notin pushed
    /\ pushed' = pushed \union {x}
    /\ \E nq \in Pushed(q, x) : q' = nq
    /\ UNCHANGED <<pc, flagsOf, ret, taken>>

PopCall(t, f) ==
    /\ pc[t] = "idle"
    /\ LET r == PopStart(q, t, f) IN
         /\ q' = r.q
         /\ IF r.item = WAIT
              THEN /\ pc' = [pc EXCEPT ![t] = "waiting"]
                   /\ flagsOf' = [flagsOf EXCEPT ![t] = f]
                   /\ UNCHANGED <<ret, taken>>
              ELSE /\ Return(t, f, r.item, r.q)
                   /\ UNCHANGED flagsOf
    /\ UNCHANGED pushed

Resume(t) ==
    /\ t \in q.woken
    /\ LET r == PopResume(q, t, flagsOf[t]) IN
         /\ q' = r.q
         /\ Return(t, flagsOf[t], r.item, r.q)
    /\ UNCHANGED <<flagsOf, pushed>>

SpuriousWakeup(t) ==
    /\ t \in q.waiting
    /\ q' = Spurious(q, t)
    /\ UNCHANGED <<pc, flagsOf, ret, taken, pushed>>

Close == /\ ~q.closed
         /\ q' = Closed(q)
         /\ UNCHANGED <<pc, flagsOf, ret, taken, pushed>>

Next == \/ \E t \in Threads, x \in Items : Push(t, x)
        \/ \E t \in Threads, f \in Flags : PopCall(t, f)
        \/ \E t \in Threads : Resume(t) \/ SpuriousWakeup(t)
        \/ Close

\* A thread holding the lock again runs on (the scheduler is fair to it),
\* and the main thread does eventually close the queue at shutdown.
Spec == Init /\ [][Next]_vars /\ \A t \in Threads : WF_vars(Resume(t))
             /\ WF_vars(Close)

\* The model's bookkeeping of the queue and its waiters is consistent: a
\* thread is inside queue_pop's cond_wait exactly when it is waiting or
\* woken.  (A sanity check of the model, not of queue.c.)
TypeOK == /\ q.closed \in BOOLEAN
          /\ q.waiting \union q.woken \subseteq Threads
          /\ q.waiting \cap q.woken = {}
          /\ pc \in [Threads -> {"idle", "waiting"}]
          /\ \A t \in Threads : pc[t] = "waiting" <=> t \in q.waiting \union q.woken
          /\ pushed \subseteq Items

\* The queue is a FIFO that neither loses nor duplicates an accepted item:
\* queue_push appends at q->tail, and the two halves of queue_pop, with the
\* condition wait between them, take effect as one atomic pop of q->head.
Abstract == INSTANCE AtomicQueue WITH items <- q.items, closed <- q.closed
AtomicQueueSpec == Abstract!Spec

\* Every thread that went to sleep in queue_pop comes back out: a push
\* signals one waiter and queue_close broadcasts to all of them.
WaitersReturn == \A t \in Threads : pc[t] = "waiting" ~> pc[t] = "idle"

\* The comment on queue_pop: "If there was nothing to grab, wait until there
\* is."  A pop without Q_NOWAIT on a queue that is still open never returns
\* NULL.
BlockingPopNeverNull ==
    \A t \in Threads :
        ret[t].called /\ ret[t].item = NULL
            => NOWAIT \in ret[t].flags \/ ret[t].closed
=============================================================================
