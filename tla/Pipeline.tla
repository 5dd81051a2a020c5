------------------------------ MODULE Pipeline ------------------------------
(***************************************************************************)
(* The bucket pipeline of the pcapdb capture daemon: capture threads fill  *)
(* chains of buckets taken from the ready queue (bucketize.c, capture.c),  *)
(* indexer threads move them from filled to indexed (index.c), output      *)
(* threads write them and return every bucket to ready (output.c), and the *)
(* main thread runs the gentle shutdown of pcapdb.c.                       *)
(*                                                                         *)
(* Sizes are in abstract units: a packet's bytes and the fixed headers are *)
(* small numbers that keep the relations of the real ones (record header   *)
(* a multiple of the word size, mtu well above a typical packet).  Spurious *)
(* wakeups of pthread_cond_wait are left to BucketQueue: here a waiter only *)
(* wakes when signalled, which is the usual case and the harder one.       *)
(***************************************************************************)
EXTENDS QueueOps, Integers, FiniteSets, FiniteSetsExt, SequencesExt

CONSTANTS Buckets,      \* the bucket pool loaded into ready at startup
          Captures,     \* one capture thread per interface
          Indexers,     \* indexer threads
          Writers,      \* output threads
          Mode,         \* "LIVE" (libpcap) or "FILE" (pcap_open_offline)
          CapLens,      \* the caplen values packets arrive with
          MaxPackets,   \* bound: packets delivered to each capture thread
          Outcomes,     \* results output_bucket can return
          HdrSize,      \* sizeof(struct pcap_pkthdr32)
          RecSize,      \* sizeof(struct packet_record)
          WordSize,     \* sizeof(long)
          Mtu,          \* conf->mtu
          BucketSpace,  \* bucket_end - first_pkt of a reset bucket
          OutfileSize   \* conf->outfile_size

ASSUME /\ Mode \in {"LIVE", "FILE"}
       /\ Outcomes \subseteq {"OK", "DB_ERR", "IO_ERR"} /\ "OK" \in Outcomes
       /\ CapLens \subseteq 1..BucketSpace /\ MaxPackets \in Nat
       /\ RecSize % WordSize = 0

Threads == Captures \union Indexers \union Writers

VARIABLES
    ready, filled, indexed,  \* the three queues of struct system_state
    nxt,           \* bucket->next
    next_pkt_at,   \* bucket->next_pkt, as an offset into the data area
    last_pkt,      \* bucket->last_pkt: NULL or [at, caplen] of that record
    stats,         \* bucket->stats: NULL or the chain's network_stats
    head, current, \* cap_state->head_bkt, cap_state->current_bkt
    dropped_pkts,  \* cap_state->dropped_pkts
    cpc,           \* capture thread: "run", "waitExt", "exited", "crashed"
    pending,       \* caplen of the packet a waiting capture thread holds
    npkts,         \* packets delivered to each capture thread so far
    cev, iev, wev, \* the per-thread shutdown events
    ipc, ibkt,     \* indexer: "loop", "wait", "work", "exited"; its chain
    wpc, wbkt,     \* writer: "loop", "wait", "write", "unchain", "exited"
    sys_shutdown,  \* the global shutdown event set by signal_handler
    mpc,           \* the main thread's place in pcapdb_run/pcapdb_shutdown
    freed,         \* buckets released by bucketq_free
    drops,         \* history: packets each capture thread dropped
    drops_out      \* history: drop counts carried out of the pipeline

capVars == <<head, current, dropped_pkts, cpc, pending, npkts>>
bktVars == <<nxt, next_pkt_at, last_pkt, stats>>
vars == <<ready, filled, indexed, bktVars, capVars, cev, iev, wev, ipc, ibkt,
          wpc, wbkt, sys_shutdown, mpc, freed, drops, drops_out>>

-----------------------------------------------------------------------------
(* Bucket arithmetic.                                                      *)

\* network.c next_pkt: after the record header (less its one-byte packet
\* field) and caplen bytes, round up to the word size.  The rounding is
\* added to a struct packet_record pointer, so it is scaled by the size of
\* a packet_record, and the result keeps the misalignment.
next_pkt(at, caplen) ==
    LET n == at + RecSize - 1 + caplen
        offset == n % WordSize
    IN IF offset = 0 THEN n ELSE n + (WordSize - offset) * RecSize

\* BKT_SPACE_LEFT: a signed pointer difference.
SpaceLeft(b) == BucketSpace - next_pkt_at[b]

\* bucketize.c:50.  The signed space is compared with the unsigned
\* mtu + sizeof(packet_record), so a negative space converts to a huge one.
NeedsExtend(b) == SpaceLeft(b) >= 0 /\ Mtu + RecSize > SpaceLeft(b)

\* The seal test without the mtu term.
NeedsSealNoMtu(c) ==
    \/ head[c] = NULL
    \/ stats[head[c]].chain_size + HdrSize > OutfileSize

\* bucketize.c:16-18: no chain, or a full-mtu packet could overfill the file.
NeedsSeal(c) ==
    \/ head[c] = NULL
    \/ stats[head[c]].chain_size + HdrSize + Mtu > OutfileSize

\* The buckets of the chain starting at b (at most the whole pool).
RECURSIVE ChainFrom(_, _)
ChainFrom(b, n) == IF b = NULL \/ n = 0 THEN {} ELSE {b} \union ChainFrom(nxt[b], n - 1)
Chain(b) == ChainFrom(b, Cardinality(Buckets))

\* Mutant of NewStats: the calloc'ed stats without its interface (line 39).
NewStatsNoInterface(c) == [interface |-> NULL, dropped |-> dropped_pkts[c], captured |-> 0,
                           chain_size |-> 0]
NewStats(c) == [interface |-> c, dropped |-> dropped_pkts[c], captured |-> 0,
                chain_size |-> 0]
\* bucketize.c:126-145: the record is copied to offset at of bucket b,
\* next_pkt moves past it and last_pkt points at it.
StoreRecord(b, at, len) ==
    /\ next_pkt_at' = [next_pkt_at EXCEPT ![b] = next_pkt(at, len)]
    /\ last_pkt' = [last_pkt EXCEPT ![b] = [at |-> at, caplen |-> len]]

\* bucketize.c:128 and 150: the chain's head counts the packet and the size
\* its pcap header and data will take in the output file.
Counted(st, h, len) ==
    [st EXCEPT ![h].captured = @ + 1, ![h].chain_size = @ + HdrSize + len]

-----------------------------------------------------------------------------
(* Capture threads: capture.c capture() and bucketize.c.                   *)

\* get_pkt_bucket's first branch (bucketize.c:19-45) and the rest of
\* libpcap_bucketize: send_bucket seals the old chain (stats->dropped is
\* overwritten with dropped_pkts, line 75, then the head goes to filled),
\* a fresh head is popped without waiting, and if there is none the packet
\* is dropped (lines 120-122).
NewChain(c, len) ==
    LET old == head[c]
        st  == IF old = NULL THEN stats
               ELSE [stats EXCEPT ![old].dropped = dropped_pkts[c]]
        r   == PopStart(ready, c, {NOWAIT})
        b   == r.item
    IN /\ IF old = NULL THEN UNCHANGED filled
          ELSE \E f \in Pushed(filled, old) : filled' = f
       /\ ready' = r.q
       /\ IF b = NULL
            THEN /\ head' = [head EXCEPT ![c] = NULL]
                 /\ dropped_pkts' = [dropped_pkts EXCEPT ![c] = @ + 1]
                 /\ drops' = [drops EXCEPT ![c] = @ + 1]
                 /\ stats' = st
                 /\ UNCHANGED <<nxt, next_pkt_at, last_pkt, current>>
            ELSE /\ head' = [head EXCEPT ![c] = b]
                 /\ current' = [current EXCEPT ![c] = b]
                 /\ nxt' = [nxt EXCEPT ![b] = NULL]
                 /\ StoreRecord(b, 0, len)
                 /\ stats' = Counted([st EXCEPT ![b] = NewStats(c)], b, len)
                 /\ dropped_pkts' = [dropped_pkts EXCEPT ![c] = 0]
                 /\ UNCHANGED drops
       /\ UNCHANGED <<cpc, pending>>

\* bucketize.c:52-57 after bucketq_pop returned b, then the packet goes into
\* b.  A NULL b is dereferenced at line 54: the process dies.
Extended(c, b, len) ==
    IF b = NULL
      THEN /\ cpc' = [cpc EXCEPT ![c] = "crashed"]
           /\ UNCHANGED <<bktVars, current, pending>>
      ELSE /\ nxt' = [nxt EXCEPT ![current[c]] = b, ![b] = NULL]
           /\ current' = [current EXCEPT ![c] = b]
           /\ StoreRecord(b, 0, len)
           /\ stats' = Counted([stats EXCEPT ![b] = NULL], head[c], len)
           /\ cpc' = [cpc EXCEPT ![c] = "run"]
           /\ UNCHANGED pending

\* pcap_dispatch hands capture thread c one packet: libpcap_bucketize.
libpcap_bucketize(c, len) ==
    /\ cpc[c] = "run"
    /\ npkts[c] < MaxPackets
    /\ npkts' = [npkts EXCEPT ![c] = @ + 1]
    /\ CASE NeedsSeal(c) -> NewChain(c, len)
         [] NeedsExtend(current[c]) ->
              LET r == PopStart(ready, c, {}) IN
              /\ ready' = r.q
              /\ IF r.item = WAIT
                   THEN /\ cpc' = [cpc EXCEPT ![c] = "waitExt"]
                        /\ pending' = [pending EXCEPT ![c] = len]
                        /\ UNCHANGED <<bktVars, current>>
                   ELSE Extended(c, r.item, len)
              /\ UNCHANGED <<filled, head, dropped_pkts, drops>>
         [] OTHER ->
              /\ StoreRecord(current[c], next_pkt_at[current[c]], len)
              /\ stats' = Counted(stats, head[c], len)
              /\ UNCHANGED <<ready, filled, nxt, head, current, dropped_pkts,
                             cpc, pending, drops>>
    /\ UNCHANGED <<indexed, cev, iev, wev, ipc, ibkt, wpc, wbkt, sys_shutdown,
                   mpc, freed, drops_out>>

\* The capture thread blocked in bucketq_pop(ready) holds the lock again.
capture_resume(c) ==
    /\ cpc[c] = "waitExt"
    /\ c \in ready.woken
    /\ LET r == PopResume(ready, c, {}) IN
         /\ ready' = r.q
         /\ Extended(c, r.item, pending[c])
    /\ UNCHANGED <<filled, indexed, head, dropped_pkts, npkts, cev, iev, wev,
                   ipc, ibkt, wpc, wbkt, sys_shutdown, mpc, freed, drops,
                   drops_out>>

\* capture.c:48-57: in file mode pcap_dispatch read nothing (end of file):
\* set this thread's event and raise SIGTERM, whose handler sets the
\* global shutdown event.
end_of_file(c) ==
    /\ Mode = "FILE"
    /\ cpc[c] = "run"
    /\ npkts[c] = MaxPackets
    /\ ~cev[c]
    /\ cev' = [cev EXCEPT ![c] = TRUE]
    /\ sys_shutdown' = TRUE
    /\ UNCHANGED <<ready, filled, indexed, bktVars, capVars, iev, wev, ipc,
                   ibkt, wpc, wbkt, mpc, freed, drops, drops_out>>

\* capture.c:46 sees the event; line 77 ships the open chain: send_bucket.
capture_exit(c) ==
    /\ cpc[c] = "run"
    /\ cev[c]
    /\ IF head[c] = NULL
         THEN UNCHANGED <<filled, stats>>
         ELSE /\ stats' = [stats EXCEPT ![head[c]].dropped = dropped_pkts[c]]
              /\ \E f \in Pushed(filled, head[c]) : filled' = f
    /\ head' = [head EXCEPT ![c] = NULL]
    /\ cpc' = [cpc EXCEPT ![c] = "exited"]
    /\ UNCHANGED <<ready, indexed, nxt, next_pkt_at, last_pkt, current,
                   dropped_pkts, pending, npkts, cev, iev, wev, ipc, ibkt,
                   wpc, wbkt, sys_shutdown, mpc, freed, drops, drops_out>>
-----------------------------------------------------------------------------
(* Indexer threads: index.c indexer().  index_bucket only builds the       *)
(* chain's indexes, which no other thread reads before the chain is        *)
(* pushed to indexed, so it is one step here (Splay.tla models it).        *)

otherVarsI == <<ready, bktVars, capVars, cev, iev, wev, wpc, wbkt,
                sys_shutdown, mpc, freed, drops, drops_out>>

\* Keeping whatever bucketq_pop returned, the wait marker included.
IndexerGotRaw(i, r) ==
    /\ filled' = r.q
    /\ ipc' = [ipc EXCEPT ![i] = CASE r.item = WAIT -> "wait"
                                   [] r.item = NULL -> "loop"
                                   [] OTHER -> "work"]
    /\ ibkt' = [ibkt EXCEPT ![i] = r.item]

\* The outcome r of bucketq_pop(filled): wait, a NULL (continue), a chain.
IndexerGot(i, r) ==
    /\ filled' = r.q
    /\ ipc' = [ipc EXCEPT ![i] = CASE r.item = WAIT -> "wait"
                                   [] r.item = NULL -> "loop"
                                   [] OTHER -> "work"]
    /\ ibkt' = [ibkt EXCEPT ![i] = IF r.item = WAIT THEN NULL ELSE r.item]

\* index.c:17-21.  The event check and the pop take different locks; the
\* queue is closed before the events are set (pcapdb.c:566-573), so a pop
\* that starts after the event is set returns NULL either way.
indexer_pop(i) ==
    /\ ipc[i] = "loop"
    /\ ~iev[i]
    /\ IndexerGot(i, PopStart(filled, i, {}))
    /\ UNCHANGED <<indexed, otherVarsI>>

indexer_resume(i) ==
    /\ ipc[i] = "wait"
    /\ i \in filled.woken
    /\ IndexerGot(i, PopResume(filled, i, {}))
    /\ UNCHANGED <<indexed, otherVarsI>>

\* index.c:35-39: index_bucket, then push the chain to indexed.
index_bucket(i) ==
    /\ ipc[i] = "work"
    /\ \E q \in Pushed(indexed, ibkt[i]) : indexed' = q
    /\ ipc' = [ipc EXCEPT ![i] = "loop"]
    /\ ibkt' = [ibkt EXCEPT ![i] = NULL]
    /\ UNCHANGED <<filled, otherVarsI>>

indexer_exit(i) ==
    /\ ipc[i] = "loop"
    /\ iev[i]
    /\ ipc' = [ipc EXCEPT ![i] = "exited"]
    /\ UNCHANGED <<filled, indexed, ibkt, otherVarsI>>

-----------------------------------------------------------------------------
(* Output threads: output.c output().                                      *)

otherVarsW == <<filled, nxt, next_pkt_at, last_pkt, capVars, cev, iev, wev,
                ipc, ibkt, sys_shutdown, mpc, freed, drops>>

OutputGot(w, r) ==
    /\ indexed' = r.q
    /\ wpc' = [wpc EXCEPT ![w] = CASE r.item = WAIT -> "wait"
                                   [] r.item = NULL -> "loop"
                                   [] OTHER -> "write"]
    /\ wbkt' = [wbkt EXCEPT ![w] = IF r.item = WAIT THEN NULL ELSE r.item]

\* output.c:25-29.
output_pop(w) ==
    /\ wpc[w] = "loop"
    /\ ~wev[w]
    /\ OutputGot(w, PopStart(indexed, w, {}))
    /\ UNCHANGED <<ready, stats, drops_out, otherVarsW>>

output_resume(w) ==
    /\ wpc[w] = "wait"
    /\ w \in indexed.woken
    /\ OutputGot(w, PopResume(indexed, w, {}))
    /\ UNCHANGED <<ready, stats, drops_out, otherVarsW>>

\* output.c:39-43: output_bucket is retried while it reports a database
\* error and the global shutdown event is clear.  A failed attempt writes
\* nothing this model keeps, so the loop is its last attempt: success, an
\* I/O error, or a database error once shutdown has begun.  The chain's
\* stats (its drop count) leave the pipeline with it.
output_bucket(w) ==
    /\ wpc[w] = "write"
    /\ \E o \in Outcomes : o # "DB_ERR" \/ sys_shutdown
    /\ drops_out' = [drops_out EXCEPT ![stats[wbkt[w]].interface] =
                         @ + stats[wbkt[w]].dropped]
    /\ wpc' = [wpc EXCEPT ![w] = "unchain"]
    /\ UNCHANGED <<ready, indexed, stats, wbkt, otherVarsW>>

\* Unchaining that pushes the head bucket and forgets the rest of the chain.
output_unchain_head(w) ==
    LET b == wbkt[w] IN
    /\ wpc[w] = "unchain"
    /\ \E q \in Pushed(ready, b) : ready' = q
    /\ nxt' = [nxt EXCEPT ![b] = NULL]
    /\ wbkt' = [wbkt EXCEPT ![w] = NULL]
    /\ wpc' = [wpc EXCEPT ![w] = "loop"]
    /\ UNCHANGED <<filled, indexed, next_pkt_at, last_pkt, stats, capVars, cev,
                   iev, wev, ipc, ibkt, sys_shutdown, mpc, freed, drops,
                   drops_out>>

\* output.c:47-53: one iteration of the loop that takes the chain apart and
\* pushes each bucket back onto ready.
output_unchain(w) ==
    LET b == wbkt[w] IN
    /\ wpc[w] = "unchain"
    /\ \E q \in Pushed(ready, b) : ready' = q
    /\ nxt' = [nxt EXCEPT ![b] = NULL]
    /\ wbkt' = [wbkt EXCEPT ![w] = nxt[b]]
    /\ wpc' = [wpc EXCEPT ![w] = IF nxt[b] = NULL THEN "loop" ELSE "unchain"]
    /\ UNCHANGED <<filled, indexed, next_pkt_at, last_pkt, stats, capVars, cev,
                   iev, wev, ipc, ibkt, sys_shutdown, mpc, freed, drops,
                   drops_out>>

output_exit(w) ==
    /\ wpc[w] = "loop"
    /\ wev[w]
    /\ wpc' = [wpc EXCEPT ![w] = "exited"]
    /\ UNCHANGED <<ready, indexed, stats, wbkt, drops_out, otherVarsW>>
-----------------------------------------------------------------------------
(* The main thread: pcapdb_run, signal_handler and pcapdb_shutdown.        *)

workerVars == <<bktVars, capVars, ipc, ibkt, wpc, wbkt, drops, drops_out>>

\* pcapdb.c:673-681: SIGINT, SIGTERM or SIGQUIT from the operator.
signal_handler ==
    /\ ~sys_shutdown
    /\ sys_shutdown' = TRUE
    /\ UNCHANGED <<ready, filled, indexed, workerVars, cev, iev, wev, mpc, freed>>

\* The main thread moves from one place of its shutdown sequence to the next.
MainStep(from, to) == mpc = from /\ mpc' = to

\* pcapdb.c:472 sees the event; 495-513 set every capture thread's event
\* (and break its receive loop).
stop_captures ==
    /\ MainStep("run", "joinCaptures")
    /\ sys_shutdown
    /\ cev' = [c \in Captures |-> TRUE]
    /\ UNCHANGED <<ready, filled, indexed, workerVars, iev, wev, sys_shutdown, freed>>

\* pcapdb.c:516-521: pthread_join of every capture thread.
join_captures ==
    /\ MainStep("joinCaptures", "drainFilled")
    /\ \A c \in Captures : cpc[c] = "exited"
    /\ UNCHANGED <<ready, filled, indexed, workerVars, cev, iev, wev, sys_shutdown, freed>>

\* Closing filled without waiting for it to empty.
close_filled_early ==
    /\ MainStep("drainFilled", "stopIndexers")
    /\ filled' = Closed(filled)
    /\ UNCHANGED <<ready, indexed, workerVars, cev, iev, wev, sys_shutdown, freed>>

\* shutdown_thread_set (pcapdb.c:559-566) on filled: wait for it to empty,
\* then queue_close.
close_filled ==
    /\ MainStep("drainFilled", "stopIndexers")
    /\ Count(filled) = 0
    /\ filled' = Closed(filled)
    /\ UNCHANGED <<ready, indexed, workerVars, cev, iev, wev, sys_shutdown, freed>>

\* pcapdb.c:571-573, then 574-582 joins the indexers.
stop_indexers ==
    /\ MainStep("stopIndexers", "joinIndexers")
    /\ iev' = [i \in Indexers |-> TRUE]
    /\ UNCHANGED <<ready, filled, indexed, workerVars, cev, wev, sys_shutdown, freed>>

join_indexers ==
    /\ MainStep("joinIndexers", "drainIndexed")
    /\ \A i \in Indexers : ipc[i] = "exited"
    /\ UNCHANGED <<ready, filled, indexed, workerVars, cev, iev, wev, sys_shutdown, freed>>

\* shutdown_thread_set on indexed and the output threads.
close_indexed ==
    /\ MainStep("drainIndexed", "stopWriters")
    /\ Count(indexed) = 0
    /\ indexed' = Closed(indexed)
    /\ UNCHANGED <<ready, filled, workerVars, cev, iev, wev, sys_shutdown, freed>>

stop_writers ==
    /\ MainStep("stopWriters", "joinWriters")
    /\ wev' = [w \in Writers |-> TRUE]
    /\ UNCHANGED <<ready, filled, indexed, workerVars, cev, iev, sys_shutdown, freed>>

join_writers ==
    /\ MainStep("joinWriters", "free")
    /\ \A w \in Writers : wpc[w] = "exited"
    /\ UNCHANGED <<ready, filled, indexed, workerVars, cev, iev, wev, sys_shutdown, freed>>

\* pcapdb.c:539, bucketize.c:308-339: pop ready with Q_NOWAIT|Q_FORCE until
\* it is empty, freeing every bucket of every chain popped.
bucketq_free ==
    /\ MainStep("free", "done")
    /\ freed' = freed \union UNION {Chain(ready.items[k]) : k \in DOMAIN ready.items}
    /\ ready' = [ready EXCEPT !.items = <<>>]
    /\ UNCHANGED <<filled, indexed, workerVars, cev, iev, wev, sys_shutdown>>

-----------------------------------------------------------------------------

\* pcapdb.c:285-303: the pool is loaded into ready before any thread runs.
Init ==
    /\ ready = [QueueInit EXCEPT !.items = SetToSeq(Buckets)]
    /\ filled = QueueInit
    /\ indexed = QueueInit
    /\ nxt = [b \in Buckets |-> NULL]
    /\ next_pkt_at = [b \in Buckets |-> 0]
    /\ last_pkt = [b \in Buckets |-> NULL]
    /\ stats = [b \in Buckets |-> NULL]
    /\ head = [c \in Captures |-> NULL]
    /\ current = [c \in Captures |-> NULL]
    /\ dropped_pkts = [c \in Captures |-> 0]
    /\ cpc = [c \in Captures |-> "run"]
    /\ pending = [c \in Captures |-> 0]
    /\ npkts = [c \in Captures |-> 0]
    /\ cev = [c \in Captures |-> FALSE]
    /\ iev = [i \in Indexers |-> FALSE]
    /\ wev = [w \in Writers |-> FALSE]
    /\ ipc = [i \in Indexers |-> "loop"]
    /\ ibkt = [i \in Indexers |-> NULL]
    /\ wpc = [w \in Writers |-> "loop"]
    /\ wbkt = [w \in Writers |-> NULL]
    /\ sys_shutdown = FALSE
    /\ mpc = "run"
    /\ freed = {}
    /\ drops = [c \in Captures |-> 0]
    /\ drops_out = [c \in Captures |-> 0]

MainActions == stop_captures \/ join_captures \/ close_filled \/ stop_indexers
               \/ join_indexers \/ close_indexed \/ stop_writers
               \/ join_writers \/ bucketq_free

Next ==
    \/ \E c \in Captures, len \in CapLens : libpcap_bucketize(c, len)
    \/ \E c \in Captures : capture_resume(c) \/ end_of_file(c) \/ capture_exit(c)
    \/ \E i \in Indexers : indexer_pop(i) \/ indexer_resume(i)
                           \/ index_bucket(i) \/ indexer_exit(i)
    \/ \E w \in Writers : output_pop(w) \/ output_resume(w) \/ output_bucket(w)
                          \/ output_unchain(w) \/ output_exit(w)
    \/ signal_handler
    \/ MainActions

\* Threads that can run are scheduled: every step of a thread that is not
\* waiting for a packet or a signal is weakly fair.
Fairness ==
    /\ \A c \in Captures : WF_vars(capture_resume(c)) /\ WF_vars(end_of_file(c))
                           /\ WF_vars(capture_exit(c))
    /\ \A i \in Indexers : WF_vars(indexer_pop(i)) /\ WF_vars(indexer_resume(i))
                           /\ WF_vars(index_bucket(i)) /\ WF_vars(indexer_exit(i))
    /\ \A w \in Writers : WF_vars(output_pop(w)) /\ WF_vars(output_resume(w))
                          /\ WF_vars(output_bucket(w)) /\ WF_vars(output_unchain(w))
                          /\ WF_vars(output_exit(w))
    /\ WF_vars(MainActions)

Spec == Init /\ [][Next]_vars /\ Fairness
-----------------------------------------------------------------------------
(* Properties.                                                             *)

\* Each variable holds a value the code can give it, and every chain's
\* network_stats names the capture interface that started it
\* (get_pkt_bucket sets it after the calloc; output's save_stats and the
\* drop accounting read it).
TypeOK ==
    /\ nxt \in [Buckets -> Buckets \union {NULL}]
    /\ next_pkt_at \in [Buckets -> Nat]
    /\ head \in [Captures -> Buckets \union {NULL}]
    /\ cpc \in [Captures -> {"run", "waitExt", "exited", "crashed"}]
    /\ ipc \in [Indexers -> {"loop", "wait", "work", "exited"}]
    /\ wpc \in [Writers -> {"loop", "wait", "write", "unchain", "exited"}]
    /\ \A b \in Buckets : stats[b] = NULL \/ stats[b].interface \in Captures
    /\ ibkt \in [Indexers -> Buckets \union {NULL}]
    /\ wbkt \in [Writers -> Buckets \union {NULL}]
    /\ freed \subseteq Buckets

\* The heads of the chains between capture and the end of output_bucket.
QueuedHeads(q) == {q.items[k] : k \in DOMAIN q.items}
ChainHeads ==
    ({head[c] : c \in Captures} \union QueuedHeads(filled) \union QueuedHeads(indexed)
     \union {ibkt[i] : i \in Indexers} \union {wbkt[w] : w \in {v \in Writers : wpc[v] = "write"}})
    \ {NULL}

\* How many buckets a holder has, counted per holder so that two holders
\* sharing a bucket count it twice.
HeldBuckets ==
    MapThenSumSet(LAMBDA c : Cardinality(Chain(head[c])), Captures)
    + MapThenSumSet(LAMBDA i : Cardinality(Chain(ibkt[i])), Indexers)
    + MapThenSumSet(LAMBDA w : Cardinality(Chain(wbkt[w])), Writers)
    + MapThenSumSet(LAMBDA k : Cardinality(Chain(ready.items[k])), DOMAIN ready.items)
    + MapThenSumSet(LAMBDA k : Cardinality(Chain(filled.items[k])), DOMAIN filled.items)
    + MapThenSumSet(LAMBDA k : Cardinality(Chain(indexed.items[k])), DOMAIN indexed.items)
    + Cardinality(freed)

HolderSets ==
    {Chain(head[c]) : c \in Captures} \union {Chain(ibkt[i]) : i \in Indexers}
    \union {Chain(wbkt[w]) : w \in Writers} \union {freed}
    \union UNION {{Chain(q.items[k]) : k \in DOMAIN q.items} : q \in {ready, filled, indexed}}

\* Every bucket of the pool is in exactly one place: a capture thread's
\* chain, one of the queues, an indexer's or writer's hands, or freed.  No
\* interleaving of get_pkt_bucket, send_bucket, the pops and pushes of the
\* three queues, output's unchaining and the shutdown sequence loses a
\* bucket (the pool shrinks for good) or puts one in two chains at once.
BucketsConserved ==
    /\ UNION HolderSets = Buckets
    /\ HeldBuckets = Cardinality(Buckets)

\* Every packet the capture threads dropped for want of a bucket is counted
\* once: still pending in dropped_pkts, in the stats->dropped of a chain in
\* the pipeline, or carried out by a chain that output_bucket finished.
\* (spec: the next chain "carries this count forward").
DropsAccounted ==
    \A c \in Captures :
        drops[c] = dropped_pkts[c] + drops_out[c]
                   + MapThenSumSet(LAMBDA h : stats[h].dropped,
                                   {h \in ChainHeads : stats[h].interface = c})

\* No chain grows past outfile_size: get_pkt_bucket seals a chain before a
\* full-mtu packet could overfill the output file.
ChainFitsOutfile ==
    \A h \in ChainHeads : stats[h].chain_size <= OutfileSize

\* No packet record is written past bucket_end: the check on the space left
\* in the current bucket (bucketize.c:50) always extends the chain in time.
NoBucketOverrun ==
    \A b \in Buckets :
        last_pkt[b] # NULL =>
            last_pkt[b].at + RecSize - 1 + last_pkt[b].caplen <= BucketSpace

\* A capture thread never links a NULL bucket into its chain
\* (bucketize.c:52-57: bucketq_pop on ready is taken to always succeed).
NoNullExtend == \A c \in Captures : cpc[c] # "crashed"

\* Once shutdown is signalled, pcapdb_shutdown runs to its end: every thread
\* is joined and the ready queue freed.
ShutdownCompletes == sys_shutdown ~> mpc = "done"

\* When shutdown is done every bucket of the pool has been freed: no chain
\* was left in a queue that was closed, or in a thread that had exited.
AllFreedAtExit == mpc = "done" => freed = Buckets
=============================================================================
