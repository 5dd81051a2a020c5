# TLA+ models of the pcapdb capture daemon and search tools

This directory holds TLA+ specifications of the C code under `src/indexer`, together with
the TLC configurations that check them. `PROJECT.json` lists:

- every component and whether it is modelled;
- every run and what it checks;
- the mutant that each checked property must catch;
- the source lines each definition translates (`map`);
- the findings;
- the hazards the code is exposed to.

## The system

pcapdb captures packets into large in-memory **buckets**. It writes them to disk as FCAP files,
with a set of sorted index files per output file. It also answers searches over those indexes.

### Capture daemon (`pcapdb.c`)

The daemon is a three-stage pipeline connected by three queues of `queue.c`:

```
ready --capture threads--> filled --indexer threads--> indexed --output threads--> ready
```

- **Queues** (`queue.c`) are linked lists with a mutex, a condition variable and a `closed`
  flag.
  - `queue_pop` takes the flags `Q_NOWAIT` and `Q_FORCE`.
  - A blocking pop waits on the condition at most once. After one wake-up it returns NULL if
    the queue is still empty.
  - `queue_push` on a closed queue drops the item.
  - `queue_close` broadcasts to every waiter.
- **Events** (`event.c`) are mutex-protected booleans: one per thread, plus the global
  shutdown event that `signal_handler` sets.
- **Capture threads** (`capture.c`, `bucketize.c`): one per interface.
  - They hold an open **chain** of buckets: `head_bkt` carries the chain's `stats`, and
    `current_bkt` is the bucket being filled.
  - For each packet, `get_pkt_bucket` does one of three things:
    - **Seals** the chain, pushes it to `filled` and pops a new head with `Q_NOWAIT`. This
      happens when no chain is open or a full-mtu packet could overfill the output file. If no
      bucket is ready, the packet is dropped and counted in `dropped_pkts`.
    - **Extends** the chain with a blocking pop. This happens when the current bucket lacks
      room for a record of mtu bytes.
    - Otherwise appends to the current bucket.
  - `next_pkt` advances past the record and rounds up to the word size.
  - On shutdown the thread ships its open chain with `send_bucket`.
- **Indexer threads** (`index.c`) pop a chain from `filled`, build its flow and sub-indexes
  (`index_bucket`: a splay tree of flows and one per key type), and push it to `indexed`.
- **Output threads** (`output.c`) pop a chain from `indexed` and write it with `output_bucket`.
  - `output_bucket` writes the FCAP file, the seven index files and the catalogue rows in
    PostgreSQL.
  - It is retried while it reports a database error and the global shutdown event is clear.
  - The chain is then taken apart and every bucket is pushed back to `ready`.
- **Main thread** (`pcapdb.c`): loads the pool into `ready`, then waits in `pcapdb_run` for the
  shutdown event. `pcapdb_shutdown` then:
  1. sets the capture events and joins the capture threads;
  2. for `filled`/indexers and then `indexed`/output threads, waits for the queue to empty,
     closes it, sets the threads' events and joins them;
  3. force-drains `ready` with `bucketq_free`.

  In file mode the capture thread raises SIGTERM at end of file.

### Search tools (`search/`)

- A search reads **sub-indexes**: left-filled implicit binary trees of `(key, offset)` records
  with a preview block. It finds the offsets of flows whose key lies in a range
  (`subindex.c`).
- Results are **ordered sets** of offsets or flow records (`ordered_set.c`).
  - They are written through a `.tmp` file that doubles as a lock between search processes.
  - A stale `.tmp` file (older than 10 s) is unlinked.
  - Readers wait on a `.tmp` file with inotify.
- Sets are combined by AND (with inverted operands) and OR (`search_lib.c`), through a
  skip-list k-way union.
- Flows are fetched from the FLOW index and filtered by time (`flow_fetch`, `filter_flow`).
  Packets are merged from the FCAP files with a pairing heap (`packets.c`).
- `search.c` runs worker threads that take index ids from a partial queue and then a full
  queue, with `Q_NOWAIT` pops.

## Inventory: state, operations and hard behaviours

| Component | State | Operations | What makes it hard |
|---|---|---|---|
| queues | items, closed, waiters | push, pop (2 halves), close, count | condition waited once; stolen wakeups; pushes to closed queues |
| capture | head, current, dropped_pkts, stats, next_pkt | get_pkt_bucket, send_bucket, libpcap_bucketize, exit | blocking pop mid-packet; drop accounting; size arithmetic and alignment |
| indexer | its chain | pop, index_bucket, push | shutdown ordering; splay tree with pointer reversal |
| output | its chain, DB connection | pop, output_bucket retry, unchain | retry until shutdown; partial writes; unchaining while capture reuses |
| main | place in shutdown | run, signal, shutdown_thread_set ×2, bucketq_free | drain-then-close ordering; joins on blocked threads |
| sub-index search | tree layout, positions | descent through preview, buffer, file | left-filled arithmetic; match on `<` vs `<=`; end of file |
| ordered sets | .tmp/final files, buffers | init, push, pop, cleanup | lock by `O_EXCL`; stale unlink; rename of another's file |
| set algebra | k sets in a skip list | and, or, union | inverted sets; deterministic levels; empty inputs |
| flow merge | 32-bit counts with power fields | flow_key_merge | shift overflow; wrong exponent |
| packet parse | position, VLAN count, next header, record fields, counters | datalink, VLAN and MPLS loops, ipv4, ipv6 and each extension header, udp/tcp, error counts | length units of each header type; `len` vs `caplen`; a header that does not advance |
| catalogue | disk usage, slot ages, index rows, row locks, FCAP files | set_save_info (7 statements), ROLLBACK, set_index_ready | READ COMMITTED reads; lock order; retries after rollback; slot reuse while writing |

The properties for each component are the safety and liveness statements listed under
"Runs" below. Planned ones are listed under "Plan".

## Modules

### `QueueOps.tla`: `queue.c` as operators

- **Queue value.** A queue is a record `[items, closed, waiting, woken]`.
  - `waiting` holds the threads inside `pthread_cond_wait`.
  - `woken` holds the threads that were signalled and are waiting for the mutex.
- **`Pushed(q, x)`** is `queue_push`. It gives the set of queues the push can leave, because
  the push signals one waiter, which may be any of them.
- **`Closed(q)`** is `queue_close`.
- **`PopPass(q, t, flags, i)`** is one pass of `queue_pop`'s two-pass loop.
  - **`PopStart`** is the call up to the condition wait. Its result item is `WAIT` when the
    thread goes to sleep.
  - **`PopResume`** is the return from the wait followed by the second pass.
- Each operator is one critical section, so one TLA+ step.

### `BucketQueue.tla`: one queue and its threads

- Any thread pushes items, or pops with the flag sets the callers use:
  - `0`, from `bucketq_pop`;
  - `Q_NOWAIT`, from `get_pkt_bucket` and `run_search`;
  - `Q_NOWAIT|Q_FORCE`, from `bucketq_free`.
- Threads may also wake spuriously, and a main thread closes the queue.
- **`AtomicQueue.tla`** is the abstract queue. Pops are atomic, a push to a closed queue is
  lost, and a pop takes the head or changes nothing.
- `BucketQueue` is shown to implement it: the refinement mapping is `items <- q.items`,
  `closed <- q.closed`, and `AtomicQueueSpec` is a PROPERTY.

### `Pipeline.tla`: the capture daemon

Variables:

- the three queue values;
- per bucket: `next`, `next_pkt` (an offset), `last_pkt` and `stats`;
- per capture thread: `head`, `current`, `dropped_pkts`, a program counter (`run`, `waitExt`,
  `exited`, `crashed`), and the caplen of the packet held while blocked;
- per indexer and output thread: a program counter and the chain in hand;
- the events;
- the main thread's place in `pcapdb_shutdown`;
- the freed buckets;
- two history counters of drops.

Actions, one per handler:

- `libpcap_bucketize` is the whole of `get_pkt_bucket` plus the record copy. Its seal branch
  includes `send_bucket`. Its extend branch stops at the blocking pop when `ready` is empty.
- `capture_resume` is the return of that pop, the link, `bucket_reset` and the copy. A NULL
  bucket leads to `crashed`, the segfault at `bucketize.c:54`.
- `end_of_file` and `capture_exit` (`send_bucket`) complete the capture thread.
- The indexer and output loops each have one action per step between locks.
  - `output_bucket` is the whole retry loop. Its last attempt succeeds, fails on I/O, or fails
    on the database once shutdown has begun.
  - `output_unchain` is one iteration of the unchaining loop.
- The main thread has `signal_handler`, then one action per step of `pcapdb_shutdown` and
  `shutdown_thread_set`, then `bucketq_free`.

Sizes are small integers in abstract units. They keep the code's relations:

- the record header is a multiple of the word size;
- `next_pkt`'s padding is scaled by the record size, as the C pointer arithmetic does;
- the space-left test converts a negative space to a huge unsigned one, as the C comparison
  does.

`index_bucket` and the writing inside `output_bucket` are single steps: they change nothing
another thread reads until the chain is pushed on.

### `SubIndexLayout.tla`: the layout of an index file

This module holds the arithmetic that `output.c` writes with and `search/subindex.c` reads
with:

- `TreeDepth` and `node_depth` of a left-filled implicit tree, counted from 1;
- `preview_depth`, and `Preview`, the keys of the top levels that `idx_write_node` copies into
  the file's first disk block after the header.

They are operators over sorted key sequences, and both modules below use them.

### `SubIndex.tla`: one range search of one sub-index file

- **State.** `recs` is the file: a sorted key sequence, where a record's offset is its
  position. Init takes every sorted file of the sizes in `Sizes` and every key range.
- **Actions.** One action per loop iteration:
  - `search_subindex` (the header checks and the start of the descent);
  - `search_preview` (virtual node, right edge, compare, done);
  - `search_index`'s one-read-per-step loop and its buffered loop (fill, step, final
    check);
  - `output_matches` (one record, finish).
- **Modelling choices.**
  - A compare of a buffer slot that `read()` never filled may give any result.
  - A shift by a negative amount ends in `undefined`.
  - The pushed offsets are the set `result`. The ordered set itself is `ResultFile`'s
    subject.
- **Reference.** `Reference` is the set of positions whose key lies in `[start, end]`.

### `IndexTree.tla`: indexing a chain and writing its flow and port indexes

- **Index phase (`index.c`).**
  - `index_packet` is one packet of `index_bucket`'s loop.
  - `descend_step` is one step of `splay_tr_insert`'s descent. As in the code, it stores the
    parent in the link it follows.
  - `splay_step` is one rotation. `SplayRotate` has the six cases of the code, and
    `NextParent` is `next_parent_node`.
  - `insert_return` puts the node at the root, and for a new flow starts the port insert. A
    new flow is one whose packet list is empty (`NewFlow`), and it is appended to the
    time-order list.
- **Write phase (`output.c`).**
  - `merge_sort_offsets` is the bottom-up merge with `order_lists`, as RECURSIVE operators.
  - `write_step` is one iteration of `write_index`'s six-case traversal, which reverses left
    links and frees port nodes as it leaves them (`AscentFree`).
  - `write_flow` sets each flow's offset.
  - `idx_write_node` writes the records and fills the preview list.
  - `write_end` follows `output_bucket`'s order: the flow index, then the port index.
- **Trees.** A tree is a record of root, left and right links and per-node lists, over node
  ids. Flows are ordered by source port first, as `gen_cmp` orders flow keys.

### `ResultFile.tla`: result files shared by search processes

- **File system.** The names `<path>.tmp` and `<path>` each hold an inode or nothing.
  - Each writer creates at most one inode, named after the writer.
  - An inode's contents are the number of records written to it.
  - Its mtime is a write version.
- **Writer.** `ord_set_init` in `OSET_WRITE` mode is one action per system call:
  `access(path)`, then `access`/`stat` of the tmp file, then `unlink`, then the `O_EXCL` open.
  - `w_push` is `ord_set_push_`. A full buffer is dumped first (`DumpBuffer`, which is
    `o_set_dump_buffer`).
  - `w_fail` is an error return of `search_subindex` after the open, or a killed process.
  - `ord_set_cleanup` is the final dump and the close. `w_rename` is its `rename`, whose result
    the code ignores.
- **Reader.** `ord_set_init` in `OSET_READ` mode, as `and_results` opens its input:
  - `open`, then `access(tmp)`, then `inotify_add_watch`, then `access(path)`;
  - then the wait, which ends by an inotify event (`r_event`), or by a timeout that stats the
    tmp file and abandons it when its mtime did not change (`r_timeout`);
  - then the reopen.

  `r_read` reads the whole set.
- **Time.** Time is not counted:
  - `Age(i)` is the moment the tmp inode has gone 10 s without a write;
  - a poll timeout may come at any point of a wait.

### `SetAlgebra.tla`: the skip list, `and_results`, `or_results`, `flow_fetch`

- **Skip list.** The skip list of `ordered_set.c` is a record of forward links per level over
  set numbers. Its levels are deterministic: they come from the set's insertion number, as
  `os_slist_reinsert` computes them. `SlistAdd`, `SlistPop` and `SlistUnion` are
  `os_slist_add`, `os_slist_pop` and `os_slist_union`.
- **Set algebra.** `AndResults` is the circular intersection loop of `and_results`, with the
  inverted operands merged into one set first. `OrResults` is `or_results`. `FlowFetch` is
  `flow_fetch` with `filter_flow` as the code has it.
- **Reference.** `AndReference` and `OrReference` are set intersection, difference and
  union. The search runs compare the code's operators against them.

### `Packets.tla`: the pairing heap of `pcap_fetch`

- **Heap.** A heap is the child, sibling, ts and next-packet fields of `struct flow_heap`,
  indexed by a flow's position in the `.flows` result.
  - `FhMerge`, `FhMergePairs`, `FhDelMin` and `FhWritePacket` are the `fh_*` functions.
  - `FhBuild` is the loop that initialises every flow; `FhWrite` is the write loop.
  - All are RECURSIVE operators.
- **Output.** `PcapFetch` is the list of packets written, each `<<flow offset, packet
  number>>`. `IsPcapOf` states what spec section 4 says the pcap holds: every packet once,
  in time order.

### `Descriptor.tla`: parsing the search description

- A line of the description is a record of its directive and its parsed arguments. Text,
  result names and key values are left out.
- `Handle` dispatches a line to its handler in `parse_search`'s order. `ParseLines` is the
  loop, left at the first error. `Reconciled` is `reconcile_subsearches`.
- `ParseSearch(d)` is the `search_t` that `main` goes on with, or an error.

### `Search.tla`: the search driver

- **Threads.** `main` starts `thread_count - 1` threads and runs `run_search` itself. Each
  thread pops index ids with `Q_NOWAIT`, from the PARTIAL queue first and then the FULL
  queue.
- **Stages.** For each index a thread probes which result files exist. It then makes the
  missing ones, from the last stage back. There is one action per stage: `SubSearch`,
  `AndStep`, `OrStep`, `FlowFetchStep`, `PcapOpen` and `PcapWrite`. A failing stage sets
  `abort`, which the other threads poll in `CheckAbort`.
- **Results.**
  - Each stage writes what `SetAlgebra` and `Packets` compute from the files it reads.
  - Results are tabulated once over all sorted offset sets (`AndTable`, `OrTable`,
    `FlowTable`).
  - A result appears at once here; `ResultFile` checks how a result is committed.
- **Description.** The description `main` was given is the variable `descr`, drawn from
  `Descrs`. The cfg gives what `parse_search` makes of it as constants: the queues,
  `NSub`, `AndOps` and the filter of each accepted description. An ASSUME checks each of
  them against `Descriptor`'s `ParseSearch`, once, when TLC starts.
- **Faults.** With `MaxFaults > 0`, a read of a set may stop part-way, as
  `ord_set_peek_` turns a failed refill into `OSET_EMPTY`. A pcap write may also fail
  part-way.
- **Earlier results.** `Init` lets an earlier search of the same description have
  finished any prefix of the stages of each FULL index.

### `FlowMerge.tla`: `merge_flows` and `flow_key_merge`

- The `.flows` result of each capture is a sequence of flow records in key order.
- `Start`, `Take` and `Finish` are `os_slist_union` over the skip list of captures. Records
  with the same key are combined by `FlowKeyMerge`.
- `FlowKeyMerge` is `flow_key_merge` at width `Width`: the shifts and the sum wrap at
  `2^Width`, as the code's `uint32_t` arithmetic does. The exponent fields have `PowBits`
  bits.
- The order of skip-list sets with equal heads is left open; `SetAlgebra` checks the skip
  list itself.

### `Catalog.tla`: the output threads' catalogue transactions

The output threads share one PostgreSQL catalogue (`output.c` `set_save_info`, `db.c`).
For each chain a thread makes sure of its connection (`Connect`, `output_bucket` lines 77-92)
and runs `set_save_info`'s transaction one statement per step: `Begin`, `SelectDisk`
(`NEXT_DISK_Q`), `UsageInc`, `OldestSlot`, `ClearSnap` and `ClearRows` (`CLEAR_INDEX_REC_Q`),
`SlotAge`, `NewIndex` and `Commit`. Then it creates the index directory (`Mkdir`), truncates
the slot's FCAP file (`Open`, `fcap_open`'s `O_TRUNC`), writes the chain (`Data`) and marks
the index ready (`Ready`).

- **Database semantics assumed.** PostgreSQL's default READ COMMITTED level:
  - a SELECT sees committed rows;
  - an UPDATE waits for the row locks of other open transactions, then re-checks its WHERE
    clause on the latest committed row;
  - locks are held until COMMIT or ROLLBACK;
  - `NOW()` is the transaction's start time;
  - the id sequence is not rolled back.
- **Failures.** `Rollback` is `paramExec`'s error path: any statement can fail, the
  transaction is rolled back, and the connection may be lost. The thread then retries the
  chain from the connection check, as `output`'s `do ... while (ob_result == OB_DB_ERR)`
  loop does. `IOError` is an error of `mkdir`, `fcap_open` or a write; it is not retried.
  A failed `set_index_ready` is ignored. `MaxErrs` bounds all errors together.
- **Abstractions.** A chain's packets are its index id, and an FCAP file is the set of ids
  written into it since its last truncation. `save_stats` is its own transaction, over
  tables nothing here reads, and is not modelled. Paths and timestamps are left out.
- **Refinement.** `CatalogAtomic.tla` is what the catalogue promises: each change of the
  committed tables is one whole reservation (`Reserve(d, i, t)`: the disk's usage up by one,
  the oldest slot of the disk `ORDER BY used, id` given age `t`, the old rows of that slot
  cleared, and a new unready row `i` naming it), or one `MarkReady(i)`. `Catalog` maps its
  committed state onto it (`Atomic == INSTANCE CatalogAtomic WITH Times <- 0 .. MaxClock`),
  and `CatalogAtomicity == Atomic!Spec` is checked as a property. Statements that are not yet
  committed are stuttering steps of the abstract catalogue. The refinement fails if two
  transactions interleave so that a commit reserves a slot that is no longer the oldest, or
  clears rows it should not.

### `PacketParse.tla`: `packet_parse` in `network.c`

`index_bucket` calls `packet_record_init` and `packet_parse` on each packet of a bucket.
`PacketParse` models one such call, one header or loop iteration per step, over the
packet's bytes (`mem`, with `Over` bytes of the bucket after them):

- `Datalink` is `captured_pkts++` and `datalink_parse`'s length check and MAC skip;
  `VlanTag` is one iteration of the VLAN loop or the ethertype after it; `MplsLabel` one
  MPLS label.
- `OtherNet`, `Ipv4` and `Ipv6` are `packet_parse`'s dispatch on the first nibble, with
  `ipv4_parse` and `ipv6_parse`'s fixed header. `ExtOptions`, `ExtAuth`, `ExtMobility` and
  `ExtEnd` are the cases of `ipv6_parse`'s extension-header switch; `ExtStep` is their
  shared advance.
- `NetError` is the network error count; `Transport` is `stats->transport[proto]++` with
  `udp_parse` or `tcp_parse` and the transport error count.

`len` is `header->len`, the length on the wire, which every check of `network.c` uses;
`CapLen` is `header->caplen`, the bytes the bucket holds. `oob` records a read at or past
`CapLen`. The packets are header stacks (`MC_PacketParse.tla`), turned into bytes by the RFC
layouts in `Wire` and `Encode`. `Expected` is the parse that spec 4.D describes for a
stack; `ParsesAsSpecified` compares a finished parse with it.

## Runs

The project has twelve runs. Each pass run checks safety and liveness properties, with a type
invariant where a plausible bug of the code can break it (`BucketQueue`'s `TypeOK` only
relates the model's own waiter bookkeeping, which pthread keeps, so no run checks it). Each
violation run checks one property that TLC finds broken by what the code does.

| Run | Expect | Checks | Shows |
|---|---|---|---|
| `queue_fifo` (`BucketQueue_fifo.cfg`) | pass | `AtomicQueueSpec`, `WaitersReturn` | three threads, two items, every flag set, spurious wakeups and a racing close: the queue is a FIFO without loss or duplication, and every sleeper returns |
| `pipeline_file` | pass | `TypeOK`, `BucketsConserved`, `ChainFitsOutfile`, `AllFreedAtExit`, `ShutdownCompletes` | file mode, two indexers and two output threads racing for queues and closes: no bucket is lost or duplicated, chains fit the output file, and the daemon shuts down with every bucket freed |
| `pipeline_null_extend` | violation | `NoNullExtend` | two interfaces: an extend's wake-up is taken by the other thread's new chain, and NULL is linked |
| `indextree_write` (`IndexTree.cfg`) | pass | `TypeOK`, `IndexConsistent`, `WrittenIndexSearchable`, `TraversalMemorySafe`, `IndexingTerminates` | every chain of up to four packets over three flows and two ports (see below) |
| `subindex_search` | pass | `TypeOK`, `PreviewInStep`, `MatchIsLeftmost`, `SearchTerminates` | every file of 0..15 records of three keys and every range (see below) |
| `resultfile_protocol` (`ResultFile.cfg`) | pass | `TypeOK`, `QuiescentComplete`, `SearchesTerminate` | three processes racing on one result file (see below) |
| `resultfile_partial_read` | violation | `ReadsComplete` | a stale-tmp unlink lets one writer's rename publish another writer's empty file, which a reader takes as the result |
| `search_driver` (`Search.cfg`) | pass | `TypeOK`, `ResultsNeverPartial`, `CompleteWhenClean`, `SearchTerminates` | two threads over a PARTIAL and a FULL index (see below) |
| `search_partial_result` | violation | `ResultsNeverPartial` | a read error in the middle of a sub-index result ends `and_results`' input, and a short AND result is committed |
| `flow_merge_overflow` | violation | `UnionMergesCounts` | two captures share a flow: the `uint32_t` sum in `flow_key_merge` wraps, and the merged record undercounts |
| `catalog_transactions` (`Catalog.cfg`) | pass | `TypeOK`, `SlotExclusive`, `UsageAccounted`, `OutputEnds`, `CatalogAtomicity` | two output threads of two chains over two disks of two slots, with a database or I/O error at any step: no two index rows name one slot, each disk's usage counts its committed rows, the committed tables change only as `CatalogAtomic` allows, and every thread exits |
| `packet_parse_ipv6_options` (`PacketParse_ipv6.cfg`) | violation | `ParsesAsSpecified` | 1,230 packets of VLAN, MPLS, IPv4, IPv6 with extension chains, ARP, TCP, UDP and ICMP: a zero-length hop-by-hop options header before TCP or UDP makes the ports come from the option padding |

What the four large pass runs show:

- **`indextree_write`:**
  - the flow and port trees stay search trees through every splay case, and hold exactly the
    packets indexed so far;
  - the flow and port index files written are sorted, their offsets point at the right flow
    records, and the preview is the one the search expects;
  - `write_index` never touches a node it freed;
  - indexing and writing end.
- **`subindex_search`:** the preview descent and the main-tree descent stay in step, the
  buffered descent finds the leftmost start key of its buffer, and every search returns. It
  covers files with no preview, a full preview and a cut-short preview, with and without the
  one-read-per-step loop.
- **`resultfile_protocol`:** the interleavings include stale-tmp unlinks, writers that abandon
  their tmp file, inotify events and poll timeouts. Whenever all processes have ended and none
  abandoned its file, the final result holds every record. Every process ends.
- **`search_driver`:** it runs from every set of matches and every set of results an earlier
  search left, under two accepted descriptions. Two more descriptions are rejected by the
  parser, and the ASSUME checks that they are.
  - Every result file that exists is what the reference algebra, the flow filter and the
    spec's time-ordered packet merge say.
  - A search that was not aborted leaves every `.flows` and `.pcap` file.
  - `main` always returns.

Runs retired to stay within twelve still have their cfgs and can be run by hand:

- `SubIndex_absent_start.cfg` (`SearchComplete`): a start key absent from the file gives an
  empty result although later keys are in range, because `last_match` is set on equality only.
- `SubIndex_eof.cfg` (`ValidSearchSucceeds`): a range reaching the last record fails with EIO.
- `SubIndex_undefined.cfg` (`NoUndefinedBehaviour`): from a virtual node one level above the
  leaves, an unread buffer slot is compared and then shifted by a negative amount.
- `SubIndex_slow_offset.cfg` (`NoFalsePositives`): the one-read-per-step loop reads the
  record after its position and returns offsets below the range.
- `Search_descr.cfg` (`FlowsAsDescribed`, module `MC_Search`): a description without END
  keeps `end_ts` at 0, and every flow is discarded (finding 10).
- `Pipeline_overrun.cfg` (`NoBucketOverrun`): a near-mtu packet moves `next_pkt` past
  `bucket_end`, and the next record is written past it (finding 2).
- `Catalog_lap.cfg` (`ReadyIndexIntact`, module `MC_Catalog`): one disk of two slots and two
  threads of two chains; a thread truncates the FCAP file another thread is still writing
  (see Observations).

Two properties stated in `Pipeline.tla` are not in a run at present:

- `DropsAccounted` fails at the first drop recorded at a chain start.
- `ShutdownCompletes` fails with a pool smaller than a chain.

Their hazards in `PROJECT.json` explain both.

### Bounds and why they are enough

- **Pipeline sizes.** `RecSize` 2, word 2, `HdrSize` 1, mtu 4, bucket 8, output file 8 units.
  - A bucket holds one or two records, and a chain one to three packets in one or two
    buckets.
  - Both the seal branch and the extend branch are taken, and so is the drop when `ready` is
    empty.
  - Caplens 1 and 2 lie well under the mtu, as real traffic does against the 64 KiB mtu. The
    overrun run adds caplen 4 (= mtu).
- **Pipeline pool.** Three buckets is one more than the longest chain, so a new head can be
  found while a full chain is in the pipeline.
- **Pipeline threads.** Two indexers and two output threads give every race on
  `filled`/`indexed`: two waiters, stolen wakeups, a close with waiters. Two capture threads
  are needed only for the NULL-extend race.
- **IndexTree.** Four packets over flows {1,2,3} and ports {1,2} is enough for:
  - every rotation case of the splay: zig, zag, zig-zig, zag-zag, zig-zag, zag-zig;
  - repeated flows and shared ports;
  - a port node holding several flows that `merge_sort_offsets` must reorder.

  `DiskBlock` 2 with `HdrSize` 1 gives a preview from two records upward, so both
  `idx_write_node`'s preview path and its plain path are written.
- **SubIndex.** Files of 0..15 records give trees of depth 1..4.
  - A preview of depth 3 (6 keys) makes files of 8 records and more use the preview, and
    files of 14 and more cut it short.
  - `MAX_TREE_BUFFER` of three records sends files of 4..7 records through the slow loop
    first.
- **ResultFile.**
  - Three processes are the fewest needed for a stale unlink of a stale unlink: A is
    unlinked by B, and B is unlinked by C.
  - Three records with a two-record buffer give one mid-write dump, which changes the mtime,
    and a final dump at cleanup.
  - Each process works once. Its failure stands for any error return of `search_subindex`
    after the open, and for a killed process.

- **Search.**
  - Two threads, the fewest that race for the queues and the abort.
  - Two sub-index searches over three flow offsets: every set of matches is one of 64.
  - Two ANDs, one naming the same inverted operand twice; this covers the inverted-set
    union and a plain intersection.
  - Three flows: two TCP, one UDP. Two of them share a first timestamp, so the heap's tie
    order is reached. Their timestamps fall inside, before and after the second filter's
    range.
  - `MaxFaults` is 0 in the pass run and 1 in the fault run.
- **Catalog.** Two threads, each with two chains, over two disks of two slots, and one error
  in the whole run (`MaxErrs` 1), at any statement, in any thread. This gives:
  - both threads on one disk, so the second waits on the disk-row lock the first holds;
  - a slot reused by the second chain, so `CLEAR_INDEX_REC_Q` clears a committed row;
  - a rollback after `UsageInc`, after `ClearRows` or after `NewIndex`, then the retry;
  - a `set_index_ready` that waits for another thread's lock on the row it clears.

  600,603 states are explored in about 30 s.
- **PacketParse.** 0 to 4 VLAN tags (one past `MAX_VLANS`), 0 to 2 MPLS labels, and
  IPv4, IPv6 or ARP, with TCP, UDP or ICMP on top. IPv6 carries every chain of up to two
  extension headers from hop-by-hop, destination options, routing, AH and ESP, with ESP
  last: 1,230 packets. Each header type but ESP is met first, second and before each
  transport; ESP ends chains of one and two.
  `Over` 16 zero bytes after the packet cover the reads past it. `PacketParse_hang.cfg`
  has two mobility headers; `PacketParse_caplen.cfg` has a TCP packet cut by 8 bytes and
  one cut to its first 4.
- **FlowMerge.** Two captures, two keys, counts {3, 9} at width 4. A sum of two records can
  then pass the width. The corrected arithmetic passes at this size with three captures.

## Fairness

- **Pipeline.** The steps of indexer, output and main threads are weakly fair, as are the
  steps of a capture thread that is not waiting for a packet. Packet arrival and the
  operator's signal are the environment and are not fair.
- **IndexTree and SubIndex.** These are single-threaded loops, with weak fairness on `Next`.
- **ResultFile.** Each process's steps are weakly fair, because the scheduler runs every
  runnable process. `Age`, the passing of 10 seconds without a write, is not fair: the
  properties hold whether or not a tmp file ever goes stale.


- **Search.** Each thread is an OS thread, and no step of `run_search` blocks: the pops
  are `Q_NOWAIT`. So each thread's `Step(t)` is weakly fair. The enabling condition is
  written out as `Runnable(t)`: `<>[]Runnable(t) => []<><<Step(t)>>_vars`.
- **FlowMerge.** A single-threaded loop, with weak fairness on `Next`.
- **PacketParse.** One call on one indexer thread, with weak fairness on `Next`. A step
  that changes nothing is stuttering, so a header that does not advance shows up as a
  parse that never reaches `done`.
- **Catalog.** Each output thread is an OS thread, so its `Step(w)` is weakly fair. A step
  that waits for a row lock is disabled until the holder commits or rolls back, as
  PostgreSQL blocks the statement. Errors are bounded by `MaxErrs`, so the retry loop is not
  assumed to succeed; errors only stop occurring.

## Findings

Details are in `PROJECT.json`.

1. **`get_pkt_bucket` crashes on NULL.** It links a NULL bucket into the chain and crashes
   when two interfaces share the pool. The root cause is that `queue_pop` can return NULL
   from an open queue, contrary to its comment.
2. **`next_pkt`'s scaled padding lets records overrun their bucket.** Its run is retired;
   `Pipeline_overrun.cfg` still shows it.
3. **A sub-index search whose start key is absent finds nothing.** This is because
   `last_match` is recorded on equality only.
4. **A range reaching the last record fails with EIO.** `output_matches` reads past the end of
   the file.
5. **A search can step into undefined behaviour.** From a virtual node one level above the
   leaves it compares an unfilled buffer slot and shifts by a negative amount.
6. **The one-read-per-step loop is off by one.** Its file offset is one record too far, and it
   returns offsets below the range.
7. **The stale-tmp recovery can publish another writer's unfinished result.**
   - A writer writes to disk only when a page of records fills, so a slow writer with few
     results looks stale after 10 s.
   - A second writer unlinks the tmp file and starts its own.
   - The first writer's `rename` then moves the second writer's unfinished file into place.
     `and_results` reads it as the whole result.
   - If the second writer then fails, the partial file stays final for every later search.

8. **A read error is taken for the end of a set.** `ord_set_peek_` returns `OSET_EMPTY`
   when a refill fails. `and_results` then commits a short result by the same rename as a
   full one, and later searches reuse it.
9. **`flow_key_merge` overflows 32 bits.** The shifts and the sum are `uint32_t`, so a total
   past 2^32 wraps before the normalising loop sees it. The size is also shifted by
   `packets_pow` rather than `size_pow`. That is masked at present, because the exponents
   are always 0 when records are merged.
10. **A description without END discards every flow.** `search_t` is calloc'ed, so `end_ts`
    is 0, and `flow_fetch` always passes it. The spec makes END optional, with no end.
    `filter_flow` also compares END with `last_ts` where spec 4.I says `first_ts`, and it
    filters FULL indexes by time too.
    Its run is retired; `Search_descr.cfg` still shows it.

11. **IPv6 options headers are skipped by the wrong length.** `ipv6_parse` advances past a
    hop-by-hop, destination options or routing header by `packet[pos+1] + 1` bytes; RFC
    8200 counts `(packet[pos+1] + 1) * 8`. For a hop-by-hop header before TCP or UDP the parse
    reads the next header and the ports from inside the options. Spec 4.D says the parse
    follows IPv6 extension chains to the transport header.

Observations without a run:

- **A mobility header can stop an indexer thread.** `ipv6_parse` advances past a mobility
  header by its length field times 8; RFC 6275 does not count the first 8 bytes, so a
  header of length 0 advances by 0. If its payload-protocol byte is 135, the switch sees the
  same header forever. `PacketParse_hang.cfg` finds `ParseTerminates` violated.
- **The parse reads past the bytes captured.** Every length check uses `header->len`; the
  bucket holds `header->caplen` bytes. A packet cut by the snaplen is parsed from the next
  packet's record in the bucket. `PacketParse_caplen.cfg` finds `ReadsInPacket` violated.
  `tcp_parse` also reads the data offset at `pos + 12` after checking for only 4 bytes.
- MPLS labels are stripped without limit, where the spec says up to 3.

- `main` returns 0 after a search aborted.
- An AND whose operands are all inverted has no positive set to intersect, and
  `and_results` dereferences a NULL set.
- The tie order among equal skip-list heads in `merge_flows` is left open.
- **A thread can truncate the FCAP file another is writing.** `OLDEST_SLOT_Q` orders a
  disk's slots by `used`. A slot whose writer has committed but is still writing is the
  oldest once the disk's other slots have been reused. With one disk of two slots and two
  threads of two chains, `Catalog_lap.cfg` finds `ReadyIndexIntact` violated: the index row
  is ready, and its FCAP file holds another chain's packets too. With many slots per disk
  this needs a very slow writer.
- **Slot ages follow transaction start, not commit.** `used=NOW()` is the start time of
  the transaction. A transaction that began earlier but committed later marks newer data as
  older, so its slot is reclaimed first.

## Not modelled, and why

- Address printing and the key comparisons of `network.c` are text formatting and byte
  order. They enter the models only through key order: `Cmp` compares flows by source port
  first, as `gen_cmp` does. `PacketParse` is not composed with `IndexTree`, which takes
  parsed keys as its input.
- Configuration, interface opening, privileges, CPU pinning, the status file and the lock
  file are I/O and setup.
- The libpcap/pfring statistics deltas are not modelled yet.
- The command-line tools other than `merge_flows` (`fcap2pcap`, `show_keys`, `read_flows`,
  `flow_fetch`, `subindex_search`, the index checkers) print or convert files with the
  library functions that the models cover.
- In `Pipeline`, `output_bucket` is one step with a nondeterministic outcome. Its catalogue
  transactions are modelled separately in `Catalog`. The two are not composed, because
  nothing in the catalogue changes the buckets.
- `output_unchain` reads a bucket's `next` and pushes the bucket in one step. The window
  in which a capture thread could reset a pushed bucket before its `next` is read is
  therefore not in the model, and `BucketsConserved` says nothing about it.
- `save_stats` writes statistics rows that nothing reads back; `pgfmt_timeval` and the paths
  are formatting.

## Plan

Done:

- queues and the pipeline;
- the sub-index search with the index layout;
- the index trees and their writing;
- the result-file protocol;
- the set algebra and flow fetch;
- the search driver, with its description parser and the packet fetch;
- flow merging;
- the output threads' catalogue transactions, and their refinement of `CatalogAtomic`;
- packet parsing.

Next:

1. **Statistics deltas.** The libpcap 32-bit counter deltas, modulo 2^32.
2. **Search composition.** The search driver over `ResultFile`'s commit protocol, in place of
   results that appear at once.
