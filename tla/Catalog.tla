------------------------------ MODULE Catalog ------------------------------
(***************************************************************************)
(* The output threads and the catalogue (output.c, db.c): for each bucket  *)
(* chain an output thread makes sure of its database connection, runs      *)
(* set_save_info's transaction (the least used disk, its usage increment,  *)
(* the disk's oldest capture slot, the old index rows of that slot         *)
(* cleared, the slot's age, a new index row), retries the whole chain on   *)
(* OB_DB_ERR, then writes the chain into the slot's FCAP file and marks    *)
(* the index ready.                                                        *)
(*                                                                         *)
(* Each thread holds its own connection.  The database runs every          *)
(* statement at PostgreSQL's default READ COMMITTED level: a SELECT sees   *)
(* what is committed (and the transaction's own writes), an UPDATE waits   *)
(* for the row locks of other open transactions and then re-checks its    *)
(* WHERE clause against the latest committed row, and locks are held to    *)
(* COMMIT or ROLLBACK.  NOW() is the transaction's start time.  The id     *)
(* sequence is not transactional.                                          *)
(*                                                                         *)
(* A chain's packets are the index id it is written under; an FCAP file    *)
(* is the set of index ids whose packets it holds since it was truncated.  *)
(***************************************************************************)
EXTENDS Integers, FiniteSets

CONSTANTS
    Writers,     \* the output threads
    Disks,       \* the ACTIVE disks of capture_node_api_disk
    DiskSlots,   \* the capture slots of each disk (slot ids are numbers)
    Chains,      \* the bucket chains each output thread takes
    MaxErrs,     \* database and I/O errors, over the whole run
    NoTx, NoRow

Slots == UNION {DiskSlots[d] : d \in Disks}
NULL == 0
MaxId == Cardinality(Writers) * Chains + MaxErrs
Ids == 1 .. MaxId
MaxClock == MaxId

ASSUME /\ \A d \in Disks : DiskSlots[d] # {} /\ DiskSlots[d] \subseteq Nat \ {NULL}
       /\ \A d, e \in Disks : d # e => DiskSlots[d] \cap DiskSlots[e] = {}

VARIABLES
    pc,       \* where each output thread is
    left,     \* chains still to come off the indexed queue, per thread
    conn,     \* the thread's pg_cnx: "ok" or "none"
    now,      \* NOW() of the thread's transaction
    disk, slot, rid,  \* the disk, slot and index id the thread chose
    snap,     \* the rows CLEAR_INDEX_REC_Q's snapshot matched
    pend,     \* the thread's uncommitted writes
    usage,    \* capture_node_api_disk.usage (committed)
    used,     \* capture_node_api_captureslot.used (committed)
    idx,      \* capture_node_api_index rows (committed); disk is history
    nextval,  \* the index id sequence
    dlock, slock, ilock,  \* row locks of disk, slot and index rows
    clock,    \* transaction start times handed out
    fcap,     \* the contents of each slot's FCAP file
    errs

vars == <<pc, left, conn, now, disk, slot, rid, snap, pend, usage, used, idx,
          nextval, dlock, slock, ilock, clock, fcap, errs>>
txn == <<now, disk, slot, rid, snap>>

NoPend == [usage |-> FALSE, used |-> FALSE, cleared |-> {}, row |-> FALSE]
\* The steps of set_save_info, from BEGIN to COMMIT.
InTxn == {"begin", "disk", "inc", "slot", "clear", "clearw", "age", "insert", "commit"}

Init ==
    /\ pc = [w \in Writers |-> "idle"]
    /\ left = [w \in Writers |-> Chains]
    /\ conn = [w \in Writers |-> "none"]
    /\ now = [w \in Writers |-> 0]
    /\ disk = [w \in Writers |-> CHOOSE d \in Disks : TRUE]
    /\ slot = [w \in Writers |-> NULL]
    /\ rid = [w \in Writers |-> NULL]
    /\ snap = [w \in Writers |-> {}]
    /\ pend = [w \in Writers |-> NoPend]
    /\ usage = [d \in Disks |-> 0]
    /\ used = [s \in Slots |-> 0]
    /\ idx = [i \in Ids |-> NoRow]
    /\ nextval = 1
    /\ dlock = [d \in Disks |-> NoTx]
    /\ slock = [s \in Slots |-> NoTx]
    /\ ilock = [i \in Ids |-> NoTx]
    /\ clock = 1
    /\ fcap = [s \in Slots |-> [ids |-> {}, done |-> TRUE]]
    /\ errs = 0

Goto(w, s) == pc' = [pc EXCEPT ![w] = s]
Free(lk, w) == lk = NoTx \/ lk = w
Rows == {i \in Ids : idx[i] # NoRow}

\* output: bucketq_pop(&state->indexed_bkts); NULL once the queue is closed
\* at shutdown ends the loop.
Pop(w) ==
    /\ pc[w] = "idle"
    /\ IF left[w] > 0 THEN Goto(w, "conn") /\ left' = [left EXCEPT ![w] = @ - 1]
                      ELSE Goto(w, "done") /\ UNCHANGED left
    /\ UNCHANGED <<conn, txn, pend, usage, used, idx, nextval, dlock, slock,
                   ilock, clock, fcap, errs>>

\* output_bucket: a missing or bad connection is replaced by get_db_conn;
\* when that fails too, set_save_info's first query fails: OB_DB_ERR, and
\* output retries the chain.
Connect(w) ==
    /\ pc[w] = "conn"
    /\ \/ conn' = [conn EXCEPT ![w] = "ok"] /\ Goto(w, "begin") /\ UNCHANGED errs
       \/ conn[w] = "none" /\ errs < MaxErrs /\ errs' = errs + 1 /\ UNCHANGED <<pc, conn>>
    /\ UNCHANGED <<left, txn, pend, usage, used, idx, nextval, dlock, slock,
                   ilock, clock, fcap>>

\* BEGIN: NOW() is fixed for the transaction.
Begin(w) ==
    /\ pc[w] = "begin"
    /\ now' = [now EXCEPT ![w] = clock]
    /\ clock' = clock + 1
    /\ Goto(w, "disk")
    /\ UNCHANGED <<left, conn, disk, slot, rid, snap, pend, usage, used, idx,
                   nextval, dlock, slock, ilock, fcap, errs>>

\* NEXT_DISK_Q: an ACTIVE disk of least committed usage.
SelectDisk(w) ==
    /\ pc[w] = "disk"
    /\ \E d \in Disks :
         /\ \A e \in Disks : usage[d] <= usage[e]
         /\ disk' = [disk EXCEPT ![w] = d]
    /\ Goto(w, "inc")
    /\ UNCHANGED <<left, conn, now, slot, rid, snap, pend, usage, used, idx,
                   nextval, dlock, slock, ilock, clock, fcap, errs>>

\* Mutant of UsageInc: the increment takes no lock on the disk row.
UsageIncNoLock(w) ==
    /\ pc[w] = "inc"
    /\ pend' = [pend EXCEPT ![w].usage = TRUE]
    /\ Goto(w, "slot")
    /\ UNCHANGED <<left, conn, txn, usage, used, idx, nextval, dlock, slock, ilock,
                   clock, fcap, errs>>

\* USAGE_INC_Q: waits for the disk row, locks it, increments usage.
UsageInc(w) ==
    /\ pc[w] = "inc"
    /\ Free(dlock[disk[w]], w)
    /\ dlock' = [dlock EXCEPT ![disk[w]] = w]
    /\ pend' = [pend EXCEPT ![w].usage = TRUE]
    /\ Goto(w, "slot")
    /\ UNCHANGED <<left, conn, txn, usage, used, idx, nextval, slock, ilock,
                   clock, fcap, errs>>

\* Mutant of OldestSlot: the query without its disk_id condition.
OldestSlotAnyDisk(w) ==
    /\ pc[w] = "slot"
    /\ \E s \in Slots :
         /\ \A t \in Slots : used[s] < used[t] \/ (used[s] = used[t] /\ s <= t)
         /\ slot' = [slot EXCEPT ![w] = s]
    /\ Goto(w, "clear")
    /\ UNCHANGED <<left, conn, now, disk, rid, snap, pend, usage, used, idx,
                   nextval, dlock, slock, ilock, clock, fcap, errs>>

\* Mutant of OldestSlot: ORDER BY used alone; ties go to any slot.
OldestSlotUsedOnly(w) ==
    /\ pc[w] = "slot"
    /\ \E s \in DiskSlots[disk[w]] :
         /\ \A t \in DiskSlots[disk[w]] : used[s] <= used[t]
         /\ slot' = [slot EXCEPT ![w] = s]
    /\ Goto(w, "clear")
    /\ UNCHANGED <<left, conn, now, disk, rid, snap, pend, usage, used, idx,
                   nextval, dlock, slock, ilock, clock, fcap, errs>>

\* OLDEST_SLOT_Q: the disk's slot ORDER BY used, id (committed ages).
OldestSlot(w) ==
    /\ pc[w] = "slot"
    /\ \E s \in DiskSlots[disk[w]] :
         /\ \A t \in DiskSlots[disk[w]] : used[s] < used[t] \/ (used[s] = used[t] /\ s <= t)
         /\ slot' = [slot EXCEPT ![w] = s]
    /\ Goto(w, "clear")
    /\ UNCHANGED <<left, conn, now, disk, rid, snap, pend, usage, used, idx,
                   nextval, dlock, slock, ilock, clock, fcap, errs>>

\* CLEAR_INDEX_REC_Q, as the statement starts: the committed rows that
\* name the slot.
ClearSnap(w) ==
    /\ pc[w] = "clear"
    /\ snap' = [snap EXCEPT ![w] = {i \in Rows : idx[i].slot = slot[w]}]
    /\ Goto(w, "clearw")
    /\ UNCHANGED <<left, conn, now, disk, slot, rid, pend, usage, used, idx,
                   nextval, dlock, slock, ilock, clock, fcap, errs>>

\* The UPDATE waits for the rows' locks, re-checks capture_slot_id on the
\* latest committed row, and sets it NULL in the rows that still match.
ClearRows(w) ==
    /\ pc[w] = "clearw"
    /\ \A i \in snap[w] : Free(ilock[i], w)
    /\ LET c == {i \in snap[w] : idx[i].slot = slot[w]} IN
       /\ ilock' = [i \in Ids |-> IF i \in c THEN w ELSE ilock[i]]
       /\ pend' = [pend EXCEPT ![w].cleared = c]
    /\ Goto(w, "age")
    /\ UNCHANGED <<left, conn, txn, usage, used, idx, nextval, dlock, slock,
                   clock, fcap, errs>>

\* UPDATE_SLOT_AGE_Q: used = NOW() on the slot's row.
SlotAge(w) ==
    /\ pc[w] = "age"
    /\ Free(slock[slot[w]], w)
    /\ slock' = [slock EXCEPT ![slot[w]] = w]
    /\ pend' = [pend EXCEPT ![w].used = TRUE]
    /\ Goto(w, "insert")
    /\ UNCHANGED <<left, conn, txn, usage, used, idx, nextval, dlock, ilock,
                   clock, fcap, errs>>

\* NEW_INDEX_Q: a row for the slot, not ready, RETURNING its id.
NewIndex(w) ==
    /\ pc[w] = "insert"
    /\ nextval <= MaxId
    /\ rid' = [rid EXCEPT ![w] = nextval]
    /\ nextval' = nextval + 1
    /\ ilock' = [ilock EXCEPT ![nextval] = w]
    /\ pend' = [pend EXCEPT ![w].row = TRUE]
    /\ Goto(w, "commit")
    /\ UNCHANGED <<left, conn, now, disk, slot, snap, usage, used, idx, dlock,
                   slock, clock, fcap, errs>>

Release(lk, w) == [x \in DOMAIN lk |-> IF lk[x] = w THEN NoTx ELSE lk[x]]
ReleaseAll(w) ==
    /\ dlock' = Release(dlock, w)
    /\ slock' = Release(slock, w)
    /\ ilock' = Release(ilock, w)

\* Mutant of Commit: set_save_info without its COMMIT; the transaction
\* stays open with its writes and row locks.
CommitSkipped(w) ==
    /\ pc[w] = "commit"
    /\ Goto(w, "mkdir")
    /\ UNCHANGED <<left, conn, txn, pend, usage, used, idx, nextval, dlock,
                   slock, ilock, clock, fcap, errs>>

\* COMMIT: the writes become visible and the locks go; output_bucket goes
\* on to the files.
Commit(w) ==
    /\ pc[w] = "commit"
    /\ usage' = [usage EXCEPT ![disk[w]] = @ + 1]
    /\ used' = [used EXCEPT ![slot[w]] = now[w]]
    /\ idx' = [i \in Ids |->
                 IF i = rid[w] THEN [slot |-> slot[w], ready |-> FALSE, disk |-> disk[w]]
                 ELSE IF i \in pend[w].cleared THEN [idx[i] EXCEPT !.slot = NULL]
                 ELSE idx[i]]
    /\ pend' = [pend EXCEPT ![w] = NoPend]
    /\ ReleaseAll(w)
    /\ Goto(w, "mkdir")
    /\ UNCHANGED <<left, conn, txn, nextval, clock, fcap, errs>>

\* Mutant of Rollback: the usage increment survives it (as if run outside
\* the transaction).
RollbackKeepsUsage(w) ==
    /\ pc[w] \in InTxn
    /\ errs < MaxErrs
    /\ errs' = errs + 1
    /\ conn' \in [Writers -> {"ok", "none"}]
    /\ \A u \in Writers \ {w} : conn'[u] = conn[u]
    /\ usage' = IF pend[w].usage THEN [usage EXCEPT ![disk[w]] = @ + 1] ELSE usage
    /\ pend' = [pend EXCEPT ![w] = NoPend]
    /\ ReleaseAll(w)
    /\ Goto(w, "conn")
    /\ UNCHANGED <<left, txn, used, idx, nextval, clock, fcap>>
\* A statement fails (a query error, or the connection is lost): paramExec
\* issues ROLLBACK, set_save_info returns OB_DB_ERR and output calls
\* output_bucket again for the same chain.  A waiting statement can fail too.
Rollback(w) ==
    /\ pc[w] \in InTxn
    /\ errs < MaxErrs
    /\ errs' = errs + 1
    /\ conn' \in [Writers -> {"ok", "none"}]
    /\ \A u \in Writers \ {w} : conn'[u] = conn[u]
    /\ pend' = [pend EXCEPT ![w] = NoPend]
    /\ ReleaseAll(w)
    /\ Goto(w, "conn")
    /\ UNCHANGED <<left, txn, usage, used, idx, nextval, clock, fcap>>

\* An I/O error of mkdir, fcap_open or write_index: output_bucket returns
\* OB_IO_ERR, which output does not retry; the chain's buckets go back to
\* the ready queue.
IOError(w) ==
    /\ pc[w] \in {"mkdir", "open", "data"}
    /\ errs < MaxErrs
    /\ errs' = errs + 1
    /\ Goto(w, "idle")
    /\ UNCHANGED <<left, conn, txn, pend, usage, used, idx, nextval, dlock,
                   slock, ilock, clock, fcap>>

\* mkdir of the index directory.
Mkdir(w) ==
    /\ pc[w] = "mkdir"
    /\ Goto(w, "open")
    /\ UNCHANGED <<left, conn, txn, pend, usage, used, idx, nextval, dlock,
                   slock, ilock, clock, fcap, errs>>

\* write_index(kt_FLOW) opens the slot's FCAP file with O_TRUNC.
Open(w) ==
    /\ pc[w] = "open"
    /\ fcap' = [fcap EXCEPT ![slot[w]] = [ids |-> {rid[w]}, done |-> FALSE]]
    /\ Goto(w, "data")
    /\ UNCHANGED <<left, conn, txn, pend, usage, used, idx, nextval, dlock,
                   slock, ilock, clock, errs>>

\* write_flow writes the chain's packets; the other indexes follow.
Data(w) ==
    /\ pc[w] = "data"
    /\ fcap' = [fcap EXCEPT ![slot[w]] = [ids |-> @.ids \cup {rid[w]}, done |-> TRUE]]
    /\ Goto(w, "ready")
    /\ UNCHANGED <<left, conn, txn, pend, usage, used, idx, nextval, dlock,
                   slock, ilock, clock, errs>>

\* save_stats (its own transaction, of rows nothing here reads) and
\* set_index_ready: UPDATE ready = true, which waits for the row's lock;
\* their errors are ignored.
Ready(w) ==
    /\ pc[w] = "ready"
    /\ ilock[rid[w]] = NoTx
    /\ \/ idx' = [idx EXCEPT ![rid[w]].ready = TRUE] /\ UNCHANGED errs
       \/ errs < MaxErrs /\ errs' = errs + 1 /\ UNCHANGED idx
    /\ Goto(w, "idle")
    /\ UNCHANGED <<left, conn, txn, pend, usage, used, nextval, dlock, slock,
                   ilock, clock, fcap>>

\* Every output thread has exited.
Finished == \A w \in Writers : pc[w] = "done" /\ UNCHANGED vars

Step(w) ==
    \/ Pop(w) \/ Connect(w) \/ Begin(w) \/ SelectDisk(w) \/ UsageInc(w)
    \/ OldestSlot(w) \/ ClearSnap(w) \/ ClearRows(w) \/ SlotAge(w)
    \/ NewIndex(w) \/ Commit(w) \/ Rollback(w) \/ IOError(w) \/ Mkdir(w)
    \/ Open(w) \/ Data(w) \/ Ready(w)

Next == (\E w \in Writers : Step(w)) \/ Finished

\* Each output thread is an OS thread; a step that waits for a row lock is
\* disabled until the holder commits or rolls back.
Spec == Init /\ [][Next]_vars /\ \A w \in Writers : WF_vars(Step(w))

-----------------------------------------------------------------------------
Stages == {"idle", "conn", "mkdir", "open", "data", "ready", "done"} \cup InTxn
Row == [slot : Slots \cup {NULL}, ready : BOOLEAN, disk : Disks]

TypeOK ==
    /\ pc \in [Writers -> Stages]
    /\ conn \in [Writers -> {"ok", "none"}]
    /\ idx \in [Ids -> Row \cup {NoRow}]
    /\ usage \in [Disks -> 0 .. MaxId]
    /\ used \in [Slots -> 0 .. MaxClock]
    /\ \A w \in Writers :
         pc[w] \in {"clear", "clearw", "age", "insert", "commit", "mkdir", "open", "data", "ready"}
           => slot[w] \in DiskSlots[disk[w]]

\* "Reclaim oldest slot on that disk ... insert new index row" (spec 6.5,
\* section 4.E step 1): whatever the output threads' transactions
\* interleave, rollbacks included, no two index rows name the same capture
\* slot, so no two chains are catalogued as held in one FCAP file.  The
\* two statements that SELECT before they write (NEXT_DISK_Q, OLDEST_SLOT_Q)
\* read only committed rows; it is the disk row's lock, taken by
\* USAGE_INC_Q before the slot is chosen, that keeps two threads from
\* choosing the same slot.
SlotExclusive ==
    \A i, j \in Rows : i # j /\ idx[i].slot # NULL => idx[i].slot # idx[j].slot

\* "Increment disk usage" is inside the transaction that creates the index
\* row (spec 6.5): a disk's usage counts exactly the index rows committed
\* on it, whichever statement of set_save_info failed and was rolled back.
UsageAccounted ==
    \A d \in Disks : usage[d] = Cardinality({i \in Rows : idx[i].disk = d})

\* Every output thread gets through its chains and exits: the retry loop
\* of output ends once the errors stop, and no thread waits forever for a
\* row lock another thread holds.
OutputEnds == <>(\A w \in Writers : pc[w] = "done")

\* The committed catalogue is the abstract one of CatalogAtomic: whatever
\* the statements of two set_save_info transactions interleave, and
\* whichever of them is rolled back, every change other threads can see is
\* one whole reservation of the disk's oldest slot at the moment of COMMIT
\* (its old rows cleared, its age set, one new row, usage up by one) or one
\* set_index_ready.  Rollbacks and uncommitted statements change nothing.
Atomic == INSTANCE CatalogAtomic WITH Times <- 0 .. MaxClock
CatalogAtomicity == Atomic!Spec

\* A ready index row names a slot whose FCAP file holds that chain's
\* packets and nothing else (spec 6.5: the index row says where a chain's
\* packets are).  OLDEST_SLOT_Q picks the oldest slot of the disk by age
\* alone, and a slot another thread is still writing after its COMMIT is
\* the oldest one once the disk's other slots have been reused, so this
\* fails when the disk has fewer slots than there are writers in flight.
ReadyIndexIntact ==
    \A i \in Rows : idx[i].ready /\ idx[i].slot # NULL =>
        fcap[idx[i].slot] = [ids |-> {i}, done |-> TRUE]
====
