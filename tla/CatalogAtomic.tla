--------------------------- MODULE CatalogAtomic ---------------------------
(***************************************************************************)
(* What the catalogue promises the output threads: each chain's save info  *)
(* is one atomic step over the committed tables.  set_save_info reserves   *)
(* the oldest slot of a disk (ORDER BY used, id): the disk's usage goes up *)
(* by one, the old index rows of the slot lose it, the slot's age is set,  *)
(* and a new index row names it.  set_index_ready marks a row ready.       *)
(* Which disk, which fresh id and which age are left to the caller.        *)
(***************************************************************************)
EXTENDS Integers

CONSTANTS Disks, DiskSlots, Ids, Times, NoRow

VARIABLES usage, used, idx

NULL == 0
Slots == UNION {DiskSlots[d] : d \in Disks}
cat == <<usage, used, idx>>

\* OLDEST_SLOT_Q: the slot of d that comes first ORDER BY used, id.
Oldest(d) ==
    CHOOSE s \in DiskSlots[d] :
        \A t \in DiskSlots[d] : used[s] < used[t] \/ (used[s] = used[t] /\ s <= t)

Init ==
    /\ usage = [d \in Disks |-> 0]
    /\ used = [s \in Slots |-> 0]
    /\ idx = [i \in Ids |-> NoRow]

\* set_save_info as one transaction: row i is new, and age t is set.
Reserve(d, i, t) ==
    LET s == Oldest(d) IN
    /\ idx[i] = NoRow
    /\ usage' = [usage EXCEPT ![d] = @ + 1]
    /\ used' = [used EXCEPT ![s] = t]
    /\ idx' = [j \in Ids |->
                 IF j = i THEN [slot |-> s, ready |-> FALSE, disk |-> d]
                 ELSE IF idx[j] # NoRow /\ idx[j].slot = s THEN [idx[j] EXCEPT !.slot = NULL]
                 ELSE idx[j]]

\* set_index_ready: UPDATE ready = true on an existing row.
MarkReady(i) ==
    /\ idx[i] # NoRow
    /\ idx' = [idx EXCEPT ![i].ready = TRUE]
    /\ UNCHANGED <<usage, used>>

Next ==
    \/ \E d \in Disks, i \in Ids, t \in Times : Reserve(d, i, t)
    \/ \E i \in Ids : MarkReady(i)

Spec == Init /\ [][Next]_cat
====
