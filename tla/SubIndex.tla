------------------------------ MODULE SubIndex ------------------------------
(***************************************************************************)
(* A range search of one sub-index file (search/subindex.c) against the    *)
(* file write_index and idx_write_node (output.c) produce from a sorted    *)
(* list of records.  A record is its key; its offset is its position in    *)
(* the file, since records are sorted by key and then offset.  Keys are    *)
(* small integers and kt_key_cmp is integer comparison.                    *)
(*                                                                         *)
(* The search is one thread; each iteration of each of its loops is one   *)
(* step, so a state shows where the descent is.  Reading a record the      *)
(* search did not read from the file (the uninitialised stack buffer of    *)
(* search_index) compares as anything, and a shift by a negative amount   *)
(* (pos_update_* below the leaf level) ends the search in "undefined".    *)
(***************************************************************************)
EXTENDS SubIndexLayout

CONSTANTS Sizes,          \* the numbers of records a file may hold
          OffsetSize,     \* 4 or 8: the header's offset64
          MaxTreeBuffer   \* MAX_TREE_BUFFER

RecSize == KeySize + OffsetSize

VARIABLES recs,       \* the records of the file, in file order
          start_key,  \* descr->start_key
          end_key,    \* descr->end_key
          phase,      \* which loop of the search runs next
          err,        \* search_subindex's return: 0 ("OK"), -1 ("FAIL") or errno
          pos,        \* struct tree_pos: index, node_depth, last_match_index
          n_idx,      \* search_preview's position in the preview tree
          n_depth,    \* and its depth there
          window,     \* search_index's buffer: first_record..last_record
          cursor,     \* output_matches: the record whose key was read last
          result,     \* the offsets pushed to the output ordered set
          uninit      \* a comparison read memory the file never filled

vars == <<recs, start_key, end_key, phase, err, pos, n_idx, n_depth,
          window, cursor, result, uninit>>

N  == Len(recs)
TD == TreeDepth(N)

\* The header write_index leaves: its preview count and preview keys.
HdrPreview == Len(Preview(recs))

\* search_preview's preview depth, from DISK_BLOCK/key size.
PD == DepthLoop(2, 0, DiskBlock \div KeySize)

\* kt_key_cmp(key, k).
Cmp(key, k) == IF key < k THEN -1 ELSE IF key > k THEN 1 ELSE 0

\* pos_update_left/right; shifting below the leaf level is undefined.
Left(p)  == [p EXCEPT !.index = @ - 2^(TD - (p.node_depth + 1)), !.node_depth = @ + 1]
Right(p) == [p EXCEPT !.index = @ + 2^(TD - (p.node_depth + 1)), !.node_depth = @ + 1]
AtLeaf(p) == p.node_depth >= TD

\* A descent that goes right on a match (it finds the last equal key).
DescendRightOnMatch(p, c) ==
    CASE c = 0  -> Right([p EXCEPT !.last_match = p.index])
      [] c = -1 -> Left(p)
      [] c = 1  -> Right(p)

\* The descent's rule on one comparison (case 0 falls through to case -1).
Descend(p, c) ==
    CASE c = 0  -> Left([p EXCEPT !.last_match = p.index])
      [] c = -1 -> Left(p)
      [] c = 1  -> Right(p)

\* search_index's comparison of the record at i: what was read into the
\* buffer, or anything for the rest of the stack buffer.
BufCmps(i) == IF i \in window[1]..window[2] THEN {Cmp(start_key, recs[i])} ELSE {-1, 0, 1}

Finish(code) == /\ phase' = "done"
                /\ err' = code

Undefined == /\ phase' = "undefined"
             /\ err' = "UB"
             /\ UNCHANGED <<pos, n_idx, n_depth, window, cursor, result, uninit>>

Init == /\ recs \in UNION {SortedSeqs(n, 0) : n \in Sizes}
        /\ start_key \in Keys
        /\ end_key \in Keys
        /\ phase = "start"
        /\ err = "OK"
        /\ pos = [index |-> 0, node_depth |-> 0, last_match |-> -1]
        /\ n_idx = 0
        /\ n_depth = 0
        /\ window = <<1, 0>>
        /\ cursor = 0
        /\ result = {}
        /\ uninit = FALSE

\* search_subindex up to the preview search: the range check, the tree
\* depth and the root position.
search_subindex ==
    /\ phase = "start"
    /\ IF Cmp(start_key, end_key) = 1
         THEN /\ Finish("EINVAL")
              /\ UNCHANGED <<pos, n_idx, n_depth>>
         ELSE /\ pos' = [index |-> 2^(TD - 1), node_depth |-> 1, last_match |-> -1]
              /\ n_idx' = 2^(PD - 1)
              /\ n_depth' = 1
              /\ phase' = IF HdrPreview # 0 THEN "preview" ELSE "index"
              /\ UNCHANGED err
    /\ UNCHANGED <<recs, start_key, end_key, window, cursor, result, uninit>>

\* `continue` without moving the main-tree position.
preview_virtual_stuck ==
    /\ phase = "preview" /\ n_depth <= PD
    /\ n_idx > HdrPreview /\ pos.index > N
    /\ UNCHANGED vars

\* search_preview, one iteration of `while (n_depth <= pvw_depth)` each.
\* Past the end of the preview on a virtual node: move left in the main
\* tree only, and look again.
preview_virtual ==
    /\ phase = "preview" /\ n_depth <= PD
    /\ n_idx > HdrPreview /\ pos.index > N
    /\ IF AtLeaf(pos) THEN Undefined
       ELSE /\ pos' = Left(pos)
            /\ UNCHANGED <<phase, err, n_idx, n_depth, window, cursor, result, uninit>>
    /\ UNCHANGED <<recs, start_key, end_key>>

\* Past the right edge of the preview on a real node: `return 0`.
preview_edge ==
    /\ phase = "preview" /\ n_depth <= PD
    /\ n_idx > HdrPreview /\ pos.index <= N
    /\ phase' = "index"
    /\ UNCHANGED <<recs, start_key, end_key, err, pos, n_idx, n_depth, window, cursor, result, uninit>>

\* The preview step shifted by the depth before its pre-increment.
preview_compare_late_depth ==
    /\ phase = "preview" /\ n_depth <= PD
    /\ n_idx <= HdrPreview
    /\ LET c == Cmp(start_key, Preview(recs)[n_idx]) IN
         /\ pos' = Descend(pos, c)
         /\ n_depth' = n_depth + 1
         /\ n_idx' = CASE n_depth + 1 > PD -> n_idx
                       [] c = 1 -> n_idx + 2^(PD - n_depth)
                       [] OTHER -> n_idx - 2^(PD - n_depth)
    /\ UNCHANGED <<recs, start_key, end_key, phase, err, window, cursor, result, uninit>>

\* Compare with preview key n_idx and move both positions.  Below the
\* last preview level n_idx is no longer used (its shift is by -1).
preview_compare ==
    /\ phase = "preview" /\ n_depth <= PD
    /\ n_idx <= HdrPreview
    /\ LET c == Cmp(start_key, Preview(recs)[n_idx]) IN
         /\ pos' = Descend(pos, c)
         /\ n_depth' = n_depth + 1
         /\ n_idx' = CASE n_depth + 1 > PD -> n_idx
                       [] c = 1 -> n_idx + 2^(PD - (n_depth + 1))
                       [] OTHER -> n_idx - 2^(PD - (n_depth + 1))
    /\ UNCHANGED <<recs, start_key, end_key, phase, err, window, cursor, result, uninit>>

preview_done ==
    /\ phase = "preview" /\ n_depth > PD
    /\ phase' = "index"
    /\ UNCHANGED <<recs, start_key, end_key, err, pos, n_idx, n_depth, window, cursor, result, uninit>>

\* The bytes of the subtree under pos: (subtree_size - 1) * record_size.
Bytes(p) == (2^(TD - p.node_depth + 1) - 1) * RecSize

\* search_index, one iteration of the slow loop (`bytes_to_read >
\* MAX_TREE_BUFFER`): a virtual node goes left; otherwise one key is read at
\* header_size + index*record_size, the record after position index, and a
\* short read is EIO.
index_slow_step ==
    /\ phase = "index" /\ Bytes(pos) > MaxTreeBuffer
    /\ CASE pos.index > N ->
              /\ pos' = Left(pos)
              /\ UNCHANGED <<phase, err>>
         [] pos.index + 1 > N ->
              /\ Finish("EIO")
              /\ UNCHANGED pos
         [] OTHER ->
              /\ pos' = IF Cmp(start_key, recs[pos.index + 1]) = 1 THEN Right(pos)
                        ELSE Descend(pos, 0)
              /\ UNCHANGED <<phase, err>>
    /\ UNCHANGED <<recs, start_key, end_key, n_idx, n_depth, window, cursor, result, uninit>>

\* search_index reads the subtree under pos into one buffer; a read that
\* does not return the records the header promises is EIO.
index_fill_buffer ==
    /\ phase = "index" /\ Bytes(pos) <= MaxTreeBuffer
    /\ LET rel   == TD - pos.node_depth
           first == pos.index - (2^rel - 1)
           last  == IF pos.index + 2^rel - 1 < N THEN pos.index + 2^rel - 1 ELSE N
           avail == N - first + 1
           got   == IF avail < 0 THEN 0 ELSE IF avail < 2^(rel + 1) - 1 THEN avail ELSE 2^(rel + 1) - 1
       IN IF got # last - first + 1
            THEN /\ Finish("EIO")
                 /\ UNCHANGED window
            ELSE /\ window' = <<first, last>>
                 /\ phase' = "fast"
                 /\ UNCHANGED err
    /\ UNCHANGED <<recs, start_key, end_key, pos, n_idx, n_depth, cursor, result, uninit>>

\* search_index, one iteration of `while (node_depth < tree_depth)` over the
\* buffer: a virtual node first goes left once, then the record there is
\* compared and the descent moves on.
index_fast_step ==
    /\ phase = "fast" /\ pos.node_depth < TD
    /\ LET p == IF pos.index > N THEN Left(pos) ELSE pos IN
         /\ uninit' = (uninit \/ p.index \notin window[1]..window[2])
         /\ IF AtLeaf(p) THEN /\ phase' = "undefined"
                              /\ err' = "UB"
                              /\ UNCHANGED pos
            ELSE /\ \E c \in BufCmps(p.index) : pos' = Descend(p, c)
                 /\ UNCHANGED <<phase, err>>
    /\ UNCHANGED <<recs, start_key, end_key, n_idx, n_depth, window, cursor, result>>

\* The check of the record at the bottom of the tree.
index_final_check ==
    /\ phase = "fast" /\ pos.node_depth >= TD
    /\ uninit' = (uninit \/ pos.index \notin window[1]..window[2])
    /\ \E c \in BufCmps(pos.index) :
         pos' = IF c = 0 THEN [pos EXCEPT !.last_match = pos.index] ELSE pos
    /\ phase' = "found"
    /\ UNCHANGED <<recs, start_key, end_key, err, n_idx, n_depth, window, cursor, result>>

\* output_matches without the check of the first read.
search_output_unchecked ==
    /\ phase = "found"
    /\ CASE pos.last_match = -1 -> Finish("OK") /\ UNCHANGED cursor
         [] OTHER -> /\ cursor' = pos.last_match
                     /\ phase' = "output"
                     /\ UNCHANGED err
    /\ UNCHANGED <<recs, start_key, end_key, pos, n_idx, n_depth, window, result, uninit>>

\* search_subindex after search_index: no match skips output_matches;
\* otherwise output_matches reads the key at last_match_index.
search_output ==
    /\ phase = "found"
    /\ CASE pos.last_match = -1 -> Finish("OK") /\ UNCHANGED cursor
         [] pos.last_match > N  -> Finish("FAIL") /\ UNCHANGED cursor
         [] OTHER -> /\ cursor' = pos.last_match
                     /\ phase' = "output"
                     /\ UNCHANGED err
    /\ UNCHANGED <<recs, start_key, end_key, pos, n_idx, n_depth, window, result, uninit>>

\* output_matches, one record of the inner do-while: push its offset, then
\* read the next key; at the end of the file that read fails (EIO).
output_record ==
    /\ phase = "output"
    /\ Cmp(recs[cursor], end_key) < 1
    /\ result' = result \union {cursor}
    /\ IF cursor + 1 > N THEN Finish("EIO") /\ UNCHANGED cursor
       ELSE cursor' = cursor + 1 /\ UNCHANGED <<phase, err>>
    /\ UNCHANGED <<recs, start_key, end_key, pos, n_idx, n_depth, window, uninit>>

\* A key above end_key ends the outer loop; the per-key sets are merged
\* into the output file.
output_finish ==
    /\ phase = "output"
    /\ Cmp(recs[cursor], end_key) = 1
    /\ Finish("OK")
    /\ UNCHANGED <<recs, start_key, end_key, pos, n_idx, n_depth, window, cursor, result, uninit>>

Next == \/ search_subindex
        \/ preview_virtual \/ preview_edge \/ preview_compare \/ preview_done
        \/ index_slow_step \/ index_fill_buffer
        \/ index_fast_step \/ index_final_check
        \/ search_output \/ output_record \/ output_finish

\* One search thread, which runs until it returns.
Spec == Init /\ [][Next]_vars /\ WF_vars(Next)

ASSUME MaxTreeBuffer >= RecSize

(***************************************************************************)
(* Properties                                                              *)
(***************************************************************************)
Phases == {"start", "preview", "index", "fast", "found", "output", "done", "undefined"}

TypeOK == /\ phase \in Phases
          /\ err \in {"OK", "FAIL", "EINVAL", "EIO", "UB"}
          /\ pos.last_match \in {-1} \union Nat
          /\ result \subseteq 1..N
          /\ cursor \in 0..N
          /\ uninit \in BOOLEAN

\* The offsets in [start_key, end_key]: what the search should output.
Reference == {i \in 1..N : start_key <= recs[i] /\ recs[i] <= end_key}

\* The preview that idx_write_node collects in write order and the
\* position arithmetic of search_preview stay in step: whenever the search
\* compares with preview key n_idx, that is the key of the record at the
\* main-tree position it moves in step with.
PreviewInStep ==
    phase = "preview" /\ n_depth <= PD /\ n_idx <= HdrPreview
        => /\ n_idx >= 1 /\ pos.index \in 1..N
           /\ Preview(recs)[n_idx] = recs[pos.index]

\* search_index's buffered descent, when it reaches the bottom having
\* compared only records it read, leaves last_match_index at the leftmost
\* record of its buffer that holds the start key, if the buffer holds one,
\* whatever the preview and the one-read-per-step loop recorded before.
MatchIsLeftmost ==
    LET inBuf == {i \in window[1]..window[2] : recs[i] = start_key}
    IN phase = "found" /\ ~uninit /\ inBuf # {}
           => pos.last_match = CHOOSE i \in inBuf : \A j \in inBuf : i <= j

\* A search that returns 0 wrote no offset whose key is outside the range:
\* output_matches starts at the match and stops at the first key above
\* end_key.
NoFalsePositives ==
    phase = "done" /\ err = "OK" => result \subseteq Reference

\* Every search returns (each loop moves one level down the tree or one
\* record along the file).
SearchTerminates == <>(phase \in {"done", "undefined"})

\* Section 4.G of the design: a valid range search returns every offset
\* whose key lies in [start_key, end_key].
SearchComplete ==
    phase = "done" /\ err = "OK" => result = Reference

\* A valid range search of a file write_index wrote returns 0.
ValidSearchSucceeds ==
    phase = "done" /\ start_key <= end_key => err = "OK"

\* The search never reads memory the file did not fill and never shifts a
\* position below the leaf level.
NoUndefinedBehaviour == phase # "undefined" /\ ~uninit
====
