--------------------------- MODULE SubIndexLayout ---------------------------
(***************************************************************************)
(* The layout of a sub-index file that write_index/idx_write_node          *)
(* (output.c) write and search_subindex (search/subindex.c) reads: records *)
(* sorted by (key, offset) in a left-filled implicit tree, the depth of a  *)
(* position in that tree, and the preview of its top levels in the first   *)
(* disk block.  Shared by the writer (IndexTree) and the search            *)
(* (SubIndex).                                                             *)
(***************************************************************************)
EXTENDS Integers, Sequences, SequencesExt, FiniteSets

CONSTANTS Keys,           \* the key values (integers)
          DiskBlock,      \* DISK_BLOCK, in bytes
          KeySize,        \* kt_key_size of the key type
          HdrSize         \* sizeof(struct fcap_idx_header)

\* Sorted sequences of n keys, none below lo: the files write_index makes.
RECURSIVE SortedSeqs(_, _)
SortedSeqs(n, lo) ==
    IF n = 0 THEN {<<>>}
    ELSE UNION {{<<k>> \o s : s \in SortedSeqs(n - 1, k)} : k \in {j \in Keys : j >= lo}}

\* The `while ((cap-1) < n) { cap <<= 1; depth++; }` loop of write_index,
\* node_depth, search_subindex and search_preview.
RECURSIVE DepthLoop(_, _, _)
DepthLoop(cap, depth, n) ==
    IF cap - 1 < n THEN DepthLoop(cap * 2, depth + 1, n) ELSE depth

TreeDepth(n) == DepthLoop(2, 1, n)

\* node_depth: the depth of position num in the left-filled tree of total.
RECURSIVE DepthFrom(_, _, _)
DepthFrom(num, d, depth) ==
    IF d > depth THEN 0
    ELSE LET left == 2^(depth - d) IN
         CASE left < num -> DepthFrom(num - left, d + 1, depth)
           [] left = num -> d
           [] OTHER      -> DepthFrom(num, d + 1, depth)

node_depth(num, total) == DepthFrom(num, 1, TreeDepth(total))

\* The number of right shifts that empty b.
RECURSIVE Shifts(_)
Shifts(b) == IF b = 0 THEN 0 ELSE 1 + Shifts(b \div 2)

\* preview_depth: no preview for small trees, else log2(DISK_BLOCK/key size).
preview_depth(total) ==
    LET base == DiskBlock \div KeySize
    IN IF total < base THEN 0 ELSE Shifts(base) - 1

\* The preview list idx_write_node collects (the keys of nodes no deeper
\* than the preview depth, in write order), cut by write_index to what fits
\* after the header in the first disk block.
Preview(r) ==
    LET pd  == preview_depth(Len(r))
        ps  == SelectSeq([p \in 1..Len(r) |-> p], LAMBDA p : node_depth(p, Len(r)) <= pd)
        cap == (DiskBlock - HdrSize) \div KeySize
    IN [i \in 1..(IF cap < Len(ps) THEN cap ELSE Len(ps)) |-> r[ps[i]]]
=============================================================================
