----------------------------- MODULE SetAlgebra -----------------------------
(***************************************************************************)
(* The set algebra of search/search_lib.c over the ordered sets of         *)
(* search/ordered_set.c, as operators.  An ordered set in read mode is the *)
(* sequence of the items it has still to give (ord_set_pop takes the       *)
(* head); an ordered set in write mode is the sequence pushed so far.      *)
(*                                                                         *)
(* The skip list of os_slist_* is kept with its pointers: a node is the    *)
(* position of its set in the list of inputs, NIL is 0, the head's links   *)
(* are "skip" and a node's links are link[n].  The union and the AND loop  *)
(* are the loops of the code, written as RECURSIVE operators whose         *)
(* arguments are the loop variables.                                       *)
(***************************************************************************)
EXTENDS Integers, SequencesExt

NIL == 0

\* MAX_SKIP_LIST_LEVELS in ordered_set.h.
MAX_SKIP_LIST_LEVELS == 16
SkipLevels == 0 .. (MAX_SKIP_LIST_LEVELS - 1)

\* os_slist_init, with the sets that will be added as data[1..n].
SlistInit(data) ==
    [skip           |-> [l \in SkipLevels |-> NIL],
     items_inserted |-> 0,
     size           |-> 0,
     max_level      |-> 0,
     link           |-> [n \in DOMAIN data |-> [l \in SkipLevels |-> NIL]],
     skip_levels    |-> [n \in DOMAIN data |-> 0],
     data           |-> data]

\* The loop "while (items > 0) { items >>= 1; max_level++; }".
RECURSIVE BitLength(_)
BitLength(n) == IF n = 0 THEN 0 ELSE 1 + BitLength(n \div 2)

\* The size and max_level update shared by os_slist_add and os_slist_remove.
SlistResize(sl, n) == [sl EXCEPT !.size = n, !.max_level = BitLength(n)]

\* os_slist_remove: the set left the list for good.
SlistRemove(sl) == SlistResize(sl, sl.size - 1)

\* prior_skips[lvl], where prior is the head (NIL) or a node.
Link(sl, p, l) == IF p = NIL THEN sl.skip[l] ELSE sl.link[p][l]
SetLink(sl, p, l, v) ==
    IF p = NIL THEN [sl EXCEPT !.skip[l] = v] ELSE [sl EXCEPT !.link[p][l] = v]

\* A link at level lvl every 2^lvl insertions, below max_level.
RECURSIVE NewLevels(_, _, _)
NewLevels(inserted, lvl, max) ==
    IF inserted % (2 ^ lvl) = 0 /\ lvl < max
    THEN NewLevels(inserted, lvl + 1, max) ELSE lvl

\* The descent of os_slist_reinsert from level lvl, prior_skips at p.
RECURSIVE Descend(_, _, _, _)
Descend(sl, o, lvl, p) ==
    IF lvl < 0 THEN sl
    ELSE LET next == Link(sl, p, lvl) IN
         IF next # NIL /\ sl.data[next] = <<>>
         THEN sl                       \* CRIT "Found an empty ordered set"
         ELSE IF next = NIL
         THEN Descend(IF sl.skip_levels[o] > lvl
                      THEN [SetLink(sl, p, lvl, o) EXCEPT !.link[o][lvl] = NIL]
                      ELSE sl, o, lvl - 1, p)
         ELSE IF Head(sl.data[o]) >= Head(sl.data[next])
         THEN Descend(sl, o, lvl, next)
         ELSE Descend(IF sl.skip_levels[o] > lvl
                      THEN [SetLink(sl, p, lvl, o) EXCEPT !.link[o][lvl] = next]
                      ELSE sl, o, lvl - 1, p)

\* os_slist_reinsert: give o its levels, then drop it if its set is empty
\* (ord_set_cleanup, os_slist_remove) or link it in by its next item.
SlistReinsert(sl, o) ==
    LET lv  == NewLevels(sl.items_inserted, 0, sl.max_level)
        sl1 == [sl EXCEPT !.skip_levels[o] = lv,
                          !.link[o] = [l \in SkipLevels |->
                                         IF l < lv THEN NIL ELSE @[l]],
                          !.items_inserted = @ + 1]
    IN IF sl1.data[o] = <<>> THEN SlistRemove(sl1)
       ELSE Descend(sl1, o, sl1.max_level - 1, NIL)

\* os_slist_add: a new set, one more in size.
SlistAdd(sl, o) == SlistReinsert(SlistResize(sl, sl.size + 1), o)

\* os_slist_add of the sets data[n..], in order.
RECURSIVE SlistAddFrom(_, _)
SlistAddFrom(sl, n) ==
    IF n > Len(sl.data) THEN sl ELSE SlistAddFrom(SlistAdd(sl, n), n + 1)

\* The links os_slist_pop moves past the first node o, from level lvl up.
RECURSIVE Unlink(_, _, _)
Unlink(sl, o, lvl) ==
    IF lvl < sl.max_level /\ lvl < sl.skip_levels[o] /\ sl.skip[lvl] = o
    THEN Unlink([sl EXCEPT !.skip[lvl] = sl.link[o][lvl]], o, lvl + 1)
    ELSE sl

\* os_slist_pop (the node popped is sl.skip[0]).
SlistPop(sl) == IF sl.skip[0] = NIL THEN sl ELSE Unlink(sl, sl.skip[0], 0)

\* Pop the first set, ord_set_pop its next item, reinsert it.
SlistTake(sl) ==
    LET o == sl.skip[0] IN
    SlistReinsert([SlistPop(sl) EXCEPT !.data[o] = Tail(@)], o)

\* The loop of os_slist_union: output last_item when the next item differs.
RECURSIVE UnionLoop(_, _, _)
UnionLoop(sl, last, out) ==
    IF sl.skip[0] = NIL THEN Append(out, last)
    ELSE LET item == Head(sl.data[sl.skip[0]]) IN
         IF item # last
         THEN UnionLoop(SlistTake(sl), item, Append(out, last))
         ELSE UnionLoop(SlistTake(sl), last, out)

\* os_slist_union: the items pushed to output_set.
SlistUnion(sl) ==
    IF sl.skip[0] = NIL THEN <<>>
    ELSE UnionLoop(SlistTake(sl), Head(sl.data[sl.skip[0]]), <<>>)

\* or_results: every AND result added to a skip list, then the union.
OrResults(ands) == SlistUnion(SlistAddFrom(SlistInit(ands), 1))

-----------------------------------------------------------------------------
(* and_results.  ops is the AND's operand list, each operand the content *)
(* of its sub-index result and whether it is inverted.                    *)

\* do { ord_set_pop } while (ret != OSET_EMPTY && next_item < curr_item).
RECURSIVE PopUntil(_, _)
PopUntil(s, curr) ==
    IF s = <<>> THEN [empty |-> TRUE, rest |-> s, item |-> 0]
    ELSE IF Head(s) < curr THEN PopUntil(Tail(s), curr)
    ELSE [empty |-> FALSE, rest |-> Tail(s), item |-> Head(s)]

\* The pops of the inverted set while next_inv_item < curr_item.
RECURSIVE SkipInverted(_)
SkipInverted(st) ==
    IF st.next_inv < st.curr /\ st.inv_on
    THEN IF st.inv = <<>> THEN [st EXCEPT !.inv_on = FALSE]
         ELSE SkipInverted([st EXCEPT !.next_inv = Head(st.inv),
                                      !.inv = Tail(st.inv)])
    ELSE st

\* match_count == reg_set_count: push curr_item unless the inverted set
\* holds it, and reset match_count.
EmitMatch(st) ==
    LET s2 == IF st.inv_on THEN SkipInverted(st) ELSE st IN
    [s2 EXCEPT !.out = IF ~st.inv_on \/ s2.next_inv # s2.curr
                       THEN Append(@, s2.curr) ELSE @,
               !.match = 0]

\* Mutant of AndLoop: match_count is not reset when a larger item is
\* found.
RECURSIVE AndLoopNoReset(_)
AndLoopNoReset(st) ==
    LET s1 == IF st.match = Len(st.regs) THEN EmitMatch(st) ELSE st
        p  == PopUntil(s1.regs[s1.cs], s1.curr)
    IN IF p.empty THEN s1.out
       ELSE AndLoopNoReset([s1 EXCEPT !.regs[s1.cs] = p.rest,
                                      !.curr  = IF p.item > s1.curr
                                                THEN p.item ELSE @,
                                      !.match = @ + 1,
                                      !.cs    = (@ % Len(s1.regs)) + 1])

\* The while (1) loop over the ring of regular sets (curr_set = regs[cs]).
RECURSIVE AndLoop(_)
AndLoop(st) ==
    LET s1 == IF st.match = Len(st.regs) THEN EmitMatch(st) ELSE st
        p  == PopUntil(s1.regs[s1.cs], s1.curr)
    IN IF p.empty THEN s1.out
       ELSE AndLoop([s1 EXCEPT !.regs[s1.cs] = p.rest,
                               !.curr  = IF p.item > s1.curr THEN p.item ELSE @,
                               !.match = (IF p.item > s1.curr THEN 0 ELSE @) + 1,
                               !.cs    = (@ % Len(s1.regs)) + 1])

\* The inverted operands: none, the one set left in the skip list, or the
\* union of those left (the OSET_TMP_WRITE set, read back).
InvertedSet(invs) ==
    LET sl == SlistAddFrom(SlistInit(invs), 1) IN
    IF sl.size = 1 THEN [on |-> TRUE, items |-> sl.data[sl.skip[0]]]
    ELSE IF sl.size > 1 THEN [on |-> TRUE, items |-> SlistUnion(sl)]
    ELSE [on |-> FALSE, items |-> <<>>]

\* and_results: the offsets pushed to the AND's output set.  It reads past
\* reg_sets when no operand is regular; callers give it at least one.
AndResults(ops) ==
    LET Regular(x) == ~x.inverted
        Inverted(x) == x.inverted
        regs == [k \in 1 .. Len(SelectSeq(ops, Regular)) |->
                   SelectSeq(ops, Regular)[k].set]
        invs == [k \in 1 .. Len(SelectSeq(ops, Inverted)) |->
                   SelectSeq(ops, Inverted)[k].set]
        inv  == InvertedSet(invs)
        on   == inv.on /\ inv.items # <<>>
    IN AndLoop([curr |-> 0, match |-> 0, cs |-> 1, regs |-> regs,
                inv_on |-> on,
                next_inv |-> IF on THEN Head(inv.items) ELSE 0,
                inv |-> IF on THEN Tail(inv.items) ELSE <<>>,
                out |-> <<>>])

-----------------------------------------------------------------------------
(* flow_fetch's filter.  A flow is its offset in the FLOW index; Flow is  *)
(* the record read there: last_ts (tv_sec and tv_usec as one number) and *)
(* proto.                                                                *)

\* filter_flow: FLOW_OK unless the flow ended before start, its LAST
\* packet is after end, or proto is set and differs.
FilterFlow(f, start, end, proto) ==
    /\ ~(start > f.last_ts)
    /\ ~(end < f.last_ts)
    /\ ~(proto # 0 /\ proto # f.proto)

\* flow_fetch: the records of the offsets of the OR result that pass.
FlowFetch(offsets, Flow, start, end, proto) ==
    LET Pass(o) == FilterFlow(Flow[o], start, end, proto) IN
    SelectSeq(offsets, Pass)

-----------------------------------------------------------------------------
(* What the spec (section 8, property 5) says the operations compute.    *)

\* The ascending sequence of the numbers in S.
Sorted(S) ==
    [n \in 1 .. Cardinality(S) |->
       CHOOSE x \in S : Cardinality({y \in S : y < x}) = n - 1]

AndReference(ops) ==
    LET reg == {k \in DOMAIN ops : ~ops[k].inverted}
        inv == {k \in DOMAIN ops : ops[k].inverted}
    IN Sorted({x \in UNION {ToSet(ops[k].set) : k \in reg} :
                  \A k \in reg : x \in ToSet(ops[k].set)}
              \ UNION {ToSet(ops[k].set) : k \in inv})

OrReference(ands) == Sorted(UNION {ToSet(ands[k]) : k \in DOMAIN ands})

====
