------------------------------ MODULE FlowMerge ------------------------------
(***************************************************************************)
(* merge_flows (search/merge_flows.c): the .flows results of several       *)
(* captures are added to a skip list and os_slist_union (ordered_set.c)    *)
(* writes their union in flow key order; records of the same flow are      *)
(* combined by flow_key_merge (keys.c): earliest first_ts, latest last_ts, *)
(* and packet and size counts added and renormalised as count * 2^pow.     *)
(*                                                                         *)
(* A flow key is <<srcport, dstport, src, dst, proto>> with addresses as   *)
(* numbers (ip_cmp's order); a timestamp is a number.  os_slist_pop        *)
(* returns a set whose head is least; SetAlgebra.tla checks the skip list  *)
(* itself, so here the order of sets whose heads are equal is left open.   *)
(* Width is the width of the count fields and of the arithmetic that adds  *)
(* them (32 in the code), PowBits that of the exponent fields (4).         *)
(***************************************************************************)
EXTENDS Integers, SequencesExt

CONSTANTS
    Captures,   \* the index ids given on the command line
    Keys,       \* the flow keys the results may hold
    Counts,     \* the packet and size counts a capture's record may have
    Times,      \* timestamps
    Width,
    PowBits

U32 == 2 ^ Width
MaxPow == 2 ^ PowBits - 1

\* A flow record of a capture's .flows result: exponents are zero when
\* records are not combined (keys.h).
CaptureRecs ==
    [key : Keys, first : Times, last : Times, packets : Counts,
     packets_pow : {0}, size : Counts, size_pow : {0}]

VARIABLES
    input,   \* the .flows result of each capture
    sets,    \* what is left of each set in the skip list
    last,    \* last_item of os_slist_union
    out,     \* the records pushed to the output set
    pc

vars == <<input, sets, last, out, pc>>

\* flow_key_cmp: srcport, dstport, src, dst, then proto.
FlowKeyCmp(k1, k2) ==
    LET d == {j \in 1 .. 5 : k1[j] # k2[j]} IN
    IF d = {} THEN 0 ELSE IF k1[Min(d)] < k2[Min(d)] THEN -1 ELSE 1

\* The while (total > UINT32_MAX) loop: the exponent that fits total.
RECURSIVE Scale(_, _)
Scale(total, pow) ==
    IF total > U32 - 1 THEN Scale(total \div 2, pow + 1)
    ELSE [count |-> total, pow |-> pow]

\* A scaled count stored in its fields, or both zero past MaxPow.
Store(s) == IF s.pow > MaxPow THEN [count |-> 0, pow |-> 0] ELSE s

\* flow_key_merge(k1, k2): the shifts and the additions are of uint32_t
\* operands, so they wrap at U32 before the uint64_t totals are assigned;
\* k1's size is shifted by k1->packets_pow.
FlowKeyMerge(k1, k2) ==
    LET Shl(v, p) == (v * 2 ^ p) % U32
        tp == (Shl(k1.packets, k1.packets_pow) + Shl(k2.packets, k2.packets_pow)) % U32
        ts == (Shl(k1.size, k1.packets_pow) + Shl(k2.size, k2.size_pow)) % U32
        p  == Store(Scale(tp, 0))
        s  == Store(Scale(ts, 0))
    IN [k1 EXCEPT !.first = IF k2.first < k1.first THEN k2.first ELSE @,
                  !.last = IF k2.last > k1.last THEN k2.last ELSE @,
                  !.packets = p.count, !.packets_pow = p.pow,
                  !.size = s.count, !.size_pow = s.pow]

\* The sets the skip list holds: os_slist_reinsert drops an empty one.
Live == {c \in Captures : sets[c] # <<>>}

\* os_slist_pop: a set with the least head.
SlistPopMin ==
    {c \in Live : \A d \in Live : FlowKeyCmp(Head(sets[c]).key, Head(sets[d]).key) < 1}

\* A capture's .flows result: records in strictly ascending key order.
IsFlowSet(s) ==
    \A j \in 1 .. Len(s) - 1 : FlowKeyCmp(s[j].key, s[j + 1].key) = -1

\* merge_flows main: every capture's result opened and os_slist_add'ed.
Init ==
    /\ input \in [Captures -> {s \in UNION {[1 .. n -> CaptureRecs] : n \in 0 .. Cardinality(Keys)} :
                                 IsFlowSet(s) /\ \A j \in DOMAIN s : s[j].first <= s[j].last}]
    /\ sets = input
    /\ last = <<>>
    /\ out = <<>>
    /\ pc = "start"

\* os_slist_union up to the loop: an empty skip list ends at once;
\* otherwise the first item of the least set is last_item.
Start ==
    /\ pc = "start"
    /\ \/ Live = {} /\ pc' = "done" /\ UNCHANGED <<sets, last>>
       \/ \E c \in SlistPopMin :
            /\ last' = Head(sets[c])
            /\ sets' = [sets EXCEPT ![c] = Tail(@)]
            /\ pc' = "loop"
    /\ UNCHANGED <<input, out>>

\* One turn of the loop: pop the least set's head; a new flow pushes
\* last_item and replaces it, the same flow is merged into it.
Take ==
    /\ pc = "loop"
    /\ \E c \in SlistPopMin :
         LET item == Head(sets[c]) IN
         /\ sets' = [sets EXCEPT ![c] = Tail(@)]
         /\ IF FlowKeyCmp(last.key, item.key) # 0
            THEN out' = Append(out, last) /\ last' = item
            ELSE last' = FlowKeyMerge(last, item) /\ UNCHANGED out
    /\ UNCHANGED <<input, pc>>

\* The skip list is empty: the last item is written out.
Finish ==
    /\ pc = "loop"
    /\ Live = {}
    /\ out' = Append(out, last)
    /\ pc' = "done"
    /\ UNCHANGED <<input, sets, last>>

\* merge_flows returns once the union is written.
Done == pc = "done" /\ UNCHANGED vars

Next == Start \/ Take \/ Finish \/ Done

Spec == Init /\ [][Next]_vars /\ WF_vars(Next)

-----------------------------------------------------------------------------
TypeOK ==
    /\ pc \in {"start", "loop", "done"}
    /\ out \in Seq([key : Keys, first : Times, last : Times,
                    packets : 0 .. U32 - 1, packets_pow : 0 .. MaxPow,
                    size : 0 .. U32 - 1, size_pow : 0 .. MaxPow])

\* The records of input carrying key k, and what a count adds up to.
Recs(k) == UNION {{<<c, j>> : j \in {i \in DOMAIN input[c] : input[c][i].key = k}} : c \in Captures}
Total(k, f, fp) == MapThenSumSet(LAMBDA r : input[r[1]][r[2]][f] * 2 ^ input[r[1]][r[2]][fp], Recs(k))

\* A merged count holds the total to the precision of its exponent (each
\* of the m - 1 merges drops less than 2^pow), or is the zero marker of a
\* flow too large for PowBits.
Holds(r, f, fp) ==
    LET t == Total(r.key, f, fp)
        m == Cardinality(Recs(r.key))
    IN \/ r[f] * 2 ^ r[fp] <= t /\ t < (r[f] + m) * 2 ^ r[fp]
       \/ r[f] = 0 /\ r[fp] = 0 /\ t >= U32 * 2 ^ MaxPow

\* "Union result contains one flow with first_ts = min, last_ts = max,
\* packets = the sum" (spec section 4.F and scenario S5): when merge_flows
\* has written the union, every flow of the inputs is in it once, with the
\* earliest first_ts, the latest last_ts, and packet and size counts that
\* add up the inputs' (count * 2^pow, normalised by flow_key_merge).
UnionMergesCounts ==
    pc = "done" =>
      /\ {r.key : r \in ToSet(out)} = UNION {{x.key : x \in ToSet(input[c])} : c \in Captures}
      /\ \A j \in 1 .. Len(out) - 1 : FlowKeyCmp(out[j].key, out[j + 1].key) = -1
      /\ \A r \in ToSet(out) :
           /\ r.first = Min({input[x[1]][x[2]].first : x \in Recs(r.key)})
           /\ r.last = Max({input[x[1]][x[2]].last : x \in Recs(r.key)})
           /\ Holds(r, "packets", "packets_pow")
           /\ Holds(r, "size", "size_pow")

====
