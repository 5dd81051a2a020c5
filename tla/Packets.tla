------------------------------- MODULE Packets -------------------------------
(***************************************************************************)
(* pcap_fetch of search/packets.c: the flows of a .flows result become     *)
(* nodes of a pairing heap ordered by the timestamp of each flow's next    *)
(* packet; the loop writes the root's next packet, removes the root and    *)
(* merges it back while it has packets.                                    *)
(*                                                                         *)
(* A node is the position of its flow in the .flows result; the heap is a  *)
(* record of the child, sibling, ts and next-packet fields of struct       *)
(* flow_heap, indexed by node.  A flow record's pkts are the timestamps of *)
(* its packets in the FCAP file, the first one its first_ts.  A packet     *)
(* written to the pcap is <<flow offset, packet number>>.                  *)
(***************************************************************************)
EXTENDS SetAlgebra

\* The heap of nodes 1..n before any fh_init.
FhEmpty(n) ==
    [child   |-> [x \in 1 .. n |-> NIL],
     sibling |-> [x \in 1 .. n |-> NIL],
     ts      |-> [x \in 1 .. n |-> 0],
     next    |-> [x \in 1 .. n |-> 1]]

\* fh_init: the node's timestamp is the flow's first_ts.
FhInit(h, x, rec) == [h EXCEPT !.ts[x] = Head(rec.pkts), !.next[x] = 1]

\* Mutant of FhMerge: the later timestamp becomes the root.
FhMergeLate(h, a, b) ==
    IF a = NIL THEN [heap |-> h, root |-> b]
    ELSE IF h.ts[a] > h.ts[b]
    THEN [heap |-> [h EXCEPT !.sibling[b] = h.child[a], !.child[a] = b],
          root |-> a]
    ELSE [heap |-> [h EXCEPT !.sibling[a] = h.child[b], !.child[b] = a],
          root |-> b]

\* fh_merge: the node with the strictly older timestamp is the root and
\* the other becomes its first child; on a tie b is the root.
FhMerge(h, a, b) ==
    IF a = NIL THEN [heap |-> h, root |-> b]
    ELSE IF h.ts[a] < h.ts[b]
    THEN [heap |-> [h EXCEPT !.sibling[b] = h.child[a], !.child[a] = b],
          root |-> a]
    ELSE [heap |-> [h EXCEPT !.sibling[a] = h.child[b], !.child[b] = a],
          root |-> b]

\* fh_merge_pairs: merge x with its sibling, the rest of the list
\* recursively, then the two results.
RECURSIVE FhMergePairs(_, _)
FhMergePairs(h, x) ==
    IF h.sibling[x] = NIL THEN [heap |-> h, root |-> x]
    ELSE LET s  == h.sibling[x]
             h1 == [h EXCEPT !.sibling[x] = NIL]
         IN IF h1.sibling[s] = NIL THEN FhMerge(h1, x, s)
            ELSE LET g  == h1.sibling[s]
                     m  == FhMerge([h1 EXCEPT !.sibling[s] = NIL], x, s)
                     nb == FhMergePairs(m.heap, g)
                 IN FhMerge(nb.heap, m.root, nb.root)

\* fh_del_min: the new root is the pair-merge of the old root's children.
FhDelMin(h, r) ==
    IF h.child[r] = NIL THEN [heap |-> h, root |-> NIL]
    ELSE FhMergePairs([h EXCEPT !.child[r] = NIL], h.child[r])

\* The loop over ord_set_pop(&flows): fh_init each flow from node x on and
\* merge it into the heap.
RECURSIVE FhBuild(_, _, _, _)
FhBuild(h, root, x, recs) ==
    IF x > Len(recs) THEN [heap |-> h, root |-> root]
    ELSE LET m == FhMerge(FhInit(h, x, recs[x]), root, x)
         IN FhBuild(m.heap, m.root, x + 1, recs)

\* fh_eof: the node's next packet is past the end of its flow.
FhEof(h, x, recs) == h.next[x] > Len(recs[x].pkts)

\* fh_write_packet: the node's next packet is written and its ts becomes
\* that of the packet after it (after the last packet the code reads the
\* header past the buffer; the node is freed without using it).
FhWritePacket(h, x, recs) ==
    LET n == h.next[x]
        pk == recs[x].pkts
    IN [h EXCEPT !.next[x] = n + 1,
                 !.ts[x] = IF n < Len(pk) THEN pk[n + 1] ELSE @]

\* The write loop: take the root off, write its next packet, and merge it
\* back into the heap unless fh_eof.
RECURSIVE FhWrite(_, _, _, _, _)
FhWrite(h, root, offs, recs, out) ==
    IF root = NIL THEN out
    ELSE LET d    == FhDelMin(h, root)
             h1   == FhWritePacket(d.heap, root, recs)
             out1 == Append(out, <<offs[root], h.next[root]>>)
         IN IF FhEof(h1, root, recs)
            THEN FhWrite(h1, d.root, offs, recs, out1)
            ELSE LET m == FhMerge(h1, d.root, root)
                 IN FhWrite(m.heap, m.root, offs, recs, out1)

\* pcap_fetch: the packets written to the .pcap, for the flow offsets
\* offs of a .flows result and the FLOW index records Flow.
PcapFetch(offs, Flow) ==
    LET recs == [x \in DOMAIN offs |-> Flow[offs[x]]]
        b    == FhBuild(FhEmpty(Len(offs)), NIL, 1, recs)
    IN FhWrite(b.heap, b.root, offs, recs, <<>>)

\* What the spec (section 4) says the pcap holds: every packet of every
\* flow once, in time order.
IsPcapOf(out, offs, Flow) ==
    LET all == UNION {{<<o, n>> : n \in DOMAIN Flow[o].pkts} : o \in ToSet(offs)}
        ts(p) == Flow[p[1]].pkts[p[2]]
    IN /\ Len(out) = Cardinality(all)
       /\ ToSet(out) = all
       /\ \A j \in 1 .. Len(out) - 1 :
            \/ ts(out[j]) < ts(out[j + 1])
            \/ ts(out[j]) = ts(out[j + 1])
               /\ (out[j][1] = out[j + 1][1] => out[j][2] < out[j + 1][2])

====
