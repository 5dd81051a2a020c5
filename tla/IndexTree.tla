------------------------------ MODULE IndexTree ------------------------------
(***************************************************************************)
(* Indexing one bucket chain and writing its indexes: index_bucket and     *)
(* splay_tr_insert (index.c) build the flow tree and a port sub-index tree *)
(* (kt_SRCPORT; the other sub-index trees run the same code on other       *)
(* keys); output_bucket's write_index (output.c) then walks the flow tree  *)
(* (write_flow gives each flow its flow-index offset) and the port tree    *)
(* (idx_write_node, with merge_sort_offsets, writes the records and        *)
(* collects the preview), freeing the port nodes as it ascends.            *)
(*                                                                         *)
(* A packet is the flow it belongs to; port[f] is the source port of     *)
(* flow f and the flow integer stands for the rest of its 5-tuple.  A     *)
(* tree node is named by its key, which is unique in its tree.  Each       *)
(* iteration of the descent, splay and traversal loops is one step, so a   *)
(* state can show a tree with its links reversed.                          *)
(***************************************************************************)
EXTENDS SubIndexLayout, TLC

CONSTANTS Flows,      \* the flow keys (5-tuples), as integers
          MaxPkts,    \* the most packets in a bucket chain
          MaxOrder,   \* MAX_ORDER of merge_sort_offsets
          NULL

ASSUME NULL \notin Flows \union Keys

\* mk_index_node's flow_index_offset, 0xbad1bad2bad3bad4: above any offset.
BadOffset == 2^16

\* A tree of one key type: root, the left/right links and each node's list
\* (ll.pkts for the flow tree, ll.flows for a sub-index tree).
EmptyTree(ids) == [root |-> NULL, nodes |-> {},
                   left |-> [i \in ids |-> NULL], right |-> [i \in ids |-> NULL],
                   list |-> [i \in ids |-> <<>>]]

VARIABLES pkts,       \* the packets of the bucket chain, in order
          port,       \* the source port of each flow
          phase,      \* "index", "insert", "write", "free" or "done"
          pi,         \* the packet being indexed (rec)
          ftree,      \* idxs->flows
          ptree,      \* idxs->srcport
          ins,        \* the splay_tr_insert in progress
          flow_cnt,   \* idxs->flow_cnt
          timeorder,  \* idxs->timeorder_head..tail
          wr,         \* the write_index in progress
          offset,     \* each flow node's flow_index_offset
          flowfile,   \* the flow index: the flows in write order
          portfile,   \* the port sub-index: <<key, offset>> records
          preview,    \* g_args.preview_list[0..pl_i)
          freed       \* the <<tree, node>> pairs freed so far

vars == <<pkts, port, phase, pi, ftree, ptree, ins, flow_cnt, timeorder,
          wr, offset, flowfile, portfile, preview, freed>>

TreeOf(tt) == IF tt = "flow" THEN ftree ELSE ptree

\* gen_cmp(a, b, tt) for two keys of tree tt: kt_SRCPORT compares ports;
\* kt_FLOW compares the srcport first and the rest of the 5-tuple after.
IntCmp(a, b) == IF a < b THEN -1 ELSE IF a > b THEN 1 ELSE 0
Cmp(tt, a, b) ==
    IF tt = "flow" /\ port[a] # port[b] THEN IntCmp(port[a], port[b])
    ELSE IntCmp(a, b)

\* The list handling after the descent (index.c 276-304): a flow node
\* gets the packet unless the node was made from it; a sub-index node
\* always gets the flow.
Listed(t, tt, n, item, made) ==
    IF tt = "flow" /\ made THEN t
    ELSE [t EXCEPT !.list[n] = Append(@, item)]

\* A new node for key k (mk_index_node: no links, empty list).
WithNode(t, k) == [t EXCEPT !.nodes = @ \union {k}]

\* Store the tree splay_tr_insert works on.
SetTree(tt, t) == IF tt = "flow" THEN ftree' = t /\ UNCHANGED ptree
                                 ELSE ptree' = t /\ UNCHANGED ftree

Init == /\ pkts \in UNION {[1..n -> Flows] : n \in 1..MaxPkts}
        /\ port \in [Flows -> Keys]
        /\ phase = "index"
        /\ pi = 1
        /\ ftree = EmptyTree(Flows)
        /\ ptree = EmptyTree(Keys)
        /\ ins = [tt |-> "flow", key |-> NULL, item |-> NULL, cur |-> NULL,
                  p |-> NULL, stage |-> "none"]
        /\ flow_cnt = 0
        /\ timeorder = <<>>
        /\ wr = [tt |-> "flow", curr |-> NULL, prior |-> NULL, parent |-> NULL,
                 node_num |-> 1]
        /\ offset = [f \in Flows |-> BadOffset]
        /\ flowfile = <<>>
        /\ portfile = <<>>
        /\ preview = <<>>
        /\ freed = {}

\* splay_tr_insert(root, key, flow, tt) up to its descent loop, as the
\* tree and the insertion state it leaves: an empty tree gets the new node
\* (and its list entry) and the call returns at once.
Started(t, tt, k, item) ==
    IF t.root = NULL
      THEN [t |-> Listed(WithNode(t, k), tt, k, item, TRUE),
            ins |-> [tt |-> tt, key |-> k, item |-> item, cur |-> k, p |-> NULL,
                     stage |-> "return"]]
      ELSE [t |-> t,
            ins |-> [tt |-> tt, key |-> k, item |-> item, cur |-> t.root,
                     p |-> NULL, stage |-> "descend"]]

\* The link a comparison result follows.
Side(c) == IF c < 0 THEN "left" ELSE "right"

\* index_bucket takes the next packet of the chain and inserts it into the
\* flow tree; after the last packet the chain is indexed.
index_packet ==
    /\ phase = "index"
    /\ IF pi <= Len(pkts)
         THEN LET s == Started(ftree, "flow", pkts[pi], pi) IN
              /\ ftree' = s.t
              /\ ins' = s.ins
              /\ phase' = "insert"
              /\ UNCHANGED wr
         ELSE /\ phase' = "write"
              /\ wr' = [tt |-> "flow", curr |-> ftree.root, prior |-> NULL,
                        parent |-> NULL, node_num |-> 1]
              /\ UNCHANGED <<ftree, ins>>
    /\ UNCHANGED <<pkts, port, pi, ptree, flow_cnt, timeorder, offset,
                   flowfile, portfile, preview, freed>>

\* One iteration of the descent loop (index.c 234-271): case -1/1 stores
\* the parent in the link it follows and moves down it, making the new
\* node when the link was NULL; case 0 has found the node.  Finding the
\* node is followed by the list handling (276-304).
descend_step ==
    /\ phase = "insert" /\ ins.stage = "descend"
    /\ LET tt  == ins.tt
           t   == TreeOf(tt)
           cur == ins.cur
           c   == Cmp(tt, ins.key, cur)
           sd  == Side(c)
           nxt == t[sd][cur]
           t1  == [t EXCEPT ![sd][cur] = ins.p]
       IN CASE c = 0 ->
                 /\ SetTree(tt, Listed(t, tt, cur, ins.item, FALSE))
                 /\ ins' = [ins EXCEPT !.stage = "splay"]
            [] nxt = NULL ->
                 /\ SetTree(tt, Listed(WithNode(t1, ins.key), tt, ins.key, ins.item, TRUE))
                 /\ ins' = [ins EXCEPT !.p = cur, !.cur = ins.key, !.stage = "splay"]
            [] OTHER ->
                 /\ SetTree(tt, t1)
                 /\ ins' = [ins EXCEPT !.p = cur, !.cur = nxt]
    /\ UNCHANGED <<pkts, port, phase, pi, flow_cnt, timeorder, wr, offset,
                   flowfile, portfile, preview, freed>>

\* A zig-zig that forgets to hand the node's right subtree to the parent.
SplayRotateZigZigSlip(L, R, c, p, gp) ==
    CASE gp = NULL /\ L[p] = c ->                                 \* zig left
           [left |-> [L EXCEPT ![p] = R[c]], right |-> [R EXCEPT ![c] = p]]
      [] gp = NULL ->                                             \* zig right
           [left |-> [L EXCEPT ![c] = p], right |-> [R EXCEPT ![p] = L[c]]]
      [] L[gp] = p /\ L[p] = c ->                                 \* zig-zig
           [left |-> [L EXCEPT ![gp] = R[p]],
            right |-> [R EXCEPT ![p] = gp, ![c] = p]]
      [] R[gp] = p /\ R[p] = c ->                                 \* zag-zag
           [left |-> [L EXCEPT ![p] = gp, ![c] = p],
            right |-> [R EXCEPT ![gp] = L[p], ![p] = L[c]]]
      [] L[gp] = p /\ R[p] = c ->                                 \* zig-zag
           [left |-> [L EXCEPT ![gp] = R[c], ![c] = p],
            right |-> [R EXCEPT ![p] = L[c], ![c] = gp]]
      [] R[gp] = p /\ L[p] = c ->                                 \* zag-zig
           [left |-> [L EXCEPT ![p] = R[c], ![c] = gp],
            right |-> [R EXCEPT ![gp] = L[c], ![c] = p]]
      [] OTHER -> [left |-> L, right |-> R]          \* "Unreachable case"

\* One iteration of the splay loop (index.c 317-431).  ins.p is
\* next_parent_node.  The parent's reversed link is pointed back at the
\* node, which yields the grandparent; the grandparent's reversed link is
\* pointed back at the parent, which yields the next parent; then one of
\* zig, zig-zig, zag-zag, zig-zag, zag-zig rotates.
SplayRotate(L, R, c, p, gp) ==
    CASE gp = NULL /\ L[p] = c ->                                 \* zig left
           [left |-> [L EXCEPT ![p] = R[c]], right |-> [R EXCEPT ![c] = p]]
      [] gp = NULL ->                                             \* zig right
           [left |-> [L EXCEPT ![c] = p], right |-> [R EXCEPT ![p] = L[c]]]
      [] L[gp] = p /\ L[p] = c ->                                 \* zig-zig
           [left |-> [L EXCEPT ![gp] = R[p], ![p] = R[c]],
            right |-> [R EXCEPT ![p] = gp, ![c] = p]]
      [] R[gp] = p /\ R[p] = c ->                                 \* zag-zag
           [left |-> [L EXCEPT ![p] = gp, ![c] = p],
            right |-> [R EXCEPT ![gp] = L[p], ![p] = L[c]]]
      [] L[gp] = p /\ R[p] = c ->                                 \* zig-zag
           [left |-> [L EXCEPT ![gp] = R[c], ![c] = p],
            right |-> [R EXCEPT ![p] = L[c], ![c] = gp]]
      [] R[gp] = p /\ L[p] = c ->                                 \* zag-zig
           [left |-> [L EXCEPT ![p] = R[c], ![c] = gp],
            right |-> [R EXCEPT ![gp] = L[c], ![c] = p]]
      [] OTHER -> [left |-> L, right |-> R]          \* "Unreachable case"

\* A splay step that leaves next_parent_node alone when there is no
\* grandparent.
NextParentKept(t1, tt, p, gp) ==
    IF gp = NULL THEN p ELSE t1[Side(Cmp(tt, p, gp))][gp]

\* The next parent (index.c 340-352): the grandparent's link towards the
\* parent holds the great-grandparent; with no grandparent there is none.
NextParent(t1, tt, p, gp) ==
    IF gp = NULL THEN NULL ELSE t1[Side(Cmp(tt, p, gp))][gp]

splay_step ==
    /\ phase = "insert" /\ ins.stage = "splay" /\ ins.p # NULL
    /\ LET tt == ins.tt
           t  == TreeOf(tt)
           c  == ins.cur
           p  == ins.p
           s1 == Side(Cmp(tt, c, p))
           gp == t[s1][p]
           t1 == [t EXCEPT ![s1][p] = c]
           s2 == Side(Cmp(tt, p, gp))
           np == NextParent(t1, tt, p, gp)
           t2 == IF gp = NULL THEN t1 ELSE [t1 EXCEPT ![s2][gp] = p]
           r  == SplayRotate(t2.left, t2.right, c, p, gp)
       IN /\ SetTree(tt, [t2 EXCEPT !.left = r.left, !.right = r.right])
          /\ ins' = [ins EXCEPT !.p = np]
    /\ UNCHANGED <<pkts, port, phase, pi, flow_cnt, timeorder, wr, offset,
                   flowfile, portfile, preview, freed>>

\* index_bucket treating every packet as the first of a new flow.
NewFlowAlways(t, tt, f) == tt = "flow"

\* index_bucket's new-flow test (index.c 114): the flow node's packet list
\* is empty (ll.pkts.last == NULL) only right after the node was made.
NewFlow(t, tt, f) == tt = "flow" /\ t.list[f] = <<>>

\* splay_tr_insert returns the splayed node and index_bucket stores it as
\* the root.  For the flow tree, a node whose packet list is still empty
\* (ll.pkts.last == NULL) is a new flow: it is counted, appended to the
\* time-order list and inserted into the port tree (index.c 107-171);
\* otherwise, as after the port insertion, the next packet follows.
insert_return ==
    /\ phase = "insert"
    /\ ins.stage = "return" \/ (ins.stage = "splay" /\ ins.p = NULL)
    /\ LET tt  == ins.tt
           t   == [TreeOf(tt) EXCEPT !.root = ins.cur]
           f   == ins.cur
           new == NewFlow(t, tt, f)
           s   == Started(ptree, "port", port[f], f)
       IN IF new
            THEN /\ ftree' = t
                 /\ ptree' = s.t
                 /\ ins' = s.ins
                 /\ flow_cnt' = flow_cnt + 1
                 /\ timeorder' = Append(timeorder, f)
                 /\ UNCHANGED <<phase, pi>>
            ELSE /\ SetTree(tt, t)
                 /\ phase' = "index"
                 /\ pi' = pi + 1
                 /\ UNCHANGED <<ins, flow_cnt, timeorder>>
    /\ UNCHANGED <<pkts, port, wr, offset, flowfile, portfile, preview, freed>>

\* A merge that takes the larger offset first.
RECURSIVE merge_flow_lists_desc(_, _, _)
merge_flow_lists_desc(h1, h2, o) ==
    CASE h1 = <<>> -> h2
      [] h2 = <<>> -> h1
      [] o[h1[1]] > o[h2[1]] -> <<h1[1]>> \o merge_flow_lists_desc(Tail(h1), h2, o)
      [] OTHER -> <<h2[1]>> \o merge_flow_lists_desc(h1, Tail(h2), o)

\* merge_flow_lists(h1, h2): merge by flow_index_offset, least first; on a
\* tie the head of h2 goes first.
RECURSIVE merge_flow_lists(_, _, _)
merge_flow_lists(h1, h2, o) ==
    CASE h1 = <<>> -> h2
      [] h2 = <<>> -> h1
      [] o[h1[1]] < o[h2[1]] -> <<h1[1]>> \o merge_flow_lists(Tail(h1), h2, o)
      [] OTHER -> <<h2[1]>> \o merge_flow_lists(h1, Tail(h2), o)

\* The inner loop of merge_sort_offsets: a list of order `order` is merged
\* with the stored list of that order, and carried up, until a free slot.
RECURSIVE Carry(_, _, _, _)
Carry(ol, cur, order, o) ==
    IF ol[order] = <<>> THEN [ol EXCEPT ![order] = cur]
    ELSE Carry([ol EXCEPT ![order] = <<>>],
               merge_flow_lists(ol[order], cur, o), order + 1, o)

\* The final loop of merge_sort_offsets: the stored lists, from the lowest
\* order up, each merged into the list collected so far.
RECURSIVE MergeOrders(_, _, _, _)
MergeOrders(ol, cur, order, o) ==
    IF order >= MaxOrder THEN cur
    ELSE MergeOrders(ol, IF ol[order] = <<>> THEN cur
                         ELSE IF cur = <<>> THEN ol[order]
                         ELSE merge_flow_lists(ol[order], cur, o),
                     order + 1, o)

\* merge_sort_offsets (index.c 584-651): each list node enters as a list of
\* order 0 and is carried into order_lists, then the stored lists are
\* merged.  (order_lists has MAX_ORDER slots; MaxOrder is large enough
\* that the carry never runs off it.)
merge_sort_offsets(l, o) ==
    LET ol == FoldLeft(LAMBDA acc, x : Carry(acc, <<x>>, 0, o),
                       [k \in 0..MaxOrder - 1 |-> <<>>], l)
    IN MergeOrders(ol, <<>>, 0, o)

ASSUME Shifts(MaxPkts) <= MaxOrder

\* write_flow (output.c 164-248): the flow's offset is the current end of
\* the flow index, and its record is appended there.
write_flow(n) ==
    /\ offset' = [offset EXCEPT ![n] = Len(flowfile)]
    /\ flowfile' = Append(flowfile, n)
    /\ UNCHANGED <<portfile, preview, phase>>

\* idx_write_node (output.c 613-702): the node's flows sorted by offset,
\* one <<key, offset>> record each, and the key added to the preview list
\* for each record whose tree position (g_args.node_num) is no deeper than
\* the preview depth.  A position outside the tree (node_depth 0) fails
\* the write with OB_TREE_ERR.
idx_write_node(n, num) ==
    LET fl  == merge_sort_offsets(ptree.list[n], offset)
        nums == [j \in 1..Len(fl) |-> num + j - 1]
        pd  == preview_depth(flow_cnt)
    IN IF \E j \in 1..Len(fl) : node_depth(nums[j], flow_cnt) = 0
         THEN /\ phase' = "failed"
              /\ UNCHANGED <<portfile, preview>>
         ELSE /\ portfile' = portfile \o [j \in 1..Len(fl) |-> <<n, offset[fl[j]]>>]
              /\ preview' = preview \o
                   [j \in 1..Len(SelectSeq(nums, LAMBDA m : node_depth(m, flow_cnt) <= pd))
                      |-> n]
              /\ UNCHANGED phase

\* A walk that frees the nodes of the flow index too.
AscentFreeAll(tt, n) == {<<tt, n>>}

\* What write_index frees when it ascends out of node n (output.c 487-489,
\* 500-502): sub-index nodes, never the flow nodes the later indexes
\* still read (output_bucket frees those at the end).
AscentFree(tt, n) == IF tt = "flow" THEN {} ELSE {<<tt, n>>}

\* One iteration of write_index's traversal loop (output.c 466-526).  The
\* left link of each node on the way down is pointed at its parent; a
\* port tree node is freed once the walk ascends out of it.
write_step ==
    /\ phase = "write" /\ wr.curr # NULL
    /\ LET tt   == wr.tt
           t    == TreeOf(tt)
           c    == wr.curr
           free == AscentFree(tt, wr.prior)
           recs == IF tt = "port" THEN Len(ptree.list[c]) ELSE 0
       IN CASE wr.prior = NULL /\ t.left[c] # NULL ->                 \* case 1
                 /\ SetTree(tt, [t EXCEPT !.left[c] = wr.parent])
                 /\ wr' = [wr EXCEPT !.parent = c, !.curr = t.left[c]]
                 /\ UNCHANGED <<freed, offset, flowfile, portfile, preview, phase>>
            [] wr.prior # NULL /\ wr.prior = t.right[c] ->            \* case 6
                 /\ freed' = freed \union free
                 /\ wr' = [wr EXCEPT !.prior = c, !.curr = t.left[c]]
                 /\ UNCHANGED <<ftree, ptree, offset, flowfile, portfile, preview, phase>>
            [] OTHER ->                                               \* cases 2-5
                 LET t1 == IF wr.prior = NULL THEN [t EXCEPT !.left[c] = wr.parent]
                           ELSE t
                 IN /\ SetTree(tt, t1)
                    /\ freed' = IF wr.prior = NULL THEN freed ELSE freed \union free
                    /\ IF tt = "flow" THEN write_flow(c)
                       ELSE /\ idx_write_node(c, wr.node_num)
                            /\ UNCHANGED <<offset, flowfile>>
                    /\ wr' = IF t1.right[c] # NULL
                               THEN [wr EXCEPT !.parent = c, !.prior = NULL,
                                               !.curr = t1.right[c],
                                               !.node_num = @ + recs]
                               ELSE [wr EXCEPT !.prior = c, !.curr = t1.left[c],
                                               !.node_num = @ + recs]
    /\ UNCHANGED <<pkts, port, pi, ins, flow_cnt, timeorder>>

\* The end of write_index (output.c 528-576): the last node is freed, and
\* the header gets the preview cut to what fits after it in the first disk
\* block.  output_bucket writes the flow index first, then the port index.
write_end ==
    /\ phase = "write" /\ wr.curr = NULL
    /\ freed' = IF wr.prior # NULL THEN freed \union AscentFree(wr.tt, wr.prior)
                ELSE freed
    /\ IF wr.tt = "flow"
         THEN /\ wr' = [tt |-> "port", curr |-> ptree.root, prior |-> NULL,
                        parent |-> NULL, node_num |-> 1]
              /\ UNCHANGED <<phase, preview>>
         ELSE LET cap == (DiskBlock - HdrSize) \div KeySize IN
              /\ preview' = SubSeq(preview, 1, IF cap < Len(preview) THEN cap
                                               ELSE Len(preview))
              /\ phase' = "done"
              /\ UNCHANGED wr
    /\ UNCHANGED <<pkts, port, pi, ftree, ptree, ins, flow_cnt, timeorder, offset,
                   flowfile, portfile>>

Next == \/ index_packet
        \/ descend_step
        \/ splay_step
        \/ insert_return
        \/ write_step
        \/ write_end

\* The indexer and writer threads are never starved of the CPU.
Spec == Init /\ [][Next]_vars /\ WF_vars(Next)

-----------------------------------------------------------------------------

TypeOK ==
    /\ phase \in {"index", "insert", "write", "done", "failed"}
    /\ pi \in 1..MaxPkts + 1
    /\ ftree.nodes \subseteq Flows /\ ptree.nodes \subseteq Keys
    /\ ftree.root \in ftree.nodes \union {NULL}
    /\ ptree.root \in ptree.nodes \union {NULL}
    /\ flow_cnt \in 0..Cardinality(Flows)
    /\ offset \in [Flows -> 0..MaxPkts \union {BadOffset}]
    /\ freed \subseteq {"port"} \X Keys

\* The in-order walk of the tree below n; fuel stops it on a cyclic link.
RECURSIVE InOrder(_, _, _)
InOrder(t, n, fuel) ==
    IF n = NULL \/ fuel = 0 THEN <<>>
    ELSE InOrder(t, t.left[n], fuel - 1) \o <<n>> \o InOrder(t, t.right[n], fuel - 1)

\* The links of t form a binary search tree over exactly its nodes.
IsSearchTree(t, tt) ==
    LET s == InOrder(t, t.root, Cardinality(t.nodes) + 1)
    IN /\ Len(s) = Cardinality(t.nodes)
       /\ ToSet(s) = t.nodes
       /\ IsSorted(s, LAMBDA a, b : Cmp(tt, a, b) < 0)

\* The flows of the first i - 1 packets, in order of their first packet.
FirstSeen(i) ==
    LET firsts == SelectSeq([j \in 1..i - 1 |-> j],
                            LAMBDA j : \A k \in 1..j - 1 : pkts[k] # pkts[j])
    IN [j \in 1..Len(firsts) |-> pkts[firsts[j]]]

\* Between two packets, index_bucket's state holds exactly the packets so
\* far: the flow tree and the port tree are search trees over their flows
\* and ports, splayed so that the last flow (and, for a new flow, its port)
\* is the root; each flow node lists its later packets in arrival order;
\* each port node lists its flows in time order; the time-order list has
\* each flow once and flow_cnt counts it.  Breaking it takes a pointer
\* slip in one of the splay rotations, or the ll.pkts.last new-flow test
\* going wrong, on some order of packets.
IndexConsistent ==
    phase = "index" =>
        LET seen == FirstSeen(pi) IN
        /\ IsSearchTree(ftree, "flow") /\ IsSearchTree(ptree, "port")
        /\ ftree.nodes = ToSet(seen)
        /\ ptree.nodes = {port[f] : f \in ToSet(seen)}
        /\ pi > 1 => ftree.root = pkts[pi - 1]
                     /\ ptree.root = port[seen[Len(seen)]]
        /\ \A f \in ftree.nodes :
             ftree.list[f] = Tail(SelectSeq([j \in 1..pi - 1 |-> j],
                                            LAMBDA j : pkts[j] = f))
        /\ \A k \in ptree.nodes : ptree.list[k] = SelectSeq(seen, LAMBDA f : port[f] = k)
        /\ timeorder = seen
        /\ flow_cnt = Len(seen)

\* (key, offset) order of sub-index records.
RecLess(a, b) == a[1] < b[1] \/ (a[1] = b[1] /\ a[2] < b[2])

\* When output_bucket has written the indexes, the flow index holds every
\* flow once in 5-tuple order, each flow's flow_index_offset is its place
\* there, and the port index is exactly the (port, offset) records sorted
\* by key and then offset, with the preview the search expects of such a
\* file (SubIndexLayout's Preview): the file is what search_subindex
\* assumes.  It needs the flow tree written before the port tree, the
\* traversal to visit each node once in order, and merge_sort_offsets to
\* sort flows that arrived out of offset order.
WrittenIndexSearchable ==
    phase \in {"done", "failed"} =>
        /\ phase = "done"
        /\ IsSorted(flowfile, LAMBDA a, b : Cmp("flow", a, b) < 0)
        /\ ToSet(flowfile) = ftree.nodes
        /\ \A j \in 1..Len(flowfile) : offset[flowfile[j]] = j - 1
        /\ portfile = SetToSortSeq({<<port[f], offset[f]>> : f \in ftree.nodes}, RecLess)
        /\ preview = Preview([j \in 1..Len(portfile) |-> portfile[j][1]])

\* write_index frees each port-tree node once the walk has left it, and
\* never touches a freed node: the nodes the walk holds (curr, its parent,
\* the node it ascended from) are live, the flow nodes whose offsets
\* idx_write_node reads are live, and when the writes are done every port
\* node has been freed.
TraversalMemorySafe ==
    /\ phase = "write" =>
           /\ {<<wr.tt, n>> : n \in {wr.curr, wr.parent, wr.prior} \ {NULL}} \cap freed = {}
           /\ wr.tt = "port" => \A f \in ftree.nodes : <<"flow", f>> \notin freed
    /\ phase = "done" => freed = {"port"} \X ptree.nodes

\* Indexing and writing a bucket chain ends: neither the splay loop nor
\* the pointer-reversing traversal can go round a cycle of links.
IndexingTerminates == <>(phase \in {"done", "failed"})
=============================================================================
