------------------------------- MODULE Search -------------------------------
(***************************************************************************)
(* The search driver of search/search.c: main starts thread_count - 1      *)
(* threads and runs run_search itself; every run_search pops index ids,    *)
(* first from the PARTIAL queue and then from the FULL queue, and for each *)
(* index makes the result files that are missing, from the last stage      *)
(* back (pcap, flows, OR, the ANDs, the sub-index searches), aborting the  *)
(* whole search when a stage fails.                                        *)
(*                                                                         *)
(* A result file is NoFile or its content.  The sub-index, AND, OR and     *)
(* flows results are ordered sets, committed by a rename; ResultFile.tla   *)
(* models that protocol, so here a result appears at once.  The pcap is    *)
(* written by pcap_fetch straight into its final name: it is a record      *)
(* with done = FALSE from the open until the last packet is written.       *)
(* The content of a pcap is its packets, <<flow offset, packet number>>.   *)
(*                                                                         *)
(* Every index holds the same matches, hits[s] for sub-index search s.     *)
(* Files from an earlier search with the same descriptor may exist.        *)
(***************************************************************************)
EXTENDS Packets, Descriptor, FiniteSets

CONSTANTS
    Threads,     \* the search threads; Main is the one main runs itself
    Main,
    Descrs,      \* the search description files main may be given
    Off,         \* the flow offsets the sub-index searches can return
    Flow,        \* the FLOW index record at each offset
    MaxFaults,   \* read and write errors in the middle of a result
    NoFile,
    \* What parse_search makes of the descriptions (the assumption below
    \* ties each to ParseSearch): partial_index_queue and index_queue in
    \* order, subindex_search_count, the operands of each AND, and the
    \* start_ts, end_ts and proto of each description main accepts.
    PartialIdx, FullIdx, NSub, AndOps, FilterTable

\* and_ops[a] as reconcile_subsearches leaves it: the AND's operands with
\* sub-index searches numbered from 1.
AndOpsOf(st) ==
    [a \in DOMAIN st.ands |->
       [j \in DOMAIN st.ands[a] |->
          [sub |-> st.ands[a][j].id + 1, inverted |-> st.ands[a][j].inverted]]]
\* search->start_ts, end_ts and proto.
FilterOf(st) == [start |-> st.start, end |-> st.end, proto |-> st.proto]

\* The descriptions parse_search and reconcile_subsearches accept are those
\* FilterTable is given for; the others end main with EINVAL before a
\* thread starts.  Those accepted differ only in START, END and PROTO.
ASSUME Main \in Threads /\ MaxFaults \in Nat
ASSUME /\ DOMAIN FilterTable = {d \in Descrs : ~ParseSearch(d).err}
       /\ DOMAIN FilterTable # {}
       /\ \A d \in DOMAIN FilterTable :
            LET st == ParseSearch(d) IN
            /\ st.partial = PartialIdx /\ st.full = FullIdx /\ st.subs = NSub
            /\ AndOpsOf(st) = AndOps /\ FilterOf(st) = FilterTable[d]

Accepted == DOMAIN FilterTable
Filters == {FilterTable[d] : d \in Accepted}

Idx == ToSet(PartialIdx) \cup ToSet(FullIdx)
Subs == 1 .. NSub
Ands == DOMAIN AndOps
\* The partial_result_name and full_result_name of the .flows and .pcap.
Names == {"partial", "full"}

VARIABLES
    pc,        \* where each thread is in run_search
    partial,   \* is_partial of each thread
    cur,       \* the index id each thread works on
    k,         \* s_id or and_id of the thread's current loop
    pq, fq,    \* partial_index_queue and index_queue
    abort,     \* the search->abort event
    hits,      \* what each sub-index search matches in the index files
    fetch,     \* search->fetch_pcap
    descr,     \* the search description main was given
    subF, andF, orF, flowsF, pcapF,  \* the result files of each index
    faults     \* read and write errors so far

vars == <<pc, partial, cur, k, pq, fq, abort, hits, fetch, descr,
          subF, andF, orF, flowsF, pcapF, faults>>
files == <<subF, andF, orF, flowsF, pcapF>>

\* search->start_ts, end_ts and proto.
filter == FilterTable[descr]

Name(t) == IF partial[t] THEN "partial" ELSE "full"

\* What the stages compute from the files they read.  Every result is an
\* ascending sequence of offsets, so the operations are tabulated once over
\* all of them (TLC evaluates a constant definition once).
AllResults == {Sorted(S) : S \in SUBSET Off}
AndTable ==
    [a \in Ands |->
       [in \in [DOMAIN AndOps[a] -> AllResults] |->
          AndResults([j \in DOMAIN AndOps[a] |->
                        [set |-> in[j], inverted |-> AndOps[a][j].inverted]])]]
OrTable == [in \in [Ands -> AllResults] |-> OrResults(in)]
FlowTable ==
    [f \in Filters |->
       [or \in AllResults |-> FlowFetch(or, Flow, f.start, f.end, f.proto)]]

SubResult(h, s) == Sorted(h[s])
AndResult(sf, i, a) ==
    AndTable[a][[j \in DOMAIN AndOps[a] |-> sf[i][AndOps[a][j].sub]]]
OrResult(af, i) == OrTable[[a \in Ands |-> af[i][a]]]
FlowsResult(f, or) == FlowTable[f][or]

\* The results an earlier search of the same descriptor computed for an
\* index; Init lets it have finished the first n[i] stages of each index
\* of the FULL line (the PARTIAL indexes start without results, a bound on
\* the number of initial states).
Earlier(h, f) ==
    LET sf == [j \in {0} |-> [s \in Subs |-> SubResult(h, s)]]
        af == [j \in {0} |-> [a \in Ands |-> AndResult(sf, 0, a)]]
        or == OrResult(af, 0)
    IN [sub |-> sf[0], and |-> af[0], or |-> or, flows |-> FlowsResult(f, or)]

\* The result name an index id is searched under.
ListName(i) == IF i \in ToSet(PartialIdx) THEN "partial" ELSE "full"

Init ==
    /\ hits \in [Subs -> SUBSET Off]
    /\ fetch \in BOOLEAN
    /\ descr \in Accepted
    /\ LET e == Earlier(hits, FilterTable[descr]) IN
       \E n \in [Idx -> 0 .. 5] :
         /\ \A i \in ToSet(PartialIdx) : n[i] = 0
         /\ subF = [i \in Idx |-> [s \in Subs |->
                                    IF n[i] >= 1 THEN e.sub[s] ELSE NoFile]]
         /\ andF = [i \in Idx |-> [a \in Ands |->
                                    IF n[i] >= 2 THEN e.and[a] ELSE NoFile]]
         /\ orF = [i \in Idx |-> IF n[i] >= 3 THEN e.or ELSE NoFile]
         /\ flowsF = [i \in Idx |-> [m \in Names |->
                        IF n[i] >= 4 /\ m = ListName(i) THEN e.flows
                        ELSE NoFile]]
         /\ pcapF = [i \in Idx |-> [m \in Names |->
                        IF n[i] >= 5 /\ m = ListName(i)
                        THEN [done |-> TRUE, val |-> PcapFetch(e.flows, Flow)]
                        ELSE NoFile]]
    /\ pc = [t \in Threads |-> "loop"]
    /\ partial = [t \in Threads |-> TRUE]
    /\ cur = [t \in Threads |-> 0]
    /\ k = [t \in Threads |-> 1]
    /\ pq = PartialIdx /\ fq = FullIdx
    /\ abort = FALSE
    /\ faults = 0

Goto(t, s) == pc' = [pc EXCEPT ![t] = s]

\* Mutant of Advance: the loop runs one iteration past last.
AdvancePastLast(t, last, s) ==
    IF k[t] > last THEN Goto(t, s) /\ k' = [k EXCEPT ![t] = 1]
    ELSE UNCHANGED pc /\ k' = [k EXCEPT ![t] = @ + 1]

\* The end of a for loop over 1..last: the next iteration or stage s.
Advance(t, last, s) ==
    IF k[t] = last THEN Goto(t, s) /\ k' = [k EXCEPT ![t] = 1]
    ELSE UNCHANGED pc /\ k' = [k EXCEPT ![t] = @ + 1]

\* The results a stage may read of the sets sf[i][c] for c in cs (of the
\* set of[i]): all of them or, when ord_set_peek_ turns a read error into
\* OSET_EMPTY, one of them cut short.
Reads(sf, i, cs) ==
    {sf} \cup
    (IF faults < MaxFaults
     THEN UNION {{[sf EXCEPT ![i][c] = SubSeq(sf[i][c], 1, n)] :
                    n \in 0 .. Len(sf[i][c]) - 1} : c \in cs}
     ELSE {})
ReadsCut(of, i) ==
    IF faults < MaxFaults
    THEN {[of EXCEPT ![i] = SubSeq(of[i], 1, n)] : n \in 0 .. Len(of[i]) - 1}
    ELSE {}
Faulted(sf, read) == faults' = IF read = sf THEN faults ELSE faults + 1

\* A stage returned an error: event_set(search->abort) and return NULL.
Fail(t) == abort' = TRUE /\ Goto(t, "exit")

-----------------------------------------------------------------------------
(* run_search, one step per check or operation.                          *)

\* while (event_check(search->abort) != 1)
CheckAbort(t) ==
    /\ pc[t] = "loop"
    /\ Goto(t, IF abort THEN "exit" ELSE "pop")
    /\ UNCHANGED <<partial, cur, k, pq, fq, abort, hits, fetch, descr, files, faults>>

\* queue_pop(curr_queue, Q_NOWAIT) returning an index id.
Pop(t) ==
    /\ pc[t] = "pop"
    /\ IF partial[t] THEN pq # <<>> ELSE fq # <<>>
    /\ cur' = [cur EXCEPT ![t] = IF partial[t] THEN Head(pq) ELSE Head(fq)]
    /\ pq' = IF partial[t] THEN Tail(pq) ELSE pq
    /\ fq' = IF partial[t] THEN fq ELSE Tail(fq)
    /\ Goto(t, "probe")
    /\ UNCHANGED <<partial, k, abort, hits, fetch, descr, files, faults>>

\* Mutant of PopEmpty: break out of the loop on the partial queue too.
PopEmptyBreak(t) ==
    /\ pc[t] = "pop"
    /\ IF partial[t] THEN pq = <<>> ELSE fq = <<>>
    /\ partial' = [partial EXCEPT ![t] = FALSE]
    /\ Goto(t, "exit")
    /\ UNCHANGED <<cur, k, pq, fq, abort, hits, fetch, descr, files, faults>>

\* Mutant of PopEmpty: on the full queue, continue instead of break.
PopEmptySpin(t) ==
    /\ pc[t] = "pop"
    /\ IF partial[t] THEN pq = <<>> ELSE fq = <<>>
    /\ partial' = [partial EXCEPT ![t] = FALSE]
    /\ Goto(t, "loop")
    /\ UNCHANGED <<cur, k, pq, fq, abort, hits, fetch, descr, files, faults>>

\* queue_pop returned NULL: switch from the partial queue to the full one
\* and continue, or, on the full queue, break.
PopEmpty(t) ==
    /\ pc[t] = "pop"
    /\ IF partial[t] THEN pq = <<>> ELSE fq = <<>>
    /\ partial' = [partial EXCEPT ![t] = FALSE]
    /\ Goto(t, IF partial[t] THEN "loop" ELSE "exit")
    /\ UNCHANGED <<cur, k, pq, fq, abort, hits, fetch, descr, files, faults>>

\* The access() checks from the pcap back to the ANDs: the first stage
\* whose result is missing.
Probe(t) ==
    /\ pc[t] = "probe"
    /\ LET i == cur[t]
           nm == Name(t)
       IN Goto(t, IF pcapF[i][nm] # NoFile THEN "loop"
                  ELSE IF flowsF[i][nm] # NoFile
                       THEN IF fetch THEN "pcap_open" ELSE "loop"
                  ELSE IF orF[i] # NoFile THEN "flow_fetch"
                  ELSE IF \A a \in Ands : andF[i][a] # NoFile THEN "or"
                  ELSE "sub")
    /\ UNCHANGED <<partial, cur, k, pq, fq, abort, hits, fetch, descr, files, faults>>

\* One iteration of the sub-index loop: search_subindex if the result is
\* missing; on failure event_set(abort) and return.
SubSearch(t) ==
    /\ pc[t] = "sub"
    /\ LET i == cur[t]
           s == k[t]
       IN IF subF[i][s] # NoFile
          THEN Advance(t, NSub, "and") /\ UNCHANGED <<subF, abort>>
          ELSE \/ /\ subF' = [subF EXCEPT ![i][s] = SubResult(hits, s)]
                  /\ Advance(t, NSub, "and")
                  /\ UNCHANGED abort
               \/ Fail(t) /\ UNCHANGED <<subF, k>>
    /\ UNCHANGED <<partial, cur, pq, fq, hits, fetch, descr, andF, orF, flowsF,
                   pcapF, faults>>

\* One iteration of the AND loop: and_results if the result is missing,
\* which may fail (an input that cannot be opened).
AndStep(t) ==
    /\ pc[t] = "and"
    /\ LET i == cur[t]
           a == k[t]
       IN \/ /\ andF[i][a] # NoFile
             /\ Advance(t, Len(AndOps), "or")
             /\ UNCHANGED <<andF, faults, abort>>
          \/ /\ andF[i][a] = NoFile
             /\ \E sf \in Reads(subF, i, {op.sub : op \in ToSet(AndOps[a])}) :
                  /\ andF' = [andF EXCEPT ![i][a] = AndResult(sf, i, a)]
                  /\ Faulted(subF, sf)
             /\ Advance(t, Len(AndOps), "or")
             /\ UNCHANGED abort
          \/ /\ andF[i][a] = NoFile
             /\ Fail(t)
             /\ UNCHANGED <<andF, faults, k>>
    /\ UNCHANGED <<partial, cur, pq, fq, hits, fetch, descr, subF, orF, flowsF,
                   pcapF>>

\* or_results over the AND results, or its failure.
OrStep(t) ==
    /\ pc[t] = "or"
    /\ \/ /\ \E af \in Reads(andF, cur[t], Ands) :
             /\ orF' = [orF EXCEPT ![cur[t]] = OrResult(af, cur[t])]
             /\ Faulted(andF, af)
          /\ Goto(t, "flow_fetch")
          /\ UNCHANGED abort
       \/ Fail(t) /\ UNCHANGED <<orF, faults>>
    /\ UNCHANGED <<partial, cur, k, pq, fq, hits, fetch, descr, subF, andF,
                   flowsF, pcapF>>

\* flow_fetch: the flows of the OR result that pass filter_flow, written
\* to the .flows result of the thread's result name, or its failure.
FlowFetchStep(t) ==
    /\ pc[t] = "flow_fetch"
    /\ LET i == cur[t] IN
       \/ /\ \E of \in {orF} \cup ReadsCut(orF, i) :
             /\ flowsF' = [flowsF EXCEPT ![i][Name(t)] = FlowsResult(filter, of[i])]
             /\ Faulted(orF, of)
          /\ Goto(t, IF fetch THEN "pcap_open" ELSE "loop")
          /\ UNCHANGED abort
       \/ Fail(t) /\ UNCHANGED <<flowsF, faults>>
    /\ UNCHANGED <<partial, cur, k, pq, fq, hits, fetch, descr, subF, andF,
                   orF, pcapF>>

\* pcap_fetch up to the file header: open(result_path, O_CREAT | O_RDWR)
\* creates the .pcap under its final name; before it, the flows set or the
\* FCAP file may fail to open and nothing is created.
PcapOpen(t) ==
    /\ pc[t] = "pcap_open"
    /\ \/ /\ pcapF' = [pcapF EXCEPT ![cur[t]][Name(t)] = [done |-> FALSE,
                                                         val |-> <<>>]]
          /\ Goto(t, "pcap_write")
          /\ UNCHANGED abort
       \/ Fail(t) /\ UNCHANGED pcapF
    /\ UNCHANGED <<partial, cur, k, pq, fq, hits, fetch, descr, subF, andF,
                   orF, flowsF, faults>>

\* The flow heap loop writing every packet, or a failed read or write
\* (fh_load, fh_write_packet) returning EFAULT: run_search sets abort
\* and returns, and the .pcap keeps what was written.
PcapWrite(t) ==
    /\ pc[t] = "pcap_write"
    /\ LET i == cur[t]
           nm == Name(t)
           out == PcapFetch(flowsF[i][nm], Flow)
       IN \/ /\ pcapF' = [pcapF EXCEPT ![i][nm] = [done |-> TRUE, val |-> out]]
             /\ Goto(t, "loop")
             /\ UNCHANGED <<abort, faults>>
          \/ /\ faults < MaxFaults
             /\ \E n \in 0 .. Len(out) - 1 :
                  pcapF' = [pcapF EXCEPT ![i][nm].val = SubSeq(out, 1, n)]
             /\ abort' = TRUE
             /\ faults' = faults + 1
             /\ Goto(t, "exit")
    /\ UNCHANGED <<partial, cur, k, pq, fq, hits, fetch, descr, subF, andF, orF,
                   flowsF>>

\* main, after its own run_search: pthread_join every other thread, then
\* cleanup_search and return 0.
Join ==
    /\ pc[Main] = "exit"
    /\ \A t \in Threads : pc[t] = "exit"
    /\ Goto(Main, "end")
    /\ UNCHANGED <<partial, cur, k, pq, fq, abort, hits, fetch, descr, files, faults>>

\* The process has exited.
Exited == pc[Main] = "end" /\ UNCHANGED vars

Step(t) ==
    \/ CheckAbort(t) \/ Pop(t) \/ PopEmpty(t) \/ Probe(t)
    \/ SubSearch(t) \/ AndStep(t) \/ OrStep(t) \/ FlowFetchStep(t)
    \/ PcapOpen(t) \/ PcapWrite(t)
    \/ (t = Main /\ Join)

Next == (\E t \in Threads : Step(t)) \/ Exited

\* A thread that has not returned from run_search, or main once every
\* thread has, can run: no step of run_search blocks (the pops are
\* Q_NOWAIT) and every stage has a step.  Every thread is an OS thread the
\* scheduler keeps running: the weak fairness of Step(t), with its
\* enabling condition written out as Runnable(t).
Runnable(t) ==
    \/ pc[t] \notin {"exit", "end"}
    \/ t = Main /\ pc[t] = "exit" /\ \A u \in Threads : pc[u] = "exit"

Spec == Init /\ [][Next]_vars
        /\ \A t \in Threads : <>[]Runnable(t) => []<><<Step(t)>>_vars

-----------------------------------------------------------------------------
Stages == {"loop", "pop", "probe", "sub", "and", "or", "flow_fetch",
           "pcap_open", "pcap_write", "exit", "end"}
\* A result file: missing, or an ascending sequence of offsets.
IsResult(f) == f = NoFile \/ (f \in Seq(Off) /\ IsSorted(f, <))

TypeOK ==
    /\ pc \in [Threads -> Stages]
    /\ partial \in [Threads -> BOOLEAN]
    /\ cur \in [Threads -> Idx \cup {0}]
    /\ k \in [Threads -> 1 .. Max({NSub, Len(AndOps)})]
    /\ abort \in BOOLEAN /\ fetch \in BOOLEAN /\ descr \in Accepted
    /\ hits \in [Subs -> SUBSET Off]
    /\ \A i \in Idx :
         /\ \A s \in Subs : IsResult(subF[i][s])
         /\ \A a \in Ands : IsResult(andF[i][a])
         /\ IsResult(orF[i])
         /\ \A nm \in Names :
              /\ IsResult(flowsF[i][nm])
              /\ \/ pcapF[i][nm] = NoFile
                 \/ /\ pcapF[i][nm].done \in BOOLEAN
                    /\ pcapF[i][nm].val \in Seq(Off \X Nat)
    /\ faults \in 0 .. MaxFaults

\* What the spec says each result holds (section 8, properties 5 and 6),
\* from the sub-index matches up; filter_flow as the code has it.
RefSub(s) == Sorted(hits[s])
RefAnd(a) == AndReference([j \in DOMAIN AndOps[a] |->
                             [set |-> RefSub(AndOps[a][j].sub),
                              inverted |-> AndOps[a][j].inverted]])
RefOr == OrReference([a \in Ands |-> RefAnd(a)])
RefFlows == FlowsResult(filter, RefOr)

\* "Search never returns partial results for a given result file" (spec
\* section 7): every sub-index, AND, OR, flows and pcap result that exists
\* holds what the set algebra, flow filter and packet fetch of section 8
\* say, except a pcap that pcap_fetch is still writing.
ResultsNeverPartial ==
    LET and == [a \in Ands |-> RefAnd(a)]
        flows == RefFlows
    IN
    \A i \in Idx :
      /\ \A s \in Subs : subF[i][s] \in {NoFile, RefSub(s)}
      /\ \A a \in Ands : andF[i][a] \in {NoFile, and[a]}
      /\ orF[i] \in {NoFile, OrReference(and)}
      /\ \A nm \in Names :
           /\ flowsF[i][nm] \in {NoFile, flows}
           /\ \/ pcapF[i][nm] = NoFile
              \/ pcapF[i][nm].done /\ IsPcapOf(pcapF[i][nm].val, flows, Flow)
              \/ \E t \in Threads : /\ pc[t] = "pcap_write"
                                    /\ cur[t] = i /\ Name(t) = nm

\* What the description's lines ask for (spec section 6.3): START
\* defaults to 0, END to no end and PROTO to any; a later line of a kind
\* replaces an earlier one.
HasLine(d, kind) == \E n \in DOMAIN d : d[n].kind = kind
LineVal(d, kind) == d[Max({n \in DOMAIN d : d[n].kind = kind})].val
SpecKeeps(fl, d, full) ==
    /\ full \/ ~HasLine(d, "START") \/ ~(fl.last_ts < LineVal(d, "START"))
    /\ full \/ ~HasLine(d, "END") \/ ~(fl.first_ts > LineVal(d, "END"))
    /\ ~HasLine(d, "PROTO") \/ LineVal(d, "PROTO") \in {0, fl.proto}

\* "discard if flow.last_ts < start or flow.first_ts > end or proto != 0
\* and flow.proto != proto" (spec 4.I), START, END and PROTO optional and
\* FULL intervals outside the time filter (spec 6.3): every .flows result
\* flow_fetch writes holds exactly the flows of the OR result the
\* description asks for.
FlowsAsDescribed ==
    \A i \in Idx :
      LET Keep(o) == SpecKeeps(Flow[o], descr, ListName(i) = "full")
      IN flowsF[i][ListName(i)] \in {NoFile, SelectSeq(RefOr, Keep)}

\* When main returns from a search that was not aborted, every index id of
\* the PARTIAL and FULL lines has its .flows result under the line's
\* name, and its .pcap if the pcap was asked for.
CompleteWhenClean ==
    pc[Main] = "end" /\ ~abort =>
      \A i \in Idx : /\ flowsF[i][ListName(i)] # NoFile
                     /\ fetch => pcapF[i][ListName(i)] # NoFile

\* Every search ends: all threads leave run_search and main returns.
SearchTerminates == <>(pc[Main] = "end")

====
