---------------------------- MODULE MC_Search ----------------------------
EXTENDS Search, TLC

MC_Threads == {"t1", "t2"}

\* A line of a search description (Descriptor.tla).
Ln(kind, val) == [kind |-> kind, ok |-> TRUE, val |-> val, ops |-> <<>>, idx |-> <<>>]
Op(id, inv) == [id |-> id, inverted |-> inv]
AndLn(ops) == [Ln("AND", 0) EXCEPT !.ops = ops]
IdxLn(kind, idx) == [Ln(kind, 0) EXCEPT !.idx = idx]

\* Two sub-index searches; AND 1: search 0 but not search 1, named twice
\* (the union of the inverted sets); AND 2: searches 1 and 0; index 1 on
\* the PARTIAL line and index 2 on the FULL line.
Tree == << Ln("key", 0), Ln("key", 0),
           AndLn(<<Op(0, FALSE), Op(1, TRUE), Op(1, TRUE)>>),
           AndLn(<<Op(1, FALSE), Op(0, FALSE)>>), Ln("OR", 0) >>
Queues == << IdxLn("PARTIAL", <<1>>), IdxLn("FULL", <<2>>) >>

\* No PROTO, and a time range that keeps every flow; START 4, END 5 and
\* PROTO 6 (flow 1 ends before START, flow 2 after END, flow 3 is UDP);
\* and two that main rejects: an AND naming a third search, a second OR.
MC_Descrs ==
    { Tree \o << Ln("START", 0), Ln("END", 9) >> \o Queues,
      Tree \o << Ln("START", 4), Ln("END", 5), Ln("PROTO", 6) >> \o Queues,
      Tree \o << AndLn(<<Op(2, FALSE)>>) >> \o Queues,
      Tree \o << Ln("OR", 0) >> \o Queues }

\* A description without an END line.
MC_DescrsNoEnd == { Tree \o << Ln("START", 0) >> \o Queues }

\* The packet timestamps of each flow (last_ts is the last of them): flows
\* 1 and 2 are TCP, flow 3 UDP; flows 2 and 3 share a first timestamp.
MC_Flow ==
    LET rec(p, pr) == [pkts |-> p, first_ts |-> p[1], last_ts |-> p[Len(p)], proto |-> pr]
    IN <<rec(<<1, 3>>, 6), rec(<<2, 6>>, 6), rec(<<2, 4, 5>>, 17)>>

\* What parse_search makes of them (Search's assumption checks it).
MC_PartialIdx == <<1>>
MC_FullIdx == <<2>>
MC_AndOps ==
    << << [sub |-> 1, inverted |-> FALSE], [sub |-> 2, inverted |-> TRUE],
          [sub |-> 2, inverted |-> TRUE] >>,
       << [sub |-> 2, inverted |-> FALSE], [sub |-> 1, inverted |-> FALSE] >> >>
MC_FilterTable ==
    [d \in {Tree \o << Ln("START", 0), Ln("END", 9) >> \o Queues,
            Tree \o << Ln("START", 4), Ln("END", 5), Ln("PROTO", 6) >> \o Queues} |->
       IF Len(d) = 9 THEN [start |-> 0, end |-> 9, proto |-> 0]
       ELSE [start |-> 4, end |-> 5, proto |-> 6]]
MC_FilterTableNoEnd ==
    [d \in MC_DescrsNoEnd |-> [start |-> 0, end |-> 0, proto |-> 0]]

====
