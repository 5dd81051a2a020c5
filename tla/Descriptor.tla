----------------------------- MODULE Descriptor -----------------------------
(***************************************************************************)
(* parse_search and reconcile_subsearches of search/search.c: the search   *)
(* description file, one directive per line, becomes the search_t that    *)
(* run_search works from.                                                  *)
(*                                                                         *)
(* A line is a record: kind is what the line's first token is taken for   *)
(* ("key" when kt_strtokeytype recognises a key type, "BAD" for none of    *)
(* the directives), ok is FALSE when a token the handler needs is missing *)
(* or does not parse (result name, keys, timestamp), val is a timestamp   *)
(* or protocol number, ops the operands of an AND ([id, inverted], the id *)
(* a 0-based sub-index search number) and idx the index ids of a PARTIAL  *)
(* or FULL line.  Result names, key values and the text are left out.     *)
(***************************************************************************)
EXTENDS Integers, Sequences

\* The search_t that calloc gives: no searches, no OR, timestamps and
\* protocol zero, empty queues.
EmptySearch ==
    [subs |-> 0, ands |-> <<>>, or |-> FALSE, start |-> 0, end |-> 0,
     proto |-> 0, partial |-> <<>>, full |-> <<>>, err |-> FALSE]

\* A handler's ERR(...); return NULL.
Err(st) == [st EXCEPT !.err = TRUE]

\* A sub-index search line (parse_subindex_search): numbered in order.
KeyLine(st, ln) == IF ln.ok THEN [st EXCEPT !.subs = @ + 1] ELSE Err(st)

\* parse_and_op: a result name and at least one operand.
AndLine(st, ln) ==
    IF ~ln.ok \/ ln.ops = <<>> THEN Err(st)
    ELSE [st EXCEPT !.ands = Append(@, ln.ops)]

\* The OR line: a second one, or one without a result name, is an error.
OrLine(st, ln) == IF st.or \/ ~ln.ok THEN Err(st) ELSE [st EXCEPT !.or = TRUE]

\* START and END: parse_timeval into start_ts or end_ts.
StartLine(st, ln) == IF ln.ok THEN [st EXCEPT !.start = ln.val] ELSE Err(st)
EndLine(st, ln) == IF ln.ok THEN [st EXCEPT !.end = ln.val] ELSE Err(st)

\* PROTO: a number up to 255.
ProtoLine(st, ln) ==
    IF ~ln.ok \/ ln.val > 255 THEN Err(st) ELSE [st EXCEPT !.proto = ln.val]

\* parse_indexes: the result name is replaced and the index ids pushed
\* onto the line's queue, after any a previous line of the kind pushed.
PartialLine(st, ln) ==
    IF ln.ok THEN [st EXCEPT !.partial = @ \o ln.idx] ELSE Err(st)
FullLine(st, ln) ==
    IF ln.ok THEN [st EXCEPT !.full = @ \o ln.idx] ELSE Err(st)

\* The handler of a line, in the order parse_search tries them.
Handle(st, ln) ==
    CASE ln.kind = "key"     -> KeyLine(st, ln)
      [] ln.kind = "AND"     -> AndLine(st, ln)
      [] ln.kind = "OR"      -> OrLine(st, ln)
      [] ln.kind = "START"   -> StartLine(st, ln)
      [] ln.kind = "END"     -> EndLine(st, ln)
      [] ln.kind = "PROTO"   -> ProtoLine(st, ln)
      [] ln.kind = "PARTIAL" -> PartialLine(st, ln)
      [] ln.kind = "FULL"    -> FullLine(st, ln)
      [] OTHER               -> Err(st)

\* The loop over the lines of the file, left at the first error.
RECURSIVE ParseLines(_, _, _)
ParseLines(st, d, n) ==
    IF st.err \/ n > Len(d) THEN st ELSE ParseLines(Handle(st, d[n]), d, n + 1)

\* reconcile_subsearches: every AND operand names a sub-index search.
Reconciled(st) ==
    \A a \in DOMAIN st.ands : \A j \in DOMAIN st.ands[a] : st.ands[a][j].id < st.subs

\* main: parse_search, then reconcile_subsearches; either failing ends the
\* program with EINVAL before any search thread starts.
ParseSearch(d) ==
    LET st == ParseLines(EmptySearch, d, 1)
    IN IF st.err \/ ~Reconciled(st) THEN Err(st) ELSE st

====
