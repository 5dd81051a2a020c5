----------------------------- MODULE ResultFile -----------------------------
(***************************************************************************)
(* The result-file protocol of search/ordered_set.c, as concurrent search  *)
(* processes use it for one result file of one index: each process runs   *)
(* search_subindex (subindex.c), which opens the result as an OSET_WRITE   *)
(* ordered set, pushes its offsets and cleans the set up, and then         *)
(* and_results (search_lib.c), which opens the same result as OSET_READ.   *)
(*                                                                         *)
(* The file system is the two names <path>.tmp and <path>, each naming an  *)
(* inode or nothing.  A writer's inode is named after the writer, so the   *)
(* inodes are the processes that created one.  The contents of an inode    *)
(* are the number of records written to it; every writer computes the     *)
(* same Items records.  An mtime is the pair <<inode, version>>, the       *)
(* version counting the writes, so that "the mtime did not change" is      *)
(* exact.  Time is not a number: Age(i) is the step after which           *)
(* OSET_TMP_STALE_TIMEOUT seconds have passed since the last write to the  *)
(* tmp inode i, and a poll timeout of the reader may come whenever it      *)
(* waits.                                                                  *)
(***************************************************************************)
EXTENDS Integers, FiniteSets

CONSTANTS Procs,    \* search processes working on the same result file
          Items,    \* records the sub-index search outputs
          BufCap,   \* OSET_BMAX: records the one-page write buffer holds
          NULL

ASSUME Items \in Nat /\ BufCap \in Nat \ {0} /\ NULL \notin Procs

\* The write versions an inode can reach: the creation, one dump per full
\* buffer, the final dump.
Versions == 1 .. (2 + Items \div BufCap)

WriterStates == {"w_path", "w_tmp", "w_unlink", "w_open", "w_push",
                 "w_rename"}
ReaderStates == {"r_open", "r_tmp", "r_watch", "r_check", "r_wait",
                 "r_reopen", "r_read"}
Ended == {"done", "error"}

VARIABLES
    pc,         \* where each process is in search_subindex / and_results
    tmp,        \* the inode named <path>.tmp, or NULL
    final,      \* the inode named <path>, or NULL
    created,    \* inodes created by open(tmp_path, O_CREAT | O_EXCL)
    moved,      \* inodes that a rename has moved (IN_MOVE_SELF fired)
    disk,       \* records written to each inode
    ver,        \* write version of each inode (its mtime)
    stale,      \* the inode's mtime is older than OSET_TMP_STALE_TIMEOUT
    buf,        \* oset->buffer_items of each writer
    pushed,     \* records the writer's search has pushed
    abandoned,  \* writers that returned an error with their tmp open
    watch,      \* the inode the reader's inotify watch is on, or NULL
    last,       \* the reader's last_stat_time, or NULL for {0,0}
    rd,         \* the inode the reader opened
    got         \* records the reader read

vars == <<pc, tmp, final, created, moved, disk, ver, stale, buf, pushed,
          abandoned, watch, last, rd, got>>
fsvars == <<tmp, final, created, moved, disk, ver, stale>>
readvars == <<watch, last, rd, got>>

Init ==
    /\ pc = [p \in Procs |-> "w_path"]
    /\ tmp = NULL /\ final = NULL
    /\ created = {} /\ moved = {}
    /\ disk = [i \in Procs |-> 0]
    /\ ver = [i \in Procs |-> 1]
    /\ stale = [i \in Procs |-> FALSE]
    /\ buf = [p \in Procs |-> 0]
    /\ pushed = [p \in Procs |-> 0]
    /\ abandoned = {}
    /\ watch = [p \in Procs |-> NULL]
    /\ last = [p \in Procs |-> NULL]
    /\ rd = [p \in Procs |-> NULL]
    /\ got = [p \in Procs |-> 0]

Goto(p, s) == pc' = [pc EXCEPT ![p] = s]

-----------------------------------------------------------------------------
(* ord_set_init in OSET_WRITE mode, one system call per step.             *)

\* access(path, F_OK) == 0: the result exists; EEXIST, which search_subindex
\* returns as success, and and_results then reads it.
w_path(p) ==
    /\ pc[p] = "w_path"
    /\ Goto(p, IF final # NULL THEN "r_open" ELSE "w_tmp")
    /\ UNCHANGED <<fsvars, buf, pushed, abandoned, readvars>>

\* access(tmp_path) and stat(): an old tmp file is to be unlinked.
w_tmp(p) ==
    /\ pc[p] = "w_tmp"
    /\ Goto(p, IF tmp # NULL /\ stale[tmp] THEN "w_unlink" ELSE "w_open")
    /\ UNCHANGED <<fsvars, buf, pushed, abandoned, readvars>>

\* unlink(tmp_path) removes whatever the name holds now.
w_unlink(p) ==
    /\ pc[p] = "w_unlink"
    /\ tmp' = NULL
    /\ Goto(p, "w_open")
    /\ UNCHANGED <<final, created, moved, disk, ver, stale, buf, pushed,
                   abandoned, readvars>>

\* open(tmp_path, O_RDWR | O_CREAT | O_EXCL); EEXIST means another process
\* is writing the result, which the caller takes as success.
w_open(p) ==
    /\ pc[p] = "w_open"
    /\ \/ /\ tmp # NULL
          /\ Goto(p, "r_open")
          /\ UNCHANGED fsvars
       \/ /\ tmp = NULL
          /\ tmp' = p
          /\ created' = created \union {p}
          /\ Goto(p, "w_push")
          /\ UNCHANGED <<final, moved, disk, ver, stale>>
    /\ UNCHANGED <<buf, pushed, abandoned, readvars>>

-----------------------------------------------------------------------------
(* The write side of an ordered set.                                      *)

\* o_set_dump_buffer: write() the buffered records to the writer's inode
\* (through its descriptor, whatever name the inode has now), which
\* updates the mtime; nothing is written from an empty buffer.
DumpBuffer(p) ==
    /\ disk' = [disk EXCEPT ![p] = @ + buf[p]]
    /\ ver' = IF buf[p] > 0 THEN [ver EXCEPT ![p] = @ + 1] ELSE ver
    /\ stale' = IF buf[p] > 0 THEN [stale EXCEPT ![p] = FALSE] ELSE stale

w_push_unbounded(p) ==
    /\ pc[p] = "w_push"
    /\ IF buf[p] = BufCap
          THEN DumpBuffer(p) /\ buf' = [buf EXCEPT ![p] = 1]
          ELSE buf' = [buf EXCEPT ![p] = @ + 1] /\ UNCHANGED <<disk, ver, stale>>
    /\ pushed' = [pushed EXCEPT ![p] = @ + 1]
    /\ UNCHANGED <<pc, tmp, final, created, moved, abandoned, readvars>>

\* ord_set_push_ of one output record of search_subindex: a full buffer is
\* dumped first.
w_push(p) ==
    /\ pc[p] = "w_push"
    /\ pushed[p] < Items
    /\ IF buf[p] = BufCap
          THEN DumpBuffer(p) /\ buf' = [buf EXCEPT ![p] = 1]
          ELSE buf' = [buf EXCEPT ![p] = @ + 1] /\ UNCHANGED <<disk, ver, stale>>
    /\ pushed' = [pushed EXCEPT ![p] = @ + 1]
    /\ UNCHANGED <<pc, tmp, final, created, moved, abandoned, readvars>>

\* search_subindex returns an error after opening its output set (a bad
\* header, a failed read, EIO from output_matches), or the process dies:
\* the set is never cleaned up and its tmp file stays where it is.
w_fail(p) ==
    /\ pc[p] = "w_push"
    /\ Goto(p, "error")
    /\ abandoned' = abandoned \union {p}
    /\ UNCHANGED <<fsvars, buf, pushed, readvars>>

\* ord_set_cleanup after the search output everything: dump the buffer and
\* close the file.
ord_set_cleanup_nodump(p) ==
    /\ pc[p] = "w_push"
    /\ pushed[p] = Items
    /\ buf' = [buf EXCEPT ![p] = 0]
    /\ Goto(p, "w_rename")
    /\ UNCHANGED <<fsvars, pushed, abandoned, readvars>>

ord_set_cleanup(p) ==
    /\ pc[p] = "w_push"
    /\ pushed[p] = Items
    /\ DumpBuffer(p)
    /\ buf' = [buf EXCEPT ![p] = 0]
    /\ Goto(p, "w_rename")
    /\ UNCHANGED <<tmp, final, created, moved, pushed, abandoned, readvars>>

\* rename(tmp_path, path), its result ignored: it moves whatever inode the
\* tmp name holds now, replacing the final name; search_subindex returns 0
\* and and_results opens the result.
w_rename(p) ==
    /\ pc[p] = "w_rename"
    /\ IF tmp # NULL
          THEN /\ final' = tmp /\ tmp' = NULL
               /\ moved' = moved \union {tmp}
          ELSE UNCHANGED <<tmp, final, moved>>
    /\ Goto(p, "r_open")
    /\ UNCHANGED <<created, disk, ver, stale, buf, pushed, abandoned, readvars>>

-----------------------------------------------------------------------------
(* ord_set_init in OSET_READ mode, as and_results opens its input.         *)

\* open(path, O_RDONLY).
r_open(p) ==
    /\ pc[p] = "r_open"
    /\ IF final # NULL
          THEN rd' = [rd EXCEPT ![p] = final] /\ Goto(p, "r_read")
          ELSE UNCHANGED rd /\ Goto(p, "r_tmp")
    /\ UNCHANGED <<fsvars, buf, pushed, abandoned, watch, last, got>>

\* access(tmp_path): without a tmp file the result is not expected; EINVAL.
r_tmp(p) ==
    /\ pc[p] = "r_tmp"
    /\ Goto(p, IF tmp # NULL THEN "r_watch" ELSE "error")
    /\ UNCHANGED <<fsvars, buf, pushed, abandoned, readvars>>

\* inotify_add_watch(tmp_path, IN_MOVE_SELF) watches the inode the name holds
\* now; its failure (the name is gone) is not checked.
r_watch(p) ==
    /\ pc[p] = "r_watch"
    /\ watch' = [watch EXCEPT ![p] = tmp]
    /\ Goto(p, "r_check")
    /\ UNCHANGED <<fsvars, buf, pushed, abandoned, last, rd, got>>

\* access(path) again before waiting; last_stat_time starts at {0,0}.
r_check(p) ==
    /\ pc[p] = "r_check"
    /\ Goto(p, IF final # NULL THEN "r_reopen" ELSE "r_wait")
    /\ last' = [last EXCEPT ![p] = NULL]
    /\ UNCHANGED <<fsvars, buf, pushed, abandoned, watch, rd, got>>

\* An inode is freed when no name and no descriptor refers to it; its watch
\* then delivers IN_IGNORED, which also wakes ppoll.
Freed(i) ==
    /\ i \in created \ {tmp, final}
    /\ pc[i] # "w_push"
    /\ \A q \in Procs : pc[q] = "r_read" => rd[q] # i

\* ppoll returns an event of the watch: the wait is over.
r_event(p) ==
    /\ pc[p] = "r_wait"
    /\ watch[p] # NULL
    /\ watch[p] \in moved \/ Freed(watch[p])
    /\ Goto(p, "r_reopen")
    /\ UNCHANGED <<fsvars, buf, pushed, abandoned, readvars>>

\* ppoll times out after a second: stat(tmp_path).  A failed stat ends the
\* wait; an mtime equal to the one of the last timeout abandons the file
\* (EINVAL); otherwise the mtime is remembered.
PollTimeoutNoAbandon(p) ==
    /\ pc[p] = "r_wait"
    /\ IF tmp = NULL
          THEN Goto(p, "r_reopen") /\ UNCHANGED last
          ELSE /\ last' = [last EXCEPT ![p] = <<tmp, ver[tmp]>>]
               /\ UNCHANGED pc
    /\ UNCHANGED <<fsvars, buf, pushed, abandoned, watch, rd, got>>

r_timeout(p) ==
    /\ pc[p] = "r_wait"
    /\ CASE tmp = NULL ->
               Goto(p, "r_reopen") /\ UNCHANGED last
          [] last[p] = <<tmp, ver[tmp]>> ->
               Goto(p, "error") /\ UNCHANGED last
          [] OTHER ->
               last' = [last EXCEPT ![p] = <<tmp, ver[tmp]>>] /\ UNCHANGED pc
    /\ UNCHANGED <<fsvars, buf, pushed, abandoned, watch, rd, got>>

\* open(path) once more after the wait; its failure is EINVAL.
r_reopen(p) ==
    /\ pc[p] = "r_reopen"
    /\ IF final # NULL
          THEN rd' = [rd EXCEPT ![p] = final] /\ Goto(p, "r_read")
          ELSE UNCHANGED rd /\ Goto(p, "error")
    /\ UNCHANGED <<fsvars, buf, pushed, abandoned, watch, last, got>>

\* and_results reads the set to its end.
r_read(p) ==
    /\ pc[p] = "r_read"
    /\ got' = [got EXCEPT ![p] = disk[rd[p]]]
    /\ Goto(p, "done")
    /\ UNCHANGED <<fsvars, buf, pushed, abandoned, watch, last, rd>>

-----------------------------------------------------------------------------
\* OSET_TMP_STALE_TIMEOUT seconds pass without a write to the tmp inode.
Age(i) ==
    /\ i = tmp
    /\ ~stale[i]
    /\ stale' = [stale EXCEPT ![i] = TRUE]
    /\ UNCHANGED <<pc, tmp, final, created, moved, disk, ver, buf, pushed,
                   abandoned, readvars>>

Step(p) ==
    \/ w_path(p) \/ w_tmp(p) \/ w_unlink(p) \/ w_open(p)
    \/ w_push(p) \/ w_fail(p) \/ ord_set_cleanup(p) \/ w_rename(p)
    \/ r_open(p) \/ r_tmp(p) \/ r_watch(p) \/ r_check(p)
    \/ r_event(p) \/ r_timeout(p) \/ r_reopen(p) \/ r_read(p)

Next == \/ \E p \in Procs : Step(p)
        \/ \E i \in Procs : Age(i)

\* Every process keeps running; time passing (Age) is not forced.
Spec == Init /\ [][Next]_vars /\ \A p \in Procs : WF_vars(Step(p))

-----------------------------------------------------------------------------
TypeOK ==
    /\ pc \in [Procs -> WriterStates \union ReaderStates \union Ended]
    /\ tmp \in Procs \union {NULL} /\ final \in Procs \union {NULL}
    /\ created \subseteq Procs /\ moved \subseteq created
    /\ disk \in [Procs -> 0..Items] /\ ver \in [Procs -> Versions]
    /\ stale \in [Procs -> BOOLEAN]
    /\ buf \in [Procs -> 0..BufCap] /\ pushed \in [Procs -> 0..Items]
    /\ abandoned \subseteq created
    /\ watch \in [Procs -> Procs \union {NULL}]
    /\ last \in [Procs -> (Procs \X Versions) \union {NULL}]
    /\ rd \in [Procs -> Procs \union {NULL}] /\ got \in [Procs -> 0..Items]

Quiescent == \A p \in Procs : pc[p] \in Ended

\* The spec's promise for result files (spec.md, section 6): a search never
\* returns partial results; a reader of <path> (and_results opening a
\* sub-index result) gets every record the search produces.
ReadsComplete == \A p \in Procs : pc[p] = "done" => got[p] = Items

\* When every process has ended and none abandoned its tmp file, the stale
\* tmp recovery of ord_set_init and the unconditional rename of
\* ord_set_cleanup have left a final result that holds every record, however
\* the writers interleaved.
QuiescentComplete ==
    Quiescent /\ abandoned = {} => final # NULL /\ disk[final] = Items

\* Every search process gets through its write and its read: the reader's
\* wait for a tmp file ends, by an inotify event, a vanished tmp file or the
\* unchanged-mtime abandon, also when the tmp file's writer is dead.
SearchesTerminate == <>Quiescent

====
