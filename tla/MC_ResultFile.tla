--------------------------- MODULE MC_ResultFile ---------------------------
EXTENDS ResultFile, TLC

MC_Procs == {"p1", "p2", "p3"}
====
