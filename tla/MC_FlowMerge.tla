--------------------------- MODULE MC_FlowMerge ---------------------------
EXTENDS FlowMerge

\* Two flows that differ only in the destination address.
MC_Keys == {<<1, 2, 10, 20, 6>>, <<1, 2, 10, 21, 6>>}
====
