---------------------------- MODULE MC_Catalog ----------------------------
EXTENDS Catalog

MC_Writers == {"o1", "o2"}
\* Two disks of two capture slots each.
MC_DiskSlots == [d \in {"d1", "d2"} |-> IF d = "d1" THEN {1, 2} ELSE {3, 4}]
\* One disk of two slots.
MC_OneDisk == [d \in {"d1"} |-> {1, 2}]

====
