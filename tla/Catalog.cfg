CONSTANTS
    Writers <- MC_Writers
    Disks = {"d1", "d2"}
    DiskSlots <- MC_DiskSlots
    Chains = 2
    MaxErrs = 1
    NoTx = NoTx
    NoRow = NoRow
SPECIFICATION Spec
INVARIANTS
    TypeOK
    SlotExclusive
    UsageAccounted
PROPERTIES
    OutputEnds
    CatalogAtomicity
