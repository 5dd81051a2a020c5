CONSTANTS
    Writers <- MC_Writers
    Disks = {"d1"}
    DiskSlots <- MC_OneDisk
    Chains = 2
    MaxErrs = 0
    NoTx = NoTx
    NoRow = NoRow
SPECIFICATION Spec
INVARIANT ReadyIndexIntact
