CONSTANTS
    Threads <- MC_Threads
    Main = "t1"
    Descrs <- MC_DescrsNoEnd
    Off = {1, 2, 3}
    Flow <- MC_Flow
    MaxFaults = 0
    NoFile = NoFile
    PartialIdx <- MC_PartialIdx
    FullIdx <- MC_FullIdx
    NSub = 2
    AndOps <- MC_AndOps
    FilterTable <- MC_FilterTableNoEnd
SPECIFICATION Spec
INVARIANT
    FlowsAsDescribed
