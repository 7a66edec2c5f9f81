SPECIFICATION Spec
CONSTANTS
    core_num = 1
    output_workloads <- MCWorkloads
    output_prefetchers <- MCPrefetchers
    output_metrics <- MCMetrics
    Fields <- MCFields
    my_prefetcher = "A"
    EvaluateCaches = {"L1D", "L2C"}
    Occurs <- MCOccurs
    Key <- MCKey
    Cell <- MCCell
    Value <- MCValue
    Blank <- Dash
    Worker = {w1, w2}
    ChunkSize = 3
    Reading <- MCReading
    Scripts <- MCScripts
    Listings <- MCListings
CHECK_DEADLOCK FALSE
INVARIANTS ColumnsOfTheirCache
