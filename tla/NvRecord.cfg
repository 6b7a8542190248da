SPECIFICATION Spec
CONSTANTS
    Devices = {d1, d2, d3}
    Settings = {low}
    Default = low
    DDB_RECORD_NUM = 2
    QUICK_PWR_ON = FALSE
    MaxBuild = 2
SYMMETRY Symmetry
INVARIANTS RecordsSound CleanMeansSaved RunningMeansSaved
PROPERTIES RecencyKept BackupCopiesMain
