SPECIFICATION LiveSpec
CONSTANTS
    Devices = {d1, d2}
    Settings = {low, high}
    Default = low
    DDB_RECORD_NUM = 1
    QUICK_PWR_ON = TRUE
    MaxBuild = 2
PROPERTIES OthersKept AddedIsSaved
