CONSTANTS
    j1 = j1
    j2 = j2
    None = None
    Jobs <- MCJobs
SPECIFICATION FairSpec
CHECK_DEADLOCK FALSE
INVARIANTS OneTrueReceipt RecoveryIsClean
PROPERTY ReceiptsSettle
