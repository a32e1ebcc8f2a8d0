CONSTANTS
    j1 = j1
    j2 = j2
    UpJobs <- MCUpJobs
    NoJob = NoJob
    Diffs = {1}
    PushKinds = {"notify"}
    MaxNotify = 3
    MaxShares = 1
    MaxConn = 1
    MaxInbox = 1
    MaxTime = 3
    NotifyAge = 1
    ShareAge = 0
SPECIFICATION Spec
SYMMETRY JobSymmetry
PROPERTY AgeingKeepsNewestThree
