CONSTANTS
    j1 = j1
    j2 = j2
    UpJobs <- MCUpJobs
    NoJob = NoJob
    Diffs = {1}
    PushKinds = {"notify", "badnotify"}
    MaxNotify = 2
    MaxShares = 2
    MaxConn = 2
    MaxInbox = 1
    MaxTime = 0
    NotifyAge = 1
    ShareAge = 1
SPECIFICATION Spec
SYMMETRY JobSymmetry
PROPERTY GetNotifyNeverCrashes
