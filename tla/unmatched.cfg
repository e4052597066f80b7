SPECIFICATION Spec
CONSTANTS
    Op = {1, 2}
    Job = {j1, j2}
    MaxNotices = 1
    MaxAttempts = 2
    MaxFaults = 1
    MaxEdits = 1
INVARIANT ToldOnce
INVARIANT NobodyUnheard
PROPERTY RecordedByItself
