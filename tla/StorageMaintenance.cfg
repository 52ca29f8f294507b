SPECIFICATION FairSpec
CONSTANTS
    Roots = {r1, r2}
    Ids = {i1, i2}
    Owned = {n1, n2}
    Foreign = {f}
    Writers = {w}
    Scanners = {monitor, tool}
    Monitor = monitor
    NoValue = NoValue
    OldLogs = {n1}
    MaxEvents = 3
    Limit = 1
    Interval = 1
INVARIANTS LiveFilesKept NewestLogKept NeverOversleeps
PROPERTIES ForgetsOnlyStale AbandonedFilesGo ShutdownEnds
