SPECIFICATION ToolingSpec
CONSTANTS
    Roots = {root}
    FileContents = {old, new}
    Inventories = {few, many}
    MaxWrites = 2
    MaxSnapshots = 1
    NoSession = NoSession
INVARIANT SnapshotsNeverStale
