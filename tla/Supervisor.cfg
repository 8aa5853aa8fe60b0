SPECIFICATION SupervisorFairSpec
CONSTANTS
    a = a  clean = clean  broken = broken
    UriOrder <- OneDoc
    Library = {}
    Texts = {clean, broken}
    Imports <- ImportsOf
    Bad = {broken}
    BadOnDisk = {}
    Unresolvable = {}
    Saved = Saved
    Absent = Absent
    StaleChanges = FALSE
    MaxMessages = 4
INVARIANTS
    SupervisorTypeOK
    NothingOwedAtRest
    SuccessMeansAnswered
PROPERTY RequestsEnd
