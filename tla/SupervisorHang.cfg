SPECIFICATION SupervisorFairSpec
CONSTANTS
    a = a  clean = clean  broken = broken
    UriOrder <- OneDoc
    Library = {}
    Texts = {clean}
    Imports <- ImportsOf
    Bad = {broken}
    BadOnDisk = {}
    Unresolvable = {}
    Saved = Saved
    Absent = Absent
    StaleChanges = FALSE
    MaxMessages = 2
PROPERTY HungIsTerminated
