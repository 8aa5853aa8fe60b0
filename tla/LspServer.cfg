SPECIFICATION FairSpec
CONSTANTS
    a = a  b = b  lib = lib
    clean = clean  broken = broken  imports = imports  stuck = stuck
    UriOrder <- TwoDocs
    Library = {lib}
    Texts = {broken, imports}
    Imports <- ImportsOf
    Bad = {broken}
    BadOnDisk = {lib}
    Unresolvable = {stuck}
    Saved = Saved
    Absent = Absent
    StaleChanges = FALSE
    MaxMessages = 4
INVARIANTS
    TypeOK
    ReportsAreCurrent
    EveryErrorShown
    ClosedContributeNothing
PROPERTY ComesToRest
