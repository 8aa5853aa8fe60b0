SPECIFICATION Spec
CONSTANTS
    a = a  b = b  lib = lib
    clean = clean  broken = broken  imports = imports  stuck = stuck
    UriOrder <- OneDoc
    Library = {lib}
    Texts = {clean, broken}
    Imports <- ImportsOf
    Bad = {broken}
    BadOnDisk = {}
    Unresolvable = {stuck}
    Saved = Saved
    Absent = Absent
    StaleChanges = TRUE
    MaxMessages = 3
INVARIANT EveryErrorShown
