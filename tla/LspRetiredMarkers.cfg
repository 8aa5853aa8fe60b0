SPECIFICATION Spec
CONSTANTS
    a = a  b = b  lib = lib
    clean = clean  broken = broken  imports = imports  stuck = stuck
    UriOrder <- OneDoc
    Library = {lib}
    Texts = {clean, imports}
    Imports <- ImportsOf
    Bad = {broken}
    BadOnDisk = {lib}
    Unresolvable = {stuck}
    Saved = Saved
    Absent = Absent
    StaleChanges = FALSE
    MaxMessages = 4
INVARIANT RetiredMarkersCleared
