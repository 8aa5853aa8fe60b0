SPECIFICATION Spec
CONSTANTS
    a = a  b = b  lib = lib
    clean = clean  broken = broken  imports = imports  stuck = stuck
    UriOrder <- OneDoc
    Library = {lib}
    Texts = {stuck}
    Imports <- ImportsOf
    Bad = {broken}
    BadOnDisk = {}
    Unresolvable = {stuck}
    Saved = Saved
    Absent = Absent
    StaleChanges = FALSE
    MaxMessages = 3
INVARIANT EnvironmentFailureReported
