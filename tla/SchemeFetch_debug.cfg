\* One call of scheme_fetch over every request shape; a settled call stops.
CONSTANTS
    Unb = Unbounded
    Unbounded = Unbounded
    Methods = {"GET", "POST"}
    Schemes = {"about", "blob", "data", "file", "ftp"}
    MaxLen = 2
    UsizeMax <- MCUsizeMax
    OverflowChecks = TRUE
SPECIFICATION Spec
CHECK_DEADLOCK FALSE
INVARIANT HeadersFit
INVARIANT ContentRangeMatchesBody
