\* Every kind of socket, with one close ordered from outside.
SPECIFICATION Spec
CONSTANTS
    MaxAdmin = 1
INVARIANTS
    TypeOK
    EventsPaired
    ClosedWhenDone
PROPERTIES
    GoroutinesEnd
    HandlerEnds
\* A handler that missed its wake-up stays where it is.
CHECK_DEADLOCK FALSE
