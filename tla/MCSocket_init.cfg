\* Does the server answer the version command?
SPECIFICATION Spec
CONSTANTS
    MaxAdmin = 0
PROPERTIES
    InitAfterVersion
\* A handler that missed its wake-up stays where it is.
CHECK_DEADLOCK FALSE
