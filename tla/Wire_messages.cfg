SPECIFICATION WireSpec
CONSTANTS
    Messages <- AllMessages
    Safe = 8
    Unknown = 0
    MaxCalls = 2
CHECK_DEADLOCK FALSE
INVARIANTS ServerReceives PageReceives
