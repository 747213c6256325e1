SPECIFICATION InputSpec
CONSTANTS
    AllWindows <- TwoSessions
    AllSessions = AllSessions
    NoSession = NoSession
CHECK_DEADLOCK FALSE
INVARIANTS OneModal ReportsMatchTarget
PROPERTY PickerStartsAtTarget
