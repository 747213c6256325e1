SPECIFICATION Spec
CONSTANTS
    Panes = {p1}
    Time = {0, 4, 6, 31, 36}
    None = None
INVARIANTS NotificationsKeepTheirDistance StaysAreRaisedOnce
PROPERTIES UrgentIsNeverStarved
CHECK_DEADLOCK FALSE
