SPECIFICATION LedgerSpec
CONSTANTS
    CostPanes = {p1, p2}
    Rates = {1, 2}
    Budgets = {0, 6}
    UnitsPerCent = 2
    MinDelta = 1
    RetentionDays = 1
    MaxWork = 2
    MaxSwitches = 1
    MaxDay = 1
INVARIANTS SteadyLedgerNeverOvercounts EachAlertOnce ReachedThresholdsAreClaimed
CHECK_DEADLOCK FALSE
