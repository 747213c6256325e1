SPECIFICATION HistorySpec
CONSTANTS
    p1 = p1
    Claude = Claude  Codex = Codex  Unknown = Unknown  Antigravity = Antigravity
    src = src  other = other
    still1 = still1  still2 = still2  asks = asks
    InputWait = InputWait  Stale = Stale
    low = low  high = high  err1 = err1  None = None
    Providers <- MCProviders
    Paths = {src, other}
    Tails = {still1, still2, asks}
    Causes = {InputWait, Stale}
    Readings = {low, high}
    DriftFindings = TRUE
    Panes <- OnePane
    Observations <- OnePaneObservations
    Errors = {err1}
    TailCap = 2
    MaxTicks = 5
INVARIANT LifecycleTracksListings
INVARIANT NothingOutlivesItsPane
PROPERTY ImplementsPaneReports
CHECK_DEADLOCK FALSE
