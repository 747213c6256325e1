SPECIFICATION Spec
CONSTANTS
    Providers = {"Codex", "Gemini"}
    Places = {"a", "b"}
    Paths = {"f"}
    None = None
    MinFlips = 1
    ErrorPercent = 33
    MinDrop = 2
    MinFindings = 1
    CostPerPoll = 1
    TokensPerPoll = 1
    MemoryRise = 2
    Panes = {p1}
    Readings <- MCReadings
    Windows = {2, 3}
    Minimums <- MCMinimums
    Promotes <- MCPromotes
INVARIANT EpisodesAreToldOnce
INVARIANT EpisodesAreTold
INVARIANT FirstSightIsSilent
CHECK_DEADLOCK FALSE
