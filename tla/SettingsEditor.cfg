SPECIFICATION Spec
CONSTANTS
    s1 = s1
    mode = mode
    hover = hover
    polls = polls
    Scopes = {s1}
    Params = {mode, hover, polls}
    Numbers = {polls}
    Shortcuts = {hover}
    Safety = {mode}
    Top = 4
    Base <- BaseConfig
    InitialFiles <- Files
    Orders <- OrdersMC
    MaxEdits = 3
    Default = Default
    Legacy = Legacy
    Sidefile = Sidefile
    None = None
    NoFile = NoFile
    Garbled = Garbled
    Invalid = Invalid
INVARIANTS UnsavedIsMarked SavedIsLoadedAgain FilePairsOrdered WarningNeverAboveCritical
