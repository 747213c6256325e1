SPECIFICATION Spec
CONSTANTS
    Panes = {p1}
    Window = 3
    Time = {1, 2, 3, 4, 11, 12, 24}
INVARIANT TypeOK
INVARIANT WindowsAligned
INVARIANT PostNewestFirst
INVARIANT NoReplayAcrossALongGap
INVARIANT RespawnStaysFresh
INVARIANT FindingsStayVisible
CHECK_DEADLOCK FALSE
