SPECIFICATION Spec
CONSTANTS
    p1 = p1
    p2 = p2
    Panes = {p1, p2}
    Commands = {1, 2}
    Status = 0
    Listings <- TwoPaneListings
    Modes = {observe_only, safe_auto}
    ObserveOnly = observe_only
    None = None
CHECK_DEADLOCK FALSE
INVARIANTS ModalKeepsItsPromise SendsOnlyLiveProposals OutcomeBoundsDelivery AuditTellsOfAnsweredSends
PROPERTIES ImplementsPromptAudit EverySendEnds
