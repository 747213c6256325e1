SPECIFICATION Spec
CONSTANTS
    Panes = {1, 2, 3}
    Listings <- ListingsMC
    GateSettings <- GatesMC
    Minute = 2
    Lengths <- LengthsMC
    Offsets <- OffsetsMC
    None = None
    MaxNow = 5
INVARIANTS OneSnapshotPerWindow NoWindowMissed InDoubtOnlyAlerts UsedUpQuotaIsARisk CompactAdviceAgrees ClashesAreTold
CHECK_DEADLOCK FALSE
