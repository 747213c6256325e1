SPECIFICATION Spec
CONSTANTS
    Notices <- OneNotice
    Listings <- RecoveryListings
    HideDelay = 2
    AgeCap = 1
    None = None
INVARIANTS HidesNeverRegroup UrgentFirst
PROPERTY ComesBackVisible
