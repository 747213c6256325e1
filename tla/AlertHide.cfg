SPECIFICATION Spec
CONSTANTS
    Notices <- OneNotice
    Listings <- RecoveryListings
    HideDelay = 1
    AgeCap = 1
    None = None
PROPERTY HideHitsTheShownAlert
