CONSTANTS
    \* HostListings
    Hands = {h1, h2}
    ListingOps = {"update", "submit", "pause", "resume", "media", "units", "noUnits", "approve", "reject", "setLive", "unpause"}
    ProfileOps = {"submit", "reject", "freeze", "unfreeze"}
    RoomsRequired = TRUE
    MaxRequests = 8
    \* KycCase
    Clerks = {k1}
    ClerkOps = {"token", "document", "selfie", "form", "sync", "approve", "reject"}
    CountryKnown = TRUE
    MaxVerdicts = 2
    MaxClerkCalls = 1
    \* BookingMoney
    Prices = {5, 9995}
    StayLengths = {1, 3}
    FeePcts = {333, 5000}
    HoursLeft = {0, 23, 24, 120, 168}
    Pods = {p1, p2}
    \* Reviews
    Stays = {b1, b2}
    ReviewTxs = {x1, x2}
    Stars = {9, 4}
    MaxReviewTxs = 3
    \* CalendarSync
    Calendars = {c1, c2}
    Horizon = {0, 1}
    Reservations <- OneNight
    Syncs = {w1, w2}
    MaxFeeds = 2
    MaxBlocks = 1
    MaxSyncs = 2
SPECIFICATION HostingSpec
INVARIANTS
    HostingTypeOK
    PublishedWasGranted VerdictsAgree
    VerifiedWasGranted
    ChargedTheRatesInForce RefundPolicyOrdered
    TotalsHeal
    ImportedNightsReported ImportMatchesFeed
PROPERTY NewestVerdictStands
CHECK_DEADLOCK FALSE
