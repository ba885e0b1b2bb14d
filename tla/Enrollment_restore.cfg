SPECIFICATION FairSpec
CONSTANTS
    i1 = i1
    Hosts = {h1}
    Invites = {i1}
    DeviceIds = {d1, d2}
    SiteFile <- SharedSiteFile
    MaxClaims = 1
    ValidFor = 3
    Window = 3
    MaxTime = 0
    MaxFaults = 4
    MaxRestores = 1
    None = None
    Torn = Torn
INVARIANTS BothSidesAgree RevokedStaysOut
PROPERTIES HistoricBootstrapClosed EnrollmentCompletes
CHECK_DEADLOCK FALSE
