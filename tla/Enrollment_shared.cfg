SPECIFICATION Spec
CONSTANTS
    i1 = i1
    Hosts = {h1, h2, h3}
    Invites = {i1}
    DeviceIds = {d1, d2, d3}
    SiteFile <- SharedSiteFile
    MaxClaims = 2
    ValidFor = 2
    Window = 1
    MaxTime = 2
    MaxFaults = 1
    MaxRestores = 0
    None = None
    Torn = Torn
SYMMETRY FullSymmetry
INVARIANTS RegistryIsSound InviteIsObeyed
PROPERTIES RevocationIsFinal
CHECK_DEADLOCK FALSE
