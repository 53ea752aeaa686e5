\* One account of each of twelve providers, any two of them bound at once.
SPECIFICATION RoutingSpec
CONSTANTS
    ProviderAccounts <- All
    News <- Later
    Rescanned <- All
    Docs <- Public
    Defaults <- Catalogue
    OneMinAI <- Manifest
    Known <- KnownNamespaces
    Vendors <- Publishers
    Unlisted <- Asked
    Mapped <- Unknown
    Families <- Dashes
    Downgrade <- Small
    MaxBound = 2
    MaxSwitches = 2
INVARIANTS DirectSendsListed SwitchKeepsModel ScanCoversRegistration
