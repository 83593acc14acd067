CONSTANTS
    a1 = a1
    a2 = a2
    created = created
    signed = signed
    broadcasted = broadcasted
    Senders <- MCSenders
    Vaults <- MCVaults
    Statuses <- MCStatuses
    Created = created
    MaxRequests = 4
    FilterLimit = 2
SPECIFICATION Spec
INVARIANTS
    UpdatesLandOnTheirRequest
