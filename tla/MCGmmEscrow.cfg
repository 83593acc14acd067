CONSTANTS
    u1 = u1
    u2 = u2
    pl = pl
    token = token
    share = share
    gmm = gmm
    Users <- MCUsers
    Pools <- MCPools
    Denoms <- MCDenoms
    Module <- gmm
    Blocked <- MCBlocked
    MaxAmount = 2
    MaxSupply = 3
SPECIFICATION Spec
INVARIANTS
    ModuleHoldsNothing
