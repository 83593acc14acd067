CONSTANTS
    k1 = k1
    k2 = k2
    k3 = k3
    w1 = w1
    w2 = w2
    Contracts <- MCContracts
    Owners <- MCOwners
    OwnerOf <- MCOwnerOf
    MaxEpochs = 2
    MaxGas = 4
    DecPrecision = 10
    PoolAmounts <- MCPoolAmounts
    Supplies <- MCSupplies
    ContractBalance <- MCContractBalance
    CastBalance <- MCCastBalance
    Uint64Bound = 32
    Uint32Modulus = 256
SPECIFICATION Spec
INVARIANTS
    TypeOK
    FinalizesAfterEpochs
    RewardFollowsEpochGas
    PaidWithinRoundingOfHalf
