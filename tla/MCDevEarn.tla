----------------------------- MODULE MCDevEarn -----------------------------
(* Model-checking instance of DevEarn: three contracts, two of them with  *)
(* the same owner, registered for up to two epochs, up to four gas units  *)
(* per epoch.                                                              *)
(* sdk.Dec's scale 10^18 is scaled down to 10 and the uint64 width down to *)
(* 32: the rounding of Quo and the Uint64() bound keep their behaviour.    *)
EXTENDS DevEarn

CONSTANTS k1, k2, k3, w1, w2

MCContracts == {k1, k2, k3}
MCOwners == {w1, w2}
MCOwnerOf == (k1 :> w1) @@ (k2 :> w2) @@ (k3 :> w1)
\* k1 holds a share of the native supply, k2 and k3 none.
MCContractBalance == (k1 :> 10) @@ (k2 :> 0) @@ (k3 :> 0)
\* Nobody funds the accounts named by the bytes of the address strings.
MCCastBalance == [c \in MCContracts |-> 0]
\* Module balances whose half splits unevenly between gas shares (half 4),
\* and one whose half (10) is large enough for the rounding of gas ratios
\* such as 1/6, 1/6, 4/6 (0.2 + 0.2 + 0.7) to survive truncation.
MCPoolAmounts == {9, 21}
\* A supply that fits in the (scaled) uint64 range.
MCSupplies == {20}
\* Supplies TvlReward cannot handle: the base denom is not on the first
\* page (0), or the supply does not fit in a uint64.
MCBadSupplies == {0, 40}
=============================================================================
