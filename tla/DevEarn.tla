------------------------------ MODULE DevEarn ------------------------------
(***************************************************************************)
(* Epoch reward distribution of x/devearn (keeper/distribution.go).        *)
(*                                                                         *)
(* A DevEarnInfo per registered contract holds its remaining epochs and    *)
(* the gas its users spent this epoch.  At each epoch end                  *)
(* DistributeRewards decrements every info's epochs, resets or deletes it, *)
(* and SendReward pays each contract's owner its share of half the module  *)
(* account's balance in proportion to the gas spent; a TVL share of the    *)
(* other half is computed and discarded.                                   *)
(*                                                                         *)
(* sdk.Dec is a big integer scaled by 10^18; it is modelled by the same    *)
(* arithmetic with the scale DecPrecision.  sdk.Int.Uint64() panics on a   *)
(* value that does not fit (Uint64Bound); Epochs wraps at Uint32Modulus. *)
(* A panic in the epoch hook halts the chain: the model records it in     *)
(* `halted' and stops.                                                     *)
(***************************************************************************)
EXTENDS Integers, FiniteSets, SequencesExt, Functions

CONSTANTS
    Contracts,        \* contracts that may hold a DevEarnInfo
    Owners,           \* reward receivers
    OwnerOf,          \* Contracts -> Owners: the info's owner address
    MaxEpochs,        \* largest number of epochs an info is registered for
    MaxGas,           \* bound on the gas meter of one contract in one epoch
    DecPrecision,     \* scale of sdk.Dec (10^18 in the code)
    PoolAmounts,      \* initial balances of the devearn module account
    Supplies,         \* native supply seen on the first page of GetPaginatedTotalSupply
    ContractBalance,  \* Contracts -> native balance held by the contract
    CastBalance,      \* Contracts -> native balance of sdk.AccAddress(contractAddress)
    Uint64Bound,      \* 2^64: sdk.Int.Uint64() panics at or above it
    Uint32Modulus     \* 2^32: DevEarnInfo.Epochs is a uint32

ASSUME OwnerOf \in [Contracts -> Owners]
ASSUME ContractBalance \in [Contracts -> Nat]
ASSUME CastBalance \in [Contracts -> Nat]

VARIABLES
    info,       \* the DevEarnInfo store: contract -> [epochs, gasMeter]
    pool,       \* balance of the devearn module account
    received,   \* Owners -> rewards received
    supply,     \* native total supply (fixed during a behaviour)
    halted,     \* the chain halted on a panic in DistributeRewards
    registered, \* history: Contracts -> epochs the info was registered with
    rounds,     \* history: Contracts -> distributions the contract took part in
    spent,      \* history: Contracts -> gas spent since the last distribution
    lastRound   \* history: [gas, paid] of the latest distribution

vars == <<info, pool, received, supply, halted, registered, rounds, spent, lastRound>>

(***************************************************************************)
(* sdk.Dec and sdk.Int arithmetic                                          *)
(***************************************************************************)
NewDecFromInt(n) == n * DecPrecision

\* chopPrecisionAndRound: divide by the scale, rounding half to even.
ChopPrecisionAndRound(x) ==
    LET q == x \div DecPrecision
        r == x % DecPrecision
    IN IF 2 * r > DecPrecision \/ (2 * r = DecPrecision /\ q % 2 = 1)
       THEN q + 1 ELSE q

\* Faulty variant: Dec.QuoRoundUp in place of Dec.Quo.
DecQuoRoundUp(a, b) == (a * DecPrecision + b - 1) \div b

\* Dec.Quo: (a * 10^18 * 10^18 / b), truncated, then chopped and rounded.
DecQuo(a, b) == ChopPrecisionAndRound((a * DecPrecision * DecPrecision) \div b)

DecMulInt(d, n) == d * n

TruncateInt(d) == d \div DecPrecision

FitsUint64(n) == n < Uint64Bound

(***************************************************************************)
(* DevEarnInfo (types, outside src/)                                       *)
(***************************************************************************)
\* Faulty variant: an info with no epochs left counts as active.
IsActiveNonNegative(i) == i.epochs >= 0

IsActive(i) == i.epochs > 0

(***************************************************************************)
(* Keeper operations                                                       *)
(***************************************************************************)
\* Faulty variant: the epoch count is not decremented.
EpochsAfterNoDecrement(e) == e

\* devEarnInfo.Epochs-- on a uint32.
EpochsAfter(e) == (e - 1) % Uint32Modulus

\* Faulty variant: an active info keeps its gas meter.
RolledInfoKeepGas(i) == [i EXCEPT !.epochs = EpochsAfter(@)]

\* The info written back for an active contract: epochs decremented and
\* the gas meter reset.
RolledInfo(i) == [epochs |-> EpochsAfter(i.epochs), gasMeter |-> 0]

\* TvlReward: a native balance over the native total supply.  The balance
\* is read from sdk.AccAddress(contractAddress), the bytes of the hex
\* string taken as an address: another account than the contract's, whose
\* balance is CastBalance.  Uint64() on either amount panics when it does
\* not fit; Quo panics on a zero supply.
TvlRewardPanics(c) ==
    \/ ~FitsUint64(supply)
    \/ ~FitsUint64(CastBalance[c])
    \/ supply = 0

TvlReward(c) == DecQuo(NewDecFromInt(CastBalance[c]), NewDecFromInt(supply))

\* SendReward, once the total gas is known to be positive: for each
\* contract in the map's iteration order, its gas ratio times half the
\* module balance (the TVL term is computed and its sum discarded),
\* truncated and sent to the owner; a send the balance cannot cover fails
\* and is only logged.
PayReward(gas, total, half, acc, c) ==
    LET reward == DecMulInt(DecQuo(NewDecFromInt(gas[c]), NewDecFromInt(total)), half)
        amount == TruncateInt(reward)
    IN IF reward <= 0 \/ amount > acc.pool THEN acc
       ELSE [acc EXCEPT !.pool = @ - amount,
                        !.received[OwnerOf[c]] = @ + amount,
                        !.paid[c] = amount]

SendReward(gas, order) ==
    LET total == SumFunction(gas)
        start == [pool |-> pool, received |-> received,
                  paid |-> [c \in Contracts |-> 0]]
    IN IF total = 0 THEN start
       ELSE FoldLeft(LAMBDA acc, c : PayReward(gas, total, pool \div 2, acc, c),
                     start, order)

(***************************************************************************)
(* Actions                                                                 *)
(***************************************************************************)
\* The EVM post-processing hook adds a transaction's gas to the meter of
\* the contract it called (outside src/).
AddGas(c) ==
    /\ ~halted
    /\ c \in DOMAIN info
    /\ info[c].gasMeter < MaxGas
    /\ info' = [info EXCEPT ![c].gasMeter = @ + 1]
    /\ spent' = [spent EXCEPT ![c] = @ + 1]
    /\ UNCHANGED <<pool, received, supply, halted, registered, rounds, lastRound>>

\* DistributeRewards at an epoch end: read every info's gas meter and owner,
\* decrement its epochs, write it back with a reset meter or delete it,
\* then SendReward over the gas read (a Go map: any iteration order).
DistributeRewards ==
    LET gas == [c \in DOMAIN info |-> info[c].gasMeter]
        rolled == [c \in DOMAIN info |-> RolledInfo(info[c])]
        kept == {c \in DOMAIN info : IsActive(rolled[c])}
    IN /\ ~halted
       /\ IF SumFunction(gas) > 0 /\ \E c \in DOMAIN gas : TvlRewardPanics(c)
          THEN /\ halted' = TRUE
               /\ UNCHANGED <<info, pool, received, supply, registered, rounds,
                              spent, lastRound>>
          ELSE \E order \in SetToSeqs(DOMAIN gas) :
                 LET out == SendReward(gas, order)
                 IN /\ info' = [c \in kept |-> rolled[c]]
                    /\ pool' = out.pool
                    /\ received' = out.received
                    /\ rounds' = [c \in Contracts |->
                                    IF c \in DOMAIN info THEN rounds[c] + 1 ELSE rounds[c]]
                    /\ spent' = [c \in Contracts |-> 0]
                    /\ lastRound' = [members |-> DOMAIN info, gas |-> spent,
                                     half |-> pool \div 2, paid |-> out.paid]
                    /\ UNCHANGED <<supply, halted, registered>>

(***************************************************************************)
(* Specification                                                           *)
(***************************************************************************)
\* Any set of registered infos with fresh meters; any module balance.
Init ==
    /\ \E active \in SUBSET Contracts, eps \in [Contracts -> 1..MaxEpochs] :
         /\ info = [c \in active |-> [epochs |-> eps[c], gasMeter |-> 0]]
         /\ registered = [c \in Contracts |-> IF c \in active THEN eps[c] ELSE 0]
    /\ pool \in PoolAmounts
    /\ received = [o \in Owners |-> 0]
    /\ supply \in Supplies
    /\ halted = FALSE
    /\ rounds = [c \in Contracts |-> 0]
    /\ spent = [c \in Contracts |-> 0]
    /\ lastRound = [members |-> {}, gas |-> [c \in Contracts |-> 0], half |-> 0,
                    paid |-> [c \in Contracts |-> 0]]

Next == (\E c \in Contracts : AddGas(c)) \/ DistributeRewards

\* The epoch module ends an epoch, and calls the hook, at regular intervals.
Spec == Init /\ [][Next]_vars /\ WF_vars(DistributeRewards)

(***************************************************************************)
(* Properties                                                              *)
(***************************************************************************)
TypeOK ==
    /\ DOMAIN info \subseteq Contracts
    /\ \A c \in DOMAIN info : info[c] \in [epochs: 0..MaxEpochs, gasMeter: 0..MaxGas]
    /\ pool \in Nat
    /\ received \in [Owners -> Nat]
    /\ halted \in BOOLEAN
    /\ rounds \in [Contracts -> Nat]
    /\ spent \in [Contracts -> 0..MaxGas]

\* Epoch accounting (DistributeRewards, Epochs--, IsActive): a contract's info
\* exists exactly while it has taken part in fewer distributions than it
\* was registered for, and its remaining epochs are the difference; so an
\* info registered for N epochs is paid in exactly N distributions.
FinalizesAfterEpochs ==
    \A c \in Contracts :
        /\ c \in DOMAIN info <=> rounds[c] < registered[c]
        /\ c \in DOMAIN info => info[c].epochs + rounds[c] = registered[c]

\* Rewards follow this epoch's gas (GasMeter = 0, SendReward): in every
\* distribution a contract is paid only if its users spent gas on it since
\* the previous distribution, and a contract that spent more gas is never
\* paid less than one that spent less.
RewardFollowsEpochGas ==
    LET r == lastRound
    IN \A a, b \in r.members :
         /\ r.paid[a] > 0 => r.gas[a] > 0
         /\ r.gas[a] >= r.gas[b] => r.paid[a] >= r.paid[b]

\* Rewards within the rounding of the budget (SendReward, PayReward,
\* DecQuo): each gas ratio is a Quo rounded half to even, so the ratios may
\* add up to more than one and the rewards to more than half the module
\* balance; but by no more than half a unit of the last digit per contract:
\* paid <= half * (1 + n / (2 * 10^18)), whatever order they are paid in.
PaidWithinRoundingOfHalf ==
    LET r == lastRound
    IN 2 * DecPrecision * SumFunction(r.paid)
         <= r.half * (2 * DecPrecision + Cardinality(r.members))

\* No halt (TvlReward): distributing the rewards of an epoch in which gas was
\* spent never panics.
NoHalt == ~halted

\* TVL half (SendReward, line 90; TvlReward): each contract's reward adds
\* the ratio of its own native balance to the supply, times half the module
\* balance, to its gas share, so a contract holding part of the native
\* supply is paid at least that TVL part.
TvlShareRewarded ==
    LET r == lastRound
        tvlPart(c) == TruncateInt(DecMulInt(DecQuo(NewDecFromInt(ContractBalance[c]),
                                                   NewDecFromInt(supply)), r.half))
    IN \A c \in r.members :
         SumFunction(r.gas) > 0 => r.paid[c] >= tvlPart(c)
====
