------------------------------ MODULE GmmEscrow ------------------------------
(***************************************************************************)
(* The bank operations of the x/gmm keeper (keeper/bank.go): locking and   *)
(* unlocking tokens in a pool's escrow account, and minting and burning    *)
(* through the gmm module account.  The message handlers that call them    *)
(* (add liquidity, withdraw, swap) are outside src/, so any call with any  *)
(* arguments is a step of the environment.  Coins are one denom and amount *)
(* per call.  A call that returns an error aborts the message, which the   *)
(* SDK then reverts: it is no step.  A panic aborts the message too.       *)
(* The bank refuses a send from a module account to a blocked address     *)
(* (BlockedAddr), the one way a send the balance covers can fail.         *)
(***************************************************************************)
EXTENDS Integers, FiniteSets, Functions

CONSTANTS
    Users,      \* user accounts
    Pools,      \* pool ids; GetEscrowAddress(pool) is the pool's escrow
    Denoms,     \* token and share denoms
    Module,     \* the gmm module account
    Blocked,    \* accounts the bank keeper refuses to send module funds to
    MaxAmount,  \* largest amount of one call
    MaxSupply   \* bound on the supply of a denom

Escrow(pool) == <<"escrow", pool>>
Holders == Users \cup {Escrow(p) : p \in Pools} \cup {Module}

VARIABLES
    balance,  \* Holders -> Denoms -> amount
    supply    \* Denoms -> total supply

vars == <<balance, supply>>

Amounts == 0..MaxAmount

(***************************************************************************)
(* The bank keeper, as the gmm keeper uses it                              *)
(***************************************************************************)
\* SendCoins: fails on an invalid amount (a zero coin left in sdk.Coins)
\* or an insufficient balance; otherwise moves the amount.
SendCoins(from, to, d, amt) ==
    /\ amt > 0
    /\ balance[from][d] >= amt
    /\ balance' = [balance EXCEPT ![from][d] = @ - amt, ![to][d] = @ + amt]

\* sdk.NewCoins drops a zero coin: the operation moves nothing and succeeds.
NewCoins(d, amt) == IF amt = 0 THEN {} ELSE {<<d, amt>>}

(***************************************************************************)
(* Keeper operations                                                       *)
(***************************************************************************)
\* LockTokens: the sender's tokens, as given, go to the pool's escrow.
LockTokens(pool, sender, d, amt) == /\ SendCoins(sender, Escrow(pool), d, amt)
                                    /\ UNCHANGED supply

\* UnLockTokens: the escrow's tokens, as sdk.NewCoins, go to the receiver.
UnLockTokens(pool, receiver, d, amt) ==
    IF NewCoins(d, amt) = {} THEN UNCHANGED vars
    ELSE /\ SendCoins(Escrow(pool), receiver, d, amt)
         /\ UNCHANGED supply

\* BurnTokens: send to the module account, then burn from it (a failed
\* burn panics).
BurnTokens(sender, d, amt) ==
    IF NewCoins(d, amt) = {} THEN UNCHANGED vars
    ELSE /\ balance[sender][d] >= amt
         /\ balance' = [balance EXCEPT ![sender][d] = @ - amt]
         /\ supply' = [supply EXCEPT ![d] = @ - amt]

\* Faulty variant: the error of the send is dropped instead of panicking,
\* so a mint to a blocked receiver stays in the module account.
MintTokensIgnoreSendError(receiver, d, amt) ==
    IF NewCoins(d, amt) = {} THEN UNCHANGED vars
    ELSE /\ supply[d] + amt <= MaxSupply
         /\ balance' = IF receiver \in Blocked
                       THEN [balance EXCEPT ![Module][d] = @ + amt]
                       ELSE [balance EXCEPT ![receiver][d] = @ + amt]
         /\ supply' = [supply EXCEPT ![d] = @ + amt]

\* MintTokens: mint to the module account, then send to the receiver; a
\* send to a blocked receiver fails and panics, so the mint is reverted
\* with it.  The supply bound stands for the bank's limits.
MintTokens(receiver, d, amt) ==
    IF NewCoins(d, amt) = {} THEN UNCHANGED vars
    ELSE /\ supply[d] + amt <= MaxSupply
         /\ receiver \notin Blocked
         /\ balance' = [balance EXCEPT ![receiver][d] = @ + amt]
         /\ supply' = [supply EXCEPT ![d] = @ + amt]

(***************************************************************************)
(* Specification                                                           *)
(***************************************************************************)
\* Users hold some tokens, escrows and the module account none.
Init ==
    /\ \E held \in [Users -> [Denoms -> 0..1]] :
         /\ balance = [h \in Holders |-> IF h \in Users THEN held[h]
                                         ELSE [d \in Denoms |-> 0]]
         /\ supply = [d \in Denoms |-> SumFunction([u \in Users |-> held[u][d]])]

Next ==
    \E pool \in Pools, u \in Users, d \in Denoms, amt \in Amounts :
        \/ LockTokens(pool, u, d, amt)
        \/ UnLockTokens(pool, u, d, amt)
        \/ BurnTokens(u, d, amt)
        \/ MintTokens(u, d, amt)

Spec == Init /\ [][Next]_vars

(***************************************************************************)
(* Properties                                                              *)
(***************************************************************************)
\* Mint and burn are atomic (BurnTokens, MintTokens): after every
\* operation, a mint to a blocked receiver included, the gmm module account
\* holds nothing, and the supply of every
\* denom is exactly what the accounts and escrows hold.
ModuleHoldsNothing ==
    /\ \A d \in Denoms : balance[Module][d] = 0
    /\ \A d \in Denoms :
         supply[d] = SumFunction([h \in Holders \ {Module} |-> balance[h][d]])
====
