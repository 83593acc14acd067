# TLA+ models of the x/router packet-forwarding middleware

This directory holds TLA+ specifications of the repository's packet-forwarding
middleware, `src/x/router`, and of the smaller state-keeping modules (dev-earn
rewards, Bitcoin signing requests, GMM escrow, the yield native transfer), with the TLC configurations that
check them.

## 1. Inventory

### Components

| Component | Source | State | Operations |
|---|---|---|---|
| Middleware shim (`IBCMiddleware`) | `x/router/module_ibc.go` | none of its own; config `retriesOnTimeout`, `forwardTimeout`, `refundTimeout` | `OnRecvPacket` (dispatches to `OnRecvAtomicSwapPacket` / `OnRecvInterchainPacket`), `OnAcknowledgementPacket`, `OnTimeoutPacket` (dispatches to `OnTimeout{AtomicSwap,InterchainSwap}Packet`), the `SendPacket`/`WriteAcknowledgement`/`GetAppVersion` passthroughs, and the channel-lifecycle passthroughs |
| Directive parser | `module_ibc.go:173-195` (+ `types.ForwardMetadata.Validate`, not under src/) | none | decode the memo into a map, look for `"forward"`, decode `PacketMetadata`, `Validate` |
| Forward dispatcher | `keeper.go:365-577` | the record store, the swap keepers' send sequences | `ForwardAtomicSwapPacket`, `ForwardInterchainSwapPacket` |
| Resolution engine | `keeper.go:150-244, 579-729` | the record store | `TimeoutShouldRetry`, `Retry{AtomicSwap,InterchainSwap}Timeout`, `RemoveRoutingPacket`, `GetAndClearRoutingPacket`, `WriteAcknowledgementForForwardedPacket` |
| In-flight record store | `keeper.go`, `types/key.go` | KV store `"<channel>/<port>/<seq>" -> RouterPacketData` | `store.Set/Get/Has/Delete` |
| Keeper IBC plumbing | `keeper.go:59-148, 731-761` | port key, capabilities | `BindPort`, `ClaimCapability`, `ChanCloseInit`, wrappers |
| Dev-earn distribution | `x/devearn/keeper/distribution.go` | `DevEarnInfo` per contract (gas meter, epochs) | `DistributeRewards`, `SendReward`, `TvlReward` |
| BTC signing requests | `x/btclightclient/keeper/keeper_withdraw.go` | request sequence, requests by sequence | `IncrementRequestSequence`, `NewSigningRequest`, `Get/SetSigningRequest`, iteration |
| GMM escrow and messages | `x/gmm/...` | pool escrow balances (bank) | `LockTokens`, `UnLockTokens`, `BurnTokens`, `MintTokens`, `CreatePool`, `MsgWithdraw.ValidateBasic` |
| Yield transfer callback | `x/yield/keeper/ibc_transfer.go` | callback data by packet id | `IBCTransferNativeTokens` |

### How the router's parts interact

IBC core calls the shim's callbacks. `OnRecvPacket` decodes the packet as
atomic-swap data, else as interchain-swap data (else an error ack). A memo
without a `"forward"` key goes to the wrapped app unchanged. A directive that
does not decode or validate gives an error ack. Otherwise the wrapped app's
`OnRecvPacket` runs first, unless the context's `processed` flag says an earlier
middleware already ran it. Then the dispatcher sends the data (memo replaced by
`next`) through the swap keeper and stores a `RouterPacketData` under the new
packet's key. A nil ack is returned, so the original stays unacknowledged until
the forward resolves.

A timeout of a packet with a record either retries or gives up. A retry runs the
wrapped app's timeout, then resends with the same record, decremented. Giving up
deletes the record and writes an error ack for the original. That ack becomes a
success ack when the record is `nonrefundable`. An ack of a packet with a record
should delete the record and proxy the ack upstream.

IBC core runs every callback inside a cached context. An error returned from an
ack or timeout callback fails the transaction, so nothing it wrote survives. An
error ack returned from a receive callback is written, and the callback's other
writes are discarded.

### What is hard

* **Multi-step protocol per original.** Receive, forward, several timeouts and
  retries, then give-up or ack. Each step is a separate transaction, and the
  record in the store carries the state between them.
* **Interleaving.** Several originals are in flight at once. They share one
  channel end's sequence numbers with the swap app's own packets.
* **Partial failure.** The app's receive or timeout handling has happened when the
  send fails. Only the IBC core's discard or revert keeps the two consistent.
* **Boundaries.** The retry counter is decremented in place and tested with `<= 0`.
  A directive can carry `retries: 0`.
* **Routing of events.** Whether an ack or timeout belongs to the router is
  decided by payload decoding and a store lookup.

### Properties that make the router correct

Each forwarded original is answered upstream exactly once, and to its own
address. It is sent at most budget+1 times. Every retry keeps the route and the
next-hop memo. A nonrefundable original is never answered with an error ack (all three: the
refinement of `ForwardResolution`).
Records exist only for unresolved forwards. Events for packets the router did
not forward never touch the store.

### Defects seen while reading (not model-checked)

* `NewKeeper` (`keeper.go:59-86`) never sets `ics4Wrapper`, `atomicswapKeeper` or
  `interchainswapKeeper`.
* `SetAtomicswapKeeper` and `SetInterchainswapKeeper` (`keeper.go:142-148`) have
  value receivers, so their assignment is lost.
* Unless other code fills those fields, the first forward dereferences a nil
  keeper.
* The model assumes the fields are wired.

## 2. Modules

### `PacketForward.tla`: the router on one chain, with its environment

| Code | Model |
|---|---|
| the KV store of `RouterPacketData` | `store`: a function from `RefundPacketKey(channel, port, seq)` tuples to `[refund, retries, nonrefundable]`; `refund` stands for all the `Refund*` and `PacketSrc*` fields, which are copied together |
| IBC core's packet commitments | `inflight`: the packets sent on this chain awaiting ack or timeout |
| the sequence counter of a channel end | `nextSeq` |
| acks of the originals | `recvResult` (returned by `OnRecvPacket`) and `upAck` (written later by the router) |
| `OnRecvPacket` and the two `OnRecv*Packet` | `OnRecvPacket`, `OnRecvSwapPacket`, `OnRecvInterchainPacket` |
| `Forward*SwapPacket` | `ForwardSwapPacket` and its two wrappers, `RoutingPacketAfterSend` |
| `OnTimeoutPacket` and the two `OnTimeout*SwapPacket` | `OnTimeoutPacket`, `OnTimeoutSwapPacket`, `TimeoutShouldRetry`, `RetrySwapTimeout` |
| `OnAcknowledgementPacket` | `OnAcknowledgementPacket`, `WriteAcknowledgementForForwardedPacket`, `ProxiedAck` |
| the swap app sending its own packets | `SendPacket` (through the shim's ICS4 passthrough) |

The `OnRecv*Packet` handler picks its inputs with `\E`: the payload kind, the memo
form, the `processed` and `nonrefundable` context values (nil, a bool, or a
value of another type, read through `GetBoolFromAny` as `getBoolFromAny` does), the wrapped app's ack,
and whether the send succeeds. Outcomes that make a callback return an error
are not steps, because the core reverts them. Examples are the wrapped app's
timeout failing, a resend failing, and the ack write failing. History
variables (`fwdMemo`, `nonref`, `sends`, `swallowed`) record what the properties
compare against.

**Abstractions.**

* Payloads are reduced to their kind.
* Memos are reduced to three forms (no directive, undecodable directive, decoded
  directive). A decoded directive keeps port, channel (possibly empty), retries
  (possibly absent) and `next`.
* Timeouts are dropped: the code sends every forward with timeout height 0 and
  timestamp 0, whatever the directive says.
* The transport may deliver an ack or a timeout for any sent packet.
* Each codec accepts exactly its own JSON. So the ICS-20 decode in
  `OnAcknowledgementPacket` rejects every swap packet: ibc-go's proto-JSON
  decoding refuses unknown fields.


State added for channel close: `closed`, the channel ends closed by
`OnChanCloseConfirm` (from the constant `Closable`). On a closed end the core
refuses `SendPacket` (so a forward or resend fails) and acknowledgements, and
still delivers timeouts (timeout-on-close).

### `ForwardResolution.tla`: the abstract promise

Per original, `phase` goes `idle -> answered` (`AnswerAtOnce`: the receive
callback's own ack) or `idle -> forwarding -> resolved` (`TakeOver`, then one
`Resolve` by the router). `nonref` records a nonrefundable take-over, and
`Resolve` never writes an error ack for one. No fairness: it is a safety
promise. `PacketForward` implements it through the mapping `AbsPhase` (from
`recvResult` and `upAck`) and `AbsAck`; `ImplementsResolution ==
Resolution!ASpec` is a `PROPERTY` of `forward_core`. It says at once: at most
one answer per original, no answer before receipt, and never an error for a
nonrefundable forward.

### `DevEarn.tla`: epoch rewards (`x/devearn/keeper/distribution.go`)

| Code | Model |
|---|---|
| `DevEarnInfo` store | `info`: contract -> `[epochs, gasMeter]` |
| devearn module account balance | `pool`; owners' balances `received` |
| native supply (first page of `GetPaginatedTotalSupply`) | `supply`, chosen in `Supplies` |
| EVM hook adding gas (outside src/) | `AddGas(c)` |
| `DistributeRewards` + `SendReward` + `TvlReward` | `DistributeRewards`, `PayReward`, `SendReward`, `TvlReward`, `TvlRewardPanics` |
| `GetBalance(sdk.AccAddress(contractAddress))` in `TvlReward` | `CastBalance[c]`: the balance of the account named by the bytes of the address string, not the contract's `ContractBalance[c]` |
| `sdk.Dec` | integers scaled by `DecPrecision`: `NewDecFromInt`, `DecQuo` (with `ChopPrecisionAndRound`, half to even), `DecMulInt`, `TruncateInt` |
| Go map iteration in `SendReward` | any order: `\E order \in SetToSeqs(...)`, folded with `FoldLeft` |
| a panic in the epoch hook | `halted` (the chain stops) |

History variables `registered`, `rounds`, `spent`, `lastRound` hold what the
properties compare. Bounds: 3 contracts (one with native balance, two with
the same owner), module balances 9 and 21, epochs 1..2, gas 0..4 per epoch
(so that gas ratios such as 1/3 and 2/7 are rounded, and 1/6, 1/6, 4/6 all
round up; with half the balance at 10 the rewards 2, 2 and 7 then add up to
11), `DecPrecision = 10`, `Uint64Bound = 32` (so that a
supply of 40 does not fit, as a supply above 2^64 does not in the code),
no owner is a blocked address, and nobody funds the accounts the byte cast
names (`CastBalance` 0); `Uint32Modulus = 256` (TLC's integers cannot hold 2^32; with epochs at most 2
the wrap is never reached in a correct run). Fairness: `WF(DistributeRewards)`
-- the epochs module calls the hook at every epoch end, whatever else happens.

### `SigningRequests.tla`: Bitcoin signing requests (`x/btclightclient/keeper/keeper_withdraw.go`)

`seq` is the stored sequence, `requests` the store by key, `intended` a history
of what each writer meant. `NewSigningRequest` (with
`IncrementRequestSequence`) stores a CREATED request under `seq+1`;
`UpdateSigningRequest` is a signer's Get / change status / Set through
`GetSigningRequest` and `SetSigningRequest`, which both use
`SigningRequestKey(hash) == 1` as the code does. `FilterSigningRequestsByStatus`
is a `RECURSIVE` scan in key order that stops after `FilterLimit` matches, and
is checked against the reference `FirstMatching` (a `SelectSeq`) in every
reachable store. Bounds: 2 senders, 2 vaults, 3 statuses, 4 requests, page size
2 (so pages both fill and do not).

### `GmmEscrow.tla`: GMM bank operations (`x/gmm/keeper/bank.go`)

`balance` (holder -> denom -> amount) and `supply` stand for the bank keeper.
`LockTokens`, `UnLockTokens`, `BurnTokens`, `MintTokens` are the keeper's four
functions; `SendCoins` the bank's send (error on a zero coin or a short
balance, an error being no step), `NewCoins` the drop of a zero coin.
`Blocked` are the addresses the bank refuses module sends to: a mint to one
fails at its send, and the panic reverts the mint. The
handlers that call these (add liquidity, withdraw, swap) are outside src/, so
`Next` lets any user call any of them on any pool. Burn and mint are single
steps because the code panics, aborting the message, when the second half
fails. Bounds: 2 users (one blocked), 1 pool, 2 denoms, amounts 0..2, supply
at most 3.

### `YieldTransfer.tla`: native-token transfer (`x/yield/keeper/ibc_transfer.go`)

`IBCTransferNativeTokens(r)` sends a transfer packet with the channel end's
next sequence (`inflight`, `nextSeq`) and stores callback data under
`PacketID(port, channel, sequence)` in `callbacks`; it leaves the deposit
record's `status` alone, as the code does (the update is commented out). An
error from `Transfer` returns before any write, so it is no step. The caller
and the consumer of the callback data are not in this repository and are the
environment, as the imported records and icacallbacks modules run them:
`TransferDeposit` transfers a record whose status is `TRANSFER_QUEUE`, and
`ResolveTransfer` (an ack or a timeout) looks up the callback data, moves the
record to `DELEGATION_QUEUE` on success or back to `TRANSFER_QUEUE` otherwise,
and removes the data. Bounds: 2 deposit records (symmetric), 4 sequences, so
a record can be transferred, time out and be transferred again.

## 3. Runs

| Run | cfg | Expect | What it shows |
|---|---|---|---|
| `forward_core` | `MCPacketForward.cfg` | pass | 2 originals, 1 closable channel end, retries 0..1, one own app packet: `TypeOK`, `RetryBound`, `ForwardsTracked`, `RetryKeepsRoute`, the refinement `ImplementsResolution`, `ForwardedSettledUnlessClosed` (every forwarded original is eventually answered, unless its forward's ack was swallowed or its channel closed), and the action property `AppPacketsNeverTouchRecords` (an ack or timeout of the app's own packet never changes the record store) (445,440 states, under 3 minutes) |
| `retry_moves_record` | `MCPacketForward_RetryMovesRecord.cfg` | violation | a retry leaves the timed-out key's record behind (spec section 8 scenario 2 says it is moved) |
| `forwarded_answered` | `MCPacketForward_ForwardedEventuallyAnswered.cfg` | violation | an ack of a forwarded packet goes to the wrapped app; the record stays and the original is never answered |
| `closed_channel_strands` | `MCPacketForward_ClosedStrands.cfg` | violation | forward, close the channel, time out: the resend fails, the callback errors and is reverted, so the record and the original are stranded |
| `devearn_distribution` | `MCDevEarn.cfg` | pass | `FinalizesAfterEpochs` (an info registered for N epochs takes part in exactly N distributions) and `RewardFollowsEpochGas` (pay only for this epoch's gas, monotone in gas) and `PaidWithinRoundingOfHalf` (the rewards may exceed half the module balance, as 11 of 10 for gas 1, 1, 4, but by at most half a unit of Quo's last digit per contract, times the half), under every map order |
| `devearn_halts` | `MCDevEarn_NoHalt.cfg` | violation | a zero supply, or one that does not fit a uint64, makes `TvlReward` panic and halts the chain |
| `devearn_tvl_share` | `MCDevEarn_TvlShare.cfg` | violation | the TVL half is computed and discarded: a contract holding supply is paid less than its TVL share |
| `signing_requests` | `MCSigningRequests.cfg` | pass | `RequestKeysDense` (no new request overwrites another) and `FilterIsFirstPage` (the paginated filter is exactly the first page) |
| `signing_updates` | `MCSigningRequests_Updates.cfg` | violation | a signer's update reads and writes key 1, so it overwrites request 1 with another request's fields |
| `gmm_escrow` | `MCGmmEscrow.cfg` | pass | any sequence of lock, unlock, burn and mint, mints to a blocked receiver included, keeps the module account empty and the supply equal to the holdings (`ModuleHoldsNothing`) |
| `yield_transfer` | `MCYieldTransfer.cfg` | pass | every transfer in flight has callback data under its own packet id naming its record, and none outlives its packet (`CallbackForEveryTransfer`) |
| `yield_one_in_flight` | `MCYieldTransfer_OneInFlight.cfg` | violation | a record still queued is transferred again while its first transfer is in flight |

**PacketForward bounds.** `MaxSeq = 5` is enough for two originals, each sent at
most twice, plus one app packet; `ASSUME`s in `MCPacketForward` check this, so
no forward or retry of a correct run is cut off. Two originals are enough for
their forwards to interleave on one channel end. A retry budget of 1 covers
both outcomes of `TimeoutShouldRetry` (a first timeout retries; a second, or
`retries: 0`, gives up). One closable end is enough for a close to land before,
between and after forwards.

**Fairness.** PacketForward assumes only weak fairness of delivery: while
packets are in flight, the relayer eventually delivers an ack or a timeout for
one of them. The code arms no timers; relaying is the environment's job. No
fairness is assumed of receiving originals, of the app's sends or of channel
close. DevEarn assumes weak fairness of `DistributeRewards` (the epoch hook).
The other modules check safety only. `ForwardedSettledUnlessClosed` is checked
with the closable channel; the unconditional `ForwardedEventuallySettled` is
what `closed_channel_strands` refutes.

`CHECK_DEADLOCK FALSE` is set for PacketForward and DevEarn because they really
stop: all traffic done, or all infos expired (or the chain halted).
YieldTransfer stops when its sequences run out. SigningRequests and GmmEscrow
are checked for deadlock.

## 4. Findings

1. `module_ibc.go:345` (code bug). The ack handler decodes packet data as ICS-20
   `FungibleTokenPacketData`, and every forwarded packet is swap data, so
   forwarded acks never reach `GetAndClearRoutingPacket`: the record leaks, the
   original never gets an ack, and the wrapped app processes an ack for a packet
   it did not originate. The passing `ForwardedSettledUnlessClosed` therefore
   admits "the ack was swallowed"; the spec's stronger `ForwardedEventuallyAnswered`
   fails.
2. `module_ibc.go:420` / `keeper.go:465-468` (spec divergence). A retry stores
   the record under the new key and never deletes the old one.
3. `module_ibc.go:420` (spec divergence). A retry whose resend fails returns an
   error; the core reverts the timeout, and once the channel is closed nothing
   can resolve the record. The spec treats a failed retry as exhausted.
4. `distribution.go:139` (code bug). `Uint64()` panics on a supply or balance
   that does not fit, and `Quo` on a zero supply: the hook halts the chain.
5. `distribution.go:90` (code bug). `reward.Add(...)` returns a new value that is
   discarded, so the TVL half is never paid. Were it kept, the ratio would
   still be wrong: line 140 reads the balance of `sdk.AccAddress(contractAddress)`,
   the bytes of the hex string taken as an address, not the contract's
   account.
6. `keeper_withdraw.go:58,68` (code bug). Get and Set ignore the hash and use
   key 1, so every update overwrites request 1.
7. `ibc_transfer.go:45` (code bug). The record's move to `TRANSFER_IN_PROGRESS`
   is commented out (TODO), so a record stays queued while its transfer is in
   flight and the next epoch transfers its tokens again.

## 5. Mutants

Every property of a passing run is broken by a plausible bug in the code it is
about:

| Run | Property | Mutated definition | Bug |
|---|---|---|---|
| `forward_core` | `TypeOK` | `TimeoutShouldRetry` | `< 0` instead of `<= 0` |
| `forward_core` | `RetryBound` | `RoutingPacketAfterSend` | no decrement |
| `forward_core` | `ForwardsTracked` | `RetrySwapTimeout` | nil record passed, rebuilt from the empty packet |
| `forward_core` | `RetryKeepsRoute` | `RetryMetadata` | `Next` dropped |
| `forward_core` | `ImplementsResolution` | `ProxiedAck` | no nonrefundable rewrite |
| `forward_core` | `ForwardedSettledUnlessClosed` | `TimeoutShouldRetry` | give-up returns no record |
| `forward_core` | `AppPacketsNeverTouchRecords` | `RefundPacketKey` | sequence left out of the key |
| `devearn_distribution` | `TypeOK` | `IsActive` | `>= 0` keeps expired infos |
| `devearn_distribution` | `FinalizesAfterEpochs` | `EpochsAfter` | no decrement |
| `devearn_distribution` | `RewardFollowsEpochGas` | `RolledInfo` | gas meter not reset |
| `devearn_distribution` | `PaidWithinRoundingOfHalf` | `DecQuo` | `QuoRoundUp` in place of `Quo` |
| `signing_requests` | `TypeOK` | `GetSigningRequest` | lookup by hash yields the zero request |
| `signing_requests` | `RequestKeysDense` | `IncrementRequestSequence` | sequence not stored |
| `signing_requests` | `FilterIsFirstPage` | `FilterSigningRequestsByStatus` | page closed one early |
| `gmm_escrow` | `ModuleHoldsNothing` | `MintTokens` | send error dropped instead of panicking |
| `yield_transfer` | `TypeOK` | `PacketID` | sequence left out of the callback key |
| `yield_transfer` | `CallbackForEveryTransfer` | `IBCTransferNativeTokens` | callback data not stored |

## 6. Plan

Done: the PacketForward core; violation runs for its divergences; the abstract
specification and refinement; channel close as a fault; liveness on an open
route; DevEarn (three contracts); SigningRequests; GmmEscrow; YieldTransfer.
What remains is listed under "Not modelled" with the reason it stays so.

## 7. Not modelled, and why

* Channel-lifecycle callbacks other than close confirm, the
  `WriteAcknowledgement`/`GetAppVersion` passthroughs, capability and port
  plumbing: stateless delegation.
* Timeout values and the `Timeout` field of the record: they never influence
  control, because the send ignores them.
* Escrow accounting of the swap apps: outside the repository. So nothing
  checks what the wrapped app credited before a failed forward's error ack
  (`module_ibc.go:238`).
* Zero timeouts (`keeper.go:423`): whether `SendSwapPacket` accepts a packet
  with both timeouts zero is decided outside this repository; the model lets
  every sent packet time out.
* Blocked reward owners in DevEarn (`distribution.go:106`): which addresses
  are blocked is the app's configuration, outside src/.
* The GMM message handlers, `msg_server_create_pool.go` (an empty stub),
  `MsgWithdraw.ValidateBasic`, address validation, error registration and the
  simulation stub: outside src/ or without state.
* Multi-hop composition (two chains each running `PacketForward`). Finding 1
  means no forwarded ack ever crosses a hop, and a timeout proves that the
  downstream chain never received the packet; so the end-to-end properties
  reduce to the single-chain ones, at the square of the state space.
* The memo decode order (`module_ibc.go:150`): which inputs both generated
  swap codecs accept cannot be read from this repository.
* `getDenomForThisChain` (`module_ibc.go:107-124`): called only from
  commented-out code.
* Address validation (`src/types/validate.go`): stateless hex-string checks
  decided by go-ethereum's parsing; no modelled code calls them.
* Router keeper wiring (`keeper.go:59-148`): see "Defects seen while reading";
  a nil dereference on the first forward, not a question for a model checker.
* The callers of `IBCTransferNativeTokens` and the transfer callback: not in
  this repository; modelled only as the environment of `YieldTransfer`.
