--------------------------- MODULE PacketForward ---------------------------
(***************************************************************************)
(* The packet-forwarding middleware of x/router (module_ibc.go and         *)
(* keeper/keeper.go) on one chain, together with the environment it talks  *)
(* to: the IBC core that delivers packets, acknowledgements and timeouts,  *)
(* and the wrapped swap application whose callbacks it invokes.            *)
(*                                                                         *)
(* Every handler runs as one atomic step.  The IBC core runs a callback in *)
(* a cached context: an error returned from OnAcknowledgementPacket or     *)
(* OnTimeoutPacket fails the whole transaction, so such an outcome is no   *)
(* step at all; an error acknowledgement returned from OnRecvPacket is     *)
(* written while the callback's other writes are discarded.                *)
(***************************************************************************)
EXTENDS Integers, FiniteSets, Functions, TLC

CONSTANTS
    Originals,         \* inbound packets that may arrive on this chain
    Channels,          \* channel identifiers a directive or the app may send on
    Ports,             \* port identifiers a directive or the app may send on
    RetriesOnTimeout,  \* im.retriesOnTimeout, the default retry budget
    MaxRetries,        \* largest "retries" value a directive carries
    MaxSeq,            \* bound on the sequence numbers of one channel end
    MaxAppSends,       \* bound on packets the swap app sends on its own
    Closable,          \* channel ends whose channel the counterparty may close
    NoPacket,          \* the empty channeltypes.Packet{} passed on a retry
    None               \* absent value (nil pointer, no directive)

ASSUME RetriesOnTimeout \in 0..255 /\ MaxRetries \in 0..255

VARIABLES
    recvResult,   \* Originals -> ack returned by OnRecvPacket ("none": not received)
    upAck,        \* Originals -> ack later written for the original by the router
    store,        \* the routing-packet store: RefundPacketKey -> RouterPacketData
    inflight,     \* packets sent on this chain, awaiting acknowledgement or timeout
    nextSeq,      \* <<channel, port>> -> next send sequence of that channel end
    appSent,      \* number of packets the swap app sent on its own
    closed,       \* channel ends whose channel is closed
    fwdMemo,      \* history: the directive each forwarded original carried
    nonref,       \* history: the nonrefundable context flag at receipt
    sends,        \* history: number of forwards sent for each original
    swallowed     \* history: originals whose forward's ack went to the wrapped app

vars == <<recvResult, upAck, store, inflight, nextSeq, appSent, closed,
          fwdMemo, nonref, sends, swallowed>>
history == <<fwdMemo, nonref, sends, swallowed>>

(***************************************************************************)
(* Data.  Packet payloads are abstracted to their kind: the JSON codec of  *)
(* the atomic-swap app, of the interchain-swap app, or neither.  A memo is *)
(* abstracted to what OnRecv*Packet tells apart: no "forward" key (or not  *)
(* JSON), a "forward" value that does not decode as ForwardMetadata, or a  *)
(* decoded directive.  Timeouts are left out: the forward is sent with     *)
(* timeout height 0 and timestamp 0 whatever the directive says.           *)
(***************************************************************************)
SwapKinds == {"atomicswap", "interchainswap"}
PayloadKinds == SwapKinds \cup {"transfer"}

\* A codec's UnmarshalJSON accepts exactly the JSON of its own packet data.
DecodesAs(kind, codec) == kind = codec

NextMemos == {"", "next"}
Directives == [form: {"forward"}, port: Ports, channel: Channels \cup {""},
               retries: {None} \cup 0..MaxRetries, next: NextMemos]
Memos == {[form |-> f, port |-> "", channel |-> "", retries |-> None, next |-> ""]
            : f \in {"nodirective", "badforward"}} \cup Directives

\* Acks the wrapped app's OnRecvPacket may return ("async" is a nil ack).
AppAcks == {"success", "error", "async"}
Acks == {"success", "error"}

RoutingPackets == [refund: Originals \cup {NoPacket},
                   retries: -1..255, nonrefundable: BOOLEAN]

Packets == [channel: Channels, port: Ports, seq: 1..MaxSeq, kind: SwapKinds,
            memo: NextMemos, data: Originals \cup {NoPacket}]

\* Faulty variant: the key leaves out the sequence.
RefundPacketKeyNoSeq(channel, port, sequence) == <<channel, port, 0>>

\* types.RefundPacketKey: "<channel>/<port>/<sequence>".
RefundPacketKey(channel, port, sequence) == <<channel, port, sequence>>
Key(pkt) == RefundPacketKey(pkt.channel, pkt.port, pkt.seq)

(***************************************************************************)
(* Directive parser: ForwardMetadata.Validate lives outside src/; it       *)
(* rejects an empty port or channel.                                       *)
(***************************************************************************)
Validate(metadata) == metadata.port # "" /\ metadata.channel # ""

\* Values the context may hold under ProcessedKey / NonrefundableKey: none,
\* a bool, or a value of another type set by some other middleware.  A
\* value is its dynamic type and, for a bool, the bool.
ContextValues == {[type |-> "nil"], [type |-> "other"]}
                 \cup {[type |-> "bool", val |-> b] : b \in BOOLEAN}

\* getBoolFromAny: nil gives FALSE; the value.(bool) assertion gives the
\* bool, or FALSE when the value is of another type.
GetBoolFromAny(value) == IF value.type = "bool" THEN value.val ELSE FALSE

\* OnRecv*Packet: the directive's retries, or im.retriesOnTimeout if absent.
EffectiveRetries(metadata) ==
    IF metadata.retries = None THEN RetriesOnTimeout ELSE metadata.retries

(***************************************************************************)
(* Forward dispatcher: ForwardAtomicSwapPacket / ForwardInterchainSwapPacket *)
(***************************************************************************)
NewRoutingPacket(srcPacket, maxRetries, nonrefundable) ==
    [refund |-> srcPacket, retries |-> maxRetries, nonrefundable |-> nonrefundable]

\* Faulty variant: a retry does not decrement retries_remaining.
RoutingPacketAfterSendNoDecrement(routingPacket, srcPacket, maxRetries, nonrefundable) ==
    IF routingPacket = None
    THEN NewRoutingPacket(srcPacket, maxRetries, nonrefundable)
    ELSE routingPacket

\* The record stored after a successful send: a new one on a first forward,
\* the given one with retries_remaining decremented on a retry.
RoutingPacketAfterSend(routingPacket, srcPacket, maxRetries, nonrefundable) ==
    IF routingPacket = None
    THEN NewRoutingPacket(srcPacket, maxRetries, nonrefundable)
    ELSE [routingPacket EXCEPT !.retries = @ - 1]

\* Send data (memo replaced by the directive's next memo) on the directive's
\* channel end through the swap keeper, then store the record under the new
\* packet's key.  `pending' is the set of in-flight packets the send adds to.
\* A failed send stores nothing; the callers turn it into their own error.
ForwardSwapPacket(routingPacket, srcPacket, kind, data, metadata, maxRetries, nonrefundable, pending) ==
    LET end == <<metadata.channel, metadata.port>>
        seq == nextSeq[end]
        pkt == [channel |-> metadata.channel, port |-> metadata.port, seq |-> seq,
                kind |-> kind, memo |-> metadata.next, data |-> data]
    IN /\ seq <= MaxSeq
       /\ end \notin closed                   \* SendPacket needs an OPEN channel
       /\ inflight' = pending \cup {pkt}
       /\ nextSeq' = [nextSeq EXCEPT ![end] = seq + 1]
       /\ store' = (Key(pkt) :> RoutingPacketAfterSend(routingPacket, srcPacket,
                                        maxRetries, nonrefundable)) @@ store
       /\ sends' = IF data \in Originals
                   THEN [sends EXCEPT ![data] = @ + 1] ELSE sends

ForwardAtomicSwapPacket(routingPacket, srcPacket, data, metadata, maxRetries, nonrefundable, pending) ==
    ForwardSwapPacket(routingPacket, srcPacket, "atomicswap", data, metadata,
                      maxRetries, nonrefundable, pending)

ForwardInterchainSwapPacket(routingPacket, srcPacket, data, metadata, maxRetries, nonrefundable, pending) ==
    ForwardSwapPacket(routingPacket, srcPacket, "interchainswap", data, metadata,
                      maxRetries, nonrefundable, pending)

Forward(kind, routingPacket, srcPacket, data, metadata, maxRetries, nonrefundable, pending) ==
    IF kind = "atomicswap"
    THEN ForwardAtomicSwapPacket(routingPacket, srcPacket, data, metadata,
                                 maxRetries, nonrefundable, pending)
    ELSE ForwardInterchainSwapPacket(routingPacket, srcPacket, data, metadata,
                                     maxRetries, nonrefundable, pending)

(***************************************************************************)
(* In-flight record store and resolution engine (keeper.go)               *)
(***************************************************************************)
\* ibc-go's WriteAcknowledgement fails if the packet already has an ack.
AckWritten(p) == recvResult[p] \in {"success", "error"} \/ upAck[p] # "none"

\* Faulty variant: the nonrefundable rewrite is left out.
ProxiedAckPassThrough(routingPacket, ack) == ack

\* The ack written upstream: the received one, except that a failure on a
\* nonrefundable record becomes a success ack ("packet forward failed after
\* point of no return").
ProxiedAck(routingPacket, ack) ==
    IF ack = "error" /\ routingPacket.nonrefundable THEN "success" ELSE ack

\* Look up the refund channel (fails for the empty packet of a record built
\* from channeltypes.Packet{}) and write the proxied ack for the original
\* packet.  A failure returns an error, which reverts the whole step.
WriteAcknowledgementForForwardedPacket(routingPacket, ack) ==
    LET p == routingPacket.refund
    IN /\ p \in Originals
       /\ ~AckWritten(p)
       /\ upAck' = [upAck EXCEPT ![p] = ProxiedAck(routingPacket, ack)]

Unstore(key) == Restrict(store, DOMAIN store \ {key})

\* RemoveRoutingPacket: delete the key if present.
RemoveRoutingPacket(key) ==
    store' = IF key \in DOMAIN store THEN Unstore(key) ELSE store

\* GetAndClearRoutingPacket: nil if the key has no record (not a forwarded
\* packet); otherwise the record, deleted from the store.
GetAndClearRoutingPacket(key) ==
    IF key \in DOMAIN store
    THEN [routingPacket |-> store[key], store |-> Unstore(key)]
    ELSE [routingPacket |-> None, store |-> store]

\* Faulty variant: giving up returns no record, so the timeout is delegated.
TimeoutShouldRetryGiveUpNil(key) ==
    IF key \notin DOMAIN store THEN [routingPacket |-> None, err |-> FALSE]
    ELSE IF store[key].retries <= 0 THEN [routingPacket |-> None, err |-> TRUE]
    ELSE [routingPacket |-> store[key], err |-> FALSE]

\* Faulty variant: exhaustion tested with < 0 instead of <= 0.
TimeoutShouldRetryBelowZero(key) ==
    IF key \notin DOMAIN store THEN [routingPacket |-> None, err |-> FALSE]
    ELSE [routingPacket |-> store[key], err |-> store[key].retries < 0]

\* TimeoutShouldRetry: no record for a packet that was not forwarded; the
\* record and an error once retries_remaining <= 0; the record otherwise.
TimeoutShouldRetry(key) ==
    IF key \notin DOMAIN store THEN [routingPacket |-> None, err |-> FALSE]
    ELSE [routingPacket |-> store[key], err |-> store[key].retries <= 0]

\* Faulty variant: the retry sends no Next memo.
RetryMetadataNoNext(pkt) == [channel |-> pkt.channel, port |-> pkt.port, next |-> ""]

\* Retry*Timeout: resend on the timed-out packet's own source channel end,
\* with Next set to the packet's memo when that is not empty.
RetryMetadata(pkt) ==
    [channel |-> pkt.channel, port |-> pkt.port,
     next |-> IF pkt.memo # "" THEN pkt.memo ELSE ""]

\* Faulty variant: the retry passes a nil record, so a fresh one is built
\* from the empty source packet.
RetrySwapTimeoutFresh(pkt, routingPacket, pending) ==
    Forward(pkt.kind, None, NoPacket, pkt.data, RetryMetadata(pkt),
            routingPacket.retries, routingPacket.nonrefundable, pending)

\* RetryAtomicSwapTimeout: forward the timed-out packet's data again with
\* the existing record and an empty source packet.
RetrySwapTimeout(pkt, routingPacket, pending) ==
    Forward(pkt.kind, routingPacket, NoPacket, pkt.data, RetryMetadata(pkt),
            routingPacket.retries, routingPacket.nonrefundable, pending)

RetryInterchainSwapTimeout(pkt, routingPacket, pending) ==
    RetrySwapTimeout(pkt, routingPacket, pending)

(***************************************************************************)
(* Middleware shim: the IBCMiddleware callbacks (module_ibc.go)            *)
(***************************************************************************)
\* OnRecvAtomicSwapPacket / OnRecvInterchainPacket for original p.
OnRecvSwapPacket(p, kind) ==
  \E memo \in Memos, pv, nv \in ContextValues, appAck \in AppAcks :
    LET processed == GetBoolFromAny(pv)
        nonrefundable == GetBoolFromAny(nv)
        Answer(ack) ==
          /\ recvResult' = [recvResult EXCEPT ![p] = ack]
          /\ UNCHANGED <<upAck, store, inflight, nextSeq, appSent, closed, history>>
    IN \/ /\ memo.form = "nodirective"          \* passthrough to the app
          /\ Answer(appAck)
       \/ /\ memo.form = "badforward"           \* PacketMetadata decode error
          /\ Answer("error")
       \/ /\ memo.form = "forward"
          /\ ~Validate(memo)
          /\ Answer("error")
       \/ /\ memo.form = "forward"
          /\ Validate(memo)
          /\ ~processed
          /\ appAck # "success"                 \* nil or failed app ack returned
          /\ Answer(appAck)
       \/ /\ memo.form = "forward"
          /\ Validate(memo)
          /\ processed \/ appAck = "success"
          /\ \/ Answer("error")                 \* the swap keeper's send failed
             \/ /\ Forward(kind, None, p, p, memo, EffectiveRetries(memo),
                           nonrefundable, inflight)
                /\ recvResult' = [recvResult EXCEPT ![p] = "forwarded"]
                /\ fwdMemo' = [fwdMemo EXCEPT ![p] = memo]
                /\ nonref' = [nonref EXCEPT ![p] = nonrefundable]
                /\ UNCHANGED <<upAck, appSent, closed, swallowed>>

OnRecvInterchainPacket(p) == OnRecvSwapPacket(p, "interchainswap")

\* OnRecvPacket: decode as atomic-swap data, else as interchain-swap data,
\* else answer with an error ack.
OnRecvPacket(p) ==
    /\ recvResult[p] = "none"
    /\ \E kind \in PayloadKinds :
         IF DecodesAs(kind, "atomicswap") THEN OnRecvSwapPacket(p, "atomicswap")
         ELSE IF DecodesAs(kind, "interchainswap") THEN OnRecvInterchainPacket(p)
         ELSE /\ recvResult' = [recvResult EXCEPT ![p] = "error"]
              /\ UNCHANGED <<upAck, store, inflight, nextSeq, appSent, closed, history>>

\* The wrapped app's OnAcknowledgementPacket; it has no state of the model,
\* the history records an ack of a forwarded packet reaching it.
AppOnAcknowledgementPacket(pkt) ==
    /\ swallowed' = IF Key(pkt) \in DOMAIN store
                    THEN swallowed \cup {pkt.data} ELSE swallowed
    /\ UNCHANGED <<recvResult, upAck, store, nextSeq, appSent, closed, fwdMemo, nonref, sends>>

\* OnAcknowledgementPacket: the packet data is decoded as ICS-20
\* FungibleTokenPacketData; if that fails the ack goes to the wrapped app.
\* Otherwise a stored record is cleared and the ack proxied upstream.
OnAcknowledgementPacket(pkt) ==
    /\ pkt \in inflight
    /\ <<pkt.channel, pkt.port>> \notin closed   \* AcknowledgePacket needs OPEN
    /\ inflight' = inflight \ {pkt}
    /\ \E ack \in Acks :
         IF ~DecodesAs(pkt.kind, "transfer") THEN AppOnAcknowledgementPacket(pkt)
         ELSE LET got == GetAndClearRoutingPacket(Key(pkt))
              IN IF got.routingPacket # None
                 THEN /\ store' = got.store
                      /\ WriteAcknowledgementForForwardedPacket(got.routingPacket, ack)
                      /\ UNCHANGED <<recvResult, nextSeq, appSent, closed, history>>
                 ELSE AppOnAcknowledgementPacket(pkt)

\* OnTimeoutAtomicSwapPacket / OnTimeoutInterchainSwapPacket.  The wrapped
\* app's OnTimeoutPacket, called on delegation and before a retry, settles
\* its own escrow; it has no state of the model.
OnTimeoutSwapPacket(pkt) ==
    LET key == Key(pkt)
        out == TimeoutShouldRetry(key)
        rest == inflight \ {pkt}
    IN \/ /\ out.routingPacket = None           \* not forwarded: delegate
          /\ inflight' = rest
          /\ UNCHANGED <<recvResult, upAck, store, nextSeq, appSent, closed, history>>
       \/ /\ out.routingPacket # None           \* retries exhausted
          /\ out.err
          /\ RemoveRoutingPacket(key)
          /\ WriteAcknowledgementForForwardedPacket(out.routingPacket, "error")
          /\ inflight' = rest
          /\ UNCHANGED <<recvResult, nextSeq, appSent, closed, history>>
       \/ /\ out.routingPacket # None           \* retry
          /\ ~out.err
          /\ IF pkt.kind = "atomicswap"
             THEN RetrySwapTimeout(pkt, out.routingPacket, rest)
             ELSE RetryInterchainSwapTimeout(pkt, out.routingPacket, rest)
          /\ UNCHANGED <<recvResult, upAck, appSent, closed, fwdMemo, nonref, swallowed>>

OnTimeoutInterchainSwapPacket(pkt) == OnTimeoutSwapPacket(pkt)

\* OnTimeoutPacket: atomic-swap data, else interchain-swap data, goes to the
\* forwarding logic, anything else straight to the wrapped app.
OnTimeoutPacket(pkt) ==
    /\ pkt \in inflight
    /\ IF DecodesAs(pkt.kind, "atomicswap") THEN OnTimeoutSwapPacket(pkt)
       ELSE IF DecodesAs(pkt.kind, "interchainswap")
       THEN OnTimeoutInterchainSwapPacket(pkt)
       ELSE /\ inflight' = inflight \ {pkt}
            /\ UNCHANGED <<recvResult, upAck, store, nextSeq, appSent, closed, history>>

\* IBCMiddleware.SendPacket: the swap app sends a packet of its own through
\* the middleware's ICS4 wrapper; nothing is stored for it.
SendPacket ==
    /\ appSent < MaxAppSends
    /\ \E channel \in Channels, port \in Ports, kind \in SwapKinds :
         LET seq == nextSeq[<<channel, port>>]
         IN /\ seq <= MaxSeq
            /\ <<channel, port>> \notin closed
            /\ inflight' = inflight \cup
                 {[channel |-> channel, port |-> port, seq |-> seq, kind |-> kind,
                   memo |-> "", data |-> NoPacket]}
            /\ nextSeq' = [nextSeq EXCEPT ![<<channel, port>>] = seq + 1]
    /\ appSent' = appSent + 1
    /\ UNCHANGED <<recvResult, upAck, store, closed, history>>

\* OnChanCloseInit / OnChanCloseConfirm: the channel of a channel end is
\* closed; the shim passes the callback to the wrapped app.  From then on
\* sends on it fail, no ack is delivered on it, and its packets in flight
\* can only time out (TimeoutOnClose).
OnChanCloseConfirm ==
    /\ \E end \in Closable \ closed : closed' = closed \cup {end}
    /\ UNCHANGED <<recvResult, upAck, store, inflight, nextSeq, appSent, history>>

(***************************************************************************)
(* Specification                                                           *)
(***************************************************************************)
Init ==
    /\ recvResult = [p \in Originals |-> "none"]
    /\ upAck = [p \in Originals |-> "none"]
    /\ store = [k \in {} |-> None]
    /\ inflight = {}
    /\ nextSeq = [e \in Channels \X Ports |-> 1]
    /\ appSent = 0
    /\ fwdMemo = [p \in Originals |-> None]
    /\ nonref = [p \in Originals |-> FALSE]
    /\ sends = [p \in Originals |-> 0]
    /\ swallowed = {}
    /\ closed = {}

\* The relayer delivers an acknowledgement or a timeout for a sent packet.
Deliver(pkt) == OnAcknowledgementPacket(pkt) \/ OnTimeoutPacket(pkt)

Next ==
    \/ \E p \in Originals : OnRecvPacket(p)
    \/ \E pkt \in inflight : OnAcknowledgementPacket(pkt)
    \/ \E pkt \in inflight : OnTimeoutPacket(pkt)
    \/ SendPacket
    \/ OnChanCloseConfirm

\* Relayers keep delivering acks and timeouts of sent packets.
Spec == Init /\ [][Next]_vars /\ WF_vars(\E pkt \in inflight : Deliver(pkt))

(***************************************************************************)
(* Properties                                                              *)
(***************************************************************************)
ForwardedData(S) == {pkt \in S : pkt.data \in Originals}

TypeOK ==
    /\ recvResult \in [Originals -> {"none", "forwarded"} \cup AppAcks]
    /\ upAck \in [Originals -> {"none"} \cup Acks]
    /\ DOMAIN store \subseteq Channels \X Ports \X (1..MaxSeq)
    /\ \A k \in DOMAIN store :
         store[k] \in [refund: Originals \cup {NoPacket},
                       retries: 0..255, nonrefundable: BOOLEAN]
    /\ inflight \subseteq Packets
    /\ nextSeq \in [Channels \X Ports -> 1..MaxSeq + 1]
    /\ appSent \in 0..MaxAppSends
    /\ closed \subseteq Closable

\* Retry bound (TimeoutShouldRetry, Forward*SwapPacket): an original whose
\* directive allows N retries is sent downstream at most N+1 times, however
\* its forwards time out.
RetryBound ==
    \A p \in Originals :
        fwdMemo[p] # None => sends[p] <= EffectiveRetries(fwdMemo[p]) + 1

\* Round-trip addressing (OnRecv*Packet, Forward*SwapPacket, Retry*Timeout):
\* every forward in flight, first send or n-th retry, has a record that
\* refunds to the original it carries, and that original is still awaiting
\* its ack; and an original answered upstream has no forward left in flight.
ForwardsTracked ==
    /\ \A pkt \in ForwardedData(inflight) :
         /\ Key(pkt) \in DOMAIN store
         /\ store[Key(pkt)].refund = pkt.data
         /\ recvResult[pkt.data] = "forwarded"
         /\ upAck[pkt.data] = "none"
    /\ \A p \in Originals :
         upAck[p] # "none" =>
            /\ recvResult[p] = "forwarded"
            /\ \A pkt \in inflight : pkt.data # p

\* Retries keep the route (Retry*Timeout): every forward of an original, the
\* retries included, goes out on the directive's channel end carrying the
\* directive's next-hop memo.
RetryKeepsRoute ==
    \A pkt \in ForwardedData(inflight) :
        /\ pkt.channel = fwdMemo[pkt.data].channel
        /\ pkt.port = fwdMemo[pkt.data].port
        /\ pkt.memo = fwdMemo[pkt.data].next

\* Settlement (OnTimeout*SwapPacket, OnAcknowledgementPacket): a forwarded
\* original is eventually answered upstream, unless an ack of its forward was
\* handed to the wrapped app.
ForwardedEventuallySettled ==
    \A p \in Originals :
        recvResult[p] = "forwarded" ~> (upAck[p] # "none" \/ p \in swallowed)

\* Records are the router's alone (OnTimeout*SwapPacket, TimeoutShouldRetry,
\* RefundPacketKey): an ack or a timeout of a packet the swap app sent on
\* its own never changes the record store, though its sequences interleave
\* with the forwards' on the same channel end.
AppPacketsNeverTouchRecords ==
    [][\A pkt \in inflight \ inflight' : pkt.data = NoPacket => store' = store]_vars

\* Settlement on an open route (OnTimeout*SwapPacket, Retry*Timeout,
\* OnAcknowledgementPacket): a forwarded original is eventually answered
\* upstream, unless an ack of its forward was handed to the wrapped app or
\* the channel it was forwarded on has been closed.
ForwardedSettledUnlessClosed ==
    \A p \in Originals :
        recvResult[p] = "forwarded"
            ~> (upAck[p] # "none" \/ p \in swallowed
                \/ (fwdMemo[p] # None
                    /\ <<fwdMemo[p].channel, fwdMemo[p].port>> \in closed))

\* Spec section 8 / 4.3: a forwarded original is eventually answered upstream
\* (by a proxied ack or by the retries-exhausted error ack).
ForwardedEventuallyAnswered ==
    \A p \in Originals : recvResult[p] = "forwarded" ~> upAck[p] # "none"

\* Spec section 8, scenario 2 (OnTimeout*SwapPacket, Retry*Timeout): when a
\* timed-out forward is replaced by its retry, the record is moved to the
\* new key and the old key's record is gone.
RetryMovesRecord ==
    [][\A pkt \in ForwardedData(inflight \ inflight') :
          (\E q \in inflight' \ inflight : q.data = pkt.data)
              => Key(pkt) \notin DOMAIN store']_vars


(***************************************************************************)
(* Refinement: the router implements the per-original promise of          *)
(* ForwardResolution.  The abstract phase is read off the ack returned by *)
(* OnRecvPacket and the ack the router wrote later; forwards, retries and *)
(* the record store are invisible to it (those steps stutter).            *)
(***************************************************************************)
AbsPhase ==
    [p \in Originals |->
        IF recvResult[p] = "none" THEN "idle"
        ELSE IF recvResult[p] # "forwarded" THEN "answered"
        ELSE IF upAck[p] = "none" THEN "forwarding"
        ELSE "resolved"]

AbsAck ==
    [p \in Originals |->
        IF recvResult[p] \in AppAcks THEN recvResult[p] ELSE upAck[p]]

Resolution == INSTANCE ForwardResolution WITH phase <- AbsPhase, ack <- AbsAck

\* Refinement (OnRecv*Packet, OnTimeout*SwapPacket, OnAcknowledgementPacket,
\* WriteAcknowledgementForForwardedPacket): every original is answered at
\* most once, either by the receive callback or later by the router but
\* never both; the router answers only originals it took over; and an
\* original taken over as nonrefundable is never answered with an error.
ImplementsResolution == Resolution!ASpec

=============================================================================
