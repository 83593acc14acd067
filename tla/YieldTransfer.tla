---------------------------- MODULE YieldTransfer ----------------------------
(***************************************************************************)
(* The native-token transfer of x/yield (keeper/ibc_transfer.go):         *)
(* IBCTransferNativeTokens submits an ICS-20 transfer for a deposit record *)
(* and stores callback data under the packet's id, so that the ack or      *)
(* timeout of that packet can be traced back to the record.               *)
(*                                                                         *)
(* Its caller and the callback that consumes the data are not in this     *)
(* repository; they are the environment, as the records and icacallbacks  *)
(* modules the imports name run them: the epoch hook transfers every       *)
(* deposit record whose status is TRANSFER_QUEUE, and on an ack the        *)
(* transfer callback moves the record to DELEGATION_QUEUE, on an error ack *)
(* or a timeout back to TRANSFER_QUEUE, and the callback data is removed.  *)
(***************************************************************************)
EXTENDS Integers, FiniteSets, Functions, TLC

CONSTANTS
    Records,      \* deposit record ids
    Port,         \* msg.SourcePort of the transfer
    Channel,      \* msg.SourceChannel of the transfer
    MaxSeq,       \* bound on the sequence numbers of the transfer channel end
    NativeTransfer \* IBCCallbacksID_NativeTransfer

VARIABLES
    status,     \* Records -> deposit record status
    nextSeq,    \* next send sequence of the transfer channel end
    inflight,   \* transfer packets awaiting ack or timeout: [seq, record]
    callbacks,  \* the icacallbacks store: CallbackKey -> CallbackData
    sent        \* history: Records -> transfers submitted for the record

vars == <<status, nextSeq, inflight, callbacks, sent>>

Statuses == {"TRANSFER_QUEUE", "DELEGATION_QUEUE"}

(***************************************************************************)
(* Keeper operation                                                        *)
(***************************************************************************)
\* Faulty variant: the sequence is left out of the callback key.
PacketIDNoSequence(port, channel, sequence) == <<port, channel, 0>>

\* icacallbacks PacketID(port, channel, sequence): "<port>.<channel>.<seq>".
PacketID(port, channel, sequence) == <<port, channel, sequence>>

\* Faulty variant: the callback data is not stored.
IBCTransferNativeTokensNoCallback(r) ==
    LET sequence == nextSeq
    IN /\ sequence <= MaxSeq
       /\ inflight' = inflight \cup {[seq |-> sequence, record |-> r]}
       /\ nextSeq' = sequence + 1
       /\ sent' = [sent EXCEPT ![r] = @ + 1]
       /\ UNCHANGED <<status, callbacks>>

\* IBCTransferNativeTokens: TransferKeeper.Transfer sends the packet and
\* returns its sequence (an error returns before anything is written); the
\* callback data for the record is stored under the packet's id.  The
\* record's status update to TRANSFER_IN_PROGRESS is commented out (TODO).
IBCTransferNativeTokens(r) ==
    LET sequence == nextSeq
        callback == [record |-> r, callbackId |-> NativeTransfer, seq |-> sequence]
    IN /\ sequence <= MaxSeq
       /\ inflight' = inflight \cup {[seq |-> sequence, record |-> r]}
       /\ nextSeq' = sequence + 1
       /\ callbacks' = (PacketID(Port, Channel, sequence) :> callback) @@ callbacks
       /\ sent' = [sent EXCEPT ![r] = @ + 1]
       /\ UNCHANGED status

(***************************************************************************)
(* Environment                                                             *)
(***************************************************************************)
\* The epoch hook transfers a deposit record that is queued for transfer.
TransferDeposit ==
    \E r \in Records : /\ status[r] = "TRANSFER_QUEUE"
                       /\ IBCTransferNativeTokens(r)

\* An ack (success or error) or a timeout of a transfer packet: the
\* callback data under its id, if any, names the record to update; the
\* data is then removed.
ResolveTransfer ==
    \E pkt \in inflight, delivered \in BOOLEAN :
        LET key == PacketID(Port, Channel, pkt.seq)
        IN /\ inflight' = inflight \ {pkt}
           /\ callbacks' = Restrict(callbacks, DOMAIN callbacks \ {key})
           /\ status' = IF key \in DOMAIN callbacks
                        THEN [status EXCEPT ![callbacks[key].record] =
                                IF delivered THEN "DELEGATION_QUEUE" ELSE "TRANSFER_QUEUE"]
                        ELSE status
           /\ UNCHANGED <<nextSeq, sent>>

Init ==
    /\ status = [r \in Records |-> "TRANSFER_QUEUE"]
    /\ nextSeq = 1
    /\ inflight = {}
    /\ callbacks = [k \in {} |-> NativeTransfer]
    /\ sent = [r \in Records |-> 0]

Next == TransferDeposit \/ ResolveTransfer

Spec == Init /\ [][Next]_vars

(***************************************************************************)
(* Properties                                                              *)
(***************************************************************************)
TypeOK ==
    /\ status \in [Records -> Statuses]
    /\ nextSeq \in 1..MaxSeq + 1
    /\ inflight \subseteq [seq: 1..MaxSeq, record: Records]
    /\ DOMAIN callbacks \subseteq {Port} \X {Channel} \X (1..MaxSeq)
    /\ sent \in [Records -> 0..MaxSeq]

\* Callback per packet (IBCTransferNativeTokens, SetCallbackData): while a
\* transfer packet is in flight, the callback store holds, under exactly
\* that packet's id, native-transfer data naming the record it was sent
\* for; and the store holds nothing for a packet no longer in flight.
CallbackForEveryTransfer ==
    /\ \A pkt \in inflight :
         LET key == PacketID(Port, Channel, pkt.seq)
         IN /\ key \in DOMAIN callbacks
            /\ callbacks[key].record = pkt.record
            /\ callbacks[key].callbackId = NativeTransfer
    /\ \A key \in DOMAIN callbacks :
         \E pkt \in inflight : PacketID(Port, Channel, pkt.seq) = key

\* One transfer at a time (IBCTransferNativeTokens, lines 45-48): a deposit
\* record has at most one transfer in flight, so its tokens are not sent
\* twice before the first transfer is resolved.
AtMostOneTransferInFlight ==
    \A r \in Records : Cardinality({pkt \in inflight : pkt.record = r}) <= 1
====
