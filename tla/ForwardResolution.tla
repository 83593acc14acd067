------------------------- MODULE ForwardResolution -------------------------
(***************************************************************************)
(* What the packet-forwarding middleware promises each inbound packet,     *)
(* with forwarding, timeouts, retries and the record store abstracted      *)
(* away.  An original is received once.  It is either answered at once    *)
(* (the app's ack, or an error ack for a bad payload or directive), or it  *)
(* is taken over by the router and later answered at most once, upstream,  *)
(* by the router.  An original taken over as nonrefundable is never        *)
(* answered with an error.  No fairness: the abstract promise is safety    *)
(* only (whether the answer comes is a separate, liveness question).       *)
(***************************************************************************)
CONSTANTS
    Originals,  \* inbound packets
    AppAcks,    \* what OnRecvPacket may return at once
    Acks        \* acks the router may write later

VARIABLES
    phase,      \* Originals -> "idle" | "answered" | "forwarding" | "resolved"
    ack,        \* Originals -> the ack the original got ("none" while it has none)
    nonref      \* Originals -> taken over as nonrefundable

avars == <<phase, ack, nonref>>

AInit ==
    /\ phase = [p \in Originals |-> "idle"]
    /\ ack = [p \in Originals |-> "none"]
    /\ nonref = [p \in Originals |-> FALSE]

\* The receive callback answers at once.
AnswerAtOnce(p) ==
    /\ phase[p] = "idle"
    /\ \E a \in AppAcks :
         /\ phase' = [phase EXCEPT ![p] = "answered"]
         /\ ack' = [ack EXCEPT ![p] = a]
    /\ UNCHANGED nonref

\* The receive callback takes the original over and returns no ack.
TakeOver(p) ==
    /\ phase[p] = "idle"
    /\ phase' = [phase EXCEPT ![p] = "forwarding"]
    /\ \E n \in BOOLEAN : nonref' = [nonref EXCEPT ![p] = n]
    /\ UNCHANGED ack

\* The router answers a taken-over original, once.
Resolve(p) ==
    /\ phase[p] = "forwarding"
    /\ \E a \in Acks :
         /\ nonref[p] => a # "error"
         /\ phase' = [phase EXCEPT ![p] = "resolved"]
         /\ ack' = [ack EXCEPT ![p] = a]
    /\ UNCHANGED nonref

ANext == \E p \in Originals : AnswerAtOnce(p) \/ TakeOver(p) \/ Resolve(p)

ASpec == AInit /\ [][ANext]_avars
=============================================================================
