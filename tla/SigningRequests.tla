-------------------------- MODULE SigningRequests --------------------------
(***************************************************************************)
(* Bitcoin signing requests of x/btclightclient                            *)
(* (keeper/keeper_withdraw.go): a sequence counter, requests stored by     *)
(* sequence, the update path of a signer (GetSigningRequest, change the    *)
(* status, SetSigningRequest), and the status filter of the query server.  *)
(*                                                                         *)
(* The callers (the withdraw message handler, the signer) are outside      *)
(* src/; they are the environment: any sender may request a withdrawal,    *)
(* and a signer may move any created request to a new status.             *)
(***************************************************************************)
EXTENDS Integers, Sequences, FiniteSets, TLC

CONSTANTS
    Senders,      \* addresses that request withdrawals
    Vaults,       \* vault addresses ("" is the Bitcoin vault)
    Statuses,     \* SigningStatus values
    Created,      \* SIGNING_STATUS_CREATED
    MaxRequests,  \* bound on the requests created
    FilterLimit   \* the page size of FilterSigningRequestsByStatus (100)

ASSUME Created \in Statuses

VARIABLES
    seq,       \* the stored request sequence (absent reads as 0)
    requests,  \* the store under BtcSigningRequestPrefix: key sequence -> request
    intended   \* history: sequence -> the request as its last writer meant it

vars == <<seq, requests, intended>>

Requests == [address: Senders, status: Statuses, sequence: 1..MaxRequests,
             vault: Vaults]

(***************************************************************************)
(* Keeper operations                                                       *)
(***************************************************************************)
\* BtcSigningRequestKey(1): the key Get and Set use whatever the hash.
SigningRequestKey(hash) == 1

\* Faulty variant: the request is looked up under its hash, a key nothing
\* is stored under, so MustUnmarshal yields the zero request.
GetSigningRequestByHash(hash) ==
    [address |-> "", status |-> "", sequence |-> 0, vault |-> ""]

\* GetSigningRequest: the request under the key; MustUnmarshal of an
\* absent value gives the zero request.
GetSigningRequest(hash) ==
    IF SigningRequestKey(hash) \in DOMAIN requests
    THEN requests[SigningRequestKey(hash)]
    ELSE [address |-> "", status |-> "", sequence |-> 0, vault |-> ""]

\* SetSigningRequest: store the request under the key.
SetSigningRequest(hash, req) ==
    requests' = (SigningRequestKey(hash) :> req) @@ requests

\* Faulty variant: the incremented sequence is not persisted.
IncrementRequestSequenceNoStore == seq' = seq

\* IncrementRequestSequence: read, add one, store.
IncrementRequestSequence == seq' = seq + 1

\* NewSigningRequest: a CREATED request with the next sequence, stored
\* under that sequence.
NewSigningRequest ==
    /\ seq < MaxRequests
    /\ \E sender \in Senders, vault \in Vaults :
         LET req == [address |-> sender, status |-> Created,
                     sequence |-> seq + 1, vault |-> vault]
         IN /\ IncrementRequestSequence
            /\ requests' = (seq + 1 :> req) @@ requests
            /\ intended' = (seq + 1 :> req) @@ intended

\* A signer moves request s to a new status: it reads the request by its
\* transaction hash, changes the status and writes it back by that hash.
UpdateSigningRequest ==
    \E s \in DOMAIN intended, status \in Statuses :
        /\ SetSigningRequest(s, [GetSigningRequest(s) EXCEPT !.status = status])
        /\ intended' = [intended EXCEPT ![s].status = status]
        /\ UNCHANGED seq

\* Faulty variant: the page is closed one request early.
FilterSigningRequestsByStatusOffByOne(status) ==
    LET RECURSIVE Scan(_, _)
        Scan(k, acc) ==
            IF k > MaxRequests THEN acc
            ELSE IF k \in DOMAIN requests /\ requests[k].status = status
                 THEN IF Len(acc) + 1 >= FilterLimit THEN acc
                      ELSE Scan(k + 1, Append(acc, requests[k]))
                 ELSE Scan(k + 1, acc)
    IN Scan(1, <<>>)

\* FilterSigningRequestsByStatus: iterate the requests in key order, keep
\* those with the status, and stop once FilterLimit are kept.
FilterSigningRequestsByStatus(status) ==
    LET RECURSIVE Scan(_, _)
        Scan(k, acc) ==
            IF k > MaxRequests THEN acc
            ELSE IF k \in DOMAIN requests /\ requests[k].status = status
                 THEN IF Len(acc) + 1 >= FilterLimit THEN Append(acc, requests[k])
                      ELSE Scan(k + 1, Append(acc, requests[k]))
                 ELSE Scan(k + 1, acc)
    IN Scan(1, <<>>)

(***************************************************************************)
(* Specification                                                           *)
(***************************************************************************)
Init ==
    /\ seq = 0
    /\ requests = [k \in {} |-> Created]
    /\ intended = [k \in {} |-> Created]

Next == NewSigningRequest \/ UpdateSigningRequest

Spec == Init /\ [][Next]_vars

(***************************************************************************)
(* Properties                                                              *)
(***************************************************************************)
TypeOK ==
    /\ seq \in 0..MaxRequests
    /\ DOMAIN requests \subseteq 1..MaxRequests
    /\ \A k \in DOMAIN requests : requests[k] \in Requests

\* Reference: the first FilterLimit requests with the status, in sequence
\* order.
FirstMatching(status) ==
    LET matching == SelectSeq([k \in 1..MaxRequests |-> k],
                              LAMBDA k : k \in DOMAIN requests /\ requests[k].status = status)
        n == IF Len(matching) < FilterLimit THEN Len(matching) ELSE FilterLimit
    IN [i \in 1..n |-> requests[matching[i]]]

\* Status query (FilterSigningRequestsByStatus): the query returns exactly
\* the first page of requests with the status, however many there are.
FilterIsFirstPage ==
    \A status \in Statuses : FilterSigningRequestsByStatus(status) = FirstMatching(status)

\* No request lost (IncrementRequestSequence, NewSigningRequest): the store
\* holds a request under every sequence handed out and no other key, so no
\* new request overwrites an earlier one.
RequestKeysDense == DOMAIN requests = 1..seq

\* Updates land on their request (GetSigningRequest, SetSigningRequest):
\* every stored request is the one its last writer meant, so a signer's
\* status change is recorded for the request it was about.
UpdatesLandOnTheirRequest ==
    \A s \in DOMAIN intended : requests[s] = intended[s]
====
