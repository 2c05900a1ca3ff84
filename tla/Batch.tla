------------------------------- MODULE Batch -------------------------------
(***************************************************************************)
(* The merging half of the middlebox (middlebox/src/api.c): the keys asked *)
(* by clients wait in ukey, duplicates removed, until one "gets" message   *)
(* for memcached is built from them, and every message sent is accounted   *)
(* for under a request id until enough of its replies have come back.      *)
(*                                                                         *)
(* The C globals are the fields of one record, so that a handler that      *)
(* calls several functions is a composition of operators on that record.   *)
(* The wall clock is abstracted to one bit: expired is TRUE when TIMEOUT   *)
(* has elapsed since last_send_clock.                                      *)
(***************************************************************************)
EXTENDS Integers, SequencesExt

CONSTANTS
    Key,                  \* keys clients may ask for
    KeyLen,               \* strlen of each key
    MAX_REQ_ID,           \* request ids towards memcached are 0 .. MAX_REQ_ID-1
    MIN_OUTSTANDING_REQ,  \* below this many open requests, send at once
    MAX_PAYLOAD_LEN,      \* longest message
    GETS_LEN,             \* strlen("gets")
    UINT16,               \* modulus of outstanding_req, 65536 in the code
    MaxSeq                \* bound of the model on sequence ids

ReqId == 0 .. MAX_REQ_ID - 1
SeqId == 0 .. MaxSeq

\* MAX_KEY_LENGTH (1443) < MAX_PAYLOAD_LEN - GETS_LEN (1458): one key always fits.
ASSUME KeyLenAssumption ==
    KeyLen \in [Key -> {n \in Nat : n > 0 /\ n < MAX_PAYLOAD_LEN - GETS_LEN}]

ASSUME BatchAssumption ==
    /\ MAX_REQ_ID \in Nat /\ MAX_REQ_ID > 1
    /\ UINT16 \in Nat /\ UINT16 > 1
    /\ MIN_OUTSTANDING_REQ \in Int /\ MIN_OUTSTANDING_REQ < UINT16
    /\ MAX_PAYLOAD_LEN \in Nat /\ GETS_LEN \in Nat /\ GETS_LEN <= MAX_PAYLOAD_LEN
    /\ MaxSeq \in Nat

VARIABLES
    batch,      \* the globals of api.c that concern merging
    in_client   \* app_client_in is between two keys of a client's packet

batchVars == <<batch, in_client>>

NoKeys == << >>

Message == [req : ReqId, keys : Seq(Key)]

BatchState ==
    [ukey : Seq(Key), total_ukey_size : Nat, request_id : ReqId,
     outstanding_req : 0 .. UINT16 - 1,
     keys_sent : [ReqId -> Nat], keys_rcvd : [ReqId -> Nat \cup {-1}],
     last_seq_id : SeqId, expired : BOOLEAN, memcached_pkt : Message]

\* Static storage is zero: no key sent and none received under any id.
InitBatch ==
    [ukey |-> NoKeys, total_ukey_size |-> 0, request_id |-> 0,
     outstanding_req |-> 0,
     keys_sent |-> [r \in ReqId |-> 0], keys_rcvd |-> [r \in ReqId |-> 0],
     last_seq_id |-> 0, expired |-> FALSE,
     memcached_pkt |-> [req |-> 0, keys |-> NoKeys]]

----------------------------------------------------------------------------
(* The functions of api.c, from a state of the batch to the next.          *)

\* Mutant of insert_ukey_group: duplicates are not looked for.
InsertAlways(b, k) ==
    [b EXCEPT !.ukey = Append(b.ukey, k), !.total_ukey_size = @ + KeyLen[k]]

insert_ukey_group(b, k) ==
    IF Contains(b.ukey, k)
    THEN b
    ELSE [b EXCEPT !.ukey = Append(b.ukey, k),
                   !.total_ukey_size = @ + KeyLen[k]]

\* Mutant of IsFull: the spaces between the keys are forgotten.
IsFullNoSpaces(b) == b.total_ukey_size >= MAX_PAYLOAD_LEN - GETS_LEN

\* The last key inserted brought the message over the maximum payload.
IsFull(b) ==
    b.total_ukey_size >= MAX_PAYLOAD_LEN - GETS_LEN - Len(b.ukey) + 1

\* Mutants of Dispatch: request_id does not wrap; api.c:92 is missing.
DispatchUnbounded(b, keys, rest, size) ==
    [b EXCEPT !.ukey = rest,
              !.total_ukey_size = size,
              !.outstanding_req = (@ + 1) % UINT16,
              !.keys_sent[b.request_id] = Len(keys),
              !.keys_rcvd[b.request_id] = 0,
              !.memcached_pkt = [req |-> b.request_id, keys |-> keys],
              !.request_id = @ + 1,
              !.expired = FALSE]

DispatchUncounted(b, keys, rest, size) ==
    [b EXCEPT !.ukey = rest,
              !.total_ukey_size = size,
              !.outstanding_req = (@ + 1) % UINT16,
              !.keys_sent[b.request_id] = Len(keys),
              !.memcached_pkt = [req |-> b.request_id, keys |-> keys],
              !.request_id = (@ + 1) % MAX_REQ_ID,
              !.expired = FALSE]

\* Send keys under the current id, keep the keys of rest, whose lengths add
\* up to size, and take the next id.
Dispatch(b, keys, rest, size) ==
    [b EXCEPT !.ukey = rest,
              !.total_ukey_size = size,
              !.outstanding_req = (@ + 1) % UINT16,
              !.keys_sent[b.request_id] = Len(keys),
              !.keys_rcvd[b.request_id] = 0,
              !.memcached_pkt = [req |-> b.request_id, keys |-> keys],
              !.request_id = (@ + 1) % MAX_REQ_ID,
              !.expired = FALSE]

\* Mutants of construct_pkt_and_send_to_server: a full message drops the key
\* that it has no room for, or keeps the first key back instead of the last.
ConstructDropsLast(b, full_pkt) ==
    IF b.ukey = NoKeys THEN b
    ELSE Dispatch(b, IF full_pkt THEN Front(b.ukey) ELSE b.ukey, NoKeys, 0)

ConstructKeepsFirst(b, full_pkt) ==
    IF b.ukey = NoKeys THEN b
    ELSE IF full_pkt
    THEN Dispatch(b, Tail(b.ukey), <<Head(b.ukey)>>, KeyLen[Head(b.ukey)])
    ELSE Dispatch(b, b.ukey, NoKeys, 0)

\* A full message keeps the last key back as the first of the next message.
construct_pkt_and_send_to_server(b, full_pkt) ==
    IF b.ukey = NoKeys THEN b
    ELSE IF full_pkt
    THEN Dispatch(b, Front(b.ukey), <<Last(b.ukey)>>, KeyLen[Last(b.ukey)])
    ELSE Dispatch(b, b.ukey, NoKeys, 0)

SendIfIdle(b) ==
    IF b.outstanding_req < MIN_OUTSTANDING_REQ
    THEN construct_pkt_and_send_to_server(b, FALSE)
    ELSE b

\* One round of the loop of app_client_in, its part on the batch.
BatchKey(b, k) ==
    LET c == insert_ukey_group(b, k)
    IN  IF IsFull(c) THEN construct_pkt_and_send_to_server(c, TRUE) ELSE c

\* floor(keys_sent * FULFILL_THRESHOLD), the threshold being one half
Threshold(n) == n \div 2

\* Mutant of Fulfil: api.c:231-233 is missing.
FulfilOnly(b, r) ==
    [b EXCEPT !.keys_rcvd[r] = -1, !.outstanding_req = (@ - 1) % UINT16]

Fulfil(b, r) ==
    SendIfIdle([b EXCEPT !.keys_rcvd[r] = -1,
                         !.outstanding_req = (@ - 1) % UINT16])

\* The accounting of app_server_in for a datagram with ids r and seq that
\* was forwarded to at least one client.
CountReply(b, r, seq) ==
    LET rcvd == b.keys_rcvd[r] + 1
        counted ==
            IF b.keys_rcvd[r] < 0 \/ seq > b.last_seq_id THEN b
            ELSE IF rcvd > Threshold(b.keys_sent[r]) THEN Fulfil(b, r)
            ELSE [b EXCEPT !.keys_rcvd[r] = rcvd]
    IN  [counted EXCEPT !.last_seq_id = seq]

\* Some keys wait and TIMEOUT has elapsed since the last send.
BacklogDue(b) == b.ukey # NoKeys /\ b.expired

\* Mutants of refresh_backlog: requests stay tracked; nothing is sent as long
\* as requests are outstanding.
RefreshTracked(b) ==
    IF BacklogDue(b)
    THEN construct_pkt_and_send_to_server([b EXCEPT !.outstanding_req = 0], FALSE)
    ELSE b

RefreshWhenIdle(b) ==
    IF BacklogDue(b) /\ b.outstanding_req = 0
    THEN construct_pkt_and_send_to_server(b, FALSE)
    ELSE b

\* refresh_backlog gives up on every open request before it sends.
refresh_backlog(b) ==
    IF BacklogDue(b)
    THEN construct_pkt_and_send_to_server(
            [b EXCEPT !.outstanding_req = 0,
                      !.keys_rcvd = [r \in ReqId |-> -1]], FALSE)
    ELSE b

----------------------------------------------------------------------------
(* The batch under every environment that answers only what was sent.      *)
(* lcore_main calls refresh_backlog before it hands over a packet          *)
(* (middlebox.c:29), so no handler starts while a backlog is due. A time   *)
(* out that elapses inside a handler is seen after it.                     *)

BatchInit == batch = InitBatch /\ in_client = FALSE

\* app_client_in starts on a client's packet.
ClientIn ==
    /\ ~in_client /\ ~BacklogDue(batch)
    /\ in_client' = TRUE
    /\ UNCHANGED batch

\* The client's packet names k. Nothing bounds the full messages: their count
\* may wrap around.
ClientKey(k) ==
    /\ in_client
    /\ batch' = BatchKey(batch, k)
    /\ UNCHANGED in_client

\* The end of app_client_in.
ClientEnd ==
    /\ in_client
    /\ batch' = SendIfIdle(batch)
    /\ in_client' = FALSE

\* memcached answers a request that was sent.
ServerReply(r, seq) ==
    /\ ~in_client /\ ~BacklogDue(batch)
    /\ batch.keys_sent[r] > 0
    /\ batch' = CountReply(batch, r, seq)
    /\ UNCHANGED in_client

Refresh ==
    /\ ~in_client
    /\ BacklogDue(batch)
    /\ batch' = refresh_backlog(batch)
    /\ UNCHANGED in_client

\* TIMEOUT elapses since the last send.
Tick ==
    /\ ~batch.expired
    /\ batch' = [batch EXCEPT !.expired = TRUE]
    /\ UNCHANGED in_client

BatchNext ==
    \/ ClientIn
    \/ \E k \in Key : ClientKey(k)
    \/ ClientEnd
    \/ \E r \in ReqId, seq \in SeqId : ServerReply(r, seq)
    \/ Refresh
    \/ Tick

\* lcore_main polls for ever and calls refresh_backlog on every turn, a
\* handler runs to its end, and clock() advances.
BatchFairness == WF_batchVars(ClientEnd) /\ WF_batchVars(Refresh) /\ WF_batchVars(Tick)

BatchSpec == BatchInit /\ [][BatchNext]_batchVars
FairBatchSpec == BatchSpec /\ BatchFairness

----------------------------------------------------------------------------
(* Properties *)

\* The globals have their types; in particular a request still tracked has
\* received at most half of its replies.
BatchTypeOK ==
    /\ batch \in BatchState
    /\ in_client \in BOOLEAN

Open(b) == {r \in ReqId : b.keys_rcvd[r] >= 0 /\ b.keys_sent[r] > 0}

\* The requests whose replies are still counted (api.c:218) are among the
\* outstanding_req, so that the decrement of api.c:229 does not pass zero.
Covers(b) == Cardinality(Open(b)) <= b.outstanding_req

\* A full message is counted at the largest value of a uint16_t (api.c:91).
Overflows == batch.outstanding_req = UINT16 - 1 /\ batch'.outstanding_req = 0

\* outstanding_req covers the open requests until its increment overflows, and
\* nothing else makes it too low: not a time-out that forgets all requests, the
\* reuse of an id, or a late reply (api.c:91, 125, 218, 229). Requests that lost
\* most replies, or whose id was reused, stay counted until a time-out, so that
\* under sustained load the increment can overflow.
CoveredUntilOverflow ==
    Covers(batch) /\ [][Covers(batch) => Covers(batch') \/ Overflows]_batchVars

\* README.md:7 and api.c:447, duplicates are removed: neither the waiting
\* keys nor the message last built name a key twice.
NoDuplicateKeys == IsInjective(batch.ukey) /\ IsInjective(batch.memcached_pkt.keys)

\* construct_keys_packet writes "gets" and then, for one key after the other, a
\* space and the key: the length after each round of its loop, and at the end.
Lengths(keys) ==
    LET length[n \in 0 .. Len(keys)] ==
            IF n = 0 THEN GETS_LEN ELSE length[n - 1] + 1 + KeyLen[keys[n]]
    IN  length

WireLength(keys) == Lengths(keys)[Len(keys)]

\* The test of api.c:320, made on total_ukey_size and the number of keys,
\* keeps every message within what init_send_app_payload accepts (api.c:475,
\* where a longer one would be dropped): the running total stays right when a
\* full message keeps a key back, and what waits can be sent at any moment.
MessageFits ==
    /\ WireLength(batch.memcached_pkt.keys) <= MAX_PAYLOAD_LEN
    /\ WireLength(batch.ukey) <= MAX_PAYLOAD_LEN

\* Between two packets, keys wait only while memcached has its minimum of
\* outstanding requests (api.c:231, 325): no handler leaves work behind that
\* the idle server could have been given.
WorkConserving ==
    ~in_client /\ batch.ukey # NoKeys => batch.outstanding_req >= MIN_OUTSTANDING_REQ

\* A send opens the request it sends and nothing else opens one: a request
\* that was fulfilled or timed out is never counted again by a late reply
\* (api.c:92, 218, 228).
SendOpensItsRequest ==
    [][ LET r == batch.request_id
            sent == batch'.request_id # r
        IN  /\ Open(batch') \ Open(batch) \subseteq {r}
            /\ sent => r \in Open(batch')
            /\ r \in Open(batch') \ Open(batch) => sent ]_batchVars

\* A key that a client asks for waits after its round of the loop, also when
\* it filled a message or was waiting before (api.c:79, 453): with QueueSpec
\* and BacklogIsSent, every key asked for is sent.
AskedKeyWaits ==
    [][\A k \in Key : ClientKey(k) => Contains(batch'.ukey, k)]_batchVars

\* The merged keys of batch implement the queue of KeyQueue: nothing that waits
\* is lost, reordered or doubled on the way to memcached.
Queue == INSTANCE KeyQueue WITH queue <- batch.ukey,
                                message <- batch.memcached_pkt.keys
QueueSpec == Queue!QueueSpec

\* Every key that waits is sent: by a full message, by the end of a handler,
\* or at the latest when refresh_backlog finds TIMEOUT elapsed. (A key leaves
\* ukey in no other way: QueueSpec.)
BacklogIsSent ==
    \A k \in Key : Contains(batch.ukey, k) ~> ~Contains(batch.ukey, k)
============================================================================
