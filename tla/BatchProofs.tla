---------------------------- MODULE BatchProofs ----------------------------
(***************************************************************************)
(* Batch is correct for all keys, sizes and limits. The operators on the   *)
(* batch are treated one by one, then each step of BatchNext.              *)
(***************************************************************************)
EXTENDS Batch, FiniteSetTheorems, SequenceTheorems, WellFoundedInduction, TLAPS

----------------------------------------------------------------------------
(* Types *)

\* What a field of a batch is, for the provers.
LEMMA Fields ==
    ASSUME NEW b \in BatchState
    PROVE  /\ b.ukey \in Seq(Key) /\ b.total_ukey_size \in Nat
           /\ b.request_id \in ReqId /\ b.outstanding_req \in 0 .. UINT16 - 1
           /\ b.keys_sent \in [ReqId -> Nat]
           /\ b.keys_rcvd \in [ReqId -> Nat \cup {-1}]
           /\ b.memcached_pkt \in Message
  BY DEF BatchState

LEMMA Arithmetic ==
    /\ \A n \in Nat : (n + 1) % UINT16 \in 0 .. UINT16 - 1
    /\ \A n \in Nat : (n - 1) % UINT16 \in 0 .. UINT16 - 1
    /\ \A r \in ReqId : (r + 1) % MAX_REQ_ID \in ReqId
    /\ 0 \in 0 .. UINT16 - 1 /\ 0 \in ReqId /\ 0 \in SeqId
    /\ 0 .. UINT16 - 1 \subseteq Nat /\ ReqId \subseteq Nat
  BY BatchAssumption DEF ReqId, SeqId

LEMMA DispatchType ==
    ASSUME NEW b \in BatchState, NEW keys \in Seq(Key), NEW rest \in Seq(Key),
           NEW size \in Nat
    PROVE  Dispatch(b, keys, rest, size) \in BatchState
<1>1. /\ (b.outstanding_req + 1) % UINT16 \in 0 .. UINT16 - 1
      /\ (b.request_id + 1) % MAX_REQ_ID \in ReqId
  BY Fields, Arithmetic
<1>2. /\ [b.keys_sent EXCEPT ![b.request_id] = Len(keys)] \in [ReqId -> Nat]
      /\ [b.keys_rcvd EXCEPT ![b.request_id] = 0] \in [ReqId -> Nat \cup {-1}]
  BY Fields
<1>3. [req |-> b.request_id, keys |-> keys] \in Message
  BY Fields DEF Message
<1> QED
  BY <1>1, <1>2, <1>3, Zenon DEF Dispatch, BatchState

LEMMA InsertType ==
    ASSUME NEW b \in BatchState, NEW k \in Key
    PROVE  insert_ukey_group(b, k) \in BatchState
<1>1. Append(b.ukey, k) \in Seq(Key) /\ b.total_ukey_size + KeyLen[k] \in Nat
  BY Fields, KeyLenAssumption
<1> QED
  BY <1>1, Zenon DEF insert_ukey_group, BatchState

LEMMA FrontLast ==
    ASSUME NEW s \in Seq(Key), s # NoKeys
    PROVE  /\ Front(s) \in Seq(Key) /\ Len(Front(s)) = Len(s) - 1
           /\ \A i \in 1 .. Len(s) - 1 : Front(s)[i] = s[i]
           /\ Last(s) \in Key /\ Last(s) = s[Len(s)] /\ Len(s) > 0
<1>1. Len(s) \in Nat /\ Len(s) > 0
  BY EmptySeq DEF NoKeys
<1>2. \A i \in 1 .. Len(s) - 1 : s[i] \in Key
  BY <1>1
<1>3. /\ Front(s) \in Seq(Key)
      /\ Len(Front(s)) = IF 1 <= Len(s) - 1 THEN Len(s) - 1 - 1 + 1 ELSE 0
      /\ \A i \in 1 .. Len(s) - 1 - 1 + 1 : Front(s)[i] = s[1 + i - 1]
  BY <1>1, <1>2, SubSeqProperties DEF Front
<1>4. Len(Front(s)) = Len(s) - 1
  <2> DEFINE n == Len(s) l == Len(Front(s))
  <2>1. n \in Nat /\ n > 0 /\ l = IF 1 <= n - 1 THEN n - 1 - 1 + 1 ELSE 0
    BY <1>1, <1>3
  <2> HIDE DEF n, l
  <2>2. l = n - 1
    BY <2>1
  <2> QED
    BY <2>2 DEF n, l
<1>5. \A i \in 1 .. Len(s) - 1 : i \in 1 .. Len(s) - 1 - 1 + 1 /\ 1 + i - 1 = i
  BY <1>1
<1>6. \A i \in 1 .. Len(s) - 1 : Front(s)[i] = s[i]
  BY <1>3, <1>5
<1>7. Last(s) \in Key /\ Last(s) = s[Len(s)]
  BY <1>1 DEF Last
<1> QED
  BY <1>1, <1>3, <1>4, <1>6, <1>7

LEMMA ConstructType ==
    ASSUME NEW b \in BatchState, NEW full_pkt \in BOOLEAN
    PROVE  construct_pkt_and_send_to_server(b, full_pkt) \in BatchState
<1>1. CASE b.ukey = NoKeys
  BY <1>1 DEF construct_pkt_and_send_to_server
<1>2. CASE b.ukey # NoKeys
  <2>1. b.ukey \in Seq(Key)
    BY DEF BatchState
  <2>2. /\ Front(b.ukey) \in Seq(Key) /\ Last(b.ukey) \in Key
        /\ <<Last(b.ukey)>> \in Seq(Key) /\ KeyLen[Last(b.ukey)] \in Nat
        /\ NoKeys \in Seq(Key) /\ 0 \in Nat
    BY <1>2, <2>1, FrontLast, KeyLenAssumption DEF NoKeys
  <2>3. Dispatch(b, Front(b.ukey), <<Last(b.ukey)>>, KeyLen[Last(b.ukey)]) \in BatchState
    BY <2>2, DispatchType
  <2>4. Dispatch(b, b.ukey, NoKeys, 0) \in BatchState
    BY <2>1, <2>2, DispatchType
  <2> QED
    BY <1>2, <2>3, <2>4 DEF construct_pkt_and_send_to_server
<1> QED
  BY <1>1, <1>2

LEMMA SendIfIdleType ==
    ASSUME NEW b \in BatchState
    PROVE  SendIfIdle(b) \in BatchState
  BY ConstructType DEF SendIfIdle

LEMMA BatchKeyType ==
    ASSUME NEW b \in BatchState, NEW k \in Key
    PROVE  BatchKey(b, k) \in BatchState
  BY InsertType, ConstructType DEF BatchKey

\* The batch of which request r is fulfilled, before anything is sent.
Fulfilled(b, r) ==
    [b EXCEPT !.keys_rcvd[r] = -1, !.outstanding_req = (@ - 1) % UINT16]

LEMMA FulfilledType ==
    ASSUME NEW b \in BatchState, NEW r \in ReqId
    PROVE  Fulfilled(b, r) \in BatchState
<1>1. (b.outstanding_req - 1) % UINT16 \in 0 .. UINT16 - 1
  BY Fields, Arithmetic
<1>2. [b.keys_rcvd EXCEPT ![r] = -1] \in [ReqId -> Nat \cup {-1}]
  BY Fields
<1> QED
  BY <1>1, <1>2, Zenon DEF Fulfilled, BatchState

LEMMA CountReplyType ==
    ASSUME NEW b \in BatchState, NEW r \in ReqId, NEW seq \in SeqId
    PROVE  CountReply(b, r, seq) \in BatchState
<1>1. Fulfil(b, r) \in BatchState
  BY FulfilledType, SendIfIdleType DEF Fulfil, Fulfilled
<1>2. ASSUME b.keys_rcvd[r] >= 0
      PROVE  [b EXCEPT !.keys_rcvd[r] = b.keys_rcvd[r] + 1] \in BatchState
  <2>1. [b.keys_rcvd EXCEPT ![r] = b.keys_rcvd[r] + 1] \in [ReqId -> Nat \cup {-1}]
    BY <1>2, Fields
  <2> QED
    BY <2>1, Zenon DEF BatchState
<1>3. \A c \in BatchState : [c EXCEPT !.last_seq_id = seq] \in BatchState
  BY DEF BatchState
<1>4. b.keys_rcvd[r] \in Nat \cup {-1}
  BY DEF BatchState
<1> QED
  BY <1>1, <1>2, <1>3, <1>4 DEF CountReply

\* The batch of which every request is given up, before anything is sent.
Forgotten(b) ==
    [b EXCEPT !.outstanding_req = 0, !.keys_rcvd = [r \in ReqId |-> -1]]

LEMMA ForgottenType ==
    ASSUME NEW b \in BatchState
    PROVE  Forgotten(b) \in BatchState
  BY Arithmetic, Zenon DEF Forgotten, BatchState

LEMMA RefreshType ==
    ASSUME NEW b \in BatchState
    PROVE  refresh_backlog(b) \in BatchState
  BY ForgottenType, ConstructType DEF refresh_backlog, Forgotten

LEMMA BatchTypeInit == BatchInit => BatchTypeOK
<1>1. /\ NoKeys \in Seq(Key)
      /\ [r \in ReqId |-> 0] \in [ReqId -> Nat]
      /\ [r \in ReqId |-> 0] \in [ReqId -> Nat \cup {-1}]
      /\ 0 \in Nat /\ FALSE \in BOOLEAN
  BY DEF NoKeys
<1>2. [req |-> 0, keys |-> NoKeys] \in Message
  BY <1>1, Arithmetic DEF Message
<1>3. InitBatch \in BatchState
  BY <1>1, <1>2, Arithmetic, Zenon DEF InitBatch, BatchState
<1> QED
  BY <1>1, <1>3 DEF BatchInit, BatchTypeOK

LEMMA BatchTypeStep ==
    ASSUME BatchTypeOK, [BatchNext]_batchVars
    PROVE  BatchTypeOK'
<1> USE DEF BatchTypeOK
<1>1. CASE ClientIn
  BY <1>1 DEF ClientIn
<1>2. ASSUME NEW k \in Key, ClientKey(k) PROVE BatchTypeOK'
  BY <1>2, BatchKeyType DEF ClientKey
<1>3. CASE ClientEnd
  BY <1>3, SendIfIdleType DEF ClientEnd
<1>4. ASSUME NEW r \in ReqId, NEW seq \in SeqId, ServerReply(r, seq)
      PROVE  BatchTypeOK'
  BY <1>4, CountReplyType DEF ServerReply
<1>5. CASE Refresh
  BY <1>5, RefreshType DEF Refresh
<1>6. CASE Tick
  BY <1>6 DEF Tick, BatchState
<1>7. CASE UNCHANGED batchVars
  BY <1>7 DEF batchVars
<1> QED
  BY <1>1, <1>2, <1>3, <1>4, <1>5, <1>6, <1>7 DEF BatchNext

\* The globals of api.c keep their types, whatever the environment does.
THEOREM BatchTypes == BatchSpec => []BatchTypeOK
<1>1. BatchTypeOK /\ [BatchNext]_batchVars => BatchTypeOK'
  BY BatchTypeStep
<1> QED
  BY <1>1, BatchTypeInit, PTL DEF BatchSpec

----------------------------------------------------------------------------
(* What each operator does to the fields that the invariants speak of.     *)

LEMMA DispatchFields ==
    ASSUME NEW b \in BatchState, NEW keys, NEW rest, NEW size
    PROVE  LET d == Dispatch(b, keys, rest, size)
           IN  /\ d.ukey = rest /\ d.total_ukey_size = size
               /\ d.memcached_pkt.req = b.request_id /\ d.memcached_pkt.keys = keys
               /\ d.outstanding_req = (b.outstanding_req + 1) % UINT16
               /\ \A q \in ReqId : d.keys_sent[q] = IF q = b.request_id THEN Len(keys)
                                                    ELSE b.keys_sent[q]
               /\ \A q \in ReqId : d.keys_rcvd[q] = IF q = b.request_id THEN 0
                                                    ELSE b.keys_rcvd[q]
               /\ d.request_id = (b.request_id + 1) % MAX_REQ_ID
<1> DEFINE d == Dispatch(b, keys, rest, size)
<1>1. /\ d.ukey = rest /\ d.total_ukey_size = size
      /\ d.outstanding_req = (b.outstanding_req + 1) % UINT16
      /\ d.request_id = (b.request_id + 1) % MAX_REQ_ID
  BY Zenon DEF Dispatch, BatchState
<1>2. d.memcached_pkt = [req |-> b.request_id, keys |-> keys]
  BY Zenon DEF Dispatch, BatchState
<1>3. d.keys_sent = [b.keys_sent EXCEPT ![b.request_id] = Len(keys)]
  BY Zenon DEF Dispatch, BatchState
<1>4. d.keys_rcvd = [b.keys_rcvd EXCEPT ![b.request_id] = 0]
  BY Zenon DEF Dispatch, BatchState
<1> HIDE DEF d
<1>5. d.memcached_pkt.req = b.request_id /\ d.memcached_pkt.keys = keys
  BY <1>2
<1>6. \A q \in ReqId : d.keys_sent[q] = IF q = b.request_id THEN Len(keys)
                                        ELSE b.keys_sent[q]
  BY <1>3, Fields
<1>7. \A q \in ReqId : d.keys_rcvd[q] = IF q = b.request_id THEN 0
                                        ELSE b.keys_rcvd[q]
  BY <1>4, Fields
<1> QED
  BY <1>1, <1>5, <1>6, <1>7 DEF d

LEMMA InsertFields ==
    ASSUME NEW b \in BatchState, NEW k
    PROVE  LET c == insert_ukey_group(b, k)
           IN  /\ c.ukey = IF Contains(b.ukey, k) THEN b.ukey ELSE Append(b.ukey, k)
               /\ Contains(b.ukey, k) => c.total_ukey_size = b.total_ukey_size
               /\ c.memcached_pkt = b.memcached_pkt
               /\ c.outstanding_req = b.outstanding_req
               /\ c.keys_sent = b.keys_sent /\ c.keys_rcvd = b.keys_rcvd
               /\ c.request_id = b.request_id
  BY Zenon DEF insert_ukey_group, BatchState

LEMMA FulfilledFields ==
    ASSUME NEW b \in BatchState, NEW r
    PROVE  LET c == Fulfilled(b, r)
           IN  /\ c.ukey = b.ukey /\ c.total_ukey_size = b.total_ukey_size
               /\ c.memcached_pkt = b.memcached_pkt
               /\ c.outstanding_req = (b.outstanding_req - 1) % UINT16
               /\ c.keys_sent = b.keys_sent
               /\ \A q \in ReqId : c.keys_rcvd[q] = IF q = r THEN -1 ELSE b.keys_rcvd[q]
               /\ c.request_id = b.request_id
<1> DEFINE c == Fulfilled(b, r)
<1>1. /\ c.ukey = b.ukey /\ c.total_ukey_size = b.total_ukey_size
      /\ c.memcached_pkt = b.memcached_pkt
      /\ c.outstanding_req = (b.outstanding_req - 1) % UINT16
      /\ c.keys_sent = b.keys_sent /\ c.request_id = b.request_id
  BY Zenon DEF Fulfilled, BatchState
<1>2. c.keys_rcvd = [b.keys_rcvd EXCEPT ![r] = -1]
  BY Zenon DEF Fulfilled, BatchState
<1> HIDE DEF c
<1>3. \A q \in ReqId : c.keys_rcvd[q] = IF q = r THEN -1 ELSE b.keys_rcvd[q]
  BY <1>2, Fields
<1> QED
  BY <1>1, <1>3 DEF c

LEMMA ForgottenFields ==
    ASSUME NEW b \in BatchState
    PROVE  LET c == Forgotten(b)
           IN  /\ c.ukey = b.ukey /\ c.total_ukey_size = b.total_ukey_size
               /\ c.memcached_pkt = b.memcached_pkt
               /\ c.outstanding_req = 0 /\ c.keys_sent = b.keys_sent
               /\ \A r \in ReqId : c.keys_rcvd[r] = -1
               /\ c.request_id = b.request_id
  BY Zenon DEF Forgotten, BatchState

\* A reply leaves one of three batches behind; all fields that matter here
\* are those of the batch b, of b with one more reply, or of b fulfilled.
SameFields(c, d) ==
    /\ c.ukey = d.ukey /\ c.total_ukey_size = d.total_ukey_size
    /\ c.memcached_pkt = d.memcached_pkt
    /\ c.outstanding_req = d.outstanding_req
    /\ c.keys_sent = d.keys_sent /\ c.keys_rcvd = d.keys_rcvd
    /\ c.request_id = d.request_id

LEMMA CountReplyCases ==
    ASSUME NEW b \in BatchState, NEW r \in ReqId, NEW seq \in SeqId
    PROVE  LET c == CountReply(b, r, seq)
               counted == [b EXCEPT !.keys_rcvd[r] = b.keys_rcvd[r] + 1]
           IN  \/ SameFields(c, b)
               \/ b.keys_rcvd[r] >= 0 /\ counted \in BatchState /\ SameFields(c, counted)
               \/ /\ b.keys_rcvd[r] >= 0 /\ Fulfilled(b, r) \in BatchState
                  /\ SameFields(c, SendIfIdle(Fulfilled(b, r)))
<1> DEFINE counted == [b EXCEPT !.keys_rcvd[r] = b.keys_rcvd[r] + 1]
<1>1. \A c \in BatchState : SameFields([c EXCEPT !.last_seq_id = seq], c)
  BY Zenon DEF SameFields, BatchState
<1>2. b.keys_rcvd[r] \in Nat \cup {-1}
  BY Fields
<1>3. Fulfilled(b, r) \in BatchState /\ SendIfIdle(Fulfilled(b, r)) \in BatchState
  BY FulfilledType, SendIfIdleType
<1>4. CASE b.keys_rcvd[r] < 0 \/ seq > b.last_seq_id
  <2>1. CountReply(b, r, seq) = [b EXCEPT !.last_seq_id = seq]
    BY <1>4, Zenon DEF CountReply
  <2> QED
    BY <1>1, <2>1
<1>5. CASE ~(b.keys_rcvd[r] < 0 \/ seq > b.last_seq_id)
  <2>1. b.keys_rcvd[r] >= 0
    BY <1>2, <1>5
  <2>2. [b.keys_rcvd EXCEPT ![r] = b.keys_rcvd[r] + 1] \in [ReqId -> Nat \cup {-1}]
    BY <2>1, Fields
  <2>3. counted \in BatchState
    BY <2>2, Zenon DEF BatchState
  <2>4. \/ CountReply(b, r, seq) = [Fulfil(b, r) EXCEPT !.last_seq_id = seq]
        \/ CountReply(b, r, seq) = [counted EXCEPT !.last_seq_id = seq]
    BY <1>5, Zenon DEF CountReply
  <2>5. Fulfil(b, r) = SendIfIdle(Fulfilled(b, r))
    BY Zenon DEF Fulfil, Fulfilled
  <2> QED
    BY <1>1, <1>3, <2>1, <2>3, <2>4, <2>5, Zenon
<1> QED
  BY <1>4, <1>5

----------------------------------------------------------------------------
(* No duplicates *)

NoDup(b) == IsInjective(b.ukey) /\ IsInjective(b.memcached_pkt.keys)

LEMMA InsertNoDup ==
    ASSUME NEW b \in BatchState, NEW k \in Key, NoDup(b)
    PROVE  NoDup(insert_ukey_group(b, k))
<1>1. CASE Contains(b.ukey, k)
  BY <1>1, InsertFields DEF NoDup
<1>2. CASE ~Contains(b.ukey, k)
  <2> DEFINE s == b.ukey t == Append(b.ukey, k)
  <2>1. s \in Seq(Key) /\ t \in Seq(Key) /\ Len(t) = Len(s) + 1
        /\ DOMAIN s = 1 .. Len(s) /\ DOMAIN t = 1 .. Len(t) /\ Len(s) \in Nat
    BY Fields
  <2>2. /\ \A i \in 1 .. Len(s) : t[i] = s[i] /\ s[i] # k
        /\ t[Len(s) + 1] = k
    BY <1>2, <2>1 DEF Contains
  <2>3. IsInjective(t)
    BY <2>1, <2>2 DEF NoDup, IsInjective
  <2> QED
    BY <1>2, <2>3, InsertFields DEF NoDup
<1> QED
  BY <1>1, <1>2

LEMMA ConstructNoDup ==
    ASSUME NEW b \in BatchState, NEW full_pkt \in BOOLEAN, NoDup(b)
    PROVE  NoDup(construct_pkt_and_send_to_server(b, full_pkt))
<1>1. CASE b.ukey = NoKeys
  BY <1>1 DEF construct_pkt_and_send_to_server
<1>2. CASE b.ukey # NoKeys
  <2>1. IsInjective(NoKeys) /\ \A k : IsInjective(<<k>>)
    BY DEF IsInjective, NoKeys
  <2>2. IsInjective(Front(b.ukey))
    <3>1. /\ DOMAIN Front(b.ukey) = 1 .. Len(b.ukey) - 1
          /\ DOMAIN b.ukey = 1 .. Len(b.ukey) /\ Len(b.ukey) \in Nat
          /\ \A i \in 1 .. Len(b.ukey) - 1 : Front(b.ukey)[i] = b.ukey[i]
      BY <1>2, Fields, FrontLast, LenProperties
    <3> QED
      BY <3>1 DEF NoDup, IsInjective
  <2>3. ASSUME NEW keys, NEW rest, NEW size, IsInjective(keys), IsInjective(rest)
        PROVE  NoDup(Dispatch(b, keys, rest, size))
    <3>1. /\ Dispatch(b, keys, rest, size).ukey = rest
          /\ Dispatch(b, keys, rest, size).memcached_pkt.keys = keys
      BY DispatchFields
    <3> QED
      BY <2>3, <3>1 DEF NoDup
  <2> QED
    BY <1>2, <2>1, <2>2, <2>3 DEF construct_pkt_and_send_to_server, NoDup
<1> QED
  BY <1>1, <1>2

LEMMA SendIfIdleNoDup ==
    ASSUME NEW b \in BatchState, NoDup(b)
    PROVE  NoDup(SendIfIdle(b))
  BY ConstructNoDup DEF SendIfIdle

LEMMA CountReplyNoDup ==
    ASSUME NEW b \in BatchState, NEW r \in ReqId, NEW seq \in SeqId, NoDup(b)
    PROVE  NoDup(CountReply(b, r, seq))
<1> DEFINE counted == [b EXCEPT !.keys_rcvd[r] = b.keys_rcvd[r] + 1]
<1>1. NoDup(counted)
  BY Zenon DEF NoDup, BatchState
<1>2. Fulfilled(b, r) \in BatchState => NoDup(SendIfIdle(Fulfilled(b, r)))
  BY FulfilledFields, SendIfIdleNoDup DEF NoDup
<1> QED
  BY <1>1, <1>2, CountReplyCases DEF NoDup, SameFields

LEMMA NoDupInit == BatchInit => NoDup(batch)
  BY DEF BatchInit, InitBatch, NoDup, IsInjective, NoKeys

LEMMA StepNoDup ==
    ASSUME BatchTypeOK, NoDup(batch), [BatchNext]_batchVars
    PROVE  NoDup(batch')
<1> USE DEF BatchTypeOK
<1>1. CASE ClientIn
  BY <1>1 DEF ClientIn
<1>2. ASSUME NEW k \in Key, ClientKey(k) PROVE NoDup(batch')
  BY <1>2, InsertNoDup, InsertType, ConstructNoDup DEF ClientKey, BatchKey
<1>3. CASE ClientEnd
  BY <1>3, SendIfIdleNoDup DEF ClientEnd
<1>4. ASSUME NEW r \in ReqId, NEW seq \in SeqId, ServerReply(r, seq)
      PROVE  NoDup(batch')
  BY <1>4, CountReplyNoDup DEF ServerReply
<1>5. CASE Refresh
  <2>1. NoDup(Forgotten(batch)) /\ Forgotten(batch) \in BatchState
    BY ForgottenFields, ForgottenType DEF NoDup
  <2>2. batch' = construct_pkt_and_send_to_server(Forgotten(batch), FALSE)
    BY <1>5, Zenon DEF Refresh, refresh_backlog, Forgotten
  <2> QED
    BY <2>1, <2>2, ConstructNoDup
<1>6. CASE Tick
  BY <1>6, Zenon DEF Tick, NoDup, BatchState
<1>7. CASE UNCHANGED batchVars
  BY <1>7 DEF batchVars
<1> QED
  BY <1>1, <1>2, <1>3, <1>4, <1>5, <1>6, <1>7 DEF BatchNext

\* Neither the waiting keys nor the last message hold a key twice, under any
\* order of requests, replies and time-outs.
THEOREM NoDuplicates == BatchSpec => []NoDuplicateKeys
<1>1. BatchTypeOK /\ NoDup(batch) /\ [BatchNext]_batchVars => NoDup(batch)'
  BY StepNoDup DEF NoDup
<1>2. NoDup(batch) => NoDuplicateKeys
  BY DEF NoDup, NoDuplicateKeys
<1> QED
  BY <1>1, <1>2, NoDupInit, BatchTypes, PTL DEF BatchSpec

----------------------------------------------------------------------------
(* Work conservation *)

Conserving(b) == b.ukey # NoKeys => b.outstanding_req >= MIN_OUTSTANDING_REQ

\* A message that is not full takes every key.
LEMMA ConstructEmpties ==
    ASSUME NEW b \in BatchState
    PROVE  construct_pkt_and_send_to_server(b, FALSE).ukey = NoKeys
<1>1. CASE b.ukey = NoKeys
  BY <1>1 DEF construct_pkt_and_send_to_server
<1>2. CASE b.ukey # NoKeys
  BY <1>2, DispatchFields DEF construct_pkt_and_send_to_server
<1> QED
  BY <1>1, <1>2

LEMMA SendIfIdleConserving ==
    ASSUME NEW b \in BatchState
    PROVE  Conserving(SendIfIdle(b))
<1>1. CASE b.outstanding_req < MIN_OUTSTANDING_REQ
  BY <1>1, ConstructEmpties DEF SendIfIdle, Conserving
<1>2. CASE ~(b.outstanding_req < MIN_OUTSTANDING_REQ)
  <2>1. b.outstanding_req >= MIN_OUTSTANDING_REQ
    BY <1>2, Fields, BatchAssumption
  <2> QED
    BY <1>2, <2>1 DEF SendIfIdle, Conserving
<1> QED
  BY <1>1, <1>2

\* When no handler runs, keys wait only if memcached has enough to do.
THEOREM WorkConservation == BatchSpec => []WorkConserving
<1> DEFINE I == ~in_client => Conserving(batch)
<1>1. BatchInit => I
  BY DEF BatchInit, InitBatch, Conserving
<1>2. BatchTypeOK /\ I /\ [BatchNext]_batchVars => I'
  <2> SUFFICES ASSUME batch \in BatchState, I, [BatchNext]_batchVars,
                      in_client' = FALSE
               PROVE  Conserving(batch')
    BY DEF BatchTypeOK, Conserving, BatchNext, ClientIn, ClientKey, ClientEnd,
           ServerReply, Refresh, Tick, batchVars
  <2>1. CASE ClientIn
    BY <2>1 DEF ClientIn
  <2>2. ASSUME NEW k \in Key, ClientKey(k) PROVE Conserving(batch')
    BY <2>2 DEF ClientKey
  <2>3. CASE ClientEnd
    BY <2>3, SendIfIdleConserving DEF ClientEnd
  <2>4. ASSUME NEW r \in ReqId, NEW seq \in SeqId, ServerReply(r, seq)
        PROVE  Conserving(batch')
    <3> DEFINE counted == [batch EXCEPT !.keys_rcvd[r] = batch.keys_rcvd[r] + 1]
    <3>1. Conserving(batch) /\ batch' = CountReply(batch, r, seq)
      BY <2>4 DEF ServerReply
    <3>2. Conserving(counted)
      BY <3>1, Zenon DEF Conserving, BatchState
    <3>3. Fulfilled(batch, r) \in BatchState => Conserving(SendIfIdle(Fulfilled(batch, r)))
      BY SendIfIdleConserving
    <3>4. \A c, d : SameFields(c, d) /\ Conserving(d) => Conserving(c)
      BY DEF Conserving, SameFields
    <3> QED
      BY <3>1, <3>2, <3>3, <3>4, CountReplyCases
  <2>5. CASE Refresh
    <3>1. batch' = construct_pkt_and_send_to_server(Forgotten(batch), FALSE)
      BY <2>5, Zenon DEF Refresh, refresh_backlog, Forgotten
    <3>2. batch'.ukey = NoKeys
      BY <3>1, ForgottenType, ConstructEmpties
    <3> QED
      BY <3>2 DEF Conserving
  <2>6. CASE Tick
    <3>1. Conserving(batch)
      BY <2>6 DEF Tick
    <3> QED
      BY <2>6, <3>1, Zenon DEF Tick, Conserving, BatchState
  <2>7. CASE UNCHANGED batchVars
    BY <2>7 DEF batchVars
  <2> QED
    BY <2>1, <2>2, <2>3, <2>4, <2>5, <2>6, <2>7 DEF BatchNext
<1>3. I => WorkConserving
  BY DEF Conserving, WorkConserving
<1> QED
  BY <1>1, <1>2, <1>3, BatchTypes, PTL DEF BatchSpec

----------------------------------------------------------------------------
(* Outstanding requests *)

LEMMA OpenFinite ==
    ASSUME NEW b \in BatchState
    PROVE  IsFiniteSet(Open(b)) /\ Cardinality(Open(b)) \in Nat
<1>1. IsFiniteSet(ReqId)
  BY FS_Interval, BatchAssumption DEF ReqId
<1> QED
  BY <1>1, FS_Subset, FS_CardinalityType DEF Open

LEMMA InsertCovers ==
    ASSUME NEW b \in BatchState, NEW k \in Key, Covers(b)
    PROVE  Covers(insert_ukey_group(b, k))
  BY InsertFields DEF Covers, Open

\* One message opens at most one more request and counts one more.
LEMMA DispatchCovers ==
    ASSUME NEW b \in BatchState, Covers(b), b.outstanding_req < UINT16 - 1,
           NEW keys, NEW rest, NEW size
    PROVE  Covers(Dispatch(b, keys, rest, size))
<1> DEFINE d == Dispatch(b, keys, rest, size)
           r == b.request_id
<1>1. /\ d.outstanding_req = b.outstanding_req + 1
      /\ b.outstanding_req \in Nat
  <2>0. b.outstanding_req \in 0 .. UINT16 - 1
    BY Fields
  <2>1. b.outstanding_req \in Nat /\ b.outstanding_req + 1 < UINT16
    BY <2>0, BatchAssumption
  <2>2. (b.outstanding_req + 1) % UINT16 = b.outstanding_req + 1
    BY <2>1, BatchAssumption
  <2> QED
    BY <2>1, <2>2, DispatchFields
<1>2. Open(d) \subseteq Open(b) \cup {r}
  <2> SUFFICES ASSUME NEW q \in Open(d), q # r PROVE q \in Open(b)
    OBVIOUS
  <2>1. d.keys_sent[q] = b.keys_sent[q] /\ d.keys_rcvd[q] = b.keys_rcvd[q]
    BY DispatchFields, Fields DEF Open
  <2> QED
    BY <2>1 DEF Open
<1>3. IsFiniteSet(Open(b)) /\ Cardinality(Open(b)) \in Nat
  BY OpenFinite
<1>4. /\ IsFiniteSet(Open(b) \cup {r})
      /\ Cardinality(Open(b) \cup {r}) \in Nat
      /\ Cardinality(Open(b) \cup {r}) <= Cardinality(Open(b)) + 1
  <2> DEFINE S == Open(b)
  <2>1. IsFiniteSet(S) /\ Cardinality(S) \in Nat
    BY <1>3
  <2> HIDE DEF S
  <2>2. /\ IsFiniteSet(S \cup {r})
        /\ \/ Cardinality(S \cup {r}) = Cardinality(S)
           \/ Cardinality(S \cup {r}) = Cardinality(S) + 1
    BY <2>1, FS_AddElement
  <2> QED
    BY <2>1, <2>2 DEF S
<1>5. /\ Cardinality(Open(d)) <= Cardinality(Open(b) \cup {r})
      /\ Cardinality(Open(d)) \in Nat
  BY <1>2, <1>4, FS_Subset, FS_CardinalityType
<1> QED
  BY <1>1, <1>3, <1>4, <1>5 DEF Covers

LEMMA ConstructCovers ==
    ASSUME NEW b \in BatchState, NEW full_pkt \in BOOLEAN, Covers(b),
           b.outstanding_req < UINT16 - 1
    PROVE  Covers(construct_pkt_and_send_to_server(b, full_pkt))
  BY DispatchCovers DEF construct_pkt_and_send_to_server

LEMMA SendIfIdleCovers ==
    ASSUME NEW b \in BatchState, Covers(b)
    PROVE  Covers(SendIfIdle(b))
<1>1. b.outstanding_req \in 0 .. UINT16 - 1
  BY Fields
<1>2. b.outstanding_req < MIN_OUTSTANDING_REQ => b.outstanding_req < UINT16 - 1
  BY <1>1, BatchAssumption
<1> QED
  BY <1>2, ConstructCovers DEF SendIfIdle

\* A fulfilled request was open, so that it was counted.
LEMMA FulfilledCovers ==
    ASSUME NEW b \in BatchState, NEW r \in ReqId, Covers(b),
           b.keys_sent[r] > 0, b.keys_rcvd[r] >= 0
    PROVE  Covers(Fulfilled(b, r))
<1> DEFINE c == Fulfilled(b, r)
<1>1. r \in Open(b)
  BY DEF Open
<1>2. Open(c) \subseteq Open(b) \ {r}
  <2> SUFFICES ASSUME NEW q \in Open(c) PROVE q \in Open(b) /\ q # r
    OBVIOUS
  <2>1. /\ c.keys_sent = b.keys_sent
        /\ c.keys_rcvd[q] = IF q = r THEN -1 ELSE b.keys_rcvd[q]
    BY FulfilledFields, Fields DEF Open
  <2> QED
    BY <2>1 DEF Open
<1>3. IsFiniteSet(Open(b)) /\ Cardinality(Open(b)) \in Nat
  BY OpenFinite
<1>4. /\ IsFiniteSet(Open(b) \ {r})
      /\ Cardinality(Open(b) \ {r}) = Cardinality(Open(b)) - 1
  BY <1>1, <1>3, FS_RemoveElement
<1>5. /\ Cardinality(Open(c)) <= Cardinality(Open(b) \ {r})
      /\ Cardinality(Open(c)) \in Nat /\ Cardinality(Open(b) \ {r}) \in Nat
  BY <1>2, <1>4, FS_Subset, FS_CardinalityType
<1>6. b.outstanding_req \in Nat /\ b.outstanding_req < UINT16 /\ b.outstanding_req >= 1
  <2>1. b.outstanding_req \in 0 .. UINT16 - 1
    BY Fields
  <2>2. Cardinality(Open(b)) >= 1
    BY <1>3, <1>4, <1>5
  <2> QED
    BY <1>3, <2>1, <2>2, BatchAssumption DEF Covers
<1>7. (b.outstanding_req - 1) % UINT16 = b.outstanding_req - 1
  BY <1>6, BatchAssumption
<1> QED
  BY <1>3, <1>4, <1>5, <1>6, <1>7, FulfilledFields DEF Covers

LEMMA CountReplyCovers ==
    ASSUME NEW b \in BatchState, NEW r \in ReqId, NEW seq \in SeqId, Covers(b),
           b.keys_sent[r] > 0
    PROVE  Covers(CountReply(b, r, seq))
<1> DEFINE counted == [b EXCEPT !.keys_rcvd[r] = b.keys_rcvd[r] + 1]
<1>1. ASSUME b.keys_rcvd[r] >= 0 PROVE Covers(counted)
  <2>1. /\ counted.keys_sent = b.keys_sent
        /\ counted.outstanding_req = b.outstanding_req
        /\ counted.keys_rcvd = [b.keys_rcvd EXCEPT ![r] = b.keys_rcvd[r] + 1]
    BY Zenon DEF BatchState
  <2>2. \A q \in ReqId : counted.keys_rcvd[q] >= 0 <=> b.keys_rcvd[q] >= 0
    BY <1>1, <2>1, Fields
  <2>3. Open(counted) = Open(b)
    BY <2>1, <2>2 DEF Open
  <2> QED
    BY <2>1, <2>3 DEF Covers
<1>2. ASSUME b.keys_rcvd[r] >= 0, Fulfilled(b, r) \in BatchState
      PROVE  Covers(SendIfIdle(Fulfilled(b, r)))
  BY <1>2, FulfilledCovers, SendIfIdleCovers
<1>3. \A c, d : SameFields(c, d) /\ Covers(d) => Covers(c)
  BY DEF SameFields, Covers, Open
<1> QED
  BY <1>1, <1>2, <1>3, CountReplyCases

LEMMA ForgottenCovers ==
    ASSUME NEW b \in BatchState
    PROVE  Covers(Forgotten(b)) /\ Forgotten(b).outstanding_req < UINT16 - 1
<1>1. Open(Forgotten(b)) = {}
  BY ForgottenFields DEF Open
<1> QED
  BY <1>1, ForgottenFields, FS_EmptySet, BatchAssumption DEF Covers

\* A full message overflows the counter, or leaves it a cover.
LEMMA BatchKeyCovers ==
    ASSUME NEW b \in BatchState, NEW k \in Key, Covers(b)
    PROVE  \/ Covers(BatchKey(b, k))
           \/ b.outstanding_req = UINT16 - 1 /\ BatchKey(b, k).outstanding_req = 0
<1> DEFINE c == insert_ukey_group(b, k)
<1>1. c \in BatchState /\ Covers(c) /\ c.outstanding_req = b.outstanding_req
  BY InsertType, InsertCovers, InsertFields
<1>2. c.outstanding_req \in 0 .. UINT16 - 1
  BY <1>1, Fields
<1>3. \/ BatchKey(b, k) = c
      \/ BatchKey(b, k) = construct_pkt_and_send_to_server(c, TRUE)
  BY DEF BatchKey
<1> HIDE DEF c
<1>4. CASE c.outstanding_req < UINT16 - 1
  BY <1>1, <1>3, <1>4, ConstructCovers
<1>5. CASE c.outstanding_req = UINT16 - 1
  <2>1. (c.outstanding_req + 1) % UINT16 = 0
    BY <1>5, BatchAssumption
  <2>2. \A keys, rest, size : Dispatch(c, keys, rest, size).outstanding_req = 0
    BY <1>1, <2>1, DispatchFields
  <2>3. \/ construct_pkt_and_send_to_server(c, TRUE) = c
        \/ construct_pkt_and_send_to_server(c, TRUE).outstanding_req = 0
    BY <2>2 DEF construct_pkt_and_send_to_server
  <2> QED
    BY <1>1, <1>3, <1>5, <2>3
<1> QED
  BY <1>2, <1>4, <1>5, BatchAssumption

\* outstanding_req counts at least the requests that are still tracked, so that
\* its decrement in app_server_in does not pass zero, until the increment of a
\* full message overflows.
THEOREM OutstandingCovers == BatchSpec => CoveredUntilOverflow
<1>1. BatchInit => Covers(batch)
  <2> SUFFICES ASSUME BatchInit PROVE Covers(batch)
    OBVIOUS
  <2>1. Open(batch) = {} /\ batch.outstanding_req = 0
    BY DEF BatchInit, InitBatch, Open
  <2> QED
    BY <2>1, FS_EmptySet DEF Covers
<1>2. BatchTypeOK /\ [BatchNext]_batchVars
          => [Covers(batch) => Covers(batch') \/ Overflows]_batchVars
  <2> SUFFICES ASSUME batch \in BatchState, Covers(batch), [BatchNext]_batchVars
               PROVE  Covers(batch') \/ Overflows
    BY DEF BatchTypeOK
  <2>1. CASE ClientIn
    BY <2>1 DEF ClientIn
  <2>2. ASSUME NEW k \in Key, ClientKey(k) PROVE Covers(batch') \/ Overflows
    BY <2>2, BatchKeyCovers DEF ClientKey, Overflows
  <2>3. CASE ClientEnd
    BY <2>3, SendIfIdleCovers DEF ClientEnd
  <2>4. ASSUME NEW r \in ReqId, NEW seq \in SeqId, ServerReply(r, seq)
        PROVE  Covers(batch')
    BY <2>4, CountReplyCovers DEF ServerReply
  <2>5. CASE Refresh
    <3>1. batch' = construct_pkt_and_send_to_server(Forgotten(batch), FALSE)
      BY <2>5, Zenon DEF Refresh, refresh_backlog, Forgotten
    <3> QED
      BY <3>1, ForgottenType, ForgottenCovers, ConstructCovers
  <2>6. CASE Tick
    <3>1. /\ batch'.keys_sent = batch.keys_sent /\ batch'.keys_rcvd = batch.keys_rcvd
          /\ batch'.outstanding_req = batch.outstanding_req
      BY <2>6, Zenon DEF Tick, BatchState
    <3> QED
      BY <3>1 DEF Covers, Open
  <2>7. CASE UNCHANGED batchVars
    BY <2>7 DEF batchVars
  <2> QED
    BY <2>1, <2>2, <2>3, <2>4, <2>5, <2>6, <2>7 DEF BatchNext
<1> QED
  BY <1>1, <1>2, BatchTypes, PTL DEF BatchSpec, CoveredUntilOverflow

----------------------------------------------------------------------------
(* No key that was asked for is dropped *)

\* Between two rounds of the loop the waiting keys leave room for a message.
Roomy(b) == b.ukey # NoKeys => ~IsFull(b)

LEMMA ConstructRoomy ==
    ASSUME NEW b \in BatchState, NEW full_pkt \in BOOLEAN
    PROVE  Roomy(construct_pkt_and_send_to_server(b, full_pkt))
<1> DEFINE c == construct_pkt_and_send_to_server(b, full_pkt)
<1>1. CASE b.ukey = NoKeys
  BY <1>1 DEF construct_pkt_and_send_to_server, Roomy
<1>2. CASE b.ukey # NoKeys /\ full_pkt
  <2>1. Last(b.ukey) \in Key
    BY <1>2, Fields, FrontLast
  <2>2. c.ukey = <<Last(b.ukey)>> /\ c.total_ukey_size = KeyLen[Last(b.ukey)]
    BY <1>2, DispatchFields DEF construct_pkt_and_send_to_server
  <2> HIDE DEF c
  <2>3. Len(c.ukey) = 1 /\ c.total_ukey_size \in Nat
        /\ c.total_ukey_size < MAX_PAYLOAD_LEN - GETS_LEN
    BY <2>1, <2>2, KeyLenAssumption
  <2> QED
    BY <2>3, BatchAssumption DEF Roomy, IsFull, c
<1>3. CASE b.ukey # NoKeys /\ ~full_pkt
  BY <1>3, DispatchFields DEF construct_pkt_and_send_to_server, Roomy
<1> QED
  BY <1>1, <1>2, <1>3

LEMMA SendIfIdleRoomy ==
    ASSUME NEW b \in BatchState, Roomy(b)
    PROVE  Roomy(SendIfIdle(b))
  BY ConstructRoomy DEF SendIfIdle

LEMMA BatchKeyRoomy ==
    ASSUME NEW b \in BatchState, NEW k \in Key
    PROVE  Roomy(BatchKey(b, k))
  BY InsertType, ConstructRoomy DEF BatchKey, Roomy

\* What makes Roomy the right invariant: a key that was waiting already cannot
\* find the message full, and a new one that fills it is the one kept back.
LEMMA BatchKeyWaits ==
    ASSUME NEW b \in BatchState, NEW k \in Key, Roomy(b)
    PROVE  Contains(BatchKey(b, k).ukey, k)
<1> DEFINE c == insert_ukey_group(b, k)
<1>1. CASE Contains(b.ukey, k)
  <2>1. b.ukey # NoKeys
    BY <1>1 DEF Contains, NoKeys
  <2>2. c = b
    BY <1>1 DEF insert_ukey_group
  <2> QED
    BY <1>1, <2>1, <2>2 DEF BatchKey, Roomy
<1>2. CASE ~Contains(b.ukey, k)
  <2> HIDE DEF c
  <2>1. c \in BatchState /\ c.ukey = Append(b.ukey, k)
    BY <1>2, InsertFields, InsertType DEF c
  <2>2. c.ukey # NoKeys /\ Len(c.ukey) \in Nat /\ Len(c.ukey) > 0 /\ c.ukey[Len(c.ukey)] = k
    BY <2>1, Fields DEF NoKeys
  <2>3. CASE ~IsFull(c)
    BY <2>2, <2>3 DEF BatchKey, Contains, c
  <2>4. CASE IsFull(c)
    <3>1. BatchKey(b, k) = construct_pkt_and_send_to_server(c, TRUE)
      BY <2>4 DEF BatchKey, c
    <3>2. BatchKey(b, k).ukey = <<k>>
      BY <2>1, <2>2, <3>1, DispatchFields DEF construct_pkt_and_send_to_server, Last
    <3> QED
      BY <3>2 DEF Contains
  <2> QED
    BY <2>3, <2>4
<1> QED
  BY <1>1, <1>2

\* A key that a client asks for waits after its round of the loop of
\* app_client_in (api.c:278-322), whatever the message it met.
THEOREM AskedKeyIsKept == BatchSpec => AskedKeyWaits
<1>1. BatchInit => Roomy(batch)
  BY DEF BatchInit, InitBatch, Roomy
<1>2. BatchTypeOK /\ Roomy(batch) /\ [BatchNext]_batchVars => Roomy(batch)'
  <2> SUFFICES ASSUME batch \in BatchState, Roomy(batch), [BatchNext]_batchVars
               PROVE  Roomy(batch')
    BY DEF BatchTypeOK, Roomy, IsFull
  <2>1. CASE ClientIn
    BY <2>1 DEF ClientIn
  <2>2. ASSUME NEW k \in Key, ClientKey(k) PROVE Roomy(batch')
    BY <2>2, BatchKeyRoomy DEF ClientKey
  <2>3. CASE ClientEnd
    BY <2>3, SendIfIdleRoomy DEF ClientEnd
  <2>4. ASSUME NEW r \in ReqId, NEW seq \in SeqId, ServerReply(r, seq)
        PROVE  Roomy(batch')
    <3> DEFINE counted == [batch EXCEPT !.keys_rcvd[r] = batch.keys_rcvd[r] + 1]
    <3>1. batch' = CountReply(batch, r, seq)
      BY <2>4 DEF ServerReply
    <3>2. Roomy(counted)
      BY Zenon DEF Roomy, IsFull, BatchState
    <3>3. Fulfilled(batch, r) \in BatchState => Roomy(SendIfIdle(Fulfilled(batch, r)))
      <4>1. Roomy(Fulfilled(batch, r))
        BY FulfilledFields DEF Roomy, IsFull
      <4> QED
        BY <4>1, SendIfIdleRoomy
    <3>4. \A c, d : SameFields(c, d) /\ Roomy(d) => Roomy(c)
      BY DEF Roomy, IsFull, SameFields
    <3> QED
      BY <3>1, <3>2, <3>3, <3>4, CountReplyCases
  <2>5. CASE Refresh
    <3>1. batch' = construct_pkt_and_send_to_server(Forgotten(batch), FALSE)
      BY <2>5, Zenon DEF Refresh, refresh_backlog, Forgotten
    <3> QED
      BY <3>1, ForgottenType, ConstructRoomy
  <2>6. CASE Tick
    BY <2>6, Zenon DEF Tick, Roomy, IsFull, BatchState
  <2>7. CASE UNCHANGED batchVars
    BY <2>7 DEF batchVars
  <2> QED
    BY <2>1, <2>2, <2>3, <2>4, <2>5, <2>6, <2>7 DEF BatchNext
<1>3. BatchTypeOK /\ Roomy(batch)
          => [\A k \in Key : ClientKey(k) => Contains(batch'.ukey, k)]_batchVars
  BY BatchKeyWaits DEF BatchTypeOK, ClientKey
<1> QED
  BY <1>1, <1>2, <1>3, BatchTypes, PTL DEF BatchSpec, AskedKeyWaits

----------------------------------------------------------------------------
(* A send opens the request it sends *)

\* The step of the property, from batch b to batch d.
Opens(b, d) ==
    /\ Open(d) \ Open(b) \subseteq {b.request_id}
    /\ d.request_id # b.request_id => b.request_id \in Open(d)
    /\ b.request_id \in Open(d) \ Open(b) => d.request_id # b.request_id

\* Without keys the running total is zero, so that a full message has a key to
\* send besides the one that it keeps back.
Counted(b) == Roomy(b) /\ (b.ukey = NoKeys => b.total_ukey_size = 0)

LEMMA NoSendOpens ==
    ASSUME NEW b \in BatchState, NEW d, d.request_id = b.request_id,
           Open(d) \subseteq Open(b)
    PROVE  Opens(b, d)
  BY DEF Opens

\* There are at least two request ids, so the next one is another one.
LEMMA NextId ==
    ASSUME NEW r \in ReqId
    PROVE  (r + 1) % MAX_REQ_ID # r
<1>1. r \in Nat /\ r + 1 <= MAX_REQ_ID
  BY BatchAssumption DEF ReqId
<1>2. CASE r + 1 < MAX_REQ_ID
  <2>1. (r + 1) % MAX_REQ_ID = r + 1
    BY <1>1, <1>2, BatchAssumption
  <2> QED
    BY <1>1, <2>1
<1>3. CASE r + 1 = MAX_REQ_ID
  <2>1. MAX_REQ_ID % MAX_REQ_ID = 0
    BY BatchAssumption
  <2>2. r # 0
    BY <1>1, <1>3, BatchAssumption
  <2> QED
    BY <1>3, <2>1, <2>2
<1> QED
  BY <1>1, <1>2, <1>3, BatchAssumption

LEMMA ConstructOpens ==
    ASSUME NEW b \in BatchState, NEW full_pkt \in BOOLEAN,
           full_pkt => Len(b.ukey) > 1
    PROVE  Opens(b, construct_pkt_and_send_to_server(b, full_pkt))
<1> DEFINE d == construct_pkt_and_send_to_server(b, full_pkt)
<1>1. CASE b.ukey = NoKeys
  BY <1>1 DEF construct_pkt_and_send_to_server, Opens
<1>2. CASE b.ukey # NoKeys
  <2>1. ASSUME NEW keys, NEW rest, NEW size, Len(keys) \in Nat, Len(keys) > 0
        PROVE  Opens(b, Dispatch(b, keys, rest, size))
    <3> DEFINE e == Dispatch(b, keys, rest, size)
    <3>1. /\ \A q \in ReqId : e.keys_sent[q] = IF q = b.request_id THEN Len(keys)
                                               ELSE b.keys_sent[q]
          /\ \A q \in ReqId : e.keys_rcvd[q] = IF q = b.request_id THEN 0
                                               ELSE b.keys_rcvd[q]
          /\ e.request_id = (b.request_id + 1) % MAX_REQ_ID
      BY DispatchFields
    <3> HIDE DEF e
    <3>2. b.request_id \in ReqId
      BY Fields
    <3>3. e.request_id # b.request_id
      BY <3>1, <3>2, NextId
    <3>4. b.request_id \in Open(e)
      BY <2>1, <3>1, <3>2 DEF Open
    <3>5. Open(e) \ Open(b) \subseteq {b.request_id}
      BY <3>1 DEF Open
    <3> QED
      BY <3>3, <3>4, <3>5 DEF Opens, e
  <2>2. Len(b.ukey) \in Nat /\ Len(b.ukey) > 0 /\ Len(Front(b.ukey)) = Len(b.ukey) - 1
    BY <1>2, Fields, FrontLast
  <2> QED
    BY <1>2, <2>1, <2>2 DEF construct_pkt_and_send_to_server
<1> QED
  BY <1>1, <1>2

LEMMA SendIfIdleOpens ==
    ASSUME NEW b \in BatchState
    PROVE  Opens(b, SendIfIdle(b))
  BY ConstructOpens, NoSendOpens DEF SendIfIdle

\* Forgetting requests before a send does not matter.
LEMMA OpensAfter ==
    ASSUME NEW b \in BatchState, NEW c \in BatchState, NEW d, Opens(c, d),
           c.request_id = b.request_id, Open(c) \subseteq Open(b)
    PROVE  Opens(b, d)
  BY DEF Opens

LEMMA FullHasMore ==
    ASSUME NEW b \in BatchState, NEW k \in Key, Counted(b), IsFull(insert_ukey_group(b, k))
    PROVE  Len(insert_ukey_group(b, k).ukey) > 1
<1> DEFINE c == insert_ukey_group(b, k)
<1>1. CASE Contains(b.ukey, k)
  <2>1. c = b /\ b.ukey # NoKeys
    BY <1>1 DEF insert_ukey_group, Contains, NoKeys
  <2> QED
    BY <2>1 DEF Counted, Roomy
<1>2. CASE ~Contains(b.ukey, k) /\ b.ukey = NoKeys
  <2>1. c.ukey = <<k>> /\ c.total_ukey_size = b.total_ukey_size + KeyLen[k]
    <3>1. c = [b EXCEPT !.ukey = Append(b.ukey, k),
                        !.total_ukey_size = @ + KeyLen[k]]
      BY <1>2, Zenon DEF insert_ukey_group
    <3> HIDE DEF c
    <3>2. c.ukey = Append(b.ukey, k) /\ c.total_ukey_size = b.total_ukey_size + KeyLen[k]
      BY <3>1, Zenon DEF BatchState
    <3> QED
      BY <1>2, <3>2 DEF NoKeys
  <2> HIDE DEF c
  <2>2. b.total_ukey_size = 0
    BY <1>2 DEF Counted
  <2>3. Len(c.ukey) = 1 /\ KeyLen[k] \in Nat /\ KeyLen[k] < MAX_PAYLOAD_LEN - GETS_LEN
    BY <2>1, KeyLenAssumption
  <2> QED
    BY <2>1, <2>2, <2>3, BatchAssumption DEF IsFull, c
<1>3. CASE ~Contains(b.ukey, k) /\ b.ukey # NoKeys
  <2>1. c.ukey = Append(b.ukey, k)
    BY <1>3, InsertFields
  <2> HIDE DEF c
  <2> QED
    BY <1>3, <2>1, Fields DEF NoKeys, c
<1> QED
  BY <1>1, <1>2, <1>3

LEMMA BatchKeyOpens ==
    ASSUME NEW b \in BatchState, NEW k \in Key, Counted(b)
    PROVE  Opens(b, BatchKey(b, k))
<1> DEFINE c == insert_ukey_group(b, k)
<1>1. /\ c \in BatchState /\ c.request_id = b.request_id /\ Open(c) = Open(b)
  BY InsertType, InsertFields DEF Open
<1>2. CASE ~IsFull(c)
  BY <1>1, <1>2, NoSendOpens DEF BatchKey
<1>3. CASE IsFull(c)
  <2>1. Len(c.ukey) > 1
    BY <1>3, FullHasMore
  <2>2. BatchKey(b, k) = construct_pkt_and_send_to_server(c, TRUE)
    BY <1>3 DEF BatchKey
  <2> HIDE DEF c
  <2> QED
    BY <1>1, <2>1, <2>2, ConstructOpens, OpensAfter
<1> QED
  BY <1>2, <1>3

LEMMA CountReplyOpens ==
    ASSUME NEW b \in BatchState, NEW r \in ReqId, NEW seq \in SeqId
    PROVE  Opens(b, CountReply(b, r, seq))
<1> DEFINE counted == [b EXCEPT !.keys_rcvd[r] = b.keys_rcvd[r] + 1]
<1>1. b.keys_rcvd[r] >= 0 => Opens(b, counted)
  <2>1. /\ counted.keys_rcvd = [b.keys_rcvd EXCEPT ![r] = b.keys_rcvd[r] + 1]
        /\ counted.keys_sent = b.keys_sent /\ counted.request_id = b.request_id
    BY Zenon DEF BatchState
  <2> HIDE DEF counted
  <2>2. \A q \in ReqId : counted.keys_rcvd[q]
            = IF q = r THEN b.keys_rcvd[r] + 1 ELSE b.keys_rcvd[q]
    BY <2>1, Fields
  <2>3. b.keys_rcvd[r] >= 0 => Open(counted) \subseteq Open(b)
    BY <2>1, <2>2 DEF Open
  <2> QED
    BY <2>1, <2>3, NoSendOpens
<1>2. Fulfilled(b, r) \in BatchState => Opens(b, SendIfIdle(Fulfilled(b, r)))
  <2>1. Open(Fulfilled(b, r)) \subseteq Open(b)
    BY FulfilledFields DEF Open
  <2> QED
    BY <2>1, FulfilledFields, SendIfIdleOpens, OpensAfter
<1>3. Opens(b, b)
  BY DEF Opens
<1>4. \A c, d : SameFields(c, d) /\ Opens(b, d) => Opens(b, c)
  BY DEF Opens, Open, SameFields
<1> QED
  BY <1>1, <1>2, <1>3, <1>4, CountReplyCases

LEMMA ConstructCounted ==
    ASSUME NEW b \in BatchState, NEW full_pkt \in BOOLEAN,
           b.ukey = NoKeys => b.total_ukey_size = 0
    PROVE  Counted(construct_pkt_and_send_to_server(b, full_pkt))
<1> DEFINE d == construct_pkt_and_send_to_server(b, full_pkt)
<1>1. CASE b.ukey = NoKeys
  BY <1>1, ConstructRoomy DEF construct_pkt_and_send_to_server, Counted
<1>2. CASE b.ukey # NoKeys
  <2>1. \/ d.ukey = <<Last(b.ukey)>>
        \/ d.ukey = NoKeys /\ d.total_ukey_size = 0
    BY <1>2, DispatchFields DEF construct_pkt_and_send_to_server
  <2>2. <<Last(b.ukey)>> # NoKeys
    BY DEF NoKeys
  <2> HIDE DEF d
  <2>3. d.ukey = NoKeys => d.total_ukey_size = 0
    BY <2>1, <2>2
  <2> QED
    BY <2>3, ConstructRoomy DEF Counted, d
<1> QED
  BY <1>1, <1>2

LEMMA SendIfIdleCounted ==
    ASSUME NEW b \in BatchState, Counted(b)
    PROVE  Counted(SendIfIdle(b))
  BY ConstructCounted DEF SendIfIdle, Counted

LEMMA BatchKeyCounted ==
    ASSUME NEW b \in BatchState, NEW k \in Key, Counted(b)
    PROVE  Counted(BatchKey(b, k))
<1> DEFINE c == insert_ukey_group(b, k)
<1>1. c.ukey # NoKeys
  <2>1. CASE Contains(b.ukey, k)
    BY <2>1 DEF insert_ukey_group, Contains, NoKeys
  <2>2. CASE ~Contains(b.ukey, k)
    <3>1. c.ukey = Append(b.ukey, k)
      BY <2>2, InsertFields
    <3> HIDE DEF c
    <3> QED
      BY <3>1, Fields DEF NoKeys
  <2> QED
    BY <2>1, <2>2
<1>2. Roomy(BatchKey(b, k))
  BY BatchKeyRoomy
<1>3. CASE IsFull(c)
  <2>1. BatchKey(b, k) = construct_pkt_and_send_to_server(c, TRUE)
    BY <1>3 DEF BatchKey
  <2>2. c \in BatchState
    BY InsertType
  <2> HIDE DEF c
  <2> QED
    BY <1>1, <2>1, <2>2, ConstructCounted
<1>4. CASE ~IsFull(c)
  BY <1>1, <1>2, <1>4 DEF BatchKey, Counted
<1> QED
  BY <1>3, <1>4

LEMMA StepOpens ==
    ASSUME batch \in BatchState, Counted(batch), [BatchNext]_batchVars
    PROVE  Counted(batch') /\ Opens(batch, batch')
<1> DEFINE Good == Counted(batch') /\ Opens(batch, batch')
<1>1. Opens(batch, batch)
  BY DEF Opens
<1>2. CASE ClientIn
  BY <1>1, <1>2 DEF ClientIn
<1>3. ASSUME NEW k \in Key, ClientKey(k) PROVE Good
  BY <1>3, BatchKeyCounted, BatchKeyOpens DEF ClientKey
<1>4. CASE ClientEnd
  BY <1>4, SendIfIdleCounted, SendIfIdleOpens DEF ClientEnd
<1>5. ASSUME NEW r \in ReqId, NEW seq \in SeqId, ServerReply(r, seq) PROVE Good
  <2> DEFINE counted == [batch EXCEPT !.keys_rcvd[r] = batch.keys_rcvd[r] + 1]
  <2>1. batch' = CountReply(batch, r, seq)
    BY <1>5 DEF ServerReply
  <2>2. Counted(counted)
    BY Zenon DEF Counted, Roomy, IsFull, BatchState
  <2>3. Fulfilled(batch, r) \in BatchState => Counted(SendIfIdle(Fulfilled(batch, r)))
    <3>1. Counted(Fulfilled(batch, r))
      BY FulfilledFields DEF Counted, Roomy, IsFull
    <3> QED
      BY <3>1, SendIfIdleCounted
  <2>4. \A c, d : SameFields(c, d) /\ Counted(d) => Counted(c)
    BY DEF Counted, Roomy, IsFull, SameFields
  <2>5. Counted(CountReply(batch, r, seq))
    BY <2>2, <2>3, <2>4, CountReplyCases
  <2> QED
    BY <2>1, <2>5, CountReplyOpens
<1>6. CASE Refresh
  <2> DEFINE c == Forgotten(batch)
  <2>1. batch' = construct_pkt_and_send_to_server(c, FALSE)
    BY <1>6, Zenon DEF Refresh, refresh_backlog, Forgotten
  <2>2. /\ c \in BatchState /\ c.request_id = batch.request_id
        /\ c.ukey = batch.ukey /\ c.total_ukey_size = batch.total_ukey_size
    BY ForgottenType, ForgottenFields
  <2>3. Open(c) \subseteq Open(batch)
    BY ForgottenFields DEF Open
  <2> HIDE DEF c
  <2>4. Opens(c, batch')
    BY <2>1, <2>2, ConstructOpens
  <2>5. Counted(batch')
    BY <2>1, <2>2, ConstructCounted DEF Counted
  <2> QED
    BY <2>2, <2>3, <2>4, <2>5, OpensAfter
<1>7. CASE Tick
  <2> DEFINE c == [batch EXCEPT !.expired = TRUE]
  <2>1. batch' = c
    BY <1>7, Zenon DEF Tick
  <2>2. /\ c.ukey = batch.ukey /\ c.total_ukey_size = batch.total_ukey_size
        /\ c.request_id = batch.request_id
        /\ c.keys_sent = batch.keys_sent /\ c.keys_rcvd = batch.keys_rcvd
    BY Zenon DEF BatchState
  <2> HIDE DEF c
  <2> QED
    BY <2>1, <2>2 DEF Counted, Roomy, IsFull, Opens, Open
<1>8. CASE UNCHANGED batchVars
  BY <1>1, <1>8 DEF batchVars
<1> QED
  BY <1>2, <1>3, <1>4, <1>5, <1>6, <1>7, <1>8 DEF BatchNext

LEMMA CountedInit == BatchInit => Counted(batch)
  BY DEF BatchInit, InitBatch, Counted, Roomy

LEMMA CountedAlways == BatchSpec => []Counted(batch)
<1>1. BatchTypeOK /\ Counted(batch) /\ [BatchNext]_batchVars => Counted(batch)'
  BY StepOpens DEF BatchTypeOK, Counted, Roomy, IsFull
<1> QED
  BY <1>1, CountedInit, BatchTypes, PTL DEF BatchSpec

\* A request is opened by the send that carries it and by nothing else: no late
\* reply makes a fulfilled or forgotten request count again (api.c:218, 228).
THEOREM OnlySendsOpen == BatchSpec => SendOpensItsRequest
<1>1. BatchTypeOK /\ Counted(batch) /\ [BatchNext]_batchVars
          => [ LET r == batch.request_id
                   sent == batch'.request_id # r
               IN  /\ Open(batch') \ Open(batch) \subseteq {r}
                   /\ sent => r \in Open(batch')
                   /\ r \in Open(batch') \ Open(batch) => sent ]_batchVars
  BY StepOpens DEF BatchTypeOK, Opens
<1> QED
  BY <1>1, BatchTypes, CountedAlways, PTL DEF BatchSpec, SendOpensItsRequest

----------------------------------------------------------------------------
(* Batch implements KeyQueue, for all keys, sizes and limits: ukey is the   *)
(* queue and the keys of memcached_pkt are the last message.                *)

\* d is b after a message that took a non-empty prefix of the keys q.
Took(q, d) ==
    \E n \in 1 .. Len(q) :
        d.memcached_pkt.keys = SubSeq(q, 1, n) /\ d.ukey = SubSeq(q, n + 1, Len(q))

SameQueue(b, d) == d.ukey = b.ukey /\ d.memcached_pkt.keys = b.memcached_pkt.keys

LEMMA ConstructTakes ==
    ASSUME NEW b \in BatchState, NEW full_pkt \in BOOLEAN,
           full_pkt => Len(b.ukey) > 1, b.ukey # NoKeys
    PROVE  Took(b.ukey, construct_pkt_and_send_to_server(b, full_pkt))
<1> DEFINE q == b.ukey
           d == construct_pkt_and_send_to_server(b, full_pkt)
<1>1. q \in Seq(Key) /\ Len(q) \in Nat /\ Len(q) > 0
  BY Fields, EmptySeq DEF NoKeys
<1>2. CASE full_pkt
  <2>1. d.memcached_pkt.keys = Front(q) /\ d.ukey = <<Last(q)>>
    BY <1>2, DispatchFields DEF construct_pkt_and_send_to_server
  <2>2. <<Last(q)>> = SubSeq(q, Len(q), Len(q))
    <3>1. \A i \in Len(q) .. Len(q) : q[i] \in Key
      BY <1>1
    <3>2. /\ SubSeq(q, Len(q), Len(q)) \in Seq(Key)
          /\ Len(SubSeq(q, Len(q), Len(q))) = 1
          /\ SubSeq(q, Len(q), Len(q))[1] = q[Len(q)]
      <4>1. /\ SubSeq(q, Len(q), Len(q)) \in Seq(Key)
            /\ Len(SubSeq(q, Len(q), Len(q))) = IF Len(q) <= Len(q) THEN Len(q) - Len(q) + 1 ELSE 0
            /\ \A i \in 1 .. Len(q) - Len(q) + 1 :
                   SubSeq(q, Len(q), Len(q))[i] = q[Len(q) + i - 1]
        BY <1>1, <3>1, SubSeqProperties
      <4>2. Len(q) - Len(q) + 1 = 1 /\ Len(q) + 1 - 1 = Len(q) /\ Len(q) <= Len(q)
        BY <1>1
      <4> HIDE DEF q
      <4> QED
        BY <4>1, <4>2
    <3>3. <<Last(q)>> \in Seq(Key) /\ Len(<<Last(q)>>) = 1 /\ <<Last(q)>>[1] = q[Len(q)]
      BY <1>1 DEF Last
    <3> HIDE DEF q
    <3> QED
      BY <3>2, <3>3, SeqEqual
  <2>3. Len(q) - 1 \in 1 .. Len(q) /\ Len(q) - 1 + 1 = Len(q)
    BY <1>1, <1>2
  <2> HIDE DEF d, q
  <2> QED
    BY <2>1, <2>2, <2>3 DEF Took, Front, q, d
<1>3. CASE ~full_pkt
  <2>1. d.memcached_pkt.keys = q /\ d.ukey = NoKeys
    BY <1>3, DispatchFields DEF construct_pkt_and_send_to_server
  <2>2. SubSeq(q, 1, Len(q)) = q
    BY <1>1, SubSeqFull
  <2>3. SubSeq(q, Len(q) + 1, Len(q)) = NoKeys
    BY <1>1, SubSeqEmpty DEF NoKeys
  <2>4. Len(q) \in 1 .. Len(q)
    BY <1>1
  <2> QED
    BY <2>1, <2>2, <2>3, <2>4 DEF Took
<1> QED
  BY <1>2, <1>3

\* A call that does not ask for keys.
Sends(b, d) == SameQueue(b, d) \/ Took(b.ukey, d)

LEMMA SendIfIdleSends ==
    ASSUME NEW b \in BatchState
    PROVE  Sends(b, SendIfIdle(b))
<1>1. CASE b.outstanding_req < MIN_OUTSTANDING_REQ /\ b.ukey # NoKeys
  BY <1>1, ConstructTakes DEF SendIfIdle, Sends
<1>2. CASE ~(b.outstanding_req < MIN_OUTSTANDING_REQ) \/ b.ukey = NoKeys
  BY <1>2 DEF SendIfIdle, construct_pkt_and_send_to_server, Sends, SameQueue
<1> QED
  BY <1>1, <1>2

LEMMA CountReplySends ==
    ASSUME NEW b \in BatchState, NEW r \in ReqId, NEW seq \in SeqId
    PROVE  Sends(b, CountReply(b, r, seq))
<1> DEFINE counted == [b EXCEPT !.keys_rcvd[r] = b.keys_rcvd[r] + 1]
<1>1. Sends(b, counted)
  BY Zenon DEF Sends, SameQueue, BatchState
<1>2. Fulfilled(b, r) \in BatchState => Sends(b, SendIfIdle(Fulfilled(b, r)))
  BY FulfilledFields, SendIfIdleSends DEF Sends, SameQueue
<1>3. Sends(b, b)
  BY DEF Sends, SameQueue
<1>4. \A c, d : SameFields(c, d) /\ Sends(b, d) => Sends(b, c)
  BY DEF Sends, SameQueue, Took, SameFields
<1> QED
  BY <1>1, <1>2, <1>3, <1>4, CountReplyCases

\* One round of the loop of app_client_in: nothing, an Ask or an AskAndSend.
LEMMA BatchKeyAsks ==
    ASSUME NEW b \in BatchState, NEW k \in Key, Counted(b)
    PROVE  \/ SameQueue(b, BatchKey(b, k))
           \/ /\ ~Contains(b.ukey, k)
              /\ \/ /\ BatchKey(b, k).ukey = Append(b.ukey, k)
                    /\ BatchKey(b, k).memcached_pkt = b.memcached_pkt
                 \/ Took(Append(b.ukey, k), BatchKey(b, k))
<1> DEFINE c == insert_ukey_group(b, k)
<1>1. CASE Contains(b.ukey, k)
  <2>1. c = b /\ b.ukey # NoKeys
    BY <1>1 DEF insert_ukey_group, Contains, NoKeys
  <2> QED
    BY <2>1 DEF BatchKey, Counted, Roomy, SameQueue
<1>2. CASE ~Contains(b.ukey, k)
  <2>1. c \in BatchState /\ c.ukey = Append(b.ukey, k) /\ c.memcached_pkt = b.memcached_pkt
    BY <1>2, InsertFields, InsertType
  <2>2. CASE ~IsFull(c)
    BY <1>2, <2>1, <2>2 DEF BatchKey
  <2>3. CASE IsFull(c)
    <3>1. BatchKey(b, k) = construct_pkt_and_send_to_server(c, TRUE)
      BY <2>3 DEF BatchKey
    <3>2. Len(c.ukey) > 1
      BY <1>2, <2>3, FullHasMore DEF Counted
    <3> HIDE DEF c
    <3>3. c.ukey # NoKeys
      BY <3>2 DEF NoKeys
    <3> QED
      BY <1>2, <2>1, <3>1, <3>2, <3>3, ConstructTakes
  <2> QED
    BY <2>2, <2>3
<1> QED
  BY <1>1, <1>2

\* The keys that wait and the message last built behave as the queue of KeyQueue:
\* nothing is lost, reordered or doubled between app_client_in and memcached.
THEOREM QueueRefinement == BatchSpec => QueueSpec
<1>1. BatchInit => Queue!QueueInit
  BY DEF BatchInit, InitBatch, Queue!QueueInit, NoKeys
<1>2. ASSUME batch \in BatchState, Counted(batch), [BatchNext]_batchVars
      PROVE  [Queue!QueueNext]_Queue!queueVars
  <2> DEFINE Maps == [Queue!QueueNext]_Queue!queueVars
  <2>1. SameQueue(batch, batch') => Maps
    BY DEF SameQueue, Queue!queueVars
  <2>2. Took(batch.ukey, batch') => Maps
    BY DEF Took, Queue!QueueNext, Queue!Send, Queue!Take
  <2>3. Sends(batch, batch') => Maps
    BY <2>1, <2>2 DEF Sends
  <2>4. CASE ClientIn
    BY <2>1, <2>4 DEF ClientIn, SameQueue
  <2>5. ASSUME NEW k \in Key, ClientKey(k) PROVE Maps
    <3>1. batch' = BatchKey(batch, k)
      BY <2>5 DEF ClientKey
    <3>2. CASE SameQueue(batch, batch')
      BY <2>1, <3>2
    <3>3. CASE /\ ~Contains(batch.ukey, k) /\ batch'.ukey = Append(batch.ukey, k)
               /\ batch'.memcached_pkt = batch.memcached_pkt
      BY <3>3 DEF Queue!QueueNext, Queue!Ask, Contains, Queue!Contains
    <3>4. CASE ~Contains(batch.ukey, k) /\ Took(Append(batch.ukey, k), batch')
      BY <3>4 DEF Took, Queue!QueueNext, Queue!AskAndSend, Queue!Take,
                  Contains, Queue!Contains
    <3> QED
      BY <1>2, <3>1, <3>2, <3>3, <3>4, BatchKeyAsks
  <2>6. CASE ClientEnd
    BY <1>2, <2>3, <2>6, SendIfIdleSends DEF ClientEnd
  <2>7. ASSUME NEW r \in ReqId, NEW seq \in SeqId, ServerReply(r, seq) PROVE Maps
    BY <1>2, <2>3, <2>7, CountReplySends DEF ServerReply
  <2>8. CASE Refresh
    <3> DEFINE c == Forgotten(batch)
    <3>1. batch' = construct_pkt_and_send_to_server(c, FALSE)
      BY <2>8, Zenon DEF Refresh, refresh_backlog, Forgotten
    <3>2. c \in BatchState /\ c.ukey = batch.ukey /\ batch.ukey # NoKeys
      BY <1>2, <2>8, ForgottenType, ForgottenFields DEF Refresh, BacklogDue
    <3> HIDE DEF c
    <3> QED
      BY <2>2, <3>1, <3>2, ConstructTakes
  <2>9. CASE Tick
    <3>1. SameQueue(batch, batch')
      BY <1>2, <2>9, Zenon DEF Tick, SameQueue, BatchState
    <3> QED
      BY <2>1, <3>1
  <2>10. CASE UNCHANGED batchVars
    BY <2>1, <2>10 DEF batchVars, SameQueue
  <2> QED
    BY <1>2, <2>4, <2>5, <2>6, <2>7, <2>8, <2>9, <2>10 DEF BatchNext
<1>3. BatchTypeOK /\ Counted(batch) /\ [BatchNext]_batchVars => [Queue!QueueNext]_Queue!queueVars
  BY <1>2 DEF BatchTypeOK
<1> QED
  BY <1>1, <1>3, BatchTypes, CountedAlways, PTL DEF BatchSpec, QueueSpec, Queue!QueueSpec

----------------------------------------------------------------------------
(* Messages fit. *)

\* Induction in terms of sets: the least number outside of T has no predecessor.
LEMMA SetInduction ==
    ASSUME NEW T, 0 \in T, \A n \in Nat : n \in T => n + 1 \in T
    PROVE  \A n \in Nat : n \in T
<1> DEFINE R == OpToRel(<, Nat)
<1> SUFFICES ASSUME Nat \ T # {} PROVE FALSE
  OBVIOUS
<1>1. IsWellFoundedOn(R, Nat)
  BY NatLessThanWellFounded
<1>2. ASSUME NEW x \in Nat, NEW y \in Nat, y < x PROVE <<y, x>> \in R
  BY <1>2, Zenon DEF OpToRel
<1> HIDE DEF R
<1>3. PICK x \in Nat \ T : \A y \in Nat \ T : ~(<<y, x>> \in R)
  BY <1>1, WFMin
<1>4. x - 1 \in Nat /\ x - 1 < x /\ x - 1 + 1 = x
  OBVIOUS
<1>5. x - 1 \in T
  BY <1>2, <1>3, <1>4
<1> QED
  BY <1>3, <1>4, <1>5

\* What a loop over the keys computes, as long as it has not passed place n.
LengthsUpTo(f, keys, n) ==
    /\ f[0] = GETS_LEN
    /\ \A i \in 1 .. n : f[i] = f[i - 1] + 1 + KeyLen[keys[i]]

\* The loop of construct_keys_packet adds up the lengths of the keys.
LEMMA LengthsStep ==
    ASSUME NEW keys \in Seq(Key)
    PROVE  LengthsUpTo(Lengths(keys), keys, Len(keys))
<1> DEFINE len == Len(keys)
           Body(f, n) == IF n = 0 THEN GETS_LEN ELSE f[n - 1] + 1 + KeyLen[keys[n]]
           T == {n \in Nat : n <= len =>
                    \E f \in [0 .. n -> Int] : LengthsUpTo(f, keys, n)}
<1>1. len \in Nat /\ GETS_LEN \in Nat /\ \A i \in 1 .. len : KeyLen[keys[i]] \in Nat
  BY KeyLenAssumption, BatchAssumption
<1> HIDE DEF len
<1>2. 0 \in T
  <2> DEFINE f == [i \in 0 .. 0 |-> GETS_LEN]
  <2>1. f \in [0 .. 0 -> Int] /\ LengthsUpTo(f, keys, 0)
    BY <1>1 DEF LengthsUpTo
  <2> QED
    BY <2>1
<1>3. ASSUME NEW n \in Nat, n \in T PROVE n + 1 \in T
  <2> SUFFICES ASSUME n + 1 <= len
               PROVE  \E g \in [0 .. n + 1 -> Int] : LengthsUpTo(g, keys, n + 1)
    OBVIOUS
  <2>1. PICK f \in [0 .. n -> Int] : LengthsUpTo(f, keys, n)
    BY <1>1, <1>3
  <2> DEFINE g == [i \in 0 .. n + 1 |-> IF i <= n THEN f[i]
                                        ELSE f[n] + 1 + KeyLen[keys[n + 1]]]
  <2>2. g \in [0 .. n + 1 -> Int]
    <3>1. KeyLen[keys[n + 1]] \in Nat /\ f[n] \in Int
      BY <1>1
    <3> QED
      BY <3>1
  <2>3. LengthsUpTo(g, keys, n + 1)
    <3>1. \A i \in 0 .. n : g[i] = f[i]
      OBVIOUS
    <3>2. g[n + 1] = f[n] + 1 + KeyLen[keys[n + 1]]
      OBVIOUS
    <3> HIDE DEF g
    <3>3. \A i \in 1 .. n : g[i] = g[i - 1] + 1 + KeyLen[keys[i]]
      BY <2>1, <3>1 DEF LengthsUpTo
    <3>4. g[n + 1] = g[n + 1 - 1] + 1 + KeyLen[keys[n + 1]]
      BY <3>1, <3>2
    <3>5. g[0] = GETS_LEN
      BY <2>1, <3>1 DEF LengthsUpTo
    <3> QED
      BY <3>3, <3>4, <3>5 DEF LengthsUpTo
  <2> QED
    BY <2>2, <2>3
<1>4. len \in T
  <2> HIDE DEF T
  <2> QED
    BY <1>1, <1>2, <1>3, SetInduction
<1>5. PICK f \in [0 .. len -> Int] : LengthsUpTo(f, keys, len)
  BY <1>1, <1>4
<1>6. f = [n \in 0 .. len |-> Body(f, n)]
  BY <1>1, <1>5 DEF LengthsUpTo
<1> DEFINE length == CHOOSE f_1 : f_1 = [n \in 0 .. len |-> Body(f_1, n)]
<1>7. length = [n \in 0 .. len |-> Body(length, n)]
  BY <1>6
<1>8. Lengths(keys) = length
  BY DEF Lengths, len
<1> HIDE DEF length
<1> QED
  BY <1>1, <1>7, <1>8 DEF LengthsUpTo, len

LEMMA LengthsPrefix ==
    ASSUME NEW s \in Seq(Key), NEW t \in Seq(Key), NEW n \in Nat, n <= Len(s), n <= Len(t),
           \A i \in 1 .. n : s[i] = t[i]
    PROVE  Lengths(s)[n] = Lengths(t)[n] /\ Lengths(s)[n] \in Nat
<1> DEFINE T == {i \in Nat : i <= n =>
                    Lengths(s)[i] = Lengths(t)[i] /\ Lengths(s)[i] \in Nat}
<1>1. /\ LengthsUpTo(Lengths(s), s, Len(s)) /\ LengthsUpTo(Lengths(t), t, Len(t))
      /\ Len(s) \in Nat /\ Len(t) \in Nat
  BY LengthsStep
<1>2. 0 \in T
  BY <1>1, BatchAssumption DEF LengthsUpTo
<1>3. ASSUME NEW i \in Nat, i \in T PROVE i + 1 \in T
  <2> SUFFICES ASSUME i + 1 <= n
               PROVE  /\ Lengths(s)[i + 1] = Lengths(t)[i + 1]
                      /\ Lengths(s)[i + 1] \in Nat
    OBVIOUS
  <2>1. Lengths(s)[i] = Lengths(t)[i] /\ Lengths(s)[i] \in Nat
    BY <1>3
  <2>2. i + 1 \in 1 .. Len(s) /\ i + 1 \in 1 .. Len(t) /\ i + 1 \in 1 .. n /\ i + 1 - 1 = i
    BY <1>1
  <2>3. /\ Lengths(s)[i + 1] = Lengths(s)[i] + 1 + KeyLen[s[i + 1]]
        /\ Lengths(t)[i + 1] = Lengths(t)[i] + 1 + KeyLen[t[i + 1]]
    BY <1>1, <2>2 DEF LengthsUpTo
  <2>4. s[i + 1] = t[i + 1] /\ s[i + 1] \in Key
    BY <2>2
  <2>5. KeyLen[s[i + 1]] \in Nat
    BY <2>4, KeyLenAssumption
  <2> QED
    BY <2>1, <2>3, <2>4, <2>5
<1> HIDE DEF T
<1>4. n \in T
  BY <1>2, <1>3, SetInduction
<1> QED
  BY <1>4 DEF T

LEMMA WireEmpty == WireLength(NoKeys) = GETS_LEN
<1>1. NoKeys \in Seq(Key) /\ Len(NoKeys) = 0
  BY DEF NoKeys
<1> QED
  BY <1>1, LengthsStep DEF LengthsUpTo, WireLength

LEMMA WireAppend ==
    ASSUME NEW keys \in Seq(Key), NEW k \in Key
    PROVE  WireLength(Append(keys, k)) = WireLength(keys) + 1 + KeyLen[k]
<1> DEFINE t == Append(keys, k)
           n == Len(keys)
<1>1. /\ t \in Seq(Key) /\ Len(t) = n + 1 /\ n \in Nat /\ t[n + 1] = k
      /\ \A i \in 1 .. n : keys[i] = t[i]
  OBVIOUS
<1> HIDE DEF t, n
<1>2. Lengths(t)[n] = Lengths(keys)[n]
  <2>1. n = Len(keys)
    BY DEF n
  <2>2. n <= Len(keys) /\ n <= Len(t) /\ \A i \in 1 .. n : t[i] = keys[i]
    BY <1>1, <2>1
  <2>3. n \in Nat /\ t \in Seq(Key)
    BY <1>1
  <2> QED
    BY <2>2, <2>3, LengthsPrefix
<1>3. LengthsUpTo(Lengths(t), t, n + 1)
  BY <1>1, LengthsStep
<1>4. PICK j \in 1 .. n + 1 : j = n + 1 /\ j - 1 = n
  BY <1>1
<1>5. Lengths(t)[j] = Lengths(t)[j - 1] + 1 + KeyLen[t[j]]
  BY <1>3 DEF LengthsUpTo
<1> QED
  BY <1>1, <1>2, <1>4, <1>5 DEF WireLength, t, n

LEMMA WireNat ==
    ASSUME NEW keys \in Seq(Key)
    PROVE  WireLength(keys) \in Nat
  BY LengthsPrefix DEF WireLength

LEMMA WireFront ==
    ASSUME NEW keys \in Seq(Key), keys # NoKeys
    PROVE  WireLength(keys) = WireLength(Front(keys)) + 1 + KeyLen[Last(keys)]
<1>1. /\ Front(keys) \in Seq(Key) /\ Len(Front(keys)) = Len(keys) - 1
      /\ \A i \in 1 .. Len(keys) - 1 : Front(keys)[i] = keys[i]
      /\ Last(keys) \in Key /\ Last(keys) = keys[Len(keys)] /\ Len(keys) > 0
      /\ Len(keys) \in Nat
  BY FrontLast
<1>2. keys = Append(Front(keys), Last(keys))
  <2> DEFINE f == Front(keys)
             l == Last(keys)
  <2>1. /\ f \in Seq(Key) /\ Len(f) = Len(keys) - 1 /\ l = keys[Len(keys)]
        /\ \A i \in 1 .. Len(keys) - 1 : f[i] = keys[i]
    BY <1>1
  <2> HIDE DEF f, l
  <2>2. /\ Append(f, l) \in Seq(Key) /\ Len(Append(f, l)) = Len(keys)
        /\ \A i \in 1 .. Len(keys) : Append(f, l)[i] = keys[i]
    BY <1>1, <2>1
  <2> QED
    BY <2>2, SeqEqual DEF f, l
<1> QED
  BY <1>1, <1>2, WireAppend

\* total_ukey_size is the length of the waiting keys, without their spaces.
Sized(b) == WireLength(b.ukey) = GETS_LEN + b.total_ukey_size + Len(b.ukey)

\* What waits could be sent at any moment, and what was sent has fitted.
Fits(b) ==
    /\ Sized(b) /\ WireLength(b.ukey) <= MAX_PAYLOAD_LEN
    /\ WireLength(b.memcached_pkt.keys) <= MAX_PAYLOAD_LEN

LEMMA FitsUnlessFull ==
    ASSUME NEW b \in BatchState, Sized(b)
    PROVE  ~IsFull(b) <=> WireLength(b.ukey) <= MAX_PAYLOAD_LEN
<1> DEFINE l == Len(b.ukey)
           w == WireLength(b.ukey)
<1>1. l \in Nat /\ b.total_ukey_size \in Nat /\ w = GETS_LEN + b.total_ukey_size + l
  BY Fields DEF Sized
<1>2. IsFull(b) <=> b.total_ukey_size >= MAX_PAYLOAD_LEN - GETS_LEN - l + 1
  BY DEF IsFull
<1> HIDE DEF l, w
<1>3. ~IsFull(b) <=> w <= MAX_PAYLOAD_LEN
  BY <1>1, <1>2, BatchAssumption
<1> QED
  BY <1>3 DEF w

LEMMA NothingWaits ==
    ASSUME NEW b, b.ukey = NoKeys, b.total_ukey_size = 0
    PROVE  Sized(b) /\ WireLength(b.ukey) <= MAX_PAYLOAD_LEN
  BY WireEmpty, BatchAssumption DEF Sized, NoKeys

LEMMA OneWaits ==
    ASSUME NEW b, NEW k \in Key, b.ukey = <<k>>, b.total_ukey_size = KeyLen[k]
    PROVE  Sized(b) /\ WireLength(b.ukey) <= MAX_PAYLOAD_LEN
<1>1. NoKeys \in Seq(Key) /\ Append(NoKeys, k) = <<k>> /\ Len(<<k>>) = 1
  BY DEF NoKeys
<1>2. WireLength(<<k>>) = GETS_LEN + 1 + KeyLen[k]
  BY <1>1, WireAppend, WireEmpty
<1> QED
  BY <1>1, <1>2, KeyLenAssumption, BatchAssumption DEF Sized

LEMMA ConstructFits ==
    ASSUME NEW b \in BatchState, NEW full_pkt \in BOOLEAN, Sized(b),
           WireLength(b.memcached_pkt.keys) <= MAX_PAYLOAD_LEN,
           IF full_pkt THEN b.ukey # NoKeys /\ WireLength(Front(b.ukey)) <= MAX_PAYLOAD_LEN
           ELSE WireLength(b.ukey) <= MAX_PAYLOAD_LEN
    PROVE  Fits(construct_pkt_and_send_to_server(b, full_pkt))
<1> DEFINE d == construct_pkt_and_send_to_server(b, full_pkt)
<1>1. CASE b.ukey = NoKeys
  BY <1>1 DEF construct_pkt_and_send_to_server, Fits
<1>2. CASE b.ukey # NoKeys /\ full_pkt
  <2>1. Last(b.ukey) \in Key
    BY <1>2, Fields, FrontLast
  <2>2. /\ d.ukey = <<Last(b.ukey)>> /\ d.total_ukey_size = KeyLen[Last(b.ukey)]
        /\ d.memcached_pkt.keys = Front(b.ukey)
    BY <1>2, DispatchFields DEF construct_pkt_and_send_to_server
  <2> HIDE DEF d
  <2>3. WireLength(d.memcached_pkt.keys) <= MAX_PAYLOAD_LEN
    BY <1>2, <2>2
  <2> QED
    BY <2>1, <2>2, <2>3, OneWaits DEF Fits, d
<1>3. CASE b.ukey # NoKeys /\ ~full_pkt
  <2>1. d.ukey = NoKeys /\ d.total_ukey_size = 0 /\ d.memcached_pkt.keys = b.ukey
    BY <1>3, DispatchFields DEF construct_pkt_and_send_to_server
  <2> HIDE DEF d
  <2>2. WireLength(d.memcached_pkt.keys) <= MAX_PAYLOAD_LEN
    BY <1>3, <2>1
  <2> QED
    BY <2>1, <2>2, NothingWaits DEF Fits, d
<1> QED
  BY <1>1, <1>2, <1>3

LEMMA InsertSized ==
    ASSUME NEW b \in BatchState, NEW k \in Key, Sized(b)
    PROVE  Sized(insert_ukey_group(b, k))
<1> DEFINE c == insert_ukey_group(b, k)
<1>1. CASE Contains(b.ukey, k)
  BY <1>1 DEF insert_ukey_group
<1>2. CASE ~Contains(b.ukey, k)
  <2>1. c.ukey = Append(b.ukey, k) /\ c.total_ukey_size = b.total_ukey_size + KeyLen[k]
    BY <1>2, Zenon DEF insert_ukey_group, BatchState
  <2> HIDE DEF c
  <2>2. Len(c.ukey) = Len(b.ukey) + 1 /\ Len(b.ukey) \in Nat /\ b.total_ukey_size \in Nat
    BY <2>1, Fields
  <2>3. WireLength(c.ukey) = WireLength(b.ukey) + 1 + KeyLen[k]
    BY <2>1, Fields, WireAppend
  <2>4. KeyLen[k] \in Nat
    BY KeyLenAssumption
  <2> QED
    BY <2>1, <2>2, <2>3, <2>4, BatchAssumption DEF Sized, c
<1> QED
  BY <1>1, <1>2

LEMMA SendIfIdleFits ==
    ASSUME NEW b \in BatchState, Fits(b)
    PROVE  Fits(SendIfIdle(b))
  BY ConstructFits DEF SendIfIdle, Fits

\* The key that made a message too long is the last one, and without it the
\* message is what waited before.
LEMMA BatchKeyFits ==
    ASSUME NEW b \in BatchState, NEW k \in Key, Fits(b)
    PROVE  Fits(BatchKey(b, k))
<1> DEFINE c == insert_ukey_group(b, k)
<1>1. c \in BatchState /\ Sized(c) /\ c.memcached_pkt = b.memcached_pkt
  BY InsertType, InsertSized, InsertFields DEF Fits
<1>2. CASE ~IsFull(c)
  BY <1>1, <1>2, FitsUnlessFull DEF BatchKey, Fits
<1>3. CASE IsFull(c)
  <2>1. ~Contains(b.ukey, k)
    BY <1>3, FitsUnlessFull DEF insert_ukey_group, Fits
  <2>2. c.ukey = Append(b.ukey, k)
    BY <2>1, InsertFields
  <2>3. BatchKey(b, k) = construct_pkt_and_send_to_server(c, TRUE)
    BY <1>3 DEF BatchKey
  <2> HIDE DEF c
  <2>4. c.ukey # NoKeys /\ Last(c.ukey) = k
    BY <2>2, Fields DEF NoKeys, Last
  <2>5. /\ WireLength(c.ukey) = WireLength(Front(c.ukey)) + 1 + KeyLen[k]
        /\ WireLength(c.ukey) = WireLength(b.ukey) + 1 + KeyLen[k]
    BY <1>1, <2>2, <2>4, Fields, WireFront, WireAppend
  <2>6. KeyLen[k] \in Nat /\ WireLength(Front(c.ukey)) \in Nat /\ WireLength(b.ukey) \in Nat
    BY <1>1, <2>4, Fields, FrontLast, WireNat, KeyLenAssumption
  <2>7. WireLength(Front(c.ukey)) <= MAX_PAYLOAD_LEN
    BY <2>5, <2>6 DEF Fits
  <2> QED
    BY <1>1, <2>3, <2>4, <2>7, ConstructFits DEF Fits
<1> QED
  BY <1>2, <1>3

LEMMA CountReplyFits ==
    ASSUME NEW b \in BatchState, NEW r \in ReqId, NEW seq \in SeqId, Fits(b)
    PROVE  Fits(CountReply(b, r, seq))
<1> DEFINE counted == [b EXCEPT !.keys_rcvd[r] = b.keys_rcvd[r] + 1]
<1>1. Fits(counted)
  BY Zenon DEF Fits, Sized, BatchState
<1>2. Fulfilled(b, r) \in BatchState => Fits(SendIfIdle(Fulfilled(b, r)))
  BY FulfilledFields, SendIfIdleFits DEF Fits, Sized
<1> QED
  BY <1>1, <1>2, CountReplyCases DEF Fits, Sized, SameFields

LEMMA StepFits ==
    ASSUME BatchTypeOK, Fits(batch), [BatchNext]_batchVars
    PROVE  Fits(batch')
<1> USE DEF BatchTypeOK
<1>1. CASE ClientIn
  BY <1>1 DEF ClientIn
<1>2. ASSUME NEW k \in Key, ClientKey(k) PROVE Fits(batch')
  BY <1>2, BatchKeyFits DEF ClientKey
<1>3. CASE ClientEnd
  BY <1>3, SendIfIdleFits DEF ClientEnd
<1>4. ASSUME NEW r \in ReqId, NEW seq \in SeqId, ServerReply(r, seq)
      PROVE  Fits(batch')
  BY <1>4, CountReplyFits DEF ServerReply
<1>5. CASE Refresh
  <2>1. Forgotten(batch) \in BatchState /\ Fits(Forgotten(batch))
    BY ForgottenType, ForgottenFields DEF Fits, Sized
  <2>2. batch' = construct_pkt_and_send_to_server(Forgotten(batch), FALSE)
    BY <1>5, Zenon DEF Refresh, refresh_backlog, Forgotten
  <2> QED
    BY <2>1, <2>2, ConstructFits DEF Fits
<1>6. CASE Tick
  BY <1>6, Zenon DEF Tick, BatchState, Fits, Sized
<1>7. CASE UNCHANGED batchVars
  BY <1>7 DEF batchVars
<1> QED
  BY <1>1, <1>2, <1>3, <1>4, <1>5, <1>6, <1>7 DEF BatchNext

LEMMA FitsInit == BatchInit => Fits(batch)
<1> SUFFICES ASSUME BatchInit PROVE Fits(batch)
  OBVIOUS
<1>1. /\ batch.ukey = NoKeys /\ batch.total_ukey_size = 0
      /\ batch.memcached_pkt.keys = NoKeys
  BY DEF BatchInit, InitBatch
<1> QED
  BY <1>1, NothingWaits DEF Fits

\* No message is longer than init_send_app_payload accepts (api.c:475), for all
\* keys and lengths: the running total_ukey_size is right in every state, and the
\* key that exceeds the payload (api.c:320) is kept back.
THEOREM MessagesFit == BatchSpec => []MessageFits
<1>1. Fits(batch) => MessageFits
  BY DEF Fits, MessageFits
<1>2. BatchTypeOK /\ Fits(batch) /\ [BatchNext]_batchVars => Fits(batch)'
  BY StepFits DEF Fits, Sized
<1> QED
  BY <1>1, <1>2, FitsInit, BatchTypeInit, BatchTypeStep, PTL DEF BatchSpec
============================================================================
