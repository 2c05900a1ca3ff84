-------------------------- MODULE MiddleboxProofs --------------------------
(***************************************************************************)
(* In the composition, the merging half meets no environment that Batch    *)
(* does not know: Spec implements BatchSpec, so that the theorems about    *)
(* Batch hold for the middlebox with its clients and memcached.            *)
(***************************************************************************)
EXTENDS Middlebox, BatchProofs

----------------------------------------------------------------------------
(* What was sent once stays known as sent. *)

\* From b to d no request loses its keys, and a send gives its request some.
Keeps(b, d) ==
    /\ \A r \in ReqId : b.keys_sent[r] > 0 => d.keys_sent[r] > 0
    /\ d.request_id # b.request_id =>
           /\ d.memcached_pkt \in Message /\ d.keys_sent[d.memcached_pkt.req] > 0
           /\ d.memcached_pkt.keys # << >>

LEMMA KeepsAfter ==
    ASSUME NEW b, NEW c, NEW d, Keeps(c, d),
           c.keys_sent = b.keys_sent, c.request_id = b.request_id
    PROVE  Keeps(b, d)
  BY DEF Keeps

LEMMA ConstructKeeps ==
    ASSUME NEW b \in BatchState, NEW full_pkt \in BOOLEAN,
           full_pkt => Len(b.ukey) > 1
    PROVE  Keeps(b, construct_pkt_and_send_to_server(b, full_pkt))
<1> DEFINE d == construct_pkt_and_send_to_server(b, full_pkt)
<1>1. CASE b.ukey = NoKeys
  BY <1>1 DEF construct_pkt_and_send_to_server, Keeps
<1>2. CASE b.ukey # NoKeys
  <2>1. d \in BatchState
    BY ConstructType
  <2>2. ASSUME NEW keys, NEW rest, NEW size, Len(keys) \in Nat, Len(keys) > 0,
               d = Dispatch(b, keys, rest, size)
        PROVE  Keeps(b, d)
    <3>1. /\ \A q \in ReqId : d.keys_sent[q] = IF q = b.request_id THEN Len(keys)
                                               ELSE b.keys_sent[q]
          /\ d.memcached_pkt.req = b.request_id /\ d.memcached_pkt.keys = keys
      BY <2>2, DispatchFields
    <3>2. b.request_id \in ReqId /\ d.memcached_pkt \in Message
      BY <2>1, Fields
    <3> HIDE DEF d
    <3> QED
      BY <2>2, <3>1, <3>2 DEF Keeps
  <2>3. Len(b.ukey) \in Nat /\ Len(b.ukey) > 0 /\ Len(Front(b.ukey)) = Len(b.ukey) - 1
    BY <1>2, Fields, FrontLast
  <2> QED
    BY <1>2, <2>2, <2>3 DEF construct_pkt_and_send_to_server
<1> QED
  BY <1>1, <1>2

LEMMA SendIfIdleKeeps ==
    ASSUME NEW b \in BatchState
    PROVE  Keeps(b, SendIfIdle(b))
  BY ConstructKeeps DEF SendIfIdle, Keeps

LEMMA BatchKeyKeeps ==
    ASSUME NEW b \in BatchState, NEW k \in Key, Counted(b)
    PROVE  Keeps(b, BatchKey(b, k))
<1> DEFINE c == insert_ukey_group(b, k)
<1>1. c \in BatchState /\ c.request_id = b.request_id /\ c.keys_sent = b.keys_sent
  BY InsertType, InsertFields
<1>2. CASE ~IsFull(c)
  BY <1>1, <1>2 DEF BatchKey, Keeps
<1>3. CASE IsFull(c)
  <2>1. Len(c.ukey) > 1
    BY <1>3, FullHasMore
  <2>2. BatchKey(b, k) = construct_pkt_and_send_to_server(c, TRUE)
    BY <1>3 DEF BatchKey
  <2> HIDE DEF c
  <2> QED
    BY <1>1, <2>1, <2>2, ConstructKeeps, KeepsAfter
<1> QED
  BY <1>2, <1>3

LEMMA CountReplyKeeps ==
    ASSUME NEW b \in BatchState, NEW r \in ReqId, NEW seq \in SeqId
    PROVE  Keeps(b, CountReply(b, r, seq))
<1> DEFINE counted == [b EXCEPT !.keys_rcvd[r] = b.keys_rcvd[r] + 1]
<1>1. Keeps(b, counted)
  <2>1. counted.keys_sent = b.keys_sent /\ counted.request_id = b.request_id
    BY Zenon DEF BatchState
  <2> HIDE DEF counted
  <2> QED
    BY <2>1 DEF Keeps
<1>2. Fulfilled(b, r) \in BatchState => Keeps(b, SendIfIdle(Fulfilled(b, r)))
  BY FulfilledFields, SendIfIdleKeeps, KeepsAfter
<1>3. Keeps(b, b)
  BY DEF Keeps
<1>4. \A c, d : SameFields(c, d) /\ Keeps(b, d) => Keeps(b, c)
  BY DEF Keeps, SameFields
<1> QED
  BY <1>1, <1>2, <1>3, <1>4, CountReplyCases

LEMMA StepKeeps ==
    ASSUME batch \in BatchState, Counted(batch), [BatchNext]_batchVars
    PROVE  Keeps(batch, batch')
<1>1. Keeps(batch, batch)
  BY DEF Keeps
<1>2. CASE ClientIn
  BY <1>1, <1>2 DEF ClientIn
<1>3. ASSUME NEW k \in Key, ClientKey(k) PROVE Keeps(batch, batch')
  BY <1>3, BatchKeyKeeps DEF ClientKey
<1>4. CASE ClientEnd
  BY <1>4, SendIfIdleKeeps DEF ClientEnd
<1>5. ASSUME NEW r \in ReqId, NEW seq \in SeqId, ServerReply(r, seq)
      PROVE  Keeps(batch, batch')
  BY <1>5, CountReplyKeeps DEF ServerReply
<1>6. CASE Refresh
  <2> DEFINE c == Forgotten(batch)
  <2>1. batch' = construct_pkt_and_send_to_server(c, FALSE)
    BY <1>6, Zenon DEF Refresh, refresh_backlog, Forgotten
  <2>2. c \in BatchState /\ c.request_id = batch.request_id /\ c.keys_sent = batch.keys_sent
    BY ForgottenType, ForgottenFields
  <2> HIDE DEF c
  <2> QED
    BY <2>1, <2>2, ConstructKeeps, KeepsAfter
<1>7. CASE Tick
  <2> DEFINE c == [batch EXCEPT !.expired = TRUE]
  <2>1. c.request_id = batch.request_id /\ c.keys_sent = batch.keys_sent
    BY Zenon DEF BatchState
  <2>2. batch' = c
    BY <1>7, Zenon DEF Tick
  <2> HIDE DEF c
  <2> QED
    BY <2>1, <2>2 DEF Keeps
<1>8. CASE UNCHANGED batchVars
  BY <1>1, <1>8 DEF batchVars
<1> QED
  BY <1>2, <1>3, <1>4, <1>5, <1>6, <1>7, <1>8 DEF BatchNext

----------------------------------------------------------------------------
(* The environment answers only what was sent. *)

Answer == ReqId \X (Key \cup {NoKey})

\* An answer to a request that was sent.
IsDue(a) == a \in Answer /\ batch.keys_sent[a[1]] > 0

\* A value of which datagram seq was sent and datagram seq + 1 is still to come.
IsPartial(v) ==
    /\ IsDue(v.answer)
    /\ v.exp \in 1 .. MaxDatagrams /\ v.seq \in Nat /\ v.seq + 1 < v.exp

\* What the handlers find: the packets of clients name keys, and memcached owes
\* answers for requests that were sent.
Environment ==
    /\ requests \in Seq(Seq(Key) \ {<< >>}) /\ next \in Nat \ {0}
    /\ in_client => requests # << >>
    /\ \A a \in todo : IsDue(a)
    /\ value # NoValue => IsPartial(value)

Inv == BatchTypeOK /\ Counted(batch) /\ Environment

LEMMA InitInv == Init => Inv
<1> SUFFICES ASSUME Init PROVE Inv
  OBVIOUS
<1>1. BatchTypeOK /\ Counted(batch)
  BY BatchTypeInit, CountedInit DEF Init
<1>2. Environment
  BY DEF Init, BatchInit, Environment
<1> QED
  BY <1>1, <1>2 DEF Inv

\* The datagram handler is a reply of Batch, or leaves the batch alone if no
\* client is found.
LEMMA ServerStep ==
    ASSUME Inv, NEW a, NEW seq, NEW exp \in 1 .. MaxDatagrams, IsDue(a),
           seq \in 0 .. exp - 1, AppServerIn(a, seq, exp)
    PROVE  [BatchNext]_batchVars
<1>1. seq \in SeqId
  BY ClientMapAssumption, MiddleboxAssumption, BatchAssumption DEF SeqId
<1>2. a[1] \in ReqId
  BY DEF IsDue, Answer
<1>3. CASE batch' = batch
  BY <1>3 DEF AppServerIn, batchVars
<1>4. CASE batch' = CountReply(batch, a[1], seq)
  <2>1. ServerReply(a[1], seq)
    BY <1>4, Zenon DEF AppServerIn, ServerReply, IsDue
  <2> QED
    BY <1>1, <1>2, <2>1 DEF BatchNext
<1> QED
  BY <1>3, <1>4, Zenon DEF AppServerIn

\* Every step of the middlebox is a step of Batch or does not concern it.
LEMMA StepIsBatchStep ==
    ASSUME Inv, [Next]_vars
    PROVE  [BatchNext]_batchVars
<1>1. CASE AppClientIn
  BY <1>1 DEF AppClientIn, BatchNext
<1>2. CASE AppClientKey
  <2> DEFINE keys == requests[Len(requests)]
             k == keys[next]
  <2>1. ClientKey(k) /\ in_client /\ next <= Len(keys)
    BY <1>2, Zenon DEF AppClientKey
  <2>2. Len(requests) \in Nat /\ Len(requests) > 0 /\ next \in Nat \ {0}
    BY <2>1, EmptySeq DEF Inv, Environment
  <2>3. keys \in Seq(Key)
    BY <2>2 DEF Inv, Environment
  <2>4. k \in Key
    BY <2>1, <2>2, <2>3
  <2> HIDE DEF k
  <2> QED
    BY <2>1, <2>4 DEF BatchNext
<1>3. CASE AppClientEnd
  BY <1>3 DEF AppClientEnd, BatchNext
<1>4. ASSUME NEW a \in todo, NEW exp \in 1 .. MaxDatagrams, FirstDatagram(a, exp)
      PROVE  [BatchNext]_batchVars
  <2>1. IsDue(a) /\ AppServerIn(a, 0, exp) /\ 0 \in 0 .. exp - 1
    BY <1>4 DEF FirstDatagram, Inv, Environment
  <2> QED
    BY <1>4, <2>1, ServerStep
<1>5. CASE NextDatagram
  <2> DEFINE seq == value.seq + 1
  <2>1. IsPartial(value) /\ AppServerIn(value.answer, seq, value.exp)
    BY <1>5 DEF NextDatagram, Inv, Environment
  <2>2. IsDue(value.answer) /\ value.exp \in 1 .. MaxDatagrams /\ seq \in 0 .. value.exp - 1
    BY <2>1 DEF IsPartial
  <2> HIDE DEF seq
  <2> QED
    BY <2>1, <2>2, ServerStep
<1>6. ASSUME NEW a \in todo, NEW exp \in 1 .. MaxDatagrams, LoseFirst(a, exp)
      PROVE  [BatchNext]_batchVars
  BY <1>6 DEF LoseFirst, batchVars
<1>7. CASE LoseNext
  BY <1>7 DEF LoseNext, batchVars
<1>8. CASE PollRefresh
  BY <1>8 DEF PollRefresh, BatchNext
<1>9. CASE ClockTick
  BY <1>9 DEF ClockTick, BatchNext
<1>10. CASE UNCHANGED vars
  BY <1>10 DEF vars, batchVars
<1> QED
  BY <1>1, <1>2, <1>3, <1>4, <1>5, <1>6, <1>7, <1>8, <1>9, <1>10 DEF Next

\* memcached owes answers only for the keys of a message that left in this step.
LEMMA NewAnswersDue ==
    ASSUME Inv, [BatchNext]_batchVars
    PROVE  /\ \A a \in NewAnswers : IsDue(a)'
           /\ \A a : IsDue(a) => IsDue(a)'
<1>1. Keeps(batch, batch')
  BY StepKeeps DEF Inv, BatchTypeOK
<1>2. \A a : IsDue(a) => IsDue(a)'
  BY <1>1 DEF Keeps, IsDue, Answer
<1>3. ASSUME NEW a \in NewAnswers PROVE IsDue(a)'
  <2> DEFINE msg == batch'.memcached_pkt
  <2>1. batch'.request_id # batch.request_id /\ a \in Answers(msg)
    BY <1>3 DEF NewAnswers
  <2>2. msg \in Message /\ batch'.keys_sent[msg.req] > 0
    BY <1>1, <2>1 DEF Keeps
  <2> HIDE DEF msg
  <2>3. a \in {msg.req} \X (Key \cup {NoKey})
    BY <2>1, MiddleboxAssumption DEF Answers
  <2>4. msg.req \in ReqId
    BY <2>2 DEF Message
  <2>5. a \in Answer /\ a[1] = msg.req
    BY <2>3, <2>4 DEF Answer
  <2> QED
    BY <2>2, <2>5 DEF IsDue, msg
<1> QED
  BY <1>2, <1>3

LEMMA EmitPartial ==
    ASSUME NEW a, NEW seq \in Nat, NEW exp \in 1 .. MaxDatagrams, seq <= exp - 1,
           IsDue(a)', Emit(a, seq, exp)
    PROVE  (value # NoValue => IsPartial(value))'
<1>1. CASE seq = exp - 1
  BY <1>1 DEF Emit
<1>2. CASE seq # exp - 1
  <2>1. value' = [answer |-> a, seq |-> seq, exp |-> exp]
    BY <1>2 DEF Emit
  <2>2. value'.answer = a /\ value'.seq = seq /\ value'.exp = exp
    BY <2>1
  <2>3. seq + 1 < exp
    BY <1>2, ClientMapAssumption
  <2> QED
    BY <2>2, <2>3 DEF IsPartial
<1> QED
  BY <1>1, <1>2

\* The same for the next datagram of a value.
LEMMA EmitNextPartial ==
    ASSUME IsPartial(value), \A a : IsDue(a) => IsDue(a)',
           Emit(value.answer, value.seq + 1, value.exp)
    PROVE  (value # NoValue => IsPartial(value))'
<1>1. PICK a, seq, exp :
          a = value.answer /\ seq = value.seq + 1 /\ exp = value.exp
  OBVIOUS
<1>2. IsDue(a)' /\ Emit(a, seq, exp)
  BY <1>1 DEF IsPartial
<1>3. seq \in Nat /\ exp \in 1 .. MaxDatagrams /\ seq <= exp - 1
  BY <1>1 DEF IsPartial
<1> QED
  BY <1>2, <1>3, EmitPartial

LEMMA StepEnvironment ==
    ASSUME Inv, [Next]_vars
    PROVE  Environment'
<1>1. /\ \A a \in NewAnswers : IsDue(a)'
      /\ \A a : IsDue(a) => IsDue(a)'
  BY StepIsBatchStep, NewAnswersDue
<1> DEFINE Packets == /\ requests \in Seq(Seq(Key) \ {<< >>}) /\ next \in Nat \ {0}
                      /\ in_client => requests # << >>
           Owed == \A a \in todo : IsDue(a)
           Begun == value # NoValue => IsPartial(value)
<1>2. Packets /\ Owed /\ Begun
  BY DEF Inv, Environment
<1>3. todo' \subseteq todo \cup NewAnswers => Owed'
  BY <1>1, <1>2
<1>4. UNCHANGED value => Begun'
  BY <1>1, <1>2 DEF IsPartial
<1>5. UNCHANGED requests /\ next' \in {next, next + 1} /\ (in_client' => in_client) => Packets'
  BY <1>2
<1> SUFFICES Packets' /\ Owed' /\ Begun'
  BY DEF Environment
<1>6. CASE AppClientIn
  <2>1. PICK keys \in ClientRequests : requests' = Append(requests, keys)
    BY <1>6 DEF AppClientIn
  <2>2. keys \in Seq(Key) \ {<< >>}
    BY MiddleboxAssumption
  <2>3. requests' \in Seq(Seq(Key) \ {<< >>}) /\ requests' # << >>
    BY <1>2, <2>1, <2>2
  <2>4. next' = 1 /\ UNCHANGED <<todo, value>>
    BY <1>6 DEF AppClientIn
  <2> QED
    BY <1>3, <1>4, <2>3, <2>4
<1>7. CASE AppClientKey
  BY <1>3, <1>4, <1>5, <1>7, Zenon DEF AppClientKey, ClientKey
<1>8. CASE AppClientEnd
  BY <1>3, <1>4, <1>5, <1>8 DEF AppClientEnd, ClientEnd
<1>9. ASSUME NEW a \in todo, NEW exp \in 1 .. MaxDatagrams, FirstDatagram(a, exp)
      PROVE  Packets' /\ Owed' /\ Begun'
  <2>1. /\ Emit(a, 0, exp) /\ UNCHANGED <<in_client, requests, next>>
        /\ todo' \subseteq todo \cup NewAnswers
    BY <1>9 DEF FirstDatagram, BeginAnswer, AppServerIn
  <2>2. IsDue(a)' /\ 0 \in Nat /\ 0 <= exp - 1
    BY <1>1, <1>2, <1>9, ClientMapAssumption
  <2>3. Begun'
    BY <2>1, <2>2, EmitPartial
  <2> QED
    BY <1>3, <1>5, <2>1, <2>3
<1>10. CASE NextDatagram
  <2>1. /\ Emit(value.answer, value.seq + 1, value.exp)
        /\ UNCHANGED <<in_client, requests, next>>
        /\ todo' \subseteq todo \cup NewAnswers /\ value # NoValue
    BY <1>10 DEF NextDatagram, AppServerIn
  <2>2. Begun'
    BY <1>1, <1>2, <2>1, EmitNextPartial
  <2> QED
    BY <1>3, <1>5, <2>1, <2>2
<1>11. ASSUME NEW a \in todo, NEW exp \in 1 .. MaxDatagrams, LoseFirst(a, exp)
       PROVE  Packets' /\ Owed' /\ Begun'
  <2>1. /\ Emit(a, 0, exp) /\ UNCHANGED <<in_client, requests, next>>
        /\ todo' \subseteq todo
    BY <1>11 DEF LoseFirst, BeginAnswer
  <2>2. IsDue(a)' /\ 0 \in Nat /\ 0 <= exp - 1
    BY <1>1, <1>2, <1>11, ClientMapAssumption
  <2>3. Begun'
    BY <2>1, <2>2, EmitPartial
  <2> QED
    BY <1>3, <1>5, <2>1, <2>3
<1>12. CASE LoseNext
  <2>1. /\ Emit(value.answer, value.seq + 1, value.exp)
        /\ UNCHANGED <<in_client, requests, next, todo>> /\ value # NoValue
    BY <1>12 DEF LoseNext
  <2>2. Begun'
    BY <1>1, <1>2, <2>1, EmitNextPartial
  <2> QED
    BY <1>3, <1>5, <2>1, <2>2
<1>13. CASE PollRefresh
  BY <1>3, <1>4, <1>5, <1>13 DEF PollRefresh, Refresh
<1>14. CASE ClockTick
  BY <1>3, <1>4, <1>5, <1>14 DEF ClockTick, Tick, envVars
<1>15. CASE UNCHANGED vars
  BY <1>3, <1>4, <1>5, <1>15 DEF vars, envVars
<1> QED
  BY <1>6, <1>7, <1>8, <1>9, <1>10, <1>11, <1>12, <1>13, <1>14, <1>15 DEF Next

LEMMA StepInv ==
    ASSUME Inv, [Next]_vars
    PROVE  Inv'
<1>1. [BatchNext]_batchVars
  BY StepIsBatchStep
<1>2. BatchTypeOK'
  BY <1>1, BatchTypeStep DEF Inv
<1>3. Counted(batch)'
  BY <1>1, StepOpens DEF Inv, BatchTypeOK, Counted, Roomy, IsFull
<1> QED
  BY <1>2, <1>3, StepEnvironment DEF Inv

\* The merging half of the middlebox behaves as Batch says, with real clients
\* and the answers of memcached as its environment: no datagram that the handlers
\* count belongs to a request that was never sent (api.c:218), and no handler
\* starts inside another or while a backlog is due (middlebox.c:29).
THEOREM Composition == Spec => BatchSpec
<1>1. Inv /\ [Next]_vars => Inv'
  BY StepInv
<1>2. Inv /\ [Next]_vars => [BatchNext]_batchVars
  BY StepIsBatchStep
<1>3. Init => BatchInit
  BY DEF Init
<1> QED
  BY <1>1, <1>2, <1>3, InitInv, PTL DEF Spec, BatchSpec

\* What Batch promises holds for the middlebox: the decrement of outstanding_req
\* does not pass zero as long as no increment overflowed, messages fit and name no
\* key twice, and keys wait only behind a busy memcached.
COROLLARY MiddleboxKeepsBatch ==
    Spec => CoveredUntilOverflow /\ [](MessageFits /\ NoDuplicateKeys /\ WorkConserving)
  BY Composition, OutstandingCovers, MessagesFit, NoDuplicates, WorkConservation, PTL
============================================================================
