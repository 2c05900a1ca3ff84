----------------------------- MODULE Middlebox -----------------------------
(***************************************************************************)
(* The middlebox between its clients and memcached: the merging of Batch   *)
(* and the steering of ClientMap run in the same handlers (app_client_in,  *)
(* app_server_in and refresh_backlog of middlebox/src/api.c) on one core,  *)
(* which lcore_main (middlebox.c) calls in the order in which packets      *)
(* arrive. The network and memcached are the environment: memcached        *)
(* answers each key of a message in any order, a value in one datagram or  *)
(* in several that follow one another, and datagrams may be lost.          *)
(*                                                                         *)
(* Request n is the n-th packet of any client. It stands for the address   *)
(* of the client and the request id that the client chose, which is all    *)
(* that app_server_in reads from a chained packet.                         *)
(***************************************************************************)
EXTENDS Batch, ClientMap

CONSTANTS
    ClientRequests,   \* the sequences of keys that a packet may ask for
    Stored,           \* the keys memcached has a value for
    NoKey,            \* the missing key of an "END" without any value
    NoValue,          \* no value is partly delivered
    MaxRequests,      \* bound of the model on the packets of clients
    Lost,             \* which datagrams of memcached may be lost: the "only" one of
                      \* an answer, the "first" of several and the "next" ones
    Interleaved       \* TRUE if clients' packets come between the datagrams
                      \* of a value

ASSUME MiddleboxAssumption ==
    /\ Sig = ReqId \X Key
    /\ ClientRequests \subseteq Seq(Key) \ {<< >>}
    /\ Stored \subseteq Key /\ NoKey \notin Key
    /\ NoValue \notin [answer : ReqId \X (Key \cup {NoKey}), seq : Nat, exp : Nat]
    /\ MaxRequests \in Nat
    /\ MaxDatagrams <= MaxSeq + 1
    \* one mempool holds all mbufs; a chain may hold all of them
    /\ IsFiniteSet(Buf) /\ Cardinality(Buf) <= MaxChain
    /\ Lost \subseteq {"only", "first", "next"} /\ Interleaved \in BOOLEAN

VARIABLES
    requests,  \* the keys asked by each packet of a client so far
    next,      \* position in the last packet, while it is handled
    pkts,      \* the request that each mbuf holds, 0 for none so far
    todo,      \* the answers memcached has not begun to send
    value,     \* the value of which some datagrams are still to come
    got        \* the bag of datagrams forwarded: <<request, key, whether it is the last>>

envVars == <<requests, next, pkts, todo, value, got>>
vars == <<batch, in_client, clients, envVars>>

Init ==
    /\ BatchInit
    /\ ClientMapInit
    /\ requests = << >> /\ next = 1
    /\ pkts = [buf \in Buf |-> 0]
    /\ todo = {} /\ value = NoValue /\ got = EmptyBag

----------------------------------------------------------------------------
(* memcached *)

\* The answers to a message: a value for each key that is stored, or, if
\* none is, "END" alone.
Answers(msg) ==
    LET found == ToSet(msg.keys) \cap Stored
    IN  {msg.req} \X (IF found = {} THEN {NoKey} ELSE found)

\* The answers that memcached owes for the message of this step, if it sends one.
NewAnswers ==
    IF batch'.request_id = batch.request_id THEN {} ELSE Answers(batch'.memcached_pkt)

\* Datagram seq of exp datagrams of an answer leaves memcached.
Emit(answer, seq, exp) ==
    value' = IF seq = exp - 1 THEN NoValue
             ELSE [answer |-> answer, seq |-> seq, exp |-> exp]

BeginAnswer(answer, exp) ==
    /\ value = NoValue
    /\ answer[2] = NoKey => exp = 1
    /\ Emit(answer, 0, exp)

----------------------------------------------------------------------------
(* Handlers *)

\* A datagram of the value of key k goes to the client of every packet of a chain.
Forward(chain, k, last) ==
    got (+) [d \in {<<pkts[buf], k, last>> : buf \in ToSet(chain)} |->
                Cardinality({i \in DOMAIN chain : pkts[chain[i]] = d[1]})]

AppClientIn ==
    /\ Len(requests) < MaxRequests
    /\ Interleaved \/ value = NoValue
    /\ ClientIn
    /\ \E keys \in ClientRequests :
         \* One mbuf for the packet and one for each copy: the network holds a
         \* packet back that finds the pool empty. The driver would drop it, or
         \* api.c:313 dereference the copy that could not be made.
         /\ Len(keys) <= Cardinality(Buf \ clients.live)
         /\ requests' = Append(requests, keys)
    /\ next' = 1
    /\ UNCHANGED <<clients, pkts, todo, value, got>>

\* Mutant of AppClientKey: all keys of a packet register the packet itself,
\* as if api.c:287-289 made no copies.
AppClientKeyShared ==
    LET request == Len(requests)
        keys == requests[request]
        k == keys[next]
    IN  /\ in_client /\ next <= Len(keys)
        /\ ClientKey(k)
        /\ \E buf \in IF next = 1 THEN Buf \ clients.live
                      ELSE {b \in Buf : pkts[b] = request} :
             /\ clients' = RegisterClient(clients, <<batch.request_id, k>>, buf)
             /\ pkts' = [pkts EXCEPT ![buf] = request]
        /\ next' = next + 1
        /\ todo' = todo \cup NewAnswers
        /\ UNCHANGED <<requests, value, got>>

\* One round of the loop: the signature holds the request id from before the
\* message that the key may fill.
AppClientKey ==
    LET request == Len(requests)
        keys == requests[request]
        k == keys[next]
    IN  /\ in_client /\ next <= Len(keys)
        /\ ClientKey(k)
        /\ \E buf \in Buf \ clients.live :
             /\ clients' = RegisterClient(clients, <<batch.request_id, k>>, buf)
             /\ pkts' = [pkts EXCEPT ![buf] = request]
        /\ next' = next + 1
        /\ todo' = todo \cup NewAnswers
        /\ UNCHANGED <<requests, value, got>>

AppClientEnd ==
    /\ in_client /\ next > Len(requests[Len(requests)])
    /\ ClientEnd
    /\ todo' = todo \cup NewAnswers
    /\ UNCHANGED <<clients, requests, next, pkts, value, got>>

\* Mutant of AppServerIn: the backlog is not refreshed before the packet, as
\* if middlebox.c:29 were missing.
AppServerInLate(answer, seq, exp) ==
    LET s == IF seq = 0 /\ answer[2] # NoKey THEN answer ELSE NoSig
        chain == Recipients(clients, s)
    IN  /\ ~in_client
        /\ clients' = SteerDatagram(clients, s, exp)
        /\ got' = Forward(chain, answer[2], seq = exp - 1)
        /\ batch' = IF chain = NoChain THEN batch ELSE CountReply(batch, answer[1], seq)
        /\ UNCHANGED <<in_client, requests, next, pkts>>

\* The datagram of an answer arrives; only the first one names its key. It is
\* counted for the request, unless no client is found.
AppServerIn(answer, seq, exp) ==
    LET s == IF seq = 0 /\ answer[2] # NoKey THEN answer ELSE NoSig
        chain == Recipients(clients, s)
    IN  /\ ~in_client /\ ~BacklogDue(batch)
        /\ clients' = SteerDatagram(clients, s, exp)
        /\ got' = Forward(chain, answer[2], seq = exp - 1)
        /\ batch' = IF chain = NoChain THEN batch ELSE CountReply(batch, answer[1], seq)
        /\ UNCHANGED <<in_client, requests, next, pkts>>

FirstDatagram(answer, exp) ==
    /\ BeginAnswer(answer, exp)
    /\ AppServerIn(answer, 0, exp)
    /\ todo' = (todo \ {answer}) \cup NewAnswers

NextDatagram ==
    /\ value # NoValue
    /\ Emit(value.answer, value.seq + 1, value.exp)
    /\ AppServerIn(value.answer, value.seq + 1, value.exp)
    /\ todo' = todo \cup NewAnswers

LoseFirst(answer, exp) ==
    /\ (IF exp = 1 THEN "only" ELSE "first") \in Lost /\ ~in_client
    /\ BeginAnswer(answer, exp)
    /\ todo' = todo \ {answer}
    /\ UNCHANGED <<batch, in_client, clients, requests, next, pkts, got>>

LoseNext ==
    /\ "next" \in Lost /\ ~in_client /\ value # NoValue
    /\ Emit(value.answer, value.seq + 1, value.exp)
    /\ UNCHANGED <<batch, in_client, clients, requests, next, pkts, todo, got>>

PollRefresh ==
    /\ Refresh
    /\ todo' = todo \cup NewAnswers
    /\ UNCHANGED <<clients, requests, next, pkts, value, got>>

ClockTick == Tick /\ UNCHANGED <<clients, envVars>>

Next ==
    \/ AppClientIn
    \/ AppClientKey
    \/ AppClientEnd
    \/ \E answer \in todo, exp \in 1 .. MaxDatagrams : FirstDatagram(answer, exp)
    \/ NextDatagram
    \/ \E answer \in todo, exp \in 1 .. MaxDatagrams : LoseFirst(answer, exp)
    \/ LoseNext
    \/ PollRefresh
    \/ ClockTick

Spec == Init /\ [][Next]_vars

\* lcore_main never blocks: it finishes a handler, polls again, and so takes
\* what memcached sends; memcached answers each request it received.
Fairness ==
    /\ WF_vars(AppClientKey) /\ WF_vars(AppClientEnd)
    /\ WF_vars(PollRefresh) /\ WF_vars(ClockTick)
    /\ WF_vars(NextDatagram)
    /\ \A answer \in ReqId \X (Key \cup {NoKey}) :
         WF_vars(\E exp \in 1 .. MaxDatagrams :
                    answer \in todo /\ FirstDatagram(answer, exp))

FairSpec == Spec /\ Fairness

----------------------------------------------------------------------------
(* Properties *)

\* The variables have their types.
TypeOK ==
    /\ BatchTypeOK /\ ClientMapTypeOK
    /\ requests \in Seq(ClientRequests) /\ next \in Nat \ {0}
    /\ pkts \in [Buf -> 0 .. Len(requests)]
    /\ todo \subseteq ReqId \X (Key \cup {NoKey})
    /\ IsABag(got)
    /\ BagToSet(got) \subseteq (0 .. Len(requests)) \X (Key \cup {NoKey}) \X BOOLEAN

\* README.md:3, replies are steered to the correct clients: no client is
\* forwarded a datagram of a value that its packet did not ask for.
Steered == \A d \in BagToSet(got) : d[1] > 0 /\ Contains(requests[d[1]], d[2])

\* How often packet n asks for k, and how often its client got the last datagram
\* of the value.
Asked(n, k) == Cardinality({i \in DOMAIN requests[n] : requests[n][i] = k})
Answered(n, k) ==
    IF BagIn(<<n, k, TRUE>>, got) THEN got[<<n, k, TRUE>>] ELSE 0

\* No client gets the last datagram of a value, and so a complete value, more
\* often than its packet asks for the key: an entry is cleared by its answer, also
\* if the same id and key are registered again (api.c:246). The clients count
\* replies (rand_client/client.cpp:141-144), so that one too many would be taken
\* for an answer to the next request. First datagrams are not counted here: one
\* may be repeated after the tail of its value was lost.
NotAnsweredTwice ==
    \A n \in 1 .. Len(requests), k \in Key : Answered(n, k) <= Asked(n, k)

Awaited ==
    todo \cup (IF value = NoValue THEN {} ELSE {value.answer})

\* Every entry of the table waits for something: its key is still to be sent
\* under the id of the entry, or memcached still owes the answer. An entry
\* that waits for nothing keeps its clients waiting until it is evicted.
EntriesAreAwaited ==
    \A s \in Registered(clients) :
        \/ s[1] = batch.request_id /\ Contains(batch.ukey, s[2])
        \/ s \in Awaited

\* README.md:25, each client displays the values it requested: for every key
\* of every packet the value is delivered, as often as the packet asks for it.
EveryKeyAnswered ==
    \A n \in 1 .. MaxRequests, k \in Key :
        n <= Len(requests) /\ Contains(requests[n], k)
            ~> n <= Len(requests) /\ Answered(n, k) >= Asked(n, k)
============================================================================
