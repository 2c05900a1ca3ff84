------------------------------ MODULE Clients ------------------------------
(***************************************************************************)
(* The clients of the middlebox (client/client.cpp, rand_client/           *)
(* client.cpp) and the middlebox they talk to.  A client sends the packets *)
(* of a burst, then reads datagrams until it has counted as many as it     *)
(* expects for the burst, without a look at what they answer, then begins  *)
(* the next burst.                                                         *)
(*                                                                         *)
(* The packet that a client sends is the next one that the middlebox       *)
(* handles: a packet that travels longer is one that is sent later, since  *)
(* a client does not read before it has sent its burst.  Datagrams of the  *)
(* middlebox wait in the socket of their client.                           *)
(***************************************************************************)
EXTENDS Middlebox

CONSTANTS
    BurstClient, RandClient,   \* the clients that run each program
    BurstMessage,              \* what each burst client asks for, always the same
    KeyList,                   \* the keys of config-files/key.csv
    BURST_SIZE,                \* of each client
    BURST_NUMBER,              \* of each client
    NUM_KEYS_PER_PACKET,       \* keys that a random client asks for in a packet
    REPLIES_PER_REQUEST        \* the literal 4 of client.cpp:122

Client == BurstClient \cup RandClient

\* Messages are short enough to be sent: a client ends when one is not. A burst
\* client takes its message from the command line: it may name any number of keys.
ASSUME ClientsAssumption ==
    /\ BurstClient \cap RandClient = {}
    /\ BurstMessage \in [BurstClient -> ClientRequests]
    /\ KeyList \subseteq Key
    /\ [1 .. NUM_KEYS_PER_PACKET -> KeyList] \subseteq ClientRequests
    /\ BURST_SIZE \in [Client -> Nat \ {0}] /\ BURST_NUMBER \in [Client -> Nat]
    /\ NUM_KEYS_PER_PACKET \in Nat \ {0} /\ REPLIES_PER_REQUEST \in Nat \ {0}

VARIABLES
    burst_ctr,   \* bursts that each client has finished
    msg_ctr,     \* packets sent in the burst, or datagrams still expected
    receiving,   \* the clients in the second loop of their burst
    from,        \* the client of each request
    nread        \* datagrams that each client has read

loopVars == <<burst_ctr, msg_ctr, receiving, from, nread>>
clientsVars == <<vars, loopVars>>

ClientsInit ==
    /\ Init
    /\ burst_ctr = [c \in Client |-> 0]
    /\ msg_ctr = [c \in Client |-> 0]
    /\ receiving = {}
    /\ from = << >>
    /\ nread = [c \in Client |-> 0]

Running(c) == burst_ctr[c] < BURST_NUMBER[c]

\* The datagrams that a client expects for a packet. A burst client expects the
\* same number whatever its message asks for.
Expected(c) == IF c \in RandClient THEN NUM_KEYS_PER_PACKET ELSE REPLIES_PER_REQUEST

\* How many datagrams were forwarded to c.
Delivered(c) ==
    Cardinality(UNION {{d} \X (1 .. got[d]) :
                       d \in {d \in BagToSet(got) : d[1] > 0 /\ from[d[1]] = c}})

\* Mutant of SendPacket: one datagram is expected for a packet, as in
\* old_client.cpp:102.
SendPacketOneReply(c) ==
    /\ Running(c) /\ c \notin receiving
    /\ AppClientIn
    /\ from' = Append(from, c)
    /\ \/ /\ msg_ctr[c] + 1 < BURST_SIZE[c]
          /\ msg_ctr' = [msg_ctr EXCEPT ![c] = @ + 1]
          /\ UNCHANGED receiving
       \/ /\ msg_ctr[c] + 1 = BURST_SIZE[c]
          /\ msg_ctr' = [msg_ctr EXCEPT ![c] = BURST_SIZE[c]]
          /\ receiving' = receiving \cup {c}
    /\ UNCHANGED <<burst_ctr, nread>>

\* A packet of the burst. After the last one msg_ctr counts down the datagrams.
SendPacket(c) ==
    /\ Running(c) /\ c \notin receiving
    /\ AppClientIn
    /\ from' = Append(from, c)
    /\ \/ /\ msg_ctr[c] + 1 < BURST_SIZE[c]
          /\ msg_ctr' = [msg_ctr EXCEPT ![c] = @ + 1]
          /\ UNCHANGED receiving
       \/ /\ msg_ctr[c] + 1 = BURST_SIZE[c]
          /\ msg_ctr' = [msg_ctr EXCEPT ![c] = BURST_SIZE[c] * Expected(c)]
          /\ receiving' = receiving \cup {c}
    /\ UNCHANGED <<burst_ctr, nread>>

BurstSend(c) ==
    /\ SendPacket(c)
    /\ Last(requests') = BurstMessage[c]

\* Any keys of the list, also the same one again.
create_rand_msg == [1 .. NUM_KEYS_PER_PACKET -> KeyList]

RandSend(c) ==
    /\ SendPacket(c)
    /\ Last(requests') \in create_rand_msg

\* recvfrom returns a datagram. The last one expected ends the burst.
Receive(c) ==
    /\ c \in receiving
    /\ nread[c] < Delivered(c)
    /\ nread' = [nread EXCEPT ![c] = @ + 1]
    /\ msg_ctr' = [msg_ctr EXCEPT ![c] = @ - 1]
    /\ \/ msg_ctr[c] > 1 /\ UNCHANGED <<burst_ctr, receiving>>
       \/ /\ msg_ctr[c] = 1
          /\ burst_ctr' = [burst_ctr EXCEPT ![c] = @ + 1]
          /\ receiving' = receiving \ {c}
    /\ UNCHANGED <<vars, from>>

\* The mempool hands out one mbuf; which one makes no difference.
FromPool ==
    \A buf \in clients'.live \ clients.live :
        buf = CHOOSE free \in Buf \ clients.live : TRUE

\* The middlebox, memcached or the network make a step; no packet is sent.
MiddleboxStep ==
    /\ Next
    /\ requests' = requests
    /\ FromPool
    /\ UNCHANGED loopVars

ClientsNext ==
    \/ \E c \in BurstClient : BurstSend(c)
    \/ \E c \in RandClient : RandSend(c)
    \/ \E c \in Client : Receive(c)
    \/ MiddleboxStep

\* A client sends without waiting for anything but the middlebox, and recvfrom
\* returns when a datagram is there.
ClientsFairness ==
    /\ \A c \in BurstClient : WF_clientsVars(BurstSend(c))
    /\ \A c \in RandClient : WF_clientsVars(RandSend(c))
    /\ \A c \in Client : WF_clientsVars(Receive(c))

ClientsSpec == ClientsInit /\ [][ClientsNext]_clientsVars /\ Fairness /\ ClientsFairness

----------------------------------------------------------------------------
(* Properties *)

\* Request n belongs to a burst that its client has finished.
Finished(n) ==
    LET c == from[n]
    IN  Cardinality({m \in 1 .. n : from[m] = c}) <= burst_ctr[c] * BURST_SIZE[c]

\* The client asks for as many keys in a packet as it expects datagrams for it:
\* always so for a random client; for a burst client, if its message names
\* REPLIES_PER_REQUEST keys, as in scripts/create-client-1.sh and -2.sh.
CountMatches(c) == c \in BurstClient => Len(BurstMessage[c]) = REPLIES_PER_REQUEST

\* client.cpp:122 and rand_client/client.cpp:141, the count of a client whose count
\* matches its message ends a burst when every key of every packet was answered,
\* as long as every value came in one datagram: no datagram of one burst is taken
\* for one of the next, whatever the other clients ask for.
BurstIsAnswered ==
    (\A d \in BagToSet(got) : d[3]) =>
        \A n \in 1 .. Len(requests) :
            CountMatches(from[n]) /\ Finished(n) =>
                \A k \in Key : Answered(n, k) = Asked(n, k)

\* If no datagram is lost, every key is stored and the pool never runs dry, no
\* client whose count matches its message waits for ever in recvfrom
\* (client.cpp:125) for a reply that the middlebox does not steer to it.
ClientsFinish == <>(\A c \in Client : CountMatches(c) => ~Running(c))

\* README.md:21-25, the scripts may be edited to get any number of keys, and each
\* client displays the requested values: a client that ended has displayed a
\* datagram for every key of every packet.
Requested(c) ==
    UNION {{n} \X DOMAIN requests[n] : n \in {n \in 1 .. Len(requests) : from[n] = c}}

RequestedIsDisplayed ==
    \A c \in Client : ~Running(c) => nread[c] >= Cardinality(Requested(c))
============================================================================
