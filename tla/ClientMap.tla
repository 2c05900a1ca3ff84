----------------------------- MODULE ClientMap -----------------------------
(***************************************************************************)
(* The steering half of the middlebox (middlebox/src/api.c): the hash      *)
(* table client_pkts leads from a signature "request_id-key" to the chain  *)
(* of client packets that asked for the key under that id, LRU_queue       *)
(* chooses the entry to give up when the table is full, and pkt_counts     *)
(* decides which datagram of a value is the last one.                      *)
(*                                                                         *)
(* A chain of mbufs linked by next is the sequence of its mbufs, head      *)
(* first; a signature without an entry has no chain. live are the mbufs    *)
(* that are allocated. pkt_counts is indexed by the signature at a         *)
(* position of the table: a position is given to a signature when it is    *)
(* registered, and its count is set then.                                  *)
(***************************************************************************)
EXTENDS Integers, SequencesExt

CONSTANTS
    Sig,           \* signatures "request_id-key"
    NoSig,         \* the empty string, no signature
    Buf,           \* mbufs
    MAP_ENTRIES,   \* capacity of the table and length of LRU_queue
    MaxDatagrams,  \* bound of the model on the datagrams of one value
    MaxChain       \* bound of the model on the clients that wait for one answer

ASSUME ClientMapAssumption ==
    /\ NoSig \notin Sig
    /\ MAP_ENTRIES \in Nat /\ MAP_ENTRIES > 0
    /\ MaxDatagrams \in Nat /\ MaxDatagrams > 0
    /\ MaxChain \in Nat /\ MaxChain > 0

VARIABLE clients   \* the globals of api.c that concern steering

Slot == 0 .. MAP_ENTRIES - 1

NoChain == << >>

ClientMapState ==
    [client_pkts : [Sig -> Seq(Buf)],
     LRU_queue : [Slot -> Sig \cup {NoSig}], LRU_ptr : Slot,
     pkt_counts : [Sig -> 0 .. MaxDatagrams],
     key_hold : Sig \cup {NoSig}, last_key : Sig \cup {NoSig},
     live : SUBSET Buf]

InitClientMap ==
    [client_pkts |-> [s \in Sig |-> NoChain],
     LRU_queue |-> [i \in Slot |-> NoSig], LRU_ptr |-> 0,
     pkt_counts |-> [s \in Sig |-> 0],
     key_hold |-> NoSig, last_key |-> NoSig, live |-> {}]

\* The signatures that have an entry.
Registered(m) == {s \in Sig : m.client_pkts[s] # NoChain}

----------------------------------------------------------------------------
(* The functions of api.c and of the DPDK hash table on the map.           *)

\* A new signature needs a free entry: otherwise the call fails with -ENOSPC.
rte_hash_add_key_data(m, s, chain) ==
    IF s \in Registered(m) \/ Cardinality(Registered(m)) < MAP_ENTRIES
    THEN [m EXCEPT !.client_pkts[s] = chain]
    ELSE m

rte_hash_del_key(m, s) == [m EXCEPT !.client_pkts[s] = NoChain]

\* Freeing a packet frees every mbuf that next leads to.
rte_pktmbuf_free(m, chain) == [m EXCEPT !.live = @ \ ToSet(chain)]

\* Mutant of TakeSlot: nothing is given up.
TakeSlotKeep(m, s) ==
    [m EXCEPT !.LRU_queue[m.LRU_ptr] = s, !.LRU_ptr = (@ + 1) % MAP_ENTRIES]

\* Signature s takes the next slot of LRU_queue; the signature that was
\* there loses its entry and its chain, if it still has them.
TakeSlot(m, s) ==
    LET old == m.LRU_queue[m.LRU_ptr]
        kept == IF old \in Registered(m)
                THEN rte_pktmbuf_free(rte_hash_del_key(m, old), m.client_pkts[old])
                ELSE m
    IN  [kept EXCEPT !.LRU_queue[m.LRU_ptr] = s,
                     !.LRU_ptr = (@ + 1) % MAP_ENTRIES]

\* One round of the loop of app_client_in, its part on the map: packet buf
\* asks for the key of s and goes to the head of the chain of s.
RegisterClient(m, s, buf) ==
    LET held == [m EXCEPT !.key_hold = s, !.live = @ \cup {buf}]
        added == IF s \in Registered(m)
                 THEN rte_hash_add_key_data(held, s, Cons(buf, m.client_pkts[s]))
                 ELSE rte_hash_add_key_data(TakeSlot(held, s), s, <<buf>>)
    IN  [added EXCEPT !.pkt_counts[s] = 1]

\* Mutant of HoldKey: api.c:173-174 is missing.
HoldKeyOnly(m, s, datagram_exp) ==
    IF s = NoSig THEN m ELSE [m EXCEPT !.key_hold = s]

\* app_server_in reads s from a datagram with a VALUE; NoSig stands for a
\* datagram without one, which belongs to the last value of several datagrams.
HoldKey(m, s, datagram_exp) ==
    IF s = NoSig THEN m
    ELSE [m EXCEPT !.key_hold = s,
                   !.last_key = IF datagram_exp > 1 THEN s ELSE @]

LookedUp(m, s) == IF s = NoSig THEN m.last_key ELSE s

\* The client packets that app_server_in answers with a datagram.
Recipients(m, s) ==
    IF LookedUp(m, s) \in Registered(m) THEN m.client_pkts[LookedUp(m, s)] ELSE NoChain

\* Mutants of CountDatagram: the entry is not cleared; the chain is not
\* freed; the count is off by one.
CountDatagramKeep(m, found, datagram_exp) ==
    IF m.pkt_counts[found] < datagram_exp
    THEN [m EXCEPT !.pkt_counts[found] = @ + 1]
    ELSE rte_pktmbuf_free(m, m.client_pkts[found])

CountDatagramLeak(m, found, datagram_exp) ==
    IF m.pkt_counts[found] < datagram_exp
    THEN [m EXCEPT !.pkt_counts[found] = @ + 1]
    ELSE rte_hash_del_key(m, m.key_hold)

CountDatagramLate(m, found, datagram_exp) ==
    IF m.pkt_counts[found] <= datagram_exp
    THEN [m EXCEPT !.pkt_counts[found] = @ + 1]
    ELSE rte_pktmbuf_free(rte_hash_del_key(m, m.key_hold), m.client_pkts[found])

\* The count of datagrams for the entry found; the last one clears the entry
\* of key_hold and frees the chain that was found.
CountDatagram(m, found, datagram_exp) ==
    IF m.pkt_counts[found] < datagram_exp
    THEN [m EXCEPT !.pkt_counts[found] = @ + 1]
    ELSE rte_pktmbuf_free(rte_hash_del_key(m, m.key_hold), m.client_pkts[found])

SteerDatagram(m, s, datagram_exp) ==
    LET held == HoldKey(m, s, datagram_exp)
        found == LookedUp(held, s)
    IN  IF found \in Registered(held)
        THEN CountDatagram(held, found, datagram_exp)
        ELSE held

----------------------------------------------------------------------------
(* The map under every order of requests and datagrams.                    *)

ClientMapInit == clients = InitClientMap

Register(s) ==
    /\ Len(clients.client_pkts[s]) < MaxChain
    /\ \E buf \in Buf \ clients.live : clients' = RegisterClient(clients, s, buf)

Datagram(s, datagram_exp) == clients' = SteerDatagram(clients, s, datagram_exp)

ClientMapNext ==
    \/ \E s \in Sig : Register(s)
    \/ \E s \in Sig \cup {NoSig}, datagram_exp \in 1 .. MaxDatagrams :
           Datagram(s, datagram_exp)

ClientMapSpec == ClientMapInit /\ [][ClientMapNext]_clients

----------------------------------------------------------------------------
(* Properties *)

\* The globals have their types.
ClientMapTypeOK == clients \in ClientMapState

\* Every entry of the table stands in LRU_queue (api.c:297-306), so that none
\* can stay for ever without an answer.
LRUCoversMap == Registered(clients) \subseteq Range(clients.LRU_queue)

\* The table has a free entry, or the next slot of LRU_queue holds the
\* signature of an entry that is dropped first (api.c:299-303): the insertion
\* of api.c:309 never fails, whatever was deleted or inserted twice before.
RoomForNext ==
    \/ Cardinality(Registered(clients)) < MAP_ENTRIES
    \/ clients.LRU_queue[clients.LRU_ptr] \in Registered(clients)

Chained(m) == UNION {ToSet(m.client_pkts[s]) : s \in Registered(m)}

\* No entry leads to a freed packet, and no packet is linked into two chains
\* or twice into one (api.c:192-212 walks the chains and reads the packets).
ChainsAreLive ==
    /\ Chained(clients) \subseteq clients.live
    /\ \A s, t \in Registered(clients) :
         \A i \in DOMAIN clients.client_pkts[s], j \in DOMAIN clients.client_pkts[t] :
            clients.client_pkts[s][i] = clients.client_pkts[t][j] => s = t /\ i = j

\* Every packet kept for an answer can still be reached from the table, so
\* that an answer or an eviction frees it.
NoPacketLeaks == clients.live \subseteq Chained(clients)
============================================================================
