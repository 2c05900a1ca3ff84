------------------------------ MODULE Datapath ------------------------------
(***************************************************************************)
(* The way of a packet through the middlebox: lcore_main takes bursts from *)
(* the port, eth_in, arp_in, ip_in and udp_in decide what a frame is, the  *)
(* application keeps, forwards or frees it, and dpdk_eth_send waits for    *)
(* room in the transmit ring. The module is about who owns an mbuf: the    *)
(* port, the burst, the table of waiting clients, the message to memcached *)
(* or the transmit ring, each with a reference of its own.                 *)
(*                                                                         *)
(* What the application decides (which clients wait for a reply, how many  *)
(* messages leave) is a choice here; ClientMap and Batch say how it is     *)
(* made. One pool stands for mbuf_pool and small_mbuf_pool. A handler      *)
(* leaves the calls it makes in calls, which are performed one at a time   *)
(* because a send may wait for the ring.                                   *)
(***************************************************************************)
EXTENDS Integers, SequencesExt

CONSTANTS
    Buf, NoBuf,       \* mbufs; no mbuf
    Frames,           \* frames that arrive
    Local, Server,    \* LOCAL_IP, TARGET_IP
    Zero,             \* 0.0.0.0, the address of an unused entry of known_haddrs
    KnownHosts,       \* addresses that init_arp_table read
    BURST_SIZE, RX_RING_SIZE, TX_RING_SIZE,
    MaxMessages,      \* bound of the model on the messages of a handler
    MaxCopies,        \* bound of the model on the further keys of a packet
    MaxKept,          \* bound of the model on the packets in the table
    Orderly           \* the entry deleted at api.c:246, of key_hold, is always the
                      \* one whose chain is freed at api.c:247, found by key_hold
                      \* or last_key: what SteeringProofs calls Orderly

ASSUME DatapathAssumption ==
    /\ IsFiniteSet(Buf) /\ NoBuf \notin Buf
    /\ Server \in KnownHosts /\ Local \notin KnownHosts
    /\ {BURST_SIZE, RX_RING_SIZE, TX_RING_SIZE} \subseteq Nat \ {0}
    /\ {MaxMessages, MaxCopies, MaxKept} \subseteq Nat
    /\ Orderly \in BOOLEAN

VARIABLES
    ref,            \* reference count of each mbuf, 0 in the pool
    hdr,            \* source and destination in the IP header of each mbuf
    rx,             \* frames that wait at the port
    burst,          \* rest of the burst that lcore_main works on
    refreshed,      \* refresh_backlog was called before the next packet
    calls,          \* sends and frees the running handler has still to make
    kept,           \* mbufs in the chains of client_pkts
    memcached_pkt,  \* the mbuf in which messages are built
    tx,             \* transmit ring
    failed          \* a NULL pointer was dereferenced: the process is gone

vars == <<ref, hdr, rx, burst, refreshed, calls, kept, memcached_pkt, tx, failed>>

Header == [src : KnownHosts \cup {f.src : f \in Frames} \cup {Local, Zero},
           dst : KnownHosts \cup {f.src : f \in Frames} \cup {Local, Zero}]

Blank == [src |-> Zero, dst |-> Zero]

Init ==
    /\ ref = [b \in Buf |-> 0]
    /\ hdr = [b \in Buf |-> Blank]
    /\ rx = << >> /\ burst = << >> /\ tx = << >> /\ calls = << >>
    /\ refreshed = FALSE /\ failed = FALSE
    /\ kept = {} /\ memcached_pkt = NoBuf

Least(x, y) == IF x < y THEN x ELSE y

\* A reference to b is given back. What an mbuf of the pool holds is forgotten.
Release(b) ==
    /\ ref' = [ref EXCEPT ![b] = @ - 1]
    /\ hdr' = IF ref[b] = 1 THEN [hdr EXCEPT ![b] = Blank] ELSE hdr

Pool == {b \in Buf : ref[b] = 0}

\* The unused entries of known_haddrs match 0.0.0.0.
arp_lookup_mac(addr) == addr \in KnownHosts \cup {Zero}

----------------------------------------------------------------------------
(* Calls of a handler *)

Free(b) == [call |-> "free", buf |-> b]

\* app_send of b to host dst, taken more references to b before: 1 where
\* rte_mbuf_refcnt_update is called, 0 where the reference itself is given away.
Send(b, dst, taken) == [call |-> "send", buf |-> b, dst |-> dst, taken |-> taken]

FreeAll(bs) == SetToSeq({Free(b) : b \in bs})
Messages(b, n) == [i \in 1 .. n |-> Send(b, Server, 1)]

\* ip_out writes the addresses into the packet itself.
ip_out(b, dst) == hdr' = [hdr EXCEPT ![b] = [src |-> Local, dst |-> dst]]

\* dpdk_eth_send waits until the ring takes the packet.
dpdk_eth_send(b, dst) ==
    /\ Len(tx) < TX_RING_SIZE
    /\ tx' = Append(tx, [buf |-> b, dst |-> dst])

PerformFree(c) ==
    /\ c.call = "free"
    /\ Release(c.buf)
    /\ UNCHANGED tx

PerformSend(c) ==
    /\ c.call = "send"
    /\ ref' = [ref EXCEPT ![c.buf] = @ + c.taken]
    /\ ip_out(c.buf, c.dst)
    /\ dpdk_eth_send(c.buf, c.dst)

Perform ==
    /\ ~failed /\ calls # << >>
    /\ PerformFree(Head(calls)) \/ PerformSend(Head(calls))
    /\ calls' = Tail(calls)
    /\ UNCHANGED <<rx, burst, refreshed, kept, memcached_pkt, failed>>

----------------------------------------------------------------------------
(* What a frame is *)

\* arp_in answers requests for LOCAL_IP.
ArpRequest(f) == f.type = "arp" /\ f.local /\ f.what = "request"

\* eth_in and arp_in leave everything else that is not IPv4 alone.
Ignored(f) == f.type # "ipv4" /\ ~ArpRequest(f)

\* ip_in hands on UDP packets for this host.
IpAccepted(f) == f.type = "ipv4" /\ f.local /\ f.what = "udp"

\* udp_in hands on packets from known hosts for LOCAL_PORT.
UdpAccepted(f) == arp_lookup_mac(f.src) /\ f.port

\* The application takes what is not longer than UDP_MAX_LEN.
Accepted(f) == IpAccepted(f) /\ UdpAccepted(f) /\ f.fits

----------------------------------------------------------------------------
(* Handlers, for the frame f in mbuf b *)

\* Neither freed nor kept.
EthIgnore(b, f) ==
    /\ Ignored(f)
    /\ UNCHANGED <<ref, hdr, calls, kept, memcached_pkt, failed>>

\* Mutant of IpDrop: ip.c:41 or udp.c:44 is missing.
IpDropKept(b, f) ==
    /\ f.type = "ipv4" /\ ~Accepted(f)
    /\ UNCHANGED <<ref, hdr, calls, kept, memcached_pkt, failed>>

IpDrop(b, f) ==
    /\ f.type = "ipv4" /\ ~Accepted(f)
    /\ calls' = <<Free(b)>>
    /\ UNCHANGED <<ref, hdr, kept, memcached_pkt, failed>>

\* The request is turned into the reply.
ArpReply(b, f) ==
    /\ ArpRequest(f)
    /\ calls' = <<Send(b, f.src, 0)>>
    /\ UNCHANGED <<ref, hdr, kept, memcached_pkt, failed>>

\* No client is found.
ServerDrop(b, f) ==
    /\ Accepted(f) /\ f.src = Server
    /\ calls' = <<Free(b)>>
    /\ UNCHANGED <<ref, hdr, kept, memcached_pkt, failed>>

\* Mutant of Forward: api.c:206 is missing.
ForwardUncounted(b, chain) == [i \in DOMAIN chain |-> Send(b, hdr[chain[i]].src, 0)]

\* The same mbuf is sent to the client of every packet of the chain.
Forward(b, chain) == [i \in DOMAIN chain |-> Send(b, hdr[chain[i]].src, 1)]

\* The packets that leave the table when the chain of the packets waiting is
\* freed. The entry of key_hold is deleted. If it is another one than the chain was
\* found by, what it leads to is dropped and the freed chain stays in the table.
Deleted(waiting) == IF Orderly THEN {waiting} ELSE {waiting} \cup SUBSET (kept \ waiting)

\* The reply is forwarded to the clients of a chain; a message may follow, and
\* the chain is freed if the value is complete. memcached answers nothing
\* before a message was sent.
ServerForward(b, f) ==
    /\ Accepted(f) /\ f.src = Server /\ memcached_pkt # NoBuf
    /\ \E waiting \in SUBSET kept \ {{}}, n \in 0 .. 1, complete \in BOOLEAN :
       \E chain \in SetToSeqs(waiting), deleted \in Deleted(waiting) :
         /\ calls' = Forward(b, chain) \o <<Free(b)>> \o Messages(memcached_pkt, n)
                        \o (IF complete THEN FreeAll(waiting) ELSE << >>)
         /\ kept' = IF complete THEN kept \ deleted ELSE kept
    /\ UNCHANGED <<ref, hdr, memcached_pkt, failed>>

\* Mutant of InitMemcachedPkt: the first packet itself, not a copy of it.
InitMemcachedPktShared(b, free) == {IF memcached_pkt = NoBuf THEN b ELSE memcached_pkt}

\* init_memcached_pkt copies the first packet of a client, if the pool is not
\* empty: what memcached_pkt may be afterwards.
InitMemcachedPkt(b, free) ==
    IF memcached_pkt # NoBuf \/ free = {} THEN {memcached_pkt} ELSE free

\* The packet and a copy for each further key are kept, chains may be evicted,
\* and messages leave: full ones and the rest. A copy for which the
\* pool has no mbuf is NULL: if the key has a chain already, or if a message is
\* to be built in NULL, the program fails.
AppClientIn(b, f) ==
    /\ Accepted(f) /\ f.src # Server
    /\ \E pkt \in InitMemcachedPkt(b, Pool), more \in 0 .. MaxCopies, n \in 0 .. MaxMessages,
          evicted \in SUBSET kept, null \in BOOLEAN :
       \E copies \in kSubset(Least(more, Cardinality(Pool \ {pkt})), Pool \ {pkt}) :
         /\ memcached_pkt' = pkt
         /\ LET new == copies \cup ({pkt} \cap Pool)
            IN  /\ ref' = [d \in Buf |-> IF d \in new THEN 1 ELSE ref[d]]
                /\ hdr' = [d \in Buf |-> IF d \in new THEN hdr[b] ELSE hdr[d]]
         /\ kept' = (kept \ evicted) \cup {b} \cup copies
         /\ Cardinality(kept') <= MaxKept
         /\ null => Cardinality(copies) < more
         /\ failed' = (null \/ (n > 0 /\ pkt = NoBuf))
         /\ calls' = FreeAll(evicted) \o (IF pkt = NoBuf THEN << >> ELSE Messages(pkt, n))

----------------------------------------------------------------------------
(* The loop of lcore_main, the port and the driver *)

Idle == ~failed /\ calls = << >>

\* refresh_backlog sends a message if one is due.
Refresh ==
    /\ Idle /\ ~refreshed
    /\ refreshed' = TRUE
    /\ calls' \in {<< >>} \cup
          (IF memcached_pkt = NoBuf THEN {} ELSE {Messages(memcached_pkt, 1)})
    /\ UNCHANGED <<ref, hdr, rx, burst, kept, memcached_pkt, tx, failed>>

\* Mutant of Poll: it waits for a full burst.
PollFull ==
    /\ Idle /\ refreshed /\ burst = << >>
    /\ LET n == IF Len(rx) < BURST_SIZE THEN 0 ELSE BURST_SIZE
       IN  burst' = SubSeq(rx, 1, n) /\ rx' = SubSeq(rx, n + 1, Len(rx))
    /\ refreshed' = FALSE
    /\ UNCHANGED <<ref, hdr, calls, kept, memcached_pkt, tx, failed>>

Poll ==
    /\ Idle /\ refreshed /\ burst = << >>
    /\ LET n == Least(Len(rx), BURST_SIZE)
       IN  burst' = SubSeq(rx, 1, n) /\ rx' = SubSeq(rx, n + 1, Len(rx))
    /\ refreshed' = FALSE
    /\ UNCHANGED <<ref, hdr, calls, kept, memcached_pkt, tx, failed>>

eth_in ==
    /\ Idle /\ refreshed /\ burst # << >>
    /\ LET b == Head(burst).buf
           f == Head(burst).frame
       IN  \/ EthIgnore(b, f)
           \/ IpDrop(b, f)
           \/ ArpReply(b, f)
           \/ ServerDrop(b, f)
           \/ ServerForward(b, f)
           \/ AppClientIn(b, f)
    /\ burst' = Tail(burst)
    /\ refreshed' = FALSE
    /\ UNCHANGED <<rx, tx>>

\* The driver puts a frame into an mbuf of the pool.
Arrive(f) ==
    /\ Len(rx) < RX_RING_SIZE
    /\ \E b \in Pool :
         /\ ref' = [ref EXCEPT ![b] = 1]
         /\ hdr' = [hdr EXCEPT ![b] = [src |-> f.src, dst |-> Local]]
         /\ rx' = Append(rx, [buf |-> b, frame |-> f])
    /\ UNCHANGED <<burst, refreshed, calls, kept, memcached_pkt, tx, failed>>

\* The driver has sent the oldest frame and drops its reference.
Transmit ==
    /\ tx # << >>
    /\ Release(Head(tx).buf)
    /\ tx' = Tail(tx)
    /\ UNCHANGED <<rx, burst, refreshed, calls, kept, memcached_pkt, failed>>

Core == Perform \/ Refresh \/ Poll \/ eth_in

\* A failed process stays dead.
Dead == failed /\ UNCHANGED vars

Next ==
    \/ Perform \/ Refresh \/ Poll \/ eth_in
    \/ Transmit
    \/ \E f \in Frames : Arrive(f)
    \/ Dead

Spec == Init /\ [][Next]_vars

\* The core polls for ever, and the device sends what is in the ring.
FairSpec == Spec /\ WF_vars(Core) /\ WF_vars(Transmit)

----------------------------------------------------------------------------
(* Properties *)

Holds(q, b) == Cardinality({i \in DOMAIN q : q[i].buf = b})

\* The references to b that somebody will give back.
Owners(b) ==
    Holds(rx, b) + Holds(burst, b) + Holds(tx, b)
    + Cardinality({i \in DOMAIN calls : calls[i].buf = b
                     /\ (calls[i].call = "free" \/ calls[i].taken = 0)})
    + (IF b \in kept THEN 1 ELSE 0) + (IF b = memcached_pkt THEN 1 ELSE 0)

\* The variables have their types.
TypeOK ==
    /\ ref \in [Buf -> Nat] /\ hdr \in [Buf -> Header]
    /\ \A i \in DOMAIN rx : rx[i] \in [buf : Buf, frame : Frames]
    /\ \A i \in DOMAIN burst : burst[i] \in [buf : Buf, frame : Frames]
    /\ refreshed \in BOOLEAN /\ failed \in BOOLEAN
    /\ kept \subseteq Buf /\ memcached_pkt \in Buf \cup {NoBuf}

\* Each owner of an mbuf has a reference of its own: what the table, the ring,
\* the burst or a handler still uses is never back in the pool, although a reply
\* is handed to the ring once per client and freed by its handler (api.c:206-213)
\* and memcached_pkt is sent again and again (api.c:94). So it is if Orderly:
\* api.c:247 can free a chain to which the table still leads, which
\* Middlebox!ChainsAreLive is about.
NoUseAfterFree == \A b \in Buf : Owners(b) <= ref[b]

Lost == {b \in Buf : ref[b] > Owners(b)}

\* If Orderly, only frames that are not IPv4 are lost: every path through ip_in,
\* udp_in and the application gives back the reference it was handed. Otherwise
\* api.c:246 can also drop an entry whose chain nobody frees.
OnlyIgnoredFramesLeak ==
    [][Lost' # Lost => burst # << >> /\ Lost' = Lost \cup {Head(burst).buf}
                       /\ Ignored(Head(burst).frame)]_vars

\* The assertion of ip.c:74: the address of every reply, read from a packet kept
\* long before, is one that arp_lookup_mac knows, since nothing overwrites
\* the packets in the table as long as none of them is freed there (Orderly).
MacIsKnown ==
    \A i \in DOMAIN calls :
        calls[i].call = "send" =>
            \/ arp_lookup_mac(calls[i].dst)
            \/ calls[i].taken = 0   \* an ARP reply needs no look-up

\* Every packet that waits at the port is handled: no wait for the transmit ring
\* (eth.c:44-48) lasts for ever, and a burst smaller than BURST_SIZE is taken.
EveryPacketHandled ==
    \A b \in Buf : Holds(rx, b) > 0 ~> Holds(rx, b) + Holds(burst, b) = 0 \/ failed

\* README.md:7, a reply is copied and sent to the clients: a frame in the ring
\* still has the address it was sent to.
SentAsAddressed == \A i \in DOMAIN tx : hdr[tx[i].buf].dst = tx[i].dst
=============================================================================
