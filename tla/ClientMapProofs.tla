-------------------------- MODULE ClientMapProofs --------------------------
(***************************************************************************)
(* The table never refuses a client, for all signatures, mbufs and         *)
(* capacities: every entry stands in LRU_queue, and LRU_queue is as long   *)
(* as the table.                                                           *)
(***************************************************************************)
EXTENDS ClientMap, FiniteSetTheorems, FunctionTheorems, TLAPS

----------------------------------------------------------------------------
(* Types *)

\* What a field of the state is, for the provers.
LEMMA MapFields ==
    ASSUME NEW m \in ClientMapState
    PROVE  /\ m.client_pkts \in [Sig -> Seq(Buf)]
           /\ m.LRU_queue \in [Slot -> Sig \cup {NoSig}] /\ m.LRU_ptr \in Slot
           /\ m.pkt_counts \in [Sig -> 0 .. MaxDatagrams]
           /\ m.key_hold \in Sig \cup {NoSig} /\ m.last_key \in Sig \cup {NoSig}
           /\ m.live \in SUBSET Buf
  BY DEF ClientMapState

LEMMA SlotNext == \A i \in Slot : (i + 1) % MAP_ENTRIES \in Slot
  BY ClientMapAssumption DEF Slot

LEMMA AddType ==
    ASSUME NEW m \in ClientMapState, NEW s \in Sig, NEW chain \in Seq(Buf)
    PROVE  rte_hash_add_key_data(m, s, chain) \in ClientMapState
<1>1. [m.client_pkts EXCEPT ![s] = chain] \in [Sig -> Seq(Buf)]
  BY MapFields
<1> QED
  BY <1>1, Zenon DEF rte_hash_add_key_data, ClientMapState

\* Only entries of the table or NoSig are deleted; deleting NoSig does nothing.
LEMMA DelType ==
    ASSUME NEW m \in ClientMapState, NEW s \in Sig \cup {NoSig}
    PROVE  rte_hash_del_key(m, s) \in ClientMapState
<1>1. NoChain \in Seq(Buf)
  BY DEF NoChain
<1>2. [m.client_pkts EXCEPT ![s] = NoChain] \in [Sig -> Seq(Buf)]
  BY <1>1, MapFields
<1> QED
  BY <1>2, Zenon DEF rte_hash_del_key, ClientMapState

LEMMA FreeType ==
    ASSUME NEW m \in ClientMapState, NEW chain
    PROVE  rte_pktmbuf_free(m, chain) \in ClientMapState
<1>1. m.live \ ToSet(chain) \in SUBSET Buf
  BY MapFields
<1> QED
  BY <1>1, Zenon DEF rte_pktmbuf_free, ClientMapState

LEMMA TakeSlotType ==
    ASSUME NEW m \in ClientMapState, NEW s \in Sig
    PROVE  TakeSlot(m, s) \in ClientMapState
<1> DEFINE old == m.LRU_queue[m.LRU_ptr]
           kept == IF old \in Registered(m)
                   THEN rte_pktmbuf_free(rte_hash_del_key(m, old), m.client_pkts[old])
                   ELSE m
<1>1. old \in Sig \cup {NoSig}
  BY MapFields
<1>2. kept \in ClientMapState
  BY <1>1, DelType, FreeType
<1> HIDE DEF kept
<1>3. /\ [kept.LRU_queue EXCEPT ![m.LRU_ptr] = s] \in [Slot -> Sig \cup {NoSig}]
      /\ (kept.LRU_ptr + 1) % MAP_ENTRIES \in Slot
  BY <1>2, MapFields, SlotNext
<1>4. [kept EXCEPT !.LRU_queue[m.LRU_ptr] = s,
                   !.LRU_ptr = (@ + 1) % MAP_ENTRIES] \in ClientMapState
  BY <1>2, <1>3, Zenon DEF ClientMapState
<1> QED
  BY <1>4, Zenon DEF TakeSlot, kept

LEMMA RegisterType ==
    ASSUME NEW m \in ClientMapState, NEW s \in Sig, NEW buf \in Buf
    PROVE  RegisterClient(m, s, buf) \in ClientMapState
<1> DEFINE held == [m EXCEPT !.key_hold = s, !.live = @ \cup {buf}]
           added == IF s \in Registered(m)
                    THEN rte_hash_add_key_data(held, s, Cons(buf, m.client_pkts[s]))
                    ELSE rte_hash_add_key_data(TakeSlot(held, s), s, <<buf>>)
<1>1. m.live \cup {buf} \in SUBSET Buf
  BY MapFields
<1>2. held \in ClientMapState
  BY <1>1, Zenon DEF ClientMapState
<1> HIDE DEF held
<1>3. Cons(buf, m.client_pkts[s]) \in Seq(Buf) /\ <<buf>> \in Seq(Buf)
  BY MapFields DEF Cons
<1>4. added \in ClientMapState
  BY <1>2, <1>3, TakeSlotType, AddType
<1> HIDE DEF added
<1>5. [added.pkt_counts EXCEPT ![s] = 1] \in [Sig -> 0 .. MaxDatagrams]
  BY <1>4, MapFields, ClientMapAssumption
<1>6. [added EXCEPT !.pkt_counts[s] = 1] \in ClientMapState
  BY <1>4, <1>5, Zenon DEF ClientMapState
<1> QED
  BY <1>6, Zenon DEF RegisterClient, added, held

LEMMA HoldType ==
    ASSUME NEW m \in ClientMapState, NEW s \in Sig \cup {NoSig}, NEW datagram_exp
    PROVE  HoldKey(m, s, datagram_exp) \in ClientMapState
<1>1. (IF datagram_exp > 1 THEN s ELSE m.last_key) \in Sig \cup {NoSig}
  BY MapFields
<1> QED
  BY <1>1, Zenon DEF HoldKey, ClientMapState

LEMMA CountType ==
    ASSUME NEW m \in ClientMapState, NEW found \in Sig,
           NEW datagram_exp \in 1 .. MaxDatagrams
    PROVE  CountDatagram(m, found, datagram_exp) \in ClientMapState
<1>1. CASE m.pkt_counts[found] < datagram_exp
  <2>1. m.pkt_counts[found] + 1 \in 0 .. MaxDatagrams
    BY <1>1, MapFields, ClientMapAssumption
  <2>2. [m.pkt_counts EXCEPT ![found] = m.pkt_counts[found] + 1]
            \in [Sig -> 0 .. MaxDatagrams]
    BY <2>1, MapFields
  <2> QED
    BY <1>1, <2>2, Zenon DEF CountDatagram, ClientMapState
<1>2. CASE ~(m.pkt_counts[found] < datagram_exp)
  <2>1. m.key_hold \in Sig \cup {NoSig}
    BY MapFields
  <2> QED
    BY <1>2, <2>1, DelType, FreeType, Zenon DEF CountDatagram
<1> QED
  BY <1>1, <1>2

LEMMA SteerType ==
    ASSUME NEW m \in ClientMapState, NEW s \in Sig \cup {NoSig},
           NEW datagram_exp \in 1 .. MaxDatagrams
    PROVE  SteerDatagram(m, s, datagram_exp) \in ClientMapState
<1>1. HoldKey(m, s, datagram_exp) \in ClientMapState
  BY HoldType
<1>2. \A found \in Registered(HoldKey(m, s, datagram_exp)) : found \in Sig
  BY DEF Registered
<1> QED
  BY <1>1, <1>2, CountType, Zenon DEF SteerDatagram

LEMMA ClientMapTypeInit == ClientMapInit => ClientMapTypeOK
<1>1. [s \in Sig |-> NoChain] \in [Sig -> Seq(Buf)]
  BY DEF NoChain
<1>2. /\ [i \in Slot |-> NoSig] \in [Slot -> Sig \cup {NoSig}] /\ 0 \in Slot
      /\ [s \in Sig |-> 0] \in [Sig -> 0 .. MaxDatagrams]
      /\ NoSig \in Sig \cup {NoSig} /\ {} \in SUBSET Buf
  BY ClientMapAssumption DEF Slot, NoChain
<1>3. InitClientMap \in ClientMapState
  BY <1>1, <1>2, Zenon DEF InitClientMap, ClientMapState
<1> QED
  BY <1>3 DEF ClientMapInit, ClientMapTypeOK

\* The state of the steering half stays well typed under every order of
\* registrations and datagrams (app_client_in, app_server_in).
THEOREM ClientMapTypes == ClientMapSpec => []ClientMapTypeOK
<1>1. ClientMapInit => ClientMapTypeOK
  BY ClientMapTypeInit
<1>2. ClientMapTypeOK /\ [ClientMapNext]_clients => ClientMapTypeOK'
  <2> SUFFICES ASSUME ClientMapTypeOK, [ClientMapNext]_clients
               PROVE  ClientMapTypeOK'
    OBVIOUS
  <2>1. ASSUME NEW s \in Sig, Register(s)
        PROVE  ClientMapTypeOK'
    BY <2>1, RegisterType, Zenon DEF Register, ClientMapTypeOK
  <2>2. ASSUME NEW s \in Sig \cup {NoSig}, NEW datagram_exp \in 1 .. MaxDatagrams,
               Datagram(s, datagram_exp)
        PROVE  ClientMapTypeOK'
    BY <2>2, SteerType DEF Datagram, ClientMapTypeOK
  <2>3. CASE UNCHANGED clients
    BY <2>3 DEF ClientMapTypeOK
  <2> QED
    BY <2>1, <2>2, <2>3 DEF ClientMapNext
<1> QED
  BY <1>1, <1>2, PTL DEF ClientMapSpec

----------------------------------------------------------------------------
(* Every entry stands in LRU_queue. *)

Covered(m) == Registered(m) \subseteq Range(m.LRU_queue)

LEMMA CoveredPointwise ==
    ASSUME NEW m \in ClientMapState
    PROVE  Covered(m) <=> \A q \in Registered(m) : \E i \in Slot : m.LRU_queue[i] = q
<1>1. DOMAIN m.LRU_queue = Slot
  BY MapFields
<1> QED
  BY <1>1 DEF Covered, Range

\* Deleting, freeing, holding and counting do not touch LRU_queue and add no entry.
LEMMA DelEntries ==
    ASSUME NEW m \in ClientMapState, NEW s \in Sig \cup {NoSig}
    PROVE  /\ rte_hash_del_key(m, s).LRU_queue = m.LRU_queue
           /\ rte_hash_del_key(m, s).LRU_ptr = m.LRU_ptr
           /\ \A q \in Registered(rte_hash_del_key(m, s)) : q \in Registered(m) /\ q # s
<1>1. /\ rte_hash_del_key(m, s).LRU_queue = m.LRU_queue
      /\ rte_hash_del_key(m, s).LRU_ptr = m.LRU_ptr
      /\ rte_hash_del_key(m, s).client_pkts = [m.client_pkts EXCEPT ![s] = NoChain]
  BY Zenon DEF rte_hash_del_key, ClientMapState
<1>2. \A q \in Sig : [m.client_pkts EXCEPT ![s] = NoChain][q]
                        = IF q = s THEN NoChain ELSE m.client_pkts[q]
  BY MapFields
<1> QED
  BY <1>1, <1>2, Zenon DEF Registered

LEMMA FreeEntries ==
    ASSUME NEW m \in ClientMapState, NEW chain
    PROVE  /\ rte_pktmbuf_free(m, chain).LRU_queue = m.LRU_queue
           /\ rte_pktmbuf_free(m, chain).LRU_ptr = m.LRU_ptr
           /\ Registered(rte_pktmbuf_free(m, chain)) = Registered(m)
<1>1. /\ rte_pktmbuf_free(m, chain).LRU_queue = m.LRU_queue
      /\ rte_pktmbuf_free(m, chain).LRU_ptr = m.LRU_ptr
      /\ rte_pktmbuf_free(m, chain).client_pkts = m.client_pkts
  BY Zenon DEF rte_pktmbuf_free, ClientMapState
<1> QED
  BY <1>1, Zenon DEF Registered

\* The signature at the pointer loses its entry, if it has one, and its slot.
LEMMA TakeSlotEntries ==
    ASSUME NEW m \in ClientMapState, NEW s \in Sig
    PROVE  /\ \A i \in Slot : TakeSlot(m, s).LRU_queue[i]
                  = IF i = m.LRU_ptr THEN s ELSE m.LRU_queue[i]
           /\ \A q \in Registered(TakeSlot(m, s)) :
                  q \in Registered(m) /\ q # m.LRU_queue[m.LRU_ptr]
<1> DEFINE old == m.LRU_queue[m.LRU_ptr]
           kept == IF old \in Registered(m)
                   THEN rte_pktmbuf_free(rte_hash_del_key(m, old), m.client_pkts[old])
                   ELSE m
<1>1. old \in Sig \cup {NoSig}
  BY MapFields
<1>2. rte_hash_del_key(m, old) \in ClientMapState
  BY <1>1, DelType
<1>3. kept \in ClientMapState
  BY <1>2, FreeType
<1>4. /\ kept.LRU_queue = m.LRU_queue
      /\ \A q \in Registered(kept) : q \in Registered(m) /\ q # old
  <2>1. CASE old \in Registered(m)
    <3> DEFINE deleted == rte_hash_del_key(m, old)
    <3>1. /\ deleted.LRU_queue = m.LRU_queue
          /\ \A q \in Registered(deleted) : q \in Registered(m) /\ q # old
      BY <1>1, DelEntries
    <3>2. kept = rte_pktmbuf_free(deleted, m.client_pkts[old])
      BY <2>1
    <3> HIDE DEF deleted, kept
    <3>3. /\ kept.LRU_queue = deleted.LRU_queue
          /\ Registered(kept) = Registered(deleted)
      BY <1>2, <3>2, FreeEntries, Zenon DEF deleted
    <3> QED
      BY <3>1, <3>3
  <2>2. CASE old \notin Registered(m)
    BY <2>2
  <2> QED
    BY <2>1, <2>2
<1> HIDE DEF kept
<1> DEFINE taken == [kept EXCEPT !.LRU_queue[m.LRU_ptr] = s,
                                 !.LRU_ptr = (@ + 1) % MAP_ENTRIES]
<1>5. /\ taken.LRU_queue = [kept.LRU_queue EXCEPT ![m.LRU_ptr] = s]
      /\ taken.client_pkts = kept.client_pkts
  BY <1>3, Zenon DEF ClientMapState
<1>6. TakeSlot(m, s) = taken
  BY Zenon DEF TakeSlot, kept
<1> HIDE DEF taken
<1>7. \A i \in Slot : taken.LRU_queue[i] = IF i = m.LRU_ptr THEN s ELSE m.LRU_queue[i]
  BY <1>4, <1>5, MapFields
<1>8. Registered(taken) = Registered(kept)
  BY <1>5, Zenon DEF Registered
<1> QED
  BY <1>4, <1>6, <1>7, <1>8, Zenon

LEMMA AddEntries ==
    ASSUME NEW m \in ClientMapState, NEW s \in Sig, NEW chain
    PROVE  /\ rte_hash_add_key_data(m, s, chain).LRU_queue = m.LRU_queue
           /\ Registered(rte_hash_add_key_data(m, s, chain)) \subseteq Registered(m) \cup {s}
<1>1. CASE rte_hash_add_key_data(m, s, chain) = [m EXCEPT !.client_pkts[s] = chain]
  <2> DEFINE next == [m EXCEPT !.client_pkts[s] = chain]
  <2>1. /\ next.LRU_queue = m.LRU_queue
        /\ next.client_pkts = [m.client_pkts EXCEPT ![s] = chain]
    BY Zenon DEF ClientMapState
  <2> HIDE DEF next
  <2>2. \A q \in Sig \ {s} : next.client_pkts[q] = m.client_pkts[q]
    BY <2>1, MapFields
  <2>3. Registered(next) \subseteq Registered(m) \cup {s}
    BY <2>2, Zenon DEF Registered
  <2> QED
    BY <1>1, <2>1, <2>3, Zenon DEF next
<1>2. CASE rte_hash_add_key_data(m, s, chain) = m
  BY <1>2
<1> QED
  BY <1>1, <1>2, Zenon DEF rte_hash_add_key_data

LEMMA RegisterCovered ==
    ASSUME NEW m \in ClientMapState, NEW s \in Sig, NEW buf \in Buf, Covered(m)
    PROVE  Covered(RegisterClient(m, s, buf))
<1> DEFINE held == [m EXCEPT !.key_hold = s, !.live = @ \cup {buf}]
           taken == TakeSlot(held, s)
           added == IF s \in Registered(m)
                    THEN rte_hash_add_key_data(held, s, Cons(buf, m.client_pkts[s]))
                    ELSE rte_hash_add_key_data(taken, s, <<buf>>)
           last == [added EXCEPT !.pkt_counts[s] = 1]
<1>1. m.live \cup {buf} \in SUBSET Buf
  BY MapFields
<1>2. held \in ClientMapState
  BY <1>1, Zenon DEF ClientMapState
<1>3. held.LRU_queue = m.LRU_queue /\ held.client_pkts = m.client_pkts
  BY Zenon DEF ClientMapState
<1> HIDE DEF held
<1>4. Registered(held) = Registered(m)
  BY <1>3, Zenon DEF Registered
<1>5. taken \in ClientMapState
  BY <1>2, TakeSlotType
<1>6. Cons(buf, m.client_pkts[s]) \in Seq(Buf) /\ <<buf>> \in Seq(Buf)
  BY MapFields DEF Cons
<1>7. added \in ClientMapState
  BY <1>2, <1>5, <1>6, AddType
<1>8. Covered(added)
  <2>1. CASE s \in Registered(m)
    <3>1. added = rte_hash_add_key_data(held, s, Cons(buf, m.client_pkts[s]))
      BY <2>1
    <3> HIDE DEF added
    <3>2. /\ added.LRU_queue = held.LRU_queue
          /\ Registered(added) \subseteq Registered(held) \cup {s}
      BY <1>2, <3>1, AddEntries
    <3>3. added.LRU_queue = m.LRU_queue /\ Registered(added) \subseteq Registered(m)
      BY <1>3, <1>4, <2>1, <3>2
    <3> QED
      BY <3>3, Zenon DEF Covered
  <2>2. CASE s \notin Registered(m)
    <3>1. /\ added.LRU_queue = taken.LRU_queue
          /\ Registered(added) \subseteq Registered(taken) \cup {s}
      BY <1>5, <2>2, AddEntries, Zenon
    <3> SUFFICES ASSUME NEW q \in Registered(added)
                 PROVE  \E i \in Slot : added.LRU_queue[i] = q
      BY <1>7, CoveredPointwise
    <3> HIDE DEF added, taken
    <3>2. held.LRU_ptr \in Slot
      BY <1>2, MapFields
    <3>3. \A i \in Slot : taken.LRU_queue[i]
              = IF i = held.LRU_ptr THEN s ELSE held.LRU_queue[i]
      BY <1>2, TakeSlotEntries, Zenon DEF taken
    <3>4. CASE q = s
      BY <3>1, <3>2, <3>3, <3>4, Zenon
    <3>5. CASE q # s
      <4>1. q \in Registered(taken)
        BY <3>1, <3>5
      <4>2. q \in Registered(held) /\ q # held.LRU_queue[held.LRU_ptr]
        BY <1>2, <4>1, TakeSlotEntries, Zenon DEF taken
      <4>3. PICK i \in Slot : m.LRU_queue[i] = q
        BY <1>4, <4>2, CoveredPointwise
      <4>4. i # held.LRU_ptr
        BY <1>3, <4>2, <4>3
      <4> QED
        BY <1>3, <3>1, <3>3, <4>3, <4>4
    <3> QED
      BY <3>4, <3>5
  <2> QED
    BY <2>1, <2>2
<1> HIDE DEF added
<1>9. last.LRU_queue = added.LRU_queue /\ last.client_pkts = added.client_pkts
  BY <1>7, Zenon DEF ClientMapState
<1>10. RegisterClient(m, s, buf) = last
  BY Zenon DEF RegisterClient, last, added, taken, held
<1> HIDE DEF last
<1> QED
  BY <1>8, <1>9, <1>10, Zenon DEF Covered, Registered

LEMMA HoldEntries ==
    ASSUME NEW m \in ClientMapState, NEW s, NEW datagram_exp
    PROVE  /\ HoldKey(m, s, datagram_exp).LRU_queue = m.LRU_queue
           /\ HoldKey(m, s, datagram_exp).client_pkts = m.client_pkts
  BY Zenon DEF HoldKey, ClientMapState

LEMMA CountEntries ==
    ASSUME NEW m \in ClientMapState, NEW found \in Sig, NEW datagram_exp
    PROVE  /\ CountDatagram(m, found, datagram_exp).LRU_queue = m.LRU_queue
           /\ Registered(CountDatagram(m, found, datagram_exp)) \subseteq Registered(m)
<1>1. CASE m.pkt_counts[found] < datagram_exp
  <2> DEFINE next == [m EXCEPT !.pkt_counts[found] = @ + 1]
  <2>1. next.LRU_queue = m.LRU_queue /\ next.client_pkts = m.client_pkts
    BY Zenon DEF ClientMapState
  <2>2. CountDatagram(m, found, datagram_exp) = next
    BY <1>1, Zenon DEF CountDatagram
  <2> HIDE DEF next
  <2> QED
    BY <2>1, <2>2, Zenon DEF Registered
<1>2. CASE ~(m.pkt_counts[found] < datagram_exp)
  <2>1. m.key_hold \in Sig \cup {NoSig}
    BY MapFields
  <2>2. rte_hash_del_key(m, m.key_hold) \in ClientMapState
    BY <2>1, DelType
  <2>3. CountDatagram(m, found, datagram_exp)
            = rte_pktmbuf_free(rte_hash_del_key(m, m.key_hold), m.client_pkts[found])
    BY <1>2, Zenon DEF CountDatagram
  <2> DEFINE deleted == rte_hash_del_key(m, m.key_hold)
  <2>4. deleted.LRU_queue = m.LRU_queue /\ Registered(deleted) \subseteq Registered(m)
    BY <2>1, DelEntries
  <2> HIDE DEF deleted
  <2>5. /\ CountDatagram(m, found, datagram_exp).LRU_queue = deleted.LRU_queue
        /\ Registered(CountDatagram(m, found, datagram_exp)) = Registered(deleted)
    BY <2>2, <2>3, FreeEntries, Zenon DEF deleted
  <2> QED
    BY <2>4, <2>5
<1> QED
  BY <1>1, <1>2

LEMMA SteerCovered ==
    ASSUME NEW m \in ClientMapState, NEW s \in Sig \cup {NoSig}, NEW datagram_exp, Covered(m)
    PROVE  Covered(SteerDatagram(m, s, datagram_exp))
<1> DEFINE held == HoldKey(m, s, datagram_exp)
           found == LookedUp(held, s)
<1>1. held \in ClientMapState
  BY HoldType
<1>2. Covered(held)
  BY HoldEntries, Zenon DEF Covered, Registered
<1>3. found \in Registered(held) => found \in Sig
  BY Zenon DEF Registered
<1>4. ASSUME found \in Registered(held)
      PROVE  Covered(CountDatagram(held, found, datagram_exp))
  <2> HIDE DEF held, found
  <2> QED
    BY <1>1, <1>2, <1>3, <1>4, CountEntries, Zenon DEF Covered
<1> QED
  BY <1>2, <1>4, Zenon DEF SteerDatagram

LEMMA CoveredInit == ClientMapInit => Covered(clients)
<1>1. \A s \in Sig : InitClientMap.client_pkts[s] = NoChain
  BY Zenon DEF InitClientMap
<1> QED
  BY <1>1, Zenon DEF ClientMapInit, Covered, Registered

\* Every entry of the table stands in LRU_queue: an entry enters together with
\* its slot (api.c:306-309), and the slot is overwritten only when the
\* entry is deleted (api.c:299-303).
THEOREM LRUCovers == ClientMapSpec => []LRUCoversMap
<1>1. ClientMapInit => LRUCoversMap
  BY CoveredInit DEF LRUCoversMap, Covered
<1>2. ClientMapTypeOK /\ LRUCoversMap /\ [ClientMapNext]_clients => LRUCoversMap'
  <2> SUFFICES ASSUME ClientMapTypeOK, Covered(clients), [ClientMapNext]_clients
               PROVE  Covered(clients')
    BY Zenon DEF LRUCoversMap, Covered, Registered
  <2> USE DEF ClientMapTypeOK
  <2>1. ASSUME NEW s \in Sig, Register(s)
        PROVE  Covered(clients')
    BY <2>1, RegisterCovered, Zenon DEF Register
  <2>2. ASSUME NEW s \in Sig \cup {NoSig}, NEW datagram_exp \in 1 .. MaxDatagrams,
               Datagram(s, datagram_exp)
        PROVE  Covered(clients')
    BY <2>2, SteerCovered, Zenon DEF Datagram
  <2>3. CASE UNCHANGED clients
    BY <2>3
  <2> QED
    BY <2>1, <2>2, <2>3 DEF ClientMapNext
<1> QED
  BY <1>1, <1>2, ClientMapTypes, PTL DEF ClientMapSpec

----------------------------------------------------------------------------
(* The table always has room. *)

LEMMA QueueSize ==
    ASSUME NEW m \in ClientMapState
    PROVE  /\ IsFiniteSet(Range(m.LRU_queue))
           /\ Cardinality(Range(m.LRU_queue)) <= MAP_ENTRIES
<1>1. IsFiniteSet(Slot) /\ Cardinality(Slot) = MAP_ENTRIES
  BY FS_Interval, ClientMapAssumption DEF Slot
<1>2. m.LRU_queue \in Surjection(Slot, Range(m.LRU_queue))
  BY MapFields, Fun_RangeProperties
<1> QED
  BY <1>1, <1>2, FS_Surjection

\* A full table has an entry for each slot of LRU_queue.
LEMMA CoveredHasRoom ==
    ASSUME NEW m \in ClientMapState, Covered(m)
    PROVE  /\ IsFiniteSet(Registered(m))
           /\ \/ Cardinality(Registered(m)) < MAP_ENTRIES
              \/ m.LRU_queue[m.LRU_ptr] \in Registered(m)
<1> DEFINE queued == Range(m.LRU_queue)
<1>1. IsFiniteSet(queued) /\ Cardinality(queued) <= MAP_ENTRIES
  BY QueueSize
<1>2. Registered(m) \in SUBSET queued
  BY DEF Covered
<1>3. /\ IsFiniteSet(Registered(m))
      /\ Cardinality(Registered(m)) \in Nat /\ Cardinality(queued) \in Nat
      /\ Cardinality(Registered(m)) <= Cardinality(queued)
      /\ Cardinality(queued) = Cardinality(Registered(m)) => queued = Registered(m)
  BY <1>1, <1>2, FS_Subset, FS_CardinalityType
<1>4. m.LRU_queue[m.LRU_ptr] \in queued
  BY MapFields DEF Range
<1>5. ~(Cardinality(Registered(m)) < MAP_ENTRIES) => queued = Registered(m)
  BY <1>1, <1>3, ClientMapAssumption
<1> QED
  BY <1>3, <1>4, <1>5

\* A client can always be registered: if the table is full, each slot of
\* LRU_queue holds another entry, the one at LRU_ptr included (api.c:299-309).
THEOREM Room == ClientMapSpec => []RoomForNext
<1>1. ClientMapTypeOK /\ LRUCoversMap => RoomForNext
  BY CoveredHasRoom DEF RoomForNext, ClientMapTypeOK, LRUCoversMap, Covered
<1> QED
  BY <1>1, ClientMapTypes, LRUCovers, PTL
============================================================================
