--------------------------- MODULE SteeringProofs ---------------------------
(***************************************************************************)
(* The steering half in the composition: what the handlers of Middlebox do *)
(* to the table, the chains and the packets, for every number of clients,  *)
(* keys, mbufs and entries.                                                *)
(***************************************************************************)
EXTENDS MiddleboxProofs, ClientMapProofs

----------------------------------------------------------------------------
(* What the operators of ClientMap do to the fields of the state.          *)

\* The fields that no operator but the one named touches.
SameButTable(m, d) ==
    /\ d.LRU_queue = m.LRU_queue /\ d.LRU_ptr = m.LRU_ptr
    /\ d.pkt_counts = m.pkt_counts
    /\ d.key_hold = m.key_hold /\ d.last_key = m.last_key

LEMMA AddFields ==
    ASSUME NEW m \in ClientMapState, NEW s \in Sig, NEW chain
    PROVE  LET d == [m EXCEPT !.client_pkts[s] = chain]
           IN  /\ SameButTable(m, d) /\ d.live = m.live
               /\ \A t \in Sig : d.client_pkts[t] = IF t = s THEN chain ELSE m.client_pkts[t]
<1> DEFINE d == [m EXCEPT !.client_pkts[s] = chain]
<1>1. /\ SameButTable(m, d) /\ d.live = m.live
      /\ d.client_pkts = [m.client_pkts EXCEPT ![s] = chain]
  BY Zenon DEF SameButTable, ClientMapState
<1> HIDE DEF d
<1>2. \A t \in Sig : d.client_pkts[t] = IF t = s THEN chain ELSE m.client_pkts[t]
  BY <1>1, MapFields
<1> QED
  BY <1>1, <1>2 DEF d

\* An entry is deleted and its chain is freed.
LEMMA DropFields ==
    ASSUME NEW m \in ClientMapState, NEW q \in Sig \cup {NoSig}, NEW chain
    PROVE  LET d == rte_pktmbuf_free(rte_hash_del_key(m, q), chain)
           IN  /\ SameButTable(m, d) /\ d.live = m.live \ ToSet(chain)
               /\ \A t \in Sig : d.client_pkts[t] = IF t = q THEN NoChain
                                                    ELSE m.client_pkts[t]
<1> DEFINE c == rte_hash_del_key(m, q)
           d == rte_pktmbuf_free(c, chain)
<1>1. /\ SameButTable(m, c) /\ c.live = m.live
      /\ c.client_pkts = [m.client_pkts EXCEPT ![q] = NoChain]
  BY Zenon DEF SameButTable, ClientMapState, rte_hash_del_key
<1>2. c \in ClientMapState
  BY DelType
<1> HIDE DEF c
<1>3. /\ SameButTable(c, d) /\ d.live = c.live \ ToSet(chain)
      /\ d.client_pkts = c.client_pkts
  BY <1>2, Zenon DEF SameButTable, ClientMapState, rte_pktmbuf_free
<1> HIDE DEF d
<1>4. \A t \in Sig : d.client_pkts[t] = IF t = q THEN NoChain ELSE m.client_pkts[t]
  BY <1>1, <1>3, MapFields
<1>5. SameButTable(m, d)
  BY <1>1, <1>3 DEF SameButTable
<1> QED
  BY <1>1, <1>3, <1>4, <1>5 DEF c, d

\* The entry in the next slot of LRU_queue goes, if there is one; the table has
\* room for another entry then.
LEMMA TakeSlotFields ==
    ASSUME NEW m \in ClientMapState, NEW s \in Sig, Covered(m), s \notin Registered(m)
    PROVE  LET d == TakeSlot(m, s)
           IN  /\ d.pkt_counts = m.pkt_counts
               /\ d.key_hold = m.key_hold /\ d.last_key = m.last_key
               /\ Cardinality(Registered(d)) < MAP_ENTRIES
               /\ \E old \in Sig \cup {NoSig} :
                    /\ old # s
                    /\ \A t \in Sig : d.client_pkts[t] = IF t = old THEN NoChain
                                                         ELSE m.client_pkts[t]
                    /\ d.live = IF old = NoSig THEN m.live
                                ELSE m.live \ ToSet(m.client_pkts[old])
<1> DEFINE q == m.LRU_queue[m.LRU_ptr]
           kept == IF q \in Registered(m)
                   THEN rte_pktmbuf_free(rte_hash_del_key(m, q), m.client_pkts[q])
                   ELSE m
           d == [kept EXCEPT !.LRU_queue[m.LRU_ptr] = s,
                             !.LRU_ptr = (@ + 1) % MAP_ENTRIES]
<1>1. q \in Sig \cup {NoSig}
  BY MapFields
<1>2. kept \in ClientMapState
  BY <1>1, DelType, FreeType
<1>3. IsFiniteSet(Registered(m)) /\ Cardinality(Registered(m)) \in Nat
      /\ (Cardinality(Registered(m)) < MAP_ENTRIES \/ q \in Registered(m))
  BY CoveredHasRoom, FS_CardinalityType
<1>4. PICK old \in Sig \cup {NoSig} : old = IF q \in Registered(m) THEN q ELSE NoSig
  BY <1>1
<1>5. /\ kept.pkt_counts = m.pkt_counts
      /\ kept.key_hold = m.key_hold /\ kept.last_key = m.last_key
      /\ \A t \in Sig : kept.client_pkts[t] = IF t = old THEN NoChain ELSE m.client_pkts[t]
      /\ kept.live = IF old = NoSig THEN m.live ELSE m.live \ ToSet(m.client_pkts[old])
  <2>1. CASE q \in Registered(m)
    <3>1. old = q /\ q # NoSig
      BY <1>4, <2>1, ClientMapAssumption DEF Registered
    <3> HIDE DEF q
    <3>2. kept = rte_pktmbuf_free(rte_hash_del_key(m, q), m.client_pkts[q])
      BY <2>1
    <3> HIDE DEF kept
    <3> QED
      BY <1>1, <3>1, <3>2, DropFields DEF SameButTable
  <2>2. CASE q \notin Registered(m)
    <3>1. kept = m /\ old = NoSig
      BY <1>4, <2>2
    <3> QED
      BY <3>1, ClientMapAssumption
  <2> QED
    BY <2>1, <2>2
<1>6. old # s
  BY <1>4, ClientMapAssumption
<1> HIDE DEF kept
<1>7. /\ d.pkt_counts = kept.pkt_counts /\ d.client_pkts = kept.client_pkts
      /\ d.key_hold = kept.key_hold /\ d.last_key = kept.last_key /\ d.live = kept.live
  BY <1>2, Zenon DEF ClientMapState
<1>8. TakeSlot(m, s) = d
  BY Zenon DEF TakeSlot, kept
<1> HIDE DEF d, q
<1>9. Cardinality(Registered(d)) < MAP_ENTRIES
  <2>1. Registered(d) = Registered(m) \ {old}
    BY <1>5, <1>7, Zenon DEF Registered
  <2>2. CASE q \in Registered(m)
    <3>1. Cardinality(Registered(m)) <= MAP_ENTRIES
      <4>1. /\ IsFiniteSet(Range(m.LRU_queue))
            /\ Cardinality(Range(m.LRU_queue)) <= MAP_ENTRIES
        BY QueueSize
      <4>2. Registered(m) \in SUBSET Range(m.LRU_queue)
        BY DEF Covered
      <4>3. /\ Cardinality(Registered(m)) <= Cardinality(Range(m.LRU_queue))
            /\ Cardinality(Range(m.LRU_queue)) \in Nat
        BY <4>1, <4>2, FS_Subset, FS_CardinalityType
      <4> QED
        BY <1>3, <4>1, <4>3, ClientMapAssumption
    <3>2. Cardinality(Registered(d)) = Cardinality(Registered(m)) - 1
      BY <1>3, <1>4, <2>1, <2>2, FS_RemoveElement
    <3> QED
      BY <1>3, <3>1, <3>2, ClientMapAssumption
  <2>3. CASE q \notin Registered(m)
    <3>1. Registered(d) = Registered(m)
      BY <1>4, <2>1, <2>3, ClientMapAssumption DEF Registered
    <3> QED
      BY <1>3, <2>3, <3>1
  <2> QED
    BY <2>2, <2>3
<1> QED
  BY <1>5, <1>6, <1>7, <1>8, <1>9

\* In d packet buf is at the head of the chain of s, and the entry of old, if old
\* is a signature, made room for it.
Entered(m, d, s, buf, old) ==
    /\ old # s
    /\ \A t \in Sig : d.client_pkts[t] =
          IF t = s THEN Cons(buf, m.client_pkts[s])
          ELSE IF t = old THEN NoChain ELSE m.client_pkts[t]
    /\ d.live = IF old = NoSig THEN m.live \cup {buf}
                ELSE (m.live \cup {buf}) \ ToSet(m.client_pkts[old])

LEMMA RegisterFields ==
    ASSUME NEW m \in ClientMapState, NEW s \in Sig, NEW buf \in Buf, Covered(m)
    PROVE  LET d == RegisterClient(m, s, buf)
           IN  /\ d.key_hold = s /\ d.last_key = m.last_key
               /\ \A t \in Sig : d.pkt_counts[t] = IF t = s THEN 1 ELSE m.pkt_counts[t]
               /\ \E old \in Sig \cup {NoSig} : Entered(m, d, s, buf, old)
<1> DEFINE held == [m EXCEPT !.key_hold = s, !.live = @ \cup {buf}]
           taken == TakeSlot(held, s)
           added == IF s \in Registered(m)
                    THEN rte_hash_add_key_data(held, s, Cons(buf, m.client_pkts[s]))
                    ELSE rte_hash_add_key_data(taken, s, <<buf>>)
           d == [added EXCEPT !.pkt_counts[s] = 1]
<1>0. RegisterClient(m, s, buf) = d
  BY Zenon DEF RegisterClient
<1> SUFFICES /\ d.key_hold = s /\ d.last_key = m.last_key
             /\ \A t \in Sig : d.pkt_counts[t] = IF t = s THEN 1 ELSE m.pkt_counts[t]
             /\ \E old \in Sig \cup {NoSig} : Entered(m, d, s, buf, old)
  BY <1>0, Zenon
<1>1. m.live \cup {buf} \in SUBSET Buf
  BY MapFields
<1>2. held \in ClientMapState
  BY <1>1, Zenon DEF ClientMapState
<1>3. /\ held.LRU_queue = m.LRU_queue /\ held.client_pkts = m.client_pkts
      /\ held.key_hold = s /\ held.last_key = m.last_key
      /\ held.pkt_counts = m.pkt_counts /\ held.live = m.live \cup {buf}
  BY Zenon DEF ClientMapState
<1> HIDE DEF held
<1>4. Registered(held) = Registered(m) /\ Covered(held)
  BY <1>3, Zenon DEF Registered, Covered
<1>5. taken \in ClientMapState
  BY <1>2, TakeSlotType
<1>6. Cons(buf, m.client_pkts[s]) \in Seq(Buf) /\ <<buf>> \in Seq(Buf)
  BY MapFields DEF Cons
<1>7. added \in ClientMapState
  BY <1>2, <1>5, <1>6, AddType
<1>8. /\ added.key_hold = s /\ added.last_key = m.last_key
      /\ added.pkt_counts = m.pkt_counts
      /\ \E old \in Sig \cup {NoSig} : Entered(m, added, s, buf, old)
  <2>1. CASE s \in Registered(m)
    <3>1. added = [held EXCEPT !.client_pkts[s] = Cons(buf, m.client_pkts[s])]
      BY <1>4, <2>1, Zenon DEF rte_hash_add_key_data
    <3> HIDE DEF added
    <3>2. /\ SameButTable(held, added) /\ added.live = held.live
          /\ \A t \in Sig : added.client_pkts[t] =
                IF t = s THEN Cons(buf, m.client_pkts[s]) ELSE held.client_pkts[t]
      BY <1>2, <3>1, AddFields
    <3>3. NoSig \in Sig \cup {NoSig} /\ NoSig # s /\ NoSig \notin Sig
      BY ClientMapAssumption
    <3>4. Entered(m, added, s, buf, NoSig)
      BY <1>3, <3>2, <3>3 DEF Entered
    <3> QED
      BY <1>3, <3>2, <3>3, <3>4 DEF SameButTable
  <2>2. CASE s \notin Registered(m)
    <3>1. PICK old \in Sig \cup {NoSig} :
             /\ old # s
             /\ \A t \in Sig : taken.client_pkts[t] = IF t = old THEN NoChain
                                                      ELSE held.client_pkts[t]
             /\ taken.live = IF old = NoSig THEN held.live
                             ELSE held.live \ ToSet(held.client_pkts[old])
      BY <1>2, <1>4, <2>2, TakeSlotFields
    <3>2. /\ taken.pkt_counts = held.pkt_counts
          /\ taken.key_hold = held.key_hold /\ taken.last_key = held.last_key
          /\ Cardinality(Registered(taken)) < MAP_ENTRIES
      BY <1>2, <1>4, <2>2, TakeSlotFields
    <3> HIDE DEF taken
    <3>3. added = [taken EXCEPT !.client_pkts[s] = <<buf>>]
      BY <2>2, <3>2, Zenon DEF rte_hash_add_key_data
    <3> HIDE DEF added
    <3>4. /\ SameButTable(taken, added) /\ added.live = taken.live
          /\ \A t \in Sig : added.client_pkts[t] =
                IF t = s THEN <<buf>> ELSE taken.client_pkts[t]
      BY <1>5, <3>3, AddFields
    <3>5. Cons(buf, m.client_pkts[s]) = <<buf>>
      <4>1. m.client_pkts[s] = << >>
        BY <2>2 DEF Registered, NoChain
      <4> QED
        BY <4>1 DEF Cons
    <3>6. Entered(m, added, s, buf, old)
      BY <1>3, <3>1, <3>4, <3>5 DEF Entered
    <3> QED
      BY <1>3, <3>2, <3>4, <3>6 DEF SameButTable
  <2> QED
    BY <2>1, <2>2
<1> HIDE DEF added
<1>9. /\ d.client_pkts = added.client_pkts /\ d.live = added.live
      /\ d.key_hold = added.key_hold /\ d.last_key = added.last_key
      /\ d.pkt_counts = [added.pkt_counts EXCEPT ![s] = 1]
  BY <1>7, Zenon DEF ClientMapState
<1> HIDE DEF d
<1>10. \A t \in Sig : d.pkt_counts[t] = IF t = s THEN 1 ELSE m.pkt_counts[t]
  BY <1>8, <1>9, MapFields
<1>11. \A old : Entered(m, added, s, buf, old) => Entered(m, d, s, buf, old)
  BY <1>9, Zenon DEF Entered
<1> QED
  BY <1>8, <1>9, <1>10, <1>11, Zenon

\* A datagram is counted for the entry found, or clears it: the entry deleted is
\* the one found as long as key_hold names it.
LEMMA SteerFields ==
    ASSUME NEW m \in ClientMapState, NEW s \in Sig \cup {NoSig}, NEW exp \in Nat,
           s = NoSig => m.key_hold = m.last_key
    PROVE  LET d == SteerDatagram(m, s, exp)
               f == LookedUp(m, s)
               counts == f \in Registered(m) /\ m.pkt_counts[f] < exp
               clears == f \in Registered(m) /\ ~(m.pkt_counts[f] < exp)
           IN  /\ d.key_hold = (IF s = NoSig THEN m.key_hold ELSE s)
               /\ d.last_key = (IF s # NoSig /\ exp > 1 THEN s ELSE m.last_key)
               /\ \A t \in Sig : d.pkt_counts[t] =
                     IF t = f /\ counts THEN m.pkt_counts[t] + 1 ELSE m.pkt_counts[t]
               /\ \A t \in Sig : d.client_pkts[t] =
                     IF t = f /\ clears THEN NoChain ELSE m.client_pkts[t]
               /\ d.live = IF clears THEN m.live \ ToSet(m.client_pkts[f]) ELSE m.live
<1> DEFINE held == HoldKey(m, s, exp)
           f == LookedUp(m, s)
           d == SteerDatagram(m, s, exp)
           counts == f \in Registered(m) /\ m.pkt_counts[f] < exp
           clears == f \in Registered(m) /\ ~(m.pkt_counts[f] < exp)
<1> SUFFICES /\ d.key_hold = (IF s = NoSig THEN m.key_hold ELSE s)
             /\ d.last_key = (IF s # NoSig /\ exp > 1 THEN s ELSE m.last_key)
             /\ \A t \in Sig : d.pkt_counts[t] =
                   IF t = f /\ counts THEN m.pkt_counts[t] + 1 ELSE m.pkt_counts[t]
             /\ \A t \in Sig : d.client_pkts[t] =
                   IF t = f /\ clears THEN NoChain ELSE m.client_pkts[t]
             /\ d.live = IF clears THEN m.live \ ToSet(m.client_pkts[f]) ELSE m.live
  OBVIOUS
<1>1. held \in ClientMapState
  BY HoldType
<1>2. /\ held.client_pkts = m.client_pkts /\ held.live = m.live
      /\ held.pkt_counts = m.pkt_counts
      /\ held.key_hold = (IF s = NoSig THEN m.key_hold ELSE s)
      /\ held.last_key = (IF s # NoSig /\ exp > 1 THEN s ELSE m.last_key)
  <2>1. CASE s = NoSig
    BY <2>1 DEF HoldKey
  <2>2. CASE s # NoSig
    <3> DEFINE h == [m EXCEPT !.key_hold = s, !.last_key = IF exp > 1 THEN s ELSE @]
    <3>1. /\ h.client_pkts = m.client_pkts /\ h.live = m.live
          /\ h.pkt_counts = m.pkt_counts /\ h.key_hold = s
          /\ h.last_key = (IF exp > 1 THEN s ELSE m.last_key)
      BY Zenon DEF ClientMapState
    <3>2. held = h
      BY <2>2, Zenon DEF HoldKey
    <3> HIDE DEF h, held
    <3> QED
      BY <2>2, <3>1, <3>2
  <2> QED
    BY <2>1, <2>2
<1>3. LookedUp(held, s) = f
  BY <1>2 DEF LookedUp
<1>4. Registered(held) = Registered(m)
  BY <1>2, Zenon DEF Registered
<1>5. d = IF f \in Registered(m) THEN CountDatagram(held, f, exp) ELSE held
  BY <1>3, <1>4, Zenon DEF SteerDatagram
<1>6. f \in Registered(m) => f \in Sig
  BY Zenon DEF Registered
<1>7. held.key_hold = f
  BY <1>2 DEF LookedUp
<1> HIDE DEF held, f, d
<1>8. CASE f \notin Registered(m)
  BY <1>2, <1>5, <1>8
<1>9. CASE f \in Registered(m) /\ m.pkt_counts[f] < exp
  <2> DEFINE h == [held EXCEPT !.pkt_counts[f] = @ + 1]
  <2>1. d = h
    BY <1>2, <1>5, <1>9, Zenon DEF CountDatagram
  <2>2. /\ h.client_pkts = held.client_pkts /\ h.live = held.live
        /\ h.key_hold = held.key_hold /\ h.last_key = held.last_key
        /\ h.pkt_counts = [held.pkt_counts EXCEPT ![f] = held.pkt_counts[f] + 1]
    BY <1>1, Zenon DEF ClientMapState
  <2> HIDE DEF h
  <2>3. \A t \in Sig : h.pkt_counts[t] = IF t = f THEN m.pkt_counts[t] + 1
                                         ELSE m.pkt_counts[t]
    BY <1>2, <2>2, MapFields
  <2> QED
    BY <1>2, <1>9, <2>1, <2>2, <2>3
<1>10. CASE f \in Registered(m) /\ ~(m.pkt_counts[f] < exp)
  <2>1. d = rte_pktmbuf_free(rte_hash_del_key(held, f), m.client_pkts[f])
    BY <1>2, <1>5, <1>7, <1>10, Zenon DEF CountDatagram
  <2>2. /\ SameButTable(held, d) /\ d.live = held.live \ ToSet(m.client_pkts[f])
        /\ \A t \in Sig : d.client_pkts[t] = IF t = f THEN NoChain ELSE held.client_pkts[t]
    BY <1>1, <1>6, <1>10, <2>1, DropFields
  <2> QED
    BY <1>2, <1>10, <2>2 DEF SameButTable
<1> QED
  BY <1>8, <1>9, <1>10

----------------------------------------------------------------------------
(* Chains: every mbuf that is live is linked in one place. *)

\* No mbuf stands in two places of the chains.
Disjoint(chains) ==
    \A s, t \in Sig : \A i \in DOMAIN chains[s], j \in DOMAIN chains[t] :
        chains[s][i] = chains[t][j] => s = t /\ i = j

\* The mbufs that the table leads to.
Linked(chains) == {buf \in Buf : \E s \in Sig : buf \in ToSet(chains[s])}

Exact(m) == Disjoint(m.client_pkts) /\ m.live = Linked(m.client_pkts)

LEMMA DisjointSets ==
    ASSUME NEW chains, Disjoint(chains), NEW s \in Sig, NEW t \in Sig,
           NEW buf, buf \in ToSet(chains[s]), buf \in ToSet(chains[t])
    PROVE  s = t
  BY DEF Disjoint, ToSet

LEMMA ChainSet ==
    ASSUME NEW m \in ClientMapState, NEW s \in Sig
    PROVE  ToSet(m.client_pkts[s]) \subseteq Buf
  BY MapFields DEF ToSet

\* The elements of a chain with another head.
LEMMA ConsFields ==
    ASSUME NEW buf \in Buf, NEW chain \in Seq(Buf)
    PROVE  /\ DOMAIN Cons(buf, chain) = 1 .. Len(chain) + 1
           /\ DOMAIN chain = 1 .. Len(chain) /\ Len(chain) \in Nat
           /\ \A i \in 1 .. Len(chain) + 1 :
                 Cons(buf, chain)[i] = IF i = 1 THEN buf ELSE chain[i - 1]
           /\ ToSet(Cons(buf, chain)) = {buf} \cup ToSet(chain)
<1> DEFINE c == Cons(buf, chain)
<1>1. /\ DOMAIN c = 1 .. Len(chain) + 1
      /\ DOMAIN chain = 1 .. Len(chain) /\ Len(chain) \in Nat
      /\ \A i \in 1 .. Len(chain) + 1 : c[i] = IF i = 1 THEN buf ELSE chain[i - 1]
  BY DEF Cons
<1> HIDE DEF c
<1>2. ToSet(c) \subseteq {buf} \cup ToSet(chain)
  <2> SUFFICES ASSUME NEW i \in DOMAIN c PROVE c[i] = buf \/ c[i] \in ToSet(chain)
    BY DEF ToSet
  <2>1. i # 1 => i - 1 \in DOMAIN chain
    BY <1>1
  <2> QED
    BY <1>1, <2>1 DEF ToSet
<1>3. {buf} \cup ToSet(chain) \subseteq ToSet(c)
  <2>1. c[1] = buf /\ 1 \in DOMAIN c
    BY <1>1
  <2>2. ASSUME NEW i \in DOMAIN chain PROVE i + 1 \in DOMAIN c /\ c[i + 1] = chain[i]
    BY <1>1
  <2> QED
    BY <2>1, <2>2 DEF ToSet
<1> QED
  BY <1>1, <1>2, <1>3 DEF c

\* An entry is deleted and its chain freed.
LEMMA DropExact ==
    ASSUME NEW m \in ClientMapState, Exact(m), NEW d, NEW q \in Sig \cup {NoSig},
           \A t \in Sig : d.client_pkts[t] = IF t = q THEN NoChain ELSE m.client_pkts[t],
           d.live = IF q = NoSig THEN m.live ELSE m.live \ ToSet(m.client_pkts[q])
    PROVE  Exact(d)
<1>1. Disjoint(d.client_pkts)
  <2>1. DOMAIN NoChain = {}
    BY DEF NoChain
  <2>2. \A t \in Sig : \A i \in DOMAIN d.client_pkts[t] :
           i \in DOMAIN m.client_pkts[t] /\ d.client_pkts[t][i] = m.client_pkts[t][i]
    BY <2>1
  <2>3. Disjoint(m.client_pkts)
    BY DEF Exact
  <2> QED
    BY <2>2, <2>3 DEF Disjoint
<1>2. ToSet(NoChain) = {}
  BY DEF ToSet, NoChain
<1>3. CASE q = NoSig
  <2>1. \A t \in Sig : d.client_pkts[t] = m.client_pkts[t]
    BY <1>3, ClientMapAssumption
  <2> QED
    BY <1>1, <1>3, <2>1 DEF Exact, Linked
<1>4. CASE q # NoSig
  <2>1. ASSUME NEW buf \in Buf
        PROVE  buf \in d.live <=> \E s \in Sig : buf \in ToSet(d.client_pkts[s])
    <3>1. buf \in d.live <=> /\ \E s \in Sig : buf \in ToSet(m.client_pkts[s])
                             /\ buf \notin ToSet(m.client_pkts[q])
      BY <1>4 DEF Exact, Linked
    <3>2. ASSUME NEW s \in Sig, buf \in ToSet(m.client_pkts[s]),
                 buf \notin ToSet(m.client_pkts[q])
          PROVE  buf \in ToSet(d.client_pkts[s])
      BY <3>2
    <3>3. ASSUME NEW s \in Sig, buf \in ToSet(d.client_pkts[s])
          PROVE  buf \in ToSet(m.client_pkts[s]) /\ s # q
      BY <1>2, <3>3
    <3>4. ASSUME NEW s \in Sig, buf \in ToSet(m.client_pkts[s]), s # q
          PROVE  buf \notin ToSet(m.client_pkts[q])
      BY <1>4, <3>4, DisjointSets DEF Exact
    <3> QED
      BY <3>1, <3>2, <3>3, <3>4
  <2>2. d.live \subseteq Buf
    BY <1>4, MapFields
  <2> QED
    BY <1>1, <2>1, <2>2 DEF Exact, Linked
<1> QED
  BY <1>3, <1>4

\* A free mbuf becomes the head of a chain.
LEMMA EnterExact ==
    ASSUME NEW m \in ClientMapState, Exact(m), NEW d, NEW s \in Sig,
           NEW buf \in Buf \ m.live, NEW old \in Sig \cup {NoSig},
           Entered(m, d, s, buf, old)
    PROVE  Exact(d)
<1> PICK c : /\ c = [client_pkts |-> [t \in Sig |-> IF t = old THEN NoChain
                                                     ELSE m.client_pkts[t]],
                     live |-> IF old = NoSig THEN m.live
                              ELSE m.live \ ToSet(m.client_pkts[old])]
  OBVIOUS
<1>1. /\ \A t \in Sig : c.client_pkts[t] = IF t = old THEN NoChain ELSE m.client_pkts[t]
      /\ c.live = IF old = NoSig THEN m.live ELSE m.live \ ToSet(m.client_pkts[old])
  OBVIOUS
<1>2. Exact(c)
  BY <1>1, DropExact
<1>3. /\ buf \notin c.live /\ c.live \subseteq Buf
      /\ \A t \in Sig : c.client_pkts[t] \in Seq(Buf)
  BY <1>1, MapFields DEF NoChain
<1>4. \A t \in Sig : d.client_pkts[t] = IF t = s THEN Cons(buf, c.client_pkts[s])
                                        ELSE c.client_pkts[t]
  BY <1>1 DEF Entered
<1>5. buf \notin ToSet(m.client_pkts[old]) \/ old = NoSig
  BY DEF Exact, Linked
<1>6. d.live = c.live \cup {buf}
  BY <1>1, <1>5 DEF Entered
<1>7. \A t \in Sig : buf \notin ToSet(c.client_pkts[t])
  BY <1>2, <1>3 DEF Exact, Linked
<1> DEFINE chain == c.client_pkts[s]
<1>8. /\ DOMAIN Cons(buf, chain) = 1 .. Len(chain) + 1
      /\ DOMAIN chain = 1 .. Len(chain) /\ Len(chain) \in Nat
      /\ \A i \in 1 .. Len(chain) + 1 :
            Cons(buf, chain)[i] = IF i = 1 THEN buf ELSE chain[i - 1]
      /\ ToSet(Cons(buf, chain)) = {buf} \cup ToSet(chain)
  BY <1>3, ConsFields
<1>9. Disjoint(d.client_pkts)
  <2> SUFFICES ASSUME NEW t \in Sig, NEW u \in Sig, NEW i \in DOMAIN d.client_pkts[t],
                      NEW j \in DOMAIN d.client_pkts[u],
                      d.client_pkts[t][i] = d.client_pkts[u][j]
               PROVE  t = u /\ i = j
    BY DEF Disjoint
  <2> DEFINE IsHead(v, k) == v = s /\ k = 1
             Old(v, k) == IF v = s THEN k - 1 ELSE k
  <2>1. ASSUME NEW v \in Sig, NEW k \in DOMAIN d.client_pkts[v]
        PROVE  IF IsHead(v, k) THEN d.client_pkts[v][k] = buf
               ELSE /\ Old(v, k) \in DOMAIN c.client_pkts[v]
                    /\ d.client_pkts[v][k] = c.client_pkts[v][Old(v, k)]
                    /\ d.client_pkts[v][k] # buf
    <3>1. CASE v = s
      <4>1. k \in 1 .. Len(chain) + 1 /\ d.client_pkts[v] = Cons(buf, chain)
        BY <1>4, <1>8, <3>1
      <4>2. k # 1 => k - 1 \in DOMAIN chain /\ chain[k - 1] \in ToSet(chain)
        BY <1>8, <4>1 DEF ToSet
      <4> QED
        BY <1>7, <1>8, <3>1, <4>1, <4>2
    <3>2. CASE v # s
      <4>1. d.client_pkts[v] = c.client_pkts[v]
        BY <1>4, <3>2
      <4>2. c.client_pkts[v][k] \in ToSet(c.client_pkts[v])
        BY <4>1 DEF ToSet
      <4> QED
        BY <1>7, <3>2, <4>1, <4>2
    <3> QED
      BY <3>1, <3>2
  <2>2. CASE IsHead(t, i) \/ IsHead(u, j)
    BY <2>1, <2>2
  <2>3. CASE ~IsHead(t, i) /\ ~IsHead(u, j)
    <3>1. /\ Old(t, i) \in DOMAIN c.client_pkts[t] /\ Old(u, j) \in DOMAIN c.client_pkts[u]
          /\ c.client_pkts[t][Old(t, i)] = c.client_pkts[u][Old(u, j)]
      BY <2>1, <2>3
    <3>2. t = u /\ Old(t, i) = Old(u, j)
      <4> HIDE DEF Old
      <4> QED
        BY <1>2, <3>1 DEF Exact, Disjoint
    <3>3. t = s => i \in Int /\ j \in Int
      BY <1>4, <1>8, <3>2
    <3> QED
      BY <3>2, <3>3
  <2> QED
    BY <2>2, <2>3
<1>10. d.live = Linked(d.client_pkts)
  <2>1. \A t \in Sig : ToSet(d.client_pkts[t]) = IF t = s THEN {buf} \cup ToSet(chain)
                                                 ELSE ToSet(c.client_pkts[t])
    BY <1>4, <1>8
  <2> HIDE DEF chain
  <2>2. Linked(d.client_pkts) = Linked(c.client_pkts) \cup {buf}
    BY <2>1 DEF Linked, chain
  <2> QED
    BY <1>2, <1>6, <2>2 DEF Exact
<1> QED
  BY <1>9, <1>10 DEF Exact

\* A chain is no longer than the mbufs there are.
LEMMA ChainLength ==
    ASSUME NEW m \in ClientMapState, Exact(m), NEW s \in Sig, NEW buf \in Buf \ m.live
    PROVE  Len(m.client_pkts[s]) < MaxChain
<1> DEFINE chain == m.client_pkts[s]
<1>1. chain \in Seq(Buf)
  BY MapFields
<1>2. \A i \in 1 .. Len(chain) : chain[i] \in Buf \ {buf}
  BY <1>1 DEF Exact, Linked, ToSet
<1>3. \A i, j \in 1 .. Len(chain) : chain[i] = chain[j] => i = j
  BY <1>1 DEF Exact, Disjoint
<1> HIDE DEF chain
<1>4. chain \in Injection(1 .. Len(chain), Buf \ {buf})
  BY <1>1, <1>2, <1>3 DEF Injection, IsInjective
<1>5. IsFiniteSet(Buf \ {buf}) /\ Cardinality(Buf \ {buf}) = Cardinality(Buf) - 1
  BY MiddleboxAssumption, FS_RemoveElement
<1>6. Cardinality(1 .. Len(chain)) <= Cardinality(Buf) - 1
  BY <1>4, <1>5, FS_Injection
<1>7. Len(chain) \in Nat /\ Cardinality(1 .. Len(chain)) = Len(chain)
  <2>1. Len(chain) \in Nat
    BY <1>1
  <2>2. Cardinality(1 .. Len(chain)) = IF 1 > Len(chain) THEN 0 ELSE Len(chain) - 1 + 1
    BY <2>1, FS_Interval
  <2> QED
    BY <2>1, <2>2
<1>8. Cardinality(Buf) \in Nat
  BY MiddleboxAssumption, FS_CardinalityType
<1> QED
  BY <1>6, <1>7, <1>8, MiddleboxAssumption, ClientMapAssumption DEF chain

----------------------------------------------------------------------------
(* What a chain forwards. *)

\* The places of a chain whose packet is request n.
Places(chain, n) == {i \in DOMAIN chain : pkts[chain[i]] = n}

\* The datagrams that Forward adds.
Copies(chain, k, last) == {<<pkts[buf], k, last>> : buf \in ToSet(chain)}

LEMMA PlacesFinite ==
    ASSUME NEW chain \in Seq(Buf), NEW n
    PROVE  /\ IsFiniteSet(Places(chain, n)) /\ Cardinality(Places(chain, n)) \in Nat
           /\ Places(chain, n) # {} => Cardinality(Places(chain, n)) > 0
<1>1. DOMAIN chain = 1 .. Len(chain) /\ Len(chain) \in Nat
  OBVIOUS
<1>2. IsFiniteSet(1 .. Len(chain))
  BY <1>1, FS_Interval
<1>3. Places(chain, n) \in SUBSET (1 .. Len(chain))
  BY <1>1 DEF Places
<1>4. IsFiniteSet(Places(chain, n))
  BY <1>2, <1>3, FS_Subset
<1> QED
  BY <1>4, FS_CardinalityType, FS_EmptySet

LEMMA ForwardFields ==
    ASSUME NEW chain \in Seq(Buf), NEW k, NEW last, IsABag(got)
    PROVE  LET sent == Forward(chain, k, last)
           IN  /\ IsABag(sent)
               /\ BagToSet(sent) = BagToSet(got) \cup Copies(chain, k, last)
               /\ \A n : LET d == <<n, k, last>>
                         IN  (IF BagIn(d, sent) THEN sent[d] ELSE 0)
                                = (IF BagIn(d, got) THEN got[d] ELSE 0)
                                      + Cardinality(Places(chain, n))
               /\ \A d \in BagToSet(got) : d \notin Copies(chain, k, last) => sent[d] = got[d]
<1> DEFINE added == [d \in Copies(chain, k, last) |-> Cardinality(Places(chain, d[1]))]
           sent == got (+) added
<1>1. Forward(chain, k, last) = sent
  BY Zenon DEF Forward, Copies, Places
<1>2. \A d \in Copies(chain, k, last) :
         added[d] = Cardinality(Places(chain, d[1])) /\ added[d] \in Nat /\ added[d] > 0
  <2> SUFFICES ASSUME NEW i \in DOMAIN chain
               PROVE  Cardinality(Places(chain, pkts[chain[i]])) \in Nat \ {0}
    BY DEF Copies, ToSet
  <2>1. i \in Places(chain, pkts[chain[i]])
    BY DEF Places
  <2> QED
    BY <2>1, PlacesFinite
<1>3. DOMAIN added = Copies(chain, k, last)
  OBVIOUS
<1> HIDE DEF added
<1>4. /\ DOMAIN sent = DOMAIN got \cup Copies(chain, k, last)
      /\ \A d \in DOMAIN sent : sent[d] = (IF d \in DOMAIN got THEN got[d] ELSE 0)
                          + (IF d \in Copies(chain, k, last) THEN added[d] ELSE 0)
      /\ sent = [d \in DOMAIN sent |-> sent[d]]
  BY <1>3 DEF (+)
<1> HIDE DEF sent
<1>5. \A d \in DOMAIN got : got[d] \in Nat /\ got[d] > 0
  BY DEF IsABag
<1>6. IsABag(sent)
  BY <1>2, <1>4, <1>5 DEF IsABag
<1>7. ASSUME NEW n
      PROVE  LET d == <<n, k, last>>
             IN  (IF BagIn(d, sent) THEN sent[d] ELSE 0)
                    = (IF BagIn(d, got) THEN got[d] ELSE 0) + Cardinality(Places(chain, n))
  <2> DEFINE d == <<n, k, last>>
  <2>1. d[1] = n
    OBVIOUS
  <2>2. d \in Copies(chain, k, last) <=> Places(chain, n) # {}
    BY DEF Copies, Places, ToSet
  <2>3. Places(chain, n) = {} => Cardinality(Places(chain, n)) = 0
    BY FS_EmptySet
  <2>4. Cardinality(Places(chain, n)) \in Nat
    BY PlacesFinite
  <2> HIDE DEF d
  <2>5. (IF d \in DOMAIN sent THEN sent[d] ELSE 0)
           = (IF d \in DOMAIN got THEN got[d] ELSE 0) + Cardinality(Places(chain, n))
    BY <1>2, <1>4, <1>5, <2>1, <2>2, <2>3, <2>4
  <2> QED
    BY <2>5 DEF d, BagIn, BagToSet
<1>8. \A d \in DOMAIN got : d \notin Copies(chain, k, last) => sent[d] = got[d]
  BY <1>4, <1>5
<1> QED
  BY <1>1, <1>4, <1>6, <1>7, <1>8 DEF BagToSet

----------------------------------------------------------------------------
(* Types, whatever is lost and however packets interleave. *)

Typed ==
    /\ ClientMapTypeOK /\ Covered(clients)
    /\ requests \in Seq(ClientRequests)
    /\ pkts \in [Buf -> 0 .. Len(requests)]
    /\ IsABag(got)
    /\ BagToSet(got) \subseteq (0 .. Len(requests)) \X (Key \cup {NoKey}) \X BOOLEAN

\* The packet and the key that a round of the loop handles.
LEMMA KeyFields ==
    ASSUME Inv, AppClientKey
    PROVE  LET request == Len(requests)
               k == requests[request][next]
           IN  /\ request \in Nat \ {0} /\ requests[request] \in Seq(Key)
               /\ next \in 1 .. Len(requests[request]) /\ k \in Key
               /\ <<batch.request_id, k>> \in Sig
<1> DEFINE keys == requests[Len(requests)]
<1>1. in_client /\ next <= Len(keys)
  BY Zenon DEF AppClientKey
<1>2. Len(requests) \in Nat /\ Len(requests) > 0 /\ next \in Nat \ {0}
  BY <1>1, EmptySeq DEF Inv, Environment
<1>3. keys \in Seq(Key)
  BY <1>2 DEF Inv, Environment
<1>4. Len(keys) \in Nat /\ keys[next] \in Key
  BY <1>1, <1>2, <1>3
<1>5. batch.request_id \in ReqId
  BY Fields DEF Inv, BatchTypeOK
<1> QED
  BY <1>1, <1>2, <1>3, <1>4, <1>5, MiddleboxAssumption

\* One round on the chains and on the packets.
LEMMA KeyStep ==
    ASSUME Inv, AppClientKey
    PROVE  LET request == Len(requests)
               s == <<batch.request_id, requests[request][next]>>
           IN  \E buf \in Buf \ clients.live :
                  /\ clients' = RegisterClient(clients, s, buf)
                  /\ pkts' = [pkts EXCEPT ![buf] = request]
  BY Zenon DEF AppClientKey

\* What app_server_in reads from a datagram, and the chain it finds.
NamedBy(a, seq) == IF seq = 0 /\ a[2] # NoKey THEN a ELSE NoSig

LEMMA ServerFields ==
    ASSUME Typed, NEW a, NEW seq, NEW exp \in 1 .. MaxDatagrams, IsDue(a),
           AppServerIn(a, seq, exp)
    PROVE  LET s == NamedBy(a, seq)
           IN  /\ s \in Sig \cup {NoSig} /\ clients' = SteerDatagram(clients, s, exp)
               /\ Recipients(clients, s) \in Seq(Buf)
               /\ LookedUp(clients, s) \in Sig =>
                     Recipients(clients, s) = clients.client_pkts[LookedUp(clients, s)]
               /\ LookedUp(clients, s) \notin Sig => Recipients(clients, s) = NoChain
               /\ got' = Forward(Recipients(clients, s), a[2], seq = exp - 1)
               /\ ~in_client /\ UNCHANGED <<in_client, requests, next, pkts>>
<1> DEFINE s == NamedBy(a, seq)
<1>1. s \in Sig \cup {NoSig}
  BY MiddleboxAssumption DEF NamedBy, IsDue, Answer
<1>2. /\ clients' = SteerDatagram(clients, s, exp)
      /\ got' = Forward(Recipients(clients, s), a[2], seq = exp - 1)
      /\ ~in_client /\ UNCHANGED <<in_client, requests, next, pkts>>
  BY Zenon DEF AppServerIn, NamedBy
<1> HIDE DEF s
<1>3. NoChain \in Seq(Buf)
  BY DEF NoChain
<1>4. clients.client_pkts \in [Sig -> Seq(Buf)]
  BY MapFields DEF Typed, ClientMapTypeOK
<1>5. /\ Recipients(clients, s) \in Seq(Buf)
      /\ LookedUp(clients, s) \in Sig =>
            Recipients(clients, s) = clients.client_pkts[LookedUp(clients, s)]
      /\ LookedUp(clients, s) \notin Sig => Recipients(clients, s) = NoChain
  BY <1>3, <1>4 DEF Recipients, Registered
<1> QED
  BY <1>1, <1>2, <1>5 DEF s

LEMMA ServerTyped ==
    ASSUME Typed, NEW a, NEW seq, NEW exp \in 1 .. MaxDatagrams, IsDue(a),
           AppServerIn(a, seq, exp)
    PROVE  Typed'
<1> DEFINE s == NamedBy(a, seq)
           chain == Recipients(clients, s)
           last == seq = exp - 1
<1>1. /\ s \in Sig \cup {NoSig} /\ clients' = SteerDatagram(clients, s, exp)
      /\ chain \in Seq(Buf) /\ got' = Forward(chain, a[2], last)
      /\ UNCHANGED <<requests, pkts>>
  BY ServerFields
<1>2. a[2] \in Key \cup {NoKey} /\ last \in BOOLEAN
  BY DEF IsDue, Answer
<1> HIDE DEF s, chain, last
<1>3. ClientMapTypeOK' /\ Covered(clients')
  BY <1>1, SteerType, SteerCovered DEF Typed, ClientMapTypeOK
<1>4. IsABag(got') /\ BagToSet(got') = BagToSet(got) \cup Copies(chain, a[2], last)
  BY <1>1, ForwardFields DEF Typed
<1>5. Copies(chain, a[2], last) \subseteq (0 .. Len(requests)) \X (Key \cup {NoKey}) \X BOOLEAN
  BY <1>1, <1>2 DEF Copies, ToSet, Typed
<1> QED
  BY <1>1, <1>3, <1>4, <1>5 DEF Typed, Covered, Registered

LEMMA StepTyped ==
    ASSUME Inv, Typed, [Next]_vars
    PROVE  Typed'
<1>1. ASSUME UNCHANGED <<clients, requests, pkts, got>> PROVE Typed'
  BY <1>1 DEF Typed, ClientMapTypeOK, Covered, Registered
<1>2. CASE AppClientIn
  <2>1. PICK keys \in ClientRequests : requests' = Append(requests, keys)
    BY <1>2 DEF AppClientIn
  <2>2. /\ requests' \in Seq(ClientRequests) /\ Len(requests') = Len(requests) + 1
        /\ Len(requests) \in Nat
    BY <2>1 DEF Typed
  <2>3. 0 .. Len(requests) \subseteq 0 .. Len(requests')
    BY <2>2
  <2>4. UNCHANGED <<clients, pkts, got>>
    BY <1>2 DEF AppClientIn
  <2>5. pkts' \in [Buf -> 0 .. Len(requests')]
    BY <2>3, <2>4 DEF Typed
  <2>6. BagToSet(got') \subseteq (0 .. Len(requests')) \X (Key \cup {NoKey}) \X BOOLEAN
    BY <2>3, <2>4 DEF Typed
  <2> QED
    BY <2>2, <2>4, <2>5, <2>6 DEF Typed, ClientMapTypeOK, Covered, Registered
<1>3. CASE AppClientKey
  <2> DEFINE s == <<batch.request_id, requests[Len(requests)][next]>>
  <2>1. PICK buf \in Buf \ clients.live :
           /\ clients' = RegisterClient(clients, s, buf)
           /\ pkts' = [pkts EXCEPT ![buf] = Len(requests)]
    BY <1>3, KeyStep
  <2>2. s \in Sig /\ Len(requests) \in Nat \ {0}
    BY <1>3, KeyFields
  <2> HIDE DEF s
  <2>3. ClientMapTypeOK' /\ Covered(clients')
    BY <2>1, <2>2, RegisterType, RegisterCovered DEF Typed, ClientMapTypeOK
  <2>4. UNCHANGED <<requests, got>>
    BY <1>3, Zenon DEF AppClientKey
  <2>5. pkts' \in [Buf -> 0 .. Len(requests)]
    BY <2>1, <2>2 DEF Typed
  <2> QED
    BY <2>3, <2>4, <2>5 DEF Typed, Covered, Registered
<1>4. ASSUME NEW a \in todo, NEW exp \in 1 .. MaxDatagrams, FirstDatagram(a, exp)
      PROVE  Typed'
  BY <1>4, ServerTyped DEF FirstDatagram, Inv, Environment
<1>5. CASE NextDatagram
  BY <1>5, ServerTyped DEF NextDatagram, Inv, Environment, IsPartial
<1>6. ASSUME NEW a \in todo, NEW exp \in 1 .. MaxDatagrams, LoseFirst(a, exp)
      PROVE  Typed'
  BY <1>1, <1>6 DEF LoseFirst
<1>7. CASE LoseNext
  BY <1>1, <1>7 DEF LoseNext
<1>8. CASE AppClientEnd
  BY <1>1, <1>8 DEF AppClientEnd
<1>9. CASE PollRefresh
  BY <1>1, <1>9 DEF PollRefresh
<1>10. CASE ClockTick
  BY <1>1, <1>10 DEF ClockTick, envVars
<1>11. CASE UNCHANGED vars
  BY <1>1, <1>11 DEF vars, envVars
<1> QED
  BY <1>2, <1>3, <1>4, <1>5, <1>6, <1>7, <1>8, <1>9, <1>10, <1>11 DEF Next

LEMMA InitTyped == Init => Typed
<1> SUFFICES ASSUME Init PROVE Typed
  OBVIOUS
<1>1. ClientMapTypeOK /\ Covered(clients)
  BY ClientMapTypeInit, CoveredInit DEF Init
<1>2. /\ requests = << >> /\ pkts = [buf \in Buf |-> 0] /\ got = EmptyBag
  BY DEF Init
<1>3. IsABag(got) /\ BagToSet(got) = {}
  BY <1>2 DEF EmptyBag, SetToBag, IsABag, BagToSet
<1> QED
  BY <1>1, <1>2, <1>3 DEF Typed

\* The state of the middlebox stays well typed with clients that send what they
\* like when they like, and a network that loses what it likes.
THEOREM MiddleboxTypes == Spec => []TypeOK
<1>1. Inv /\ Typed => TypeOK
  <2>1. Inv => todo \subseteq ReqId \X (Key \cup {NoKey})
    BY DEF Inv, Environment, IsDue, Answer
  <2> QED
    BY <2>1 DEF TypeOK, Inv, Environment, Typed
<1> QED
  BY <1>1, InitInv, StepInv, InitTyped, StepTyped, PTL DEF Spec

\* The table of the middlebox never refuses a client (api.c:297-309).
COROLLARY MiddleboxHasRoom == Spec => [](LRUCoversMap /\ RoomForNext)
<1>1. Typed => LRUCoversMap /\ RoomForNext
  BY CoveredHasRoom DEF RoomForNext, Typed, ClientMapTypeOK, LRUCoversMap, Covered
<1> QED
  BY <1>1, InitInv, StepInv, InitTyped, StepTyped, PTL DEF Spec

----------------------------------------------------------------------------
(* What the middlebox needs from its environment to steer values: it tells *)
(* the datagrams of a value that do not name their key only by last_key.   *)

\* No packet of a client comes between the datagrams of a value, no value loses
\* the first of several datagrams, and every key has a value.
Orderly == ~Interleaved /\ "first" \notin Lost /\ Stored = Key

\* A value that is partly delivered is the one that the next datagram without a
\* key is taken for, and the one whose entry is cleared.
Continues ==
    value # NoValue =>
        /\ ~in_client /\ value.answer \in Sig
        /\ clients.key_hold = value.answer /\ clients.last_key = value.answer

\* A chained packet asked for the key of its signature.
Owed ==
    \A s \in Sig : \A buf \in ToSet(clients.client_pkts[s]) :
        pkts[buf] > 0 /\ Contains(requests[pkts[buf]], s[2])

Steering == Exact(clients) /\ Continues /\ todo \subseteq Sig /\ Owed /\ Steered

Counts(a, exp) == a \in Registered(clients) /\ clients.pkt_counts[a] < exp
Clears(a, exp) == a \in Registered(clients) /\ ~(clients.pkt_counts[a] < exp)

\* Datagram seq of exp datagrams of the value of signature a arrives: the first
\* one while no value is partly delivered, another one after its predecessor.
Delivery(a, seq, exp) ==
    /\ IF seq = 0 THEN value = NoValue
       ELSE value # NoValue /\ value.seq = seq - 1 /\ clients.last_key = a
    /\ Emit(a, seq, exp)
    /\ clients'.key_hold = a /\ (seq < exp - 1 => clients'.last_key = a)
    /\ \A t \in Sig : clients'.pkt_counts[t] =
          IF t = a /\ Counts(a, exp) THEN clients.pkt_counts[t] + 1
          ELSE clients.pkt_counts[t]
    /\ \A t \in Sig : clients'.client_pkts[t] =
          IF t = a /\ Clears(a, exp) THEN NoChain ELSE clients.client_pkts[t]
    /\ clients'.live = IF Clears(a, exp) THEN clients.live \ ToSet(clients.client_pkts[a])
                       ELSE clients.live
    /\ got' = Forward(clients.client_pkts[a], a[2], seq = exp - 1)
    /\ ~in_client /\ UNCHANGED <<in_client, requests, next, pkts>>
    /\ todo' \subseteq todo \cup NewAnswers

\* A datagram belongs to the signature that app_server_in looks up.
LEMMA ServerDelivers ==
    ASSUME Typed, NEW a \in Sig, NEW exp \in 1 .. MaxDatagrams, NEW seq \in 0 .. exp - 1,
           IsDue(a), AppServerIn(a, seq, exp), Emit(a, seq, exp),
           IF seq = 0 THEN value = NoValue
           ELSE /\ value # NoValue /\ value.seq = seq - 1
                /\ clients.key_hold = a /\ clients.last_key = a,
           todo' \subseteq todo \cup NewAnswers
    PROVE  Delivery(a, seq, exp)
<1> DEFINE s == NamedBy(a, seq)
<1>1. /\ s \in Sig \cup {NoSig} /\ clients' = SteerDatagram(clients, s, exp)
      /\ LookedUp(clients, s) \in Sig =>
            Recipients(clients, s) = clients.client_pkts[LookedUp(clients, s)]
      /\ got' = Forward(Recipients(clients, s), a[2], seq = exp - 1)
      /\ ~in_client /\ UNCHANGED <<in_client, requests, next, pkts>>
  BY ServerFields
<1>2. a[2] # NoKey /\ a # NoSig
  BY MiddleboxAssumption, ClientMapAssumption
<1>3. s = IF seq = 0 THEN a ELSE NoSig
  BY <1>2 DEF NamedBy
<1> HIDE DEF s
<1>4. LookedUp(clients, s) = a
  BY <1>2, <1>3 DEF LookedUp
<1>5. got' = Forward(clients.client_pkts[a], a[2], seq = exp - 1)
  BY <1>1, <1>4
<1>6. s = NoSig => clients.key_hold = clients.last_key
  BY <1>2, <1>3
<1>7. clients \in ClientMapState /\ exp \in Nat
  BY ClientMapAssumption DEF Typed, ClientMapTypeOK
<1> DEFINE d == SteerDatagram(clients, s, exp)
           f == LookedUp(clients, s)
           counts == f \in Registered(clients) /\ clients.pkt_counts[f] < exp
           clears == f \in Registered(clients) /\ ~(clients.pkt_counts[f] < exp)
<1>8. /\ d.key_hold = (IF s = NoSig THEN clients.key_hold ELSE s)
      /\ d.last_key = (IF s # NoSig /\ exp > 1 THEN s ELSE clients.last_key)
      /\ \A t \in Sig : d.pkt_counts[t] =
            IF t = f /\ counts THEN clients.pkt_counts[t] + 1 ELSE clients.pkt_counts[t]
      /\ \A t \in Sig : d.client_pkts[t] =
            IF t = f /\ clears THEN NoChain ELSE clients.client_pkts[t]
      /\ d.live = IF clears THEN clients.live \ ToSet(clients.client_pkts[f])
                  ELSE clients.live
  BY <1>1, <1>6, <1>7, SteerFields
<1>9. f = a /\ (counts <=> Counts(a, exp)) /\ (clears <=> Clears(a, exp)) /\ clients' = d
  BY <1>1, <1>4 DEF Counts, Clears
<1> HIDE DEF d, f, counts, clears
<1>10. clients'.key_hold = a
  BY <1>2, <1>3, <1>8, <1>9
<1>11. seq < exp - 1 => clients'.last_key = a
  BY <1>2, <1>3, <1>8, <1>9, ClientMapAssumption
<1> QED
  BY <1>1, <1>5, <1>8, <1>9, <1>10, <1>11 DEF Delivery

LEMMA FirstDelivers ==
    ASSUME Inv, Typed, Steering, NEW a \in todo, NEW exp \in 1 .. MaxDatagrams,
           FirstDatagram(a, exp)
    PROVE  a \in Sig /\ 0 \in 0 .. exp - 1 /\ Delivery(a, 0, exp)
<1>1. a \in Sig /\ 0 \in 0 .. exp - 1
  BY ClientMapAssumption DEF Steering
<1>2. IsDue(a)
  BY DEF Inv, Environment
<1>3. /\ AppServerIn(a, 0, exp) /\ Emit(a, 0, exp) /\ value = NoValue
      /\ todo' \subseteq todo \cup NewAnswers
  BY DEF FirstDatagram, BeginAnswer
<1> QED
  BY <1>1, <1>2, <1>3, ServerDelivers

LEMMA NextDelivers ==
    ASSUME Inv, Typed, Steering, NextDatagram
    PROVE  \E a \in Sig, exp \in 1 .. MaxDatagrams : \E seq \in 0 .. exp - 1 :
              Delivery(a, seq, exp)
<1>1. PICK a, seq, exp :
          a = value.answer /\ seq = value.seq + 1 /\ exp = value.exp
  OBVIOUS
<1>2. /\ value # NoValue /\ AppServerIn(a, seq, exp) /\ Emit(a, seq, exp)
      /\ todo' \subseteq todo \cup NewAnswers
  BY <1>1 DEF NextDatagram
<1>3. IsPartial(value)
  BY <1>2 DEF Inv, Environment
<1>4. /\ IsDue(a) /\ exp \in 1 .. MaxDatagrams /\ seq \in 0 .. exp - 1
      /\ seq # 0 /\ value.seq = seq - 1
  BY <1>1, <1>3, ClientMapAssumption DEF IsPartial
<1>5. a \in Sig /\ clients.key_hold = a /\ clients.last_key = a
  BY <1>1, <1>2 DEF Steering, Continues
<1>6. Delivery(a, seq, exp)
  BY <1>2, <1>4, <1>5, ServerDelivers
<1> QED
  BY <1>4, <1>5, <1>6

\* memcached owes values only, each to a signature.
LEMMA NewAnswersSigned ==
    ASSUME Inv, Orderly, [BatchNext]_batchVars
    PROVE  NewAnswers \subseteq Sig
<1> DEFINE msg == batch'.memcached_pkt
<1> SUFFICES ASSUME NEW a \in NewAnswers PROVE a \in Sig
  OBVIOUS
<1>1. Keeps(batch, batch')
  BY StepKeeps DEF Inv, BatchTypeOK
<1>2. batch'.request_id # batch.request_id /\ a \in Answers(msg)
  BY DEF NewAnswers
<1>3. msg \in Message /\ msg.keys # << >>
  BY <1>1, <1>2 DEF Keeps
<1> HIDE DEF msg
<1>4. msg.req \in ReqId /\ msg.keys \in Seq(Key)
  BY <1>3 DEF Message
<1>5. ToSet(msg.keys) \subseteq Key /\ ToSet(msg.keys) # {}
  <2>1. 1 \in DOMAIN msg.keys
    BY <1>3, <1>4
  <2>2. \A i \in DOMAIN msg.keys : msg.keys[i] \in Key
    BY <1>4
  <2>3. msg.keys[1] \in ToSet(msg.keys)
    BY <2>1 DEF ToSet
  <2> QED
    BY <2>2, <2>3 DEF ToSet
<1>6. Answers(msg) = {msg.req} \X ToSet(msg.keys)
  BY <1>5 DEF Answers, Orderly
<1> QED
  BY <1>2, <1>4, <1>5, <1>6, MiddleboxAssumption

----------------------------------------------------------------------------
(* The steps of an orderly environment. *)

\* What a round of the loop in app_client_in does: a free mbuf holds the packet
\* and heads the chain of its key.
Registration(s, buf, old) ==
    /\ clients' = RegisterClient(clients, s, buf)
    /\ Entered(clients, clients', s, buf, old)
    /\ clients'.last_key = clients.last_key
    /\ \A t \in Sig : clients'.pkt_counts[t] = IF t = s THEN 1 ELSE clients.pkt_counts[t]
    /\ \A b \in Buf : pkts'[b] = IF b = buf THEN Len(requests) ELSE pkts[b]

LEMMA KeyRegisters ==
    ASSUME Inv, Typed, AppClientKey
    PROVE  LET s == <<batch.request_id, requests[Len(requests)][next]>>
           IN  \E buf \in Buf \ clients.live, old \in Sig \cup {NoSig} :
                  Registration(s, buf, old)
<1> DEFINE s == <<batch.request_id, requests[Len(requests)][next]>>
<1>1. PICK buf \in Buf \ clients.live :
         /\ clients' = RegisterClient(clients, s, buf)
         /\ pkts' = [pkts EXCEPT ![buf] = Len(requests)]
  BY KeyStep
<1>2. s \in Sig
  BY KeyFields
<1> HIDE DEF s
<1>3. clients \in ClientMapState /\ Covered(clients)
  BY DEF Typed, ClientMapTypeOK
<1> DEFINE d == RegisterClient(clients, s, buf)
<1>4. /\ d.key_hold = s /\ d.last_key = clients.last_key
      /\ \A t \in Sig : d.pkt_counts[t] = IF t = s THEN 1 ELSE clients.pkt_counts[t]
      /\ \E old \in Sig \cup {NoSig} : Entered(clients, d, s, buf, old)
  BY <1>2, <1>3, RegisterFields
<1> HIDE DEF d
<1>5. clients' = d
  BY <1>1 DEF d
<1>6. PICK old \in Sig \cup {NoSig} : Entered(clients, clients', s, buf, old)
  BY <1>4, <1>5
<1>7. \A b \in Buf : pkts'[b] = IF b = buf THEN Len(requests) ELSE pkts[b]
  BY <1>1 DEF Typed
<1>8. Registration(s, buf, old)
  BY <1>1, <1>4, <1>5, <1>6, <1>7 DEF Registration
<1> QED
  BY <1>8 DEF s

\* The old members of the chains after a registration.
LEMMA EnteredMembers ==
    ASSUME NEW m \in ClientMapState, NEW d, NEW s \in Sig, NEW buf \in Buf, NEW old,
           Entered(m, d, s, buf, old), NEW t \in Sig, NEW b, b \in ToSet(d.client_pkts[t])
    PROVE  (t = s /\ b = buf) \/ b \in ToSet(m.client_pkts[t])
<1>1. ToSet(Cons(buf, m.client_pkts[s])) = {buf} \cup ToSet(m.client_pkts[s])
  BY MapFields, ConsFields
<1>2. ToSet(NoChain) = {}
  BY DEF ToSet, NoChain
<1> QED
  BY <1>1, <1>2 DEF Entered

LEMMA DeliveryMembers ==
    ASSUME NEW a, NEW seq, NEW exp, Delivery(a, seq, exp),
           NEW t \in Sig, NEW b, b \in ToSet(clients'.client_pkts[t])
    PROVE  b \in ToSet(clients.client_pkts[t]) /\ ~(t = a /\ Clears(a, exp))
<1>1. ToSet(NoChain) = {}
  BY DEF ToSet, NoChain
<1> QED
  BY <1>1 DEF Delivery

\* Packets of clients only add to what was asked.
LEMMA AppendKeeps ==
    ASSUME NEW keys, requests' = Append(requests, keys), requests \in Seq(ClientRequests),
           NEW n \in 1 .. Len(requests)
    PROVE  requests'[n] = requests[n]
  OBVIOUS

LEMMA DeliverySteers ==
    ASSUME Typed, Steering, NEW a \in Sig, NEW exp \in 1 .. MaxDatagrams,
           NEW seq \in 0 .. exp - 1, Delivery(a, seq, exp), NewAnswers \subseteq Sig
    PROVE  Steering'
<1>1. clients \in ClientMapState /\ a # NoSig
  BY ClientMapAssumption DEF Typed, ClientMapTypeOK
<1>2. Exact(clients')
  <2>1. PICK q \in Sig \cup {NoSig} : q = IF Clears(a, exp) THEN a ELSE NoSig
    OBVIOUS
  <2>2. /\ \A t \in Sig : clients'.client_pkts[t] = IF t = q THEN NoChain
                                                    ELSE clients.client_pkts[t]
        /\ clients'.live = IF q = NoSig THEN clients.live
                           ELSE clients.live \ ToSet(clients.client_pkts[q])
    BY <1>1, <2>1, ClientMapAssumption DEF Delivery
  <2> QED
    BY <1>1, <2>2, DropExact DEF Steering
<1>3. Continues'
  <2>1. CASE seq = exp - 1
    BY <2>1 DEF Delivery, Emit, Continues
  <2>2. CASE seq # exp - 1
    <3>1. value' = [answer |-> a, seq |-> seq, exp |-> exp] /\ seq < exp - 1
      BY <2>2, ClientMapAssumption DEF Delivery, Emit
    <3>2. value'.answer = a
      BY <3>1
    <3> QED
      BY <3>1, <3>2 DEF Delivery, Continues
  <2> QED
    BY <2>1, <2>2
<1>4. (todo \subseteq Sig)'
  BY DEF Steering, Delivery
<1>5. Owed'
  <2> SUFFICES ASSUME NEW s \in Sig, NEW buf \in ToSet(clients'.client_pkts[s])
               PROVE  pkts'[buf] > 0 /\ Contains(requests'[pkts'[buf]], s[2])
    BY DEF Owed
  <2>1. buf \in ToSet(clients.client_pkts[s])
    BY DeliveryMembers
  <2> QED
    BY <2>1 DEF Steering, Owed, Delivery
<1>6. Steered'
  <2> DEFINE chain == clients.client_pkts[a]
             last == seq = exp - 1
  <2>1. chain \in Seq(Buf) /\ IsABag(got) /\ got' = Forward(chain, a[2], last)
    BY <1>1, MapFields DEF Typed, Delivery
  <2>2. \A buf \in ToSet(chain) : pkts[buf] > 0 /\ Contains(requests[pkts[buf]], a[2])
    BY DEF Steering, Owed
  <2> HIDE DEF chain, last
  <2>3. BagToSet(got') = BagToSet(got) \cup Copies(chain, a[2], last)
    BY <2>1, ForwardFields
  <2>4. \A d \in Copies(chain, a[2], last) : d[1] > 0 /\ Contains(requests[d[1]], d[2])
    BY <2>2 DEF Copies
  <2>5. UNCHANGED requests
    BY DEF Delivery
  <2> QED
    BY <2>3, <2>4, <2>5 DEF Steering, Steered
<1> QED
  BY <1>2, <1>3, <1>4, <1>5, <1>6 DEF Steering

LEMMA KeySteers ==
    ASSUME Inv, Typed, Steering, AppClientKey, NewAnswers \subseteq Sig
    PROVE  Steering'
<1> DEFINE k == requests[Len(requests)][next]
           s == <<batch.request_id, k>>
<1>1. PICK buf \in Buf \ clients.live, old \in Sig \cup {NoSig} : Registration(s, buf, old)
  BY KeyRegisters
<1>2. /\ Len(requests) \in Nat \ {0} /\ s \in Sig /\ s[2] = k
      /\ requests[Len(requests)] \in Seq(Key) /\ next \in 1 .. Len(requests[Len(requests)])
  BY KeyFields
<1>3. Contains(requests[Len(requests)], k)
  BY <1>2 DEF Contains
<1> HIDE DEF s, k
<1>4. clients \in ClientMapState
  BY DEF Typed, ClientMapTypeOK
<1>5. Exact(clients')
  BY <1>1, <1>2, <1>4, EnterExact DEF Steering, Registration
<1>6. /\ in_client /\ UNCHANGED <<requests, value, got>>
      /\ todo' = todo \cup NewAnswers
  BY Zenon DEF AppClientKey
<1>7. Continues'
  BY <1>6 DEF Steering, Continues
<1>8. (todo \subseteq Sig)'
  BY <1>6 DEF Steering
<1>9. Owed'
  <2> SUFFICES ASSUME NEW t \in Sig, NEW b \in ToSet(clients'.client_pkts[t])
               PROVE  pkts'[b] > 0 /\ Contains(requests[pkts'[b]], t[2])
    BY <1>6 DEF Owed
  <2>1. (t = s /\ b = buf) \/ b \in ToSet(clients.client_pkts[t])
    BY <1>1, <1>2, <1>4, EnteredMembers DEF Registration
  <2>2. CASE b \in ToSet(clients.client_pkts[t])
    <3>1. b \in Buf /\ b # buf
      BY <1>4, <2>2, ChainSet DEF Steering, Exact, Linked
    <3>2. pkts'[b] = pkts[b]
      BY <1>1, <3>1 DEF Registration
    <3> QED
      BY <2>2, <3>2 DEF Steering, Owed
  <2>3. CASE t = s /\ b = buf
    BY <1>1, <1>2, <1>3, <2>3 DEF Registration
  <2> QED
    BY <2>1, <2>2, <2>3
<1>10. Steered'
  BY <1>6 DEF Steering, Steered
<1> QED
  BY <1>5, <1>7, <1>8, <1>9, <1>10 DEF Steering

LEMMA ClientInSteers ==
    ASSUME Typed, Steering, Orderly, AppClientIn
    PROVE  Steering'
<1>1. PICK keys : requests' = Append(requests, keys)
  BY DEF AppClientIn
<1>2. value = NoValue /\ UNCHANGED <<clients, pkts, todo, value, got>>
  BY DEF AppClientIn, Orderly
<1>3. \A n \in 1 .. Len(requests) : requests'[n] = requests[n]
  BY <1>1, AppendKeeps DEF Typed
<1>4. Len(requests) \in Nat
  BY DEF Typed
<1>5. Owed'
  <2> SUFFICES ASSUME NEW s \in Sig, NEW buf \in ToSet(clients.client_pkts[s])
               PROVE  pkts[buf] > 0 /\ Contains(requests'[pkts[buf]], s[2])
    BY <1>2 DEF Owed
  <2>1. buf \in Buf
    BY ChainSet DEF Typed, ClientMapTypeOK
  <2>2. pkts[buf] \in 1 .. Len(requests)
    BY <1>4, <2>1 DEF Typed, Steering, Owed
  <2> QED
    BY <1>3, <2>2 DEF Steering, Owed
<1>6. Steered'
  <2> SUFFICES ASSUME NEW d \in BagToSet(got)
               PROVE  d[1] > 0 /\ Contains(requests'[d[1]], d[2])
    BY <1>2 DEF Steered
  <2>1. d[1] \in 1 .. Len(requests)
    BY <1>4 DEF Typed, Steering, Steered
  <2> QED
    BY <1>3, <2>1 DEF Steering, Steered
<1> QED
  BY <1>2, <1>5, <1>6 DEF Steering, Continues

LEMMA StepSteers ==
    ASSUME Inv, Typed, Steering, Orderly, [Next]_vars
    PROVE  Steering'
<1>1. NewAnswers \subseteq Sig
  BY StepIsBatchStep, NewAnswersSigned
<1>2. ASSUME todo' \subseteq todo \cup NewAnswers,
             UNCHANGED <<clients, requests, pkts, got>>,
             value' = NoValue \/ (UNCHANGED value /\ (in_client' => in_client))
                 \/ (/\ ~in_client' /\ value # NoValue /\ value'.answer = value.answer)
      PROVE  Steering'
  BY <1>1, <1>2 DEF Steering, Continues, Owed, Steered
<1>3. CASE AppClientIn
  BY <1>3, ClientInSteers
<1>4. CASE AppClientKey
  BY <1>1, <1>4, KeySteers
<1>5. ASSUME NEW a \in todo, NEW exp \in 1 .. MaxDatagrams, FirstDatagram(a, exp)
      PROVE  Steering'
  BY <1>1, <1>5, FirstDelivers, DeliverySteers
<1>6. CASE NextDatagram
  BY <1>1, <1>6, NextDelivers, DeliverySteers
<1>7. ASSUME NEW a \in todo, NEW exp \in 1 .. MaxDatagrams, LoseFirst(a, exp)
      PROVE  Steering'
  <2>1. exp = 1
    BY <1>7 DEF LoseFirst, Orderly
  <2>2. value' = NoValue
    BY <1>7, <2>1 DEF LoseFirst, BeginAnswer, Emit
  <2> QED
    BY <1>2, <1>7, <2>2 DEF LoseFirst
<1>8. CASE LoseNext
  <2>1. value' = NoValue \/ value'.answer = value.answer
    BY <1>8 DEF LoseNext, Emit
  <2> QED
    BY <1>2, <1>8, <2>1 DEF LoseNext
<1>9. CASE AppClientEnd
  BY <1>2, <1>9 DEF AppClientEnd, ClientEnd
<1>10. CASE PollRefresh
  BY <1>2, <1>10 DEF PollRefresh, Refresh
<1>11. CASE ClockTick
  BY <1>2, <1>11 DEF ClockTick, Tick, envVars
<1>12. CASE UNCHANGED vars
  BY <1>2, <1>12 DEF vars, envVars
<1> QED
  BY <1>3, <1>4, <1>5, <1>6, <1>7, <1>8, <1>9, <1>10, <1>11, <1>12 DEF Next

LEMMA InitSteers == Init => Steering
<1> SUFFICES ASSUME Init PROVE Steering
  OBVIOUS
<1>1. \A s \in Sig : clients.client_pkts[s] = NoChain
  BY Zenon DEF Init, ClientMapInit, InitClientMap
<1>2. clients.live = {}
  BY Zenon DEF Init, ClientMapInit, InitClientMap
<1>3. DOMAIN NoChain = {} /\ ToSet(NoChain) = {}
  BY DEF NoChain, ToSet
<1>4. Exact(clients) /\ Owed
  BY <1>1, <1>2, <1>3 DEF Exact, Disjoint, Linked, Owed
<1>5. BagToSet(got) = {} /\ value = NoValue /\ todo = {}
  BY DEF Init, EmptyBag, SetToBag, BagToSet
<1> QED
  BY <1>4, <1>5 DEF Steering, Continues, Steered

----------------------------------------------------------------------------
(* The chains, and who gets a value. *)

\* No entry leads to a freed packet, no packet stands in two chains, and every
\* packet kept can be reached (api.c:192-212, :246-310), in an orderly
\* environment with any number of clients, keys, mbufs and entries.
THEOREM ChainsStayLive ==
    ASSUME Orderly
    PROVE  Spec => [](ChainsAreLive /\ NoPacketLeaks)
<1>1. Typed /\ Steering => ChainsAreLive /\ NoPacketLeaks
  <2> SUFFICES ASSUME Typed, Steering PROVE ChainsAreLive /\ NoPacketLeaks
    OBVIOUS
  <2>1. /\ Exact(clients) /\ Registered(clients) \subseteq Sig
        /\ \A s \in Sig : ToSet(clients.client_pkts[s]) \subseteq Buf
    BY ChainSet, Zenon DEF Typed, ClientMapTypeOK, Steering, Registered
  <2>2. \A s \in Sig : \A b : b \in ToSet(clients.client_pkts[s]) => s \in Registered(clients)
    <3>1. ToSet(NoChain) = {}
      BY DEF ToSet, NoChain
    <3> QED
      BY <3>1 DEF Registered
  <2>3. Chained(clients) = Linked(clients.client_pkts)
    BY <2>1, <2>2 DEF Chained, Linked
  <2>4. \A s, t \in Registered(clients) :
          \A i \in DOMAIN clients.client_pkts[s], j \in DOMAIN clients.client_pkts[t] :
             clients.client_pkts[s][i] = clients.client_pkts[t][j] => s = t /\ i = j
    BY <2>1 DEF Exact, Disjoint
  <2> QED
    BY <2>1, <2>3, <2>4 DEF ChainsAreLive, NoPacketLeaks, Exact
<1> QED
  BY <1>1, InitInv, StepInv, InitTyped, StepTyped, InitSteers, StepSteers, PTL DEF Spec

\* No mbuf that the handlers keep is lost to the table, so that an answer or an
\* eviction frees it (api.c:247, 302).
THEOREM PacketsStayReachable ==
    ASSUME Orderly
    PROVE  Spec => []NoPacketLeaks
<1>1. Spec => [](ChainsAreLive /\ NoPacketLeaks)
  BY ChainsStayLive
<1> QED
  BY <1>1, PTL

\* README.md:3, no client is forwarded a datagram of a value that its packet did
\* not ask for, in an orderly environment.
THEOREM OnlyWhatWasAsked ==
    ASSUME Orderly
    PROVE  Spec => []Steered
<1>1. Steering => Steered
  BY DEF Steering
<1> QED
  BY <1>1, InitInv, StepInv, InitTyped, StepTyped, InitSteers, StepSteers, PTL DEF Spec

\* The steering half of the middlebox does what ClientMap says: the mbufs of a
\* chain are distinct, so that no chain outgrows the mempool.
THEOREM SteeringRefines ==
    ASSUME Orderly
    PROVE  Spec => ClientMapSpec
<1>1. Inv /\ Typed /\ Steering /\ [Next]_vars => [ClientMapNext]_clients
  <2> SUFFICES ASSUME Inv, Typed, Steering, [Next]_vars PROVE [ClientMapNext]_clients
    OBVIOUS
  <2>1. CASE AppClientKey
    <3> DEFINE s == <<batch.request_id, requests[Len(requests)][next]>>
    <3>1. PICK buf \in Buf \ clients.live : clients' = RegisterClient(clients, s, buf)
      BY <2>1, KeyStep
    <3>2. s \in Sig
      BY <2>1, KeyFields
    <3> HIDE DEF s
    <3>3. Len(clients.client_pkts[s]) < MaxChain
      BY <3>2, ChainLength DEF Typed, ClientMapTypeOK, Steering
    <3> QED
      BY <3>1, <3>2, <3>3, Zenon DEF Register, ClientMapNext
  <2>2. ASSUME NEW a, NEW seq, NEW exp \in 1 .. MaxDatagrams, IsDue(a),
               AppServerIn(a, seq, exp)
        PROVE  ClientMapNext
    <3> DEFINE s == NamedBy(a, seq)
    <3>1. s \in Sig \cup {NoSig} /\ clients' = SteerDatagram(clients, s, exp)
      BY <2>2, ServerFields
    <3> HIDE DEF s
    <3> QED
      BY <3>1, Zenon DEF Datagram, ClientMapNext
  <2>3. ASSUME NEW a \in todo, NEW exp \in 1 .. MaxDatagrams, FirstDatagram(a, exp)
        PROVE  ClientMapNext
    BY <2>2, <2>3 DEF FirstDatagram, Inv, Environment
  <2>4. CASE NextDatagram
    BY <2>2, <2>4 DEF NextDatagram, Inv, Environment, IsPartial
  <2>5. CASE UNCHANGED clients
    BY <2>5
  <2> QED
    BY <2>1, <2>3, <2>4, <2>5
       DEF Next, AppClientIn, AppClientEnd, LoseFirst, LoseNext, PollRefresh, ClockTick,
           vars
<1>2. Init => ClientMapInit
  BY DEF Init
<1> QED
  BY <1>1, <1>2, InitInv, StepInv, InitTyped, StepTyped, InitSteers, StepSteers, PTL
     DEF Spec, ClientMapSpec

----------------------------------------------------------------------------
(* How often a client gets a value. *)

\* No datagram is lost in the middle of a value: the count of the entry
\* (api.c:231-246) reaches the number of datagrams when the last one arrives.
NoGaps == "next" \notin Lost \/ MaxDatagrams <= 2

\* The packets of request n that wait for k, and the rounds of the loop for n
\* that asked for k so far.
Pending(n, k) ==
    {buf \in Buf : /\ pkts[buf] = n
                   /\ \E s \in Sig : s[2] = k /\ buf \in ToSet(clients.client_pkts[s])}
SoFar(n, k) ==
    {i \in DOMAIN requests[n] : requests[n][i] = k /\ (n = Len(requests) => i < next)}

\* An entry counts from one, and the datagrams of a value that arrived.
CountsArrived ==
    /\ \A s \in Registered(clients) : clients.pkt_counts[s] >= 1
    /\ value # NoValue /\ clients.last_key \in Registered(clients) =>
           clients.pkt_counts[clients.last_key] >= value.seq + 2

\* What a client got and what it still waits for is what it asked for.
Due ==
    \A n \in 1 .. Len(requests), k \in Key :
        Answered(n, k) + Cardinality(Pending(n, k)) <= Cardinality(SoFar(n, k))

LEMMA PendingFinite ==
    \A n, k : IsFiniteSet(Pending(n, k)) /\ Cardinality(Pending(n, k)) \in Nat
<1> SUFFICES ASSUME NEW n, NEW k
             PROVE  IsFiniteSet(Pending(n, k)) /\ Cardinality(Pending(n, k)) \in Nat
  OBVIOUS
<1>1. Pending(n, k) \in SUBSET Buf
  BY DEF Pending
<1> QED
  BY <1>1, MiddleboxAssumption, FS_Subset, FS_CardinalityType

LEMMA PositionsFinite ==
    ASSUME NEW keys \in Seq(Key), NEW k,
           NEW some \in SUBSET {i \in DOMAIN keys : keys[i] = k}
    PROVE  LET all == {i \in DOMAIN keys : keys[i] = k}
           IN  /\ IsFiniteSet(some) /\ Cardinality(some) \in Nat
               /\ Cardinality(some) <= Cardinality(all) /\ Cardinality(all) \in Nat
<1> DEFINE all == {i \in DOMAIN keys : keys[i] = k}
<1>1. DOMAIN keys = 1 .. Len(keys) /\ Len(keys) \in Nat
  OBVIOUS
<1>2. IsFiniteSet(DOMAIN keys)
  BY <1>1, FS_Interval
<1>3. all \in SUBSET DOMAIN keys
  OBVIOUS
<1>4. IsFiniteSet(all) /\ Cardinality(all) \in Nat
  BY <1>2, <1>3, FS_Subset, FS_CardinalityType
<1> HIDE DEF all
<1>5. IsFiniteSet(some) /\ Cardinality(some) <= Cardinality(all)
  BY <1>4, FS_Subset DEF all
<1> QED
  BY <1>4, <1>5, FS_CardinalityType DEF all

LEMMA SoFarFinite ==
    ASSUME requests \in Seq(Seq(Key) \ {<< >>}), NEW n \in 1 .. Len(requests), NEW k
    PROVE  /\ IsFiniteSet(SoFar(n, k)) /\ Cardinality(SoFar(n, k)) \in Nat
           /\ Cardinality(SoFar(n, k)) <= Asked(n, k) /\ Asked(n, k) \in Nat
<1>1. requests[n] \in Seq(Key)
  OBVIOUS
<1>2. SoFar(n, k) \in SUBSET {i \in DOMAIN requests[n] : requests[n][i] = k}
  BY DEF SoFar
<1> QED
  BY <1>1, <1>2, PositionsFinite DEF Asked

LEMMA AnsweredType == IsABag(got) => \A n, k : Answered(n, k) \in Nat
  BY DEF IsABag, Answered, BagIn, BagToSet

\* The places of a chain without repetition are its packets.
LEMMA PlacesCount ==
    ASSUME NEW chain \in Seq(Buf), NEW n,
           \A i, j \in DOMAIN chain : chain[i] = chain[j] => i = j
    PROVE  Cardinality({buf \in ToSet(chain) : pkts[buf] = n}) = Cardinality(Places(chain, n))
<1> DEFINE here == {buf \in ToSet(chain) : pkts[buf] = n}
           f == [i \in Places(chain, n) |-> chain[i]]
<1>1. \A i \in Places(chain, n) : i \in DOMAIN chain /\ f[i] = chain[i] /\ f[i] \in here
  BY DEF Places, ToSet
<1>2. \A buf \in here : \E i \in Places(chain, n) : f[i] = buf
  BY DEF Places, ToSet
<1>3. f \in [Places(chain, n) -> here]
  BY <1>1
<1> HIDE DEF f, here
<1>4. f \in Bijection(Places(chain, n), here)
  BY <1>1, <1>2, <1>3 DEF Bijection, Injection, Surjection, IsInjective
<1>5. IsFiniteSet(Places(chain, n))
  BY PlacesFinite
<1>6. ExistsBijection(Places(chain, n), here)
  BY <1>4 DEF ExistsBijection
<1> QED
  BY <1>5, <1>6, FS_Bijection DEF here

\* The last datagram of a value clears the entry of its key.
LEMMA LastClears ==
    ASSUME Typed, CountsArrived, NEW a \in Sig, NEW exp \in 1 .. MaxDatagrams,
           Delivery(a, exp - 1, exp), a \in Registered(clients)
    PROVE  Clears(a, exp)
<1>1. clients.pkt_counts[a] \in Nat
  BY MapFields, ClientMapAssumption DEF Typed, ClientMapTypeOK
<1>2. clients.pkt_counts[a] >= exp
  BY <1>1, ClientMapAssumption DEF CountsArrived, Delivery
<1> QED
  BY <1>1, <1>2, ClientMapAssumption DEF Clears

LEMMA DeliveryDue ==
    ASSUME Inv, Typed, Steering, Due, CountsArrived, NEW a \in Sig,
           NEW exp \in 1 .. MaxDatagrams, NEW seq \in 0 .. exp - 1, Delivery(a, seq, exp)
    PROVE  Due'
<1> DEFINE chain == clients.client_pkts[a]
           last == seq = exp - 1
<1>1. chain \in Seq(Buf) /\ IsABag(got) /\ got' = Forward(chain, a[2], last)
  BY MapFields DEF Typed, ClientMapTypeOK, Delivery
<1>2. UNCHANGED <<requests, next, pkts>>
  BY DEF Delivery
<1>3. \A i, j \in DOMAIN chain : chain[i] = chain[j] => i = j
  BY DEF Steering, Exact, Disjoint
<1>4. ToSet(chain) \subseteq Buf
  BY ChainSet DEF Typed, ClientMapTypeOK
<1>5. last => ToSet(chain) = {} \/ Clears(a, exp)
  <2>1. ToSet(NoChain) = {}
    BY DEF ToSet, NoChain
  <2> QED
    BY <2>1, LastClears DEF Registered
<1>6. \A t \in Sig : \A b : b \in ToSet(clients'.client_pkts[t]) =>
         b \in ToSet(clients.client_pkts[t]) /\ ~(t = a /\ Clears(a, exp))
  BY DeliveryMembers
<1>7. \A t \in Sig : \A b : t # a /\ b \in ToSet(clients.client_pkts[t]) => b \notin ToSet(chain)
  BY DisjointSets DEF Steering, Exact
<1> SUFFICES ASSUME NEW n \in 1 .. Len(requests), NEW k \in Key
             PROVE  Answered(n, k)' + Cardinality(Pending(n, k)') <= Cardinality(SoFar(n, k)')
  BY <1>2 DEF Due
<1>8. UNCHANGED SoFar(n, k)
  BY <1>2 DEF SoFar
<1>9. Answered(n, k) + Cardinality(Pending(n, k)) <= Cardinality(SoFar(n, k))
  BY DEF Due
<1>10. Pending(n, k)' \in SUBSET Pending(n, k)
  BY <1>2, <1>6 DEF Pending
<1>11. /\ IsFiniteSet(Pending(n, k)) /\ Cardinality(Pending(n, k)) \in Nat
       /\ IsFiniteSet(Pending(n, k)') /\ Cardinality(Pending(n, k)') \in Nat
       /\ Cardinality(Pending(n, k)') <= Cardinality(Pending(n, k))
  BY <1>10, PendingFinite, FS_Subset, FS_CardinalityType
<1>12. /\ \A m : LET d == <<m, a[2], last>>
                 IN  (IF BagIn(d, got') THEN got'[d] ELSE 0)
                        = (IF BagIn(d, got) THEN got[d] ELSE 0) + Cardinality(Places(chain, m))
       /\ BagToSet(got') = BagToSet(got) \cup Copies(chain, a[2], last)
       /\ \A d \in BagToSet(got) : d \notin Copies(chain, a[2], last) => got'[d] = got[d]
  BY <1>1, ForwardFields
<1>13. Answered(n, k) \in Nat
  BY <1>1, AnsweredType
<1>14. Cardinality(SoFar(n, k)) \in Nat
  BY SoFarFinite DEF Inv, Environment
<1>15. CASE last /\ k = a[2]
  <2> DEFINE here == {buf \in ToSet(chain) : pkts[buf] = n}
  <2>1. Answered(n, k)' = Answered(n, k) + Cardinality(Places(chain, n))
    <3> DEFINE d == <<n, a[2], last>>
    <3>1. d = <<n, k, TRUE>>
      BY <1>15
    <3>2. (IF BagIn(d, got') THEN got'[d] ELSE 0)
              = (IF BagIn(d, got) THEN got[d] ELSE 0) + Cardinality(Places(chain, n))
      BY <1>12
    <3> HIDE DEF d
    <3> QED
      BY <3>1, <3>2 DEF Answered
  <2>2. Cardinality(here) = Cardinality(Places(chain, n))
    BY <1>1, <1>3, PlacesCount
  <2>3. here \subseteq Pending(n, k)
    BY <1>4, <1>15 DEF Pending
  <2>4. Pending(n, k)' \cap here = {}
    BY <1>2, <1>5, <1>6, <1>7, <1>15 DEF Pending
  <2> HIDE DEF here
  <2>5. Pending(n, k)' \in SUBSET (Pending(n, k) \ here) /\ Pending(n, k) \cap here = here
    BY <1>10, <2>3, <2>4
  <2>6. /\ IsFiniteSet(Pending(n, k) \ here)
        /\ Cardinality(Pending(n, k) \ here) = Cardinality(Pending(n, k)) - Cardinality(here)
    BY <1>11, <2>5, FS_Difference
  <2>7. Cardinality(Pending(n, k)') <= Cardinality(Pending(n, k)) - Cardinality(here)
    BY <2>5, <2>6, FS_Subset
  <2>8. IsFiniteSet(here) /\ Cardinality(here) \in Nat
    BY <1>11, <2>3, FS_Subset, FS_CardinalityType
  <2> QED
    BY <1>8, <1>9, <1>11, <1>13, <1>14, <2>1, <2>2, <2>7, <2>8
<1>16. CASE ~(last /\ k = a[2])
  <2> DEFINE d == <<n, k, TRUE>>
  <2>1. d \notin Copies(chain, a[2], last)
    BY <1>16 DEF Copies
  <2> HIDE DEF d
  <2>2. (d \in BagToSet(got') <=> d \in BagToSet(got)) /\ (d \in BagToSet(got) => got'[d] = got[d])
    BY <1>12, <2>1
  <2>3. Answered(n, k)' = Answered(n, k)
    BY <2>2 DEF Answered, BagIn, d
  <2> QED
    BY <1>8, <1>9, <1>11, <1>13, <1>14, <2>3
<1> QED
  BY <1>15, <1>16

LEMMA DeliveryCounts ==
    ASSUME Typed, Steering, CountsArrived, NEW a \in Sig,
           NEW exp \in 1 .. MaxDatagrams, NEW seq \in 0 .. exp - 1, Delivery(a, seq, exp)
    PROVE  CountsArrived'
<1>1. \A s \in Sig : clients.pkt_counts[s] \in Nat
  BY MapFields, ClientMapAssumption DEF Typed, ClientMapTypeOK
<1>2. \A s \in Sig : s \in Registered(clients)' => s \in Registered(clients)
                        /\ ~(s = a /\ Clears(a, exp))
  BY Zenon DEF Registered, Delivery
<1>3. \A s \in Sig : clients'.pkt_counts[s] =
         IF s = a /\ Counts(a, exp) THEN clients.pkt_counts[s] + 1 ELSE clients.pkt_counts[s]
  BY DEF Delivery
<1>4. Registered(clients)' \subseteq Sig
  BY DEF Registered
<1>5. \A s \in Registered(clients)' : clients'.pkt_counts[s] >= 1
  BY <1>1, <1>2, <1>3, <1>4 DEF CountsArrived
<1>6. ASSUME value' # NoValue, clients'.last_key \in Registered(clients)'
      PROVE  clients'.pkt_counts[clients'.last_key] >= value'.seq + 2
  <2>1. seq < exp - 1 /\ value' = [answer |-> a, seq |-> seq, exp |-> exp]
    BY <1>6, ClientMapAssumption DEF Delivery, Emit
  <2>2. clients'.last_key = a /\ value'.seq = seq
    BY <2>1 DEF Delivery
  <2>3. a \in Registered(clients) /\ ~Clears(a, exp)
    BY <1>2, <1>6, <2>2
  <2>4. clients'.pkt_counts[a] = clients.pkt_counts[a] + 1
    BY <1>3, <2>3 DEF Clears, Counts
  <2>5. clients.pkt_counts[a] >= seq + 1
    BY <1>1, <2>3, ClientMapAssumption DEF CountsArrived, Delivery
  <2> QED
    BY <1>1, <2>2, <2>4, <2>5, ClientMapAssumption
<1> QED
  BY <1>5, <1>6 DEF CountsArrived

LEMMA KeyDue ==
    ASSUME Inv, Typed, Steering, Due, AppClientKey
    PROVE  Due'
<1> DEFINE request == Len(requests)
           key == requests[request][next]
           s == <<batch.request_id, key>>
<1>1. PICK buf \in Buf \ clients.live, old \in Sig \cup {NoSig} : Registration(s, buf, old)
  BY KeyRegisters
<1>2. /\ request \in Nat \ {0} /\ s \in Sig /\ s[2] = key
      /\ requests[request] \in Seq(Key) /\ next \in 1 .. Len(requests[request])
      /\ Len(requests[request]) \in Nat
  BY KeyFields
<1>3. next' = next + 1 /\ UNCHANGED <<requests, got>>
  BY Zenon DEF AppClientKey
<1>4. clients \in ClientMapState
  BY DEF Typed, ClientMapTypeOK
<1>5. \A t \in Sig : \A b : b \in ToSet(clients'.client_pkts[t]) =>
         (t = s /\ b = buf) \/ b \in ToSet(clients.client_pkts[t])
  <2>1. Entered(clients, clients', s, buf, old) /\ s \in Sig
    BY <1>1, <1>2 DEF Registration
  <2> HIDE DEF s, request, key
  <2> QED
    BY <1>4, <2>1, EnteredMembers
<1>6. \A b \in Buf : pkts'[b] = IF b = buf THEN request ELSE pkts[b]
  BY <1>1 DEF Registration
<1>7. \A t \in Sig : buf \notin ToSet(clients.client_pkts[t])
  BY DEF Steering, Exact, Linked
<1> SUFFICES ASSUME NEW n \in 1 .. Len(requests), NEW k \in Key
             PROVE  Answered(n, k)' + Cardinality(Pending(n, k)') <= Cardinality(SoFar(n, k)')
  BY <1>3 DEF Due
<1>8. Answered(n, k)' = Answered(n, k) /\ Answered(n, k) \in Nat
  BY <1>3, AnsweredType DEF Answered, Typed
<1>9. Answered(n, k) + Cardinality(Pending(n, k)) <= Cardinality(SoFar(n, k))
  BY DEF Due
<1>10. /\ IsFiniteSet(Pending(n, k)) /\ Cardinality(Pending(n, k)) \in Nat
       /\ IsFiniteSet(SoFar(n, k)) /\ Cardinality(SoFar(n, k)) \in Nat
  BY PendingFinite, SoFarFinite DEF Inv, Environment
<1>11. DOMAIN requests[request] = 1 .. Len(requests[request])
  BY <1>2
<1> HIDE DEF request, s, key
<1>12. CASE n = request /\ k = key
  <2>1. Pending(n, k)' \in SUBSET (Pending(n, k) \cup {buf})
    BY <1>5, <1>6 DEF Pending
  <2>2. SoFar(n, k)' = SoFar(n, k) \cup {next}
    BY <1>2, <1>3, <1>11, <1>12 DEF SoFar, request, key
  <2>3. next \notin SoFar(n, k)
    BY <1>2, <1>12 DEF SoFar, request
  <2>4. /\ IsFiniteSet(Pending(n, k) \cup {buf})
        /\ Cardinality(Pending(n, k) \cup {buf}) <= Cardinality(Pending(n, k)) + 1
        /\ Cardinality(Pending(n, k) \cup {buf}) \in Nat
    <3>1. /\ IsFiniteSet(Pending(n, k) \cup {buf})
          /\ Cardinality(Pending(n, k) \cup {buf}) =
                IF buf \in Pending(n, k) THEN Cardinality(Pending(n, k))
                ELSE Cardinality(Pending(n, k)) + 1
      BY <1>10, FS_AddElement
    <3> QED
      BY <1>10, <3>1
  <2>5. /\ Cardinality(Pending(n, k)') <= Cardinality(Pending(n, k) \cup {buf})
        /\ Cardinality(Pending(n, k)') \in Nat
    BY <2>1, <2>4, FS_Subset, FS_CardinalityType
  <2>6. Cardinality(SoFar(n, k)') = Cardinality(SoFar(n, k)) + 1
    BY <1>10, <2>2, <2>3, FS_AddElement
  <2> QED
    BY <1>8, <1>9, <1>10, <2>4, <2>5, <2>6
<1>13. CASE ~(n = request /\ k = key)
  <2>1. Pending(n, k)' \in SUBSET Pending(n, k)
    <3> SUFFICES ASSUME NEW b \in Buf, pkts'[b] = n, NEW t \in Sig, t[2] = k,
                        b \in ToSet(clients'.client_pkts[t])
                 PROVE  b \in Pending(n, k)
      BY DEF Pending
    <3>1. b \in ToSet(clients.client_pkts[t])
      BY <1>2, <1>5, <1>6, <1>13
    <3>2. pkts[b] = n
      BY <1>6, <1>7, <3>1
    <3> QED
      BY <3>1, <3>2 DEF Pending
  <2>2. SoFar(n, k)' = SoFar(n, k)
    <3>1. CASE n = request
      <4>1. k # key
        BY <1>13, <3>1
      <4>2. \A i \in DOMAIN requests[request] :
               requests[request][i] = k => (i < next <=> i < next + 1)
        BY <1>2, <1>11, <4>1 DEF request, key
      <4> QED
        BY <1>3, <3>1, <4>2 DEF SoFar, request
    <3>2. CASE n # request
      BY <1>3, <3>2 DEF SoFar, request
    <3> QED
      BY <3>1, <3>2
  <2>3. /\ Cardinality(Pending(n, k)') <= Cardinality(Pending(n, k))
        /\ Cardinality(Pending(n, k)') \in Nat
    BY <1>10, <2>1, FS_Subset, FS_CardinalityType
  <2> QED
    BY <1>8, <1>9, <1>10, <2>2, <2>3
<1> QED
  BY <1>12, <1>13

LEMMA KeyCounts ==
    ASSUME Inv, Typed, Steering, CountsArrived, AppClientKey
    PROVE  CountsArrived'
<1> DEFINE s == <<batch.request_id, requests[Len(requests)][next]>>
<1>1. PICK buf \in Buf \ clients.live, old \in Sig \cup {NoSig} : Registration(s, buf, old)
  BY KeyRegisters
<1>2. value = NoValue /\ UNCHANGED value
  BY Zenon DEF AppClientKey, Steering, Continues
<1> HIDE DEF s
<1>3. \A t \in Sig : t \in Registered(clients)' => t = s \/ t \in Registered(clients)
  BY <1>1, Zenon DEF Registration, Entered, Registered
<1>4. \A t \in Sig : clients'.pkt_counts[t] = IF t = s THEN 1 ELSE clients.pkt_counts[t]
  BY <1>1 DEF Registration
<1>5. Registered(clients)' \subseteq Sig
  BY DEF Registered
<1> QED
  BY <1>2, <1>3, <1>4, <1>5 DEF CountsArrived

LEMMA ClientInDue ==
    ASSUME Inv, Typed, Due, AppClientIn
    PROVE  Due'
<1>1. PICK keys \in ClientRequests : requests' = Append(requests, keys)
  BY DEF AppClientIn
<1>2. UNCHANGED <<clients, pkts, got>> /\ next' = 1
  BY DEF AppClientIn
<1>3. \A n \in 1 .. Len(requests) : requests'[n] = requests[n]
  BY <1>1, AppendKeeps DEF Typed
<1>4. Len(requests) \in Nat /\ Len(requests') = Len(requests) + 1
  BY <1>1 DEF Typed
<1>5. \A n \in 1 .. Len(requests') : requests'[n] \in Seq(Key)
  BY <1>1, MiddleboxAssumption DEF Inv, Environment
<1> SUFFICES ASSUME NEW n \in 1 .. Len(requests'), NEW k \in Key
             PROVE  Answered(n, k) + Cardinality(Pending(n, k)) <= Cardinality(SoFar(n, k)')
  BY <1>2 DEF Due, Answered, Pending
<1>6. IsFiniteSet(SoFar(n, k)') /\ Cardinality(SoFar(n, k)') \in Nat
  <2>1. SoFar(n, k)' \in SUBSET {i \in DOMAIN requests'[n] : requests'[n][i] = k}
    BY DEF SoFar
  <2> QED
    BY <1>5, <2>1, PositionsFinite
<1>7. CASE n \in 1 .. Len(requests)
  <2>1. Answered(n, k) + Cardinality(Pending(n, k)) <= Cardinality(SoFar(n, k))
    BY <1>7 DEF Due
  <2>2. SoFar(n, k) \in SUBSET SoFar(n, k)'
    BY <1>3, <1>4, <1>7 DEF SoFar
  <2>3. Cardinality(SoFar(n, k)) <= Cardinality(SoFar(n, k)') /\ Cardinality(SoFar(n, k)) \in Nat
    BY <1>6, <2>2, FS_Subset, FS_CardinalityType
  <2>4. Answered(n, k) \in Nat /\ Cardinality(Pending(n, k)) \in Nat
    BY AnsweredType, PendingFinite DEF Typed
  <2> QED
    BY <1>6, <2>1, <2>3, <2>4
<1>8. CASE n = Len(requests) + 1
  <2>1. Answered(n, k) = 0
    <3>1. \A d \in BagToSet(got) : d[1] \in 0 .. Len(requests)
      BY DEF Typed
    <3>2. <<n, k, TRUE>> \notin BagToSet(got)
      BY <1>4, <1>8, <3>1
    <3> QED
      BY <3>2 DEF Answered, BagIn
  <2>2. Pending(n, k) = {}
    BY <1>4, <1>8 DEF Pending, Typed
  <2> QED
    BY <1>6, <2>1, <2>2, FS_EmptySet
<1> QED
  BY <1>4, <1>7, <1>8

LEMMA StepDue ==
    ASSUME Inv, Typed, Steering, Due, CountsArrived, Orderly, NoGaps, [Next]_vars
    PROVE  Due' /\ CountsArrived'
<1>1. ASSUME UNCHANGED <<clients, requests, next, pkts, got>>,
             value' = NoValue \/ UNCHANGED value
      PROVE  Due' /\ CountsArrived'
  BY <1>1 DEF Due, CountsArrived, Answered, Pending, SoFar, Registered
<1>2. CASE AppClientIn
  <2>1. UNCHANGED <<clients, value>>
    BY <1>2 DEF AppClientIn
  <2> QED
    BY <1>2, <2>1, ClientInDue DEF CountsArrived, Registered
<1>3. CASE AppClientKey
  BY <1>3, KeyDue, KeyCounts
<1>4. ASSUME NEW a \in todo, NEW exp \in 1 .. MaxDatagrams, FirstDatagram(a, exp)
      PROVE  Due' /\ CountsArrived'
  BY <1>4, FirstDelivers, DeliveryDue, DeliveryCounts
<1>5. CASE NextDatagram
  BY <1>5, NextDelivers, DeliveryDue, DeliveryCounts
<1>6. ASSUME NEW a \in todo, NEW exp \in 1 .. MaxDatagrams, LoseFirst(a, exp)
      PROVE  Due' /\ CountsArrived'
  <2>1. exp = 1
    BY <1>6 DEF LoseFirst, Orderly
  <2>2. value' = NoValue
    BY <1>6, <2>1 DEF LoseFirst, BeginAnswer, Emit
  <2> QED
    BY <1>1, <1>6, <2>2 DEF LoseFirst
<1>7. CASE LoseNext
  <2>1. MaxDatagrams <= 2 /\ value # NoValue
    BY <1>7 DEF LoseNext, NoGaps
  <2>2. IsPartial(value)
    BY <2>1 DEF Inv, Environment
  <2>3. value.seq + 1 = value.exp - 1
    BY <2>1, <2>2, ClientMapAssumption DEF IsPartial
  <2>4. value' = NoValue
    BY <1>7, <2>3 DEF LoseNext, Emit
  <2> QED
    BY <1>1, <1>7, <2>4 DEF LoseNext
<1>8. CASE AppClientEnd
  BY <1>1, <1>8 DEF AppClientEnd
<1>9. CASE PollRefresh
  BY <1>1, <1>9 DEF PollRefresh
<1>10. CASE ClockTick
  BY <1>1, <1>10 DEF ClockTick, envVars
<1>11. CASE UNCHANGED vars
  BY <1>1, <1>11 DEF vars, envVars
<1> QED
  BY <1>2, <1>3, <1>4, <1>5, <1>6, <1>7, <1>8, <1>9, <1>10, <1>11 DEF Next

LEMMA InitDue == Init => Due /\ CountsArrived
<1> SUFFICES ASSUME Init PROVE Due /\ CountsArrived
  OBVIOUS
<1>1. requests = << >> /\ value = NoValue
  BY DEF Init
<1>2. \A s \in Sig : clients.client_pkts[s] = NoChain
  BY Zenon DEF Init, ClientMapInit, InitClientMap
<1> QED
  BY <1>1, <1>2 DEF Due, CountsArrived, Registered

\* No client gets the last datagram of a value more often than its packet asks for
\* the key, although ids are reused: an entry is cleared by that datagram
\* (api.c:241-247), and the packets of its chain were owed that answer. A first
\* datagram may come again if the tail of its value was lost.
THEOREM NoAnswerTwice ==
    ASSUME Orderly, NoGaps
    PROVE  Spec => []NotAnsweredTwice
<1>1. Inv /\ Typed /\ Due => NotAnsweredTwice
  <2> SUFFICES ASSUME Inv, Typed, Due, NEW n \in 1 .. Len(requests), NEW k \in Key
               PROVE  Answered(n, k) <= Asked(n, k)
    BY DEF NotAnsweredTwice
  <2>1. /\ Cardinality(SoFar(n, k)) \in Nat /\ Asked(n, k) \in Nat
        /\ Cardinality(SoFar(n, k)) <= Asked(n, k)
    BY SoFarFinite DEF Inv, Environment
  <2>2. Answered(n, k) \in Nat /\ Cardinality(Pending(n, k)) \in Nat
    BY AnsweredType, PendingFinite DEF Typed
  <2> QED
    BY <2>1, <2>2 DEF Due
<1> QED
  BY <1>1, InitInv, StepInv, InitTyped, StepTyped, InitSteers, StepSteers,
     InitDue, StepDue, PTL DEF Spec

----------------------------------------------------------------------------
(* Every entry waits for something. *)

\* All keys together fit into one message, so that no key is kept back for a
\* message with another id than the one it is registered under (api.c:79-81).
OneMessage == \A keys \in Seq(Key) : IsInjective(keys) => WireLength(keys) <= MAX_PAYLOAD_LEN

\* From b to d a key that waits goes on waiting under the same id, or leaves
\* under it.
Passes(b, d) ==
    \A k : Contains(b.ukey, k) =>
        \/ d.request_id = b.request_id /\ Contains(d.ukey, k)
        \/ /\ d.request_id # b.request_id
           /\ d.memcached_pkt.req = b.request_id /\ Contains(d.memcached_pkt.keys, k)

LEMMA PassesAfter ==
    ASSUME NEW b, NEW c, NEW d, Passes(c, d), c.ukey = b.ukey, c.request_id = b.request_id
    PROVE  Passes(b, d)
  BY DEF Passes

LEMMA NextIdDiffers ==
    ASSUME NEW r \in ReqId
    PROVE  (r + 1) % MAX_REQ_ID # r
<1>1. r \in Nat /\ r < MAX_REQ_ID /\ MAX_REQ_ID \in Nat /\ MAX_REQ_ID > 1
  BY BatchAssumption DEF ReqId
<1>2. CASE r + 1 = MAX_REQ_ID
  BY <1>1, <1>2
<1>3. CASE r + 1 < MAX_REQ_ID
  BY <1>1, <1>3
<1> QED
  BY <1>1, <1>2, <1>3

LEMMA PassesAll ==
    ASSUME NEW b \in BatchState
    PROVE  Passes(b, construct_pkt_and_send_to_server(b, FALSE))
<1> DEFINE d == construct_pkt_and_send_to_server(b, FALSE)
<1>1. CASE b.ukey = NoKeys
  BY <1>1 DEF construct_pkt_and_send_to_server, Passes
<1>2. CASE b.ukey # NoKeys
  <2>1. /\ d.memcached_pkt.req = b.request_id /\ d.memcached_pkt.keys = b.ukey
        /\ d.request_id = (b.request_id + 1) % MAX_REQ_ID
    BY <1>2, DispatchFields DEF construct_pkt_and_send_to_server
  <2> HIDE DEF d
  <2>2. d.request_id # b.request_id
    BY <2>1, Fields, NextIdDiffers
  <2> QED
    BY <2>1, <2>2 DEF Passes, d
<1> QED
  BY <1>1, <1>2

LEMMA SendIfIdlePasses ==
    ASSUME NEW b \in BatchState
    PROVE  Passes(b, SendIfIdle(b))
  BY PassesAll DEF SendIfIdle, Passes

LEMMA CountReplyPasses ==
    ASSUME NEW b \in BatchState, NEW r \in ReqId, NEW seq \in SeqId
    PROVE  Passes(b, CountReply(b, r, seq))
<1> DEFINE counted == [b EXCEPT !.keys_rcvd[r] = b.keys_rcvd[r] + 1]
<1>1. Passes(b, counted) /\ Passes(b, b)
  BY Zenon DEF Passes, BatchState
<1>2. Fulfilled(b, r) \in BatchState => Passes(b, SendIfIdle(Fulfilled(b, r)))
  BY FulfilledFields, SendIfIdlePasses, PassesAfter
<1>3. \A c, d : SameFields(c, d) /\ Passes(b, d) => Passes(b, c)
  BY DEF Passes, SameFields
<1> QED
  BY <1>1, <1>2, <1>3, CountReplyCases

\* A key that a round of the loop inserts waits under the id it is registered with.
LEMMA BatchKeyPasses ==
    ASSUME NEW b \in BatchState, NEW k \in Key, Fits(b), NoDup(b), OneMessage
    PROVE  LET d == BatchKey(b, k)
           IN  /\ d.request_id = b.request_id /\ Contains(d.ukey, k)
               /\ \A q : Contains(b.ukey, q) => Contains(d.ukey, q)
<1> DEFINE c == insert_ukey_group(b, k)
<1>1. c \in BatchState /\ Sized(c) /\ NoDup(c)
  BY InsertType, InsertSized, InsertNoDup DEF Fits
<1>2. /\ c.ukey = IF Contains(b.ukey, k) THEN b.ukey ELSE Append(b.ukey, k)
      /\ c.request_id = b.request_id
  BY InsertFields
<1>3. Contains(c.ukey, k) /\ \A q : Contains(b.ukey, q) => Contains(c.ukey, q)
  BY <1>2, Fields DEF Contains
<1>4. ~IsFull(c)
  BY <1>1, Fields, FitsUnlessFull DEF NoDup, OneMessage
<1>5. BatchKey(b, k) = c
  BY <1>4 DEF BatchKey
<1> QED
  BY <1>2, <1>3, <1>5

LEMMA StepPasses ==
    ASSUME BatchTypeOK, Fits(batch), NoDup(batch), OneMessage, [BatchNext]_batchVars
    PROVE  Passes(batch, batch')
<1>1. Passes(batch, batch)
  BY DEF Passes
<1>2. batch \in BatchState
  BY DEF BatchTypeOK
<1>3. CASE ClientIn
  BY <1>1, <1>3 DEF ClientIn
<1>4. ASSUME NEW k \in Key, ClientKey(k) PROVE Passes(batch, batch')
  BY <1>2, <1>4, BatchKeyPasses DEF ClientKey, Passes
<1>5. CASE ClientEnd
  BY <1>2, <1>5, SendIfIdlePasses DEF ClientEnd
<1>6. ASSUME NEW r \in ReqId, NEW seq \in SeqId, ServerReply(r, seq)
      PROVE  Passes(batch, batch')
  BY <1>2, <1>6, CountReplyPasses DEF ServerReply
<1>7. CASE Refresh
  <2> DEFINE c == Forgotten(batch)
  <2>1. batch' = construct_pkt_and_send_to_server(c, FALSE)
    BY <1>7, Zenon DEF Refresh, refresh_backlog, Forgotten
  <2>2. c \in BatchState /\ c.ukey = batch.ukey /\ c.request_id = batch.request_id
    BY <1>2, ForgottenType, ForgottenFields
  <2> HIDE DEF c
  <2> QED
    BY <2>1, <2>2, PassesAll, PassesAfter
<1>8. CASE Tick
  BY <1>2, <1>8, Zenon DEF Tick, Passes, BatchState
<1>9. CASE UNCHANGED batchVars
  BY <1>1, <1>9 DEF batchVars
<1> QED
  BY <1>3, <1>4, <1>5, <1>6, <1>7, <1>8, <1>9 DEF BatchNext

\* A signature whose key waits under its id, or that memcached owes a value for.
Waits(s) == s[1] = batch.request_id /\ Contains(batch.ukey, s[2])

\* A key that waited still waits, or memcached owes its value now.
LEMMA WaitsOrOwed ==
    ASSUME Inv, Orderly, Fits(batch), NoDup(batch), OneMessage,
           [BatchNext]_batchVars, NEW s \in Sig, Waits(s)
    PROVE  Waits(s)' \/ s \in NewAnswers
<1> DEFINE msg == batch'.memcached_pkt
<1>1. Passes(batch, batch')
  BY StepPasses DEF Inv
<1>2. CASE batch'.request_id = batch.request_id
  BY <1>1, <1>2 DEF Passes, Waits
<1>3. CASE batch'.request_id # batch.request_id
  <2>1. msg.req = s[1] /\ Contains(msg.keys, s[2])
    BY <1>1, <1>3 DEF Passes, Waits
  <2>2. Keeps(batch, batch')
    BY StepKeeps DEF Inv, BatchTypeOK
  <2>3. msg \in Message
    BY <1>3, <2>2 DEF Keeps
  <2>4. NewAnswers = Answers(msg)
    BY <1>3 DEF NewAnswers
  <2> HIDE DEF msg
  <2>5. msg.keys \in Seq(Key)
    BY <2>3 DEF Message
  <2>6. s[2] \in ToSet(msg.keys) /\ ToSet(msg.keys) \subseteq Key
    BY <2>1, <2>5 DEF Contains, ToSet
  <2>7. Answers(msg) = {msg.req} \X ToSet(msg.keys)
    BY <2>6 DEF Answers, Orderly
  <2>8. s = <<s[1], s[2]>>
    BY MiddleboxAssumption
  <2>9. s \in {msg.req} \X ToSet(msg.keys)
    BY <2>1, <2>6, <2>8
  <2> QED
    BY <2>4, <2>7, <2>9
<1> QED
  BY <1>2, <1>3

\* What memcached owes stays owed or is partly delivered, but for the answer
\* whose last datagram arrives.
LEMMA DeliveryAwaits ==
    ASSUME NEW a \in Sig, NEW exp \in 1 .. MaxDatagrams, NEW seq \in 0 .. exp - 1,
           Delivery(a, seq, exp), todo \ {a} \subseteq todo',
           value # NoValue => value.answer = a
    PROVE  /\ \A t \in Awaited : t # a => t \in Awaited'
           /\ seq # exp - 1 => a \in Awaited'
<1>1. \A t \in Awaited : t # a => t \in todo
  BY DEF Awaited
<1>2. CASE seq # exp - 1
  <2>1. value' = [answer |-> a, seq |-> seq, exp |-> exp] /\ seq < exp - 1
    BY <1>2, ClientMapAssumption DEF Delivery, Emit
  <2>2. value'.answer = a
    BY <2>1
  <2>3. value' # NoValue
    <3>1. a \in ReqId \X (Key \cup {NoKey}) /\ seq \in Nat /\ exp \in Nat
      BY ClientMapAssumption, MiddleboxAssumption
    <3> QED
      BY <2>1, <3>1, MiddleboxAssumption
  <2> QED
    BY <1>1, <2>2, <2>3 DEF Awaited
<1> QED
  BY <1>1, <1>2 DEF Awaited

LEMMA DeliveryWaits ==
    ASSUME Inv, Typed, CountsArrived, Orderly, Fits(batch), NoDup(batch), OneMessage,
           [BatchNext]_batchVars, EntriesAreAwaited,
           NEW a \in Sig, NEW exp \in 1 .. MaxDatagrams, NEW seq \in 0 .. exp - 1,
           Delivery(a, seq, exp), (todo \ {a}) \cup NewAnswers \subseteq todo',
           value # NoValue => value.answer = a
    PROVE  EntriesAreAwaited'
<1> SUFFICES ASSUME NEW s \in Registered(clients)'
             PROVE  Waits(s)' \/ s \in Awaited'
  BY DEF EntriesAreAwaited, Waits
<1>1. s \in Sig /\ s \in Registered(clients) /\ ~(s = a /\ Clears(a, exp))
  BY Zenon DEF Registered, Delivery
<1>2. CASE Waits(s)
  <2>1. Waits(s)' \/ s \in NewAnswers
    BY <1>1, <1>2, WaitsOrOwed
  <2> QED
    BY <2>1 DEF Awaited
<1>3. CASE s \in Awaited /\ s # a
  BY <1>3, DeliveryAwaits
<1>4. CASE s = a
  <2>1. seq # exp - 1
    BY <1>1, <1>4, LastClears
  <2> QED
    BY <1>4, <2>1, DeliveryAwaits
<1> QED
  BY <1>1, <1>2, <1>3, <1>4 DEF EntriesAreAwaited, Waits

LEMMA KeyWaits ==
    ASSUME Inv, Typed, Orderly, Fits(batch), NoDup(batch), OneMessage,
           EntriesAreAwaited, AppClientKey
    PROVE  EntriesAreAwaited'
<1>1. PICK k, s : k = requests[Len(requests)][next] /\ s = <<batch.request_id, k>>
  OBVIOUS
<1>2. k \in Key /\ s[1] = batch.request_id /\ s[2] = k
  BY <1>1, KeyFields
<1>3. batch' = BatchKey(batch, k) /\ todo \subseteq todo' /\ UNCHANGED value
  BY <1>1, Zenon DEF AppClientKey, ClientKey
<1>4. batch'.request_id = batch.request_id /\ Contains(batch'.ukey, k)
      /\ \A q : Contains(batch.ukey, q) => Contains(batch'.ukey, q)
  BY <1>2, <1>3, BatchKeyPasses DEF Inv, BatchTypeOK
<1>5. \A t \in Awaited : t \in Awaited'
  BY <1>3 DEF Awaited
<1>6. \A t \in Registered(clients)' : t = s \/ t \in Registered(clients)
  <2>1. PICK buf \in Buf \ clients.live, old \in Sig \cup {NoSig} : Registration(s, buf, old)
    BY <1>1, KeyRegisters
  <2> QED
    BY <2>1, Zenon DEF Registration, Entered, Registered
<1> SUFFICES ASSUME NEW t \in Registered(clients)'
             PROVE  Waits(t)' \/ t \in Awaited'
  BY DEF EntriesAreAwaited, Waits
<1>7. CASE t = s
  BY <1>2, <1>4, <1>7 DEF Waits
<1>8. CASE t \in Registered(clients)
  <2>1. Waits(t) => Waits(t)'
    BY <1>4 DEF Waits
  <2> QED
    BY <1>5, <1>8, <2>1 DEF EntriesAreAwaited, Waits
<1> QED
  BY <1>6, <1>7, <1>8

LEMMA StepWaits ==
    ASSUME Inv, Typed, Steering, CountsArrived, Orderly, Lost = {}, OneMessage,
           Fits(batch), NoDup(batch), EntriesAreAwaited, [Next]_vars
    PROVE  EntriesAreAwaited'
<1>1. [BatchNext]_batchVars
  BY StepIsBatchStep
<1>2. ASSUME UNCHANGED <<clients, value>>, todo' = todo \cup NewAnswers
      PROVE  EntriesAreAwaited'
  <2> SUFFICES ASSUME NEW s \in Registered(clients)
               PROVE  Waits(s)' \/ s \in Awaited'
    BY <1>2 DEF EntriesAreAwaited, Waits, Registered
  <2>1. s \in Sig /\ (Waits(s) \/ s \in Awaited)
    BY DEF Registered, EntriesAreAwaited, Waits
  <2>2. CASE Waits(s)
    <3>1. Waits(s)' \/ s \in NewAnswers
      BY <1>1, <2>1, <2>2, WaitsOrOwed
    <3> QED
      BY <1>2, <3>1 DEF Awaited
  <2> QED
    BY <1>2, <2>1, <2>2 DEF Awaited
<1>3. ASSUME UNCHANGED <<clients, value, todo>>, batch'.request_id = batch.request_id
      PROVE  EntriesAreAwaited'
  BY <1>2, <1>3 DEF NewAnswers
<1>4. CASE AppClientIn
  BY <1>3, <1>4 DEF AppClientIn, ClientIn
<1>5. CASE AppClientKey
  BY <1>5, KeyWaits
<1>6. ASSUME NEW a \in todo, NEW exp \in 1 .. MaxDatagrams, FirstDatagram(a, exp)
      PROVE  EntriesAreAwaited'
  <2>1. a \in Sig /\ 0 \in 0 .. exp - 1 /\ Delivery(a, 0, exp)
    BY <1>6, FirstDelivers
  <2>2. value = NoValue /\ todo' = (todo \ {a}) \cup NewAnswers
    BY <1>6 DEF FirstDatagram, BeginAnswer
  <2> QED
    BY <1>1, <2>1, <2>2, DeliveryWaits
<1>7. CASE NextDatagram
  <2>1. PICK a \in Sig, exp \in 1 .. MaxDatagrams : \E seq \in 0 .. exp - 1 :
           Delivery(a, seq, exp)
    BY <1>7, NextDelivers
  <2>2. PICK seq \in 0 .. exp - 1 : Delivery(a, seq, exp)
    BY <2>1
  <2>3. value # NoValue /\ todo' = todo \cup NewAnswers
    BY <1>7 DEF NextDatagram
  <2>4. value.answer = a
    BY <2>2, <2>3 DEF Delivery, Steering, Continues
  <2> QED
    BY <1>1, <2>2, <2>3, <2>4, DeliveryWaits
<1>8. CASE AppClientEnd
  BY <1>2, <1>8 DEF AppClientEnd
<1>9. CASE PollRefresh
  BY <1>2, <1>9 DEF PollRefresh
<1>10. CASE ClockTick
  <2>1. batch'.request_id = batch.request_id
    BY <1>10, Zenon DEF ClockTick, Tick, Inv, BatchTypeOK, BatchState
  <2> QED
    BY <1>3, <1>10, <2>1 DEF ClockTick, envVars
<1>11. CASE UNCHANGED vars
  BY <1>3, <1>11 DEF vars, envVars, batchVars
<1> QED
  BY <1>4, <1>5, <1>6, <1>7, <1>8, <1>9, <1>10, <1>11 DEF Next, LoseFirst, LoseNext

\* Every entry of the table waits for something: with an environment that is
\* orderly and loses nothing no entry is left over for good, for any ids,
\* although ids come back while memcached still owes answers for them.
THEOREM EntriesAreWaitedFor ==
    ASSUME Orderly, Lost = {}, OneMessage
    PROVE  Spec => []EntriesAreAwaited
<1>1. Init => EntriesAreAwaited
  <2> SUFFICES ASSUME Init PROVE EntriesAreAwaited
    OBVIOUS
  <2>1. \A s \in Sig : clients.client_pkts[s] = NoChain
    BY Zenon DEF Init, ClientMapInit, InitClientMap
  <2> QED
    BY <2>1 DEF EntriesAreAwaited, Registered
<1>2. NoGaps
  BY DEF NoGaps
<1>3. Init => Fits(batch) /\ NoDup(batch)
  BY FitsInit, NoDupInit DEF Init
<1>4. Inv /\ Fits(batch) /\ NoDup(batch) /\ [Next]_vars => Fits(batch)' /\ NoDup(batch)'
  BY StepIsBatchStep, StepFits, StepNoDup DEF Inv, Fits, NoDup, Sized
<1> QED
  BY <1>1, <1>2, <1>3, <1>4, InitInv, StepInv, InitTyped, StepTyped, InitSteers,
     StepSteers, InitDue, StepDue, StepWaits, PTL DEF Spec
============================================================================
