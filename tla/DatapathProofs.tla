--------------------------- MODULE DatapathProofs ---------------------------
(***************************************************************************)
(* The ownership of mbufs, for every number of mbufs, hosts and kinds of   *)
(* frames and rings and bursts of every length. The difference between     *)
(* the reference count and the owners of an mbuf is shown to change in no  *)
(* step but the one that leaves a frame alone that is not IPv4; from this  *)
(* follow both that an mbuf in use is not in the pool and that none leaks. *)
(* All of it needs Orderly: api.c:246-247 delete the entry of key_hold and *)
(* free the chain of key_hold or last_key, and if these differ a freed     *)
(* chain stays in the table and another leaks.                             *)
(***************************************************************************)
EXTENDS Datapath, FiniteSetTheorems, SequenceTheorems, TLAPS

----------------------------------------------------------------------------
(* How often a sequence has an element of a set. *)

Count(q, G) == Cardinality({i \in DOMAIN q : q[i] \in G})

LEMMA CountType ==
    ASSUME NEW S, NEW q \in Seq(S), NEW G
    PROVE  /\ IsFiniteSet({i \in DOMAIN q : q[i] \in G})
           /\ Count(q, G) \in Nat
           /\ Count(q, G) = 0 <=> \A i \in DOMAIN q : q[i] \notin G
<1> DEFINE At == {i \in DOMAIN q : q[i] \in G}
<1>1. Len(q) \in Nat /\ DOMAIN q = 1 .. Len(q)
  OBVIOUS
<1>2. IsFiniteSet(DOMAIN q)
  BY <1>1, FS_Interval
<1>3. IsFiniteSet(At)
  BY <1>2, FS_Subset
<1>4. Cardinality(At) \in Nat /\ (Cardinality(At) = 0 <=> At = {})
  BY <1>3, FS_CardinalityType, FS_EmptySet
<1>5. Count(q, G) = Cardinality(At)
  BY DEF Count
<1> QED
  BY <1>3, <1>4, <1>5

LEMMA CountConcat ==
    ASSUME NEW S, NEW p \in Seq(S), NEW q \in Seq(S), NEW G
    PROVE  Count(p \o q, G) = Count(p, G) + Count(q, G)
<1> DEFINE A == {i \in DOMAIN p : p[i] \in G}
           B == {i \in DOMAIN q : q[i] \in G}
           m == Len(p)
           C == {i \in m + 1 .. m + Len(q) : q[i - m] \in G}
           AC == {i \in DOMAIN (p \o q) : (p \o q)[i] \in G}
<1>1. m \in Nat /\ Len(q) \in Nat /\ DOMAIN p = 1 .. m /\ DOMAIN q = 1 .. Len(q)
  OBVIOUS
<1>2. /\ DOMAIN (p \o q) = 1 .. m + Len(q)
      /\ \A i \in 1 .. m : (p \o q)[i] = p[i]
      /\ \A i \in m + 1 .. m + Len(q) : (p \o q)[i] = q[i - m]
  BY <1>1
<1>3. IsFiniteSet(A) /\ IsFiniteSet(B)
  BY CountType
<1>4. ExistsBijection(B, C)
  <2> DEFINE f == [i \in B |-> i + m]
  <2>1. f \in [B -> C]
    BY <1>1
  <2>2. \A i, j \in B : f[i] = f[j] => i = j
    BY <1>1
  <2>3. \A c \in C : \E i \in B : f[i] = c
    <3> SUFFICES ASSUME NEW c \in C
                 PROVE  \E i \in B : f[i] = c
      OBVIOUS
    <3>1. c - m \in B /\ f[c - m] = c
      BY <1>1
    <3> QED
      BY <3>1
  <2> HIDE DEF f, B, C
  <2>4. f \in Bijection(B, C)
    BY <2>1, <2>2, <2>3 DEF Bijection, Injection, Surjection, IsInjective
  <2> QED
    BY <2>4 DEF ExistsBijection
<1>5. IsFiniteSet(C) /\ Cardinality(C) = Cardinality(B)
  BY <1>3, <1>4, FS_Bijection
<1>6. AC = A \cup C
  BY <1>1, <1>2
<1>7. A \cap C = {}
  BY <1>1
<1> HIDE DEF A, B, C, AC
<1>8. Cardinality(AC) = Cardinality(A) + Cardinality(C) - Cardinality(A \cap C)
  BY <1>3, <1>5, <1>6, FS_Union
<1>9. /\ Cardinality(A \cap C) = 0
      /\ Cardinality(A) \in Nat /\ Cardinality(B) \in Nat
  BY <1>3, <1>7, FS_EmptySet, FS_CardinalityType
<1>10. Count(p \o q, G) = Cardinality(AC) /\ Count(p, G) = Cardinality(A)
       /\ Count(q, G) = Cardinality(B)
  BY DEF Count, A, B, AC
<1> QED
  BY <1>5, <1>8, <1>9, <1>10

LEMMA CountOne ==
    ASSUME NEW x, NEW G
    PROVE  Count(<<x>>, G) = IF x \in G THEN 1 ELSE 0
<1>1. {i \in DOMAIN <<x>> : <<x>>[i] \in G} = IF x \in G THEN {1} ELSE {}
  OBVIOUS
<1> QED
  BY <1>1, FS_Singleton, FS_EmptySet DEF Count

LEMMA CountEmpty == \A G : Count(<< >>, G) = 0
  BY FS_EmptySet DEF Count

LEMMA CountTail ==
    ASSUME NEW S, NEW q \in Seq(S), q # << >>, NEW G
    PROVE  Count(q, G) = (IF Head(q) \in G THEN 1 ELSE 0) + Count(Tail(q), G)
<1>1. Head(q) \in S /\ <<Head(q)>> \in Seq(S) /\ Tail(q) \in Seq(S)
  OBVIOUS
<1>2. q = <<Head(q)>> \o Tail(q)
  OBVIOUS
<1>3. Count(<<Head(q)>> \o Tail(q), G) = Count(<<Head(q)>>, G) + Count(Tail(q), G)
  BY <1>1, CountConcat
<1>4. Count(<<Head(q)>>, G) = IF Head(q) \in G THEN 1 ELSE 0
  BY CountOne
<1> QED
  BY <1>2, <1>3, <1>4

LEMMA CountAppend ==
    ASSUME NEW S, NEW q \in Seq(S), NEW x \in S, NEW G
    PROVE  Count(Append(q, x), G) = Count(q, G) + (IF x \in G THEN 1 ELSE 0)
<1>1. <<x>> \in Seq(S) /\ Append(q, x) = q \o <<x>>
  OBVIOUS
<1>2. Count(q \o <<x>>, G) = Count(q, G) + Count(<<x>>, G)
  BY <1>1, CountConcat
<1>3. Count(<<x>>, G) = IF x \in G THEN 1 ELSE 0
  BY CountOne
<1> QED
  BY <1>1, <1>2, <1>3

LEMMA CountSplit ==
    ASSUME NEW S, NEW q \in Seq(S), NEW n \in 0 .. Len(q), NEW G
    PROVE  /\ SubSeq(q, 1, n) \in Seq(S) /\ SubSeq(q, n + 1, Len(q)) \in Seq(S)
           /\ Count(q, G) = Count(SubSeq(q, 1, n), G) + Count(SubSeq(q, n + 1, Len(q)), G)
<1>1. SubSeq(q, 1, n) \in Seq(S) /\ SubSeq(q, n + 1, Len(q)) \in Seq(S)
  OBVIOUS
<1> DEFINE front == SubSeq(q, 1, n)
           rest == SubSeq(q, n + 1, Len(q))
<1>2. q = front \o rest
  <2>1. Len(q) \in Nat /\ n \in Nat /\ n <= Len(q)
    OBVIOUS
  <2>2. 1 \in 1 .. Len(q) + 1 /\ n \in 1 - 1 .. Len(q) /\ Len(q) \in n .. Len(q)
    BY <2>1
  <2>3. front \o rest = SubSeq(q, 1, Len(q))
    BY <2>2, ConcatAdjacentSubSeq
  <2> QED
    BY <2>3, SubSeqFull
<1>3. Count(front \o rest, G) = Count(front, G) + Count(rest, G)
  BY <1>1, CountConcat
<1> QED
  BY <1>1, <1>2, <1>3

----------------------------------------------------------------------------
(* Types, and what the owners of an mbuf hold. *)

Addr == KnownHosts \cup {f.src : f \in Frames} \cup {Local, Zero}
Packets == [buf : Buf, frame : Frames]
Sent == [buf : Buf, dst : Addr]
Frees == {Free(b) : b \in Buf}
Sends == {Send(b, dst, taken) : b \in Buf, dst \in Addr, taken \in {0, 1}}
Call == Frees \cup Sends

Typed ==
    /\ ref \in [Buf -> Nat] /\ hdr \in [Buf -> Header]
    /\ rx \in Seq(Packets) /\ burst \in Seq(Packets)
    /\ calls \in Seq(Call) /\ tx \in Seq(Sent)
    /\ refreshed \in BOOLEAN /\ failed \in BOOLEAN
    /\ kept \subseteq Buf /\ memcached_pkt \in Buf \cup {NoBuf}

\* The elements of rx and burst, of tx, and of calls that own b.
PacketIn(b) == {p \in Packets : p.buf = b}
SentIn(b) == {s \in Sent : s.buf = b}
OwnedBy(b) == {c \in Call : c.buf = b /\ (c.call = "free" \/ c.taken = 0)}

InTable(b) == IF b \in kept THEN 1 ELSE 0
InMessage(b) == IF b = memcached_pkt THEN 1 ELSE 0

LEMMA HeaderFields ==
    /\ Header = [src : Addr, dst : Addr]
    /\ Local \in Addr /\ Zero \in Addr /\ Server \in Addr /\ Blank \in Header
    /\ \A f \in Frames : f.src \in Addr
    /\ \A h \in Header : h.src \in Addr /\ h.dst \in Addr
    /\ \A s, d \in Addr : /\ [src |-> s, dst |-> d] \in Header
                          /\ [src |-> s, dst |-> d].src = s
<1>1. Header = [src : Addr, dst : Addr]
  BY DEF Header, Addr
<1>2. Local \in Addr /\ Zero \in Addr /\ Server \in Addr
  BY DatapathAssumption DEF Addr
<1>3. \A f \in Frames : f.src \in Addr
  BY DEF Addr
<1> QED
  BY <1>1, <1>2, <1>3 DEF Blank

LEMMA PacketFields ==
    /\ \A p \in Packets : p.buf \in Buf /\ p.frame \in Frames
    /\ \A b \in Buf, f \in Frames :
          /\ [buf |-> b, frame |-> f] \in Packets
          /\ [buf |-> b, frame |-> f].buf = b /\ [buf |-> b, frame |-> f].frame = f
  BY DEF Packets

LEMMA SentFields ==
    /\ \A s \in Sent : s.buf \in Buf /\ s.dst \in Addr
    /\ \A b \in Buf, d \in Addr :
          [buf |-> b, dst |-> d] \in Sent /\ [buf |-> b, dst |-> d].buf = b
  BY DEF Sent

LEMMA FreeFields ==
    /\ \A b \in Buf : /\ Free(b) \in Call
                      /\ Free(b).call = "free" /\ Free(b).buf = b
    /\ \A c \in Call : c.call = "free" => c.buf \in Buf /\ c = Free(c.buf)
<1>1. \A b \in Buf : Free(b) \in Call /\ Free(b).call = "free" /\ Free(b).buf = b
  BY DEF Free, Frees, Call
<1>2. \A c \in Sends : c.call = "send"
  BY DEF Send, Sends
<1>3. \A c \in Frees : c.buf \in Buf /\ c = Free(c.buf)
  BY DEF Free, Frees
<1> QED
  BY <1>1, <1>2, <1>3 DEF Call

LEMMA SendFields ==
    /\ \A b \in Buf, d \in Addr, n \in {0, 1} :
          /\ Send(b, d, n) \in Call
          /\ Send(b, d, n).call = "send" /\ Send(b, d, n).buf = b
          /\ Send(b, d, n).dst = d /\ Send(b, d, n).taken = n
    /\ \A c \in Call : c.call = "send" =>
          c.buf \in Buf /\ c.dst \in Addr /\ c.taken \in {0, 1}
<1>1. \A b \in Buf, d \in Addr, n \in {0, 1} :
          /\ Send(b, d, n) \in Call
          /\ Send(b, d, n).call = "send" /\ Send(b, d, n).buf = b
          /\ Send(b, d, n).dst = d /\ Send(b, d, n).taken = n
  BY DEF Send, Sends, Call
<1>2. \A c \in Frees : c.call = "free"
  BY DEF Free, Frees
<1>3. \A c \in Sends : c.buf \in Buf /\ c.dst \in Addr /\ c.taken \in {0, 1}
  BY DEF Send, Sends
<1> QED
  BY <1>1, <1>2, <1>3 DEF Call

LEMMA CallFields ==
    \A c \in Call : c.buf \in Buf /\ (c.call = "free" \/ c.call = "send")
<1>1. \A c \in Frees : c.buf \in Buf /\ c.call = "free"
  BY DEF Free, Frees
<1>2. \A c \in Sends : c.buf \in Buf /\ c.call = "send"
  BY DEF Send, Sends
<1> QED
  BY <1>1, <1>2 DEF Call

\* Which calls own an mbuf.
LEMMA Owning ==
    ASSUME NEW b \in Buf
    PROVE  /\ \A d \in Buf : Free(d) \in OwnedBy(b) <=> d = b
           /\ \A d \in Buf, a \in Addr :
                /\ Send(d, a, 0) \in OwnedBy(b) <=> d = b
                /\ Send(d, a, 1) \notin OwnedBy(b)
           /\ \A c \in Call : c.call = "send" =>
                (c \in OwnedBy(b) <=> c.buf = b /\ c.taken = 0)
<1>1. \A d \in Buf : Free(d) \in OwnedBy(b) <=> d = b
  BY FreeFields DEF OwnedBy
<1>2. \A c \in Call : c.call = "send" => (c \in OwnedBy(b) <=> c.buf = b /\ c.taken = 0)
  BY DEF OwnedBy
<1> QED
  BY <1>1, <1>2, SendFields

LEMMA OwnersCount ==
    ASSUME Typed, NEW b \in Buf
    PROVE  /\ Owners(b) = Count(rx, PacketIn(b)) + Count(burst, PacketIn(b))
                 + Count(tx, SentIn(b)) + Count(calls, OwnedBy(b)) + InTable(b) + InMessage(b)
           /\ Count(rx, PacketIn(b)) \in Nat /\ Count(burst, PacketIn(b)) \in Nat
           /\ Count(tx, SentIn(b)) \in Nat /\ Count(calls, OwnedBy(b)) \in Nat
           /\ InTable(b) \in {0, 1} /\ InMessage(b) \in {0, 1}
           /\ Owners(b) \in Nat
           /\ ref[b] \in Nat
<1>1. /\ rx \in Seq(Packets) /\ burst \in Seq(Packets) /\ tx \in Seq(Sent)
      /\ calls \in Seq(Call) /\ ref[b] \in Nat
  BY DEF Typed
<1>2. Holds(rx, b) = Count(rx, PacketIn(b)) /\ Holds(burst, b) = Count(burst, PacketIn(b))
  <2>1. /\ \A i \in DOMAIN rx : rx[i].buf = b <=> rx[i] \in PacketIn(b)
        /\ \A i \in DOMAIN burst : burst[i].buf = b <=> burst[i] \in PacketIn(b)
    BY <1>1 DEF PacketIn
  <2> QED
    BY <2>1 DEF Holds, Count
<1>3. Holds(tx, b) = Count(tx, SentIn(b))
  <2>1. \A i \in DOMAIN tx : tx[i].buf = b <=> tx[i] \in SentIn(b)
    BY <1>1 DEF SentIn
  <2> QED
    BY <2>1 DEF Holds, Count
<1>4. Cardinality({i \in DOMAIN calls : calls[i].buf = b
                      /\ (calls[i].call = "free" \/ calls[i].taken = 0)})
      = Count(calls, OwnedBy(b))
  <2>1. \A i \in DOMAIN calls : calls[i] \in OwnedBy(b)
            <=> calls[i].buf = b /\ (calls[i].call = "free" \/ calls[i].taken = 0)
    BY <1>1 DEF OwnedBy
  <2>2. {i \in DOMAIN calls : calls[i].buf = b
             /\ (calls[i].call = "free" \/ calls[i].taken = 0)}
        = {i \in DOMAIN calls : calls[i] \in OwnedBy(b)}
    BY <2>1
  <2> QED
    BY <2>2 DEF Count
<1>5. /\ Count(rx, PacketIn(b)) \in Nat /\ Count(burst, PacketIn(b)) \in Nat
      /\ Count(tx, SentIn(b)) \in Nat /\ Count(calls, OwnedBy(b)) \in Nat
  BY <1>1, CountType
<1>6. InTable(b) \in {0, 1} /\ InMessage(b) \in {0, 1}
  BY DEF InTable, InMessage
<1>7. Owners(b) = Count(rx, PacketIn(b)) + Count(burst, PacketIn(b))
                 + Count(tx, SentIn(b)) + Count(calls, OwnedBy(b)) + InTable(b) + InMessage(b)
  BY <1>2, <1>3, <1>4 DEF Owners, InTable, InMessage
<1> QED
  BY <1>1, <1>5, <1>6, <1>7

LEMMA OwnersCounted ==
    Typed => \A b \in Buf :
        /\ Owners(b) = Count(rx, PacketIn(b)) + Count(burst, PacketIn(b))
                 + Count(tx, SentIn(b)) + Count(calls, OwnedBy(b)) + InTable(b) + InMessage(b)
        /\ Owners(b) \in Nat
        /\ ref[b] \in Nat
  BY OwnersCount

\* The same of the state after a step.
LEMMA OwnersCountedNext ==
    ASSUME Typed'
    PROVE  \A b \in Buf :
        /\ Owners(b)' = Count(rx', PacketIn(b)) + Count(burst', PacketIn(b))
                 + Count(tx', SentIn(b)) + Count(calls', OwnedBy(b))
                 + InTable(b)' + InMessage(b)'
        /\ Owners(b)' \in Nat
        /\ ref'[b] \in Nat
<1>1. (Typed => \A b \in Buf :
        /\ Owners(b) = Count(rx, PacketIn(b)) + Count(burst, PacketIn(b))
                 + Count(tx, SentIn(b)) + Count(calls, OwnedBy(b)) + InTable(b) + InMessage(b)
        /\ Owners(b) \in Nat
        /\ ref[b] \in Nat)'
  BY OwnersCounted, PTL
<1>2. /\ \A b \in Buf : Count(rx, PacketIn(b))' = Count(rx', PacketIn(b))
      /\ \A b \in Buf : Count(burst, PacketIn(b))' = Count(burst', PacketIn(b))
      /\ \A b \in Buf : Count(tx, SentIn(b))' = Count(tx', SentIn(b))
      /\ \A b \in Buf : Count(calls, OwnedBy(b))' = Count(calls', OwnedBy(b))
  BY DEF Count, PacketIn, SentIn, OwnedBy
<1> QED
  BY <1>1, <1>2

----------------------------------------------------------------------------
(* The calls that a handler leaves. *)

\* The mbufs of a set are freed once each.
LEMMA FreeAllCalls ==
    ASSUME NEW T \in SUBSET Buf
    PROVE  /\ IsFiniteSet(T)
           /\ FreeAll(T) \in Seq(Call)
           /\ \A i \in DOMAIN FreeAll(T) : FreeAll(T)[i].call = "free"
           /\ \A b \in Buf : Count(FreeAll(T), OwnedBy(b)) = IF b \in T THEN 1 ELSE 0
<1> DEFINE F == {Free(b) : b \in T}
           n == Cardinality(F)
           s == FreeAll(T)
<1>1. IsFiniteSet(T)
  BY DatapathAssumption, FS_Subset
<1>2. IsFiniteSet(F)
  <2> DEFINE g == [b \in T |-> Free(b)]
  <2>1. g \in Surjection(T, F)
    BY DEF Surjection
  <2> QED
    BY <1>1, <2>1, FS_Surjection
<1>3. n \in Nat /\ ExistsBijection(1 .. n, F)
  BY <1>2, FS_CardinalityType
<1>4. PICK h : h \in Bijection(1 .. n, F)
  BY <1>3 DEF ExistsBijection
<1> HIDE DEF F, n
<1>5. h \in [1 .. n -> F] /\ IsInjective(h)
  BY <1>4 DEF Bijection, Injection, IsInjective
<1>6. s = CHOOSE f \in [1 .. n -> F] : IsInjective(f)
  BY DEF FreeAll, SetToSeq, F, n
<1> HIDE DEF s
<1>7. s \in [1 .. n -> F] /\ IsInjective(s)
  BY <1>5, <1>6
<1>8. s \in Injection(1 .. n, F)
  BY <1>7 DEF Injection, IsInjective
<1>9. s \in Surjection(1 .. n, F)
  <2>1. IsFiniteSet(1 .. n) /\ Cardinality(1 .. n) = n
    <3>1. /\ IsFiniteSet(1 .. n)
          /\ Cardinality(1 .. n) = IF 1 > n THEN 0 ELSE n - 1 + 1
      BY <1>3, FS_Interval
    <3> QED
      BY <1>3, <3>1
  <2>2. Cardinality(1 .. n) = Cardinality(F)
    BY <2>1 DEF n
  <2> QED
    BY <1>2, <1>8, <2>2, FS_Injection
<1>10. DOMAIN s = 1 .. n /\ \A f \in F : \E i \in 1 .. n : s[i] = f
  BY <1>7, <1>9 DEF Surjection
<1>11. \A f \in F : f \in Call /\ f.call = "free"
  BY FreeFields DEF F
<1>12. s \in Seq(Call)
  BY <1>3, <1>7, <1>11
<1>13. \A i \in DOMAIN s : s[i].call = "free"
  BY <1>7, <1>10, <1>11
<1>14. ASSUME NEW b \in Buf
       PROVE  Count(s, OwnedBy(b)) = IF b \in T THEN 1 ELSE 0
  <2>1. \A i \in DOMAIN s : s[i] \in OwnedBy(b) <=> s[i] = Free(b)
    <3> SUFFICES ASSUME NEW i \in DOMAIN s
                 PROVE  s[i] \in OwnedBy(b) <=> s[i] = Free(b)
      OBVIOUS
    <3>1. PICK d \in T : s[i] = Free(d)
      BY <1>7, <1>10 DEF F
    <3>2. Free(d) \in OwnedBy(b) <=> d = b
      BY Owning
    <3>3. Free(d).buf = d /\ Free(b).buf = b
      BY FreeFields
    <3> QED
      BY <3>1, <3>2, <3>3
  <2>2. CASE b \in T
    <3>1. PICK i \in 1 .. n : s[i] = Free(b)
      BY <1>10, <2>2 DEF F
    <3>2. {j \in DOMAIN s : s[j] \in OwnedBy(b)} = {i}
      BY <1>7, <1>10, <2>1, <3>1 DEF IsInjective
    <3> QED
      BY <2>2, <3>2, FS_Singleton DEF Count
  <2>3. CASE b \notin T
    <3>1. Free(b) \notin F
      <4>1. \A d \in T : Free(d) # Free(b)
        BY <2>3, FreeFields
      <4> QED
        BY <4>1 DEF F
    <3>2. {j \in DOMAIN s : s[j] \in OwnedBy(b)} = {}
      BY <1>7, <1>10, <2>1, <3>1
    <3> QED
      BY <2>3, <3>2, FS_EmptySet DEF Count
  <2> QED
    BY <2>2, <2>3
<1> QED
  BY <1>1, <1>12, <1>13, <1>14 DEF s

\* A message leaves without giving up memcached_pkt, a reply without giving up
\* the reference that is freed after the loop.
LEMMA MessagesCalls ==
    ASSUME NEW m \in Buf, NEW n \in Nat
    PROVE  /\ Messages(m, n) \in Seq(Call) /\ DOMAIN Messages(m, n) = 1 .. n
           /\ \A i \in 1 .. n : Messages(m, n)[i] = Send(m, Server, 1)
           /\ \A b \in Buf : Count(Messages(m, n), OwnedBy(b)) = 0
<1>1. DOMAIN Messages(m, n) = 1 .. n /\ \A i \in 1 .. n : Messages(m, n)[i] = Send(m, Server, 1)
  BY DEF Messages
<1>2. Server \in Addr /\ Send(m, Server, 1) \in Call
  BY HeaderFields, SendFields
<1>3. Messages(m, n) \in Seq(Call)
  BY <1>2 DEF Messages
<1>4. ASSUME NEW b \in Buf
      PROVE  Count(Messages(m, n), OwnedBy(b)) = 0
  <2>1. Send(m, Server, 1) \notin OwnedBy(b)
    BY <1>2, Owning
  <2>2. \A i \in DOMAIN Messages(m, n) : Messages(m, n)[i] \notin OwnedBy(b)
    BY <1>1, <2>1
  <2> QED
    BY <1>3, <2>2, CountType
<1> QED
  BY <1>1, <1>3, <1>4

LEMMA ForwardCalls ==
    ASSUME Typed, NEW m \in Buf, NEW waiting \in SUBSET kept, NEW chain \in SetToSeqs(waiting)
    PROVE  /\ Forward(m, chain) \in Seq(Call) /\ DOMAIN Forward(m, chain) = DOMAIN chain
           /\ \A i \in DOMAIN chain :
                 /\ chain[i] \in waiting
                 /\ Forward(m, chain)[i] = Send(m, hdr[chain[i]].src, 1)
                 /\ hdr[chain[i]].src \in Addr
           /\ \A b \in Buf : Count(Forward(m, chain), OwnedBy(b)) = 0
<1>1. waiting \in SUBSET Buf /\ hdr \in [Buf -> Header]
  BY DEF Typed
<1>2. Cardinality(waiting) \in Nat
  BY <1>1, FreeAllCalls, FS_CardinalityType
<1>3. chain \in [1 .. Cardinality(waiting) -> waiting]
  BY DEF SetToSeqs
<1>4. \A i \in DOMAIN chain : chain[i] \in waiting /\ hdr[chain[i]].src \in Addr
  BY <1>1, <1>3, HeaderFields
<1>5. /\ DOMAIN Forward(m, chain) = DOMAIN chain
      /\ \A i \in DOMAIN chain : Forward(m, chain)[i] = Send(m, hdr[chain[i]].src, 1)
  BY DEF Forward
<1>6. \A i \in DOMAIN chain : Send(m, hdr[chain[i]].src, 1) \in Call
  BY <1>4, SendFields
<1>7. Forward(m, chain) \in Seq(Call)
  <2>1. DOMAIN chain = 1 .. Cardinality(waiting)
    BY <1>3
  <2> QED
    BY <1>2, <1>6, <2>1 DEF Forward
<1>8. ASSUME NEW b \in Buf
      PROVE  Count(Forward(m, chain), OwnedBy(b)) = 0
  <2>1. \A i \in DOMAIN chain : Send(m, hdr[chain[i]].src, 1) \notin OwnedBy(b)
    BY <1>4, Owning
  <2>2. \A i \in DOMAIN Forward(m, chain) : Forward(m, chain)[i] \notin OwnedBy(b)
    BY <1>5, <2>1
  <2> QED
    BY <1>7, <2>2, CountType
<1> QED
  BY <1>4, <1>5, <1>7, <1>8

LEMMA FreeCall ==
    ASSUME NEW d \in Buf
    PROVE  /\ <<Free(d)>> \in Seq(Call)
           /\ \A b \in Buf : Count(<<Free(d)>>, OwnedBy(b)) = IF b = d THEN 1 ELSE 0
<1>1. Free(d) \in Call
  BY FreeFields
<1>2. ASSUME NEW b \in Buf
      PROVE  Count(<<Free(d)>>, OwnedBy(b)) = IF b = d THEN 1 ELSE 0
  BY CountOne, Owning
<1> QED
  BY <1>1, <1>2

----------------------------------------------------------------------------
(* The inductive invariant. *)

\* A packet that no handler has seen has one reference, and nothing was
\* written over its header.
Fresh(q) ==
    \A i \in DOMAIN q : ref[q[i].buf] = 1 /\ hdr[q[i].buf].src = q[i].frame.src

\* What is sent with a reference of its own has another owner until then: it
\* is memcached_pkt, or the reply that the same handler frees afterwards.
SendsOwned ==
    \A i \in DOMAIN calls :
        calls[i].call = "send" /\ calls[i].taken = 1 /\ calls[i].buf # memcached_pkt =>
            \E j \in DOMAIN calls : j > i /\ calls[j] = Free(calls[i].buf)

\* What is sent is not in the table, where its header is still needed.
SendsOutside ==
    /\ \A i \in DOMAIN calls : calls[i].call = "send" => calls[i].buf \notin kept
    /\ memcached_pkt \notin kept

KeptKnown == \A b \in kept : arp_lookup_mac(hdr[b].src)

Inv ==
    /\ Orderly
    /\ Typed
    /\ NoUseAfterFree
    /\ Fresh(rx) /\ Fresh(burst)
    /\ SendsOwned
    /\ SendsOutside
    /\ KeptKnown
    /\ MacIsKnown

\* The references to b that nobody will give back.
Surplus(b) == ref[b] - Owners(b)

InHand(b) == (\E i \in DOMAIN rx : rx[i].buf = b) \/ (\E i \in DOMAIN burst : burst[i].buf = b)

\* A packet that no handler has seen has no owner but the port or the burst.
LEMMA Exclusive ==
    ASSUME Inv, NEW b \in Buf, InHand(b)
    PROVE  /\ ref[b] = 1
           /\ b \notin kept /\ b # memcached_pkt
           /\ \A i \in DOMAIN tx : tx[i].buf # b
           /\ \A i \in DOMAIN calls : calls[i].buf # b
<1> DEFINE r == Count(rx, PacketIn(b))
           u == Count(burst, PacketIn(b))
           t == Count(tx, SentIn(b))
           c == Count(calls, OwnedBy(b))
<1>1. /\ rx \in Seq(Packets) /\ burst \in Seq(Packets) /\ tx \in Seq(Sent)
      /\ calls \in Seq(Call)
  BY DEF Inv, Typed
<1>2. ref[b] = 1
  BY DEF Inv, Fresh, InHand
<1>3. /\ Owners(b) = r + u + t + c + InTable(b) + InMessage(b)
      /\ r \in Nat /\ u \in Nat /\ t \in Nat /\ c \in Nat
      /\ InTable(b) \in {0, 1} /\ InMessage(b) \in {0, 1}
      /\ Owners(b) <= 1
  BY <1>2, OwnersCount DEF Inv, NoUseAfterFree
<1>4. r # 0 \/ u # 0
  <2>1. (\E i \in DOMAIN rx : rx[i] \in PacketIn(b))
           \/ (\E i \in DOMAIN burst : burst[i] \in PacketIn(b))
    BY <1>1 DEF InHand, PacketIn
  <2> QED
    BY <1>1, <2>1, CountType
<1> HIDE DEF r, u
<1>5. t = 0 /\ c = 0 /\ InTable(b) = 0 /\ InMessage(b) = 0
  BY <1>3, <1>4
<1>6. b \notin kept /\ b # memcached_pkt
  BY <1>5 DEF InTable, InMessage
<1>7. \A i \in DOMAIN tx : tx[i].buf # b
  <2>1. \A i \in DOMAIN tx : tx[i] \notin SentIn(b)
    BY <1>1, <1>5, CountType
  <2> QED
    BY <1>1, <2>1 DEF SentIn
<1>8. \A i \in DOMAIN calls : calls[i] \in Call /\ calls[i] \notin OwnedBy(b)
  <2>1. \A i \in DOMAIN calls : calls[i] \notin OwnedBy(b)
    BY <1>1, <1>5, CountType
  <2> QED
    BY <1>1, <2>1
<1>9. \A i \in DOMAIN calls : calls[i].buf # b
  <2> SUFFICES ASSUME NEW i \in DOMAIN calls, calls[i].buf = b
               PROVE  FALSE
    OBVIOUS
  <2>1. calls[i].call = "send" /\ calls[i].taken = 1
    BY <1>8, CallFields, SendFields DEF OwnedBy
  <2>2. \E j \in DOMAIN calls : calls[j] = Free(b)
    BY <1>6, <2>1 DEF Inv, SendsOwned
  <2> QED
    BY <1>8, <2>2, Owning
<1> QED
  BY <1>2, <1>6, <1>7, <1>9

\* An mbuf of the pool has no owner.
LEMMA PoolUnowned ==
    ASSUME Inv, NEW b \in Buf, ref[b] = 0
    PROVE  /\ Count(rx, PacketIn(b)) = 0 /\ Count(burst, PacketIn(b)) = 0
           /\ Count(tx, SentIn(b)) = 0 /\ Count(calls, OwnedBy(b)) = 0
           /\ b \notin kept /\ b # memcached_pkt
           /\ ~ InHand(b)
<1>1. Owners(b) <= 0 /\ Typed
  BY DEF Inv, NoUseAfterFree
<1>2. /\ Count(rx, PacketIn(b)) = 0 /\ Count(burst, PacketIn(b)) = 0
      /\ Count(tx, SentIn(b)) = 0 /\ Count(calls, OwnedBy(b)) = 0
      /\ InTable(b) = 0 /\ InMessage(b) = 0
  BY <1>1, OwnersCount
<1>3. ~ InHand(b)
  BY DEF Inv, Fresh, InHand
<1> QED
  BY <1>2, <1>3 DEF InTable, InMessage

LEMMA ReleaseFacts ==
    ASSUME Typed, NEW b \in Buf, ref[b] >= 1, Release(b)
    PROVE  /\ ref' \in [Buf -> Nat] /\ hdr' \in [Buf -> Header]
           /\ ref'[b] = ref[b] - 1
           /\ \A d \in Buf : d # b => ref'[d] = ref[d] /\ hdr'[d] = hdr[d]
           /\ ref[b] > 1 => hdr' = hdr
<1>1. ref \in [Buf -> Nat] /\ hdr \in [Buf -> Header] /\ Blank \in Header
  BY HeaderFields DEF Typed
<1> QED
  BY <1>1 DEF Release

\* Steps that change nothing but sequences, with as many owners of each mbuf.
LEMMA SameRefs ==
    ASSUME Typed, Typed', UNCHANGED <<ref, kept, memcached_pkt>>,
           \A b \in Buf :
               Count(rx', PacketIn(b)) + Count(burst', PacketIn(b))
                   + Count(tx', SentIn(b)) + Count(calls', OwnedBy(b))
               = Count(rx, PacketIn(b)) + Count(burst, PacketIn(b))
                   + Count(tx, SentIn(b)) + Count(calls, OwnedBy(b))
    PROVE  \A b \in Buf : Surplus(b)' = Surplus(b)
<1> SUFFICES ASSUME NEW b \in Buf
             PROVE  Surplus(b)' = Surplus(b)
  OBVIOUS
<1>1. InTable(b)' = InTable(b) /\ InMessage(b)' = InMessage(b)
  BY DEF InTable, InMessage
<1>2. InTable(b) \in {0, 1} /\ InMessage(b) \in {0, 1}
  BY DEF InTable, InMessage
<1>3. Owners(b)' = Owners(b)
  BY <1>1, <1>2, OwnersCount, OwnersCountedNext
<1> QED
  BY <1>3 DEF Surplus

----------------------------------------------------------------------------
(* Each step keeps the types and the surplus of every mbuf. *)

LEMMA PerformFreeOwners ==
    ASSUME Inv, Perform, PerformFree(Head(calls))
    PROVE  Typed' /\ \A b \in Buf : Surplus(b)' = Surplus(b)
<1> DEFINE c == Head(calls)
<1>1. /\ Typed /\ calls # << >> /\ calls' = Tail(calls)
      /\ UNCHANGED <<rx, burst, refreshed, kept, memcached_pkt, failed, tx>>
  BY DEF Inv, Perform, PerformFree
<1>2. calls \in Seq(Call) /\ c \in Call /\ Tail(calls) \in Seq(Call)
  BY <1>1 DEF Typed
<1> HIDE DEF c
<1>3. c.call = "free" /\ Release(c.buf)
  BY DEF PerformFree, c
<1>4. c.buf \in Buf /\ c = Free(c.buf)
  BY <1>2, <1>3, FreeFields
<1> DEFINE d == c.buf
<1> HIDE DEF d
<1>5. \A b \in Buf : Count(calls, OwnedBy(b))
          = (IF b = d THEN 1 ELSE 0) + Count(calls', OwnedBy(b))
  <2> SUFFICES ASSUME NEW b \in Buf
               PROVE  Count(calls, OwnedBy(b))
                        = (IF b = d THEN 1 ELSE 0) + Count(calls', OwnedBy(b))
    OBVIOUS
  <2>1. c \in OwnedBy(b) <=> b = d
    BY <1>4, Owning DEF d
  <2>2. Count(calls, OwnedBy(b))
          = (IF c \in OwnedBy(b) THEN 1 ELSE 0) + Count(Tail(calls), OwnedBy(b))
    BY <1>1, <1>2, CountTail DEF c
  <2> QED
    BY <1>1, <2>1, <2>2
<1>6. \A b \in Buf : Count(calls', OwnedBy(b)) \in Nat
  BY <1>1, <1>2, CountType
<1>7. d \in Buf
  BY <1>4 DEF d
<1>8. ref[d] >= 1
  <2>1. Count(calls, OwnedBy(d)) >= 1
    BY <1>5, <1>6, <1>7
  <2>2. Owners(d) <= ref[d]
    BY <1>7 DEF Inv, NoUseAfterFree
  <2>3. /\ Owners(d) = Count(rx, PacketIn(d)) + Count(burst, PacketIn(d))
               + Count(tx, SentIn(d)) + Count(calls, OwnedBy(d)) + InTable(d) + InMessage(d)
        /\ Count(rx, PacketIn(d)) \in Nat /\ Count(burst, PacketIn(d)) \in Nat
        /\ Count(tx, SentIn(d)) \in Nat /\ Count(calls, OwnedBy(d)) \in Nat
        /\ InTable(d) \in {0, 1} /\ InMessage(d) \in {0, 1} /\ ref[d] \in Nat
    BY SMTT(30), <1>1, <1>7, OwnersCount
  <2> QED
    BY <2>1, <2>2, <2>3
<1>9. /\ ref' \in [Buf -> Nat] /\ hdr' \in [Buf -> Header]
      /\ ref'[d] = ref[d] - 1
      /\ \A b \in Buf : b # d => ref'[b] = ref[b]
  BY <1>1, <1>3, <1>7, <1>8, ReleaseFacts DEF d
<1>10. Typed'
  BY <1>1, <1>2, <1>9 DEF Typed
<1>11. ASSUME NEW b \in Buf
       PROVE  Surplus(b)' = Surplus(b)
  <2>1. InTable(b)' = InTable(b) /\ InMessage(b)' = InMessage(b)
    BY <1>1 DEF InTable, InMessage
  <2>2. Owners(b) = Owners(b)' + (IF b = d THEN 1 ELSE 0)
    BY SMTT(30), <1>1, <1>5, <1>6, <1>10, <2>1, OwnersCount, OwnersCountedNext
  <2>3. ref[b] \in Nat /\ ref'[b] \in Nat
    <3>1. ref[b] \in Nat
      BY <1>1, OwnersCount
    <3>2. ref'[b] \in Nat
      BY <1>9
    <3> QED
      BY <3>1, <3>2
  <2>4. ref[b] = ref'[b] + (IF b = d THEN 1 ELSE 0)
    <3>1. CASE b = d
      BY <1>9, <2>3, <3>1
    <3>2. CASE b # d
      BY <1>9, <2>3, <3>2
    <3> QED
      BY <3>1, <3>2
  <2>5. Owners(b)' \in Nat
    BY <1>10, OwnersCountedNext
  <2> QED
    BY <2>2, <2>3, <2>4, <2>5 DEF Surplus
<1> QED
  BY <1>10, <1>11

LEMMA PerformSendOwners ==
    ASSUME Inv, Perform, PerformSend(Head(calls))
    PROVE  Typed' /\ \A b \in Buf : Surplus(b)' = Surplus(b)
<1> DEFINE c == Head(calls)
<1>1. /\ Typed /\ calls # << >> /\ calls' = Tail(calls)
      /\ UNCHANGED <<rx, burst, refreshed, kept, memcached_pkt, failed>>
  BY DEF Inv, Perform
<1>2. calls \in Seq(Call) /\ c \in Call /\ Tail(calls) \in Seq(Call)
  BY <1>1 DEF Typed
<1> HIDE DEF c
<1>3. /\ c.call = "send"
      /\ ref' = [ref EXCEPT ![c.buf] = @ + c.taken]
      /\ hdr' = [hdr EXCEPT ![c.buf] = [src |-> Local, dst |-> c.dst]]
      /\ tx' = Append(tx, [buf |-> c.buf, dst |-> c.dst])
  BY DEF PerformSend, c, ip_out, dpdk_eth_send
<1>4. c.buf \in Buf /\ c.dst \in Addr /\ c.taken \in {0, 1}
  BY <1>2, <1>3, SendFields
<1> DEFINE s == [buf |-> c.buf, dst |-> c.dst]
<1>5. s \in Sent /\ s.buf = c.buf /\ tx' = Append(tx, s)
  BY <1>3, <1>4, SentFields
<1> HIDE DEF s
<1>6. Typed'
  <2>1. ref' \in [Buf -> Nat]
    BY <1>1, <1>3, <1>4 DEF Typed
  <2>2. hdr' \in [Buf -> Header]
    <3>1. [src |-> Local, dst |-> c.dst] \in Header
      BY <1>4, HeaderFields
    <3> QED
      BY <1>1, <1>3, <3>1 DEF Typed
  <2>3. tx' \in Seq(Sent)
    BY <1>1, <1>5 DEF Typed
  <2> QED
    BY <1>1, <1>2, <2>1, <2>2, <2>3 DEF Typed
<1>7. ASSUME NEW b \in Buf
      PROVE  Surplus(b)' = Surplus(b)
  <2>1. InTable(b)' = InTable(b) /\ InMessage(b)' = InMessage(b)
    BY <1>1 DEF InTable, InMessage
  <2>2. Count(calls, OwnedBy(b))
          = (IF b = c.buf /\ c.taken = 0 THEN 1 ELSE 0) + Count(calls', OwnedBy(b))
    <3>1. c \in OwnedBy(b) <=> c.buf = b /\ c.taken = 0
      BY <1>2, <1>3, Owning
    <3>2. Count(calls, OwnedBy(b))
            = (IF c \in OwnedBy(b) THEN 1 ELSE 0) + Count(Tail(calls), OwnedBy(b))
      BY <1>1, <1>2, CountTail DEF c
    <3> QED
      BY <1>1, <3>1, <3>2
  <2>3. Count(tx', SentIn(b)) = Count(tx, SentIn(b)) + (IF b = c.buf THEN 1 ELSE 0)
    <3>1. s \in SentIn(b) <=> b = c.buf
      BY <1>5 DEF SentIn
    <3>2. Count(Append(tx, s), SentIn(b))
            = Count(tx, SentIn(b)) + (IF s \in SentIn(b) THEN 1 ELSE 0)
      BY <1>1, <1>5, CountAppend DEF Typed
    <3> QED
      BY <1>5, <3>1, <3>2
  <2>4. Count(calls', OwnedBy(b)) \in Nat
    BY <1>1, <1>2, CountType
  <2>5. Owners(b)' = Owners(b) + (IF b = c.buf THEN c.taken ELSE 0)
    <3>1. /\ Owners(b) = Count(rx, PacketIn(b)) + Count(burst, PacketIn(b))
                 + Count(tx, SentIn(b)) + Count(calls, OwnedBy(b)) + InTable(b) + InMessage(b)
          /\ Count(rx, PacketIn(b)) \in Nat /\ Count(burst, PacketIn(b)) \in Nat
          /\ Count(tx, SentIn(b)) \in Nat
          /\ InTable(b) \in {0, 1} /\ InMessage(b) \in {0, 1}
      BY <1>1, OwnersCount
    <3>2. Owners(b)' = Count(rx, PacketIn(b)) + Count(burst, PacketIn(b))
                 + Count(tx', SentIn(b)) + Count(calls', OwnedBy(b)) + InTable(b) + InMessage(b)
      BY <1>1, <1>6, <2>1, OwnersCountedNext
    <3>3. CASE b = c.buf
      BY <1>4, <2>2, <2>3, <2>4, <3>1, <3>2, <3>3
    <3>4. CASE b # c.buf
      BY <2>2, <2>3, <2>4, <3>1, <3>2, <3>4
    <3> QED
      BY <3>3, <3>4
  <2>6. ref'[b] = ref[b] + (IF b = c.buf THEN c.taken ELSE 0)
    BY <1>1, <1>3, <1>4 DEF Typed
  <2> QED
    <3>1. Owners(b) \in Nat /\ ref[b] \in Nat /\ (IF b = c.buf THEN c.taken ELSE 0) \in Nat
      BY SMTT(30), <1>1, <1>4, OwnersCount
    <3> QED
      BY <2>5, <2>6, <3>1 DEF Surplus
<1> QED
  BY <1>6, <1>7

LEMMA TransmitOwners ==
    ASSUME Inv, Transmit
    PROVE  Typed' /\ \A b \in Buf : Surplus(b)' = Surplus(b)
<1> DEFINE s == Head(tx)
           d == s.buf
<1>1. /\ Typed /\ tx # << >> /\ tx' = Tail(tx) /\ Release(d)
      /\ UNCHANGED <<rx, burst, refreshed, kept, memcached_pkt, failed, calls>>
  BY DEF Inv, Transmit
<1>2. tx \in Seq(Sent) /\ s \in Sent /\ Tail(tx) \in Seq(Sent)
  BY <1>1 DEF Typed
<1>3. d \in Buf
  BY <1>2, SentFields
<1>4. \A b \in Buf : Count(tx, SentIn(b)) = (IF b = d THEN 1 ELSE 0) + Count(tx', SentIn(b))
  <2> SUFFICES ASSUME NEW b \in Buf
               PROVE  Count(tx, SentIn(b)) = (IF b = d THEN 1 ELSE 0) + Count(tx', SentIn(b))
    OBVIOUS
  <2>1. s \in SentIn(b) <=> b = d
    BY <1>2 DEF SentIn
  <2>2. Count(tx, SentIn(b)) = (IF s \in SentIn(b) THEN 1 ELSE 0) + Count(Tail(tx), SentIn(b))
    BY <1>1, <1>2, CountTail
  <2> QED
    BY <1>1, <2>1, <2>2
<1> HIDE DEF s, d
<1>5. \A b \in Buf : Count(tx', SentIn(b)) \in Nat
  BY <1>1, <1>2, CountType
<1>6. ref[d] >= 1
  <2>1. Count(tx, SentIn(d)) >= 1
    BY <1>3, <1>4, <1>5
  <2>2. Owners(d) <= ref[d]
    BY <1>3 DEF Inv, NoUseAfterFree
  <2>3. /\ Owners(d) = Count(rx, PacketIn(d)) + Count(burst, PacketIn(d))
               + Count(tx, SentIn(d)) + Count(calls, OwnedBy(d)) + InTable(d) + InMessage(d)
        /\ Count(rx, PacketIn(d)) \in Nat /\ Count(burst, PacketIn(d)) \in Nat
        /\ Count(tx, SentIn(d)) \in Nat /\ Count(calls, OwnedBy(d)) \in Nat
        /\ InTable(d) \in {0, 1} /\ InMessage(d) \in {0, 1} /\ ref[d] \in Nat
    BY <1>1, <1>3, OwnersCount
  <2> QED
    BY <2>1, <2>2, <2>3
<1>7. /\ ref' \in [Buf -> Nat] /\ hdr' \in [Buf -> Header]
      /\ ref'[d] = ref[d] - 1
      /\ \A b \in Buf : b # d => ref'[b] = ref[b]
  BY <1>1, <1>3, <1>6, ReleaseFacts
<1>8. Typed'
  BY <1>1, <1>2, <1>7 DEF Typed
<1>9. ASSUME NEW b \in Buf
      PROVE  Surplus(b)' = Surplus(b)
  <2>1. InTable(b)' = InTable(b) /\ InMessage(b)' = InMessage(b)
    BY <1>1 DEF InTable, InMessage
  <2>2. Owners(b) = Owners(b)' + (IF b = d THEN 1 ELSE 0)
    BY SMTT(30), <1>1, <1>4, <1>5, <1>8, <2>1, OwnersCount, OwnersCountedNext
  <2>3. ref[b] \in Nat /\ ref'[b] \in Nat
    <3>1. ref[b] \in Nat
      BY <1>1, OwnersCount
    <3>2. ref'[b] \in Nat
      BY <1>7
    <3> QED
      BY <3>1, <3>2
  <2>4. ref[b] = ref'[b] + (IF b = d THEN 1 ELSE 0)
    <3>1. CASE b = d
      BY <1>7, <2>3, <3>1
    <3>2. CASE b # d
      BY <1>7, <2>3, <3>2
    <3> QED
      BY <3>1, <3>2
  <2>5. Owners(b)' \in Nat
    BY <1>8, OwnersCountedNext
  <2> QED
    BY <2>2, <2>3, <2>4, <2>5 DEF Surplus
<1> QED
  BY <1>8, <1>9

LEMMA RefreshOwners ==
    ASSUME Inv, Refresh
    PROVE  /\ Typed' /\ \A b \in Buf : Surplus(b)' = Surplus(b)
           /\ calls' = << >> \/ (memcached_pkt \in Buf /\ calls' = Messages(memcached_pkt, 1))
<1>1. /\ Typed /\ calls = << >> /\ refreshed' = TRUE
      /\ UNCHANGED <<ref, hdr, rx, burst, kept, memcached_pkt, tx, failed>>
  BY DEF Inv, Refresh, Idle
<1>2. calls' = << >> \/ (memcached_pkt \in Buf /\ calls' = Messages(memcached_pkt, 1))
  BY <1>1 DEF Refresh, Typed
<1>3. calls' \in Seq(Call) /\ \A b \in Buf : Count(calls', OwnedBy(b)) = 0
  <2>1. CASE calls' = << >>
    BY <2>1, CountEmpty
  <2>2. CASE memcached_pkt \in Buf /\ calls' = Messages(memcached_pkt, 1)
    BY <2>2, MessagesCalls
  <2> QED
    BY <1>2, <2>1, <2>2
<1>4. Typed'
  BY <1>1, <1>3 DEF Typed
<1>5. \A b \in Buf : Count(calls, OwnedBy(b)) = 0
  BY <1>1, CountEmpty
<1> QED
  BY <1>1, <1>2, <1>3, <1>4, <1>5, SameRefs

LEMMA PollOwners ==
    ASSUME Inv, Poll
    PROVE  Typed' /\ \A b \in Buf : Surplus(b)' = Surplus(b)
<1> DEFINE n == Least(Len(rx), BURST_SIZE)
<1>1. /\ Typed /\ burst = << >> /\ refreshed' = FALSE
      /\ burst' = SubSeq(rx, 1, n) /\ rx' = SubSeq(rx, n + 1, Len(rx))
      /\ UNCHANGED <<ref, hdr, calls, kept, memcached_pkt, tx, failed>>
  BY DEF Inv, Poll
<1>2. rx \in Seq(Packets)
  BY <1>1 DEF Typed
<1>3. n \in 0 .. Len(rx)
  BY <1>2, DatapathAssumption DEF Least
<1> HIDE DEF n
<1>4. burst' \in Seq(Packets) /\ rx' \in Seq(Packets)
  BY <1>1, <1>2, <1>3, CountSplit
<1>5. Typed'
  BY <1>1, <1>4 DEF Typed
<1>6. ASSUME NEW b \in Buf
      PROVE  Count(rx', PacketIn(b)) + Count(burst', PacketIn(b))
                 = Count(rx, PacketIn(b)) + Count(burst, PacketIn(b))
  <2>1. Count(rx, PacketIn(b)) = Count(burst', PacketIn(b)) + Count(rx', PacketIn(b))
    BY <1>1, <1>2, <1>3, CountSplit
  <2>2. Count(burst, PacketIn(b)) = 0
    BY <1>1, CountEmpty
  <2>3. Count(burst', PacketIn(b)) \in Nat /\ Count(rx', PacketIn(b)) \in Nat
    BY <1>4, CountType
  <2> QED
    BY <2>1, <2>2, <2>3
<1> QED
  BY <1>1, <1>5, <1>6, SameRefs

LEMMA ArriveOwners ==
    ASSUME Inv, NEW f \in Frames, Arrive(f)
    PROVE  Typed' /\ \A b \in Buf : Surplus(b)' = Surplus(b)
<1>1. /\ Typed
      /\ UNCHANGED <<burst, refreshed, calls, kept, memcached_pkt, tx, failed>>
  BY DEF Inv, Arrive
<1>2. PICK d \in Pool :
         /\ ref' = [ref EXCEPT ![d] = 1]
         /\ hdr' = [hdr EXCEPT ![d] = [src |-> f.src, dst |-> Local]]
         /\ rx' = Append(rx, [buf |-> d, frame |-> f])
  BY DEF Arrive
<1> DEFINE p == [buf |-> d, frame |-> f]
<1>3. d \in Buf /\ ref[d] = 0
  BY <1>2 DEF Pool
<1>4. p \in Packets /\ p.buf = d /\ rx' = Append(rx, p)
  BY <1>2, <1>3, PacketFields
<1> HIDE DEF p
<1>5. Typed'
  <2>1. ref' \in [Buf -> Nat] /\ rx' \in Seq(Packets)
    BY <1>1, <1>2, <1>3, <1>4 DEF Typed
  <2>2. hdr' \in [Buf -> Header]
    <3>1. [src |-> f.src, dst |-> Local] \in Header
      BY HeaderFields
    <3> QED
      BY <1>1, <1>2, <3>1 DEF Typed
  <2> QED
    BY <1>1, <2>1, <2>2 DEF Typed
<1>6. ASSUME NEW b \in Buf
      PROVE  Surplus(b)' = Surplus(b)
  <2>1. InTable(b)' = InTable(b) /\ InMessage(b)' = InMessage(b)
    BY <1>1 DEF InTable, InMessage
  <2>2. Count(rx', PacketIn(b)) = Count(rx, PacketIn(b)) + (IF b = d THEN 1 ELSE 0)
    <3>1. p \in PacketIn(b) <=> b = d
      BY <1>4 DEF PacketIn
    <3>2. Count(Append(rx, p), PacketIn(b))
            = Count(rx, PacketIn(b)) + (IF p \in PacketIn(b) THEN 1 ELSE 0)
      BY <1>1, <1>4, CountAppend DEF Typed
    <3> QED
      BY <1>4, <3>1, <3>2
  <2>3. /\ Owners(b) = Count(rx, PacketIn(b)) + Count(burst, PacketIn(b))
               + Count(tx, SentIn(b)) + Count(calls, OwnedBy(b)) + InTable(b) + InMessage(b)
        /\ Count(rx, PacketIn(b)) \in Nat /\ Count(burst, PacketIn(b)) \in Nat
        /\ Count(tx, SentIn(b)) \in Nat /\ Count(calls, OwnedBy(b)) \in Nat
        /\ InTable(b) \in {0, 1} /\ InMessage(b) \in {0, 1}
        /\ Owners(b) \in Nat /\ ref[b] \in Nat
    BY <1>1, OwnersCount
  <2>4. Owners(b)' = Count(rx', PacketIn(b)) + Count(burst, PacketIn(b))
               + Count(tx, SentIn(b)) + Count(calls, OwnedBy(b)) + InTable(b) + InMessage(b)
    BY <1>1, <1>5, <2>1, OwnersCountedNext
  <2>5. Owners(b)' = Owners(b) + (IF b = d THEN 1 ELSE 0)
    BY <2>2, <2>3, <2>4
  <2>6. ref'[b] = ref[b] + (IF b = d THEN 1 ELSE 0)
    BY <1>1, <1>2, <1>3 DEF Typed
  <2> QED
    BY <2>3, <2>5, <2>6 DEF Surplus
<1> QED
  BY <1>5, <1>6

\* A handler disposes of the packet it was given: of the owners of an mbuf only
\* those change that the handler makes or removes; what is left over is lost.
LEMMA HandlerOwners ==
    ASSUME Inv, eth_in, NEW left \in {0, 1},
           ref' \in [Buf -> Nat], hdr' \in [Buf -> Header], calls' \in Seq(Call),
           kept' \subseteq Buf, memcached_pkt' \in Buf \cup {NoBuf}, failed' \in BOOLEAN,
           \A b \in Buf :
               ref'[b] + InTable(b) + InMessage(b) + (IF b = Head(burst).buf THEN 1 ELSE 0)
               = ref[b] + Count(calls', OwnedBy(b)) + InTable(b)' + InMessage(b)'
                   + (IF b = Head(burst).buf THEN left ELSE 0)
    PROVE  /\ Typed'
           /\ \A b \in Buf :
                Surplus(b)' = Surplus(b) + (IF b = Head(burst).buf THEN left ELSE 0)
<1> DEFINE p == Head(burst)
<1>1. /\ Typed /\ burst # << >> /\ burst' = Tail(burst) /\ refreshed' = FALSE
      /\ calls = << >> /\ UNCHANGED <<rx, tx>>
  BY DEF Inv, eth_in, Idle
<1>2. burst \in Seq(Packets) /\ p \in Packets /\ Tail(burst) \in Seq(Packets)
  BY <1>1 DEF Typed
<1> HIDE DEF p
<1>3. Typed'
  BY <1>1, <1>2 DEF Typed
<1>4. ASSUME NEW b \in Buf
      PROVE  Surplus(b)' = Surplus(b) + (IF b = p.buf THEN left ELSE 0)
  <2>1. Count(burst, PacketIn(b)) = (IF b = p.buf THEN 1 ELSE 0) + Count(burst', PacketIn(b))
    <3>1. p \in PacketIn(b) <=> b = p.buf
      BY <1>2 DEF PacketIn
    <3>2. Count(burst, PacketIn(b))
            = (IF p \in PacketIn(b) THEN 1 ELSE 0) + Count(Tail(burst), PacketIn(b))
      BY <1>1, <1>2, CountTail DEF p
    <3> QED
      BY <1>1, <3>1, <3>2
  <2>2. /\ Owners(b) = Count(rx, PacketIn(b)) + Count(burst, PacketIn(b))
               + Count(tx, SentIn(b)) + Count(calls, OwnedBy(b)) + InTable(b) + InMessage(b)
        /\ Count(rx, PacketIn(b)) \in Nat /\ Count(tx, SentIn(b)) \in Nat
        /\ InTable(b) \in {0, 1} /\ InMessage(b) \in {0, 1}
        /\ ref[b] \in Nat
    BY <1>1, OwnersCount
  <2>3. Count(calls, OwnedBy(b)) = 0
    BY <1>1, CountEmpty
  <2>4. Count(burst', PacketIn(b)) \in Nat /\ Count(calls', OwnedBy(b)) \in Nat
    BY <1>1, <1>2, CountType
  <2>5. Owners(b)' = Count(rx, PacketIn(b)) + Count(burst', PacketIn(b))
               + Count(tx, SentIn(b)) + Count(calls', OwnedBy(b)) + InTable(b)' + InMessage(b)'
    BY <1>1, <1>3, OwnersCountedNext
  <2>6. InTable(b)' \in {0, 1} /\ InMessage(b)' \in {0, 1} /\ ref'[b] \in Nat
    BY DEF InTable, InMessage
  <2>7. ref'[b] + InTable(b) + InMessage(b) + (IF b = p.buf THEN 1 ELSE 0)
          = ref[b] + Count(calls', OwnedBy(b)) + InTable(b)' + InMessage(b)'
              + (IF b = p.buf THEN left ELSE 0)
    BY DEF p
  <2> DEFINE one == IF b = p.buf THEN 1 ELSE 0
             over == IF b = p.buf THEN left ELSE 0
  <2>8. one \in {0, 1} /\ over \in {0, 1}
    OBVIOUS
  <2>9. /\ Count(burst, PacketIn(b)) = one + Count(burst', PacketIn(b))
        /\ ref'[b] + InTable(b) + InMessage(b) + one
             = ref[b] + Count(calls', OwnedBy(b)) + InTable(b)' + InMessage(b)' + over
    BY <2>1, <2>7
  <2> HIDE DEF one, over
  <2> DEFINE waiting == Count(rx, PacketIn(b))
             rest == Count(burst', PacketIn(b))
             sent == Count(tx, SentIn(b))
             called == Count(calls', OwnedBy(b))
             before == InTable(b) + InMessage(b)
             after == InTable(b)' + InMessage(b)'
             o == Owners(b)
             o2 == Owners(b)'
             n == ref[b]
             n2 == ref'[b]
  <2>10. /\ waiting \in Int /\ rest \in Int /\ sent \in Int /\ called \in Int
         /\ before \in Int /\ after \in Int /\ n \in Int /\ n2 \in Int
    <3>1. /\ InTable(b) \in Int /\ InMessage(b) \in Int
          /\ InTable(b)' \in Int /\ InMessage(b)' \in Int
      BY <2>2, <2>6
    <3> QED
      BY <2>2, <2>4, <2>6, <3>1
  <2>11. o = waiting + one + rest + sent + before
    <3>1. o = waiting + (one + rest) + sent + 0 + InTable(b) + InMessage(b)
      BY <2>2, <2>3, <2>9
    <3>2. InTable(b) \in Int /\ InMessage(b) \in Int
      BY <2>2
    <3> HIDE DEF waiting, rest, sent, o
    <3> QED
      BY <2>8, <2>10, <3>1, <3>2
  <2>12. o2 = waiting + rest + sent + called + after
    <3>1. InTable(b)' \in Int /\ InMessage(b)' \in Int
      BY <2>6
    <3>2. o2 = waiting + rest + sent + called + InTable(b)' + InMessage(b)'
      BY <2>5
    <3> HIDE DEF waiting, rest, sent, called, o2
    <3> QED
      BY <2>10, <3>1, <3>2
  <2>13. n2 + before + one = n + called + after + over
    <3>1. /\ InTable(b) \in Int /\ InMessage(b) \in Int
          /\ InTable(b)' \in Int /\ InMessage(b)' \in Int
      BY <2>2, <2>6
    <3>2. n2 + InTable(b) + InMessage(b) + one
            = n + called + InTable(b)' + InMessage(b)' + over
      BY <2>9
    <3> HIDE DEF called, n, n2
    <3> QED
      BY <2>8, <2>10, <3>1, <3>2
  <2>14. n2 - o2 = n - o + over
    <3> HIDE DEF waiting, rest, sent, called, before, after, o, o2, n, n2
    <3>1. over \in Int /\ one \in Int
      BY <2>8
    <3>2. o \in Int /\ o2 = o - one - before + called + after
      BY <2>10, <2>11, <2>12, <3>1
    <3>3. n2 = n + called + after + over - before - one
      BY <2>10, <2>13, <3>1
    <3> QED
      BY <2>10, <3>1, <3>2, <3>3
  <2> QED
    BY <2>14 DEF Surplus, over
<1> QED
  BY <1>3, <1>4 DEF p

\* The packet that a handler is given.
LEMMA HeadFacts ==
    ASSUME Inv, eth_in
    PROVE  /\ Head(burst) \in Packets
           /\ Head(burst).buf \in Buf /\ Head(burst).frame \in Frames
           /\ ref[Head(burst).buf] = 1
           /\ hdr[Head(burst).buf].src = Head(burst).frame.src
           /\ Head(burst).buf \notin kept /\ Head(burst).buf # memcached_pkt
           /\ Typed /\ calls = << >>
<1>1. Typed /\ calls = << >> /\ burst # << >>
  BY DEF Inv, eth_in, Idle
<1>2. burst \in Seq(Packets)
  BY <1>1 DEF Typed
<1>3. 1 \in DOMAIN burst /\ Head(burst) = burst[1] /\ Head(burst) \in Packets
  BY <1>1, <1>2
<1>4. Head(burst).buf \in Buf /\ Head(burst).frame \in Frames
  BY <1>3, PacketFields
<1>5. InHand(Head(burst).buf)
  BY <1>3 DEF InHand
<1>6. ref[Head(burst).buf] = 1 /\ hdr[Head(burst).buf].src = Head(burst).frame.src
  BY <1>3 DEF Inv, Fresh
<1> QED
  BY <1>1, <1>3, <1>4, <1>5, <1>6, Exclusive

LEMMA EthIgnoreOwners ==
    ASSUME Inv, eth_in, EthIgnore(Head(burst).buf, Head(burst).frame)
    PROVE  /\ Typed'
           /\ \A b \in Buf :
                Surplus(b)' = Surplus(b) + (IF b = Head(burst).buf THEN 1 ELSE 0)
<1>1. calls' = << >> /\ UNCHANGED <<ref, hdr, kept, memcached_pkt, failed>>
  BY HeadFacts DEF EthIgnore
<1>2. \A b \in Buf : Count(calls', OwnedBy(b)) = 0 /\ InTable(b) \in {0, 1}
          /\ InMessage(b) \in {0, 1} /\ InTable(b)' = InTable(b) /\ InMessage(b)' = InMessage(b)
  BY <1>1, CountEmpty DEF InTable, InMessage
<1>3. /\ ref' \in [Buf -> Nat] /\ hdr' \in [Buf -> Header] /\ kept' \subseteq Buf
      /\ memcached_pkt' \in Buf \cup {NoBuf} /\ failed' \in BOOLEAN /\ calls' \in Seq(Call)
  BY <1>1, HeadFacts DEF Typed
<1>4. \A b \in Buf :
          ref'[b] + InTable(b) + InMessage(b) + (IF b = Head(burst).buf THEN 1 ELSE 0)
          = ref[b] + Count(calls', OwnedBy(b)) + InTable(b)' + InMessage(b)'
              + (IF b = Head(burst).buf THEN 1 ELSE 0)
  BY <1>1, <1>2, <1>3
<1> QED
  BY <1>3, <1>4, HandlerOwners

\* The handlers that leave one call for their packet: ip_in, udp_in and
\* app_server_in free it, arp_in sends it back.
LEMMA OneCallOwners ==
    ASSUME Inv, eth_in, NEW c \in Call, calls' = <<c>>,
           UNCHANGED <<ref, hdr, kept, memcached_pkt, failed>>,
           \A b \in Buf : c \in OwnedBy(b) <=> b = Head(burst).buf
    PROVE  Typed' /\ \A b \in Buf : Surplus(b)' = Surplus(b)
<1>1. \A b \in Buf : InTable(b) \in {0, 1}
          /\ InMessage(b) \in {0, 1} /\ InTable(b)' = InTable(b) /\ InMessage(b)' = InMessage(b)
  BY DEF InTable, InMessage
<1>2. \A b \in Buf : Count(calls', OwnedBy(b)) = IF b = Head(burst).buf THEN 1 ELSE 0
  BY CountOne
<1>3. /\ ref' \in [Buf -> Nat] /\ hdr' \in [Buf -> Header] /\ kept' \subseteq Buf
      /\ memcached_pkt' \in Buf \cup {NoBuf} /\ failed' \in BOOLEAN /\ calls' \in Seq(Call)
  BY HeadFacts DEF Typed
<1>4. \A b \in Buf :
          ref'[b] + InTable(b) + InMessage(b) + (IF b = Head(burst).buf THEN 1 ELSE 0)
          = ref[b] + Count(calls', OwnedBy(b)) + InTable(b)' + InMessage(b)'
              + (IF b = Head(burst).buf THEN 0 ELSE 0)
  BY <1>1, <1>2, <1>3
<1>5. \A b \in Buf : Surplus(b)' = Surplus(b) + (IF b = Head(burst).buf THEN 0 ELSE 0)
  BY <1>3, <1>4, HandlerOwners
<1>6. \A b \in Buf : Surplus(b) \in Int
  BY SMTT(30), HeadFacts, OwnersCount DEF Surplus
<1>7. Typed'
  BY <1>3, <1>4, HandlerOwners
<1> QED
  BY <1>5, <1>6, <1>7

LEMMA DropOwners ==
    ASSUME Inv, eth_in,
           IpDrop(Head(burst).buf, Head(burst).frame)
              \/ ServerDrop(Head(burst).buf, Head(burst).frame)
    PROVE  Typed' /\ \A b \in Buf : Surplus(b)' = Surplus(b)
<1> DEFINE d == Head(burst).buf
<1>1. calls' = <<Free(d)>> /\ UNCHANGED <<ref, hdr, kept, memcached_pkt, failed>>
  BY DEF IpDrop, ServerDrop
<1>2. d \in Buf
  BY HeadFacts
<1>3. Free(d) \in Call /\ \A b \in Buf : Free(d) \in OwnedBy(b) <=> b = d
  BY <1>2, FreeFields, Owning
<1> QED
  BY <1>1, <1>3, OneCallOwners

LEMMA ArpReplyOwners ==
    ASSUME Inv, eth_in, ArpReply(Head(burst).buf, Head(burst).frame)
    PROVE  Typed' /\ \A b \in Buf : Surplus(b)' = Surplus(b)
<1> DEFINE d == Head(burst).buf
           a == Head(burst).frame.src
<1>1. calls' = <<Send(d, a, 0)>> /\ UNCHANGED <<ref, hdr, kept, memcached_pkt, failed>>
  BY DEF ArpReply
<1>2. d \in Buf /\ a \in Addr
  BY HeadFacts, HeaderFields
<1>3. Send(d, a, 0) \in Call /\ \A b \in Buf : Send(d, a, 0) \in OwnedBy(b) <=> b = d
  BY <1>2, SendFields, Owning
<1> QED
  BY <1>1, <1>3, OneCallOwners

\* The choices of ServerForward and of AppClientIn.
Forwards(waiting, n, complete, chain) ==
    /\ memcached_pkt \in Buf
    /\ waiting \in SUBSET kept /\ n \in 0 .. 1 /\ complete \in BOOLEAN
    /\ chain \in SetToSeqs(waiting)
    /\ calls' = Forward(Head(burst).buf, chain) \o <<Free(Head(burst).buf)>>
                   \o Messages(memcached_pkt, n)
                   \o (IF complete THEN FreeAll(waiting) ELSE << >>)
    /\ kept' = IF complete THEN kept \ waiting ELSE kept
    /\ UNCHANGED <<ref, hdr, memcached_pkt, failed>>

Registers(pkt, n, evicted, copies) ==
    /\ Accepted(Head(burst).frame)
    /\ pkt \in InitMemcachedPkt(Head(burst).buf, Pool)
    /\ n \in Nat /\ evicted \in SUBSET kept
    /\ copies \subseteq Pool \ {pkt}
    /\ memcached_pkt' = pkt
    /\ ref' = [d \in Buf |-> IF d \in copies \cup ({pkt} \cap Pool) THEN 1 ELSE ref[d]]
    /\ hdr' = [d \in Buf |-> IF d \in copies \cup ({pkt} \cap Pool)
                             THEN hdr[Head(burst).buf] ELSE hdr[d]]
    /\ kept' = (kept \ evicted) \cup {Head(burst).buf} \cup copies
    /\ failed' \in BOOLEAN
    /\ calls' = FreeAll(evicted) \o (IF pkt = NoBuf THEN << >> ELSE Messages(pkt, n))

LEMMA ServerForwardChoices ==
    ASSUME Inv, eth_in, ServerForward(Head(burst).buf, Head(burst).frame)
    PROVE  \E waiting, n, complete, chain : Forwards(waiting, n, complete, chain)
<1>1. memcached_pkt \in Buf
  BY HeadFacts DEF ServerForward, Typed
<1> QED
  BY <1>1 DEF Inv, ServerForward, Deleted, Forwards

LEMMA AppClientInChoices ==
    ASSUME Inv, eth_in, AppClientIn(Head(burst).buf, Head(burst).frame)
    PROVE  \E pkt, n, evicted, copies : Registers(pkt, n, evicted, copies)
<1> DEFINE b == Head(burst).buf
<1>1. PICK pkt \in InitMemcachedPkt(b, Pool), more \in 0 .. MaxCopies, n \in 0 .. MaxMessages,
          evicted \in SUBSET kept, null \in BOOLEAN :
       \E copies \in kSubset(Least(more, Cardinality(Pool \ {pkt})), Pool \ {pkt}) :
         /\ memcached_pkt' = pkt
         /\ LET new == copies \cup ({pkt} \cap Pool)
            IN  /\ ref' = [d \in Buf |-> IF d \in new THEN 1 ELSE ref[d]]
                /\ hdr' = [d \in Buf |-> IF d \in new THEN hdr[b] ELSE hdr[d]]
         /\ kept' = (kept \ evicted) \cup {b} \cup copies
         /\ Cardinality(kept') <= MaxKept
         /\ null => Cardinality(copies) < more
         /\ failed' = (null \/ (n > 0 /\ pkt = NoBuf))
         /\ calls' = FreeAll(evicted) \o (IF pkt = NoBuf THEN << >> ELSE Messages(pkt, n))
  BY Zenon DEF AppClientIn
<1>2. PICK copies \in kSubset(Least(more, Cardinality(Pool \ {pkt})), Pool \ {pkt}) :
         /\ memcached_pkt' = pkt
         /\ ref' = [d \in Buf |-> IF d \in copies \cup ({pkt} \cap Pool) THEN 1 ELSE ref[d]]
         /\ hdr' = [d \in Buf |-> IF d \in copies \cup ({pkt} \cap Pool) THEN hdr[b] ELSE hdr[d]]
         /\ kept' = (kept \ evicted) \cup {b} \cup copies
         /\ failed' = (null \/ (n > 0 /\ pkt = NoBuf))
         /\ calls' = FreeAll(evicted) \o (IF pkt = NoBuf THEN << >> ELSE Messages(pkt, n))
  BY <1>1, Zenon
<1>3. copies \subseteq Pool \ {pkt}
  BY <1>2 DEF kSubset
<1>4. failed' \in BOOLEAN
  BY <1>2, Zenon
<1>5. n \in Nat
  BY DatapathAssumption
<1>6. Accepted(Head(burst).frame)
  BY DEF AppClientIn
<1>7. Registers(pkt, n, evicted, copies)
  BY <1>2, <1>3, <1>4, <1>5, <1>6, Zenon DEF Registers
<1> QED
  BY <1>7

\* What leaves with a reply: nothing but the reply loses an owner to a call,
\* unless the chain is freed.
LEMMA ForwardsCalls ==
    ASSUME Inv, eth_in, NEW waiting, NEW n, NEW complete, NEW chain,
           Forwards(waiting, n, complete, chain)
    PROVE  /\ calls' \in Seq(Call)
           /\ \A b \in Buf : Count(calls', OwnedBy(b)) =
                (IF b = Head(burst).buf THEN 1 ELSE 0)
                + (IF complete /\ b \in waiting THEN 1 ELSE 0)
<1> DEFINE d == Head(burst).buf
           A == Forward(d, chain)
           B == <<Free(d)>>
           C == Messages(memcached_pkt, n)
           D == IF complete THEN FreeAll(waiting) ELSE << >>
<1>1. /\ Typed /\ d \in Buf /\ memcached_pkt \in Buf /\ n \in Nat
      /\ waiting \in SUBSET kept /\ waiting \in SUBSET Buf
  BY HeadFacts DEF Forwards, Typed
<1>2. calls' = ((A \o B) \o C) \o D
  BY DEF Forwards
<1>3. A \in Seq(Call) /\ \A b \in Buf : Count(A, OwnedBy(b)) = 0
  BY <1>1, ForwardCalls DEF Forwards
<1>4. B \in Seq(Call) /\ \A b \in Buf : Count(B, OwnedBy(b)) = IF b = d THEN 1 ELSE 0
  BY <1>1, FreeCall
<1>5. C \in Seq(Call) /\ \A b \in Buf : Count(C, OwnedBy(b)) = 0
  BY <1>1, MessagesCalls
<1>6. /\ D \in Seq(Call)
      /\ \A b \in Buf : Count(D, OwnedBy(b)) = IF complete /\ b \in waiting THEN 1 ELSE 0
  <2>1. CASE complete
    BY <1>1, <2>1, FreeAllCalls
  <2>2. CASE ~ complete
    BY <2>2, CountEmpty
  <2> QED
    BY <2>1, <2>2
<1> HIDE DEF A, B, C, D
<1>7. A \o B \in Seq(Call) /\ (A \o B) \o C \in Seq(Call) /\ ((A \o B) \o C) \o D \in Seq(Call)
  BY <1>3, <1>4, <1>5, <1>6
<1>8. ASSUME NEW b \in Buf
      PROVE  Count(calls', OwnedBy(b)) =
                (IF b = d THEN 1 ELSE 0) + (IF complete /\ b \in waiting THEN 1 ELSE 0)
  <2>1. Count(A \o B, OwnedBy(b)) = Count(A, OwnedBy(b)) + Count(B, OwnedBy(b))
    BY <1>3, <1>4, CountConcat
  <2>2. Count((A \o B) \o C, OwnedBy(b)) = Count(A \o B, OwnedBy(b)) + Count(C, OwnedBy(b))
    BY <1>5, <1>7, CountConcat
  <2>3. Count(((A \o B) \o C) \o D, OwnedBy(b))
          = Count((A \o B) \o C, OwnedBy(b)) + Count(D, OwnedBy(b))
    BY <1>6, <1>7, CountConcat
  <2> QED
    BY <1>2, <1>3, <1>4, <1>5, <1>6, <2>1, <2>2, <2>3
<1> QED
  BY <1>2, <1>7, <1>8

LEMMA RegistersCalls ==
    ASSUME Inv, eth_in, NEW pkt, NEW n, NEW evicted, NEW copies,
           Registers(pkt, n, evicted, copies)
    PROVE  /\ calls' \in Seq(Call) /\ pkt \in Buf \cup {NoBuf}
           /\ \A i \in DOMAIN calls' :
                calls'[i].call = "send" => pkt \in Buf /\ calls'[i] = Send(pkt, Server, 1)
           /\ \A b \in Buf : Count(calls', OwnedBy(b)) = IF b \in evicted THEN 1 ELSE 0
<1> DEFINE A == FreeAll(evicted)
           B == IF pkt = NoBuf THEN << >> ELSE Messages(pkt, n)
<1>1. pkt \in Buf \cup {NoBuf} /\ n \in Nat /\ evicted \in SUBSET Buf
  <2>1. InitMemcachedPkt(Head(burst).buf, Pool) \subseteq Buf \cup {NoBuf} /\ kept \subseteq Buf
    BY HeadFacts DEF InitMemcachedPkt, Pool, Typed
  <2> QED
    BY <2>1 DEF Registers
<1>2. calls' = A \o B
  BY DEF Registers
<1>3. /\ A \in Seq(Call)
      /\ \A i \in DOMAIN A : A[i].call = "free"
      /\ \A b \in Buf : Count(A, OwnedBy(b)) = IF b \in evicted THEN 1 ELSE 0
  BY <1>1, FreeAllCalls
<1>4. /\ B \in Seq(Call)
      /\ \A i \in DOMAIN B : pkt \in Buf /\ B[i] = Send(pkt, Server, 1)
      /\ \A b \in Buf : Count(B, OwnedBy(b)) = 0
  <2>1. CASE pkt = NoBuf
    BY <2>1, CountEmpty
  <2>2. CASE pkt # NoBuf
    BY <1>1, <2>2, MessagesCalls
  <2> QED
    BY <2>1, <2>2
<1> HIDE DEF A, B
<1>5. A \o B \in Seq(Call)
  BY <1>3, <1>4
<1>6. ASSUME NEW b \in Buf
      PROVE  Count(A \o B, OwnedBy(b)) = IF b \in evicted THEN 1 ELSE 0
  <2>1. Count(A \o B, OwnedBy(b)) = Count(A, OwnedBy(b)) + Count(B, OwnedBy(b))
    BY <1>3, <1>4, CountConcat
  <2> QED
    BY <1>3, <1>4, <2>1
<1>7. ASSUME NEW i \in DOMAIN (A \o B), (A \o B)[i].call = "send"
      PROVE  pkt \in Buf /\ (A \o B)[i] = Send(pkt, Server, 1)
  <2>1. /\ Len(A) \in Nat /\ Len(B) \in Nat
        /\ DOMAIN A = 1 .. Len(A) /\ DOMAIN B = 1 .. Len(B)
        /\ i \in 1 .. Len(A) + Len(B)
        /\ (A \o B)[i] = IF i <= Len(A) THEN A[i] ELSE B[i - Len(A)]
    BY <1>3, <1>4, ConcatProperties
  <2>2. CASE i <= Len(A)
    <3>1. A[i].call = "free"
      BY <1>3, <2>1, <2>2
    <3> QED
      BY <1>7, <2>1, <2>2, <3>1
  <2>3. CASE i > Len(A)
    <3>1. i - Len(A) \in DOMAIN B
      BY <2>1, <2>3
    <3> QED
      BY <1>4, <2>1, <2>3, <3>1
  <2> QED
    BY <2>1, <2>2, <2>3
<1> QED
  BY <1>1, <1>2, <1>5, <1>6, <1>7

LEMMA ForwardsOwners ==
    ASSUME Inv, eth_in, NEW waiting, NEW n, NEW complete, NEW chain,
           Forwards(waiting, n, complete, chain)
    PROVE  Typed' /\ \A b \in Buf : Surplus(b)' = Surplus(b)
<1> DEFINE d == Head(burst).buf
<1>1. /\ Typed /\ waiting \in SUBSET kept /\ complete \in BOOLEAN
      /\ kept' = IF complete THEN kept \ waiting ELSE kept
      /\ UNCHANGED <<ref, hdr, memcached_pkt, failed>>
  BY HeadFacts DEF Forwards
<1>2. /\ calls' \in Seq(Call)
      /\ \A b \in Buf : Count(calls', OwnedBy(b)) =
           (IF b = d THEN 1 ELSE 0) + (IF complete /\ b \in waiting THEN 1 ELSE 0)
  BY ForwardsCalls
<1>3. /\ ref' \in [Buf -> Nat] /\ hdr' \in [Buf -> Header] /\ kept' \subseteq Buf
      /\ memcached_pkt' \in Buf \cup {NoBuf} /\ failed' \in BOOLEAN
  BY <1>1 DEF Typed
<1>4. ASSUME NEW b \in Buf
      PROVE  ref'[b] + InTable(b) + InMessage(b) + (IF b = d THEN 1 ELSE 0)
               = ref[b] + Count(calls', OwnedBy(b)) + InTable(b)' + InMessage(b)'
                   + (IF b = d THEN 0 ELSE 0)
  <2>1. InMessage(b)' = InMessage(b) /\ InMessage(b) \in {0, 1} /\ ref'[b] = ref[b] /\ ref[b] \in Nat
    BY <1>1 DEF InMessage, Typed
  <2>2. InTable(b) = InTable(b)' + (IF complete /\ b \in waiting THEN 1 ELSE 0)
    BY <1>1 DEF InTable
  <2>3. InTable(b)' \in {0, 1}
    BY DEF InTable
  <2> QED
    BY <1>2, <2>1, <2>2, <2>3
<1>5. Typed' /\ \A b \in Buf : Surplus(b)' = Surplus(b) + (IF b = d THEN 0 ELSE 0)
  <2> HIDE DEF Typed
  <2> QED
    BY <1>2, <1>3, <1>4, HandlerOwners
<1>6. \A b \in Buf : Surplus(b) \in Int
  BY <1>1, OwnersCount DEF Surplus
<1> QED
  BY <1>5, <1>6

\* What the packet, its copies and the message own afterwards. An mbuf that is taken
\* from the pool had no owner.
LEMMA RegistersParts ==
    ASSUME Inv, eth_in, NEW pkt, NEW n, NEW evicted, NEW copies,
           Registers(pkt, n, evicted, copies)
    PROVE  /\ \A b \in copies : b \in Buf /\ ref[b] = 0 /\ b # pkt
           /\ pkt = memcached_pkt \/ (pkt \in Buf /\ ref[pkt] = 0 /\ memcached_pkt = NoBuf)
           /\ \A b \in Buf : ref[b] = 0 =>
                b \notin kept /\ b # memcached_pkt /\ b # Head(burst).buf
           /\ \A b \in Buf : ref'[b] = IF b \in copies \/ (b = pkt /\ ref[b] = 0)
                                       THEN 1 ELSE ref[b]
           /\ \A b \in Buf : hdr'[b] = IF b \in copies \/ (b = pkt /\ ref[b] = 0)
                                       THEN hdr[Head(burst).buf] ELSE hdr[b]
           /\ ref' \in [Buf -> Nat] /\ hdr' \in [Buf -> Header]
           /\ Head(burst).buf # pkt /\ Head(burst).buf \notin copies
<1>1. Typed /\ ref[Head(burst).buf] = 1 /\ Head(burst).buf \in Buf /\ Head(burst).buf # memcached_pkt
  BY HeadFacts
<1>2. \A b \in copies : b \in Buf /\ ref[b] = 0 /\ b # pkt
  BY DEF Registers, Pool
<1>3. pkt = memcached_pkt \/ (pkt \in Buf /\ ref[pkt] = 0 /\ memcached_pkt = NoBuf)
  BY DEF Registers, InitMemcachedPkt, Pool
<1>4. \A b \in Buf : b \in copies \cup ({pkt} \cap Pool)
                        <=> b \in copies \/ (b = pkt /\ ref[b] = 0)
  BY DEF Pool
<1>5. \A b \in Buf : ref'[b] = IF b \in copies \/ (b = pkt /\ ref[b] = 0) THEN 1 ELSE ref[b]
  BY <1>4 DEF Registers
<1>6. \A b \in Buf : hdr'[b] = IF b \in copies \/ (b = pkt /\ ref[b] = 0)
                               THEN hdr[Head(burst).buf] ELSE hdr[b]
  BY <1>4 DEF Registers
<1>7. ref' \in [Buf -> Nat] /\ hdr' \in [Buf -> Header]
  BY <1>1 DEF Registers, Typed
<1>8. \A b \in Buf : ref[b] = 0 => b \notin kept /\ b # memcached_pkt /\ b # Head(burst).buf
  BY <1>1, PoolUnowned
<1>9. Head(burst).buf # pkt /\ Head(burst).buf \notin copies
  BY <1>1, <1>2, <1>3
<1> QED
  BY <1>2, <1>3, <1>5, <1>6, <1>7, <1>8, <1>9

LEMMA RegistersOwners ==
    ASSUME Inv, eth_in, NEW pkt, NEW n, NEW evicted, NEW copies,
           Registers(pkt, n, evicted, copies)
    PROVE  Typed' /\ \A b \in Buf : Surplus(b)' = Surplus(b)
<1> DEFINE d == Head(burst).buf
<1>1. /\ Typed /\ evicted \in SUBSET kept /\ kept \subseteq Buf
      /\ kept' = (kept \ evicted) \cup {d} \cup copies
      /\ memcached_pkt' = pkt /\ failed' \in BOOLEAN
      /\ d \in Buf /\ d \notin kept /\ d # memcached_pkt /\ ref[d] = 1
      /\ ref \in [Buf -> Nat]
  BY HeadFacts DEF Registers, Typed
<1>2. /\ calls' \in Seq(Call) /\ pkt \in Buf \cup {NoBuf}
      /\ \A b \in Buf : Count(calls', OwnedBy(b)) = IF b \in evicted THEN 1 ELSE 0
  BY RegistersCalls
<1>3. /\ \A b \in copies : b \in Buf /\ ref[b] = 0 /\ b # pkt
      /\ pkt = memcached_pkt \/ (pkt \in Buf /\ ref[pkt] = 0 /\ memcached_pkt = NoBuf)
      /\ \A b \in Buf : ref[b] = 0 => b \notin kept /\ b # memcached_pkt /\ b # d
      /\ \A b \in Buf : ref'[b] = IF b \in copies \/ (b = pkt /\ ref[b] = 0) THEN 1 ELSE ref[b]
      /\ ref' \in [Buf -> Nat] /\ hdr' \in [Buf -> Header]
      /\ d # pkt /\ d \notin copies
  BY RegistersParts
<1>4. kept' \subseteq Buf /\ memcached_pkt' \in Buf \cup {NoBuf}
  BY <1>1, <1>2, <1>3
<1>5. ASSUME NEW b \in Buf
      PROVE  ref'[b] + InTable(b) + InMessage(b) + (IF b = d THEN 1 ELSE 0)
               = ref[b] + Count(calls', OwnedBy(b)) + InTable(b)' + InMessage(b)'
                   + (IF b = d THEN 0 ELSE 0)
  <2>0. /\ InTable(b)' = (IF b \in kept' THEN 1 ELSE 0)
        /\ InMessage(b)' = (IF b = memcached_pkt' THEN 1 ELSE 0)
        /\ ref[b] \in Nat /\ memcached_pkt' = pkt /\ b # NoBuf
    BY <1>1, DatapathAssumption DEF InTable, InMessage
  <2>1. CASE b \in copies
    <3>1. ref'[b] = 1 /\ ref[b] = 0 /\ InTable(b)' = 1 /\ InMessage(b)' = 0
      BY <1>1, <1>3, <2>0, <2>1
    <3>2. InTable(b) = 0 /\ InMessage(b) = 0 /\ b # d /\ Count(calls', OwnedBy(b)) = 0
      BY <1>1, <1>2, <1>3, <2>1 DEF InTable, InMessage
    <3> QED
      BY <3>1, <3>2
  <2>2. CASE b = pkt /\ ref[b] = 0 /\ b \notin copies
    <3>1. ref'[b] = 1 /\ ref[b] = 0 /\ InTable(b)' = 0 /\ InMessage(b)' = 1
      BY <1>1, <1>3, <2>0, <2>2
    <3>2. InTable(b) = 0 /\ InMessage(b) = 0 /\ b # d /\ Count(calls', OwnedBy(b)) = 0
      BY <1>1, <1>2, <1>3, <2>2 DEF InTable, InMessage
    <3> QED
      BY <3>1, <3>2
  <2>3. CASE b = d
    <3>1. ref'[b] = 1 /\ ref[b] = 1 /\ InTable(b)' = 1 /\ InMessage(b)' = 0
      BY <1>1, <1>3, <2>0, <2>3
    <3>2. InTable(b) = 0 /\ InMessage(b) = 0 /\ Count(calls', OwnedBy(b)) = 0
      BY <1>1, <1>2, <2>3 DEF InTable, InMessage
    <3> QED
      BY <2>3, <3>1, <3>2
  <2>4. CASE b \notin copies /\ ~ (b = pkt /\ ref[b] = 0) /\ b # d
    <3>1. ref'[b] = ref[b]
      BY <1>3, <2>4
    <3>2. b = memcached_pkt <=> b = pkt
      BY <1>3, <2>0, <2>4
    <3>3. InMessage(b)' = InMessage(b) /\ InMessage(b) \in {0, 1}
      BY <2>0, <3>2 DEF InMessage
    <3>4. /\ InTable(b) = InTable(b)' + (IF b \in evicted THEN 1 ELSE 0)
          /\ InTable(b)' \in {0, 1}
      BY <1>1, <2>0, <2>4 DEF InTable
    <3>5. Count(calls', OwnedBy(b)) = IF b \in evicted THEN 1 ELSE 0
      BY <1>2
    <3> QED
      BY <2>0, <2>4, <3>1, <3>3, <3>4, <3>5
  <2> QED
    BY <2>1, <2>2, <2>3, <2>4
<1>6. Typed' /\ \A b \in Buf : Surplus(b)' = Surplus(b) + (IF b = d THEN 0 ELSE 0)
  BY <1>1, <1>2, <1>3, <1>4, <1>5, HandlerOwners
<1>7. \A b \in Buf : Surplus(b) \in Int
  BY <1>1, OwnersCount DEF Surplus
<1> QED
  BY <1>6, <1>7

----------------------------------------------------------------------------
(* All steps together. *)

LEMMA StepCases ==
    ASSUME Inv, [Next]_vars
    PROVE  \/ Perform /\ PerformFree(Head(calls))
           \/ Perform /\ PerformSend(Head(calls))
           \/ Refresh
           \/ Poll
           \/ eth_in /\ EthIgnore(Head(burst).buf, Head(burst).frame)
           \/ eth_in /\ \/ IpDrop(Head(burst).buf, Head(burst).frame)
                        \/ ServerDrop(Head(burst).buf, Head(burst).frame)
           \/ eth_in /\ ArpReply(Head(burst).buf, Head(burst).frame)
           \/ eth_in /\ \E waiting, n, complete, chain : Forwards(waiting, n, complete, chain)
           \/ eth_in /\ \E pkt, n, evicted, copies : Registers(pkt, n, evicted, copies)
           \/ Transmit
           \/ \E f \in Frames : Arrive(f)
           \/ UNCHANGED vars
<1>1. CASE Perform
  BY <1>1 DEF Perform
<1>2. CASE eth_in
  <2>1. \/ EthIgnore(Head(burst).buf, Head(burst).frame)
        \/ IpDrop(Head(burst).buf, Head(burst).frame)
        \/ ServerDrop(Head(burst).buf, Head(burst).frame)
        \/ ArpReply(Head(burst).buf, Head(burst).frame)
        \/ ServerForward(Head(burst).buf, Head(burst).frame)
        \/ AppClientIn(Head(burst).buf, Head(burst).frame)
    BY <1>2, Zenon DEF eth_in
  <2> QED
    BY <1>2, <2>1, ServerForwardChoices, AppClientInChoices
<1> QED
  BY <1>1, <1>2 DEF Next, Dead

\* Types, and the surplus of every mbuf, which only a frame that is ignored changes.
LEMMA StepOwners ==
    ASSUME Inv, [Next]_vars
    PROVE  /\ Typed'
           /\ \/ \A b \in Buf : Surplus(b)' = Surplus(b)
              \/ /\ eth_in /\ Ignored(Head(burst).frame)
                 /\ \A b \in Buf :
                      Surplus(b)' = Surplus(b) + (IF b = Head(burst).buf THEN 1 ELSE 0)
<1>1. CASE UNCHANGED vars
  <2>1. Typed'
    BY <1>1 DEF Inv, Typed, vars
  <2>2. \A b \in Buf : Surplus(b)' = Surplus(b)
    BY <1>1 DEF vars, Surplus, Owners, Holds
  <2> QED
    BY <2>1, <2>2
<1>2. CASE eth_in /\ EthIgnore(Head(burst).buf, Head(burst).frame)
  <2>1. Ignored(Head(burst).frame)
    BY <1>2 DEF EthIgnore
  <2> QED
    BY <1>2, <2>1, EthIgnoreOwners
<1>3. CASE eth_in /\ \E waiting, n, complete, chain : Forwards(waiting, n, complete, chain)
  BY <1>3, ForwardsOwners
<1>4. CASE eth_in /\ \E pkt, n, evicted, copies : Registers(pkt, n, evicted, copies)
  BY <1>4, RegistersOwners
<1>5. CASE \E f \in Frames : Arrive(f)
  BY <1>5, ArriveOwners
<1>6. CASE \/ Perform /\ PerformFree(Head(calls))
           \/ Perform /\ PerformSend(Head(calls))
           \/ Refresh \/ Poll \/ Transmit
  BY <1>6, PerformFreeOwners, PerformSendOwners, RefreshOwners, PollOwners, TransmitOwners
<1>7. CASE eth_in /\ \/ IpDrop(Head(burst).buf, Head(burst).frame)
                     \/ ServerDrop(Head(burst).buf, Head(burst).frame)
                     \/ ArpReply(Head(burst).buf, Head(burst).frame)
  BY <1>7, DropOwners, ArpReplyOwners
<1> QED
  BY <1>1, <1>2, <1>3, <1>4, <1>5, <1>6, <1>7, StepCases

LEMMA SurplusInt ==
    ASSUME Typed
    PROVE  \A b \in Buf : /\ Surplus(b) \in Int
                          /\ Owners(b) <= ref[b] <=> Surplus(b) >= 0
                          /\ Owners(b) < ref[b] <=> Surplus(b) > 0
<1> SUFFICES ASSUME NEW b \in Buf
             PROVE  /\ Surplus(b) \in Int
                    /\ Owners(b) <= ref[b] <=> Surplus(b) >= 0
                    /\ Owners(b) < ref[b] <=> Surplus(b) > 0
  OBVIOUS
<1>1. Owners(b) \in Nat /\ ref[b] \in Nat /\ Surplus(b) = ref[b] - Owners(b)
  BY OwnersCount DEF Surplus
<1> QED
  BY <1>1

LEMMA SurplusIntNext ==
    ASSUME Typed'
    PROVE  \A b \in Buf : /\ Surplus(b)' \in Int
                          /\ Owners(b)' <= ref'[b] <=> Surplus(b)' >= 0
                          /\ Owners(b)' < ref'[b] <=> Surplus(b)' > 0
<1> SUFFICES ASSUME NEW b \in Buf
             PROVE  /\ Surplus(b)' \in Int
                    /\ Owners(b)' <= ref'[b] <=> Surplus(b)' >= 0
                    /\ Owners(b)' < ref'[b] <=> Surplus(b)' > 0
  OBVIOUS
<1>1. Owners(b)' \in Nat /\ ref'[b] \in Nat /\ Surplus(b)' = ref'[b] - Owners(b)'
  BY OwnersCountedNext DEF Surplus
<1> QED
  BY <1>1

LEMMA StepNoUseAfterFree ==
    ASSUME Inv, [Next]_vars
    PROVE  NoUseAfterFree'
<1>1. Typed /\ Typed' /\ NoUseAfterFree
  BY StepOwners DEF Inv
<1>2. ASSUME NEW b \in Buf
      PROVE  Owners(b)' <= ref'[b]
  <2>1. Surplus(b) \in Int /\ Surplus(b) >= 0
    BY <1>1, SurplusInt DEF NoUseAfterFree
  <2>2. Surplus(b)' = Surplus(b) \/ Surplus(b)' = Surplus(b) + 1
    <3>1. CASE \A d \in Buf : Surplus(d)' = Surplus(d)
      BY <3>1
    <3>2. CASE \A d \in Buf :
                 Surplus(d)' = Surplus(d) + (IF d = Head(burst).buf THEN 1 ELSE 0)
      BY <2>1, <3>2
    <3> QED
      BY <3>1, <3>2, StepOwners
  <2>3. Surplus(b)' >= 0
    BY <2>1, <2>2
  <2> QED
    BY <1>1, <2>3, SurplusIntNext
<1> QED
  BY <1>2 DEF NoUseAfterFree

----------------------------------------------------------------------------
(* Packets that no handler has seen. *)

\* Nothing is done to them by a step that works on other mbufs.
LEMMA FreshKept ==
    ASSUME NEW q, Fresh(q),
           \A i \in DOMAIN q : ref'[q[i].buf] = ref[q[i].buf] /\ hdr'[q[i].buf] = hdr[q[i].buf]
    PROVE  \A i \in DOMAIN q : ref'[q[i].buf] = 1 /\ hdr'[q[i].buf].src = q[i].frame.src
  BY DEF Fresh

LEMMA FreshNext ==
    /\ Fresh(rx)' <=> \A i \in DOMAIN rx' :
            ref'[rx'[i].buf] = 1 /\ hdr'[rx'[i].buf].src = rx'[i].frame.src
    /\ Fresh(burst)' <=> \A i \in DOMAIN burst' :
            ref'[burst'[i].buf] = 1 /\ hdr'[burst'[i].buf].src = burst'[i].frame.src
  BY DEF Fresh

\* The buffers in rx and in burst.
LEMMA HandBufs ==
    ASSUME Inv
    PROVE  /\ \A i \in DOMAIN rx : rx[i].buf \in Buf /\ InHand(rx[i].buf)
           /\ \A i \in DOMAIN burst : burst[i].buf \in Buf /\ InHand(burst[i].buf)
<1>1. /\ \A i \in DOMAIN rx : rx[i] \in Packets
      /\ \A i \in DOMAIN burst : burst[i] \in Packets
  BY DEF Inv, Typed
<1> QED
  BY <1>1, PacketFields DEF InHand

\* A step that touches one mbuf, and not one of them.
LEMMA FreshOther ==
    ASSUME Inv, NEW d \in Buf, ~ InHand(d), UNCHANGED <<rx, burst>>,
           \A b \in Buf : b # d => ref'[b] = ref[b] /\ hdr'[b] = hdr[b]
    PROVE  Fresh(rx)' /\ Fresh(burst)'
<1>1. Fresh(rx) /\ Fresh(burst)
  BY DEF Inv
<1>2. /\ \A i \in DOMAIN rx : ref'[rx[i].buf] = ref[rx[i].buf] /\ hdr'[rx[i].buf] = hdr[rx[i].buf]
      /\ \A i \in DOMAIN burst :
            ref'[burst[i].buf] = ref[burst[i].buf] /\ hdr'[burst[i].buf] = hdr[burst[i].buf]
  BY HandBufs
<1>3. /\ \A i \in DOMAIN rx : ref'[rx[i].buf] = 1 /\ hdr'[rx[i].buf].src = rx[i].frame.src
      /\ \A i \in DOMAIN burst :
            ref'[burst[i].buf] = 1 /\ hdr'[burst[i].buf].src = burst[i].frame.src
  BY <1>1, <1>2, FreshKept
<1> QED
  BY <1>3, FreshNext

\* A handler takes one packet away.
LEMMA FreshHandler ==
    ASSUME Inv, eth_in,
           \A b \in Buf : ref[b] = 1 => ref'[b] = ref[b] /\ hdr'[b] = hdr[b]
    PROVE  Fresh(rx)' /\ Fresh(burst)'
<1>1. Fresh(rx) /\ Fresh(burst) /\ burst # << >> /\ burst' = Tail(burst) /\ rx' = rx
      /\ burst \in Seq(Packets)
  BY DEF Inv, Typed, eth_in
<1>2. \A b \in Buf : InHand(b) => ref'[b] = ref[b] /\ hdr'[b] = hdr[b]
  BY Exclusive
<1>3. /\ \A i \in DOMAIN rx : ref'[rx[i].buf] = ref[rx[i].buf] /\ hdr'[rx[i].buf] = hdr[rx[i].buf]
      /\ \A i \in DOMAIN burst :
            ref'[burst[i].buf] = ref[burst[i].buf] /\ hdr'[burst[i].buf] = hdr[burst[i].buf]
  BY <1>2, HandBufs
<1>4. /\ \A i \in DOMAIN rx : ref'[rx[i].buf] = 1 /\ hdr'[rx[i].buf].src = rx[i].frame.src
      /\ \A i \in DOMAIN burst :
            ref'[burst[i].buf] = 1 /\ hdr'[burst[i].buf].src = burst[i].frame.src
  BY <1>1, <1>3, FreshKept
<1>5. \A i \in DOMAIN burst' : i + 1 \in DOMAIN burst /\ burst'[i] = burst[i + 1]
  BY <1>1
<1> QED
  BY <1>1, <1>4, <1>5, FreshNext

\* The head of calls and of tx.
LEMMA HeadCall ==
    ASSUME Inv, Perform
    PROVE  /\ Typed /\ calls \in Seq(Call) /\ calls # << >> /\ calls' = Tail(calls)
           /\ 1 \in DOMAIN calls /\ Head(calls) = calls[1]
           /\ Head(calls) \in Call /\ Head(calls).buf \in Buf
           /\ ~ InHand(Head(calls).buf)
           /\ UNCHANGED <<rx, burst, refreshed, kept, memcached_pkt, failed>>
<1>1. /\ Typed /\ calls # << >> /\ calls' = Tail(calls)
      /\ UNCHANGED <<rx, burst, refreshed, kept, memcached_pkt, failed>>
  BY DEF Inv, Perform
<1>2. calls \in Seq(Call)
  BY <1>1 DEF Typed
<1>3. 1 \in DOMAIN calls /\ Head(calls) = calls[1] /\ Head(calls) \in Call
  BY <1>1, <1>2
<1>4. Head(calls).buf \in Buf
  BY <1>3, CallFields
<1>5. ~ InHand(Head(calls).buf)
  BY <1>3, <1>4, Exclusive
<1> QED
  BY <1>1, <1>2, <1>3, <1>4, <1>5

\* What a call does to references and headers.
LEMMA PerformTouches ==
    ASSUME Inv, Perform, PerformFree(Head(calls)) \/ PerformSend(Head(calls))
    PROVE  /\ \A b \in Buf : b # Head(calls).buf => ref'[b] = ref[b] /\ hdr'[b] = hdr[b]
           /\ PerformFree(Head(calls)) /\ ref[Head(calls).buf] > 1 => hdr' = hdr
           /\ PerformFree(Head(calls)) => ref'[Head(calls).buf] = ref[Head(calls).buf] - 1
<1>1. /\ Head(calls).buf \in Buf /\ ref \in [Buf -> Nat] /\ hdr \in [Buf -> Header]
  BY HeadCall DEF Typed
<1>2. CASE PerformFree(Head(calls))
  BY <1>1, <1>2 DEF PerformFree, Release
<1>3. CASE PerformSend(Head(calls)) /\ ~ PerformFree(Head(calls))
  BY <1>1, <1>3 DEF PerformSend, ip_out
<1> QED
  BY <1>2, <1>3

LEMMA TransmitTouches ==
    ASSUME Inv, Transmit
    PROVE  /\ Head(tx).buf \in Buf /\ ~ InHand(Head(tx).buf)
           /\ \A b \in Buf : b # Head(tx).buf => ref'[b] = ref[b] /\ hdr'[b] = hdr[b]
           /\ ref[Head(tx).buf] > 1 => hdr' = hdr
           /\ ref'[Head(tx).buf] = ref[Head(tx).buf] - 1
           /\ UNCHANGED <<rx, burst, refreshed, calls, kept, memcached_pkt, failed>>
<1>1. /\ tx \in Seq(Sent) /\ tx # << >> /\ Release(Head(tx).buf)
      /\ ref \in [Buf -> Nat] /\ hdr \in [Buf -> Header]
      /\ UNCHANGED <<rx, burst, refreshed, calls, kept, memcached_pkt, failed>>
  BY DEF Inv, Typed, Transmit
<1>2. 1 \in DOMAIN tx /\ Head(tx) = tx[1] /\ Head(tx) \in Sent
  BY <1>1
<1>3. Head(tx).buf \in Buf
  BY <1>2, SentFields
<1>4. ~ InHand(Head(tx).buf)
  BY <1>2, <1>3, Exclusive
<1> QED
  BY <1>1, <1>3, <1>4 DEF Release

LEMMA StepFresh ==
    ASSUME Inv, [Next]_vars
    PROVE  Fresh(rx)' /\ Fresh(burst)'
<1>0. Fresh(rx) /\ Fresh(burst) /\ Typed
  BY DEF Inv
<1>1. CASE UNCHANGED vars
  BY <1>0, <1>1 DEF vars, Fresh
<1>2. CASE Perform /\ (PerformFree(Head(calls)) \/ PerformSend(Head(calls)))
  BY <1>2, HeadCall, PerformTouches, FreshOther
<1>3. CASE Transmit
  BY <1>3, TransmitTouches, FreshOther
<1>4. CASE Refresh
  BY <1>0, <1>4 DEF Refresh, Fresh
<1>5. CASE Poll
  <2> DEFINE n == Least(Len(rx), BURST_SIZE)
  <2>1. /\ burst' = SubSeq(rx, 1, n) /\ rx' = SubSeq(rx, n + 1, Len(rx))
        /\ rx \in Seq(Packets) /\ ref' = ref /\ hdr' = hdr
    BY <1>0, <1>5 DEF Poll, Typed
  <2>2. n \in 0 .. Len(rx)
    BY <2>1, DatapathAssumption DEF Least
  <2> HIDE DEF n
  <2>3. /\ \A i \in DOMAIN burst' : i \in DOMAIN rx /\ burst'[i] = rx[i]
        /\ \A i \in DOMAIN rx' : n + i \in DOMAIN rx /\ rx'[i] = rx[n + i]
    BY <2>1, <2>2
  <2>4. \A i \in DOMAIN rx : ref[rx[i].buf] = 1 /\ hdr[rx[i].buf].src = rx[i].frame.src
    BY <1>0 DEF Fresh
  <2>5. \A i \in DOMAIN burst' :
           ref'[burst'[i].buf] = 1 /\ hdr'[burst'[i].buf].src = burst'[i].frame.src
    <3> SUFFICES ASSUME NEW i \in DOMAIN burst'
                 PROVE  ref'[burst'[i].buf] = 1 /\ hdr'[burst'[i].buf].src = burst'[i].frame.src
      OBVIOUS
    <3>1. i \in DOMAIN rx /\ burst'[i] = rx[i]
      BY <2>3
    <3>2. ref' = ref /\ hdr' = hdr
      BY <2>1
    <3> QED
      BY <3>1, <3>2, <2>4
  <2>6. \A i \in DOMAIN rx' :
           ref'[rx'[i].buf] = 1 /\ hdr'[rx'[i].buf].src = rx'[i].frame.src
    <3> SUFFICES ASSUME NEW i \in DOMAIN rx'
                 PROVE  ref'[rx'[i].buf] = 1 /\ hdr'[rx'[i].buf].src = rx'[i].frame.src
      OBVIOUS
    <3>1. n + i \in DOMAIN rx /\ rx'[i] = rx[n + i]
      BY <2>3
    <3>2. ref' = ref /\ hdr' = hdr
      BY <2>1
    <3> QED
      BY <3>1, <3>2, <2>4
  <2> QED
    BY <2>5, <2>6, FreshNext
<1>6. CASE \E f \in Frames : Arrive(f)
  <2>1. PICK f \in Frames, d \in Pool :
           /\ ref' = [ref EXCEPT ![d] = 1]
           /\ hdr' = [hdr EXCEPT ![d] = [src |-> f.src, dst |-> Local]]
           /\ rx' = Append(rx, [buf |-> d, frame |-> f])
           /\ burst' = burst
    BY <1>6 DEF Arrive
  <2>2. d \in Buf /\ ref[d] = 0 /\ ref \in [Buf -> Nat] /\ hdr \in [Buf -> Header]
        /\ rx \in Seq(Packets)
    BY <1>0, <2>1 DEF Pool, Typed
  <2>3. ~ InHand(d)
    BY <2>2, PoolUnowned
  <2>4. \A b \in Buf : b # d => ref'[b] = ref[b] /\ hdr'[b] = hdr[b]
    BY <2>1, <2>2
  <2>5. ref'[d] = 1 /\ hdr'[d].src = f.src
    BY <2>1, <2>2
  <2>6. /\ \A i \in DOMAIN rx :
              ref'[rx[i].buf] = ref[rx[i].buf] /\ hdr'[rx[i].buf] = hdr[rx[i].buf]
        /\ \A i \in DOMAIN burst :
              ref'[burst[i].buf] = ref[burst[i].buf] /\ hdr'[burst[i].buf] = hdr[burst[i].buf]
    BY <2>3, <2>4, HandBufs
  <2>7. /\ \A i \in DOMAIN rx : ref'[rx[i].buf] = 1 /\ hdr'[rx[i].buf].src = rx[i].frame.src
        /\ \A i \in DOMAIN burst :
              ref'[burst[i].buf] = 1 /\ hdr'[burst[i].buf].src = burst[i].frame.src
    BY <1>0, <2>6, FreshKept
  <2>8. ASSUME NEW i \in DOMAIN rx'
        PROVE  ref'[rx'[i].buf] = 1 /\ hdr'[rx'[i].buf].src = rx'[i].frame.src
    <3>1. CASE i \in DOMAIN rx
      <4>1. rx'[i] = rx[i]
        BY <2>1, <2>2, <3>1
      <4> QED
        BY <2>7, <3>1, <4>1
    <3>2. CASE i \notin DOMAIN rx
      <4>1. rx'[i] = [buf |-> d, frame |-> f]
        BY <2>1, <2>2, <3>2
      <4> QED
        BY <2>5, <4>1
    <3> QED
      BY <3>1, <3>2
  <2> QED
    BY <2>1, <2>7, <2>8, FreshNext
<1>7. CASE eth_in /\ UNCHANGED <<ref, hdr>>
  BY <1>7, FreshHandler
<1>8. CASE eth_in /\ \E pkt, n, evicted, copies : Registers(pkt, n, evicted, copies)
  <2>1. \A b \in Buf : ref[b] = 1 => ref'[b] = ref[b] /\ hdr'[b] = hdr[b]
    <3>1. PICK pkt, n, evicted, copies : Registers(pkt, n, evicted, copies)
      BY <1>8
    <3>2. /\ \A b \in copies : ref[b] = 0
          /\ \A b \in Buf : ref'[b] = IF b \in copies \/ (b = pkt /\ ref[b] = 0)
                                      THEN 1 ELSE ref[b]
          /\ \A b \in Buf : hdr'[b] = IF b \in copies \/ (b = pkt /\ ref[b] = 0)
                                      THEN hdr[Head(burst).buf] ELSE hdr[b]
      BY <1>8, <3>1, RegistersParts
    <3> QED
      BY <3>2
  <2> QED
    BY <1>8, <2>1, FreshHandler
<1> QED
  BY <1>1, <1>2, <1>3, <1>4, <1>5, <1>6, <1>7, <1>8, StepCases
     DEF EthIgnore, IpDrop, ServerDrop, ArpReply, Forwards

----------------------------------------------------------------------------
(* The calls of a handler, and the packets in the table. *)

\* After a call the others are still sound.
LEMMA TailCalls ==
    ASSUME Inv, Perform
    PROVE  SendsOwned' /\ MacIsKnown' /\ SendsOutside'
<1>1. /\ calls \in Seq(Call) /\ calls # << >> /\ calls' = Tail(calls)
      /\ kept' = kept /\ memcached_pkt' = memcached_pkt
      /\ SendsOwned /\ MacIsKnown /\ SendsOutside
  BY HeadCall DEF Inv
<1>2. /\ Len(calls) \in Nat /\ Len(calls) >= 1
      /\ DOMAIN calls = 1 .. Len(calls) /\ DOMAIN calls' = 1 .. Len(calls) - 1
      /\ \A i \in 1 .. Len(calls) - 1 : calls'[i] = calls[i + 1]
  BY <1>1
<1>3. ASSUME NEW i \in DOMAIN calls', calls'[i].call = "send", calls'[i].taken = 1,
             calls'[i].buf # memcached_pkt'
      PROVE  \E j \in DOMAIN calls' : j > i /\ calls'[j] = Free(calls'[i].buf)
  <2>1. i \in Nat /\ i + 1 \in DOMAIN calls /\ calls'[i] = calls[i + 1]
    BY <1>2
  <2>2. PICK j \in DOMAIN calls : j > i + 1 /\ calls[j] = Free(calls[i + 1].buf)
    BY <1>1, <1>3, <2>1 DEF SendsOwned
  <2>3. j - 1 \in DOMAIN calls' /\ j - 1 > i /\ calls'[j - 1] = calls[j]
    BY <1>2, <2>1, <2>2
  <2> QED
    BY <2>1, <2>2, <2>3
<1>4. \A i \in DOMAIN calls' : i + 1 \in DOMAIN calls /\ calls'[i] = calls[i + 1]
  BY <1>2
<1>5. MacIsKnown'
  <2>1. \A i \in DOMAIN calls' : calls'[i].call = "send" =>
            arp_lookup_mac(calls'[i].dst) \/ calls'[i].taken = 0
    BY <1>1, <1>4 DEF MacIsKnown
  <2> QED
    BY <2>1 DEF MacIsKnown, arp_lookup_mac
<1>6. SendsOutside'
  <2>1. \A i \in DOMAIN calls' : calls'[i].call = "send" => calls'[i].buf \notin kept'
    BY <1>1, <1>4 DEF SendsOutside
  <2> QED
    BY <1>1, <2>1 DEF SendsOutside
<1>7. SendsOwned'
  BY <1>3 DEF SendsOwned, Free
<1> QED
  BY <1>5, <1>6, <1>7

\* Calls that are sound one by one.
SoundNext(i) ==
    calls'[i].call = "send" =>
        /\ calls'[i].buf \notin kept'
        /\ arp_lookup_mac(calls'[i].dst) \/ calls'[i].taken = 0
        /\ \/ calls'[i].buf = memcached_pkt'
           \/ calls'[i].taken = 0
           \/ \E j \in DOMAIN calls' : j > i /\ calls'[j] = Free(calls'[i].buf)

LEMMA NewCalls ==
    ASSUME memcached_pkt' \notin kept', \A i \in DOMAIN calls' : SoundNext(i)
    PROVE  SendsOwned' /\ MacIsKnown' /\ SendsOutside'
<1>1. SendsOwned'
  <2>1. ASSUME NEW i \in DOMAIN calls', calls'[i].call = "send", calls'[i].taken = 1,
               calls'[i].buf # memcached_pkt'
        PROVE  \E j \in DOMAIN calls' : j > i /\ calls'[j] = Free(calls'[i].buf)
    BY <2>1 DEF SoundNext
  <2> QED
    BY <2>1 DEF SendsOwned, Free
<1>2. MacIsKnown'
  <2>1. \A i \in DOMAIN calls' : calls'[i].call = "send" =>
            arp_lookup_mac(calls'[i].dst) \/ calls'[i].taken = 0
    BY DEF SoundNext
  <2> QED
    BY <2>1 DEF MacIsKnown, arp_lookup_mac
<1>3. SendsOutside'
  BY DEF SoundNext, SendsOutside
<1> QED
  BY <1>1, <1>2, <1>3

\* memcached is a known host.
LEMMA KnownServer == arp_lookup_mac(Server)
  BY DatapathAssumption DEF arp_lookup_mac

\* What a handler that forwards a reply sends: the reply, to clients with a packet
\* in the table, before it frees it, and the message.
LEMMA ForwardsSends ==
    ASSUME Inv, eth_in, NEW waiting, NEW n, NEW complete, NEW chain,
           Forwards(waiting, n, complete, chain),
           NEW i \in DOMAIN calls', calls'[i].call = "send"
    PROVE  \/ calls'[i].buf = memcached_pkt /\ calls'[i].dst = Server
           \/ /\ calls'[i].buf = Head(burst).buf
              /\ \E k \in kept : calls'[i].dst = hdr[k].src
              /\ \E j \in DOMAIN calls' : j > i /\ calls'[j] = Free(calls'[i].buf)
<1> DEFINE d == Head(burst).buf
           A == Forward(d, chain)
           B == <<Free(d)>>
           C == Messages(memcached_pkt, n)
           D == IF complete THEN FreeAll(waiting) ELSE << >>
<1>1. /\ Typed /\ d \in Buf /\ memcached_pkt \in Buf /\ n \in Nat
      /\ waiting \in SUBSET kept /\ waiting \in SUBSET Buf
  BY HeadFacts DEF Forwards, Typed
<1>2. calls' = ((A \o B) \o C) \o D
  BY DEF Forwards
<1>3. /\ A \in Seq(Call)
      /\ \A l \in DOMAIN A : A[l].buf = d /\ \E k \in kept : A[l].dst = hdr[k].src
  <2>1. /\ A \in Seq(Call) /\ DOMAIN A = DOMAIN chain
        /\ \A l \in DOMAIN chain :
              /\ chain[l] \in waiting
              /\ A[l] = Send(d, hdr[chain[l]].src, 1) /\ hdr[chain[l]].src \in Addr
    BY <1>1, ForwardCalls DEF Forwards
  <2>2. \A l \in DOMAIN A : A[l].buf = d /\ A[l].dst = hdr[chain[l]].src
    BY <1>1, <2>1, SendFields
  <2> HIDE DEF A
  <2> QED
    BY <1>1, <2>1, <2>2
<1>4. B \in Seq(Call) /\ Len(B) = 1 /\ B[1] = Free(d) /\ Free(d).call = "free"
  BY <1>1, FreeCall, FreeFields
<1>5. /\ C \in Seq(Call)
      /\ \A l \in DOMAIN C : C[l].buf = memcached_pkt /\ C[l].dst = Server
  <2>1. /\ C \in Seq(Call) /\ DOMAIN C = 1 .. n
        /\ \A l \in 1 .. n : C[l] = Send(memcached_pkt, Server, 1)
    BY <1>1, MessagesCalls
  <2>2. /\ Send(memcached_pkt, Server, 1).buf = memcached_pkt
        /\ Send(memcached_pkt, Server, 1).dst = Server
    BY <1>1, SendFields, HeaderFields
  <2> HIDE DEF C
  <2> QED
    BY <2>1, <2>2
<1>6. D \in Seq(Call) /\ \A l \in DOMAIN D : D[l].call = "free"
  <2>1. CASE complete
    BY <1>1, <2>1, FreeAllCalls
  <2>2. CASE ~ complete
    BY <2>2
  <2> QED
    BY <2>1, <2>2
<1> HIDE DEF A, B, C, D
<1>7. /\ A \o B \in Seq(Call) /\ Len(A \o B) = Len(A) + 1 /\ Len(A) \in Nat
      /\ \A l \in 1 .. Len(A) + 1 :
            (A \o B)[l] = IF l <= Len(A) THEN A[l] ELSE B[l - Len(A)]
  <2>1. A \in Seq(Call) /\ B \in Seq(Call) /\ Len(B) = 1
    BY <1>3, <1>4
  <2>2. Len(A) \in Nat
    BY <2>1
  <2>3. /\ A \o B \in Seq(Call) /\ Len(A \o B) = Len(A) + Len(B)
        /\ \A l \in 1 .. Len(A) + Len(B) :
              (A \o B)[l] = IF l <= Len(A) THEN A[l] ELSE B[l - Len(A)]
    BY <2>1, ConcatProperties
  <2> QED
    BY <2>1, <2>2, <2>3
<1> DEFINE AB == A \o B
<1> HIDE DEF AB
<1>8. /\ AB \o C \in Seq(Call) /\ Len(AB \o C) = Len(A) + 1 + Len(C) /\ Len(C) \in Nat
      /\ \A l \in 1 .. Len(A) + 1 + Len(C) :
            (AB \o C)[l] = IF l <= Len(A) + 1 THEN AB[l] ELSE C[l - (Len(A) + 1)]
  <2>1. AB \in Seq(Call) /\ Len(AB) = Len(A) + 1
    BY <1>7 DEF AB
  <2>2. /\ AB \o C \in Seq(Call) /\ Len(AB \o C) = Len(AB) + Len(C)
        /\ \A l \in 1 .. Len(AB) + Len(C) :
              (AB \o C)[l] = IF l <= Len(AB) THEN AB[l] ELSE C[l - Len(AB)]
    BY <1>5, <2>1, ConcatProperties, Zenon
  <2>3. Len(C) \in Nat
    BY <1>5
  <2> QED
    BY <2>1, <2>2, <2>3
<1> DEFINE ABC == AB \o C
<1> HIDE DEF ABC
<1>9. /\ Len(calls') = Len(A) + 1 + Len(C) + Len(D) /\ Len(D) \in Nat
      /\ calls' \in Seq(Call)
      /\ \A l \in 1 .. Len(A) + 1 + Len(C) + Len(D) :
            calls'[l] = IF l <= Len(A) + 1 + Len(C) THEN ABC[l]
                        ELSE D[l - (Len(A) + 1 + Len(C))]
  <2>1. calls' = ABC \o D
    BY <1>2 DEF ABC, AB
  <2>2. ABC \in Seq(Call) /\ Len(ABC) = Len(A) + 1 + Len(C)
    BY <1>8 DEF ABC
  <2>3. D \in Seq(Call) /\ ABC \in Seq(Call)
    BY <1>6, <2>2
  <2>4. /\ ABC \o D \in Seq(Call) /\ Len(ABC \o D) = Len(ABC) + Len(D)
        /\ \A l \in 1 .. Len(ABC) + Len(D) :
              (ABC \o D)[l] = IF l <= Len(ABC) THEN ABC[l] ELSE D[l - Len(ABC)]
    BY <2>3, ConcatProperties, Zenon
  <2>5. Len(D) \in Nat
    BY <1>6
  <2> QED
    BY <2>1, <2>2, <2>4, <2>5
<1>10. i \in 1 .. Len(A) + 1 + Len(C) + Len(D) /\ DOMAIN calls' = 1 .. Len(calls')
       /\ DOMAIN A = 1 .. Len(A) /\ DOMAIN C = 1 .. Len(C) /\ DOMAIN D = 1 .. Len(D)
  BY <1>3, <1>5, <1>6, <1>9
<1>11. CASE i <= Len(A)
  <2>1. calls'[i] = A[i]
    <3>1. calls'[i] = ABC[i]
      BY <1>7, <1>8, <1>9, <1>10, <1>11
    <3>2. ABC[i] = AB[i]
      BY <1>7, <1>8, <1>10, <1>11 DEF ABC
    <3>3. AB[i] = A[i]
      BY <1>7, <1>10, <1>11 DEF AB
    <3> QED
      BY <3>1, <3>2, <3>3
  <2>2. calls'[Len(A) + 1] = Free(d)
    <3>1. calls'[Len(A) + 1] = ABC[Len(A) + 1]
      BY <1>7, <1>8, <1>9
    <3>2. ABC[Len(A) + 1] = AB[Len(A) + 1]
      BY <1>7, <1>8 DEF ABC
    <3>3. AB[Len(A) + 1] = B[1]
      BY <1>7 DEF AB
    <3> QED
      BY <1>4, <3>1, <3>2, <3>3
  <2>3. Len(A) + 1 \in DOMAIN calls' /\ Len(A) + 1 > i
    BY <1>7, <1>8, <1>9, <1>10, <1>11
  <2>4. calls'[i].buf = d /\ \E k \in kept : calls'[i].dst = hdr[k].src
    BY <1>3, <1>10, <1>11, <2>1
  <2> QED
    BY <2>2, <2>3, <2>4
<1>12. CASE i = Len(A) + 1
  <2>1. calls'[i] = ABC[i]
    BY <1>7, <1>8, <1>9, <1>10, <1>12
  <2>2. ABC[i] = AB[i]
    BY <1>7, <1>8, <1>10, <1>12 DEF ABC
  <2>3. AB[i] = B[1]
    BY <1>7, <1>12 DEF AB
  <2> QED
    BY <1>4, <2>1, <2>2, <2>3
<1>13. CASE i > Len(A) + 1 /\ i <= Len(A) + 1 + Len(C)
  <2>1. calls'[i] = ABC[i]
    BY <1>7, <1>8, <1>9, <1>10, <1>13
  <2>2. ABC[i] = C[i - (Len(A) + 1)] /\ i - (Len(A) + 1) \in DOMAIN C
    BY <1>7, <1>8, <1>10, <1>13 DEF ABC
  <2> QED
    BY <1>5, <2>1, <2>2
<1>14. CASE i > Len(A) + 1 + Len(C)
  <2>1. calls'[i] = D[i - (Len(A) + 1 + Len(C))] /\ i - (Len(A) + 1 + Len(C)) \in DOMAIN D
    BY <1>7, <1>8, <1>9, <1>10, <1>14
  <2> QED
    BY <1>6, <2>1
<1> QED
  BY <1>7, <1>8, <1>10, <1>11, <1>12, <1>13, <1>14

\* A handler leaves sound calls.
LEMMA StepCalls ==
    ASSUME Inv, [Next]_vars
    PROVE  SendsOwned' /\ MacIsKnown' /\ SendsOutside'
<1>0. /\ Typed /\ SendsOwned /\ MacIsKnown /\ SendsOutside /\ KeptKnown
      /\ memcached_pkt \notin kept
  BY DEF Inv, SendsOutside
<1>1. CASE UNCHANGED <<calls, kept, memcached_pkt>>
  BY <1>0, <1>1 DEF SendsOwned, MacIsKnown, SendsOutside, Free, arp_lookup_mac
<1>2. CASE Perform
  BY <1>2, TailCalls
<1>3. CASE Refresh
  <2>1. kept' = kept /\ memcached_pkt' = memcached_pkt
    BY <1>3 DEF Refresh
  <2>2. ASSUME NEW i \in DOMAIN calls'
        PROVE  SoundNext(i)
    <3>1. memcached_pkt \in Buf /\ calls'[i] = Send(memcached_pkt, Server, 1)
      <4>1. calls' # << >>
        BY <2>2
      <4>2. memcached_pkt \in Buf /\ calls' = Messages(memcached_pkt, 1)
        BY <1>3, <4>1, RefreshOwners
      <4> QED
        BY <2>2, <4>2, MessagesCalls
    <3>2. /\ Send(memcached_pkt, Server, 1).buf = memcached_pkt
          /\ Send(memcached_pkt, Server, 1).dst = Server
      BY <3>1, SendFields, HeaderFields
    <3> QED
      BY <1>0, <2>1, <3>1, <3>2, KnownServer DEF SoundNext
  <2> QED
    BY <1>0, <2>1, <2>2, NewCalls
<1>4. CASE eth_in /\ EthIgnore(Head(burst).buf, Head(burst).frame)
  BY <1>1, <1>4 DEF EthIgnore
<1>5. CASE eth_in /\ \/ IpDrop(Head(burst).buf, Head(burst).frame)
                     \/ ServerDrop(Head(burst).buf, Head(burst).frame)
  <2>1. /\ calls' = <<Free(Head(burst).buf)>> /\ kept' = kept /\ memcached_pkt' = memcached_pkt
        /\ Free(Head(burst).buf).call = "free"
    BY <1>5, HeadFacts, FreeFields DEF IpDrop, ServerDrop
  <2>2. \A i \in DOMAIN calls' : SoundNext(i)
    BY <2>1 DEF SoundNext
  <2> QED
    BY <1>0, <2>1, <2>2, NewCalls
<1>6. CASE eth_in /\ ArpReply(Head(burst).buf, Head(burst).frame)
  <2> DEFINE c == Send(Head(burst).buf, Head(burst).frame.src, 0)
  <2>1. calls' = <<c>> /\ kept' = kept /\ memcached_pkt' = memcached_pkt
    BY <1>6 DEF ArpReply
  <2>2. c.buf = Head(burst).buf /\ c.taken = 0 /\ Head(burst).buf \notin kept
    BY <1>6, HeadFacts, SendFields, HeaderFields
  <2> HIDE DEF c
  <2>3. \A i \in DOMAIN calls' : SoundNext(i)
    BY <2>1, <2>2 DEF SoundNext
  <2> QED
    BY <1>0, <2>1, <2>3, NewCalls
<1>7. CASE eth_in /\ \E waiting, n, complete, chain : Forwards(waiting, n, complete, chain)
  <2>1. PICK waiting, n, complete, chain : Forwards(waiting, n, complete, chain)
    BY <1>7
  <2>2. memcached_pkt' = memcached_pkt /\ kept' \subseteq kept
    BY <2>1 DEF Forwards
  <2>3. Head(burst).buf \notin kept
    BY <1>7, HeadFacts
  <2>4. ASSUME NEW i \in DOMAIN calls'
        PROVE  SoundNext(i)
    <3>1. CASE calls'[i].call # "send"
      BY <3>1 DEF SoundNext
    <3>2. CASE calls'[i].call = "send"
      <4>1. \/ calls'[i].buf = memcached_pkt /\ calls'[i].dst = Server
            \/ /\ calls'[i].buf = Head(burst).buf
               /\ \E k \in kept : calls'[i].dst = hdr[k].src
               /\ \E j \in DOMAIN calls' : j > i /\ calls'[j] = Free(calls'[i].buf)
        BY <1>7, <2>1, <3>2, ForwardsSends
      <4>2. arp_lookup_mac(calls'[i].dst)
        BY <1>0, <4>1, KnownServer DEF KeptKnown
      <4>3. calls'[i].buf \notin kept'
        BY <1>0, <2>2, <2>3, <4>1
      <4> QED
        BY <2>2, <4>1, <4>2, <4>3 DEF SoundNext
    <3> QED
      BY <3>1, <3>2
  <2> QED
    BY <1>0, <2>2, <2>4, NewCalls
<1>8. CASE eth_in /\ \E pkt, n, evicted, copies : Registers(pkt, n, evicted, copies)
  <2>1. PICK pkt, n, evicted, copies : Registers(pkt, n, evicted, copies)
    BY <1>8
  <2>2. memcached_pkt' = pkt /\ kept' = (kept \ evicted) \cup {Head(burst).buf} \cup copies
    BY <2>1 DEF Registers
  <2>3. pkt \notin kept'
    <3>1. /\ \A b \in copies : b # pkt
          /\ pkt = memcached_pkt \/ (pkt \in Buf /\ ref[pkt] = 0)
          /\ \A b \in Buf : ref[b] = 0 => b \notin kept
          /\ Head(burst).buf # pkt
      BY <1>8, <2>1, RegistersParts
    <3> QED
      BY <1>0, <2>2, <3>1
  <2>4. ASSUME NEW i \in DOMAIN calls'
        PROVE  SoundNext(i)
    <3>1. CASE calls'[i].call # "send"
      BY <3>1 DEF SoundNext
    <3>2. CASE calls'[i].call = "send"
      <4>1. pkt \in Buf /\ calls'[i] = Send(pkt, Server, 1)
        BY <1>8, <2>1, <3>2, RegistersCalls
      <4>2. calls'[i].buf = pkt /\ calls'[i].dst = Server
        BY <4>1, SendFields, HeaderFields
      <4> QED
        BY <2>2, <2>3, <4>2, KnownServer DEF SoundNext
    <3> QED
      BY <3>1, <3>2
  <2> QED
    BY <2>2, <2>3, <2>4, NewCalls
<1> QED
  BY <1>1, <1>2, <1>3, <1>4, <1>5, <1>6, <1>7, <1>8, StepCases
     DEF Poll, Transmit, Arrive, vars

\* The address of a waiting client is not overwritten: what gives back a reference
\* to its packet leaves it one, and what is sent is not in the table.
LEMMA StepKept ==
    ASSUME Inv, [Next]_vars
    PROVE  KeptKnown'
<1>0. /\ Typed /\ KeptKnown /\ SendsOutside /\ kept \subseteq Buf
      /\ Typed' /\ NoUseAfterFree'
  BY StepOwners, StepNoUseAfterFree DEF Inv, Typed
<1>1. \A b \in Buf : b \in kept' => ref'[b] >= 1
  <2> SUFFICES ASSUME NEW b \in Buf, b \in kept'
               PROVE  ref'[b] >= 1
    OBVIOUS
  <2>1. Owners(b)' <= ref'[b]
    BY <1>0 DEF NoUseAfterFree
  <2>2. /\ Owners(b)' = Count(rx', PacketIn(b)) + Count(burst', PacketIn(b))
               + Count(tx', SentIn(b)) + Count(calls', OwnedBy(b))
               + InTable(b)' + InMessage(b)'
        /\ ref'[b] \in Nat
    BY <1>0, OwnersCountedNext
  <2>3. InTable(b)' = 1 /\ InMessage(b)' \in {0, 1}
    BY DEF InTable, InMessage
  <2>4. /\ Count(rx', PacketIn(b)) \in Nat /\ Count(burst', PacketIn(b)) \in Nat
        /\ Count(tx', SentIn(b)) \in Nat /\ Count(calls', OwnedBy(b)) \in Nat
    <3>1. /\ rx' \in Seq(Packets) /\ burst' \in Seq(Packets) /\ tx' \in Seq(Sent)
          /\ calls' \in Seq(Call)
      BY <1>0 DEF Typed, Packets, Sent, Call, Frees, Sends, Addr, Free, Send
    <3> QED
      BY <3>1, CountType
  <2>5. Count(rx', PacketIn(b)) + Count(burst', PacketIn(b))
               + Count(tx', SentIn(b)) + Count(calls', OwnedBy(b)) \in Nat
    BY <2>4
  <2> QED
    BY <2>1, <2>2, <2>3, <2>5
<1>2. ASSUME kept' \subseteq kept, \A b \in kept' : hdr'[b] = hdr[b]
      PROVE  KeptKnown'
  <2>1. \A b \in kept' : arp_lookup_mac(hdr'[b].src)
    BY <1>0, <1>2 DEF KeptKnown
  <2> QED
    BY <2>1 DEF KeptKnown, arp_lookup_mac
<1>3. CASE UNCHANGED <<hdr, kept>>
  BY <1>2, <1>3
<1>4. CASE Perform /\ PerformFree(Head(calls))
  <2> DEFINE d == Head(calls).buf
  <2>1. /\ kept' = kept /\ d \in Buf /\ ref[d] \in Nat
        /\ \A b \in Buf : b # d => hdr'[b] = hdr[b]
        /\ ref[d] > 1 => hdr' = hdr
        /\ ref'[d] = ref[d] - 1
    BY <1>0, <1>4, HeadCall, PerformTouches DEF Typed
  <2> HIDE DEF d
  <2>2. d \in kept' => ref[d] > 1
    BY <1>1, <2>1
  <2> QED
    BY <1>0, <1>2, <2>1, <2>2
<1>5. CASE Transmit
  <2> DEFINE d == Head(tx).buf
  <2>1. /\ kept' = kept /\ d \in Buf /\ ref[d] \in Nat
        /\ \A b \in Buf : b # d => hdr'[b] = hdr[b]
        /\ ref[d] > 1 => hdr' = hdr
        /\ ref'[d] = ref[d] - 1
    BY <1>0, <1>5, TransmitTouches DEF Typed
  <2> HIDE DEF d
  <2>2. d \in kept' => ref[d] > 1
    BY <1>1, <2>1
  <2> QED
    BY <1>0, <1>2, <2>1, <2>2
<1>6. CASE Perform /\ PerformSend(Head(calls))
  <2>1. /\ kept' = kept
        /\ \A b \in Buf : b # Head(calls).buf => hdr'[b] = hdr[b]
        /\ 1 \in DOMAIN calls /\ Head(calls) = calls[1]
    BY <1>6, HeadCall, PerformTouches
  <2>2. Head(calls).buf \notin kept
    BY <1>0, <1>6, <2>1 DEF SendsOutside, PerformSend
  <2> QED
    BY <1>0, <1>2, <2>1, <2>2
<1>7. CASE \E f \in Frames : Arrive(f)
  <2>1. PICK f \in Frames, d \in Pool :
           /\ hdr' = [hdr EXCEPT ![d] = [src |-> f.src, dst |-> Local]]
           /\ kept' = kept
    BY <1>7 DEF Arrive
  <2>2. d \in Buf /\ d \notin kept
    BY <2>1, PoolUnowned DEF Pool
  <2>3. \A b \in kept' : hdr'[b] = hdr[b]
    BY <1>0, <2>1, <2>2 DEF Typed
  <2> QED
    BY <1>2, <2>1, <2>3
<1>8. CASE eth_in /\ \E waiting, n, complete, chain : Forwards(waiting, n, complete, chain)
  <2>1. hdr' = hdr /\ kept' \subseteq kept
    BY <1>8 DEF Forwards
  <2> QED
    BY <1>2, <2>1
<1>9. CASE eth_in /\ \E pkt, n, evicted, copies : Registers(pkt, n, evicted, copies)
  <2>1. PICK pkt, n, evicted, copies : Registers(pkt, n, evicted, copies)
    BY <1>9
  <2> DEFINE d == Head(burst).buf
  <2>2. /\ kept' = (kept \ evicted) \cup {d} \cup copies
        /\ arp_lookup_mac(Head(burst).frame.src)
    BY <2>1 DEF Registers, Accepted, UdpAccepted
  <2>3. hdr[d].src = Head(burst).frame.src /\ d \in Buf
    BY <1>9, HeadFacts
  <2>4. /\ \A b \in copies : b \in Buf
        /\ \A b \in Buf : ref[b] = 0 => b \notin kept
        /\ \A b \in Buf : hdr'[b] = IF b \in copies \/ (b = pkt /\ ref[b] = 0)
                                    THEN hdr[d] ELSE hdr[b]
    BY <1>9, <2>1, RegistersParts
  <2>5. \A b \in kept' : hdr'[b] = hdr[d] \/ (b \in kept /\ hdr'[b] = hdr[b])
    BY <1>0, <2>2, <2>3, <2>4
  <2>6. \A b \in kept' : arp_lookup_mac(hdr'[b].src)
    BY <1>0, <2>2, <2>3, <2>5 DEF KeptKnown
  <2> QED
    BY <2>6 DEF KeptKnown, arp_lookup_mac
<1>10. CASE Refresh \/ Poll \/ UNCHANGED vars
  BY <1>3, <1>10 DEF Refresh, Poll, vars
<1>11. CASE eth_in /\ \/ EthIgnore(Head(burst).buf, Head(burst).frame)
                      \/ IpDrop(Head(burst).buf, Head(burst).frame)
                      \/ ServerDrop(Head(burst).buf, Head(burst).frame)
                      \/ ArpReply(Head(burst).buf, Head(burst).frame)
  BY <1>3, <1>11 DEF EthIgnore, IpDrop, ServerDrop, ArpReply
<1> QED
  BY <1>4, <1>5, <1>6, <1>7, <1>8, <1>9, <1>10, <1>11, StepCases

LEMMA InitInv ==
    ASSUME Orderly, Init
    PROVE  Inv
<1>1. Typed
  <2>1. hdr \in [Buf -> Header] /\ ref \in [Buf -> Nat]
    BY HeaderFields DEF Init
  <2>2. /\ rx \in Seq(Packets) /\ burst \in Seq(Packets)
        /\ calls \in Seq(Call) /\ tx \in Seq(Sent)
    <3>1. \A S : << >> \in Seq(S)
      OBVIOUS
    <3> QED
      BY <3>1 DEF Init
  <2>3. /\ refreshed \in BOOLEAN /\ failed \in BOOLEAN
        /\ kept \subseteq Buf /\ memcached_pkt \in Buf \cup {NoBuf}
    BY DEF Init
  <2> QED
    BY <2>1, <2>2, <2>3 DEF Typed
<1>2. ASSUME NEW b \in Buf
      PROVE  Owners(b) <= ref[b]
  <2>1. /\ Count(rx, PacketIn(b)) = 0 /\ Count(burst, PacketIn(b)) = 0
        /\ Count(tx, SentIn(b)) = 0 /\ Count(calls, OwnedBy(b)) = 0
    BY CountEmpty DEF Init
  <2>2. InTable(b) = 0 /\ InMessage(b) = 0 /\ ref[b] = 0
    BY DatapathAssumption DEF Init, InTable, InMessage
  <2> QED
    BY <1>1, <2>1, <2>2, OwnersCount
<1>3. Fresh(rx) /\ Fresh(burst) /\ SendsOwned /\ SendsOutside /\ KeptKnown /\ MacIsKnown
  BY DEF Init, Fresh, SendsOwned, SendsOutside, KeptKnown, MacIsKnown
<1> QED
  BY <1>1, <1>2, <1>3 DEF Inv, NoUseAfterFree

\* If each entry deleted at api.c:246 is that of the chain freed, the inductive
\* invariant holds: references, types, the packets still unseen, the calls of the
\* running handler, and the addresses of the waiting clients.
THEOREM Ownership ==
    ASSUME Orderly
    PROVE  Spec => []Inv
<1>1. Inv /\ [Next]_vars => Inv'
  BY StepOwners, StepNoUseAfterFree, StepFresh, StepCalls, StepKept DEF Inv
<1> QED
  BY <1>1, InitInv, PTL DEF Spec

\* Under the same condition the types hold, whatever arrives and however long the
\* rings are: no reference count falls below zero.
THEOREM DatapathTypes ==
    ASSUME Orderly
    PROVE  Spec => []TypeOK
<1>1. Inv => TypeOK
  <2> SUFFICES ASSUME Inv
               PROVE  TypeOK
    OBVIOUS
  <2>1. Typed
    BY DEF Inv
  <2>2. /\ \A i \in DOMAIN rx : rx[i] \in Packets
        /\ \A i \in DOMAIN burst : burst[i] \in Packets
    BY <2>1 DEF Typed
  <2> QED
    BY <2>1, <2>2 DEF TypeOK, Typed, Packets
<1> QED
  BY <1>1, Ownership, PTL

\* If each entry deleted at api.c:246 is that of the chain freed, no mbuf that the
\* table, a ring, the burst or a handler still uses is ever back in the pool.
THEOREM NoFreeInUse ==
    ASSUME Orderly
    PROVE  Spec => []NoUseAfterFree
<1>1. Inv => NoUseAfterFree
  BY DEF Inv
<1> QED
  BY <1>1, Ownership, PTL

\* If no packet is freed while the table leads to it (Orderly), ip_out never fails to
\* find the address of a host it sends to.
THEOREM HostsAreKnown ==
    ASSUME Orderly
    PROVE  Spec => []MacIsKnown
<1>1. Inv => MacIsKnown
  BY DEF Inv
<1> QED
  BY <1>1, Ownership, PTL

\* If each entry deleted at api.c:246 is that of the chain freed, no step loses an
\* mbuf but the one that leaves alone a frame that is not IPv4.
THEOREM NothingElseLeaks ==
    ASSUME Orderly
    PROVE  Spec => OnlyIgnoredFramesLeak
<1>1. ASSUME Inv, [Next]_vars, Lost' # Lost
      PROVE  /\ burst # << >> /\ Lost' = Lost \cup {Head(burst).buf}
             /\ Ignored(Head(burst).frame)
  <2>1. /\ Typed /\ Typed'
        /\ \A b \in Buf : Surplus(b) \in Int /\ Surplus(b) >= 0
        /\ \A b \in Buf : b \in Lost <=> Surplus(b) > 0
        /\ \A b \in Buf : b \in Lost' <=> Surplus(b)' > 0
        /\ Lost \subseteq Buf /\ Lost' \subseteq Buf
    <3>1. Typed /\ Typed' /\ NoUseAfterFree
      BY <1>1, StepOwners DEF Inv
    <3>2. \A b \in Buf : Surplus(b) \in Int /\ Surplus(b) >= 0
      BY <3>1, SurplusInt DEF NoUseAfterFree
    <3>3. \A b \in Buf : Owners(b) \in Nat /\ ref[b] \in Nat /\ Owners(b)' \in Nat /\ ref'[b] \in Nat
      BY <3>1, OwnersCount, OwnersCountedNext
    <3>4. /\ \A b \in Buf : b \in Lost <=> Owners(b) < ref[b]
          /\ \A b \in Buf : b \in Lost' <=> Owners(b)' < ref'[b]
      BY <3>3 DEF Lost
    <3>5. Lost \subseteq Buf /\ Lost' \subseteq Buf
      BY DEF Lost
    <3> QED
      BY <3>1, <3>2, <3>4, <3>5, SurplusInt, SurplusIntNext
  <2>2. CASE \A b \in Buf : Surplus(b)' = Surplus(b)
    <3>1. Lost' = Lost
      BY <2>1, <2>2
    <3> QED
      BY <1>1, <3>1
  <2>3. CASE /\ eth_in /\ Ignored(Head(burst).frame)
             /\ \A b \in Buf :
                  Surplus(b)' = Surplus(b) + (IF b = Head(burst).buf THEN 1 ELSE 0)
    <3>1. burst # << >> /\ Head(burst).buf \in Buf
      BY <1>1, <2>3, HeadFacts DEF eth_in
    <3>2. ASSUME NEW b \in Buf
          PROVE  b \in Lost' <=> b \in Lost \/ b = Head(burst).buf
      <4>1. CASE b = Head(burst).buf
        BY <2>1, <2>3, <4>1
      <4>2. CASE b # Head(burst).buf
        BY <2>1, <2>3, <4>2
      <4> QED
        BY <4>1, <4>2
    <3>3. Lost' = Lost \cup {Head(burst).buf}
      BY <2>1, <3>1, <3>2
    <3> QED
      BY <2>3, <3>1, <3>3
  <2> QED
    BY <1>1, <2>2, <2>3, StepOwners
<1>2. Inv /\ [Next]_vars => [Lost' # Lost => burst # << >> /\ Lost' = Lost \cup {Head(burst).buf}
                                 /\ Ignored(Head(burst).frame)]_vars
  BY <1>1
<1> QED
  BY <1>2, Ownership, PTL DEF Spec, OnlyIgnoredFramesLeak
=============================================================================
