--------------------------- MODULE ClientsProofs ---------------------------
(***************************************************************************)
(* The clients count datagrams and look at none of them. In an orderly     *)
(* environment that is enough for a client that expects one datagram for   *)
(* each key it names: a burst whose count has run out was answered, since  *)
(* the middlebox sends no client more than it asked for.                   *)
(***************************************************************************)
EXTENDS Clients, SteeringProofs

----------------------------------------------------------------------------
(* A client that got as many values as it asked for got each of them.      *)

Sent(c) == {n \in 1 .. Len(from) : from[n] = c}

\* What Delivered counts: the copies of every datagram.
Datagrams(c) ==
    UNION {{d} \X (1 .. got[d]) : d \in {d \in BagToSet(got) : d[1] > 0 /\ from[d[1]] = c}}

Positions(n, k) == {i \in DOMAIN requests[n] : requests[n][i] = k}

\* The positions of k in the packet, one after the other.
Position(n, k) == CHOOSE f \in Bijection(1 .. Asked(n, k), Positions(n, k)) : TRUE

\* What a client may ask for: as many keys as it expects datagrams, or anything if
\* its count does not match its message.
IsPacket(keys, c) ==
    keys \in Seq(Key) /\ (CountMatches(c) => Len(keys) = Expected(c))

Packets ==
    /\ from \in Seq(Client) /\ Len(from) = Len(requests)
    /\ \A n \in 1 .. Len(requests) : IsPacket(requests[n], from[n])

LEMMA PositionFinds ==
    ASSUME Packets, NEW n \in 1 .. Len(requests), NEW k
    PROVE  /\ Asked(n, k) \in Nat
           /\ Position(n, k) \in Bijection(1 .. Asked(n, k), Positions(n, k))
           /\ \A i \in 1 .. Asked(n, k) : Position(n, k)[i] \in Positions(n, k)
           /\ \A i, j \in 1 .. Asked(n, k) :
                  Position(n, k)[i] = Position(n, k)[j] => i = j
<1>1. DOMAIN requests[n] = 1 .. Len(requests[n]) /\ Len(requests[n]) \in Nat
  BY DEF Packets, IsPacket
<1>2. IsFiniteSet(1 .. Len(requests[n]))
  BY <1>1, FS_Interval
<1>3. Positions(n, k) \in SUBSET (1 .. Len(requests[n]))
  BY <1>1 DEF Positions
<1>4. IsFiniteSet(Positions(n, k))
  BY <1>2, <1>3, FS_Subset
<1>5. Asked(n, k) = Cardinality(Positions(n, k))
  BY DEF Asked, Positions
<1>6. Asked(n, k) \in Nat /\ ExistsBijection(1 .. Asked(n, k), Positions(n, k))
  BY <1>4, <1>5, FS_CardinalityType
<1>7. Position(n, k) \in Bijection(1 .. Asked(n, k), Positions(n, k))
  BY <1>6 DEF ExistsBijection, Position
<1> QED
  BY <1>6, <1>7 DEF Bijection, Injection, Surjection, IsInjective

\* The datagrams of last pieces of values are answers to what c asked.
LEMMA DatagramFields ==
    ASSUME IsABag(got), Steered, Packets,
           BagToSet(got) \subseteq (0 .. Len(requests)) \X (Key \cup {NoKey}) \X BOOLEAN,
           \A d \in BagToSet(got) : d[3],
           NEW c, NEW x \in Datagrams(c)
    PROVE  LET n == x[1][1]
               k == x[1][2]
           IN  /\ n \in Sent(c) /\ n \in 1 .. Len(requests) /\ k \in Key
               /\ x = <<<<n, k, TRUE>>, x[2]>> /\ x[2] \in 1 .. Answered(n, k)
<1>1. PICK d \in BagToSet(got) : /\ d[1] > 0 /\ from[d[1]] = c
                                 /\ x \in {d} \X (1 .. got[d])
  BY DEF Datagrams
<1>2. x[1] = d /\ x[2] \in 1 .. got[d] /\ x = <<d, x[2]>>
  BY <1>1
<1>3. d \in (0 .. Len(requests)) \X (Key \cup {NoKey}) \X BOOLEAN /\ d[3]
  BY <1>1
<1>4. d = <<d[1], d[2], TRUE>> /\ d[1] \in 1 .. Len(requests)
  <2>1. PICK a \in 0 .. Len(requests), b \in Key \cup {NoKey}, e \in BOOLEAN : d = <<a, b, e>>
    <3>1. \A A, B, C : \A t \in A \X B \X C : \E a \in A, b \in B, e \in C : t = <<a, b, e>>
      OBVIOUS
    <3>2. d \in (0 .. Len(requests)) \X (Key \cup {NoKey}) \X BOOLEAN
      BY <1>3
    <3> QED
      BY <3>1, <3>2
  <2>2. e
    BY <1>3, <2>1
  <2>3. e = TRUE
    BY <2>2, Zenon
  <2>4. d[1] = a /\ d[2] = b /\ d = <<a, b, TRUE>>
    BY <2>1, <2>3
  <2> QED
    BY <1>1, <2>4 DEF Packets
<1>5. d[2] \in Key
  <2>1. Contains(requests[d[1]], d[2]) /\ requests[d[1]] \in Seq(Key)
    BY <1>1, <1>4 DEF Steered, Packets, IsPacket
  <2>2. PICK i \in DOMAIN requests[d[1]] : requests[d[1]][i] = d[2]
    BY <2>1 DEF Contains
  <2> QED
    BY <2>1, <2>2
<1>6. Answered(d[1], d[2]) = got[d]
  BY <1>1, <1>4 DEF Answered, BagIn
<1>7. d[1] \in Sent(c)
  BY <1>1, <1>4 DEF Sent, Packets
<1> QED
  BY <1>2, <1>4, <1>5, <1>6, <1>7

LEMMA SentFinite ==
    ASSUME Packets, NEW c
    PROVE  IsFiniteSet(Sent(c)) /\ Cardinality(Sent(c)) \in Nat
<1>1. Sent(c) \in SUBSET (1 .. Len(from)) /\ Len(from) \in Nat
  BY DEF Sent, Packets
<1>2. IsFiniteSet(1 .. Len(from))
  BY <1>1, FS_Interval
<1> QED
  BY <1>1, <1>2, FS_Subset, FS_CardinalityType

LEMMA CountSuffices ==
    ASSUME IsABag(got), Steered, NotAnsweredTwice, Packets,
           BagToSet(got) \subseteq (0 .. Len(requests)) \X (Key \cup {NoKey}) \X BOOLEAN,
           \A d \in BagToSet(got) : d[3],
           NEW c \in Client, CountMatches(c)
    PROVE  /\ Delivered(c) \in Nat
           /\ Delivered(c) >= Cardinality(Sent(c)) * Expected(c) =>
                  \A n \in Sent(c), k \in Key : Answered(n, k) = Asked(n, k)
<1> DEFINE D == Datagrams(c)
           A == Sent(c) \X (1 .. Expected(c))
           f == [x \in D |-> <<x[1][1], Position(x[1][1], x[1][2])[x[2]]>>]
<1>0. /\ Expected(c) \in Nat
      /\ \A n \in Sent(c) : DOMAIN requests[n] = 1 .. Expected(c)
  <2>1. Expected(c) \in Nat
    BY ClientsAssumption DEF Expected
  <2>2. \A n \in Sent(c) : requests[n] \in Seq(Key) /\ Len(requests[n]) = Expected(c)
    BY DEF Sent, Packets, IsPacket
  <2> QED
    BY <2>1, <2>2
<1>1. /\ IsFiniteSet(Sent(c)) /\ Cardinality(Sent(c)) \in Nat
      /\ \A m \in Sent(c) : m \in 1 .. Len(requests)
  BY SentFinite DEF Packets, Sent
<1>2. IsFiniteSet(A) /\ Cardinality(A) = Cardinality(Sent(c)) * Expected(c)
  <2>1. /\ IsFiniteSet(1 .. Expected(c))
        /\ Cardinality(1 .. Expected(c)) = Expected(c)
    BY <1>0, FS_Interval
  <2> QED
    BY <1>1, <2>1, FS_Product
<1>3. ASSUME NEW x \in D
      PROVE  LET m == x[1][1]
                 q == x[1][2]
             IN  /\ m \in Sent(c) /\ m \in 1 .. Len(requests) /\ q \in Key
                 /\ x = <<<<m, q, TRUE>>, x[2]>> /\ x[2] \in 1 .. Asked(m, q)
                 /\ x[2] \in 1 .. Answered(m, q)
                 /\ f[x] = <<m, Position(m, q)[x[2]]>>
                 /\ Position(m, q)[x[2]] \in Positions(m, q)
                 /\ Position(m, q)[x[2]] \in 1 .. Expected(c)
                 /\ requests[m][Position(m, q)[x[2]]] = q
  <2>1. PICK m, q, i : m = x[1][1] /\ q = x[1][2] /\ i = x[2]
    OBVIOUS
  <2>2. /\ m \in Sent(c) /\ m \in 1 .. Len(requests) /\ q \in Key
        /\ x = <<<<m, q, TRUE>>, i>> /\ i \in 1 .. Answered(m, q)
    BY <1>3, <2>1, DatagramFields
  <2>3. Answered(m, q) \in Nat /\ Asked(m, q) \in Nat /\ Answered(m, q) <= Asked(m, q)
    BY <2>2, AnsweredType, PositionFinds DEF NotAnsweredTwice
  <2>4. i \in 1 .. Asked(m, q)
    BY <2>2, <2>3
  <2>5. Position(m, q)[i] \in Positions(m, q)
    BY <2>2, <2>4, PositionFinds
  <2>6. Position(m, q)[i] \in 1 .. Expected(c) /\ requests[m][Position(m, q)[i]] = q
    BY <1>0, <2>2, <2>5 DEF Positions
  <2>7. f[x] = <<m, Position(m, q)[i]>>
    BY <2>1
  <2> HIDE DEF f, D
  <2> QED
    BY <2>1, <2>2, <2>4, <2>5, <2>6, <2>7
<1>4. f \in [D -> A]
  BY <1>3
<1>5. ASSUME NEW x \in D, NEW y \in D, f[x] = f[y] PROVE x = y
  <2>1. PICK m, q, i : m = x[1][1] /\ q = x[1][2] /\ i = x[2]
    OBVIOUS
  <2>2. PICK r, j : r = y[1][2] /\ j = y[2]
    OBVIOUS
  <2> HIDE DEF f, D
  <2>3. /\ m \in 1 .. Len(requests) /\ x = <<<<m, q, TRUE>>, i>> /\ i \in 1 .. Asked(m, q)
        /\ f[x] = <<m, Position(m, q)[i]>> /\ requests[m][Position(m, q)[i]] = q
    BY <1>3, <2>1
  <2>4. PICK l : l = y[1][1]
    OBVIOUS
  <2>5. /\ y = <<<<l, r, TRUE>>, j>> /\ j \in 1 .. Asked(l, r)
        /\ f[y] = <<l, Position(l, r)[j]>> /\ requests[l][Position(l, r)[j]] = r
    BY <1>3, <2>2, <2>4
  <2>6. l = m /\ Position(m, q)[i] = Position(m, r)[j]
    <3>1. <<m, Position(m, q)[i]>> = <<l, Position(l, r)[j]>>
      BY <1>5, <2>3, <2>5, Zenon
    <3>2. \A a, b, x1, x2 : <<a, x1>> = <<b, x2>> => a = b /\ x1 = x2
      OBVIOUS
    <3>3. m = l /\ Position(m, q)[i] = Position(l, r)[j]
      BY <3>1, <3>2, Zenon
    <3> QED
      BY <3>3, Zenon
  <2>7. q = r
    BY <2>3, <2>5, <2>6
  <2>8. i = j
    BY <2>3, <2>5, <2>6, <2>7, PositionFinds
  <2> QED
    BY <2>3, <2>5, <2>6, <2>7, <2>8
<1> HIDE DEF f
<1>6. f \in Injection(D, A)
  BY <1>4, <1>5 DEF Injection, IsInjective
<1>7. IsFiniteSet(D) /\ Cardinality(D) <= Cardinality(A)
      /\ (Cardinality(D) = Cardinality(A) => f \in Surjection(D, A))
  BY <1>2, <1>6, FS_Injection
<1>8. Cardinality(D) = Delivered(c) /\ Delivered(c) \in Nat /\ Cardinality(A) \in Nat
  <2>1. Cardinality(D) = Delivered(c)
    BY DEF Delivered, Datagrams
  <2> QED
    BY <1>2, <1>7, <2>1, FS_CardinalityType
<1> SUFFICES ASSUME Delivered(c) >= Cardinality(Sent(c)) * Expected(c),
                    NEW n \in Sent(c), NEW k \in Key, Answered(n, k) # Asked(n, k)
             PROVE  FALSE
  BY <1>8
<1>9. \A a \in A : \E x \in D : f[x] = a
  <2>1. Cardinality(D) = Cardinality(A)
    <3> HIDE DEF D, A
    <3> QED
      BY <1>2, <1>7, <1>8
  <2> QED
    BY <1>7, <2>1 DEF Surjection
<1>10. /\ n \in 1 .. Len(requests) /\ Asked(n, k) \in Nat /\ Answered(n, k) \in Nat
       /\ Answered(n, k) < Asked(n, k)
  <2>1. n \in 1 .. Len(requests) /\ Asked(n, k) \in Nat /\ Answered(n, k) \in Nat
    BY <1>1, PositionFinds, AnsweredType
  <2>2. Answered(n, k) <= Asked(n, k)
    BY <2>1 DEF NotAnsweredTwice
  <2> QED
    BY <2>1, <2>2
<1>11. PICK last \in 1 .. Asked(n, k) : last > Answered(n, k)
  BY <1>10
<1> DEFINE p == Position(n, k)[last]
<1>12. p \in Positions(n, k)
  BY <1>10, <1>11, PositionFinds
<1>13. p \in 1 .. Expected(c) /\ requests[n][p] = k
  BY <1>0, <1>12 DEF Positions
<1>14. PICK x \in D : f[x] = <<n, p>>
  BY <1>9, <1>13
<1> HIDE DEF D, p
<1>15. PICK m, q, i : m = x[1][1] /\ q = x[1][2] /\ i = x[2]
  OBVIOUS
<1>16. /\ f[x] = <<m, Position(m, q)[i]>> /\ i \in 1 .. Asked(m, q)
       /\ i \in 1 .. Answered(m, q) /\ requests[m][Position(m, q)[i]] = q
  BY <1>3, <1>14, <1>15
<1>17. m = n /\ Position(n, q)[i] = p
  BY <1>14, <1>16
<1>18. q = k
  BY <1>13, <1>16, <1>17
<1>19. i = last
  BY <1>10, <1>11, <1>16, <1>17, <1>18, PositionFinds DEF p
<1> QED
  BY <1>10, <1>11, <1>16, <1>17, <1>18, <1>19

----------------------------------------------------------------------------
(* What a step of the middlebox adds to what was forwarded.                *)

LEMMA ServerAnswers ==
    ASSUME Typed, NEW a, NEW seq, NEW exp \in 1 .. MaxDatagrams, IsDue(a),
           AppServerIn(a, seq, exp)
    PROVE  /\ BagToSet(got) \subseteq BagToSet(got')
           /\ \A d \in BagToSet(got) : got'[d] >= got[d]
<1> DEFINE chain == Recipients(clients, NamedBy(a, seq))
           last == seq = exp - 1
<1>1. chain \in Seq(Buf) /\ got' = Forward(chain, a[2], last) /\ IsABag(got)
  BY ServerFields DEF Typed
<1> HIDE DEF chain, last
<1>2. /\ \A m : LET d == <<m, a[2], last>>
                IN  (IF BagIn(d, got') THEN got'[d] ELSE 0)
                       = (IF BagIn(d, got) THEN got[d] ELSE 0) + Cardinality(Places(chain, m))
      /\ BagToSet(got') = BagToSet(got) \cup Copies(chain, a[2], last)
      /\ \A d \in BagToSet(got) : d \notin Copies(chain, a[2], last) => got'[d] = got[d]
  BY <1>1, ForwardFields
<1>3. \A d \in BagToSet(got) : got[d] \in Nat
  BY <1>1 DEF IsABag, BagToSet
<1> SUFFICES ASSUME NEW d \in BagToSet(got) PROVE got'[d] >= got[d]
  BY <1>2
<1>4. CASE d \in Copies(chain, a[2], last)
  <2>1. PICK m : d = <<m, a[2], last>>
    BY <1>4 DEF Copies
  <2>2. got'[d] = got[d] + Cardinality(Places(chain, m))
    BY <1>2, <2>1 DEF BagIn
  <2>3. Cardinality(Places(chain, m)) \in Nat
    BY <1>1, PlacesFinite, FS_CardinalityType
  <2> QED
    BY <1>3, <2>2, <2>3
<1> QED
  BY <1>2, <1>3, <1>4

\* What was forwarded stays forwarded.
LEMMA StepAnswers ==
    ASSUME Inv, Typed, [Next]_vars
    PROVE  /\ BagToSet(got) \subseteq BagToSet(got')
           /\ \A n, k : Answered(n, k)' >= Answered(n, k)
<1>1. /\ BagToSet(got) \subseteq BagToSet(got')
      /\ \A d \in BagToSet(got) : got'[d] >= got[d]
  <2>1. \A d \in BagToSet(got) : got[d] \in Nat
    BY DEF Typed, IsABag, BagToSet
  <2>2. CASE UNCHANGED got
    BY <2>1, <2>2
  <2>3. ASSUME NEW a \in todo, NEW exp \in 1 .. MaxDatagrams, FirstDatagram(a, exp)
        PROVE  /\ BagToSet(got) \subseteq BagToSet(got')
               /\ \A d \in BagToSet(got) : got'[d] >= got[d]
    BY <2>3, ServerAnswers DEF FirstDatagram, Inv, Environment
  <2>4. CASE NextDatagram
    BY <2>4, ServerAnswers DEF NextDatagram, Inv, Environment, IsPartial
  <2>5. CASE AppClientKey
    BY <2>2, <2>5, Zenon DEF AppClientKey
  <2> QED
    BY <2>2, <2>3, <2>4, <2>5
       DEF Next, AppClientIn, AppClientEnd, LoseFirst, LoseNext, PollRefresh, ClockTick,
           vars, envVars
<1>2. IsABag(got) /\ IsABag(got')
  BY StepTyped DEF Typed
<1> SUFFICES ASSUME NEW n, NEW k PROVE Answered(n, k)' >= Answered(n, k)
  BY <1>1
<1> DEFINE d == <<n, k, TRUE>>
<1>3. d \in BagToSet(got) => d \in BagToSet(got') /\ got'[d] >= got[d]
  BY <1>1
<1>4. d \in BagToSet(got') => got'[d] \in Nat
  BY <1>2 DEF IsABag, BagToSet
<1> HIDE DEF d
<1> QED
  BY <1>3, <1>4 DEF Answered, BagIn, d

----------------------------------------------------------------------------
(* The loops of the clients. *)

\* The datagrams that a client expects for a burst.
InBurst(c) == BURST_SIZE[c] * Expected(c)

LoopTypes ==
    /\ Packets
    /\ burst_ctr \in [Client -> Nat] /\ msg_ctr \in [Client -> Nat]
    /\ nread \in [Client -> Nat] /\ receiving \subseteq Client

\* The packets that a client sent and the datagrams that it read, by the
\* counters of its loops.
Accounts(c) ==
    /\ Cardinality(Sent(c)) =
           burst_ctr[c] * BURST_SIZE[c] + (IF c \in receiving THEN BURST_SIZE[c] ELSE msg_ctr[c])
    /\ nread[c] =
           burst_ctr[c] * InBurst(c) + (IF c \in receiving THEN InBurst(c) - msg_ctr[c] ELSE 0)
    /\ c \in receiving => msg_ctr[c] \in 1 .. InBurst(c)

Loops == LoopTypes /\ \A c \in Client : Accounts(c)

LEMMA InBurstNat ==
    ASSUME NEW c \in Client
    PROVE  /\ BURST_SIZE[c] \in Nat \ {0} /\ InBurst(c) \in Nat \ {0}
           /\ \A b \in Nat : /\ b * BURST_SIZE[c] \in Nat /\ b * InBurst(c) \in Nat
                             /\ (b + 1) * BURST_SIZE[c] = b * BURST_SIZE[c] + BURST_SIZE[c]
                             /\ (b + 1) * InBurst(c) = b * InBurst(c) + InBurst(c)
                             /\ (b * BURST_SIZE[c]) * Expected(c) = b * InBurst(c)
<1>1. \A x, y \in Nat : x * y \in Nat /\ (x # 0 /\ y # 0 => x * y # 0)
  OBVIOUS
<1>2. \A x, y \in Nat : (x + 1) * y = x * y + y
  OBVIOUS
<1>3. \A x, y, z \in Nat : (x * y) * z = x * (y * z)
  OBVIOUS
<1>4. BURST_SIZE[c] \in Nat \ {0} /\ Expected(c) \in Nat \ {0}
  BY ClientsAssumption DEF Expected
<1>5. InBurst(c) \in Nat \ {0}
  BY <1>1, <1>4 DEF InBurst
<1>6. \A b \in Nat : (b * BURST_SIZE[c]) * Expected(c) = b * InBurst(c)
  BY <1>3, <1>4 DEF InBurst
<1> QED
  BY <1>1, <1>2, <1>4, <1>5, <1>6

\* What SendPacket does, for each of the programs.
Sending(c) ==
    /\ SendPacket(c)
    /\ \E keys : IsPacket(keys, c) /\ requests' = Append(requests, keys)

LEMMA SendsKeys ==
    ASSUME Inv, ClientsNext
    PROVE  \/ \E c \in Client : Sending(c)
           \/ \E c \in Client : Receive(c)
           \/ MiddleboxStep
<1>1. ASSUME NEW c \in Client, SendPacket(c), IsPacket(Last(requests'), c)
      PROVE  Sending(c)
  <2>1. PICK keys : requests' = Append(requests, keys)
    BY <1>1 DEF SendPacket, AppClientIn
  <2>2. requests \in Seq(Seq(Key) \ {<< >>})
    BY DEF Inv, Environment
  <2>3. Last(requests') = keys
    BY <2>1, <2>2 DEF Last
  <2> QED
    BY <1>1, <2>1, <2>3 DEF Sending
<1>2. ASSUME NEW c \in BurstClient, BurstSend(c)
      PROVE  \E d \in Client : Sending(d)
  <2>1. BurstMessage[c] \in Seq(Key) /\ c \in Client /\ c \notin RandClient
    BY ClientsAssumption, MiddleboxAssumption DEF Client
  <2>2. IsPacket(BurstMessage[c], c)
    BY <1>2, <2>1 DEF IsPacket, CountMatches, Expected
  <2> QED
    BY <1>1, <1>2, <2>1, <2>2 DEF BurstSend
<1>3. ASSUME NEW c \in RandClient, RandSend(c)
      PROVE  \E d \in Client : Sending(d)
  <2>1. c \in Client /\ Expected(c) = NUM_KEYS_PER_PACKET /\ NUM_KEYS_PER_PACKET \in Nat
    BY ClientsAssumption DEF Client, Expected
  <2>2. \A keys \in create_rand_msg : keys \in Seq(Key) /\ Len(keys) = NUM_KEYS_PER_PACKET
    BY <2>1, ClientsAssumption DEF create_rand_msg
  <2>3. \A keys \in create_rand_msg : IsPacket(keys, c)
    BY <2>1, <2>2 DEF IsPacket
  <2> QED
    BY <1>1, <1>3, <2>1, <2>3 DEF RandSend
<1> QED
  BY <1>2, <1>3, Zenon DEF ClientsNext

LEMMA LoopIsStep == Inv /\ [ClientsNext]_clientsVars => [Next]_vars
<1>1. \A c : SendPacket(c) => Next
  BY DEF SendPacket, Next
<1>2. \A c : Receive(c) => UNCHANGED vars
  BY Zenon DEF Receive
<1>3. MiddleboxStep => Next
  BY DEF MiddleboxStep
<1> QED
  BY <1>1, <1>2, <1>3, SendsKeys DEF Sending, clientsVars

LEMMA SendingPackets ==
    ASSUME LoopTypes, NEW c \in Client, Sending(c), requests \in Seq(Seq(Key) \ {<< >>})
    PROVE  /\ Packets' /\ Len(requests') = Len(requests) + 1 /\ Len(requests) \in Nat
           /\ \A n \in 1 .. Len(requests) : requests'[n] = requests[n] /\ from'[n] = from[n]
           /\ from'[Len(requests) + 1] = c
<1>1. PICK keys : IsPacket(keys, c) /\ requests' = Append(requests, keys)
  BY DEF Sending
<1>2. from' = Append(from, c) /\ from \in Seq(Client) /\ Len(from) = Len(requests)
  BY DEF Sending, SendPacket, LoopTypes, Packets
<1>3. /\ Len(requests') = Len(requests) + 1 /\ Len(requests) \in Nat
      /\ \A n \in 1 .. Len(requests) : requests'[n] = requests[n]
      /\ requests'[Len(requests) + 1] = keys
  BY <1>1
<1>4. /\ from' \in Seq(Client) /\ Len(from') = Len(requests')
      /\ \A n \in 1 .. Len(requests) : from'[n] = from[n]
      /\ from'[Len(requests) + 1] = c
  BY <1>2, <1>3
<1>5. \A n \in 1 .. Len(requests) : IsPacket(requests[n], from[n])
  BY DEF LoopTypes, Packets
<1>6. ASSUME NEW n \in 1 .. Len(requests') PROVE IsPacket(requests'[n], from'[n])
  <2>1. CASE n \in 1 .. Len(requests)
    BY <1>3, <1>4, <1>5, <2>1
  <2>2. CASE n = Len(requests) + 1
    BY <1>1, <1>3, <1>4, <2>2
  <2> QED
    BY <1>3, <2>1, <2>2
<1> QED
  BY <1>3, <1>4, <1>6 DEF Packets

LEMMA SendingLoops ==
    ASSUME Loops, NEW c \in Client, Sending(c), requests \in Seq(Seq(Key) \ {<< >>})
    PROVE  /\ Loops'
           /\ Cardinality(Sent(c)') \in Nat
           /\ Cardinality(Sent(c)') > burst_ctr[c] * BURST_SIZE[c]
<1>1. /\ Packets /\ Packets' /\ Len(requests') = Len(requests) + 1 /\ Len(requests) \in Nat
      /\ \A n \in 1 .. Len(requests) : from'[n] = from[n]
      /\ from'[Len(requests) + 1] = c
  BY SendingPackets DEF Loops, LoopTypes
<1>2. /\ Len(from) = Len(requests) /\ Len(from') = Len(requests')
  BY <1>1 DEF Packets
<1>3. Sent(c)' = Sent(c) \cup {Len(requests) + 1} /\ Len(requests) + 1 \notin Sent(c)
  BY <1>1, <1>2 DEF Sent
<1>4. Cardinality(Sent(c)') = Cardinality(Sent(c)) + 1 /\ Cardinality(Sent(c)) \in Nat
  BY <1>1, <1>3, SentFinite, FS_AddElement
<1>5. \A e \in Client : e # c => Sent(e)' = Sent(e)
  BY <1>1, <1>2 DEF Sent
<1>6. /\ burst_ctr \in [Client -> Nat] /\ msg_ctr \in [Client -> Nat]
      /\ nread \in [Client -> Nat] /\ receiving \subseteq Client
  BY DEF Loops, LoopTypes
<1>7. /\ c \notin receiving /\ UNCHANGED <<burst_ctr, nread>>
      /\ \/ /\ msg_ctr[c] + 1 < BURST_SIZE[c] /\ UNCHANGED receiving
            /\ msg_ctr' = [msg_ctr EXCEPT ![c] = msg_ctr[c] + 1]
         \/ /\ msg_ctr[c] + 1 = BURST_SIZE[c] /\ receiving' = receiving \cup {c}
            /\ msg_ctr' = [msg_ctr EXCEPT ![c] = InBurst(c)]
  BY DEF Sending, SendPacket, InBurst
<1>8. BURST_SIZE[c] \in Nat \ {0} /\ InBurst(c) \in Nat \ {0}
      /\ burst_ctr[c] * BURST_SIZE[c] \in Nat /\ burst_ctr[c] * InBurst(c) \in Nat
  BY <1>6, InBurstNat
<1>9. LoopTypes'
  <2>1. receiving' \subseteq Client
    BY <1>6, <1>7
  <2>2. msg_ctr' \in [Client -> Nat]
    <3>1. \E m \in Nat : msg_ctr' = [msg_ctr EXCEPT ![c] = m]
      BY <1>6, <1>7, <1>8
    <3> QED
      BY <1>6, <3>1
  <2> QED
    BY <1>1, <1>6, <1>7, <2>1, <2>2 DEF LoopTypes
<1>10. \A e \in Client : e # c =>
          msg_ctr'[e] = msg_ctr[e] /\ (e \in receiving' <=> e \in receiving)
  BY <1>6, <1>7
<1>11. \A e \in Client : e # c => Accounts(e)'
  BY <1>5, <1>7, <1>10 DEF Loops, Accounts, InBurst
<1>12. Accounts(c)
  BY DEF Loops
<1>13. /\ Cardinality(Sent(c)) = burst_ctr[c] * BURST_SIZE[c] + msg_ctr[c]
       /\ nread[c] = burst_ctr[c] * InBurst(c)
  BY <1>6, <1>7, <1>8, <1>12 DEF Accounts
<1>14. msg_ctr[c] \in Nat
  BY <1>6
<1>15. Accounts(c)'
  <2>1. InBurst(c)' = InBurst(c)
    BY DEF InBurst
  <2>2. CASE msg_ctr[c] + 1 < BURST_SIZE[c] /\ UNCHANGED receiving
              /\ msg_ctr' = [msg_ctr EXCEPT ![c] = msg_ctr[c] + 1]
    <3>1. msg_ctr'[c] = msg_ctr[c] + 1 /\ c \notin receiving'
      BY <1>6, <1>7, <2>2
    <3>2. Cardinality(Sent(c)') = burst_ctr[c] * BURST_SIZE[c] + msg_ctr'[c]
      BY <1>4, <1>8, <1>13, <1>14, <3>1
    <3> QED
      BY <1>7, <1>8, <1>13, <2>1, <3>1, <3>2 DEF Accounts
  <2>3. CASE msg_ctr[c] + 1 = BURST_SIZE[c] /\ receiving' = receiving \cup {c}
              /\ msg_ctr' = [msg_ctr EXCEPT ![c] = InBurst(c)]
    <3>1. msg_ctr'[c] = InBurst(c) /\ c \in receiving'
      BY <1>6, <2>3
    <3>2. Cardinality(Sent(c)') = burst_ctr[c] * BURST_SIZE[c] + BURST_SIZE[c]
      BY <1>4, <1>8, <1>13, <1>14, <2>3
    <3> QED
      BY <1>7, <1>8, <1>13, <2>1, <3>1, <3>2 DEF Accounts
  <2> QED
    BY <1>7, <2>2, <2>3
<1>16. Cardinality(Sent(c)') > burst_ctr[c] * BURST_SIZE[c] /\ Cardinality(Sent(c)') \in Nat
  BY <1>4, <1>8, <1>13, <1>14
<1> QED
  BY <1>9, <1>11, <1>15, <1>16 DEF Loops

LEMMA ReceiveLoops ==
    ASSUME Loops, NEW c \in Client, Receive(c)
    PROVE  /\ Loops'
           /\ burst_ctr' # burst_ctr =>
                 /\ nread[c] + 1 = Cardinality(Sent(c)) * Expected(c)
                 /\ \A e \in Client : e # c => burst_ctr'[e] = burst_ctr[e]
<1>1. /\ burst_ctr \in [Client -> Nat] /\ msg_ctr \in [Client -> Nat]
      /\ nread \in [Client -> Nat] /\ receiving \subseteq Client /\ Packets
  BY DEF Loops, LoopTypes
<1>2. /\ c \in receiving /\ UNCHANGED <<requests, from>>
      /\ nread' = [nread EXCEPT ![c] = nread[c] + 1]
      /\ msg_ctr' = [msg_ctr EXCEPT ![c] = msg_ctr[c] - 1]
      /\ \/ msg_ctr[c] > 1 /\ UNCHANGED <<burst_ctr, receiving>>
         \/ /\ msg_ctr[c] = 1 /\ receiving' = receiving \ {c}
            /\ burst_ctr' = [burst_ctr EXCEPT ![c] = burst_ctr[c] + 1]
  BY Zenon DEF Receive, vars, envVars
<1>3. /\ BURST_SIZE[c] \in Nat \ {0} /\ InBurst(c) \in Nat \ {0}
      /\ burst_ctr[c] * BURST_SIZE[c] \in Nat /\ burst_ctr[c] * InBurst(c) \in Nat
      /\ (burst_ctr[c] + 1) * BURST_SIZE[c] = burst_ctr[c] * BURST_SIZE[c] + BURST_SIZE[c]
      /\ (burst_ctr[c] + 1) * InBurst(c) = burst_ctr[c] * InBurst(c) + InBurst(c)
      /\ ((burst_ctr[c] + 1) * BURST_SIZE[c]) * Expected(c)
            = (burst_ctr[c] + 1) * InBurst(c)
  <2>1. burst_ctr[c] \in Nat /\ burst_ctr[c] + 1 \in Nat
    BY <1>1
  <2> QED
    BY <2>1, InBurstNat
<1>4. /\ Cardinality(Sent(c)) = burst_ctr[c] * BURST_SIZE[c] + BURST_SIZE[c]
      /\ nread[c] = burst_ctr[c] * InBurst(c) + (InBurst(c) - msg_ctr[c])
      /\ msg_ctr[c] \in 1 .. InBurst(c)
  BY <1>2 DEF Loops, Accounts
<1>5. nread'[c] = nread[c] + 1 /\ msg_ctr'[c] = msg_ctr[c] - 1 /\ nread[c] \in Nat
  BY <1>1, <1>2
<1>6. \A e \in Client : Sent(e)' = Sent(e) /\ InBurst(e)' = InBurst(e)
  BY <1>2 DEF Sent, InBurst
<1>7. \A e \in Client : e # c =>
          /\ msg_ctr'[e] = msg_ctr[e] /\ nread'[e] = nread[e] /\ burst_ctr'[e] = burst_ctr[e]
          /\ e \in receiving' <=> e \in receiving
  BY <1>1, <1>2
<1>8. \A e \in Client : e # c => Accounts(e)'
  BY <1>6, <1>7 DEF Loops, Accounts
<1>9. nread' \in [Client -> Nat] /\ msg_ctr' \in [Client -> Nat]
  BY <1>1, <1>2, <1>3, <1>4
<1>10. Packets'
  BY <1>1, <1>2 DEF Packets
<1>11. CASE msg_ctr[c] > 1 /\ UNCHANGED <<burst_ctr, receiving>>
  <2>1. LoopTypes'
    BY <1>1, <1>9, <1>10, <1>11 DEF LoopTypes
  <2>2. c \in receiving' /\ burst_ctr'[c] = burst_ctr[c]
    BY <1>2, <1>11
  <2>3. /\ nread'[c] = burst_ctr[c] * InBurst(c) + (InBurst(c) - msg_ctr'[c])
        /\ msg_ctr'[c] \in 1 .. InBurst(c)
    BY <1>3, <1>4, <1>5, <1>11
  <2>4. Accounts(c)'
    BY <1>4, <1>6, <2>2, <2>3 DEF Accounts
  <2> QED
    BY <1>8, <1>11, <2>1, <2>4 DEF Loops
<1>12. CASE /\ msg_ctr[c] = 1 /\ receiving' = receiving \ {c}
            /\ burst_ctr' = [burst_ctr EXCEPT ![c] = burst_ctr[c] + 1]
  <2>1. burst_ctr'[c] = burst_ctr[c] + 1 /\ c \notin receiving' /\ msg_ctr'[c] = 0
    BY <1>1, <1>5, <1>12
  <2>2. burst_ctr' \in [Client -> Nat] /\ receiving' \subseteq Client
    BY <1>1, <1>12
  <2>3. LoopTypes'
    BY <1>9, <1>10, <2>2 DEF LoopTypes
  <2>4. nread[c] + 1 = burst_ctr[c] * InBurst(c) + InBurst(c)
    BY <1>3, <1>4, <1>5, <1>12
  <2>5. /\ nread'[c] = (burst_ctr[c] + 1) * InBurst(c)
        /\ Cardinality(Sent(c)) = (burst_ctr[c] + 1) * BURST_SIZE[c]
    BY <1>3, <1>4, <1>5, <2>4, Zenon
  <2>6. (burst_ctr[c] + 1) * InBurst(c) \in Nat /\ (burst_ctr[c] + 1) * BURST_SIZE[c] \in Nat
    BY <1>3
  <2>7. Accounts(c)'
    BY <1>6, <2>1, <2>5, <2>6 DEF Accounts
  <2>8. nread[c] + 1 = Cardinality(Sent(c)) * Expected(c)
    BY <1>3, <2>4, <2>5, Zenon
  <2> QED
    BY <1>7, <1>8, <2>3, <2>7, <2>8 DEF Loops
<1> QED
  BY <1>2, <1>11, <1>12

----------------------------------------------------------------------------
(* A finished burst was answered. *)

SentUpTo(n, c) == {m \in 1 .. n : from[m] = c}

LEMMA StepAnswered ==
    ASSUME Inv, Typed, Steered, NotAnsweredTwice, NotAnsweredTwice', Loops, BurstIsAnswered,
           [ClientsNext]_clientsVars
    PROVE  Loops' /\ BurstIsAnswered'
<1>1. [Next]_vars
  BY LoopIsStep
<1>2. /\ BagToSet(got) \subseteq BagToSet(got')
      /\ \A n, k : Answered(n, k)' >= Answered(n, k)
  BY <1>1, StepAnswers
<1>3. Inv' /\ Typed'
  BY <1>1, StepInv, StepTyped
<1>4. Packets
  BY DEF Loops, LoopTypes
\* A burst that was finished before stays answered.
<1>5. ASSUME Loops', NEW n \in 1 .. Len(requests), n \in 1 .. Len(requests'),
             requests'[n] = requests[n], NEW k \in Key,
             \A d \in BagToSet(got') : d[3], Finished(n), CountMatches(from[n])
      PROVE  Answered(n, k)' = Asked(n, k)'
  <2>1. Answered(n, k) = Asked(n, k)
    BY <1>2, <1>5 DEF BurstIsAnswered
  <2>2. Asked(n, k)' = Asked(n, k)
    BY <1>5 DEF Asked
  <2>3. Answered(n, k)' <= Asked(n, k)'
    BY <1>5 DEF NotAnsweredTwice
  <2>4. Answered(n, k)' \in Nat /\ Asked(n, k) \in Nat
    <3>1. Answered(n, k)' \in Nat
      BY <1>3 DEF Typed, IsABag, Answered, BagIn, BagToSet
    <3> QED
      BY <1>4, <3>1, PositionFinds
  <2> QED
    BY <1>2, <2>1, <2>2, <2>3, <2>4
<1>6. CASE UNCHANGED <<requests, loopVars>>
  <2>1. Loops'
    BY <1>6, Zenon DEF loopVars, Loops, LoopTypes, Packets, Accounts, Sent, InBurst
  <2>2. \A n : Finished(n)' <=> Finished(n)
    BY <1>6, Zenon DEF loopVars, Finished
  <2>3. UNCHANGED <<requests, from>>
    BY <1>6 DEF loopVars
  <2> QED
    BY <1>5, <2>1, <2>2, <2>3 DEF BurstIsAnswered
<1>7. ASSUME NEW c \in Client, Sending(c)
      PROVE  Loops' /\ BurstIsAnswered'
  <2>1. /\ Loops' /\ Cardinality(Sent(c)') > burst_ctr[c] * BURST_SIZE[c]
        /\ Cardinality(Sent(c)') \in Nat
        /\ Len(requests') = Len(requests) + 1 /\ Len(requests) \in Nat
        /\ \A n \in 1 .. Len(requests) : requests'[n] = requests[n] /\ from'[n] = from[n]
        /\ from'[Len(requests) + 1] = c
    BY <1>7, SendingLoops, SendingPackets DEF Inv, Environment, Loops
  <2>2. UNCHANGED burst_ctr
    BY <1>7 DEF Sending, SendPacket
  <2>3. ASSUME NEW n \in 1 .. Len(requests) PROVE Finished(n)' <=> Finished(n)
    <3>1. \A e : SentUpTo(n, e)' = SentUpTo(n, e)
      BY <2>1 DEF SentUpTo
    <3> QED
      BY <2>1, <2>2, <3>1 DEF Finished, SentUpTo
  <2>4. PICK last : last = Len(requests) + 1
    OBVIOUS
  <2>5. ~Finished(last)'
    <3>1. Len(from') = last /\ from'[last] = c
      BY <2>1, <2>4 DEF Loops, LoopTypes, Packets
    <3>2. SentUpTo(last, c)' = Sent(c)'
      BY <3>1 DEF SentUpTo, Sent
    <3>3. burst_ctr[c] \in Nat
      BY DEF Loops, LoopTypes
    <3>4. burst_ctr[c] * BURST_SIZE[c] \in Nat /\ Cardinality(Sent(c)') \in Nat
      BY <2>1, <3>3, InBurstNat
    <3>5. Finished(last)' <=> Cardinality(Sent(c)') <= burst_ctr[c] * BURST_SIZE[c]
      BY <2>2, <3>1, <3>2 DEF Finished, SentUpTo
    <3> QED
      BY <2>1, <3>4, <3>5
  <2>6. \A n \in 1 .. Len(requests') : n \in 1 .. Len(requests) \/ n = last
    BY <2>1, <2>4
  <2> QED
    BY <1>5, <2>1, <2>3, <2>5, <2>6 DEF BurstIsAnswered
<1>8. ASSUME NEW c \in Client, Receive(c)
      PROVE  Loops' /\ BurstIsAnswered'
  <2>1. /\ Loops' /\ UNCHANGED <<requests, from, got>>
        /\ burst_ctr' # burst_ctr =>
              /\ nread[c] + 1 = Cardinality(Sent(c)) * Expected(c)
              /\ \A e \in Client : e # c => burst_ctr'[e] = burst_ctr[e]
    BY <1>8, ReceiveLoops, Zenon DEF Receive, vars, envVars
  <2>2. CASE burst_ctr' = burst_ctr
    <3>1. \A n : Finished(n)' <=> Finished(n)
      BY <2>1, <2>2, Zenon DEF Finished
    <3> QED
      BY <1>5, <2>1, <3>1 DEF BurstIsAnswered
  <2>3. CASE burst_ctr' # burst_ctr
    <3> SUFFICES ASSUME \A d \in BagToSet(got) : d[3], NEW n \in 1 .. Len(requests),
                        Finished(n)', CountMatches(from[n]), NEW k \in Key
                 PROVE  Answered(n, k)' = Asked(n, k)'
      BY <2>1 DEF BurstIsAnswered
    <3>1. UNCHANGED <<Answered(n, k), Asked(n, k)>>
      BY <2>1 DEF Answered, Asked
    <3>2. CASE from[n] = c
      <4>1. /\ Delivered(c) \in Nat
            /\ Delivered(c) >= Cardinality(Sent(c)) * Expected(c) =>
                   \A m \in Sent(c), q \in Key : Answered(m, q) = Asked(m, q)
        BY <1>4, <3>2, CountSuffices DEF Typed
      <4>2. nread[c] \in Nat /\ nread[c] < Delivered(c)
        BY <1>8 DEF Receive, Loops, LoopTypes
      <4>3. Delivered(c) >= Cardinality(Sent(c)) * Expected(c)
        BY <2>1, <2>3, <4>1, <4>2
      <4>4. n \in Sent(c)
        BY <1>4, <3>2 DEF Sent, Packets
      <4> QED
        BY <3>1, <4>1, <4>3, <4>4
    <3>3. CASE from[n] # c
      <4>1. from[n] \in Client
        BY <1>4 DEF Packets
      <4>2. Finished(n)
        BY <2>1, <2>3, <3>3, <4>1 DEF Finished
      <4> QED
        BY <1>5, <2>1, <4>2
    <3> QED
      BY <3>2, <3>3
  <2> QED
    BY <2>1, <2>2, <2>3
<1>9. CASE MiddleboxStep
  BY <1>6, <1>9 DEF MiddleboxStep
<1>10. CASE UNCHANGED clientsVars
  BY <1>6, <1>10 DEF clientsVars, vars, envVars
<1> QED
  BY <1>7, <1>8, <1>9, <1>10, SendsKeys

LEMMA InitAnswered == ClientsInit => Loops /\ BurstIsAnswered
<1> SUFFICES ASSUME ClientsInit PROVE Loops /\ BurstIsAnswered
  OBVIOUS
<1>1. /\ requests = << >> /\ from = << >> /\ receiving = {}
      /\ burst_ctr = [c \in Client |-> 0] /\ msg_ctr = [c \in Client |-> 0]
      /\ nread = [c \in Client |-> 0]
  BY DEF ClientsInit, Init
<1>2. LoopTypes
  BY <1>1 DEF LoopTypes, Packets
<1>3. ASSUME NEW c \in Client PROVE Accounts(c)
  <2>1. Sent(c) = {} /\ Cardinality(Sent(c)) = 0
    <3>1. Sent(c) = {}
      BY <1>1 DEF Sent
    <3> QED
      BY <3>1, FS_EmptySet
  <2>2. 0 * BURST_SIZE[c] = 0 /\ 0 * InBurst(c) = 0
    <3>1. \A x \in Nat : 0 * x = 0
      OBVIOUS
    <3> QED
      BY <3>1, InBurstNat
  <2> QED
    BY <1>1, <2>1, <2>2 DEF Accounts
<1>4. BurstIsAnswered
  BY <1>1 DEF BurstIsAnswered
<1> QED
  BY <1>2, <1>3, <1>4 DEF Loops

\* The clients are an environment of the middlebox: by the shape of ClientsNext,
\* for the theorem below.
LEMMA ClientsUseMiddlebox == ClientsSpec => Spec
<1>1. ClientsInit => Init
  BY DEF ClientsInit
<1>2. Inv /\ [ClientsNext]_clientsVars => [Next]_vars
  BY LoopIsStep
<1>3. Inv /\ [Next]_vars => Inv'
  BY StepInv
<1> QED
  BY <1>1, <1>2, <1>3, InitInv, PTL DEF ClientsSpec, Spec

\* client.cpp:122, when the count of a burst has run out, every key of each of
\* its packets was answered, for any numbers of clients, bursts, packets and keys,
\* if values come in one datagram, memcached and the network are orderly, and the
\* client's count matches its message. The other clients may ask for any number of
\* keys.
THEOREM BurstsAreAnswered ==
    ASSUME Orderly, NoGaps
    PROVE  ClientsSpec => []BurstIsAnswered
<1>1. Spec => [](Inv /\ Typed /\ Steering)
  BY InitInv, StepInv, InitTyped, StepTyped, InitSteers, StepSteers, PTL DEF Spec
<1>2. Steering => Steered
  BY DEF Steering
<1>3. /\ Inv /\ Typed /\ Steered /\ NotAnsweredTwice /\ NotAnsweredTwice' /\ Loops
         /\ BurstIsAnswered /\ [ClientsNext]_clientsVars
      => Loops' /\ BurstIsAnswered'
  BY StepAnswered
<1> QED
  BY <1>1, <1>2, <1>3, ClientsUseMiddlebox, NoAnswerTwice, InitAnswered, PTL DEF ClientsSpec
============================================================================
