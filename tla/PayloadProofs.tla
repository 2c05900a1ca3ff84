--------------------------- MODULE PayloadProofs ---------------------------
(***************************************************************************)
(* strip_keys finds the words of every request that names a first key, of  *)
(* any length and with any blanks; the message asks for the same keys; and *)
(* every datagram of an answer is looked up by the key of its value.       *)
(***************************************************************************)
EXTENDS Payload, SequenceTheorems, WellFoundedInduction, TLAPS

Elements(s) == {s[n] : n \in DOMAIN s}
KeySet == Elements(keys)

LEMMA AppendSet ==
    ASSUME NEW S, NEW s \in Seq(S), NEW e \in S, NEW t, t = Append(s, e)
    PROVE  Elements(t) = Elements(s) \cup {e}
<1>1. /\ t \in Seq(S) /\ Len(t) = Len(s) + 1 /\ t[Len(s) + 1] = e
      /\ \A n \in 1 .. Len(s) : t[n] = s[n]
  OBVIOUS
<1>2. DOMAIN t = 1 .. Len(s) + 1 /\ DOMAIN s = 1 .. Len(s) /\ Len(s) \in Nat
  BY <1>1
<1>3. ASSUME NEW n \in DOMAIN t PROVE t[n] \in Elements(s) \cup {e}
  BY <1>1, <1>2 DEF Elements
<1>4. ASSUME NEW n \in DOMAIN s PROVE s[n] \in Elements(t)
  BY <1>1, <1>2 DEF Elements
<1>5. e \in Elements(t)
  BY <1>1, <1>2 DEF Elements
<1> QED
  BY <1>3, <1>4, <1>5 DEF Elements

----------------------------------------------------------------------------
(* How far the walk has come.                                              *)

\* The first blank of text stands at f, a key behind it.
FirstBlank(text, f) ==
    /\ f \in 1 .. Len(text) - 1
    /\ text[f] = Blank /\ text[f + 1] # Blank
    /\ \A m \in 1 .. f - 1 : text[m] # Blank

\* A word of the request that stands at p .. q.
Stands(w, p, q) ==
    /\ p \in 2 .. Len(payload) /\ q \in 2 .. Len(payload)
    /\ IsWord(payload, p, q) /\ w = SubSeq(payload, p, q)

\* The keys found are the words that end before position n.
FoundBefore(n) == \A w : w \in KeySet <=> \E p, q \in Nat : Stands(w, p, q) /\ q < n

\* The last j characters are in the buffer and begin a word.
Copying(f) ==
    /\ f < i - j /\ Len(buffer) = j
    /\ buffer = SubSeq(payload, i - j, i - 1)
    /\ payload[i - j - 1] = Blank
    /\ \A n \in i - j .. i - 1 : payload[n] # Blank

\* Behind a blank; the buffer holds the key before it, if there is one.
AtBlank(f) ==
    /\ payload[i - 1] = Blank
    /\ i # f + 1 => buffer \in KeySet

Walked(f) ==
    /\ phase = "skip" => i \in 1 .. f /\ j = 0 /\ keys = << >>
    /\ phase = "copy" =>
        /\ i \in f + 1 .. Len(payload) + 1
        /\ FoundBefore(i - 1)
        /\ IF j = 0 THEN AtBlank(f) ELSE Copying(f)
    /\ phase \in {"merge", "answer"} => KeySet = Words(payload)

Texts ==
    /\ payload \in Seq(Char) /\ buffer \in Seq(Char) /\ keys \in Seq(Seq(Char))
    /\ i \in Nat \ {0} /\ j \in 0 .. Len(buffer)
    /\ phase \in {"skip", "copy", "merge", "answer"}

Inv == Texts /\ \A f : FirstBlank(payload, f) => Walked(f)

StandsIn(text, w, p, q) ==
    /\ p \in 2 .. Len(text) /\ q \in 2 .. Len(text)
    /\ IsWord(text, p, q) /\ w = SubSeq(text, p, q)

LEMMA WordsOf ==
    ASSUME NEW text
    PROVE  \A w : w \in Words(text) <=> \E p, q \in Nat : StandsIn(text, w, p, q)
<1> DEFINE N == 2 .. Len(text)
           spans == {pq \in N \X N : IsWord(text, pq[1], pq[2])}
<1>1. ASSUME NEW w \in Words(text) PROVE \E p, q \in Nat : StandsIn(text, w, p, q)
  <2>1. PICK pq \in spans : w = SubSeq(text, pq[1], pq[2])
    BY DEF Words
  <2>2. pq[1] \in N /\ pq[2] \in N /\ IsWord(text, pq[1], pq[2])
    OBVIOUS
  <2>3. StandsIn(text, w, pq[1], pq[2])
    BY <2>1, <2>2 DEF StandsIn
  <2>4. pq[1] \in Nat /\ pq[2] \in Nat
    BY <2>2
  <2> QED
    BY <2>3, <2>4
<1>2. ASSUME NEW w, NEW p \in Nat, NEW q \in Nat, StandsIn(text, w, p, q)
      PROVE  w \in Words(text)
  <2>1. <<p, q>> \in spans /\ w = SubSeq(text, <<p, q>>[1], <<p, q>>[2])
    BY <1>2 DEF StandsIn
  <2> QED
    BY <2>1, Zenon DEF Words
<1> QED
  BY <1>1, <1>2

LEMMA WordsStand ==
    \A w : w \in Words(payload) <=> \E p, q \in Nat : Stands(w, p, q)
  BY WordsOf DEF Stands, StandsIn

LEMMA InitInv == Init => Inv
<1> SUFFICES ASSUME Init PROVE Inv
  OBVIOUS
<1>1. PICK text \in Requests : payload = <<Gets>> \o text
  BY DEF Init
<1>2. text \in Seq(Char) /\ Gets \in Char
  BY PayloadAssumption DEF Char
<1>3. payload \in Seq(Char)
  BY <1>1, <1>2
<1>4. buffer \in Seq(Char)
  BY PayloadAssumption DEF Init, Char
<1>5. ASSUME NEW f, FirstBlank(payload, f) PROVE Walked(f)
  BY <1>5 DEF FirstBlank, Walked, Init
<1> QED
  BY <1>3, <1>4, <1>5 DEF Inv, Texts, Init

----------------------------------------------------------------------------
(* The steps of strip_keys.                                                *)

LEMMA SkipStep ==
    ASSUME Texts, NEW f, FirstBlank(payload, f), Walked(f), SkipCommand
    PROVE  Walked(f)'
<1>1. /\ i \in 1 .. f /\ j = 0 /\ keys = << >> /\ i' = i + 1
      /\ UNCHANGED <<payload, buffer, j, keys>>
  BY DEF Walked, SkipCommand
<1>2. Len(payload) \in Nat /\ f \in 1 .. Len(payload) - 1
  BY DEF Texts, FirstBlank
<1>3. CASE i < f
  <2>1. phase' = "skip"
    BY <1>1, <1>2, <1>3 DEF SkipCommand, FirstBlank
  <2> QED
    BY <1>1, <1>2, <1>3, <2>1 DEF Walked
<1>4. CASE i = f
  <2>1. phase' = "copy"
    BY <1>1, <1>2, <1>4 DEF SkipCommand, FirstBlank
  <2>2. i' = f + 1 /\ i' - 1 = f /\ payload'[i' - 1] = Blank
    BY <1>1, <1>2, <1>4 DEF FirstBlank
  <2>3. AtBlank(f)'
    BY <2>2 DEF AtBlank
  <2>4. ASSUME NEW w, NEW p \in Nat, NEW q \in Nat, Stands(w, p, q) PROVE f <= q
    <3>1. p \in 2 .. Len(payload) /\ q \in Nat /\ p <= q /\ payload[p - 1] = Blank
      BY <2>4 DEF Stands, IsWord
    <3>2. p - 1 >= f
      BY <1>2, <3>1 DEF FirstBlank
    <3> QED
      BY <1>2, <3>1, <3>2
  <2>5. KeySet' = {}
    BY <1>1 DEF KeySet, Elements
  <2>6. FoundBefore(i - 1)'
    <3> SUFFICES ASSUME NEW w, NEW p \in Nat, NEW q \in Nat, Stands(w, p, q)', q < i' - 1
                 PROVE  FALSE
      BY <2>5 DEF FoundBefore
    <3>1. Stands(w, p, q)
      BY <1>1 DEF Stands
    <3> QED
      BY <1>2, <2>2, <2>4, <3>1
  <2> QED
    BY <1>1, <1>2, <2>1, <2>2, <2>3, <2>6 DEF Walked
<1> QED
  BY <1>1, <1>2, <1>3, <1>4

LEMMA CopyStep ==
    ASSUME Texts, NEW f, FirstBlank(payload, f), Walked(f), CopyChar
    PROVE  Walked(f)'
<1>1. /\ phase = "copy" /\ i <= Len(payload) /\ payload[i] # Blank
      /\ buffer' = Append(SubSeq(buffer, 1, j), payload[i])
      /\ j' = j + 1 /\ i' = i + 1 /\ UNCHANGED <<payload, phase, keys>>
  BY DEF CopyChar
<1>2. /\ i \in f + 1 .. Len(payload) + 1 /\ FoundBefore(i - 1)
      /\ IF j = 0 THEN AtBlank(f) ELSE Copying(f)
  BY <1>1 DEF Walked
<1>3. /\ Len(payload) \in Nat /\ f \in 1 .. Len(payload) - 1 /\ i \in Nat /\ j \in Nat
      /\ payload \in Seq(Char) /\ buffer \in Seq(Char) /\ payload[i] \in Char
  BY <1>1, <1>2 DEF Texts, FirstBlank
<1>4. FoundBefore(i)
  <2>1. ASSUME NEW w, NEW p \in Nat, NEW q \in Nat, Stands(w, p, q), q = i - 1
        PROVE  FALSE
    BY <1>1, <1>2, <1>3, <2>1 DEF Stands, IsWord
  <2>2. \A q \in Nat : q < i <=> (q < i - 1 \/ q = i - 1)
    BY <1>3
  <2> QED
    BY <1>2, <2>1, <2>2 DEF FoundBefore
<1>5. FoundBefore(i - 1)'
  <2>1. (i - 1)' = i /\ KeySet' = KeySet
    BY <1>1, <1>3 DEF KeySet
  <2>2. \A w, p, q : Stands(w, p, q)' <=> Stands(w, p, q)
    BY <1>1 DEF Stands
  <2> QED
    BY <1>4, <2>1, <2>2 DEF FoundBefore
<1>6. Copying(f)'
  <2>1. i' - j' = i - j /\ i' - 1 = i /\ i' - j' - 1 = i - j - 1
    BY <1>1, <1>3
  <2>2. CASE j = 0
    <3>1. SubSeq(buffer, 1, j) = << >>
      BY <1>3, <2>2
    <3>2. buffer' = <<payload[i]>> /\ SubSeq(payload, i, i) = <<payload[i]>>
      <4>1. Append(<< >>, payload[i]) = <<payload[i]>>
        OBVIOUS
      <4>2. SubSeq(payload, i, i) = <<payload[i]>>
        <5>1. i \in 1 .. Len(payload)
          BY <1>1, <1>2, <1>3
        <5>2. /\ SubSeq(payload, i, i) \in Seq(Char) /\ Len(SubSeq(payload, i, i)) = 1
              /\ SubSeq(payload, i, i)[1] = payload[i]
          BY <1>3, <5>1
        <5>3. \A t \in Seq(Char) : Len(t) = 1 => t = <<t[1]>>
          OBVIOUS
        <5> QED
          BY <5>2, <5>3
      <4> QED
        BY <1>1, <3>1, <4>1, <4>2, Zenon
    <3>3. payload[i - 1] = Blank
      BY <1>2, <2>2 DEF AtBlank
    <3> QED
      BY <1>1, <1>2, <1>3, <2>1, <2>2, <3>2, <3>3 DEF Copying
  <2>3. CASE j # 0
    <3>1. Copying(f)
      BY <1>2, <2>3
    <3>2. SubSeq(buffer, 1, j) = buffer
      BY <1>3, <2>3, <3>1 DEF Copying
    <3>3. buffer' = Append(buffer, payload[i]) /\ Len(buffer') = j'
      BY <1>1, <1>3, <3>1, <3>2 DEF Copying
    <3>4. SubSeq(payload, i - j, i) = Append(SubSeq(payload, i - j, i - 1), payload[i])
      BY <1>1, <1>2, <1>3, <3>1 DEF Copying
    <3>5. f < i - j /\ payload[i - j - 1] = Blank
          /\ \A n \in i - j .. i : payload[n] # Blank
      BY <1>1, <1>3, <3>1 DEF Copying
    <3>6. buffer' = SubSeq(payload, i - j, i)
      BY <3>1, <3>3, <3>4 DEF Copying
    <3> QED
      BY <1>1, <2>1, <3>3, <3>5, <3>6 DEF Copying
  <2> QED
    BY <2>2, <2>3
<1>7. i' \in f + 1 .. Len(payload') + 1 /\ j' # 0
  BY <1>1, <1>2, <1>3
<1> QED
  BY <1>1, <1>5, <1>6, <1>7 DEF Walked

\* What the end of a key adds, at a blank or at the end of the request.
LEMMA KeyFound ==
    ASSUME Texts, NEW f, FirstBlank(payload, f), Walked(f), phase = "copy",
           \/ i <= Len(payload) /\ payload[i] = Blank
           \/ i > Len(payload),
           keys' = Append(keys, buffer), UNCHANGED payload
    PROVE  /\ \A w : w \in KeySet' <=> \E p, q \in Nat : Stands(w, p, q) /\ q < i
           /\ buffer \in KeySet' /\ keys' \in Seq(Seq(Char))
<1>1. /\ i \in f + 1 .. Len(payload) + 1 /\ FoundBefore(i - 1)
      /\ IF j = 0 THEN AtBlank(f) ELSE Copying(f)
  BY DEF Walked
<1>2. /\ Len(payload) \in Nat /\ f \in 1 .. Len(payload) - 1 /\ i \in Nat /\ j \in Nat
  BY DEF Texts, FirstBlank
<1>3. KeySet' = KeySet \cup {buffer} /\ keys' \in Seq(Seq(Char))
  <2>1. keys \in Seq(Seq(Char)) /\ buffer \in Seq(Char)
    BY DEF Texts
  <2>2. Append(keys, buffer) \in Seq(Seq(Char))
    BY <2>1
  <2>3. Elements(keys') = Elements(keys) \cup {buffer}
    <3> DEFINE T == Seq(Char)
    <3>1. keys \in Seq(T) /\ buffer \in T /\ keys' = Append(keys, buffer)
      BY <2>1
    <3> HIDE DEF T
    <3>2. \A s \in Seq(T), e \in T : \A t : t = Append(s, e) => Elements(t) = Elements(s) \cup {e}
      BY AppendSet
    <3> QED
      BY <3>1, <3>2, Zenon
  <2> QED
    BY <2>2, <2>3 DEF KeySet
<1>4. \A q \in Nat : q < i <=> (q < i - 1 \/ q = i - 1)
  BY <1>2
<1>5. CASE j = 0
  <2>1. AtBlank(f) /\ i # f + 1
    BY <1>1, <1>2, <1>5 DEF FirstBlank
  <2>2. KeySet' = KeySet
    BY <1>3, <2>1 DEF AtBlank
  <2>3. ASSUME NEW w, NEW p \in Nat, NEW q \in Nat, Stands(w, p, q), q = i - 1
        PROVE  FALSE
    BY <1>2, <2>1, <2>3 DEF Stands, IsWord, AtBlank
  <2> QED
    BY <1>1, <1>3, <1>4, <2>2, <2>3 DEF FoundBefore
<1>6. CASE j # 0
  <2>1. Copying(f)
    BY <1>1, <1>6
  <2>2. Stands(buffer, i - j, i - 1)
    BY <1>1, <1>2, <1>6, <2>1 DEF Stands, IsWord, Copying
  <2>3. ASSUME NEW w, NEW p \in Nat, NEW q \in Nat, Stands(w, p, q), q = i - 1
        PROVE  w = buffer
    <3>1. p \in Nat /\ p <= i - 1 /\ payload[p - 1] = Blank /\ 2 <= p
          /\ \A n \in p .. i - 1 : payload[n] # Blank
      BY <2>3 DEF Stands, IsWord
    <3>2. /\ payload[i - j - 1] = Blank /\ f < i - j
          /\ \A n \in i - j .. i - 1 : payload[n] # Blank
      BY <2>1 DEF Copying
    <3>3. ~(p < i - j)
      BY <1>2, <1>6, <3>1, <3>2
    <3>4. ~(p > i - j)
      BY <1>2, <1>6, <3>1, <3>2
    <3>5. p = i - j
      BY <1>2, <3>1, <3>3, <3>4
    <3> QED
      BY <2>1, <2>3, <3>5 DEF Stands, Copying
  <2>4. i - j \in Nat /\ i - 1 \in Nat
    BY <1>2, <2>2 DEF Stands
  <2>5. ASSUME NEW w \in KeySet' PROVE \E p, q \in Nat : Stands(w, p, q) /\ q < i
    <3>1. CASE w \in KeySet
      BY <1>1, <1>4, <3>1 DEF FoundBefore
    <3>2. CASE w = buffer
      BY <1>4, <2>2, <2>4, <3>2
    <3> QED
      BY <1>3, <2>5, <3>1, <3>2
  <2>6. ASSUME NEW w, NEW p \in Nat, NEW q \in Nat, Stands(w, p, q), q < i
        PROVE  w \in KeySet'
    BY <1>1, <1>3, <1>4, <2>3, <2>6 DEF FoundBefore
  <2> QED
    BY <1>3, <2>5, <2>6
<1> QED
  BY <1>5, <1>6

LEMMA EndKeyStep ==
    ASSUME Texts, NEW f, FirstBlank(payload, f), Walked(f), EndKey
    PROVE  Walked(f)'
<1>1. /\ phase = "copy" /\ i <= Len(payload) /\ payload[i] = Blank
      /\ keys' = Append(keys, buffer) /\ j' = 0 /\ i' = i + 1
      /\ UNCHANGED <<payload, phase, buffer>>
  BY DEF EndKey
<1>2. /\ \A w : w \in KeySet' <=> \E p, q \in Nat : Stands(w, p, q) /\ q < i
      /\ buffer \in KeySet'
  BY <1>1, KeyFound
<1>3. i' - 1 = i /\ i' \in f + 1 .. Len(payload') + 1
  BY <1>1 DEF Walked, Texts, FirstBlank
<1>4. FoundBefore(i - 1)'
  BY <1>1, <1>2, <1>3 DEF FoundBefore, Stands
<1>5. AtBlank(f)'
  BY <1>1, <1>2, <1>3 DEF AtBlank
<1> QED
  BY <1>1, <1>3, <1>4, <1>5 DEF Walked

LEMMA EndKeysStep ==
    ASSUME Texts, NEW f, FirstBlank(payload, f), Walked(f), EndKeys
    PROVE  Walked(f)'
<1>1. /\ phase = "copy" /\ i > Len(payload) /\ keys' = Append(keys, buffer)
      /\ phase' = "merge" /\ UNCHANGED payload
  BY DEF EndKeys
<1>2. \A w : w \in KeySet' <=> \E p, q \in Nat : Stands(w, p, q) /\ q < i
  BY <1>1, KeyFound
<1>3. \A w : \A p, q \in Nat : Stands(w, p, q) => q < i
  BY <1>1 DEF Stands, Texts
<1>4. \A w : w \in KeySet' <=> w \in Words(payload)
  BY <1>2, <1>3, WordsStand
<1>5. KeySet' = Words(payload)'
  BY <1>1, <1>4
<1> QED
  BY <1>1, <1>5 DEF Walked

LEMMA StepInv ==
    ASSUME Inv, [Next]_vars
    PROVE  Inv'
<1>1. Texts
  BY DEF Inv
<1>2. ASSUME Texts', UNCHANGED payload,
             \A f : FirstBlank(payload, f) /\ Walked(f) => Walked(f)'
      PROVE  Inv'
  BY <1>2 DEF Inv, FirstBlank
<1>3. CASE SkipCommand
  <2>1. Texts' /\ UNCHANGED payload
    BY <1>1, <1>3 DEF Texts, SkipCommand
  <2> QED
    BY <1>1, <1>2, <1>3, <2>1, SkipStep
<1>4. CASE CopyChar
  <2>1. payload[i] \in Char
    BY <1>1, <1>4 DEF Texts, CopyChar
  <2>2. Texts' /\ UNCHANGED payload
    <3> DEFINE kept == SubSeq(buffer, 1, j)
    <3>1. kept \in Seq(Char) /\ Len(kept) = j
      BY <1>1 DEF Texts
    <3>2. buffer' = Append(kept, payload[i]) /\ j' = j + 1
      BY <1>4 DEF CopyChar
    <3> HIDE DEF kept
    <3>3. buffer' \in Seq(Char) /\ j' \in 0 .. Len(buffer')
      BY <1>1, <2>1, <3>1, <3>2 DEF Texts
    <3> QED
      BY <1>1, <1>4, <3>3 DEF Texts, CopyChar
  <2> QED
    BY <1>1, <1>2, <1>4, <2>2, CopyStep
<1>5. CASE EndKey
  <2>1. Texts' /\ UNCHANGED payload
    BY <1>1, <1>5 DEF Texts, EndKey
  <2> QED
    BY <1>1, <1>2, <1>5, <2>1, EndKeyStep
<1>6. CASE EndKeys
  <2>1. Texts' /\ UNCHANGED payload
    BY <1>1, <1>6 DEF Texts, EndKeys
  <2> QED
    BY <1>1, <1>2, <1>6, <2>1, EndKeysStep
<1>7. ASSUME UNCHANGED <<payload, i, buffer, j, keys>>,
             \/ phase' = phase
             \/ phase = "merge" /\ phase' = "answer"
      PROVE  Inv'
  <2>1. Texts' /\ UNCHANGED payload
    BY <1>1, <1>7 DEF Texts
  <2>2. \A f : Walked(f) => Walked(f)'
    BY <1>7 DEF Walked, FoundBefore, Stands, AtBlank, Copying, KeySet
  <2> QED
    BY <1>2, <2>1, <2>2
<1>8. CASE Send
  BY <1>7, <1>8 DEF Send
<1>9. ASSUME NEW key \in todo, FirstDatagram(key) PROVE Inv'
  BY <1>7, <1>9 DEF FirstDatagram, clientVars
<1>10. CASE NextDatagram
  BY <1>7, <1>10 DEF NextDatagram, clientVars
<1>11. CASE UNCHANGED vars
  BY <1>7, <1>11 DEF vars, clientVars
<1> QED
  BY <1>3, <1>4, <1>5, <1>6, <1>8, <1>9, <1>10, <1>11 DEF Next

\* For every request that names a first key behind the first blank, strip_keys
\* (api.c:404) returns its words: no key is lost or joined with the next, and
\* adjacent or trailing blanks add none.
THEOREM StripKeys == Spec => []KeysAreWords
<1>1. Inv /\ [Next]_vars => Inv'
  BY StepInv
<1>2. Inv => KeysAreWords
  <2> SUFFICES ASSUME Inv, phase \in {"merge", "answer"}, FirstKeyNamed(payload)
               PROVE  KeySet = Words(payload)
    BY DEF KeysAreWords, KeySet, Elements
  <2>1. PICK f : FirstBlank(payload, f)
    BY DEF FirstKeyNamed, FirstBlank
  <2> QED
    BY <2>1 DEF Inv, Walked
<1> QED
  BY <1>1, <1>2, InitInv, PTL DEF Spec

----------------------------------------------------------------------------
(* Loops. *)

\* Induction in terms of sets: the least number outside of T has no predecessor.
LEMMA SetInduction ==
    ASSUME NEW T, 0 \in T, \A n \in Nat : n \in T => n + 1 \in T
    PROVE  \A n \in Nat : n \in T
<1> DEFINE R == OpToRel(<, Nat)
<1> SUFFICES ASSUME Nat \ T # {} PROVE FALSE
  OBVIOUS
<1>1. IsWellFoundedOn(R, Nat)
  BY NatLessThanWellFounded
<1>2. ASSUME NEW k \in Nat, NEW n \in Nat, n < k PROVE <<n, k>> \in R
  BY <1>2, Zenon DEF OpToRel
<1> HIDE DEF R
<1>3. PICK k \in Nat \ T : \A n \in Nat \ T : ~(<<n, k>> \in R)
  BY <1>1, WFMin
<1>4. k - 1 \in Nat /\ k - 1 < k /\ k - 1 + 1 = k
  OBVIOUS
<1>5. k - 1 \in T
  BY <1>2, <1>3, <1>4
<1> QED
  BY <1>3, <1>4, <1>5

\* What a loop computes up to round n, if round m takes s to step[m][s].
Computes(f, first, step, n) ==
    f[0] = first /\ \A m \in 1 .. n : f[m] = step[m][f[m - 1]]

LEMMA LoopExists ==
    ASSUME NEW S, NEW len \in Nat, NEW first \in S, NEW step \in [1 .. len -> [S -> S]]
    PROVE  \E f \in [0 .. len -> S] : Computes(f, first, step, len)
<1> DEFINE T == {n \in Nat : n <= len => \E f \in [0 .. n -> S] : Computes(f, first, step, n)}
<1>1. 0 \in T
  <2> DEFINE f == [m \in 0 .. 0 |-> first]
  <2>1. f \in [0 .. 0 -> S] /\ Computes(f, first, step, 0)
    BY DEF Computes
  <2> QED
    BY <2>1
<1>2. ASSUME NEW n \in Nat, n \in T PROVE n + 1 \in T
  <2> SUFFICES ASSUME n + 1 <= len
               PROVE  \E f \in [0 .. n + 1 -> S] : Computes(f, first, step, n + 1)
    OBVIOUS
  <2>1. PICK f \in [0 .. n -> S] : Computes(f, first, step, n)
    BY <1>2
  <2> DEFINE g == [m \in 0 .. n + 1 |-> IF m = n + 1 THEN step[n + 1][f[n]] ELSE f[m]]
  <2>2. step[n + 1] \in [S -> S] /\ f[n] \in S
    OBVIOUS
  <2>3. step[n + 1][f[n]] \in S
    BY <2>2
  <2>4. g \in [0 .. n + 1 -> S]
    BY <2>3
  <2>5. g[n + 1] = step[n + 1][f[n]] /\ \A m \in 0 .. n : g[m] = f[m]
    OBVIOUS
  <2> HIDE DEF g
  <2>6. Computes(g, first, step, n + 1)
    <3>1. g[0] = first
      BY <2>1, <2>5 DEF Computes
    <3>2. ASSUME NEW m \in 1 .. n + 1 PROVE g[m] = step[m][g[m - 1]]
      <4>1. CASE m = n + 1
        BY <2>5, <4>1
      <4>2. CASE m \in 1 .. n
        BY <2>1, <2>5, <4>2 DEF Computes
      <4> QED
        BY <4>1, <4>2
    <3> QED
      BY <3>1, <3>2 DEF Computes
  <2> QED
    BY <2>4, <2>6
<1>3. \A n \in Nat : n \in T
  <2> HIDE DEF T
  <2> QED
    BY <1>1, <1>2, SetInduction
<1> QED
  BY <1>3

\* Two loops with the same rounds compute the same.
LEMMA LoopsAgree ==
    ASSUME NEW len \in Nat, NEW first, NEW step, NEW f, NEW g,
           Computes(f, first, step, len), Computes(g, first, step, len)
    PROVE  f[len] = g[len]
<1> DEFINE T == {n \in Nat : n <= len => f[n] = g[n]}
<1>1. 0 \in T
  BY DEF Computes
<1>2. ASSUME NEW n \in Nat, n \in T PROVE n + 1 \in T
  <2> SUFFICES ASSUME n + 1 <= len PROVE f[n + 1] = g[n + 1]
    OBVIOUS
  <2>1. f[n] = g[n]
    BY <1>2
  <2>2. n + 1 \in 1 .. len /\ n + 1 - 1 = n
    OBVIOUS
  <2> QED
    BY <2>1, <2>2 DEF Computes
<1>3. \A n \in Nat : n \in T
  <2> HIDE DEF T
  <2> QED
    BY <1>1, <1>2, SetInduction
<1> QED
  BY <1>3
\* The values of a loop stay in S, in which the rounds are defined.
LEMMA LoopStays ==
    ASSUME NEW S, NEW len \in Nat, NEW first \in S, NEW step \in [1 .. len -> [S -> S]],
           NEW f, f[0] = first,
           \A m \in 1 .. len : f[m - 1] \in S => f[m] = step[m][f[m - 1]]
    PROVE  Computes(f, first, step, len) /\ f[len] \in S
<1> DEFINE T == {n \in Nat : n <= len => f[n] \in S}
<1>1. 0 \in T
  OBVIOUS
<1>2. ASSUME NEW n \in Nat, n \in T PROVE n + 1 \in T
  <2> SUFFICES ASSUME n + 1 <= len PROVE f[n + 1] \in S
    OBVIOUS
  <2>1. f[n] \in S
    BY <1>2
  <2>2. n + 1 \in 1 .. len /\ n + 1 - 1 = n
    OBVIOUS
  <2>3. f[n + 1] = step[n + 1][f[n]] /\ step[n + 1] \in [S -> S]
    BY <2>1, <2>2
  <2> QED
    BY <2>1, <2>3
<1>3. \A n \in Nat : n \in T
  <2> HIDE DEF T
  <2> QED
    BY <1>1, <1>2, SetInduction
<1>4. ASSUME NEW m \in 1 .. len PROVE m - 1 \in Nat /\ m - 1 <= len
  OBVIOUS
<1> QED
  BY <1>3, <1>4 DEF Computes

----------------------------------------------------------------------------
(* What is merged and what is written, key by key.                         *)

Strings == Seq(Char)
Lists == Seq(Strings)

MergeRounds(ks) ==
    [n \in 1 .. Len(ks) |-> [ukey \in Lists |-> insert_ukey_group(ukey, ks[n])]]

WriteRounds(ukey) ==
    [n \in 1 .. Len(ukey) |-> [text \in Strings |-> text \o <<Blank>> \o ukey[n]]]

LEMMA MergeRoundsType ==
    ASSUME NEW ks \in Lists
    PROVE  /\ MergeRounds(ks) \in [1 .. Len(ks) -> [Lists -> Lists]] /\ Len(ks) \in Nat
           /\ << >> \in Lists /\ \A n \in 1 .. Len(ks) : ks[n] \in Strings
<1>1. << >> \in Lists /\ Len(ks) \in Nat /\ \A n \in 1 .. Len(ks) : ks[n] \in Strings
  BY DEF Lists
<1>2. ASSUME NEW ukey \in Lists, NEW key \in Strings PROVE insert_ukey_group(ukey, key) \in Lists
  BY DEF insert_ukey_group, Lists
<1>3. ASSUME NEW n \in 1 .. Len(ks)
      PROVE  [ukey \in Lists |-> insert_ukey_group(ukey, ks[n])] \in [Lists -> Lists]
  BY <1>1, <1>2
<1> QED
  BY <1>1, <1>3 DEF MergeRounds

LEMMA MergedLoop ==
    ASSUME NEW ks \in Lists
    PROVE  \E f : /\ Computes(f, << >>, MergeRounds(ks), Len(ks))
                  /\ Merged(ks) = f[Len(ks)] /\ Merged(ks) \in Lists
<1> DEFINE len == Len(ks)
           step == MergeRounds(ks)
           Body(f, n) == IF n = 0 THEN << >> ELSE insert_ukey_group(f[n - 1], ks[n])
           g == CHOOSE f : f = [n \in 0 .. len |-> Body(f, n)]
<1>1. /\ step \in [1 .. len -> [Lists -> Lists]] /\ len \in Nat /\ << >> \in Lists
      /\ \A n \in 1 .. len : ks[n] \in Strings
  BY MergeRoundsType
<1>2. \A n \in 1 .. len, ukey \in Lists : step[n][ukey] = insert_ukey_group(ukey, ks[n])
  BY DEF MergeRounds
<1>3. Merged(ks) = g[len]
  BY DEF Merged
<1> HIDE DEF step, len
<1>4. PICK f \in [0 .. len -> Lists] : Computes(f, << >>, step, len)
  BY <1>1, LoopExists
<1>5. ASSUME NEW n \in 0 .. len PROVE f[n] = Body(f, n)
  <2>1. CASE n = 0
    BY <1>4, <2>1 DEF Computes
  <2>2. CASE n \in 1 .. len
    <3>1. f[n] = step[n][f[n - 1]] /\ f[n - 1] \in Lists
      BY <1>1, <1>4, <2>2 DEF Computes
    <3> QED
      BY <1>2, <2>2, <3>1
  <2> QED
    BY <1>1, <2>1, <2>2
<1>6. f = [n \in 0 .. len |-> Body(f, n)]
  BY <1>4, <1>5
<1>7. g = [n \in 0 .. len |-> Body(g, n)]
  BY <1>6
<1> HIDE DEF g
<1>8. g[0] = << >>
  BY <1>1, <1>7
<1>9. ASSUME NEW m \in 1 .. len, g[m - 1] \in Lists PROVE g[m] = step[m][g[m - 1]]
  BY <1>1, <1>2, <1>7, <1>9
<1>10. Computes(g, << >>, step, len) /\ g[len] \in Lists
  BY <1>1, <1>8, <1>9, LoopStays
<1> QED
  BY <1>3, <1>10 DEF len, step

LEMMA MergedAppend ==
    ASSUME NEW ks \in Lists, NEW key \in Strings
    PROVE  /\ Merged(Append(ks, key)) = insert_ukey_group(Merged(ks), key)
           /\ Merged(ks) \in Lists /\ Merged(Append(ks, key)) \in Lists
<1> DEFINE all == Append(ks, key)
           n == Len(ks)
<1>1. /\ all \in Lists /\ Len(all) = n + 1 /\ n \in Nat /\ all[n + 1] = key
      /\ \A m \in 1 .. n : all[m] = ks[m]
  BY DEF Lists
<1>2. \A m \in 1 .. n : MergeRounds(all)[m] = MergeRounds(ks)[m]
  BY <1>1 DEF MergeRounds
<1>3. \A ukey \in Lists : MergeRounds(all)[n + 1][ukey] = insert_ukey_group(ukey, key)
  BY <1>1 DEF MergeRounds
<1> HIDE DEF all
<1>4. PICK f : /\ Computes(f, << >>, MergeRounds(ks), n)
               /\ Merged(ks) = f[n] /\ Merged(ks) \in Lists
  BY MergedLoop
<1>5. PICK g : /\ Computes(g, << >>, MergeRounds(all), n + 1)
               /\ Merged(all) = g[n + 1] /\ Merged(all) \in Lists
  BY <1>1, MergedLoop
<1> HIDE DEF n
<1>6. Computes(g, << >>, MergeRounds(ks), n)
  BY <1>1, <1>2, <1>5 DEF Computes
<1>7. g[n] = f[n]
  BY <1>1, <1>4, <1>6, LoopsAgree
<1>8. PICK m \in 1 .. n + 1 : m = n + 1 /\ m - 1 = n
  BY <1>1
<1>9. g[m] = MergeRounds(all)[m][g[m - 1]]
  BY <1>5 DEF Computes
<1> QED
  BY <1>3, <1>4, <1>5, <1>7, <1>8, <1>9 DEF all

LEMMA MergedNone == Merged(<< >>) = << >>
<1>1. << >> \in Lists /\ Len(<< >>) = 0
  BY DEF Lists
<1> QED
  BY <1>1, MergedLoop DEF Computes

LEMMA WriteRoundsType ==
    ASSUME NEW ukey \in Lists
    PROVE  /\ WriteRounds(ukey) \in [1 .. Len(ukey) -> [Strings -> Strings]]
           /\ Len(ukey) \in Nat /\ <<Gets>> \in Strings
           /\ \A n \in 1 .. Len(ukey) : ukey[n] \in Strings
<1>1. Len(ukey) \in Nat /\ \A n \in 1 .. Len(ukey) : ukey[n] \in Strings
  BY DEF Lists
<1>2. <<Gets>> \in Strings /\ <<Blank>> \in Strings
  BY DEF Strings, Char
<1>3. ASSUME NEW text \in Strings, NEW key \in Strings PROVE text \o <<Blank>> \o key \in Strings
  BY <1>2 DEF Strings
<1>4. ASSUME NEW n \in 1 .. Len(ukey)
      PROVE  [text \in Strings |-> text \o <<Blank>> \o ukey[n]] \in [Strings -> Strings]
  BY <1>1, <1>3
<1> QED
  BY <1>1, <1>2, <1>4 DEF WriteRounds

LEMMA WrittenLoop ==
    ASSUME NEW ukey \in Lists
    PROVE  \E f : /\ Computes(f, <<Gets>>, WriteRounds(ukey), Len(ukey))
                  /\ construct_keys_packet(ukey) = f[Len(ukey)]
                  /\ construct_keys_packet(ukey) \in Strings
<1> DEFINE len == Len(ukey)
           step == WriteRounds(ukey)
           Longer(text, key) == text \o <<Blank>> \o key
           Body(f, n) == IF n = 0 THEN <<Gets>> ELSE Longer(f[n - 1], ukey[n])
           g == CHOOSE f : f = [n \in 0 .. len |-> Body(f, n)]
<1>1. /\ step \in [1 .. len -> [Strings -> Strings]] /\ len \in Nat /\ <<Gets>> \in Strings
      /\ \A n \in 1 .. len : ukey[n] \in Strings
  BY WriteRoundsType
<1>2. \A n \in 1 .. len, text \in Strings : step[n][text] = Longer(text, ukey[n])
  BY Zenon DEF WriteRounds
<1>3. construct_keys_packet(ukey) = g[len]
  BY DEF construct_keys_packet
<1> HIDE DEF step, len, Longer
<1>4. PICK f \in [0 .. len -> Strings] : Computes(f, <<Gets>>, step, len)
  BY <1>1, LoopExists
<1>5. ASSUME NEW n \in 0 .. len PROVE f[n] = Body(f, n)
  <2>1. CASE n = 0
    BY <1>4, <2>1 DEF Computes
  <2>2. CASE n \in 1 .. len
    <3>1. f[n] = step[n][f[n - 1]] /\ f[n - 1] \in Strings
      BY <1>1, <1>4, <2>2 DEF Computes
    <3> QED
      BY <1>2, <2>2, <3>1
  <2> QED
    BY <1>1, <2>1, <2>2
<1>6. f = [n \in 0 .. len |-> Body(f, n)]
  BY <1>4, <1>5
<1>7. g = [n \in 0 .. len |-> Body(g, n)]
  BY <1>6
<1> HIDE DEF g
<1>8. g[0] = <<Gets>>
  BY <1>1, <1>7
<1>9. ASSUME NEW m \in 1 .. len, g[m - 1] \in Strings PROVE g[m] = step[m][g[m - 1]]
  <2>1. m \in 0 .. len /\ m # 0
    BY <1>1
  <2>2. g[m] = Body(g, m)
    BY <1>7, <2>1, Zenon
  <2>3. g[m] = Longer(g[m - 1], ukey[m])
    BY <2>1, <2>2, Zenon
  <2> QED
    BY <1>2, <1>9, <2>3, Zenon
<1>10. Computes(g, <<Gets>>, step, len) /\ g[len] \in Strings
  BY <1>1, <1>8, <1>9, LoopStays
<1> QED
  BY <1>3, <1>10 DEF len, step

LEMMA WrittenAppend ==
    ASSUME NEW ukey \in Lists, NEW key \in Strings
    PROVE  /\ construct_keys_packet(Append(ukey, key)) =
                 construct_keys_packet(ukey) \o <<Blank>> \o key
           /\ construct_keys_packet(ukey) \in Strings
<1> DEFINE all == Append(ukey, key)
           n == Len(ukey)
<1>1. /\ all \in Lists /\ Len(all) = n + 1 /\ n \in Nat /\ all[n + 1] = key
      /\ \A m \in 1 .. n : all[m] = ukey[m]
  BY DEF Lists
<1>2. \A m \in 1 .. n : WriteRounds(all)[m] = WriteRounds(ukey)[m]
  BY <1>1 DEF WriteRounds
<1>3. \A text \in Strings : WriteRounds(all)[n + 1][text] = text \o <<Blank>> \o key
  <2>1. n + 1 \in 1 .. Len(all)
    BY <1>1
  <2> QED
    BY <1>1, <2>1, Zenon DEF WriteRounds
<1> HIDE DEF all
<1>4. PICK f : /\ Computes(f, <<Gets>>, WriteRounds(ukey), n)
               /\ construct_keys_packet(ukey) = f[n]
               /\ construct_keys_packet(ukey) \in Strings
  BY WrittenLoop
<1>5. PICK g : /\ Computes(g, <<Gets>>, WriteRounds(all), n + 1)
               /\ construct_keys_packet(all) = g[n + 1]
  BY <1>1, WrittenLoop
<1> HIDE DEF n
<1>6. Computes(g, <<Gets>>, WriteRounds(ukey), n)
  BY <1>1, <1>2, <1>5 DEF Computes
<1>7. g[n] = f[n]
  BY <1>1, <1>4, <1>6, LoopsAgree
<1>8. PICK m \in 1 .. n + 1 : m = n + 1 /\ m - 1 = n
  BY <1>1
<1>9. g[m] = WriteRounds(all)[m][g[m - 1]]
  BY <1>5 DEF Computes
<1> QED
  BY <1>3, <1>4, <1>5, <1>7, <1>8, <1>9 DEF all

LEMMA WrittenNone == construct_keys_packet(<< >>) = <<Gets>>
<1>1. << >> \in Lists /\ Len(<< >>) = 0
  BY DEF Lists
<1> QED
  BY <1>1, WrittenLoop DEF Computes

----------------------------------------------------------------------------
(* The words of a message are the keys written.                            *)

\* A key, as strip_keys finds them.
Named(key) == key \in Strings /\ Len(key) >= 1 /\ \A n \in 1 .. Len(key) : key[n] # Blank

\* What strcat leaves of the text before, and where the key stands.
LEMMA Written ==
    ASSUME NEW text \in Strings, NEW key \in Strings
    PROVE  LET longer == text \o <<Blank>> \o key
           IN  /\ longer \in Strings /\ Len(longer) = Len(text) + 1 + Len(key)
               /\ Len(text) \in Nat /\ Len(key) \in Nat
               /\ \A m \in 1 .. Len(text) : longer[m] = text[m]
               /\ longer[Len(text) + 1] = Blank
               /\ \A m \in 1 .. Len(key) : longer[Len(text) + 1 + m] = key[m]
<1> DEFINE first == text \o <<Blank>>
           longer == first \o key
<1>1. /\ first \in Strings /\ Len(first) = Len(text) + 1 /\ first[Len(text) + 1] = Blank
      /\ \A m \in 1 .. Len(text) : first[m] = text[m]
      /\ Len(text) \in Nat /\ Len(key) \in Nat
  BY DEF Strings, Char
<1> HIDE DEF first
<1>2. /\ longer \in Strings /\ Len(longer) = Len(first) + Len(key)
      /\ \A m \in 1 .. Len(first) : longer[m] = first[m]
      /\ \A m \in 1 .. Len(key) : longer[Len(first) + m] = key[m]
  <2>1. /\ longer \in Strings /\ Len(longer) = Len(first) + Len(key)
        /\ \A i_1 \in 1 .. Len(first) + Len(key) :
              longer[i_1] = IF i_1 <= Len(first) THEN first[i_1] ELSE key[i_1 - Len(first)]
    BY <1>1, ConcatProperties DEF Strings
  <2> HIDE DEF longer
  <2>2. ASSUME NEW m \in 1 .. Len(first) PROVE longer[m] = first[m]
    BY <1>1, <2>1
  <2>3. ASSUME NEW m \in 1 .. Len(key) PROVE longer[Len(first) + m] = key[m]
    <3>1. /\ Len(first) + m \in 1 .. Len(first) + Len(key) /\ Len(first) + m - Len(first) = m
          /\ ~(Len(first) + m <= Len(first))
      BY <1>1
    <3> QED
      BY <2>1, <3>1
  <2> QED
    BY <2>1, <2>2, <2>3
<1> HIDE DEF longer
<1>3. longer = text \o <<Blank>> \o key
  BY DEF longer, first
<1>4. \A m \in 1 .. Len(text) : longer[m] = text[m]
  BY <1>1, <1>2
<1>5. longer[Len(text) + 1] = Blank
  BY <1>1, <1>2
<1> QED
  BY <1>1, <1>2, <1>3, <1>4, <1>5

LEMMA WordsWritten ==
    ASSUME NEW text \in Strings, Len(text) >= 1, NEW key, Named(key)
    PROVE  Words(text \o <<Blank>> \o key) = Words(text) \cup {key}
<1> DEFINE longer == text \o <<Blank>> \o key
           n == Len(text)
           k == Len(key)
<1>1. /\ longer \in Strings /\ Len(longer) = n + 1 + k /\ n \in Nat /\ k \in Nat
      /\ \A m \in 1 .. n : longer[m] = text[m]
      /\ longer[n + 1] = Blank
      /\ \A m \in 1 .. k : longer[n + 1 + m] = key[m]
  BY Written DEF Named
<1>2. n >= 1 /\ k >= 1 /\ key \in Strings /\ \A m \in 1 .. k : key[m] # Blank
  BY DEF Named
<1> HIDE DEF longer
<1>3. \A m \in n + 2 .. n + 1 + k : longer[m] # Blank /\ longer[m] = key[m - (n + 1)]
  <2> TAKE m \in n + 2 .. n + 1 + k
  <2>1. PICK l \in 1 .. k : l = m - (n + 1) /\ n + 1 + l = m
    <3>1. m - (n + 1) \in 1 .. k /\ n + 1 + (m - (n + 1)) = m
      BY <1>1
    <3> QED
      BY <3>1
  <2>2. longer[n + 1 + l] = key[l] /\ key[l] # Blank
    BY <1>1, <1>2
  <2> QED
    BY <2>1, <2>2
<1>4. SubSeq(longer, n + 2, n + 1 + k) = key
  <2> DEFINE s == SubSeq(longer, n + 2, n + 1 + k)
  <2>1. s \in Strings /\ Len(s) = k /\ \A m \in 1 .. k : s[m] = longer[n + 1 + m]
    BY <1>1, <1>2 DEF Strings
  <2> HIDE DEF s
  <2>2. \A m \in 1 .. k : s[m] = key[m]
    BY <1>1, <2>1
  <2> QED
    BY <1>2, <2>1, <2>2 DEF Strings, s
<1>5. ASSUME NEW p \in Nat, NEW q \in Nat, 2 <= p, p <= q, q <= n
      PROVE  /\ SubSeq(longer, p, q) = SubSeq(text, p, q)
             /\ IsWord(longer, p, q) <=> IsWord(text, p, q)
  <2> DEFINE s == SubSeq(longer, p, q)
             t == SubSeq(text, p, q)
  <2>1. s \in Strings /\ Len(s) = q - p + 1 /\ \A m \in 1 .. q - p + 1 : s[m] = longer[p + m - 1]
    BY <1>1, <1>5 DEF Strings
  <2>2. t \in Strings /\ Len(t) = q - p + 1 /\ \A m \in 1 .. q - p + 1 : t[m] = text[p + m - 1]
    BY <1>1, <1>5 DEF Strings
  <2> HIDE DEF s, t
  <2>3. ASSUME NEW m \in 1 .. q - p + 1 PROVE s[m] = t[m]
    <3>1. p + m - 1 \in 1 .. n
      BY <1>1, <1>5
    <3> QED
      BY <1>1, <2>1, <2>2, <3>1
  <2>4. s = t
    BY <2>1, <2>2, <2>3 DEF Strings
  <2>5. /\ longer[p - 1] = text[p - 1] /\ \A m \in p .. q : longer[m] = text[m]
        /\ longer[q + 1] = IF q = n THEN Blank ELSE text[q + 1]
    BY <1>1, <1>5
  <2>6. q < Len(longer)
    BY <1>1, <1>2, <1>5
  <2>7. IsWord(longer, p, q) <=> IsWord(text, p, q)
    <3>1. IsWord(longer, p, q) <=>
            /\ longer[p - 1] = Blank /\ \A m \in p .. q : longer[m] # Blank
            /\ longer[q + 1] = Blank
      BY <1>5, <2>6 DEF IsWord
    <3>2. IsWord(text, p, q) <=>
            /\ text[p - 1] = Blank /\ \A m \in p .. q : text[m] # Blank
            /\ q < n => text[q + 1] = Blank
      BY <1>5 DEF IsWord
    <3>3. q = n \/ q < n
      BY <1>1, <1>5
    <3>4. (\A m \in p .. q : longer[m] # Blank) <=> \A m \in p .. q : text[m] # Blank
      BY <2>5
    <3> QED
      BY <2>5, <3>1, <3>2, <3>3, <3>4
  <2> QED
    BY <2>4, <2>7 DEF s, t
<1>6. ASSUME NEW p \in Nat, NEW q \in Nat, NEW w, StandsIn(longer, w, p, q)
      PROVE  w \in Words(text) \cup {key}
  <2>1. /\ 2 <= p /\ p <= q /\ q <= n + 1 + k /\ IsWord(longer, p, q)
        /\ w = SubSeq(longer, p, q)
    BY <1>1, <1>6 DEF StandsIn, IsWord
  <2>2. CASE q <= n
    <3>1. StandsIn(text, w, p, q)
      BY <1>1, <1>5, <2>1, <2>2 DEF StandsIn
    <3> QED
      BY <3>1, WordsOf
  <2>3. CASE q > n
    <3>1. /\ \A m \in p .. q : longer[m] # Blank
          /\ longer[p - 1] = Blank
          /\ q < n + 1 + k => longer[q + 1] = Blank
      BY <1>1, <2>1 DEF IsWord
    <3>2. p > n + 1
      BY <1>1, <2>1, <2>3, <3>1
    <3>3. p = n + 2
      <4>1. SUFFICES ASSUME p > n + 2 PROVE FALSE
        BY <1>1, <3>2
      <4>2. p - 1 \in n + 2 .. n + 1 + k
        BY <1>1, <2>1, <4>1
      <4> QED
        BY <1>3, <3>1, <4>2
    <3>4. q = n + 1 + k
      <4>1. ASSUME q < n + 1 + k PROVE FALSE
        <5>1. q + 1 \in n + 2 .. n + 1 + k
          BY <1>1, <2>1, <2>3, <4>1
        <5> QED
          BY <1>3, <3>1, <4>1, <5>1
      <4>2. q <= n + 1 + k /\ n + 1 + k \in Nat
        BY <1>1, <2>1
      <4> QED
        BY <4>1, <4>2
    <3> QED
      BY <1>4, <2>1, <3>3, <3>4
  <2> QED
    BY <1>1, <2>2, <2>3
<1>7. ASSUME NEW p \in Nat, NEW q \in Nat, NEW w, StandsIn(text, w, p, q)
      PROVE  w \in Words(longer)
  <2>1. 2 <= p /\ p <= q /\ q <= n /\ IsWord(text, p, q) /\ w = SubSeq(text, p, q)
    BY <1>1, <1>7 DEF StandsIn, IsWord
  <2>2. StandsIn(longer, w, p, q)
    BY <1>1, <1>2, <1>5, <2>1 DEF StandsIn
  <2> QED
    BY <2>2, WordsOf
<1>8. key \in Words(longer)
  <2>1. IsWord(longer, n + 2, n + 1 + k)
    BY <1>1, <1>2, <1>3 DEF IsWord
  <2>2. StandsIn(longer, key, n + 2, n + 1 + k)
    BY <1>1, <1>2, <1>4, <2>1 DEF StandsIn
  <2>3. n + 2 \in Nat /\ n + 1 + k \in Nat
    BY <1>1
  <2> QED
    BY <2>2, <2>3, WordsOf
<1>9. \A w : w \in Words(longer) <=> w \in Words(text) \cup {key}
  BY <1>6, <1>7, <1>8, WordsOf
<1> QED
  BY <1>9 DEF longer

----------------------------------------------------------------------------
(* Types *)

\* A word in front, then keys and blanks.
Plain(text) ==
    /\ text \in Strings /\ Len(text) >= 1
    /\ \A n \in 2 .. Len(text) : text[n] \in Letter \cup {Blank}

\* The message that the keys found so far would make.
Draft == construct_keys_packet(Merged(keys))

LEMMA Letters == Seq(Letter) \subseteq Strings /\ Blank \notin Letter /\ Value \notin Letter
  BY PayloadAssumption DEF Strings, Char

LEMMA PlainWords ==
    ASSUME NEW text, Plain(text)
    PROVE  Words(text) \subseteq Seq(Letter) \ {<< >>}
<1> SUFFICES ASSUME NEW w \in Words(text) PROVE w \in Seq(Letter) \ {<< >>}
  OBVIOUS
<1>1. PICK p \in Nat, q \in Nat : StandsIn(text, w, p, q)
  BY WordsOf
<1>2. /\ 2 <= p /\ p <= q /\ q <= Len(text) /\ w = SubSeq(text, p, q) /\ Len(text) \in Nat
      /\ \A n \in p .. q : text[n] # Blank
  BY <1>1 DEF StandsIn, IsWord, Plain, Strings
<1>3. \A n \in p .. q : text[n] \in Letter
  BY <1>2 DEF Plain
<1>4. w \in Seq(Letter) /\ Len(w) = q - p + 1
  BY <1>2, <1>3, SubSeqProperties
<1> QED
  BY <1>2, <1>4

LEMMA PlainWritten ==
    ASSUME NEW text, Plain(text), NEW key \in Seq(Letter)
    PROVE  Plain(text \o <<Blank>> \o key)
<1> DEFINE longer == text \o <<Blank>> \o key
           n == Len(text)
<1>1. /\ longer \in Strings /\ Len(longer) = n + 1 + Len(key)
      /\ n \in Nat /\ Len(key) \in Nat
      /\ \A m \in 1 .. n : longer[m] = text[m]
      /\ longer[n + 1] = Blank
      /\ \A m \in 1 .. Len(key) : longer[n + 1 + m] = key[m]
  BY Letters, Written DEF Plain
<1> HIDE DEF longer
<1>2. n >= 1 /\ \A m \in 2 .. n : text[m] \in Letter \cup {Blank}
  BY DEF Plain
<1> HIDE DEF n
<1>3. ASSUME NEW m \in 2 .. Len(longer) PROVE longer[m] \in Letter \cup {Blank}
  <2>1. CASE m <= n
    BY <1>1, <1>2, <2>1
  <2>2. CASE m = n + 1
    BY <1>1, <2>2
  <2>3. CASE m > n + 1
    <3>1. m - (n + 1) \in 1 .. Len(key) /\ n + 1 + (m - (n + 1)) = m
      BY <1>1, <2>3
    <3>2. key[m - (n + 1)] \in Letter
      BY <3>1
    <3> QED
      BY <1>1, <3>1, <3>2
  <2> QED
    BY <1>1, <2>1, <2>2, <2>3
<1> QED
  BY <1>1, <1>2, <1>3 DEF Plain, longer

\* What the end of a key does to the draft.
LEMMA DraftGrows ==
    ASSUME keys \in Lists, buffer \in Strings, keys' = Append(keys, buffer)
    PROVE  /\ Merged(keys) \in Lists /\ Draft \in Strings
           /\ IF buffer \in Elements(Merged(keys))
              THEN Merged(keys)' = Merged(keys) /\ Draft' = Draft
              ELSE /\ Elements(Merged(keys))' = Elements(Merged(keys)) \cup {buffer}
                   /\ Draft' = Draft \o <<Blank>> \o buffer
<1> DEFINE ukey == Merged(keys)
<1>1. ukey \in Lists /\ ukey' = insert_ukey_group(ukey, buffer)
  BY MergedAppend
<1>2. buffer \in Elements(ukey) <=> Contains(ukey, buffer)
  BY <1>1 DEF Elements, Contains, Lists
<1>3. construct_keys_packet(ukey) \in Strings
  BY <1>1, WrittenLoop
<1>4. CASE buffer \in Elements(ukey)
  <2>1. ukey' = ukey
    BY <1>1, <1>2, <1>4 DEF insert_ukey_group
  <2> HIDE DEF ukey
  <2>2. construct_keys_packet(ukey)' = construct_keys_packet(ukey)
    BY <2>1
  <2> QED
    BY <1>1, <1>3, <1>4, <2>1, <2>2 DEF Draft, ukey
<1>5. CASE buffer \notin Elements(ukey)
  <2>1. ukey' = Append(ukey, buffer)
    BY <1>1, <1>2, <1>5 DEF insert_ukey_group
  <2> HIDE DEF ukey
  <2>2. \A all : all = Append(ukey, buffer) =>
            /\ Elements(all) = Elements(ukey) \cup {buffer}
            /\ construct_keys_packet(all) = construct_keys_packet(ukey) \o <<Blank>> \o buffer
    <3> SUFFICES ASSUME NEW all, all = Append(ukey, buffer)
                 PROVE  /\ Elements(all) = Elements(ukey) \cup {buffer}
                        /\ construct_keys_packet(all) =
                              construct_keys_packet(ukey) \o <<Blank>> \o buffer
      OBVIOUS
    <3>1. \A s \in Seq(Strings), e \in Strings :
              \A t : t = Append(s, e) => Elements(t) = Elements(s) \cup {e}
      BY AppendSet
    <3>2. ukey \in Seq(Strings)
      BY <1>1 DEF Lists
    <3>3. Elements(all) = Elements(ukey) \cup {buffer}
      BY <3>1, <3>2
    <3>4. construct_keys_packet(Append(ukey, buffer)) =
              construct_keys_packet(ukey) \o <<Blank>> \o buffer
      BY <1>1, WrittenAppend
    <3> QED
      BY <3>3, <3>4
  <2>3. /\ Elements(ukey)' = Elements(ukey) \cup {buffer}
        /\ construct_keys_packet(ukey)' = construct_keys_packet(ukey) \o <<Blank>> \o buffer
    BY <2>1, <2>2
  <2> QED
    BY <1>1, <1>3, <1>5, <2>3, Zenon DEF Draft, ukey
<1> QED
  BY <1>4, <1>5

----------------------------------------------------------------------------
(* Datagrams *)

LEMMA MinIsLeast ==
    ASSUME NEW S \in SUBSET Nat, S # {}
    PROVE  Min(S) \in S /\ \A n \in S : Min(S) <= n
<1> DEFINE R == OpToRel(<, Nat)
<1>1. IsWellFoundedOn(R, Nat)
  BY NatLessThanWellFounded
<1>2. ASSUME NEW k \in Nat, NEW n \in Nat, n < k PROVE <<n, k>> \in R
  BY <1>2, Zenon DEF OpToRel
<1> HIDE DEF R
<1>3. PICK k \in S : \A n \in S : ~(<<n, k>> \in R)
  BY <1>1, WFMin
<1>4. ASSUME NEW n \in S PROVE k <= n
  <2>1. ~(n < k)
    BY <1>2, <1>3
  <2> QED
    BY <2>1
<1> QED
  BY <1>4 DEF Min

\* The key stands between two blanks behind "VALUE".
LEMMA KeyStripped ==
    ASSUME NEW part \in Strings, NEW key \in Seq(Letter), Len(key) >= 1,
           Len(part) >= 3 + Len(key), \A n \in 1 .. Len(key) : part[2 + n] = key[n],
           part[3 + Len(key)] = Blank
    PROVE  StrippedKeys(part) = {key}
<1> DEFINE blanks == {n \in 3 .. Len(part) : part[n] = Blank}
           k == Len(key)
           end == 2 + k
<1>1. k \in Nat /\ k >= 1 /\ Len(part) \in Nat /\ key \in Strings
  BY Letters DEF Strings
<1>2. end + 1 \in blanks
  BY <1>1
<1>3. ASSUME NEW n \in 3 .. end PROVE n \notin blanks
  <2>1. PICK m \in 1 .. k : 2 + m = n
    <3>1. n - 2 \in 1 .. k /\ 2 + (n - 2) = n
      BY <1>1
    <3> QED
      BY <3>1
  <2>2. key[m] \in Letter /\ part[2 + m] = key[m]
    BY <1>1
  <2> QED
    BY <2>1, <2>2, Letters
<1>4. blanks \in SUBSET Nat
  BY <1>1
<1>5. \A n \in blanks : n \in 3 .. Len(part)
  OBVIOUS
<1> HIDE DEF blanks
<1>6. Min(blanks) = end + 1 /\ blanks # {}
  <2>1. blanks # {} /\ Min(blanks) \in blanks /\ Min(blanks) <= end + 1
    BY <1>2, <1>4, MinIsLeast
  <2>2. Min(blanks) \in 3 .. Len(part) /\ Min(blanks) \notin 3 .. end
    BY <1>3, <1>5, <2>1
  <2> QED
    BY <1>1, <2>1, <2>2
<1>7. SubSeq(part, 3, end) = key
  <2> DEFINE s == SubSeq(part, 3, end)
  <2>1. s \in Strings /\ Len(s) = k /\ \A n \in 1 .. k : s[n] = part[2 + n]
    BY <1>1 DEF Strings
  <2> HIDE DEF s
  <2> QED
    BY <1>1, <2>1, SeqEqual DEF Strings, s
<1>8. Min(blanks) - 1 = end /\ end >= 3
  BY <1>1, <1>6
<1> QED
  BY <1>6, <1>7, <1>8, Zenon DEF StrippedKeys, blanks

LEMMA StrippedType ==
    ASSUME NEW part \in Strings
    PROVE  StrippedKeys(part) \subseteq Strings
<1> DEFINE blanks == {n \in 3 .. Len(part) : part[n] = Blank}
           end == IF blanks = {} THEN Len(part) ELSE Min(blanks) - 1
<1>1. Len(part) \in Nat /\ blanks \in SUBSET Nat /\ \A n \in blanks : n <= Len(part)
  BY DEF Strings
<1> HIDE DEF blanks
<1>2. end \in Int /\ end <= Len(part)
  <2>1. CASE blanks = {}
    BY <1>1, <2>1
  <2>2. CASE blanks # {}
    <3>1. Min(blanks) \in blanks
      BY <1>1, <2>2, MinIsLeast
    <3>2. Min(blanks) \in Nat /\ Min(blanks) <= Len(part)
      BY <1>1, <3>1
    <3> QED
      BY <1>1, <2>2, <3>2
  <2> QED
    BY <2>1, <2>2
<1> HIDE DEF end
<1>3. end >= 3 => SubSeq(part, 3, end) \in Strings
  BY <1>1, <1>2 DEF Strings
<1>4. Uninitialised \subseteq Strings
  BY PayloadAssumption, Letters
<1>5. StrippedKeys(part) = IF end >= 3 THEN {SubSeq(part, 3, end)} ELSE Uninitialised
  BY Zenon DEF StrippedKeys, end, blanks
<1> QED
  BY <1>3, <1>4, <1>5

\* size characters of text arrive; mbuf keeps what it held behind them.
Arrives(text, several, part, size) ==
    /\ size \in 1 .. Len(text) /\ Len(text) \in Nat
    /\ size = IF Len(text) <= DatagramSize THEN Len(text) ELSE DatagramSize
    /\ part \in Strings /\ Len(part) = size /\ \A n \in 1 .. size : part[n] = text[n]
    /\ rest' \in Strings /\ Len(rest') = Len(text) - size
    /\ \A n \in 1 .. Len(rest') : rest'[n] = text[size + n]
    /\ mbuf' \in Strings /\ Len(mbuf') >= size
    /\ \A n \in 1 .. size : mbuf'[n] = text[n]
    /\ \A n \in size + 1 .. Len(mbuf') : n \in 1 .. Len(mbuf) /\ mbuf'[n] = mbuf[n]
    /\ IF Contains(mbuf', Value)
       THEN given' \in StrippedKeys(part) /\ last_key' = IF several THEN given' ELSE last_key
       ELSE given' = last_key /\ last_key' = last_key

LEMMA DatagramFields ==
    ASSUME NEW text \in Strings, text # << >>, NEW several \in BOOLEAN, mbuf \in Strings,
           Datagram(text, several)
    PROVE  \E part, size : Arrives(text, several, part, size)
<1> DEFINE size == Min({Len(text), DatagramSize})
           part == SubSeq(text, 1, size)
<1>1. Len(text) \in Nat /\ Len(text) >= 1 /\ DatagramSize \in Nat /\ DatagramSize >= 1
  BY PayloadAssumption DEF Strings
<1>2. size = (IF Len(text) <= DatagramSize THEN Len(text) ELSE DatagramSize)
  <2>1. \A S \in SUBSET Nat : S # {} => Min(S) \in S /\ \A n \in S : Min(S) <= n
    BY MinIsLeast
  <2>2. {Len(text), DatagramSize} \in SUBSET Nat /\ {Len(text), DatagramSize} # {}
    BY <1>1
  <2>3. size \in {Len(text), DatagramSize} /\ size <= Len(text) /\ size <= DatagramSize
    BY <2>1, <2>2
  <2> QED
    BY <1>1, <2>3
<1>3. /\ LookUp(part, several) /\ rest' = SubSeq(text, size + 1, Len(text))
  BY DEF Datagram
<1> HIDE DEF size
<1>4. size \in 1 .. Len(text)
  BY <1>1, <1>2
<1>5. part \in Strings /\ Len(part) = size /\ \A n \in 1 .. size : part[n] = text[n]
  BY <1>1, <1>4 DEF Strings
<1>6. /\ rest' \in Strings /\ Len(rest') = Len(text) - size
      /\ \A n \in 1 .. Len(rest') : rest'[n] = text[size + n]
  BY <1>1, <1>3, <1>4 DEF Strings
<1> HIDE DEF part
<1> DEFINE kept == SubSeq(mbuf, size + 1, Len(mbuf))
<1>7. /\ kept \in Strings /\ Len(mbuf) \in Nat
      /\ Len(kept) = (IF size + 1 <= Len(mbuf) THEN Len(mbuf) - size ELSE 0)
      /\ \A n \in 1 .. Len(kept) : kept[n] = mbuf[size + n]
  <2>1. Len(mbuf) \in Nat /\ \A n \in size + 1 .. Len(mbuf) : mbuf[n] \in Char
    BY <1>1, <1>4 DEF Strings
  <2>2. size + 1 \in Int /\ Len(mbuf) \in Int
    BY <1>4, <2>1
  <2>3. /\ kept \in Seq(Char)
        /\ Len(kept) = IF size + 1 <= Len(mbuf) THEN Len(mbuf) - (size + 1) + 1 ELSE 0
        /\ \A n \in 1 .. Len(mbuf) - (size + 1) + 1 : kept[n] = mbuf[size + 1 + n - 1]
    BY <2>1, <2>2, SubSeqProperties
  <2> HIDE DEF kept
  <2> QED
    BY <1>4, <2>1, <2>3 DEF Strings
<1>8. mbuf' = part \o kept /\ Overwritten(part) = mbuf'
  BY <1>3, <1>5 DEF LookUp, Overwritten
<1> HIDE DEF kept
<1>9. /\ mbuf' \in Strings /\ Len(mbuf') = size + Len(kept)
      /\ \A n \in 1 .. size + Len(kept) :
            mbuf'[n] = IF n <= size THEN part[n] ELSE kept[n - size]
  <2>1. part \in Seq(Char) /\ kept \in Seq(Char)
    BY <1>5, <1>7 DEF Strings
  <2>2. /\ part \o kept \in Seq(Char) /\ Len(part \o kept) = Len(part) + Len(kept)
        /\ \A n \in 1 .. Len(part) + Len(kept) :
              (part \o kept)[n] = IF n <= Len(part) THEN part[n] ELSE kept[n - Len(part)]
    BY <2>1, ConcatProperties
  <2> QED
    BY <1>5, <1>8, <2>2 DEF Strings
<1>10. Len(kept) \in Nat
  BY <1>7 DEF Strings
<1>11. ASSUME NEW n \in size + 1 .. Len(mbuf')
       PROVE  n \in 1 .. Len(mbuf) /\ mbuf'[n] = mbuf[n]
  <2>1. n - size \in 1 .. Len(kept) /\ size + (n - size) = n /\ ~(n <= size)
    BY <1>4, <1>9, <1>10
  <2> QED
    BY <1>4, <1>7, <1>9, <2>1
<1>12. Len(mbuf') >= size /\ \A n \in 1 .. size : mbuf'[n] = text[n]
  BY <1>4, <1>5, <1>9, <1>10
<1>13. IF Contains(mbuf', Value)
       THEN given' \in StrippedKeys(part) /\ last_key' = IF several THEN given' ELSE last_key
       ELSE given' = last_key /\ last_key' = last_key
  BY <1>3, <1>8, Zenon DEF LookUp, HasKey
<1>14. Arrives(text, several, part, size)
  BY <1>1, <1>2, <1>4, <1>5, <1>6, <1>9, <1>11, <1>12, <1>13 DEF Arrives
<1> QED
  BY <1>14

LEMMA AnswerFields ==
    ASSUME NEW key \in Seq(Letter), data \in Strings
    PROVE  LET text == <<Value, Blank>> \o key \o <<Blank>> \o data
           IN  /\ text \in Strings /\ Len(text) = 3 + Len(key) + Len(data)
               /\ Len(key) \in Nat /\ Len(data) \in Nat
               /\ text[1] = Value /\ text[2] = Blank /\ text[3 + Len(key)] = Blank
               /\ \A n \in 1 .. Len(key) : text[2 + n] = key[n]
               /\ \A n \in 1 .. Len(data) : text[3 + Len(key) + n] = data[n]
<1> DEFINE head == <<Value, Blank>> \o key
           text == head \o <<Blank>> \o data
           k == Len(key)
<1>1. key \in Seq(Char) /\ k \in Nat /\ <<Value, Blank>> \in Seq(Char)
  BY Letters DEF Strings, Char
<1>2. /\ head \in Seq(Char) /\ Len(head) = 2 + k
      /\ \A n \in 1 .. 2 + k : head[n] = IF n <= 2 THEN <<Value, Blank>>[n] ELSE key[n - 2]
  BY <1>1, ConcatProperties
<1>3. head[1] = Value /\ head[2] = Blank
  BY <1>1, <1>2
<1>4. ASSUME NEW n \in 1 .. k PROVE head[2 + n] = key[n]
  <2>1. 2 + n \in 1 .. 2 + k /\ ~(2 + n <= 2) /\ 2 + n - 2 = n
    BY <1>1
  <2> QED
    BY <1>2, <2>1
<1> HIDE DEF head
<1>5. /\ text \in Strings /\ Len(text) = Len(head) + 1 + Len(data) /\ Len(data) \in Nat
      /\ \A m \in 1 .. Len(head) : text[m] = head[m]
      /\ text[Len(head) + 1] = Blank
      /\ \A m \in 1 .. Len(data) : text[Len(head) + 1 + m] = data[m]
  BY <1>2, Written DEF Strings
<1> HIDE DEF text
<1>6. text[1] = Value /\ text[2] = Blank /\ text[3 + k] = Blank
  BY <1>1, <1>2, <1>3, <1>5
<1>7. ASSUME NEW n \in 1 .. k PROVE text[2 + n] = key[n]
  <2>1. 2 + n \in 1 .. Len(head)
    BY <1>1, <1>2
  <2> QED
    BY <1>4, <1>5, <2>1
<1>8. \A n \in 1 .. Len(data) : text[3 + k + n] = data[n]
  BY <1>1, <1>2, <1>5
<1> QED
  BY <1>1, <1>2, <1>5, <1>6, <1>7, <1>8 DEF text, head

\* Types of what the walk and the message leave, whatever the request.
Typed ==
    /\ TypeOK /\ Plain(payload) /\ Plain(Draft)
    /\ phase = "skip" => i <= Len(payload) + 1
    /\ phase = "copy" => i >= 2
    /\ todo \subseteq Seq(Letter) \ {<< >>}

\* As long as no value contains the word "VALUE", it stands nowhere but at the
\* start of an answer, and last_key is the key of a value that is continued.
Answering ==
    /\ phase # "answer" => answered = << >> /\ rest = << >>
    /\ ~Contains(data, Value) =>
        /\ \A n \in 2 .. Len(mbuf) : mbuf[n] # Value
        /\ \A n \in 1 .. Len(rest) : rest[n] # Value
        /\ rest # << >> => last_key = answered

\* What FirstDatagram and NextDatagram promise.
Answered ==
    /\ answered' \in Strings /\ rest' \in Strings /\ mbuf' \in Strings
    /\ last_key' \in Strings /\ given' \in Strings
    /\ UNCHANGED <<clientVars, data>> /\ todo' \subseteq todo /\ phase = "answer"
    /\ Answering'
    /\ given' = answered' \/ (answered' = answered /\ Contains(data, Value))

LEMMA FirstAnswers ==
    ASSUME Typed, Answering, NEW key \in todo, FirstDatagram(key)
    PROVE  Answered
<1> DEFINE text == <<Value, Blank>> \o key \o <<Blank>> \o data
           several == Len(text) > DatagramSize
           k == Len(key)
<1>1. /\ phase = "answer" /\ 3 + k <= DatagramSize
      /\ Datagram(text, several) /\ answered' = key /\ todo' = todo \ {key}
      /\ UNCHANGED <<clientVars, data>>
  BY DEF FirstDatagram
<1>2. key \in Seq(Letter) /\ key # << >> /\ data \in Strings /\ mbuf \in Strings
      /\ last_key \in Strings /\ data \in Data
  BY PayloadAssumption DEF Typed, TypeOK, Strings
<1>3. /\ text \in Strings /\ Len(text) = 3 + k + Len(data) /\ k \in Nat /\ Len(data) \in Nat
      /\ text[1] = Value /\ text[2] = Blank /\ text[3 + k] = Blank
      /\ \A n \in 1 .. k : text[2 + n] = key[n]
      /\ \A n \in 1 .. Len(data) : text[3 + k + n] = data[n]
  BY <1>2, AnswerFields
<1>4. several \in BOOLEAN /\ k >= 1 /\ DatagramSize \in Nat
  BY <1>2, PayloadAssumption
<1> HIDE DEF text
<1>5. text # << >>
  BY <1>3
<1> HIDE DEF several
<1>6. PICK part, size : Arrives(text, several, part, size)
  BY <1>1, <1>2, <1>3, <1>4, <1>5, DatagramFields
<1>7. /\ size >= 3 + k /\ size \in Nat /\ size <= Len(text) /\ part \in Strings /\ Len(part) = size
      /\ \A n \in 1 .. size : part[n] = text[n]
  BY <1>1, <1>3, <1>4, <1>6 DEF Arrives
<1>8. StrippedKeys(part) = {key}
  <2>1. part[3 + k] = Blank
    BY <1>3, <1>7
  <2>2. ASSUME NEW n \in 1 .. k PROVE part[2 + n] = key[n]
    <3>1. 2 + n \in 1 .. size
      BY <1>3, <1>7
    <3> QED
      BY <1>3, <1>7, <3>1
  <2> QED
    BY <1>2, <1>4, <1>7, <2>1, <2>2, KeyStripped
<1>9. mbuf'[1] = Value /\ Len(mbuf') >= size /\ mbuf' \in Strings
  BY <1>3, <1>4, <1>6, <1>7 DEF Arrives
<1>10. Contains(mbuf', Value)
  <2>1. 1 \in 1 .. Len(mbuf')
    BY <1>3, <1>7, <1>9 DEF Strings
  <2> QED
    BY <1>9, <2>1 DEF Contains
<1>11. given' = key /\ last_key' = IF several THEN key ELSE last_key
  BY <1>6, <1>8, <1>10 DEF Arrives
<1>12. key \in Strings /\ answered' = key /\ key # << >>
  BY <1>1, <1>2, Letters
<1>13. ASSUME ~Contains(data, Value)
       PROVE  /\ \A n \in 2 .. Len(text) : text[n] # Value
              /\ \A n \in 2 .. Len(mbuf') : mbuf'[n] # Value
              /\ \A n \in 1 .. Len(rest') : rest'[n] # Value
              /\ rest' # << >> => last_key' = answered'
  <2>1. ASSUME NEW n \in 2 .. Len(text) PROVE text[n] # Value
    <3>1. CASE n = 2 \/ n = 3 + k
      BY <1>3, <3>1, PayloadAssumption
    <3>2. CASE n \in 3 .. 2 + k
      <4>1. PICK m \in 1 .. k : 2 + m = n
        <5>1. n - 2 \in 1 .. k /\ 2 + (n - 2) = n
          BY <1>3, <3>2
        <5> QED
          BY <5>1
      <4>2. text[n] \in Letter
        BY <1>2, <1>3, <4>1
      <4> QED
        BY <4>2, Letters
    <3>3. CASE n > 3 + k
      <4>1. PICK m \in 1 .. Len(data) : 3 + k + m = n
        <5>1. n - (3 + k) \in 1 .. Len(data) /\ 3 + k + (n - (3 + k)) = n
          BY <1>3, <3>3
        <5> QED
          BY <5>1
      <4>2. text[n] = data[m]
        BY <1>3, <4>1
      <4> QED
        BY <1>13, <4>2 DEF Contains
    <3> QED
      BY <1>3, <3>1, <3>2, <3>3
  <2>2. ASSUME NEW n \in 2 .. Len(mbuf') PROVE mbuf'[n] # Value
    <3>1. CASE n <= size
      <4>1. mbuf'[n] = text[n] /\ n \in 2 .. Len(text)
        BY <1>6, <1>7, <3>1 DEF Arrives
      <4> QED
        BY <2>1, <4>1
    <3>2. CASE n > size
      <4>1. n \in 1 .. Len(mbuf) /\ mbuf'[n] = mbuf[n] /\ n >= 2
        BY <1>6, <1>7, <1>9, <3>2 DEF Arrives
      <4> QED
        BY <1>13, <4>1 DEF Answering
    <3> QED
      BY <1>7, <3>1, <3>2
  <2>3. ASSUME NEW n \in 1 .. Len(rest') PROVE rest'[n] # Value
    <3>1. rest'[n] = text[size + n] /\ size + n \in 2 .. Len(text)
      BY <1>3, <1>4, <1>6, <1>7 DEF Arrives
    <3> QED
      BY <2>1, <3>1
  <2>4. rest' # << >> => several
    <3>1. Len(text) <= DatagramSize => Len(rest') = 0
      BY <1>3, <1>6 DEF Arrives
    <3>2. rest' \in Strings /\ (Len(rest') = 0 => rest' = << >>)
      BY <1>6 DEF Arrives, Strings
    <3> QED
      BY <1>3, <1>4, <3>1, <3>2 DEF several
  <2> QED
    BY <1>1, <1>11, <2>1, <2>2, <2>3, <2>4
<1>14. Answering'
  <2>1. phase' = "answer" /\ data' = data
    BY <1>1 DEF clientVars
  <2> QED
    BY <1>13, <2>1 DEF Answering
<1>15. rest' \in Strings /\ last_key' \in Strings
  BY <1>2, <1>6, <1>11, <1>12 DEF Arrives
<1> QED
  BY <1>1, <1>9, <1>11, <1>12, <1>14, <1>15 DEF Answered

LEMMA NextAnswers ==
    ASSUME Typed, Answering, NextDatagram
    PROVE  Answered
<1>1. /\ rest # << >> /\ Datagram(rest, TRUE) /\ UNCHANGED <<clientVars, todo, answered, data>>
  BY DEF NextDatagram
<1>2. rest \in Strings /\ mbuf \in Strings /\ last_key \in Strings /\ answered \in Strings
  BY DEF Typed, TypeOK, Strings
<1>3. PICK part, size : Arrives(rest, TRUE, part, size)
  BY <1>1, <1>2, DatagramFields
<1>4. /\ mbuf' \in Strings /\ rest' \in Strings /\ part \in Strings
      /\ size \in 1 .. Len(rest) /\ Len(rest) \in Nat /\ Len(rest') = Len(rest) - size
  BY <1>3 DEF Arrives
<1>5. phase = "answer" /\ phase' = "answer"
  BY <1>1, Zenon DEF Answering, clientVars
<1>6. /\ Contains(mbuf', Value) => given' \in Strings /\ last_key' = given'
      /\ ~Contains(mbuf', Value) => given' = last_key /\ last_key' = last_key
  BY <1>3, <1>4, StrippedType DEF Arrives
<1>7. given' \in Strings /\ last_key' \in Strings
  BY <1>2, <1>6
<1>8. ASSUME ~Contains(data, Value)
      PROVE  /\ \A n \in 1 .. Len(mbuf') : mbuf'[n] # Value
             /\ \A n \in 1 .. Len(rest') : rest'[n] # Value
             /\ given' = answered' /\ last_key' = answered'
  <2>1. /\ \A n \in 2 .. Len(mbuf) : mbuf[n] # Value
        /\ \A n \in 1 .. Len(rest) : rest[n] # Value
        /\ last_key = answered
    BY <1>1, <1>8 DEF Answering
  <2>2. ASSUME NEW n \in 1 .. Len(mbuf') PROVE mbuf'[n] # Value
    <3>1. CASE n <= size
      <4>1. mbuf'[n] = rest[n] /\ n \in 1 .. Len(rest)
        BY <1>3, <1>4, <3>1 DEF Arrives
      <4> QED
        BY <2>1, <4>1
    <3>2. CASE n > size
      <4>1. n \in 1 .. Len(mbuf) /\ mbuf'[n] = mbuf[n] /\ n >= 2
        BY <1>3, <1>4, <3>2 DEF Arrives
      <4> QED
        BY <2>1, <4>1
    <3> QED
      BY <1>4, <3>1, <3>2
  <2>3. ASSUME NEW n \in 1 .. Len(rest') PROVE rest'[n] # Value
    <3>1. rest'[n] = rest[size + n] /\ size + n \in 1 .. Len(rest)
      BY <1>3, <1>4 DEF Arrives
    <3> QED
      BY <2>1, <3>1
  <2>4. ~Contains(mbuf', Value)
    BY <2>2 DEF Contains
  <2> QED
    BY <1>1, <1>6, <2>1, <2>2, <2>3, <2>4
<1>9. Answering'
  <2>1. data' = data /\ (2 .. Len(mbuf')) \subseteq 1 .. Len(mbuf')
    BY <1>1
  <2> QED
    BY <1>5, <1>8, <2>1 DEF Answering
<1> QED
  BY <1>1, <1>2, <1>4, <1>5, <1>7, <1>8, <1>9 DEF Answered

----------------------------------------------------------------------------
(* Types are kept. *)

LEMMA InitTyped == Init => Typed /\ Answering
<1> SUFFICES ASSUME Init PROVE Typed /\ Answering
  OBVIOUS
<1>1. PICK text \in Requests : payload = <<Gets>> \o text
  BY DEF Init
<1>2. text \in Seq(Letter \cup {Blank}) /\ Len(text) \in Nat
  BY PayloadAssumption
<1>3. /\ text \in Seq(Char) /\ <<Gets>> \in Seq(Char)
      /\ \A n \in 1 .. Len(text) : text[n] \in Letter \cup {Blank}
  BY <1>2 DEF Char
<1>4. /\ payload \in Seq(Char) /\ Len(payload) = 1 + Len(text)
      /\ \A n \in 1 .. 1 + Len(text) :
            payload[n] = IF n <= 1 THEN <<Gets>>[n] ELSE text[n - 1]
  BY <1>1, <1>3, ConcatProperties
<1>5. Plain(payload)
  <2>1. ASSUME NEW n \in 2 .. Len(payload) PROVE payload[n] \in Letter \cup {Blank}
    <3>1. n - 1 \in 1 .. Len(text) /\ payload[n] = text[n - 1]
      BY <1>2, <1>4
    <3> QED
      BY <1>3, <3>1
  <2> QED
    BY <1>2, <1>4, <2>1 DEF Plain, Strings
<1>6. Plain(Draft)
  <2>1. Draft = <<Gets>>
    BY MergedNone, WrittenNone, Zenon DEF Init, Draft
  <2>2. Plain(<<Gets>>)
    BY <1>3 DEF Plain, Strings
  <2> QED
    BY <2>1, <2>2
<1>7. TypeOK
  <2>1. buffer \in Seq(Letter) /\ << >> \in Seq(Char) /\ << >> \in Seq(Seq(Letter))
    BY PayloadAssumption DEF Init
  <2> QED
    BY <1>2, <1>4, <2>1 DEF Init, TypeOK
<1>8. todo \subseteq Seq(Letter) \ {<< >>} /\ i <= Len(payload) + 1 /\ phase # "copy"
  BY <1>2, <1>4 DEF Init
<1>9. Answering
  <2>1. ASSUME NEW n \in 2 .. Len(mbuf) PROVE mbuf[n] # Value
    <3>1. mbuf = payload
      BY DEF Init
    <3> QED
      BY <1>5, <3>1, PayloadAssumption DEF Plain
  <2>2. rest = << >> /\ answered = << >>
    BY DEF Init
  <2> QED
    BY <2>1, <2>2 DEF Answering
<1> QED
  BY <1>5, <1>6, <1>7, <1>8, <1>9 DEF Typed

\* The walk does not touch the other half.
LEMMA WalkKeeps ==
    ASSUME Typed, Answering, UNCHANGED <<payload, message, serverVars>>, Plain(Draft)',
           phase \in {"skip", "copy"}, phase' \in {"skip", "copy", "merge"},
           i' \in 1 .. Len(payload) + 2, phase' = "skip" => i' <= Len(payload) + 1,
           phase' = "copy" => i' >= 2,
           buffer' \in Seq(Letter), j' \in {0, Len(buffer')}, keys' \in Seq(Seq(Letter))
    PROVE  Typed' /\ Answering'
<1>1. UNCHANGED <<payload, message, todo, answered, rest, data, mbuf, last_key, given>>
  BY DEF serverVars
<1>2. Answering'
  BY <1>1 DEF Answering
<1>3. TypeOK'
  BY <1>1 DEF Typed, TypeOK
<1>4. Plain(payload)'
  BY <1>1 DEF Typed, Plain
<1> QED
  BY <1>1, <1>2, <1>3, <1>4 DEF Typed

LEMMA StepTyped ==
    ASSUME Typed, Answering, [Next]_vars
    PROVE  Typed' /\ Answering'
<1>1. /\ i \in Nat /\ i >= 1 /\ i <= Len(payload) + 2 /\ Len(payload) \in Nat
      /\ buffer \in Seq(Letter) /\ j \in {0, Len(buffer)} /\ Len(buffer) \in Nat
      /\ keys \in Seq(Seq(Letter)) /\ phase \in {"skip", "copy", "merge", "answer"}
      /\ \A n \in 2 .. Len(payload) : payload[n] \in Letter \cup {Blank}
  BY DEF Typed, TypeOK, Plain
<1>2. keys \in Lists /\ buffer \in Strings
  <2>1. Seq(Letter) \subseteq Strings
    BY Letters
  <2>2. \A n \in 1 .. Len(keys) : keys[n] \in Strings
    BY <1>1, <2>1
  <2> QED
    BY <1>1, <2>1, <2>2 DEF Lists
<1>3. ASSUME keys' = Append(keys, buffer) PROVE Plain(Draft)' /\ keys' \in Seq(Seq(Letter))
  <2>1. Plain(Draft \o <<Blank>> \o buffer)
    BY <1>1, PlainWritten DEF Typed
  <2>2. Draft' \in {Draft, Draft \o <<Blank>> \o buffer}
    BY <1>2, <1>3, DraftGrows
  <2>3. \A text : text \in {Draft, Draft \o <<Blank>> \o buffer} => Plain(text)
    BY <2>1 DEF Typed
  <2>4. Plain(Draft')
    BY <2>2, <2>3, Zenon
  <2>5. Plain(Draft)'
    BY <2>4 DEF Plain
  <2> QED
    BY <1>1, <1>3, <2>5
<1>4. ASSUME keys' = keys PROVE Plain(Draft)' /\ keys' \in Seq(Seq(Letter))
  BY <1>1, <1>4 DEF Typed, Plain, Draft
<1>5. CASE SkipCommand
  <2>1. /\ phase = "skip" /\ i' = i + 1 /\ phase' \in {"skip", "copy"}
        /\ phase' = "skip" => i <= Len(payload)
        /\ UNCHANGED <<payload, buffer, j, keys, message, serverVars>>
    BY <1>5 DEF SkipCommand
  <2>2. i <= Len(payload) + 1
    BY <2>1 DEF Typed
  <2> QED
    BY <1>1, <1>4, <2>1, <2>2, WalkKeeps
<1>6. CASE CopyChar
  <2>1. /\ phase = "copy" /\ i <= Len(payload) /\ payload[i] # Blank
        /\ buffer' = Append(SubSeq(buffer, 1, j), payload[i])
        /\ j' = j + 1 /\ i' = i + 1
        /\ UNCHANGED <<payload, phase, keys, message, serverVars>>
    BY <1>6 DEF CopyChar
  <2>2. payload[i] \in Letter /\ i >= 2
    BY <1>1, <2>1 DEF Typed
  <2>3. SubSeq(buffer, 1, j) \in Seq(Letter) /\ Len(SubSeq(buffer, 1, j)) = j
    BY <1>1
  <2>4. buffer' \in Seq(Letter) /\ Len(buffer') = j'
    BY <2>1, <2>2, <2>3
  <2> QED
    BY <1>1, <1>4, <2>1, <2>2, <2>4, WalkKeeps
<1>7. CASE EndKey
  <2>1. /\ phase = "copy" /\ i <= Len(payload) /\ keys' = Append(keys, buffer)
        /\ j' = 0 /\ i' = i + 1
        /\ UNCHANGED <<payload, phase, buffer, message, serverVars>>
    BY <1>7 DEF EndKey
  <2> QED
    BY <1>1, <1>3, <2>1, WalkKeeps
<1>8. CASE EndKeys
  <2>1. /\ phase = "copy" /\ phase' = "merge" /\ keys' = Append(keys, buffer)
        /\ UNCHANGED <<payload, i, buffer, j, message, serverVars>>
    BY <1>8 DEF EndKeys
  <2> QED
    BY <1>1, <1>3, <2>1, WalkKeeps
<1>9. CASE Send
  <2>1. /\ phase = "merge" /\ phase' = "answer" /\ message' = Draft /\ todo' = Words(message')
        /\ UNCHANGED <<payload, i, buffer, j, keys, answered, rest, data, mbuf, last_key, given>>
    BY <1>9 DEF Send, Draft
  <2>2. Plain(Draft)
    BY DEF Typed
  <2>3. todo' \subseteq Seq(Letter) \ {<< >>} /\ message' \in Strings
    BY <2>1, <2>2, PlainWords DEF Plain
  <2>4. todo' \subseteq Strings
    BY <2>3, Letters
  <2>5. TypeOK'
    BY <2>1, <2>3, <2>4 DEF Typed, TypeOK, Strings
  <2>6. Answering'
    BY <2>1 DEF Answering
  <2>7. Plain(payload)'
    BY <2>1 DEF Typed, Plain
  <2> QED
    BY <1>4, <2>1, <2>3, <2>5, <2>6, <2>7 DEF Typed
<1>10. ASSUME Answered PROVE Typed' /\ Answering'
  <2>1. UNCHANGED <<payload, phase, i, buffer, j, keys, message, data>> /\ todo' \subseteq todo
    BY <1>10 DEF Answered, clientVars
  <2>2. /\ answered' \in Strings /\ rest' \in Strings /\ mbuf' \in Strings
        /\ last_key' \in Strings /\ given' \in Strings /\ Answering'
    BY <1>10 DEF Answered
  <2>3. TypeOK'
    BY <2>1, <2>2 DEF Typed, TypeOK, Strings
  <2>4. Plain(payload)' /\ Plain(Draft)'
    BY <1>4, <2>1 DEF Typed, Plain
  <2> QED
    BY <2>1, <2>2, <2>3, <2>4 DEF Typed
<1>11. CASE UNCHANGED vars
  <2>1. UNCHANGED <<payload, phase, i, buffer, j, keys, message>>
        /\ UNCHANGED <<todo, answered, rest, data, mbuf, last_key, given>>
    BY <1>11 DEF vars, clientVars, serverVars
  <2> QED
    BY <1>4, <2>1 DEF Typed, TypeOK, Plain, Answering
<1>12. ASSUME NEW key \in todo, FirstDatagram(key) PROVE Typed' /\ Answering'
  BY <1>10, <1>12, FirstAnswers
<1>13. CASE NextDatagram
  BY <1>10, <1>13, NextAnswers
<1> QED
  BY <1>5, <1>6, <1>7, <1>8, <1>9, <1>11, <1>12, <1>13 DEF Next

----------------------------------------------------------------------------
(* The message asks for the keys of the request.                           *)

\* The keys found so far are those of the draft, and the draft is shorter than
\* what was read, less the blank and the key that are still to be written.
Asks(f) ==
    /\ Elements(Merged(keys)) = KeySet /\ Words(Draft) = KeySet
    /\ phase = "copy" => Len(Draft) <= i - j - 2
    /\ phase \in {"merge", "answer"} => Len(Draft) <= Len(payload)
    /\ phase = "answer" => message = Draft

Merging == payload[1] # Blank /\ \A f : FirstBlank(payload, f) => Asks(f)

LEMMA DraftEmpty ==
    ASSUME keys = << >>
    PROVE  /\ Draft = <<Gets>> /\ Len(Draft) = 1 /\ KeySet = {}
           /\ Elements(Merged(keys)) = {} /\ Words(Draft) = {}
<1>1. Draft = <<Gets>> /\ Merged(keys) = << >>
  BY MergedNone, WrittenNone, Zenon DEF Draft
<1>2. Len(<<Gets>>) = 1 /\ Elements(<< >>) = {}
  BY DEF Elements
<1>3. Words(<<Gets>>) = {}
  <2>1. \A w : \A p, q \in Nat : ~StandsIn(<<Gets>>, w, p, q)
    BY <1>2 DEF StandsIn
  <2> QED
    BY <2>1, WordsOf
<1> QED
  BY <1>1, <1>2, <1>3 DEF KeySet

LEMMA InitMerging == Init => Merging
<1> SUFFICES ASSUME Init PROVE Merging
  OBVIOUS
<1>1. PICK text \in Requests : payload = <<Gets>> \o text
  BY DEF Init
<1>2. text \in Seq(Char) /\ <<Gets>> \in Seq(Char)
  BY PayloadAssumption DEF Char
<1>3. payload[1] = Gets
  BY <1>1, <1>2
<1>4. keys = << >> /\ phase = "skip"
  BY DEF Init
<1> QED
  BY <1>3, <1>4, DraftEmpty, PayloadAssumption DEF Merging, Asks

LEMMA EndsKey ==
    ASSUME Inv, Typed, NEW f, FirstBlank(payload, f), Asks(f), phase = "copy",
           \/ i <= Len(payload) /\ payload[i] = Blank
           \/ i > Len(payload),
           keys' = Append(keys, buffer), UNCHANGED payload
    PROVE  /\ Elements(Merged(keys))' = KeySet' /\ Words(Draft)' = KeySet'
           /\ Len(Draft)' <= i - 1
<1>1. /\ i \in f + 1 .. Len(payload) + 1 /\ IF j = 0 THEN AtBlank(f) ELSE Copying(f)
  BY DEF Inv, Walked
<1>2. /\ Len(payload) \in Nat /\ f \in 1 .. Len(payload) - 1 /\ i \in Nat /\ j \in Nat
      /\ buffer \in Strings /\ keys \in Lists /\ payload[f + 1] # Blank
  BY DEF Inv, Texts, FirstBlank, Strings, Lists
<1>3. KeySet' = KeySet \cup {buffer}
  <2>1. \A s \in Seq(Strings), e \in Strings :
            \A t : t = Append(s, e) => Elements(t) = Elements(s) \cup {e}
    BY AppendSet
  <2> QED
    BY <1>2, <2>1 DEF Lists, KeySet
<1>4. /\ Draft \in Strings
      /\ IF buffer \in Elements(Merged(keys))
         THEN Merged(keys)' = Merged(keys) /\ Draft' = Draft
         ELSE /\ Elements(Merged(keys))' = Elements(Merged(keys)) \cup {buffer}
              /\ Draft' = Draft \o <<Blank>> \o buffer
  BY <1>2, DraftGrows
<1>5. Elements(Merged(keys)) = KeySet /\ Words(Draft) = KeySet /\ Len(Draft) <= i - j - 2
      /\ Len(Draft) \in Nat
  BY <1>4 DEF Asks, Strings
<1>6. CASE buffer \in KeySet
  <2>1. Merged(keys)' = Merged(keys) /\ Draft' = Draft /\ KeySet' = KeySet
    BY <1>3, <1>4, <1>5, <1>6
  <2>2. Elements(Merged(keys))' = Elements(Merged(keys)) /\ Words(Draft)' = Words(Draft)
    BY <2>1 DEF Elements, Words, IsWord
  <2> QED
    BY <1>2, <1>5, <2>1, <2>2
<1>7. CASE buffer \notin KeySet
  <2>1. j # 0 /\ Copying(f)
    <3>1. j = 0 => i = f + 1
      BY <1>1, <1>7 DEF AtBlank
    <3> QED
      BY <1>1, <1>2, <3>1
  <2>2. /\ Len(buffer) = j /\ j >= 1 /\ f < i - j
        /\ buffer = SubSeq(payload, i - j, i - 1) /\ \A n \in i - j .. i - 1 : payload[n] # Blank
    BY <1>2, <2>1 DEF Copying
  <2>3. ASSUME NEW n \in 1 .. Len(buffer) PROVE buffer[n] # Blank
    <3>1. i - j \in 1 .. Len(payload) /\ i - 1 \in 1 .. Len(payload) /\ payload \in Seq(Char)
      BY <1>1, <1>2, <2>2 DEF Inv, Texts
    <3>2. buffer[n] = payload[i - j + n - 1]
      <4>1. \A m \in i - j .. i - 1 : payload[m] \in Char
        BY <1>2, <3>1
      <4>2. \A m \in 1 .. i - 1 - (i - j) + 1 :
               SubSeq(payload, i - j, i - 1)[m] = payload[i - j + m - 1]
        BY <1>2, <4>1, SubSeqProperties
      <4>3. n \in 1 .. i - 1 - (i - j) + 1
        BY <1>2, <2>2
      <4> QED
        BY <2>2, <4>2, <4>3
    <3>3. i - j + n - 1 \in i - j .. i - 1
      BY <1>2, <2>2
    <3> QED
      BY <2>2, <3>2, <3>3
  <2>4. Named(buffer)
    BY <1>2, <2>2, <2>3 DEF Named
  <2>5. /\ Elements(Merged(keys))' = KeySet \cup {buffer}
        /\ Draft' = Draft \o <<Blank>> \o buffer
    BY <1>4, <1>5, <1>7
  <2>6. Len(Draft) >= 1
    BY DEF Typed, Plain
  <2>7. /\ Words(Draft \o <<Blank>> \o buffer) = KeySet \cup {buffer}
        /\ Len(Draft \o <<Blank>> \o buffer) = Len(Draft) + 1 + j
    <3>1. Words(Draft \o <<Blank>> \o buffer) = Words(Draft) \cup {buffer}
      BY <1>4, <2>4, <2>6, WordsWritten
    <3>2. Len(Draft \o <<Blank>> \o buffer) = Len(Draft) + 1 + Len(buffer)
      BY <1>2, <1>4, Written
    <3> QED
      BY <1>5, <2>2, <3>1, <3>2
  <2>8. Words(Draft') = KeySet \cup {buffer} /\ Len(Draft') = Len(Draft) + 1 + j
    BY <2>5, <2>7
  <2>9. Words(Draft)' = Words(Draft') /\ Len(Draft)' = Len(Draft')
    BY DEF Words, IsWord
  <2> QED
    BY <1>2, <1>3, <1>5, <2>5, <2>8, <2>9
<1> QED
  BY <1>6, <1>7

LEMMA StepMerging ==
    ASSUME Inv, Typed, Merging, [Next]_vars
    PROVE  Merging'
<1>1. UNCHANGED payload
  BY DEF Next, SkipCommand, CopyChar, EndKey, EndKeys, Send, FirstDatagram, NextDatagram,
         vars, clientVars
<1> SUFFICES ASSUME NEW f, FirstBlank(payload, f) PROVE Asks(f)'
  BY <1>1 DEF Merging, FirstBlank
<1>2. /\ Asks(f) /\ Walked(f) /\ payload[1] # Blank
      /\ Len(payload) \in Nat /\ i \in Nat /\ j \in Nat /\ f \in 1 .. Len(payload) - 1
      /\ payload[f] = Blank
  <2>1. Asks(f) /\ Walked(f) /\ payload[1] # Blank /\ Texts
    BY DEF Merging, Inv
  <2> QED
    BY <2>1 DEF Texts, FirstBlank
<1>3. ASSUME keys' = keys
      PROVE  /\ Elements(Merged(keys))' = KeySet' /\ Words(Draft)' = KeySet'
             /\ Draft' = Draft /\ Len(Draft)' = Len(Draft)
  <2>1. Merged(keys)' = Merged(keys) /\ KeySet' = KeySet /\ Draft' = Draft
    BY <1>3 DEF KeySet, Elements, Draft
  <2>2. Elements(Merged(keys))' = Elements(Merged(keys)) /\ Words(Draft)' = Words(Draft)
    BY <2>1 DEF Elements, Words, IsWord
  <2> QED
    BY <1>2, <2>1, <2>2 DEF Asks
<1>4. CASE SkipCommand
  <2>1. /\ phase = "skip" /\ i' = i + 1 /\ phase' \in {"skip", "copy"}
        /\ phase' = "copy" => ~(i <= Len(payload) /\ payload[i] # Blank)
        /\ UNCHANGED <<j, keys, message>>
    BY <1>4 DEF SkipCommand
  <2>2. i \in 1 .. f /\ j = 0 /\ keys = << >> /\ Len(Draft) = 1
    BY <1>2, <2>1, DraftEmpty DEF Walked
  <2>3. ASSUME phase' = "copy" PROVE i >= 2
    BY <1>2, <2>1, <2>2, <2>3
  <2>4. phase' = "copy" => Len(Draft)' <= i' - j' - 2
    <3> SUFFICES ASSUME phase' = "copy" PROVE Len(Draft)' <= i' - j' - 2
      OBVIOUS
    <3>1. Len(Draft)' = 1 /\ i' = i + 1 /\ j' = 0 /\ i >= 2
      BY <1>3, <2>1, <2>2, <2>3
    <3> QED
      BY <1>2, <3>1
  <2> QED
    BY <1>3, <2>1, <2>4 DEF Asks
<1>5. CASE CopyChar
  <2>1. phase = "copy" /\ i' = i + 1 /\ j' = j + 1 /\ UNCHANGED <<phase, keys, message>>
    BY <1>5 DEF CopyChar
  <2>2. i' - j' = i - j
    BY <1>2, <2>1
  <2> QED
    BY <1>2, <1>3, <2>1, <2>2 DEF Asks
<1>6. CASE EndKey
  <2>1. /\ phase = "copy" /\ i <= Len(payload) /\ payload[i] = Blank
        /\ keys' = Append(keys, buffer) /\ j' = 0 /\ i' = i + 1
        /\ UNCHANGED <<payload, phase, buffer, message>>
    BY <1>6 DEF EndKey
  <2>2. /\ Elements(Merged(keys))' = KeySet' /\ Words(Draft)' = KeySet'
        /\ Len(Draft)' <= i - 1
    BY <1>2, <2>1, EndsKey
  <2>3. i' - j' - 2 = i - 1
    BY <1>2, <2>1
  <2> QED
    BY <2>1, <2>2, <2>3 DEF Asks
<1>7. CASE EndKeys
  <2>1. /\ phase = "copy" /\ i > Len(payload) /\ phase' = "merge"
        /\ keys' = Append(keys, buffer) /\ UNCHANGED <<payload, i, buffer, message>>
    BY <1>7 DEF EndKeys
  <2>2. /\ Elements(Merged(keys))' = KeySet' /\ Words(Draft)' = KeySet'
        /\ Len(Draft)' <= i - 1
    BY <1>2, <2>1, EndsKey
  <2>3. i - 1 = Len(payload)
    BY <1>2, <2>1 DEF Walked
  <2> QED
    BY <1>1, <2>1, <2>2, <2>3 DEF Asks
<1>8. CASE Send
  <2>1. phase = "merge" /\ phase' = "answer" /\ message' = Draft /\ keys' = keys
    BY <1>8 DEF Send, Draft
  <2> QED
    BY <1>1, <1>2, <1>3, <2>1 DEF Asks
<1>9. ASSUME UNCHANGED clientVars PROVE Asks(f)'
  <2>1. UNCHANGED <<payload, phase, i, j, keys, message>>
    BY <1>9 DEF clientVars
  <2> QED
    BY <1>2, <1>3, <2>1 DEF Asks
<1>10. ASSUME NEW key \in todo, FirstDatagram(key) PROVE Asks(f)'
  BY <1>9, <1>10 DEF FirstDatagram
<1>11. CASE NextDatagram
  BY <1>9, <1>11 DEF NextDatagram
<1>12. CASE UNCHANGED vars
  BY <1>9, <1>12 DEF vars
<1> QED
  BY <1>4, <1>5, <1>6, <1>7, <1>8, <1>10, <1>11, <1>12 DEF Next

----------------------------------------------------------------------------
(* Theorems *)

\* The variables keep their types for every request and every answer: the walk
\* stays within one step behind the request, and the buffer holds what j says.
THEOREM PayloadTypes == Spec => []TypeOK
<1>1. Typed => TypeOK
  BY DEF Typed
<1> QED
  BY <1>1, InitTyped, StepTyped, PTL DEF Spec

\* The message for memcached (api.c:435) names exactly the keys of the request
\* and is not longer, for every request that names a first key, of any length and
\* with any blanks and repetitions.
THEOREM MessageIsShort == Spec => []MessageAsksTheSame
<1>1. Inv /\ Merging => MessageAsksTheSame
  <2> SUFFICES ASSUME Inv, Merging, phase = "answer", FirstKeyNamed(payload)
               PROVE  Words(message) = Words(payload) /\ Len(message) <= Len(payload)
    BY DEF MessageAsksTheSame
  <2>1. PICK f : FirstBlank(payload, f)
    BY DEF FirstKeyNamed, FirstBlank
  <2>2. Asks(f) /\ Walked(f)
    BY <2>1 DEF Inv, Merging
  <2> QED
    BY <2>2 DEF Asks, Walked
<1> QED
  BY <1>1, InitInv, StepInv, InitTyped, StepTyped, InitMerging, StepMerging, PTL DEF Spec

\* Every datagram of an answer is looked up by the key of its value (api.c:160),
\* whatever the mbuf held before, for values of any length and datagrams of any
\* size, as long as no value contains the word "VALUE".
THEOREM LookUpsAreRight == Spec => LookedUpByItsKey
<1>1. ASSUME Typed, Answering, [Next]_vars
      PROVE  [ answered' # << >> =>
                  \/ given' = answered'
                  \/ answered' = answered /\ Contains(data, Value) ]_<<rest, mbuf, todo>>
  <2>1. ASSUME UNCHANGED serverVars PROVE UNCHANGED <<rest, mbuf, todo>>
    BY <2>1 DEF serverVars
  <2>2. CASE SkipCommand \/ CopyChar \/ EndKey \/ EndKeys \/ UNCHANGED vars
    BY <2>1, <2>2 DEF SkipCommand, CopyChar, EndKey, EndKeys, vars
  <2>3. CASE Send
    BY <1>1, <2>3 DEF Send, Answering
  <2>4. ASSUME NEW key \in todo, FirstDatagram(key) PROVE Answered
    BY <1>1, <2>4, FirstAnswers
  <2>5. CASE NextDatagram
    BY <1>1, <2>5, NextAnswers DEF Answered
  <2>6. Answered => (given' = answered' \/ (answered' = answered /\ Contains(data, Value)))
    BY DEF Answered
  <2> QED
    BY <1>1, <2>2, <2>3, <2>4, <2>5, <2>6 DEF Next
<1> QED
  BY <1>1, InitTyped, StepTyped, PTL DEF Spec, LookedUpByItsKey
============================================================================
