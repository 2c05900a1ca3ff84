------------------------------ MODULE Payload ------------------------------
(***************************************************************************)
(* The texts that the middlebox reads and writes (middlebox/src/api.c):    *)
(* strip_keys walks over the request of a client with one buffer for all   *)
(* keys, construct_keys_packet writes the keys into a message, and         *)
(* strip_key_value looks for a key in each datagram of an answer.          *)
(*                                                                         *)
(* A text is a sequence of characters. The words "gets" and "VALUE" are    *)
(* one character each, and the tail "\r\n" is left out. Requests are short  *)
(* enough for the arrays of keys.                                          *)
(***************************************************************************)
EXTENDS Integers, SequencesExt

CONSTANTS
    Letter,         \* characters of keys and values
    Blank,          \* the character ' '
    Gets, Value,    \* the words "gets" and "VALUE"
    Requests,       \* what follows "gets" in the requests of clients
    Data,           \* what follows the key in an answer of memcached
    Uninitialised,  \* texts that a local array may hold before it is written
    DatagramSize    \* characters of an answer in one datagram

Char == Letter \cup {Blank, Gets, Value}

ASSUME PayloadAssumption ==
    /\ Gets # Blank /\ Value \notin {Gets, Blank} /\ {Blank, Gets, Value} \cap Letter = {}
    /\ Requests \subseteq Seq(Letter \cup {Blank})
    /\ Data \subseteq Seq(Char)
    /\ Uninitialised \subseteq Seq(Letter)
    /\ DatagramSize \in Nat \ {0}

VARIABLES
    payload,    \* the request of the client
    phase,      \* "skip", "copy" and "merge" in app_client_in, then "answer"
    i,          \* position in payload
    buffer,     \* the string in the array buffer
    j,          \* position in buffer, from 0
    keys,       \* keys[0] .. keys[keys_len-1]
    message,    \* the message for memcached
    todo,       \* the words of the message without an answer
    answered,   \* the key that memcached is answering
    rest,       \* what remains to be sent of its answer
    data,       \* what memcached stores
    mbuf,       \* the text in the mbuf that all packets are received in
    last_key,   \* the key of the last value of several datagrams
    given       \* the key by which the last datagram was looked up

clientVars == <<payload, phase, i, buffer, j, keys, message>>
serverVars == <<todo, answered, rest, data, mbuf, last_key, given>>
vars == <<clientVars, serverVars>>

----------------------------------------------------------------------------
(* The words of a text that stand behind a blank: the reference for        *)
(* strip_keys, and what memcached takes for keys.                          *)

\* Behind a blank, without blanks, and up to the next blank or the end.
IsWord(text, p, q) ==
    /\ p <= q
    /\ text[p - 1] = Blank
    /\ \A n \in p .. q : text[n] # Blank
    /\ q < Len(text) => text[q + 1] = Blank

Words(text) ==
    {SubSeq(text, pq[1], pq[2]) :
        pq \in {pq \in (2 .. Len(text)) \X (2 .. Len(text)) : IsWord(text, pq[1], pq[2])}}

\* The first blank is followed by a key.
FirstKeyNamed(text) ==
    \E n \in 1 .. Len(text) - 1 :
        /\ text[n] = Blank /\ text[n + 1] # Blank
        /\ \A m \in 1 .. n - 1 : text[m] # Blank

----------------------------------------------------------------------------
(* A request of a client becomes a message.                                *)

Init ==
    /\ payload \in {<<Gets>> \o text : text \in Requests}
    /\ phase = "skip" /\ i = 1 /\ j = 0
    /\ buffer \in Uninitialised
    /\ keys = << >> /\ message = << >>
    /\ todo = {} /\ answered = << >> /\ rest = << >>
    /\ data \in Data
    /\ mbuf = payload /\ last_key = << >> /\ given = << >>

\* The loop of strip_keys that looks for the first blank, and the step over it.
SkipCommand ==
    /\ phase = "skip"
    /\ i' = i + 1
    /\ phase' = IF i <= Len(payload) /\ payload[i] # Blank THEN "skip" ELSE "copy"
    /\ UNCHANGED <<payload, buffer, j, keys, message, serverVars>>

\* buffer[j] = payload[i] and a NUL behind it.
CopyChar ==
    /\ phase = "copy" /\ i <= Len(payload) /\ payload[i] # Blank
    /\ buffer' = Append(SubSeq(buffer, 1, j), payload[i])
    /\ j' = j + 1 /\ i' = i + 1
    /\ UNCHANGED <<payload, phase, keys, message, serverVars>>

\* Mutants of EndKey: j is not reset; the blank is copied, too (no continue).
EndKeyAppend ==
    /\ phase = "copy" /\ i <= Len(payload) /\ payload[i] = Blank
    /\ keys' = Append(keys, buffer)
    /\ i' = i + 1
    /\ UNCHANGED <<payload, phase, buffer, j, message, serverVars>>

EndKeyCopy ==
    /\ phase = "copy" /\ i <= Len(payload) /\ payload[i] = Blank
    /\ keys' = Append(keys, buffer)
    /\ buffer' = <<Blank>> /\ j' = 1 /\ i' = i + 1
    /\ UNCHANGED <<payload, phase, message, serverVars>>

\* A blank ends a key. The buffer keeps its text until the next write.
EndKey ==
    /\ phase = "copy" /\ i <= Len(payload) /\ payload[i] = Blank
    /\ keys' = Append(keys, buffer)
    /\ j' = 0 /\ i' = i + 1
    /\ UNCHANGED <<payload, phase, buffer, message, serverVars>>

\* The end of the request ends a key, too.
EndKeys ==
    /\ phase = "copy" /\ i > Len(payload)
    /\ keys' = Append(keys, buffer)
    /\ phase' = "merge"
    /\ UNCHANGED <<payload, i, buffer, j, message, serverVars>>

\* Mutant of insert_ukey_group: duplicates are not looked for.
InsertAlways(ukey, key) == Append(ukey, key)

insert_ukey_group(ukey, key) ==
    IF Contains(ukey, key) THEN ukey ELSE Append(ukey, key)

\* The keys of the request without repetition: one round of the loop for each.
Merged(ks) ==
    LET ukey[n \in 0 .. Len(ks)] ==
            IF n = 0 THEN << >> ELSE insert_ukey_group(ukey[n - 1], ks[n])
    IN  ukey[Len(ks)]

construct_keys_packet(ukey) ==
    LET text[n \in 0 .. Len(ukey)] ==
            IF n = 0 THEN <<Gets>> ELSE text[n - 1] \o <<Blank>> \o ukey[n]
    IN  text[Len(ukey)]

\* The texts of the rest of app_client_in, when no other keys wait and memcached
\* is idle (Batch and ClientMap have the other cases and the registration).
\* memcached then owes an answer for each word of the message.
Send ==
    /\ phase = "merge"
    /\ message' = construct_keys_packet(Merged(keys))
    /\ todo' = Words(message')
    /\ phase' = "answer"
    /\ UNCHANGED <<payload, i, buffer, j, keys, answered, rest, data, mbuf, last_key, given>>

----------------------------------------------------------------------------
(* The answers come in datagrams.                                          *)

\* What the mbuf holds after text was written over its start.
Overwritten(text) == text \o SubSeq(mbuf, Len(text) + 1, Len(mbuf))

\* strip_key_value looks for "VALUE" as far as the text in the mbuf reaches,
\* which may be beyond the datagram.
HasKey(text) == Contains(Overwritten(text), Value)

\* The characters from the third to the next blank; if there are none, the
\* array key is not written.
StrippedKeys(text) ==
    LET blanks == {n \in 3 .. Len(text) : text[n] = Blank}
        end == IF blanks = {} THEN Len(text) ELSE Min(blanks) - 1
    IN  IF end >= 3 THEN {SubSeq(text, 3, end)} ELSE Uninitialised

\* Mutant of LookUp: last_key is kept for values of one datagram only.
LookUpKeep(text, several) ==
    /\ mbuf' = Overwritten(text)
    /\ IF HasKey(text)
       THEN /\ given' \in StrippedKeys(text)
            /\ last_key' = IF several THEN last_key ELSE given'
       ELSE given' = last_key /\ UNCHANGED last_key

\* app_server_in on one datagram of an answer.
LookUp(text, several) ==
    /\ mbuf' = Overwritten(text)
    /\ IF HasKey(text)
       THEN /\ given' \in StrippedKeys(text)
            /\ last_key' = IF several THEN given' ELSE last_key
       ELSE given' = last_key /\ UNCHANGED last_key

\* The next datagram of an answer, of which text remains.
Datagram(text, several) ==
    LET size == Min({Len(text), DatagramSize})
    IN  /\ LookUp(SubSeq(text, 1, size), several)
        /\ rest' = SubSeq(text, size + 1, Len(text))

\* memcached begins an answer; the header fits into the first datagram.
FirstDatagram(key) ==
    LET text == <<Value, Blank>> \o key \o <<Blank>> \o data
    IN  /\ phase = "answer" /\ rest = << >>
        /\ 3 + Len(key) <= DatagramSize
        /\ Datagram(text, Len(text) > DatagramSize)
        /\ answered' = key /\ todo' = todo \ {key}
        /\ UNCHANGED <<clientVars, data>>

NextDatagram ==
    /\ rest # << >>
    /\ Datagram(rest, TRUE)
    /\ UNCHANGED <<clientVars, todo, answered, data>>

Next ==
    \/ SkipCommand \/ CopyChar \/ EndKey \/ EndKeys
    \/ Send
    \/ \E key \in todo : FirstDatagram(key)
    \/ NextDatagram

Spec == Init /\ [][Next]_vars

----------------------------------------------------------------------------
(* Properties *)

\* The walk stays within one step behind the request, and the string in the
\* buffer is j characters long while a key is copied.
TypeOK ==
    /\ payload \in Seq(Char) /\ phase \in {"skip", "copy", "merge", "answer"}
    /\ i \in 1 .. Len(payload) + 2
    /\ buffer \in Seq(Letter) /\ j \in {0, Len(buffer)}
    /\ keys \in Seq(Seq(Letter)) /\ message \in Seq(Char)
    /\ todo \subseteq Seq(Char) /\ answered \in Seq(Char)
    /\ rest \in Seq(Char) /\ data \in Data /\ mbuf \in Seq(Char)
    /\ last_key \in Seq(Char) /\ given \in Seq(Char)

\* strip_keys (api.c:404) finds the words of the request. Adjacent and trailing
\* blanks (api.c:419) repeat the key before them and add none; only if the first
\* key is missing does the buffer give away what it held before.
KeysAreWords ==
    phase \in {"merge", "answer"} /\ FirstKeyNamed(payload) =>
        {keys[n] : n \in DOMAIN keys} = Words(payload)

\* The message asks memcached for the keys of the request and is not longer,
\* whatever the blanks of the request: what was received within one payload
\* can be sent within one (api.c:435, 475).
MessageAsksTheSame ==
    phase = "answer" /\ FirstKeyNamed(payload) =>
        Words(message) = Words(payload) /\ Len(message) <= Len(payload)

\* api.c:160, every datagram is looked up by the key of its value: the first one
\* always, the later ones by last_key, whatever the mbuf held before, as long
\* as no value contains the word "VALUE".
LookedUpByItsKey ==
    [][ answered' # << >> =>
            \/ given' = answered'
            \/ answered' = answered /\ Contains(data, Value) ]_<<rest, mbuf, todo>>
============================================================================
