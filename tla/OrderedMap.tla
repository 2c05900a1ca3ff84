----------------------------- MODULE OrderedMap -----------------------------
(***************************************************************************)
(* What map.h promises of the deprecated hash table: a map from keys to    *)
(* values that remembers the order in which its entries were added.  There *)
(* are no buckets, no probing, no tombstones and no resizing here.         *)
(*                                                                         *)
(* The order is the set older of pairs <<j, k>> such that the entry of j   *)
(* was added before the entry of k.                                        *)
(***************************************************************************)
EXTENDS Integers, FiniteSets

CONSTANTS
    Key,      \* keys, by content
    Value,    \* uintptr_t values
    Missing   \* no value: the key has no entry

VARIABLES
    dict,     \* the value of every key
    older,    \* the pairs of keys in the order of their entries
    ret       \* what the caller sees of the last call: its result, its
              \* output value, the entries given to its callback, and the
              \* pairs of entries in the order of the calls

mapVars == <<dict, older, ret>>

Present == {k \in Key : dict[k] # Missing}

Returned(found, value) ==
    [found |-> found, value |-> value, called |-> {}, before |-> {}]
CalledInTurn(entries, before) ==
    [found |-> FALSE, value |-> 0, called |-> entries, before |-> before]
CalledBack(entries) == CalledInTurn(entries, {})
Nothing == CalledBack({})

Init ==
    /\ dict = [k \in Key |-> Missing]
    /\ older = {}
    /\ ret = Nothing

\* A key that has an entry keeps its place in the order.
Put(k, v) ==
    /\ dict' = [dict EXCEPT ![k] = v]
    /\ older' = IF k \in Present THEN older ELSE older \cup (Present \X {k})

Delete(k) ==
    /\ dict' = [dict EXCEPT ![k] = Missing]
    /\ older' = {p \in older : p[1] # k /\ p[2] # k}

\* The entry of k, if it has one, as a callback is given it.
Given(k) == <<k, dict[k]>>
EntryOf(k) == IF k \in Present THEN {Given(k)} ELSE {}

Set(k, v) == ret' = Nothing /\ Put(k, v)

SetFree(k, v) == ret' = CalledBack(EntryOf(k)) /\ Put(k, v)

\* The value of the entry is returned whether it was there before or not.
GetSet(k, v) ==
    \/ /\ k \in Present
       /\ ret' = Returned(TRUE, dict[k])
       /\ UNCHANGED <<dict, older>>
    \/ /\ k \notin Present
       /\ ret' = Returned(FALSE, v)
       /\ Put(k, v)

Get(k) ==
    /\ ret' = IF k \in Present THEN Returned(TRUE, dict[k]) ELSE Returned(FALSE, 0)
    /\ UNCHANGED <<dict, older>>

Remove(k) == ret' = Nothing /\ Delete(k)

RemoveFree(k) == ret' = CalledBack(EntryOf(k)) /\ Delete(k)

Size ==
    /\ ret' = Returned(FALSE, Cardinality(Present))
    /\ UNCHANGED <<dict, older>>

\* The callback is given the entries of the keys ks in the order they were added.
IterateOver(ks) ==
    /\ ret' = CalledInTurn({Given(k) : k \in ks},
                           {<<Given(p[1]), Given(p[2])>> : p \in older \cap (ks \X ks)})
    /\ UNCHANGED <<dict, older>>

\* It is given every element (map.h:65-66).
Iterate == IterateOver(Present)

Free ==
    /\ dict' = [k \in Key |-> Missing]
    /\ older' = {}
    /\ ret' = Nothing

Next ==
    \/ \E k \in Key :
          \/ Get(k) \/ Remove(k) \/ RemoveFree(k)
          \/ \E v \in Value : Set(k, v) \/ SetFree(k, v) \/ GetSet(k, v)
    \/ Size
    \/ Iterate
    \/ Free

Spec == Init /\ [][Next]_mapVars
=============================================================================
