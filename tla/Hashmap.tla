------------------------------ MODULE Hashmap ------------------------------
(***************************************************************************)
(* The deprecated hash table (deprecated/map.c): open addressing with      *)
(* linear probing, tombstones for removed entries, and a linked list of    *)
(* the buckets in the order they were filled.                              *)
(*                                                                         *)
(* The list first, next, ..., last is the sequence order of the indices of *)
(* its buckets.  A key is its content; its pointer, size and hash are not  *)
(* told apart from it, so callers are taken to leave the memory of a key   *)
(* alone while the map points to it, as map.h asks.                        *)
(*                                                                         *)
(* A resize is a step per entry of the old list, inside the call of        *)
(* hashmap_set, hashmap_get_set or hashmap_set_free that started it: old   *)
(* is the list of the old buckets, at the place of m->last->next in it.    *)
(***************************************************************************)
EXTENDS Integers, FiniteSets, Sequences

CONSTANTS
    Key,                       \* keys, by content
    Value,                     \* uintptr_t values that callers store
    NULL,
    Hash,                      \* a 32-bit hash of every key
    HASHMAP_DEFAULT_CAPACITY,
    HASHMAP_RESIZE_FACTOR,
    ITERATE_STOP,              \* 1000 in the loop of hashmap_iterate
    MaxCapacity                \* bound of the model on the table

ASSUME HashmapAssumption ==
    /\ NULL \notin Key /\ NULL \notin Nat
    /\ Value \subseteq Nat
    /\ Hash \in [Key -> Nat]
    /\ HASHMAP_DEFAULT_CAPACITY \in Nat /\ HASHMAP_DEFAULT_CAPACITY >= 2
    /\ HASHMAP_RESIZE_FACTOR \in Nat /\ HASHMAP_RESIZE_FACTOR >= 2
    /\ ITERATE_STOP \in Nat

VARIABLES
    capacity, buckets, count, tombstone_count, order,   \* struct hashmap
    old, at,     \* the old list and the place of a resize in it
    pending,     \* the call that waits for the resize, or NoCall
    ret          \* what the caller sees of the last call, as in OrderedMap

vars == <<capacity, buckets, count, tombstone_count, order, old, at, pending, ret>>

Returned(found, value) ==
    [found |-> found, value |-> value, called |-> {}, before |-> {}]
CalledInTurn(entries, before) ==
    [found |-> FALSE, value |-> 0, called |-> entries, before |-> before]
CalledBack(entries) == CalledInTurn(entries, {})
Nothing == CalledBack({})

NoCall == [op |-> "none", key |-> NULL, value |-> 0]

Call(op, k, v) == [op |-> op, key |-> k, value |-> v]

EmptyBucket == [key |-> NULL, value |-> 0]

\* A NULL key with a value that is not 0: 0xDEAD.
Tombstone == [key |-> NULL, value |-> 57005]

hashmap_create ==
    /\ capacity = HASHMAP_DEFAULT_CAPACITY
    /\ buckets = [i \in 0 .. HASHMAP_DEFAULT_CAPACITY - 1 |-> EmptyBucket]
    /\ count = 0
    /\ tombstone_count = 0
    /\ order = << >>
    /\ old = << >>
    /\ at = 1
    /\ pending = NoCall
    /\ ret = Nothing

----------------------------------------------------------------------------
(* Probing.                                                                *)

hash_data(k) == Hash[k]

Offset == 0 .. capacity - 1

\* The bucket at the d-th probe for k.
Probe(k, d) == (hash_data(k) + d) % capacity

IsEmpty(i) == buckets[i] = EmptyBucket

\* Mutant of Stops: a tombstone ends the search, as in the build without
\* __HASHMAP_REMOVABLE (map.c:199).
StopsAtTombstone(k, i) == buckets[i].key = NULL \/ buckets[i].key = k

\* Where find_entry stops: it goes past tombstones and other keys.
Stops(k, i) == IsEmpty(i) \/ buckets[i].key = k

\* i is the bucket that find_entry returns for k.
find_entry(k, i) ==
    \E d \in Offset :
        /\ Probe(k, d) = i
        /\ Stops(k, i)
        /\ \A e \in 0 .. d - 1 : ~ Stops(k, Probe(k, e))

\* i is the bucket that takes an old entry of k: the first without a key.
FirstFree(k, i) ==
    \E d \in Offset :
        /\ Probe(k, d) = i
        /\ buckets[i].key = NULL
        /\ \A e \in 0 .. d - 1 : buckets[Probe(k, e)].key # NULL

----------------------------------------------------------------------------
(* Resizing.                                                               *)

\* Mutants of Loaded: tombstones do not count; the map is loaded from the start.
LoadedLive == 4 * (count - tombstone_count + 1) > 3 * capacity
LoadedEarly == 4 * (count + 1) > capacity

\* count + 1 > HASHMAP_MAX_LOAD * capacity, with a load of 3/4.
Loaded == 4 * (count + 1) > 3 * capacity

\* Mutant of hashmap_resize: map.c:102 is missing.
ResizeUncounted(call) ==
    /\ capacity * HASHMAP_RESIZE_FACTOR <= MaxCapacity
    /\ capacity' = capacity * HASHMAP_RESIZE_FACTOR
    /\ buckets' = [i \in 0 .. capacity * HASHMAP_RESIZE_FACTOR - 1 |-> EmptyBucket]
    /\ tombstone_count' = 0
    /\ order' = << >>
    /\ old' = [p \in 1 .. Len(order) |-> buckets[order[p]]]
    /\ at' = 1
    /\ pending' = call
    /\ UNCHANGED <<count, ret>>

\* The new table, and the loop over the old list about to start.
hashmap_resize(call) ==
    /\ capacity * HASHMAP_RESIZE_FACTOR <= MaxCapacity
    /\ capacity' = capacity * HASHMAP_RESIZE_FACTOR
    /\ buckets' = [i \in 0 .. capacity * HASHMAP_RESIZE_FACTOR - 1 |-> EmptyBucket]
    /\ count' = count - tombstone_count
    /\ tombstone_count' = 0
    /\ order' = << >>
    /\ old' = [p \in 1 .. Len(order) |-> buckets[order[p]]]
    /\ at' = 1
    /\ pending' = call
    /\ UNCHANGED ret

\* The loop copies an old entry and links it at the end of the list.
resize_entry ==
    /\ at <= Len(old)
    /\ old[at].key # NULL
    /\ \E i \in Offset :
          /\ FirstFree(old[at].key, i)
          /\ buckets' = [buckets EXCEPT ![i] = old[at]]
          /\ order' = Append(order, i)
    /\ at' = at + 1
    /\ UNCHANGED <<capacity, count, tombstone_count, old, pending, ret>>

\* The loop unlinks a tombstone.
SkipTombstone ==
    /\ at <= Len(old)
    /\ old[at].key = NULL
    /\ at' = at + 1
    /\ UNCHANGED <<capacity, buckets, count, tombstone_count, order, old, pending, ret>>

----------------------------------------------------------------------------
(* The body of the calls that store, after the test of the load.           *)

\* Mutant of LinkEntry: the entry goes to the front of the list.
LinkEntryFirst(i, k, v) ==
    /\ buckets' = [buckets EXCEPT ![i] = [key |-> k, value |-> v]]
    /\ order' = <<i>> \o order
    /\ count' = count + 1

\* A new entry fills the empty bucket i and goes to the end of the list.
LinkEntry(i, k, v) ==
    /\ buckets' = [buckets EXCEPT ![i] = [key |-> k, value |-> v]]
    /\ order' = Append(order, i)
    /\ count' = count + 1

OverwriteEntry(i, v) ==
    /\ buckets' = [buckets EXCEPT ![i].value = v]
    /\ UNCHANGED <<order, count>>

SetBody(k, v, i) ==
    /\ \/ buckets[i].key = NULL /\ LinkEntry(i, k, v)
       \/ buckets[i].key # NULL /\ OverwriteEntry(i, v)
    /\ ret' = Nothing

GetSetBody(k, v, i) ==
    \/ /\ buckets[i].key = NULL
       /\ LinkEntry(i, k, v)
       /\ ret' = Returned(FALSE, v)
    \/ /\ buckets[i].key # NULL
       /\ ret' = Returned(TRUE, buckets[i].value)
       /\ UNCHANGED <<buckets, order, count>>

SetFreeBody(k, v, i) ==
    \/ /\ buckets[i].key = NULL
       /\ LinkEntry(i, k, v)
       /\ ret' = Nothing
    \/ /\ buckets[i].key # NULL
       /\ OverwriteEntry(i, v)
       /\ ret' = CalledBack({<<k, buckets[i].value>>})

Body(call) ==
    \E i \in Offset :
        /\ find_entry(call.key, i)
        /\ \/ call.op = "set" /\ SetBody(call.key, call.value, i)
           \/ call.op = "get_set" /\ GetSetBody(call.key, call.value, i)
           \/ call.op = "set_free" /\ SetFreeBody(call.key, call.value, i)

\* The load is tested first, also when the key is there and nothing is added.
Store(call) ==
    /\ pending = NoCall
    /\ \/ Loaded /\ hashmap_resize(call)
       \/ /\ ~ Loaded
          /\ Body(call)
          /\ UNCHANGED <<capacity, tombstone_count, old, at, pending>>

\* The rest of the call after the resize.
StoreResized ==
    /\ pending # NoCall
    /\ at > Len(old)
    /\ Body(pending)
    /\ pending' = NoCall
    /\ old' = << >>
    /\ at' = 1
    /\ UNCHANGED <<capacity, tombstone_count>>

----------------------------------------------------------------------------
(* The functions of map.h.                                                 *)

hashmap_set(k, v) == Store(Call("set", k, v))

hashmap_get_set(k, v) == Store(Call("get_set", k, v))

hashmap_set_free(k, v) == Store(Call("set_free", k, v))

\* An empty bucket has the value 0.
hashmap_get(k) ==
    /\ pending = NoCall
    /\ \E i \in Offset :
          /\ find_entry(k, i)
          /\ ret' = Returned(buckets[i].key # NULL, buckets[i].value)
    /\ UNCHANGED <<capacity, buckets, count, tombstone_count, order, old, at, pending>>

\* Mutants of Bury: the bucket is emptied; the count goes the wrong way.
BuryEmpty(i) ==
    /\ buckets' = [buckets EXCEPT ![i] = EmptyBucket]
    /\ tombstone_count' = tombstone_count + 1

BuryCountDown(i) ==
    /\ buckets' = [buckets EXCEPT ![i] = Tombstone]
    /\ tombstone_count' = tombstone_count - 1

\* The bucket stays in the list and in the probe sequences that cross it.
Bury(i) ==
    /\ buckets' = [buckets EXCEPT ![i] = Tombstone]
    /\ tombstone_count' = tombstone_count + 1

hashmap_remove(k) ==
    /\ pending = NoCall
    /\ \E i \in Offset :
          /\ find_entry(k, i)
          /\ \/ buckets[i].key # NULL /\ Bury(i)
             \/ buckets[i].key = NULL /\ UNCHANGED <<buckets, tombstone_count>>
    /\ ret' = Nothing
    /\ UNCHANGED <<capacity, count, order, old, at, pending>>

hashmap_remove_free(k) ==
    /\ pending = NoCall
    /\ \E i \in Offset :
          /\ find_entry(k, i)
          /\ \/ /\ buckets[i].key # NULL
                /\ Bury(i)
                /\ ret' = CalledBack({<<k, buckets[i].value>>})
             \/ /\ buckets[i].key = NULL
                /\ ret' = Nothing
                /\ UNCHANGED <<buckets, tombstone_count>>
    /\ UNCHANGED <<capacity, count, order, old, at, pending>>

hashmap_size ==
    /\ pending = NoCall
    /\ ret' = Returned(FALSE, count - tombstone_count)
    /\ UNCHANGED <<capacity, buckets, count, tombstone_count, order, old, at, pending>>

\* co counts the buckets of the list, tombstones included, and the loop is left
\* after the bucket at which co is ITERATE_STOP + 1.
Visited == {p \in 1 .. Len(order) : p <= ITERATE_STOP + 2 /\ buckets[order[p]].key # NULL}

\* What the callback is given of the bucket at place p of the list.
Given(p) == <<buckets[order[p]].key, buckets[order[p]].value>>

hashmap_iterate ==
    /\ pending = NoCall
    /\ ret' = CalledInTurn({Given(p) : p \in Visited},
                           {<<Given(pq[1]), Given(pq[2])>> :
                                pq \in {pq \in Visited \X Visited : pq[1] < pq[2]}})
    /\ UNCHANGED <<capacity, buckets, count, tombstone_count, order, old, at, pending>>

\* A caller that goes on after hashmap_free creates a new map.
hashmap_free ==
    /\ pending = NoCall
    /\ capacity' = HASHMAP_DEFAULT_CAPACITY
    /\ buckets' = [i \in 0 .. HASHMAP_DEFAULT_CAPACITY - 1 |-> EmptyBucket]
    /\ count' = 0
    /\ tombstone_count' = 0
    /\ order' = << >>
    /\ ret' = Nothing
    /\ UNCHANGED <<old, at, pending>>

Next ==
    \/ \E k \in Key, v \in Value :
          hashmap_set(k, v) \/ hashmap_get_set(k, v) \/ hashmap_set_free(k, v)
    \/ resize_entry
    \/ SkipTombstone
    \/ StoreResized
    \/ \E k \in Key : hashmap_get(k) \/ hashmap_remove(k) \/ hashmap_remove_free(k)
    \/ hashmap_size
    \/ hashmap_iterate
    \/ hashmap_free

HashmapSpec == hashmap_create /\ [][Next]_vars

----------------------------------------------------------------------------
(* Properties.                                                             *)

Bucket == [key : Key \cup {NULL}, value : Nat]

Result == [found : BOOLEAN, value : Int, called : SUBSET (Key \X Nat),
           before : SUBSET ((Key \X Nat) \X (Key \X Nat))]

\* The variables have their types, and a resize has not placed more entries
\* than it has passed in the old list.
HashmapTypeOK ==
    /\ capacity \in Nat /\ capacity >= HASHMAP_DEFAULT_CAPACITY
    /\ buckets \in [Offset -> Bucket]
    /\ count \in Nat /\ tombstone_count \in Nat
    /\ order \in Seq(Offset)
    /\ old \in Seq(Bucket) /\ at \in 1 .. Len(old) + 1
    /\ pending \in [op : {"set", "get_set", "set_free"}, key : Key, value : Value]
                       \cup {NoCall}
    /\ pending = NoCall => old = << >>
    /\ pending # NoCall => Len(order) < at
    /\ ret \in Result

\* The list of the map, across a resize: the entries already in the new table,
\* then those that are still to be copied.
Place == (1 .. Len(order)) \cup (at .. Len(old))
Entry(p) == IF p <= Len(order) THEN buckets[order[p]] ELSE old[p]

\* A bucket with an entry is one that find_entry and resize_entry reach: no bucket
\* on the way from its home was left empty, by a removal or by a resize, and
\* the list links every bucket that is not empty, once (map.c:309-324, 73-88).
Reachable ==
    /\ \A i \in Offset : buckets[i].key # NULL =>
          \E d \in Offset :
              /\ Probe(buckets[i].key, d) = i
              /\ \A e \in 0 .. d - 1 : ~ IsEmpty(Probe(buckets[i].key, e))
    /\ \A i \in Offset : ~ IsEmpty(i) => \E p \in 1 .. Len(order) : order[p] = i
    /\ \A p, q \in 1 .. Len(order) : order[p] = order[q] => p = q

\* A key has one entry, across the tombstones it left, and across a resize.
OneEntryPerKey ==
    \A p, q \in Place : Entry(p).key = Entry(q).key /\ Entry(p).key # NULL => p = q

\* The loops of find_entry and resize_entry have no other end than a bucket
\* that is empty: the counts, which tombstones fill as well, keep one
\* (map.c:174, 76, 217).
EmptyBucketLeft == \E i \in Offset : IsEmpty(i)

\* The counts agree with the list: hashmap_size is the number of entries, and
\* a resize takes the tombstones it drops out of the count (map.c:102, 349).
CountsAgree ==
    /\ tombstone_count = Cardinality({p \in 1 .. Len(order) : buckets[order[p]].key = NULL})
    /\ pending = NoCall => count = Len(order)
    /\ pending # NoCall => count = Cardinality({p \in Place : Entry(p).key # NULL})

\* The loop of hashmap_resize follows m->first before it tests it: a map with
\* an empty list is never resized (map.c:106-111).
EmptyMapIsNotResized == [][capacity' > capacity => order # << >>]_vars

----------------------------------------------------------------------------
(* The abstract map.                                                       *)

Dict ==
    [k \in Key |-> IF \E p \in Place : Entry(p).key = k
                   THEN Entry(CHOOSE p \in Place : Entry(p).key = k).value
                   ELSE NULL]

Older ==
    {jk \in Key \X Key : \E p, q \in Place :
        p < q /\ Entry(p).key = jk[1] /\ Entry(q).key = jk[2]}

Map == INSTANCE OrderedMap WITH Missing <- NULL, dict <- Dict, older <- Older

\* An iteration that the loop leaves before the end of the list (map.c:373): the
\* callback is given some oldest entries only, in their order.
CutShort ==
    /\ Len(order) > ITERATE_STOP + 2
    /\ \E ks \in SUBSET Map!Present :
          /\ \A jk \in Older : jk[2] \in ks => jk[1] \in ks
          /\ Map!IterateOver(ks)

\* Whatever the probing, the tombstones and the resizes do, the callers see the
\* ordered map of map.h, but for one disagreement: map.h:65 promises that an iteration
\* calls c on every element, and the code does so only if the list has no more than
\* ITERATE_STOP + 2 buckets, tombstones included.
ImplementsOrderedMap == Map!Init /\ [][Map!Next \/ CutShort]_(Map!mapVars)
============================================================================
