--------------------------- MODULE HashmapProofs ---------------------------
(***************************************************************************)
(* The deprecated hash table is correct for every set of keys, every hash, *)
(* every capacity and every factor of growth. The steps of the table are   *)
(* first sorted by what they do to it; then the inductive invariant is     *)
(* shown to survive each kind of step.                                     *)
(***************************************************************************)
EXTENDS Hashmap, FiniteSetTheorems, TLAPS

----------------------------------------------------------------------------
(* The kinds of steps. *)

StoreCall == [op : {"set", "get_set", "set_free"}, key : Key, value : Value]

\* Nothing is left to copy, and after the step no call waits.
Complete ==
    /\ pending = NoCall \/ at > Len(old)
    /\ pending' = NoCall /\ old' = << >> /\ at' = 1
    /\ UNCHANGED <<capacity, tombstone_count>>

\* An absent key is stored, a stored key gets a value, nothing changes but ret,
\* a key is removed, a resize begins.
Links(i, k, v) ==
    /\ Complete
    /\ pending = NoCall => ~ Loaded
    /\ find_entry(k, i)
    /\ buckets[i].key = NULL
    /\ LinkEntry(i, k, v)

Overwrites(i, k, v) ==
    /\ Complete
    /\ find_entry(k, i)
    /\ buckets[i].key # NULL
    /\ OverwriteEntry(i, v)

Keeps == Complete /\ UNCHANGED <<buckets, order, count>>

Buries(i, k) ==
    /\ pending = NoCall
    /\ find_entry(k, i)
    /\ buckets[i].key # NULL
    /\ Bury(i)
    /\ UNCHANGED <<capacity, count, order, old, at, pending>>

Begins(call) ==
    /\ pending = NoCall
    /\ Loaded
    /\ hashmap_resize(call)

----------------------------------------------------------------------------
(* Types *)

LEMMA BucketFields ==
    /\ \A b \in Bucket : b.key \in Key \cup {NULL} /\ b.value \in Nat
    /\ \A b \in Bucket : b = EmptyBucket <=> b.key = NULL /\ b.value = 0
    /\ EmptyBucket \in Bucket /\ Tombstone \in Bucket
    /\ EmptyBucket.key = NULL /\ Tombstone.key = NULL /\ Tombstone # EmptyBucket
    /\ \A k \in Key, v \in Nat : [key |-> k, value |-> v] \in Bucket
  BY DEF Bucket, EmptyBucket, Tombstone

LEMMA CallFields ==
    /\ NULL \notin Key
    /\ NoCall \notin StoreCall
    /\ \A call \in StoreCall : call.key \in Key /\ call.value \in Nat
    /\ \A k \in Key, v \in Value : /\ Call("set", k, v) \in StoreCall
                                   /\ Call("get_set", k, v) \in StoreCall
                                   /\ Call("set_free", k, v) \in StoreCall
  BY HashmapAssumption DEF StoreCall, NoCall, Call

\* What HashmapTypeOK says, for the provers.
LEMMA TypeFacts ==
    ASSUME HashmapTypeOK
    PROVE  /\ capacity \in Nat /\ capacity >= 2
           /\ count \in Nat /\ tombstone_count \in Nat
           /\ Len(order) \in Nat /\ Len(old) \in Nat /\ at \in Nat /\ at >= 1
           /\ \A i \in Offset : buckets[i] \in Bucket
           /\ \A p \in 1 .. Len(order) : order[p] \in Offset
           /\ \A p \in 1 .. Len(old) : old[p] \in Bucket
           /\ pending \in StoreCall \cup {NoCall}
           /\ pending = NoCall => old = << >> /\ at = 1 /\ Len(old) = 0
<1>1. pending = NoCall => old = << >> /\ at = 1 /\ Len(old) = 0
  <2>1. SUFFICES ASSUME pending = NoCall
                 PROVE  old = << >> /\ at = 1 /\ Len(old) = 0
    OBVIOUS
  <2>2. old = << >> /\ at \in 1 .. Len(old) + 1
    BY <2>1 DEF HashmapTypeOK
  <2> QED
    BY <2>2
<1> QED
  BY <1>1, HashmapAssumption DEF HashmapTypeOK, StoreCall

LEMMA ReturnTypes ==
    /\ Nothing \in Result
    /\ \A f \in BOOLEAN, v \in Int :
          Returned(f, v) \in Result
    /\ \A entries \in SUBSET (Key \X Nat) :
          CalledBack(entries) \in Result
  BY DEF Nothing, Returned, CalledBack, CalledInTurn, Result

LEMMA BodyCases ==
    ASSUME HashmapTypeOK, NEW call \in StoreCall, Body(call), Complete,
           pending = NoCall => ~ Loaded
    PROVE  /\ \/ \E i \in Offset : Links(i, call.key, call.value)
              \/ \E i \in Offset : Overwrites(i, call.key, call.value)
              \/ Keeps
           /\ ret' \in Result
<1>1. PICK i \in Offset :
        /\ find_entry(call.key, i)
        /\ \/ call.op = "set" /\ SetBody(call.key, call.value, i)
           \/ call.op = "get_set" /\ GetSetBody(call.key, call.value, i)
           \/ call.op = "set_free" /\ SetFreeBody(call.key, call.value, i)
  BY DEF Body
<1>2. call.key \in Key /\ call.value \in Nat /\ buckets[i].value \in Nat
  BY CallFields, TypeFacts, BucketFields
<1>3. {<<call.key, buckets[i].value>>} \in SUBSET (Key \X Nat) /\ Nat \subseteq Int
  BY <1>2
<1>4. CASE SetBody(call.key, call.value, i)
  BY <1>1, <1>4, ReturnTypes DEF SetBody, Links, Overwrites
<1>5. CASE GetSetBody(call.key, call.value, i)
  <2>1. /\ Returned(FALSE, call.value)
              \in Result
        /\ Returned(TRUE, buckets[i].value)
              \in Result
    BY <1>2, <1>3, ReturnTypes
  <2> QED
    BY <1>1, <1>5, <2>1, Zenon DEF GetSetBody, Links, Keeps
<1>6. CASE SetFreeBody(call.key, call.value, i)
  BY <1>1, <1>3, <1>6, ReturnTypes, Zenon DEF SetFreeBody, Links, Overwrites
<1> QED
  BY <1>1, <1>4, <1>5, <1>6

LEMMA StoreCases ==
    ASSUME HashmapTypeOK, NEW call \in StoreCall, Store(call)
    PROVE  /\ \/ \E i \in Offset : Links(i, call.key, call.value)
              \/ \E i \in Offset : Overwrites(i, call.key, call.value)
              \/ Keeps
              \/ Begins(call)
           /\ ret' \in Result
<1>1. CASE Loaded /\ hashmap_resize(call)
  BY <1>1 DEF Store, Begins, hashmap_resize, HashmapTypeOK
<1>2. CASE ~ Loaded /\ Body(call)
           /\ UNCHANGED <<capacity, tombstone_count, old, at, pending>>
  <2>1. Complete
    BY <1>2, TypeFacts DEF Complete, Store
  <2> QED
    BY <1>2, <2>1, BodyCases
<1> QED
  BY <1>1, <1>2 DEF Store

\* Every step is of one of the kinds above, or copies or skips an old entry, or
\* starts over, and returns a value of the right type.
LEMMA StepCases ==
    ASSUME HashmapTypeOK, Next
    PROVE  /\ \/ \E i \in Offset, k \in Key, v \in Nat : Links(i, k, v)
              \/ \E i \in Offset, k \in Key, v \in Nat : Overwrites(i, k, v)
              \/ Keeps
              \/ \E i \in Offset, k \in Key : Buries(i, k)
              \/ \E call \in StoreCall : Begins(call)
              \/ resize_entry
              \/ SkipTombstone
              \/ hashmap_free
           /\ ret' \in Result
<1> DEFINE Typed == ret' \in Result
<1>1. ASSUME NEW k \in Key, NEW v \in Value,
             hashmap_set(k, v) \/ hashmap_get_set(k, v) \/ hashmap_set_free(k, v)
      PROVE  /\ \/ \E i \in Offset, j \in Key, w \in Nat : Links(i, j, w)
                \/ \E i \in Offset, j \in Key, w \in Nat : Overwrites(i, j, w)
                \/ Keeps
                \/ \E call \in StoreCall : Begins(call)
             /\ Typed
  <2>1. PICK call \in StoreCall : Store(call)
    BY <1>1, CallFields DEF hashmap_set, hashmap_get_set, hashmap_set_free
  <2>2. call.key \in Key /\ call.value \in Nat
    BY CallFields
  <2> QED
    BY <2>1, <2>2, StoreCases
<1>2. ASSUME StoreResized
      PROVE  /\ \/ \E i \in Offset, j \in Key, w \in Nat : Links(i, j, w)
                \/ \E i \in Offset, j \in Key, w \in Nat : Overwrites(i, j, w)
                \/ Keeps
             /\ Typed
  <2>1. pending \in StoreCall /\ Body(pending) /\ Complete /\ pending # NoCall
    BY <1>2, TypeFacts DEF StoreResized, Complete
  <2>2. pending.key \in Key /\ pending.value \in Nat
    BY <2>1, CallFields
  <2> QED
    BY <2>1, <2>2, BodyCases
<1>3. ASSUME UNCHANGED <<capacity, buckets, count, tombstone_count, order, old, at, pending>>,
             pending = NoCall
      PROVE  Keeps
  BY <1>3, TypeFacts DEF Keeps, Complete
<1>4. ASSUME NEW k \in Key, hashmap_get(k)
      PROVE  Keeps /\ Typed
  <2>1. PICK i \in Offset : ret' = Returned(buckets[i].key # NULL, buckets[i].value)
    BY <1>4 DEF hashmap_get
  <2>2. buckets[i].value \in Int /\ (buckets[i].key # NULL) \in BOOLEAN
    BY TypeFacts, BucketFields
  <2> QED
    BY <1>3, <1>4, <2>1, <2>2, ReturnTypes DEF hashmap_get
<1>5. ASSUME NEW k \in Key, hashmap_remove(k)
      PROVE  (Keeps \/ \E i \in Offset : Buries(i, k)) /\ Typed
  <2>1. PICK i \in Offset :
          /\ find_entry(k, i)
          /\ \/ buckets[i].key # NULL /\ Bury(i)
             \/ buckets[i].key = NULL /\ UNCHANGED <<buckets, tombstone_count>>
    BY <1>5 DEF hashmap_remove
  <2> QED
    BY <1>3, <1>5, <2>1, ReturnTypes DEF hashmap_remove, Buries
<1>6. ASSUME NEW k \in Key, hashmap_remove_free(k)
      PROVE  (Keeps \/ \E i \in Offset : Buries(i, k)) /\ Typed
  <2>1. PICK i \in Offset :
          /\ find_entry(k, i)
          /\ \/ /\ buckets[i].key # NULL
                /\ Bury(i)
                /\ ret' = CalledBack({<<k, buckets[i].value>>})
             \/ /\ buckets[i].key = NULL
                /\ ret' = Nothing
                /\ UNCHANGED <<buckets, tombstone_count>>
    BY <1>6 DEF hashmap_remove_free
  <2>2. {<<k, buckets[i].value>>} \in SUBSET (Key \X Nat)
    BY TypeFacts, BucketFields
  <2>3. Typed
    BY <2>1, <2>2, ReturnTypes, Zenon
  <2> QED
    BY <1>3, <1>6, <2>1, <2>3 DEF hashmap_remove_free, Buries
<1>7. ASSUME hashmap_size
      PROVE  Keeps /\ Typed
  <2>1. count - tombstone_count \in Int
    BY TypeFacts
  <2> QED
    BY <1>3, <1>7, <2>1, ReturnTypes DEF hashmap_size
<1>8. ASSUME hashmap_iterate
      PROVE  Keeps /\ Typed
  <2> DEFINE Pairs == {pq \in Visited \X Visited : pq[1] < pq[2]}
             called == {Given(p) : p \in Visited}
             before == {<<Given(pq[1]), Given(pq[2])>> : pq \in Pairs}
  <2>1. \A p \in Visited : Given(p) \in Key \X Nat
    BY TypeFacts, BucketFields DEF Visited, Given
  <2>2. called \in SUBSET (Key \X Nat)
    BY <2>1
  <2>3. before \in SUBSET ((Key \X Nat) \X (Key \X Nat))
    <3>1. \A pq \in Pairs : pq[1] \in Visited /\ pq[2] \in Visited
      OBVIOUS
    <3> QED
      BY <2>1, <3>1
  <2>4. ret' = CalledInTurn(called, before)
    BY <1>8 DEF hashmap_iterate
  <2> HIDE DEF called, before
  <2>5. Typed
    BY <2>2, <2>3, <2>4 DEF CalledInTurn, Result
  <2> QED
    BY <1>3, <1>8, <2>5 DEF hashmap_iterate
<1>9. ASSUME resize_entry \/ SkipTombstone \/ hashmap_free
      PROVE  Typed
  BY <1>9, ReturnTypes DEF resize_entry, SkipTombstone, hashmap_free, HashmapTypeOK
<1> QED
  BY <1>1, <1>2, <1>4, <1>5, <1>6, <1>7, <1>8, <1>9 DEF Next

----------------------------------------------------------------------------
(* What each kind of step does. *)

LEMMA ProbeType ==
    ASSUME HashmapTypeOK, NEW k \in Key, NEW d \in Nat
    PROVE  Probe(k, d) \in Offset
<1>1. Hash[k] \in Nat /\ Hash[k] + d \in Nat /\ capacity \in Nat /\ capacity >= 2
  BY TypeFacts, HashmapAssumption
<1> QED
  BY <1>1 DEF Probe, hash_data, Offset

\* The search ends at an empty bucket or at the key.
LEMMA FoundFacts ==
    ASSUME HashmapTypeOK, NEW k \in Key, NEW i \in Offset, find_entry(k, i)
    PROVE  /\ buckets[i].key = NULL => IsEmpty(i)
           /\ buckets[i].key # NULL => buckets[i].key = k
  BY CallFields, BucketFields DEF find_entry, Stops, IsEmpty

LEMMA AppendFacts ==
    ASSUME HashmapTypeOK, NEW i \in Offset, order' = Append(order, i)
    PROVE  /\ order' \in Seq(Offset) /\ Len(order') = Len(order) + 1
           /\ order'[Len(order) + 1] = i
           /\ \A p \in 1 .. Len(order) : order'[p] = order[p]
  BY DEF HashmapTypeOK

LEMMA SetFacts ==
    ASSUME HashmapTypeOK, NEW i \in Offset, NEW b \in Bucket,
           buckets' = [buckets EXCEPT ![i] = b]
    PROVE  /\ buckets' \in [Offset -> Bucket]
           /\ buckets'[i] = b
           /\ \A j \in Offset : j # i => buckets'[j] = buckets[j]
  BY DEF HashmapTypeOK

LEMMA LinksFacts ==
    ASSUME HashmapTypeOK, NEW i \in Offset, NEW k \in Key, NEW v \in Nat, Links(i, k, v)
    PROVE  /\ buckets' \in [Offset -> Bucket]
           /\ buckets'[i].key = k /\ buckets'[i].value = v
           /\ \A j \in Offset : j # i => buckets'[j] = buckets[j]
           /\ order' \in Seq(Offset) /\ Len(order') = Len(order) + 1
           /\ order'[Len(order) + 1] = i
           /\ \A p \in 1 .. Len(order) : order'[p] = order[p]
           /\ count' = count + 1 /\ tombstone_count' = tombstone_count
           /\ capacity' = capacity /\ pending' = NoCall /\ old' = << >> /\ at' = 1
           /\ IsEmpty(i)
<1>1. LinkEntry(i, k, v) /\ Complete /\ IsEmpty(i)
  BY FoundFacts DEF Links
<1>2. [key |-> k, value |-> v] \in Bucket
  BY BucketFields
<1>3. /\ buckets' = [buckets EXCEPT ![i] = [key |-> k, value |-> v]]
      /\ order' = Append(order, i) /\ count' = count + 1
  BY <1>1 DEF LinkEntry
<1>4. buckets'[i].key = k /\ buckets'[i].value = v
  BY <1>2, <1>3, SetFacts
<1> QED
  BY <1>1, <1>2, <1>3, <1>4, SetFacts, AppendFacts DEF Complete

LEMMA OverwritesFacts ==
    ASSUME HashmapTypeOK, NEW i \in Offset, NEW k \in Key, NEW v \in Nat,
           Overwrites(i, k, v)
    PROVE  /\ buckets' \in [Offset -> Bucket]
           /\ buckets[i].key = k /\ buckets'[i].key = k /\ buckets'[i].value = v
           /\ \A j \in Offset : j # i => buckets'[j] = buckets[j]
           /\ order' = order /\ count' = count /\ tombstone_count' = tombstone_count
           /\ capacity' = capacity /\ pending' = NoCall /\ old' = << >> /\ at' = 1
<1>1. OverwriteEntry(i, v) /\ Complete /\ buckets[i].key = k
  BY FoundFacts DEF Overwrites
<1>2. buckets' = [buckets EXCEPT ![i] = [buckets[i] EXCEPT !.value = v]]
  BY <1>1 DEF OverwriteEntry
<1>3. /\ [buckets[i] EXCEPT !.value = v] \in Bucket
      /\ [buckets[i] EXCEPT !.value = v].key = k
      /\ [buckets[i] EXCEPT !.value = v].value = v
  BY <1>1, TypeFacts DEF Bucket
<1> QED
  BY <1>1, <1>2, <1>3, SetFacts DEF Complete, OverwriteEntry

LEMMA BuriesFacts ==
    ASSUME HashmapTypeOK, NEW i \in Offset, NEW k \in Key, Buries(i, k)
    PROVE  /\ buckets' \in [Offset -> Bucket]
           /\ buckets[i].key = k /\ buckets'[i].key = NULL /\ buckets'[i] # EmptyBucket
           /\ \A j \in Offset : j # i => buckets'[j] = buckets[j]
           /\ tombstone_count' = tombstone_count + 1
           /\ pending = NoCall
           /\ UNCHANGED <<capacity, count, order, old, at, pending>>
<1>1. Bury(i) /\ buckets[i].key = k
  BY FoundFacts DEF Buries
<1>2. buckets' = [buckets EXCEPT ![i] = Tombstone]
  BY <1>1 DEF Bury
<1> QED
  BY <1>1, <1>2, BucketFields, SetFacts DEF Buries, Bury

LEMMA GrowFacts ==
    ASSUME NEW c \in Nat, c >= 2
    PROVE  /\ c * HASHMAP_RESIZE_FACTOR \in Nat
           /\ c * HASHMAP_RESIZE_FACTOR >= 2 * c
<1>1. \A f \in Nat : f >= 2 => c * f \in Nat /\ c * f >= 2 * c
  OBVIOUS
<1> QED
  BY <1>1, HashmapAssumption

LEMMA BeginsFacts ==
    ASSUME HashmapTypeOK, NEW call \in StoreCall, Begins(call)
    PROVE  /\ capacity' \in Nat /\ capacity' >= 2 * capacity
           /\ buckets' = [i \in Offset' |-> EmptyBucket]
           /\ count' = count - tombstone_count /\ tombstone_count' = 0
           /\ order' = << >> /\ at' = 1
           /\ old' = [p \in 1 .. Len(order) |-> buckets[order[p]]]
           /\ old' \in Seq(Bucket) /\ Len(old') = Len(order)
           /\ \A p \in 1 .. Len(order) : old'[p] = buckets[order[p]]
           /\ pending = NoCall /\ pending' = call /\ pending' # NoCall
           /\ old = << >> /\ at = 1 /\ Loaded
<1>1. hashmap_resize(call) /\ pending = NoCall /\ Loaded
  BY DEF Begins
<1>2. old' = [p \in 1 .. Len(order) |-> buckets[order[p]]]
  BY <1>1 DEF hashmap_resize
<1>3. \A p \in 1 .. Len(order) : buckets[order[p]] \in Bucket
  BY TypeFacts
<1>4. old' \in Seq(Bucket) /\ Len(old') = Len(order)
  BY <1>2, <1>3, TypeFacts
<1>5. capacity' \in Nat /\ capacity' >= 2 * capacity
  BY <1>1, TypeFacts, GrowFacts DEF hashmap_resize
<1> QED
  BY <1>1, <1>2, <1>4, <1>5, TypeFacts, CallFields DEF hashmap_resize, Offset

LEMMA CopyFacts ==
    ASSUME HashmapTypeOK, resize_entry
    PROVE  /\ at <= Len(old) /\ at' = at + 1 /\ old[at].key # NULL /\ old[at] \in Bucket
           /\ pending # NoCall /\ Len(order) < at
           /\ UNCHANGED <<capacity, count, tombstone_count, old, pending>>
           /\ \E i \in Offset :
                 /\ FirstFree(old[at].key, i)
                 /\ buckets' \in [Offset -> Bucket]
                 /\ buckets'[i] = old[at]
                 /\ \A j \in Offset : j # i => buckets'[j] = buckets[j]
                 /\ order' \in Seq(Offset) /\ Len(order') = Len(order) + 1
                 /\ order'[Len(order) + 1] = i
                 /\ \A p \in 1 .. Len(order) : order'[p] = order[p]
<1>1. at <= Len(old) /\ at \in 1 .. Len(old) /\ old[at] \in Bucket /\ pending # NoCall
  BY TypeFacts DEF resize_entry
<1>2. Len(order) < at
  BY <1>1 DEF HashmapTypeOK
<1>3. PICK i \in Offset : /\ FirstFree(old[at].key, i)
                          /\ buckets' = [buckets EXCEPT ![i] = old[at]]
                          /\ order' = Append(order, i)
  BY DEF resize_entry
<1> QED
  BY <1>1, <1>2, <1>3, SetFacts, AppendFacts DEF resize_entry

LEMMA SkipFacts ==
    ASSUME HashmapTypeOK, SkipTombstone
    PROVE  /\ at <= Len(old) /\ at' = at + 1 /\ old[at].key = NULL
           /\ pending # NoCall /\ Len(order) < at
           /\ UNCHANGED <<capacity, buckets, count, tombstone_count, order, old, pending>>
<1>1. at <= Len(old) /\ pending # NoCall
  BY TypeFacts DEF SkipTombstone
<1> QED
  BY <1>1 DEF SkipTombstone, HashmapTypeOK

LEMMA FreeFacts ==
    ASSUME HashmapTypeOK, hashmap_free
    PROVE  /\ capacity' = HASHMAP_DEFAULT_CAPACITY /\ capacity' \in Nat /\ capacity' >= 2
           /\ buckets' = [i \in Offset' |-> EmptyBucket]
           /\ count' = 0 /\ tombstone_count' = 0 /\ order' = << >>
           /\ pending' = NoCall /\ old' = << >> /\ at' = 1
  BY TypeFacts, HashmapAssumption DEF hashmap_free, Offset

LEMMA KeepsFacts ==
    ASSUME HashmapTypeOK, Keeps
    PROVE  /\ UNCHANGED <<buckets, order, count, capacity, tombstone_count>>
           /\ pending' = NoCall /\ old' = << >> /\ at' = 1
  BY DEF Keeps, Complete

----------------------------------------------------------------------------
(* The inductive invariant. *)

\* The list holds no empty bucket, a new table no tombstone yet.
Filled == \A p \in 1 .. Len(order) : ~ IsEmpty(order[p])
Copied == pending # NoCall => \A p \in 1 .. Len(order) : buckets[order[p]].key # NULL

\* The table is loaded to three quarters at most, and a resize leaves room for
\* the entry it was made for.
HasRoom ==
    /\ 4 * count <= 3 * capacity
    /\ pending # NoCall => 4 * (count + 1) <= 3 * capacity

Inv ==
    /\ HashmapTypeOK
    /\ Filled /\ Copied /\ HasRoom
    /\ Reachable
    /\ OneEntryPerKey
    /\ CountsAgree

\* The parts of Reachable.
Path(k, i) ==
    \E d \in Offset : /\ Probe(k, d) = i
                      /\ \A e \in 0 .. d - 1 : ~ IsEmpty(Probe(k, e))
OnPath == \A i \in Offset : buckets[i].key # NULL => Path(buckets[i].key, i)
Listed == \A i \in Offset : ~ IsEmpty(i) => \E p \in 1 .. Len(order) : order[p] = i
Once == \A p, q \in 1 .. Len(order) : order[p] = order[q] => p = q

LEMMA ReachableParts == Reachable <=> OnPath /\ Listed /\ Once
  BY DEF Reachable, OnPath, Path, Listed, Once

\* The sets that the counts count.
Tombs == {p \in 1 .. Len(order) : buckets[order[p]].key = NULL}
Live == {p \in Place : Entry(p).key # NULL}

LEMMA CountParts ==
    CountsAgree <=> /\ tombstone_count = Cardinality(Tombs)
                    /\ pending = NoCall => count = Len(order)
                    /\ pending # NoCall => count = Cardinality(Live)
  BY DEF CountsAgree, Tombs, Live

LEMMA EmptySeqType == \A S : << >> \in Seq(S)
  OBVIOUS

LEMMA CountsFinite ==
    ASSUME HashmapTypeOK
    PROVE  /\ IsFiniteSet(Tombs) /\ Cardinality(Tombs) \in Nat
           /\ Cardinality(Tombs) <= Len(order)
           /\ IsFiniteSet(Place)
           /\ IsFiniteSet(Live) /\ Cardinality(Live) \in Nat
<1>0. 1 \in Int /\ Len(order) \in Int /\ at \in Int /\ Len(old) \in Int /\ Len(order) >= 0
  BY TypeFacts
<1>1. /\ IsFiniteSet(1 .. Len(order)) /\ Cardinality(1 .. Len(order)) = Len(order)
      /\ IsFiniteSet(at .. Len(old))
  <2>1. /\ IsFiniteSet(1 .. Len(order))
        /\ Cardinality(1 .. Len(order)) =
               IF 1 > Len(order) THEN 0 ELSE Len(order) - 1 + 1
    BY <1>0, FS_Interval
  <2>2. IsFiniteSet(at .. Len(old))
    BY <1>0, FS_Interval
  <2> QED
    BY <1>0, <2>1, <2>2
<1>2. IsFiniteSet(Place)
  BY <1>1, FS_Union DEF Place
<1>3. Tombs \in SUBSET (1 .. Len(order)) /\ Live \in SUBSET Place
  BY DEF Tombs, Live
<1> QED
  BY <1>1, <1>2, <1>3, FS_Subset, FS_CardinalityType

----------------------------------------------------------------------------
(* The parts of the invariant, one by one. *)

\* HashmapTypeOK without ret.
Shape ==
    /\ capacity \in Nat /\ capacity >= HASHMAP_DEFAULT_CAPACITY
    /\ buckets \in [Offset -> Bucket]
    /\ count \in Nat /\ tombstone_count \in Nat
    /\ order \in Seq(Offset)
    /\ old \in Seq(Bucket) /\ at \in 1 .. Len(old) + 1
    /\ pending \in StoreCall \cup {NoCall}
    /\ pending = NoCall => old = << >>
    /\ pending # NoCall => Len(order) < at

LEMMA ShapeParts ==
    HashmapTypeOK <=>
        Shape /\ ret \in Result
  BY Zenon DEF HashmapTypeOK, Shape, StoreCall

\* A step after which no call waits.
LEMMA SettledShape ==
    ASSUME Shape, capacity' \in Nat, capacity' >= HASHMAP_DEFAULT_CAPACITY,
           buckets' \in [Offset' -> Bucket], count' \in Nat, tombstone_count' \in Nat,
           order' \in Seq(Offset'), old' = << >>, at' = 1, pending' = NoCall
    PROVE  Shape'
  BY DEF Shape

\* A step inside a resize.
LEMMA ResizingShape ==
    ASSUME Shape, capacity' \in Nat, capacity' >= HASHMAP_DEFAULT_CAPACITY,
           buckets' \in [Offset' -> Bucket], count' \in Nat, tombstone_count' \in Nat,
           order' \in Seq(Offset'), old' \in Seq(Bucket), at' \in 1 .. Len(old') + 1,
           pending' \in StoreCall, pending' # NoCall, Len(order') < at'
    PROVE  Shape'
  BY DEF Shape

LEMMA TypeStep ==
    ASSUME Inv, Next
    PROVE  HashmapTypeOK'
<1>1. HashmapTypeOK /\ CountsAgree /\ Shape
  BY ShapeParts DEF Inv
<1>2. SUFFICES Shape'
  <2>1. ret' \in Result
    BY <1>1, StepCases
  <2>2. (Shape /\ ret \in Result)'
            => HashmapTypeOK'
    BY ShapeParts, Zenon DEF HashmapTypeOK, Shape, StoreCall
  <2> QED
    BY <2>1, <2>2
<1> DEFINE Same == capacity' = capacity
<1>3. Same => Offset' = Offset
  BY DEF Offset
<1>4. capacity \in Nat /\ capacity >= HASHMAP_DEFAULT_CAPACITY
  BY <1>1 DEF Shape
<1>5. ASSUME NEW i \in Offset, NEW k \in Key, NEW v \in Nat, Links(i, k, v)
      PROVE  Shape'
  BY <1>1, <1>3, <1>4, <1>5, LinksFacts, TypeFacts, SettledShape
<1>6. ASSUME NEW i \in Offset, NEW k \in Key, NEW v \in Nat, Overwrites(i, k, v)
      PROVE  Shape'
  <2>1. order \in Seq(Offset)
    BY <1>1 DEF Shape
  <2> QED
    BY <2>1, <1>1, <1>3, <1>4, <1>6, OverwritesFacts, TypeFacts, SettledShape
<1>7. ASSUME Keeps
      PROVE  Shape'
  <2>1. order \in Seq(Offset) /\ buckets \in [Offset -> Bucket]
    BY <1>1 DEF Shape
  <2> QED
    BY <2>1, <1>1, <1>3, <1>4, <1>7, KeepsFacts, TypeFacts, SettledShape
<1>8. ASSUME NEW i \in Offset, NEW k \in Key, Buries(i, k)
      PROVE  Shape'
  <2>1. order \in Seq(Offset) /\ pending' = NoCall /\ old' = << >> /\ at' = 1
    BY <1>1, <1>8, BuriesFacts, TypeFacts DEF Shape
  <2> QED
    BY <2>1, <1>1, <1>3, <1>4, <1>8, BuriesFacts, TypeFacts, SettledShape
<1>9. ASSUME NEW call \in StoreCall, Begins(call)
      PROVE  Shape'
  <2>1. count - tombstone_count \in Nat
    BY <1>1, <1>9, BeginsFacts, TypeFacts, CountsFinite, CountParts
  <2>2. buckets' \in [Offset' -> Bucket] /\ order' \in Seq(Offset')
    BY <1>1, <1>9, BeginsFacts, BucketFields, Zenon, EmptySeqType
  <2>3. /\ capacity' >= HASHMAP_DEFAULT_CAPACITY
        /\ Len(order') < at' /\ at' \in 1 .. Len(old') + 1
    BY <1>1, <1>4, <1>9, BeginsFacts, TypeFacts, HashmapAssumption
  <2> QED
    BY <1>1, <1>9, <2>1, <2>2, <2>3, BeginsFacts, ResizingShape
<1>10. ASSUME resize_entry
       PROVE  Shape'
  <2>1. /\ at' \in 1 .. Len(old') + 1 /\ Len(order') < at' /\ pending \in StoreCall
        /\ buckets' \in [Offset -> Bucket] /\ order' \in Seq(Offset)
    BY <1>1, <1>10, CopyFacts, TypeFacts
  <2>2. old \in Seq(Bucket)
    BY <1>1 DEF Shape
  <2> QED
    BY <1>1, <1>3, <1>4, <1>10, <2>1, <2>2, CopyFacts, TypeFacts, ResizingShape
<1>11. ASSUME SkipTombstone
       PROVE  Shape'
  <2>1. at' \in 1 .. Len(old') + 1 /\ Len(order') < at' /\ pending \in StoreCall
    BY <1>1, <1>11, SkipFacts, TypeFacts
  <2>2. /\ old \in Seq(Bucket) /\ order \in Seq(Offset)
        /\ buckets \in [Offset -> Bucket]
    BY <1>1 DEF Shape
  <2> QED
    BY <1>1, <1>3, <1>4, <1>11, <2>1, <2>2, SkipFacts, TypeFacts, ResizingShape
<1>12. ASSUME hashmap_free
       PROVE  Shape'
  <2>1. buckets' \in [Offset' -> Bucket] /\ order' \in Seq(Offset')
    BY <1>1, <1>12, FreeFacts, BucketFields, Zenon, EmptySeqType
  <2>2. HASHMAP_DEFAULT_CAPACITY >= HASHMAP_DEFAULT_CAPACITY /\ 0 \in Nat
    BY HashmapAssumption
  <2> QED
    BY <1>1, <1>12, <2>1, <2>2, FreeFacts, SettledShape
<1> QED
  BY <1>1, <1>5, <1>6, <1>7, <1>8, <1>9, <1>10, <1>11, <1>12, StepCases

LEMMA RoomStep ==
    ASSUME Inv, Next
    PROVE  HasRoom'
<1>1. /\ HashmapTypeOK /\ CountsAgree /\ 4 * count <= 3 * capacity
      /\ pending # NoCall => 4 * (count + 1) <= 3 * capacity
  BY DEF Inv, HasRoom
<1>2. ASSUME NEW i \in Offset, NEW k \in Key, NEW v \in Nat, Links(i, k, v)
      PROVE  HasRoom'
  <2>1. 4 * (count + 1) <= 3 * capacity
    BY <1>1, <1>2, TypeFacts DEF Links, Loaded
  <2> QED
    BY <1>1, <1>2, <2>1, LinksFacts DEF HasRoom
<1>3. ASSUME NEW i \in Offset, NEW k \in Key, NEW v \in Nat, Overwrites(i, k, v)
      PROVE  HasRoom'
  BY <1>1, <1>3, OverwritesFacts DEF HasRoom
<1>4. ASSUME NEW call \in StoreCall, Begins(call)
      PROVE  HasRoom'
  <2>1. /\ capacity' \in Nat /\ capacity' >= 2 * capacity /\ count' \in Int
        /\ capacity \in Nat /\ capacity >= 2 /\ count \in Nat /\ tombstone_count \in Nat
        /\ count' = count - tombstone_count
    BY <1>1, <1>4, BeginsFacts, TypeFacts
  <2>2. \A n, m, c, d \in Int :
           4 * n <= 3 * c /\ m <= n /\ d >= 2 * c /\ c >= 2
               => 4 * m <= 3 * d /\ 4 * (m + 1) <= 3 * d
    OBVIOUS
  <2>3. 4 * count' <= 3 * capacity' /\ 4 * (count' + 1) <= 3 * capacity'
    <3>1. count' <= count /\ count \in Int /\ capacity \in Int /\ capacity' \in Int
      BY <2>1
    <3> QED
      BY <1>1, <2>1, <2>2, <3>1
  <2> QED
    BY <2>3 DEF HasRoom
<1>5. ASSUME Keeps \/ (\E i \in Offset, k \in Key : Buries(i, k))
      PROVE  HasRoom'
  BY <1>1, <1>5, KeepsFacts, BuriesFacts DEF HasRoom
<1>6. ASSUME resize_entry \/ SkipTombstone
      PROVE  HasRoom'
  BY <1>1, <1>6, CopyFacts, SkipFacts DEF HasRoom
<1>7. ASSUME hashmap_free
      PROVE  HasRoom'
  BY <1>1, <1>7, FreeFacts, CallFields DEF HasRoom
<1> QED
  BY <1>1, <1>2, <1>3, <1>4, <1>5, <1>6, <1>7, StepCases

\* A bucket that was not empty is not empty later, as long as the table stays.
LEMMA PathStays ==
    ASSUME capacity' = capacity, \A j \in Offset : ~ IsEmpty(j) => ~ IsEmpty(j)',
           NEW k \in Key, NEW i \in Offset, Path(k, i), HashmapTypeOK
    PROVE  Path(k, i)'
<1>1. PICK d \in Offset : /\ Probe(k, d) = i
                          /\ \A e \in 0 .. d - 1 : ~ IsEmpty(Probe(k, e))
  BY DEF Path
<1>2. Offset' = Offset /\ \A e \in Nat : Probe(k, e)' = Probe(k, e)
  BY DEF Offset, Probe, hash_data
<1>3. d \in Nat /\ \A e \in 0 .. d - 1 : e \in Nat
  BY TypeFacts DEF Offset
<1>4. \A e \in 0 .. d - 1 : Probe(k, e) \in Offset
  BY <1>3, ProbeType
<1>5. \A e \in 0 .. d - 1 : ~ IsEmpty(Probe(k, e))'
  BY <1>1, <1>2, <1>3, <1>4 DEF IsEmpty
<1> QED
  BY <1>1, <1>2, <1>3, <1>5 DEF Path

\* A search that ends at an empty bucket has walked the path to it.
LEMMA FindPath ==
    ASSUME NEW k \in Key, NEW i \in Offset, find_entry(k, i)
    PROVE  Path(k, i)
  BY DEF find_entry, Path, Stops

LEMMA FreePath ==
    ASSUME HashmapTypeOK, NEW k \in Key, NEW i \in Offset, FirstFree(k, i)
    PROVE  Path(k, i) /\ buckets[i].key = NULL
  BY BucketFields DEF FirstFree, Path, IsEmpty, EmptyBucket

\* The key of every bucket that has one is on the path to it.
LEMMA OnPathStep ==
    ASSUME Inv, Next
    PROVE  OnPath'
<1>1. HashmapTypeOK /\ OnPath
  BY ReachableParts DEF Inv
<1>2. \A i \in Offset : buckets[i].key # NULL => buckets[i].key \in Key
  BY <1>1, TypeFacts, BucketFields
\* Steps that change at most the bucket i.
<1>3. ASSUME NEW i \in Offset, capacity' = capacity, buckets'[i] # EmptyBucket,
             \A j \in Offset : j # i => buckets'[j] = buckets[j],
             buckets'[i].key # NULL => buckets'[i].key \in Key /\ Path(buckets'[i].key, i)
      PROVE  OnPath'
  <2>1. Offset' = Offset
    BY <1>3 DEF Offset
  <2>2. \A j \in Offset : ~ IsEmpty(j) => ~ IsEmpty(j)'
    BY <1>3 DEF IsEmpty
  <2>3. ASSUME NEW j \in Offset, buckets'[j].key # NULL
        PROVE  Path(buckets[j].key, j)'
    <3>1. PICK k \in Key : k = buckets'[j].key /\ Path(k, j)
      BY <1>1, <1>2, <1>3, <2>3 DEF OnPath
    <3>2. Path(k, j)'
      BY <1>1, <1>3, <2>2, <3>1, PathStays
    <3> QED
      BY <3>1, <3>2
  <2> QED
    BY <2>1, <2>3 DEF OnPath
<1>4. ASSUME capacity' = capacity, buckets' = buckets
      PROVE  OnPath'
  BY <1>1, <1>4 DEF OnPath, Path, Offset, Probe, hash_data, IsEmpty
<1>5. ASSUME buckets' = [i \in Offset' |-> EmptyBucket]
      PROVE  OnPath'
  BY <1>5, BucketFields DEF OnPath
<1>6. ASSUME NEW i \in Offset, NEW k \in Key, NEW v \in Nat, Links(i, k, v)
      PROVE  OnPath'
  <2>1. Path(k, i) /\ buckets'[i].key = k /\ k # NULL
    BY <1>1, <1>6, LinksFacts, FindPath, CallFields DEF Links
  <2> QED
    BY <1>1, <1>3, <1>6, <2>1, LinksFacts, BucketFields
<1>7. ASSUME NEW i \in Offset, NEW k \in Key, NEW v \in Nat, Overwrites(i, k, v)
      PROVE  OnPath'
  <2>1. Path(k, i) /\ buckets'[i].key = k /\ k # NULL
    BY <1>1, <1>7, OverwritesFacts, FindPath, CallFields DEF Overwrites
  <2> QED
    BY <1>1, <1>3, <1>7, <2>1, OverwritesFacts, BucketFields
<1>8. ASSUME NEW i \in Offset, NEW k \in Key, Buries(i, k)
      PROVE  OnPath'
  BY <1>1, <1>3, <1>8, BuriesFacts
<1>9. ASSUME resize_entry
      PROVE  OnPath'
  <2>1. old[at].key \in Key /\ old[at].key # NULL
    BY <1>1, <1>9, CopyFacts, BucketFields
  <2>2. PICK i \in Offset :
           /\ FirstFree(old[at].key, i)
           /\ buckets'[i] = old[at]
           /\ \A j \in Offset : j # i => buckets'[j] = buckets[j]
    BY <1>1, <1>9, CopyFacts
  <2>3. Path(old[at].key, i)
    BY <1>1, <2>1, <2>2, FreePath
  <2>4. buckets'[i] # EmptyBucket /\ capacity' = capacity
    BY <1>1, <1>9, <2>1, <2>2, CopyFacts, BucketFields
  <2> QED
    BY <1>3, <2>1, <2>2, <2>3, <2>4
<1> QED
  BY <1>1, <1>4, <1>5, <1>6, <1>7, <1>8, <1>9, StepCases, KeepsFacts, BeginsFacts,
     SkipFacts, FreeFacts

\* The list links the buckets that are not empty, each of them once; in a new table
\* it has no tombstones.
LEMMA ListStep ==
    ASSUME Inv, Next
    PROVE  Filled' /\ Copied' /\ Listed' /\ Once'
<1>1. HashmapTypeOK /\ Filled /\ Copied /\ Listed /\ Once
  BY ReachableParts DEF Inv
<1> DEFINE Goal == Filled' /\ Copied' /\ Listed' /\ Once'
\* The bucket i joins the list.
<1>2. ASSUME NEW i \in Offset, capacity' = capacity, buckets'[i].key # NULL,
             \A j \in Offset : j # i => buckets'[j] = buckets[j],
             order' \in Seq(Offset), Len(order') = Len(order) + 1,
             order'[Len(order) + 1] = i,
             \A p \in 1 .. Len(order) : order'[p] = order[p] /\ order[p] # i,
             pending' # NoCall => pending # NoCall
      PROVE  Goal
  <2>1. Len(order) \in Nat /\ Offset' = Offset /\ \A p \in 1 .. Len(order) : order[p] \in Offset
    BY <1>1, <1>2, TypeFacts DEF Offset
  <2>2. \A p \in 1 .. Len(order') : p \in 1 .. Len(order) \/ p = Len(order) + 1
    BY <1>2, <2>1
  <2>3. Len(order) + 1 \in 1 .. Len(order') /\ 1 .. Len(order) \subseteq 1 .. Len(order')
    BY <1>2, <2>1
  <2>4. Filled'
    BY <1>1, <1>2, <2>1, <2>2, BucketFields DEF Filled, IsEmpty
  <2>5. Copied'
    BY <1>1, <1>2, <2>1, <2>2 DEF Copied
  <2>6. Listed'
    BY <1>1, <1>2, <2>1, <2>2, <2>3 DEF Listed, IsEmpty
  <2>7. Once'
    BY <1>1, <1>2, <2>1, <2>2 DEF Once
  <2> QED
    BY <2>4, <2>5, <2>6, <2>7
\* The list stays, and the bucket i is not emptied.
<1>3. ASSUME NEW i \in Offset, capacity' = capacity, order' = order,
             buckets'[i] # EmptyBucket, buckets[i].key # NULL,
             \A j \in Offset : j # i => buckets'[j] = buckets[j],
             pending' = NoCall
      PROVE  Goal
  <2>1. Offset' = Offset /\ \A p \in 1 .. Len(order) : order[p] \in Offset
    BY <1>1, <1>3, TypeFacts DEF Offset
  <2>2. ~ IsEmpty(i)
    BY <1>3, BucketFields DEF IsEmpty
  <2> QED
    BY <1>1, <1>3, <2>1, <2>2 DEF Filled, Copied, Listed, Once, IsEmpty
<1>4. ASSUME capacity' = capacity, order' = order, buckets' = buckets,
             pending' # NoCall => pending # NoCall
      PROVE  Goal
  BY <1>1, <1>4 DEF Filled, Copied, Listed, Once, IsEmpty, Offset
<1>5. ASSUME buckets' = [i \in Offset' |-> EmptyBucket], order' = << >>
      PROVE  Goal
  BY <1>5 DEF Filled, Copied, Listed, Once, IsEmpty
<1>6. ASSUME NEW i \in Offset, NEW k \in Key, NEW v \in Nat, Links(i, k, v)
      PROVE  Goal
  <2>1. k # NULL /\ \A p \in 1 .. Len(order) : order[p] # i
    BY <1>1, <1>6, LinksFacts, CallFields DEF Filled
  <2> QED
    BY <1>1, <1>2, <1>6, <2>1, LinksFacts
<1>7. ASSUME NEW i \in Offset, NEW k \in Key, NEW v \in Nat, Overwrites(i, k, v)
      PROVE  Goal
  <2>1. buckets'[i] # EmptyBucket /\ buckets[i].key # NULL
    BY <1>1, <1>7, OverwritesFacts, CallFields, BucketFields
  <2> QED
    BY <1>1, <1>3, <1>7, <2>1, OverwritesFacts
<1>8. ASSUME NEW i \in Offset, NEW k \in Key, Buries(i, k)
      PROVE  Goal
  BY <1>1, <1>3, <1>8, BuriesFacts, CallFields
<1>9. ASSUME resize_entry
      PROVE  Goal
  <2>1. old[at].key \in Key /\ old[at].key # NULL /\ pending # NoCall
    BY <1>1, <1>9, CopyFacts, BucketFields
  <2>2. PICK i \in Offset :
           /\ FirstFree(old[at].key, i)
           /\ buckets'[i] = old[at]
           /\ \A j \in Offset : j # i => buckets'[j] = buckets[j]
           /\ order' \in Seq(Offset) /\ Len(order') = Len(order) + 1
           /\ order'[Len(order) + 1] = i
           /\ \A p \in 1 .. Len(order) : order'[p] = order[p]
    BY <1>1, <1>9, CopyFacts
  <2>3. \A p \in 1 .. Len(order) : order[p] # i
    BY <1>1, <2>1, <2>2, FreePath DEF Copied
  <2>4. capacity' = capacity
    BY <1>1, <1>9, CopyFacts
  <2> QED
    BY <1>2, <2>1, <2>2, <2>3, <2>4
<1> QED
  BY <1>1, <1>4, <1>5, <1>6, <1>7, <1>8, <1>9, StepCases, KeepsFacts, BeginsFacts,
     SkipFacts, FreeFacts

----------------------------------------------------------------------------
(* One entry per key, and the counts. *)

\* If the search for a key ends at an empty bucket, no bucket has the key: the path
\* to such a bucket would lead across the end of the search.
LEMMA Absent ==
    ASSUME HashmapTypeOK, OnPath, NEW k \in Key, NEW i \in Offset,
           find_entry(k, i), buckets[i].key = NULL
    PROVE  \A j \in Offset : buckets[j].key # k
<1>1. SUFFICES ASSUME NEW j \in Offset, buckets[j].key = k
               PROVE  FALSE
  OBVIOUS
<1>2. IsEmpty(i) /\ k # NULL
  BY FoundFacts, CallFields
<1>3. PICK d \in Offset : /\ Probe(k, d) = i
                          /\ \A e \in 0 .. d - 1 : ~ Stops(k, Probe(k, e))
  BY DEF find_entry
<1>4. PICK c \in Offset : /\ Probe(k, c) = j
                          /\ \A e \in 0 .. c - 1 : ~ IsEmpty(Probe(k, e))
  BY <1>1, <1>2 DEF OnPath, Path
<1>5. d \in Nat /\ c \in Nat
  BY DEF Offset
<1>6. CASE d < c
  BY <1>2, <1>3, <1>4, <1>5, <1>6
<1>7. CASE c < d
  BY <1>1, <1>3, <1>4, <1>5, <1>7 DEF Stops
<1>8. CASE c = d
  BY <1>1, <1>2, <1>3, <1>4, <1>8 DEF IsEmpty, EmptyBucket
<1> QED
  BY <1>5, <1>6, <1>7, <1>8

\* The places of a map without a resize, or at its end.
LEMMA SettledPlaces ==
    ASSUME HashmapTypeOK, pending = NoCall \/ at > Len(old)
    PROVE  /\ Place = 1 .. Len(order)
           /\ \A p \in 1 .. Len(order) : Entry(p) = buckets[order[p]]
<1>1. at > Len(old) /\ at \in Nat /\ Len(old) \in Nat /\ Len(order) \in Nat
  BY TypeFacts
<1>2. at .. Len(old) = {}
  BY <1>1
<1> QED
  BY <1>1, <1>2 DEF Place, Entry

LEMMA SettledPlacesAfter ==
    ASSUME old' = << >>, at' = 1, Len(order') \in Nat
    PROVE  /\ Place' = 1 .. Len(order')
           /\ \A p \in 1 .. Len(order') : Entry(p)' = buckets'[order'[p]]
<1>1. at' .. Len(old') = {}
  OBVIOUS
<1> QED
  BY <1>1 DEF Place, Entry

\* The list after a resize has begun, and after an entry was copied or skipped.
LEMMA BeginsPlaces ==
    ASSUME HashmapTypeOK, NEW call \in StoreCall, Begins(call)
    PROVE  /\ Place = 1 .. Len(order) /\ Place' = Place
           /\ \A p \in Place : Entry(p)' = Entry(p)
<1>1. /\ Place = 1 .. Len(order)
      /\ \A p \in 1 .. Len(order) : Entry(p) = buckets[order[p]]
  BY BeginsFacts, SettledPlaces
<1>2. /\ order' = << >> /\ at' = 1 /\ Len(old') = Len(order) /\ Len(order) \in Nat
      /\ \A p \in 1 .. Len(order) : old'[p] = buckets[order[p]]
  BY BeginsFacts, TypeFacts
<1>3. 1 .. Len(order') = {} /\ \A p \in 1 .. Len(order) : ~ (p <= Len(order'))
  BY <1>2
<1> QED
  BY <1>1, <1>2, <1>3 DEF Place, Entry

LEMMA CopyPlaces ==
    ASSUME HashmapTypeOK, Copied, resize_entry,
           NEW n \in Nat, n = Len(order) + 1, NEW a \in Nat, a = at
    PROVE  /\ Place' = (Place \ {a}) \cup {n}
           /\ a \in Place /\ Entry(a).key # NULL
           /\ n \in Place => n = a
           /\ Entry(n)' = Entry(a)
           /\ \A p \in Place' : p # n => p \in Place /\ Entry(p)' = Entry(p)
<1>1. /\ at <= Len(old) /\ at' = at + 1 /\ Len(order) < at /\ old' = old
      /\ at \in Nat /\ Len(old) \in Nat /\ Len(order) \in Nat
      /\ old[at].key # NULL /\ old[at].key \in Key /\ pending # NoCall
  BY CopyFacts, TypeFacts, BucketFields
<1>2. PICK i \in Offset :
         /\ buckets'[i] = old[at]
         /\ \A j \in Offset : j # i => buckets'[j] = buckets[j]
         /\ Len(order') = Len(order) + 1 /\ order'[Len(order) + 1] = i
         /\ \A p \in 1 .. Len(order) : order'[p] = order[p]
         /\ FirstFree(old[at].key, i)
  BY CopyFacts
<1>3. Place' = (Place \ {a}) \cup {n}
  BY <1>1, <1>2 DEF Place
<1>4. a \in Place /\ Entry(a) = old[a] /\ (n \in Place => n = a)
  BY <1>1 DEF Place, Entry
<1>5. Entry(n)' = Entry(a)
  <2>1. n <= Len(order') /\ buckets'[order'[n]] = old[a]
    BY <1>1, <1>2
  <2> QED
    BY <1>4, <2>1 DEF Entry
<1>6. ASSUME NEW p \in Place', p # n
      PROVE  p \in Place /\ Entry(p)' = Entry(p)
  <2>1. p \in Place /\ p # a /\ p \in Nat
    BY <1>1, <1>3, <1>4, <1>6 DEF Place
  <2>2. CASE p <= Len(order)
    <3>1. p \in 1 .. Len(order) /\ p <= Len(order')
      BY <1>1, <1>2, <2>1, <2>2 DEF Place
    <3>2. order[p] \in Offset /\ order[p] # i
      BY <1>1, <1>2, <3>1, TypeFacts, FreePath DEF Copied
    <3> QED
      BY <1>2, <2>1, <2>2, <3>1, <3>2 DEF Entry
  <2>3. CASE ~ (p <= Len(order))
    <3>1. ~ (p <= Len(order'))
      BY <1>1, <1>2, <1>6, <2>1, <2>3
    <3> QED
      BY <1>1, <2>1, <2>3, <3>1 DEF Entry
  <2> QED
    BY <2>2, <2>3
<1> QED
  BY <1>1, <1>3, <1>4, <1>5, <1>6

LEMMA SkipPlaces ==
    ASSUME HashmapTypeOK, SkipTombstone, NEW a \in Nat, a = at
    PROVE  /\ Place' = Place \ {a}
           /\ a \in Place /\ Entry(a).key = NULL
           /\ \A p \in Place' : p \in Place /\ Entry(p)' = Entry(p)
<1>1. /\ at <= Len(old) /\ at' = at + 1 /\ Len(order) < at /\ old' = old
      /\ at \in Nat /\ Len(old) \in Nat /\ Len(order) \in Nat
      /\ order' = order /\ buckets' = buckets /\ old[at].key = NULL
  BY SkipFacts, TypeFacts
<1> QED
  BY <1>1 DEF Place, Entry

\* The keys of the places that stay do not change when a value is written or a key
\* is removed.
LEMMA SamePlaces ==
    ASSUME HashmapTypeOK, NEW i \in Offset, NEW k \in Key,
           \/ \E v \in Nat : Overwrites(i, k, v)
           \/ Buries(i, k)
    PROVE  /\ Place = 1 .. Len(order) /\ Place' = Place
           /\ \A p \in Place : Entry(p) = buckets[order[p]] /\ Entry(p)' = buckets'[order[p]]
           /\ \A p \in Place : order[p] \in Offset
<1>1. pending = NoCall \/ at > Len(old)
  BY DEF Overwrites, Buries, Complete
<1>2. order' = order /\ old' = << >> /\ at' = 1 /\ Len(order) \in Nat
  BY OverwritesFacts, BuriesFacts, TypeFacts
<1> QED
  BY <1>1, <1>2, SettledPlaces, SettledPlacesAfter, TypeFacts

\* One entry per key survives each step.
LEMMA UniqueStep ==
    ASSUME Inv, Next
    PROVE  OneEntryPerKey'
<1>1. /\ HashmapTypeOK /\ OnPath /\ Copied /\ Filled
      /\ \A p, q \in Place : Entry(p).key = Entry(q).key /\ Entry(p).key # NULL => p = q
  BY ReachableParts DEF Inv, OneEntryPerKey
\* Places may disappear, entries may lose their key.
<1>2. ASSUME Place' \subseteq Place,
             \A p \in Place' : Entry(p)'.key = Entry(p).key \/ Entry(p)'.key = NULL
      PROVE  OneEntryPerKey'
  BY <1>1, <1>2 DEF OneEntryPerKey
<1>3. ASSUME NEW i \in Offset, NEW k \in Key, NEW v \in Nat, Links(i, k, v)
      PROVE  OneEntryPerKey'
  <2>1. pending = NoCall \/ at > Len(old)
    BY <1>3 DEF Links, Complete
  <2>2. /\ Place = 1 .. Len(order)
        /\ \A p \in 1 .. Len(order) : Entry(p) = buckets[order[p]] /\ order[p] \in Offset
    BY <1>1, <2>1, SettledPlaces, TypeFacts
  <2>3. \A j \in Offset : buckets[j].key # k
    BY <1>1, <1>3, Absent DEF Links
  <2>4. PICK n \in Nat : n = Len(order) + 1
    BY <1>1, TypeFacts
  <2>5. /\ Len(order') = n /\ order'[n] = i /\ buckets'[i].key = k
        /\ \A p \in 1 .. Len(order) : order'[p] = order[p] /\ order[p] # i
        /\ \A j \in Offset : j # i => buckets'[j] = buckets[j]
        /\ old' = << >> /\ at' = 1 /\ Len(order) \in Nat
    BY <1>1, <1>3, <2>4, LinksFacts, TypeFacts DEF Filled
  <2>6. /\ Place' = 1 .. n
        /\ \A p \in 1 .. n : Entry(p)' = buckets'[order'[p]]
    BY <2>4, <2>5, SettledPlacesAfter
  <2>7. Entry(n)'.key = k
    BY <2>4, <2>5, <2>6
  <2>8. \A p \in 1 .. Len(order) : Entry(p)' = Entry(p) /\ Entry(p)'.key # k
    BY <2>2, <2>3, <2>4, <2>5, <2>6
  <2>9. \A p \in 1 .. n : p = n \/ p \in 1 .. Len(order)
    BY <2>4, <2>5
  <2> QED
    BY <1>1, <2>2, <2>6, <2>7, <2>8, <2>9 DEF OneEntryPerKey
<1>4. ASSUME NEW i \in Offset, NEW k \in Key, NEW v \in Nat, Overwrites(i, k, v)
      PROVE  OneEntryPerKey'
  <2>1. /\ Place' = Place
        /\ \A p \in Place : Entry(p) = buckets[order[p]] /\ Entry(p)' = buckets'[order[p]]
        /\ \A p \in Place : order[p] \in Offset
    BY <1>1, <1>4, SamePlaces
  <2>2. \A j \in Offset : buckets'[j].key = buckets[j].key
    BY <1>1, <1>4, OverwritesFacts
  <2> QED
    BY <1>2, <2>1, <2>2
<1>5. ASSUME NEW i \in Offset, NEW k \in Key, Buries(i, k)
      PROVE  OneEntryPerKey'
  <2>1. /\ Place' = Place
        /\ \A p \in Place : Entry(p) = buckets[order[p]] /\ Entry(p)' = buckets'[order[p]]
        /\ \A p \in Place : order[p] \in Offset
    BY <1>1, <1>5, SamePlaces
  <2>2. \A j \in Offset : buckets'[j].key = buckets[j].key \/ buckets'[j].key = NULL
    BY <1>1, <1>5, BuriesFacts
  <2> QED
    BY <1>2, <2>1, <2>2
<1>6. ASSUME NEW call \in StoreCall, Begins(call)
      PROVE  OneEntryPerKey'
  BY <1>1, <1>2, <1>6, BeginsPlaces
<1>7. ASSUME resize_entry
      PROVE  OneEntryPerKey'
  <2>1. PICK n \in Nat, a \in Nat : n = Len(order) + 1 /\ a = at
    BY <1>1, TypeFacts
  <2>2. /\ Place' = (Place \ {a}) \cup {n} /\ a \in Place
        /\ n \in Place => n = a
        /\ Entry(n)' = Entry(a)
        /\ \A p \in Place' : p # n => p \in Place /\ Entry(p)' = Entry(p)
    BY <1>1, <1>7, <2>1, CopyPlaces
  <2> QED
    BY <1>1, <2>2 DEF OneEntryPerKey
<1>8. ASSUME SkipTombstone
      PROVE  OneEntryPerKey'
  <2>1. PICK a \in Nat : a = at
    BY <1>1, TypeFacts
  <2> QED
    BY <1>1, <1>2, <1>8, <2>1, SkipPlaces
<1>9. ASSUME Keeps
      PROVE  OneEntryPerKey'
  <2>1. /\ pending = NoCall \/ at > Len(old)
        /\ order' = order /\ buckets' = buckets /\ old' = << >> /\ at' = 1
        /\ Len(order) \in Nat
    BY <1>1, <1>9, KeepsFacts, TypeFacts DEF Keeps, Complete
  <2> QED
    BY <1>1, <1>2, <2>1, SettledPlaces, SettledPlacesAfter
<1>10. ASSUME hashmap_free
       PROVE  OneEntryPerKey'
  <2>1. Place' = {}
    BY <1>1, <1>10, FreeFacts, SettledPlacesAfter
  <2> QED
    BY <2>1 DEF OneEntryPerKey
<1> QED
  BY <1>1, <1>3, <1>4, <1>5, <1>6, <1>7, <1>8, <1>9, <1>10, StepCases

\* Outside a resize, and at its end, the list holds what is counted.
LEMMA SettledCount ==
    ASSUME Inv, pending = NoCall \/ at > Len(old)
    PROVE  count = Len(order)
<1>1. HashmapTypeOK /\ CountsAgree /\ Copied
  BY DEF Inv
<1>2. CASE pending # NoCall
  <2>1. Live = 1 .. Len(order)
    BY <1>1, <1>2, SettledPlaces DEF Live, Copied
  <2>2. Cardinality(1 .. Len(order)) = Len(order)
    <3>1. Len(order) \in Int /\ Len(order) >= 0 /\ 1 \in Int
      BY <1>1, TypeFacts
    <3>2. Cardinality(1 .. Len(order)) = IF 1 > Len(order) THEN 0 ELSE Len(order) - 1 + 1
      BY <3>1, FS_Interval
    <3> QED
      BY <3>1, <3>2
  <2> QED
    BY <1>1, <1>2, <2>1, <2>2, CountParts
<1> QED
  BY <1>1, <1>2, CountParts

\* There are no tombstones in a new table.
LEMMA NoTombs ==
    ASSUME Copied, pending # NoCall
    PROVE  Tombs = {}
  BY DEF Copied, Tombs

\* The counts agree after a step that ends a call, or happens inside a resize.
LEMMA SettledCounts ==
    ASSUME tombstone_count' = Cardinality(Tombs'), pending' = NoCall,
           count' = Len(order')
    PROVE  CountsAgree'
  BY DEF CountsAgree, Tombs

LEMMA ResizingCounts ==
    ASSUME tombstone_count' = Cardinality(Tombs'), pending' # NoCall,
           count' = Cardinality(Live')
    PROVE  CountsAgree'
  BY DEF CountsAgree, Tombs, Live

LEMMA CountStep ==
    ASSUME Inv, Next
    PROVE  CountsAgree'
<1>1. /\ HashmapTypeOK /\ Copied /\ Filled /\ Listed /\ Once /\ CountsAgree
      /\ tombstone_count = Cardinality(Tombs)
  BY ReachableParts, CountParts DEF Inv
<1>2. IsFiniteSet(Tombs) /\ IsFiniteSet(Live) /\ IsFiniteSet(Place)
  BY <1>1, CountsFinite
<1>3. ASSUME NEW i \in Offset, NEW k \in Key, NEW v \in Nat, Links(i, k, v)
      PROVE  CountsAgree'
  <2>1. count = Len(order)
    BY <1>3, SettledCount DEF Links, Complete
  <2>2. PICK n \in Nat : n = Len(order) /\ \A p \in 1 .. n + 1 : p \in 1 .. n \/ p = n + 1
    BY <1>1, TypeFacts
  <2>3. /\ Len(order') = n + 1 /\ order'[n + 1] = i /\ buckets'[i].key # NULL
        /\ \A p \in 1 .. n : order'[p] = order[p] /\ order[p] # i /\ order[p] \in Offset
        /\ \A j \in Offset : j # i => buckets'[j] = buckets[j]
        /\ 1 .. n \subseteq 1 .. n + 1
    BY <1>1, <1>3, <2>2, LinksFacts, TypeFacts, CallFields DEF Filled
  <2>4. Tombs' = Tombs
    BY <2>2, <2>3 DEF Tombs
  <2> QED
    BY <1>1, <1>3, <2>1, <2>4, LinksFacts, SettledCounts
<1>4. ASSUME NEW i \in Offset, NEW k \in Key, NEW v \in Nat, Overwrites(i, k, v)
      PROVE  CountsAgree'
  <2>1. count = Len(order)
    BY <1>4, SettledCount DEF Overwrites, Complete
  <2>2. \A p \in 1 .. Len(order) : buckets'[order[p]].key = buckets[order[p]].key
    BY <1>1, <1>4, OverwritesFacts, TypeFacts
  <2>3. Tombs' = Tombs
    BY <1>1, <1>4, <2>2, OverwritesFacts DEF Tombs
  <2> QED
    BY <1>1, <1>4, <2>1, <2>3, OverwritesFacts, SettledCounts
<1>5. ASSUME Keeps
      PROVE  CountsAgree'
  <2>1. count = Len(order)
    BY <1>5, SettledCount DEF Keeps, Complete
  <2>2. Tombs' = Tombs
    BY <1>1, <1>5, KeepsFacts DEF Tombs
  <2> QED
    BY <1>1, <1>5, <2>1, <2>2, KeepsFacts, SettledCounts
<1>6. ASSUME NEW i \in Offset, NEW k \in Key, Buries(i, k)
      PROVE  CountsAgree'
  <2>1. ~ IsEmpty(i) /\ buckets[i].key # NULL
    BY <1>1, <1>6, BuriesFacts, CallFields, BucketFields DEF IsEmpty
  <2>2. PICK q \in 1 .. Len(order) : order[q] = i
    BY <1>1, <2>1 DEF Listed
  <2>3. \A p \in 1 .. Len(order) : p # q => order[p] # i /\ order[p] \in Offset
    BY <1>1, <2>2, TypeFacts DEF Once
  <2>4. Tombs' = Tombs \cup {q}
    BY <1>1, <1>6, <2>2, <2>3, BuriesFacts DEF Tombs
  <2>5. q \notin Tombs
    BY <2>1, <2>2 DEF Tombs
  <2>6. Cardinality(Tombs') = Cardinality(Tombs) + 1
    BY <1>2, <2>4, <2>5, FS_AddElement
  <2>7. count = Len(order)
    BY <1>6, SettledCount DEF Buries
  <2> QED
    BY <1>1, <1>6, <2>6, <2>7, BuriesFacts, SettledCounts
<1>7. ASSUME NEW call \in StoreCall, Begins(call)
      PROVE  CountsAgree'
  <2>1. /\ Place = 1 .. Len(order) /\ Place' = Place
        /\ \A p \in Place : Entry(p)' = Entry(p)
    BY <1>1, <1>7, BeginsPlaces
  <2>2. \A p \in Place : Entry(p) = buckets[order[p]]
    BY <1>1, <1>7, <2>1, BeginsFacts, SettledPlaces
  <2>3. Live' = Place \ Tombs
    BY <2>1, <2>2 DEF Live, Tombs
  <2>4. Cardinality(Live') = Cardinality(Place) - Cardinality(Tombs)
    <3>1. Place \cap Tombs = Tombs
      BY <2>1 DEF Tombs
    <3>2. Cardinality(Place \ Tombs) = Cardinality(Place) - Cardinality(Place \cap Tombs)
      BY <1>2, FS_Difference
    <3> QED
      BY <2>3, <3>1, <3>2
  <2>5. Cardinality(Place) = Len(order)
    <3>1. Len(order) \in Int /\ Len(order) >= 0 /\ 1 \in Int
      BY <1>1, TypeFacts
    <3>2. Cardinality(1 .. Len(order)) = IF 1 > Len(order) THEN 0 ELSE Len(order) - 1 + 1
      BY <3>1, FS_Interval
    <3> QED
      BY <2>1, <3>1, <3>2
  <2>6. count = Len(order)
    BY <1>7, SettledCount DEF Begins
  <2>7. Tombs' = {}
    BY <1>1, <1>7, BeginsFacts DEF Tombs
  <2> QED
    BY <1>1, <1>7, <2>4, <2>5, <2>6, <2>7, BeginsFacts, FS_EmptySet, ResizingCounts
<1>8. ASSUME resize_entry
      PROVE  CountsAgree'
  <2>1. /\ pending # NoCall /\ pending' = pending /\ count' = count
        /\ tombstone_count' = tombstone_count
        /\ count = Cardinality(Live)
    BY <1>1, <1>8, CopyFacts, CountParts
  <2>2. Copied'
    BY <1>8, ListStep DEF Next
  <2>3. Tombs = {} /\ Tombs' = {}
    BY <1>1, <2>1, <2>2 DEF Copied, Tombs
  <2>4. PICK n \in Nat, a \in Nat : n = Len(order) + 1 /\ a = at
    BY <1>1, TypeFacts
  <2>5. /\ Place' = (Place \ {a}) \cup {n} /\ a \in Place /\ Entry(a).key # NULL
        /\ n \in Place => n = a
        /\ Entry(n)' = Entry(a)
        /\ \A p \in Place' : p # n => p \in Place /\ Entry(p)' = Entry(p)
    BY <1>1, <1>8, <2>4, CopyPlaces
  <2>6. Live' = (Live \ {a}) \cup {n}
    BY <2>5 DEF Live
  <2>7. a \in Live /\ n \notin Live \ {a}
    BY <2>5 DEF Live
  <2>8. IsFiniteSet(Live \ {a}) /\ Cardinality(Live \ {a}) = Cardinality(Live) - 1
    BY <1>2, <2>7, FS_RemoveElement
  <2>9. Cardinality(Live') = Cardinality(Live \ {a}) + 1
    BY <2>6, <2>7, <2>8, FS_AddElement
  <2>10. Cardinality(Live') = Cardinality(Live)
    <3>1. Cardinality(Live) \in Int
      BY <1>1, CountsFinite
    <3> QED
      BY <2>8, <2>9, <3>1
  <2> QED
    BY <1>1, <2>1, <2>3, <2>10, ResizingCounts
<1>9. ASSUME SkipTombstone
      PROVE  CountsAgree'
  <2>1. /\ pending # NoCall /\ pending' = pending /\ count' = count
        /\ tombstone_count' = tombstone_count
        /\ count = Cardinality(Live)
    BY <1>1, <1>9, SkipFacts, CountParts
  <2>2. PICK a \in Nat : a = at
    BY <1>1, TypeFacts
  <2>3. /\ Place' = Place \ {a} /\ a \in Place /\ Entry(a).key = NULL
        /\ \A p \in Place' : p \in Place /\ Entry(p)' = Entry(p)
    BY <1>1, <1>9, <2>2, SkipPlaces
  <2>4. Live' = Live
    BY <2>3 DEF Live
  <2>5. Tombs' = Tombs
    BY <1>1, <1>9, SkipFacts DEF Tombs
  <2> QED
    BY <1>1, <2>1, <2>4, <2>5, ResizingCounts
<1>10. ASSUME hashmap_free
       PROVE  CountsAgree'
  <2>1. Tombs' = {} /\ Len(order') = 0
    BY <1>1, <1>10, FreeFacts DEF Tombs
  <2> QED
    BY <1>1, <1>10, <2>1, FreeFacts, FS_EmptySet, SettledCounts
<1> QED
  BY <1>1, <1>3, <1>4, <1>5, <1>6, <1>7, <1>8, <1>9, <1>10, StepCases

----------------------------------------------------------------------------
(* The theorems. *)

LEMMA InitInv == hashmap_create => Inv
<1> SUFFICES ASSUME hashmap_create
             PROVE  Inv
  OBVIOUS
<1>1. /\ capacity = HASHMAP_DEFAULT_CAPACITY /\ capacity \in Nat /\ capacity >= 2
      /\ buckets = [i \in Offset |-> EmptyBucket] /\ count = 0 /\ tombstone_count = 0
      /\ order = << >> /\ old = << >> /\ at = 1 /\ pending = NoCall /\ ret = Nothing
  BY HashmapAssumption DEF hashmap_create, Offset
<1>2. Shape
  BY <1>1, BucketFields, HashmapAssumption DEF Shape
<1>3. HashmapTypeOK
  BY <1>1, <1>2, ShapeParts, ReturnTypes
<1>4. Filled /\ Copied /\ OnPath /\ Listed /\ Once
  BY <1>1, BucketFields DEF Filled, Copied, OnPath, Listed, Once, IsEmpty
<1>5. HasRoom
  BY <1>1 DEF HasRoom
<1>6. Place = {} /\ Tombs = {}
  BY <1>1 DEF Place, Tombs
<1>7. OneEntryPerKey
  BY <1>6 DEF OneEntryPerKey
<1>8. CountsAgree
  BY <1>1, <1>6, CountParts, FS_EmptySet
<1> QED
  BY <1>3, <1>4, <1>5, <1>7, <1>8, ReachableParts DEF Inv

LEMMA StutterInv == ASSUME Inv, UNCHANGED vars PROVE Inv'
<1>1. /\ capacity' = capacity /\ buckets' = buckets /\ count' = count
      /\ tombstone_count' = tombstone_count /\ order' = order /\ old' = old /\ at' = at
      /\ pending' = pending /\ ret' = ret
  BY DEF vars
<1> QED
  BY <1>1 DEF Inv, HashmapTypeOK, Filled, Copied, HasRoom, Reachable, OneEntryPerKey,
     CountsAgree, Offset, IsEmpty, Probe, hash_data, Place, Entry

\* The inductive invariant holds: types, filled and copied entries, room for the next
\* key, and every entry found from the bucket its hash names (deprecated/map.c).
THEOREM Invariance == HashmapSpec => []Inv
<1>1. Inv /\ Next => Inv'
  <2> SUFFICES ASSUME Inv, Next
               PROVE  Inv'
    OBVIOUS
  <2>1. OnPath' /\ Listed' /\ Once' => Reachable'
    BY DEF Reachable, OnPath, Path, Listed, Once
  <2> QED
    BY <2>1, TypeStep, RoomStep, OnPathStep, ListStep, UniqueStep, CountStep DEF Inv
<1>2. Inv /\ UNCHANGED vars => Inv'
  BY StutterInv
<1> QED
  BY <1>1, <1>2, InitInv, PTL DEF HashmapSpec

\* The types hold for every table; in particular the count of tombstones, which a
\* resize subtracts (map.c:102), never exceeds the count of filled buckets.
THEOREM HashmapTypes == HashmapSpec => []HashmapTypeOK
<1>1. Inv => HashmapTypeOK
  BY DEF Inv
<1> QED
  BY <1>1, Invariance, PTL

\* Every entry stays reachable from the home of its key, whatever is removed
\* around it and wherever a resize puts it.
THEOREM EntriesReachable == HashmapSpec => []Reachable
<1>1. Inv => Reachable
  BY DEF Inv
<1> QED
  BY <1>1, Invariance, PTL

\* No key ever has two entries, in the table or between the halves of a resize.
THEOREM KeysUnique == HashmapSpec => []OneEntryPerKey
<1>1. Inv => OneEntryPerKey
  BY DEF Inv
<1> QED
  BY <1>1, Invariance, PTL

\* hashmap_size is the number of entries.
THEOREM CountsRight == HashmapSpec => []CountsAgree
<1>1. Inv => CountsAgree
  BY DEF Inv
<1> QED
  BY <1>1, Invariance, PTL

\* The loops of find_entry and resize_entry always meet an empty bucket: the list
\* is shorter than the table and holds every bucket that is not empty.
THEOREM LoopsEnd == HashmapSpec => []EmptyBucketLeft
<1>1. ASSUME Inv
      PROVE  EmptyBucketLeft
  <2>1. SUFFICES ASSUME \A i \in Offset : ~ IsEmpty(i)
                 PROVE  FALSE
    BY DEF EmptyBucketLeft
  <2>2. HashmapTypeOK /\ Listed /\ Copied /\ CountsAgree /\ 4 * count <= 3 * capacity
    BY <1>1, ReachableParts DEF Inv, HasRoom
  <2>3. /\ Len(order) \in Int /\ Len(order) >= 0 /\ capacity \in Int /\ capacity >= 2
        /\ capacity - 1 \in Int /\ 1 \in Int /\ 0 \in Int /\ count \in Int
    BY <2>2, TypeFacts
  <2>4. IsFiniteSet(1 .. Len(order)) /\ Cardinality(1 .. Len(order)) = Len(order)
    <3>1. /\ IsFiniteSet(1 .. Len(order))
          /\ Cardinality(1 .. Len(order)) =
                IF 1 > Len(order) THEN 0 ELSE Len(order) - 1 + 1
      BY <2>3, FS_Interval
    <3> QED
      BY <2>3, <3>1
  <2>5. Cardinality(Offset) = capacity
    <3>1. Cardinality(0 .. capacity - 1) =
             IF 0 > capacity - 1 THEN 0 ELSE capacity - 1 - 0 + 1
      BY <2>3, FS_Interval
    <3> QED
      BY <2>3, <3>1 DEF Offset
  <2>6. Cardinality(Offset) <= Len(order)
    <3> DEFINE f == [p \in 1 .. Len(order) |-> order[p]]
    <3>1. f \in [1 .. Len(order) -> Offset]
      BY <2>2, TypeFacts
    <3>2. \A i \in Offset : \E p \in 1 .. Len(order) : f[p] = i
      BY <2>1, <2>2 DEF Listed
    <3>3. f \in Surjection(1 .. Len(order), Offset)
      BY <3>1, <3>2 DEF Surjection
    <3> HIDE DEF f
    <3> QED
      BY <2>4, <3>3, FS_Surjection
  <2>7. Len(order) <= count
    <3>1. CASE pending = NoCall
      BY <1>1, <2>3, <3>1, SettledCount
    <3>2. CASE pending # NoCall
      <4>1. 1 .. Len(order) \in SUBSET Live
        BY <2>2, <2>3, <3>2 DEF Copied, Live, Place, Entry
      <4>2. IsFiniteSet(Live)
        BY <2>2, CountsFinite
      <4>3. Cardinality(1 .. Len(order)) <= Cardinality(Live)
        BY <4>1, <4>2, FS_Subset
      <4> QED
        BY <2>2, <2>4, <3>2, <4>3, CountParts
    <3> QED
      BY <3>1, <3>2
  <2> QED
    BY <2>2, <2>3, <2>5, <2>6, <2>7
<1> QED
  BY <1>1, Invariance, PTL

\* hashmap_resize is never called with an empty list, on which its first access
\* would fail: an empty map is not loaded.
THEOREM NoEmptyResize == HashmapSpec => EmptyMapIsNotResized
<1> DEFINE Step == capacity' > capacity => order # << >>
<1>1. ASSUME Inv, Next
      PROVE  Step
  <2>1. HashmapTypeOK /\ capacity \in Nat /\ capacity >= 2
    BY <1>1, TypeFacts DEF Inv
  <2>2. ASSUME NEW call \in StoreCall, Begins(call)
        PROVE  order # << >>
    <3>1. count = Len(order) /\ 4 * (count + 1) > 3 * capacity
      BY <1>1, <2>2, SettledCount DEF Begins, Loaded
    <3> QED
      BY <2>1, <3>1
  <2>3. ASSUME hashmap_free
        PROVE  capacity' <= capacity
    BY <2>1, <2>3, FreeFacts, HashmapAssumption DEF HashmapTypeOK
  <2>4. ~ (capacity > capacity)
    BY <2>1
  <2>5. ASSUME hashmap_free
        PROVE  Step
    <3>1. capacity' \in Nat
      BY <2>1, <2>5, FreeFacts
    <3> QED
      BY <2>1, <2>3, <2>5, <3>1
  <2> QED
    BY <1>1, <2>1, <2>2, <2>4, <2>5, StepCases, LinksFacts, OverwritesFacts, KeepsFacts,
       BuriesFacts, CopyFacts, SkipFacts
<1>2. Inv /\ [Next]_vars => [Step]_vars
  BY <1>1
<1> HIDE DEF Step
<1>3. HashmapSpec => [][Step]_vars
  BY <1>2, Invariance, PTL DEF HashmapSpec
<1> QED
  BY <1>3 DEF EmptyMapIsNotResized, Step

----------------------------------------------------------------------------
(* The hash table implements the ordered map of map.h: every function      *)
(* that returns is a step of the abstract map, and beginning a resize,     *)
(* copying an old entry and dropping a tombstone are stutters.             *)

(* The entries of the abstract map. *)

LEMMA PlaceFacts ==
    ASSUME HashmapTypeOK
    PROVE  /\ Place \subseteq Nat
           /\ \A p \in Place : Entry(p).key \in Key \cup {NULL} /\ Entry(p).value \in Nat
<1>1. ASSUME NEW p \in Place
      PROVE  p \in Nat /\ Entry(p) \in Bucket
  <2>1. p \in Nat /\ (p \in 1 .. Len(order) \/ (p \in 1 .. Len(old) /\ ~ (p <= Len(order))))
    BY TypeFacts DEF Place
  <2>2. CASE p \in 1 .. Len(order)
    BY <2>1, <2>2, TypeFacts DEF Entry
  <2>3. CASE p \in 1 .. Len(old) /\ ~ (p <= Len(order))
    BY <2>1, <2>3, TypeFacts DEF Entry
  <2> QED
    BY <2>1, <2>2, <2>3
<1> QED
  BY <1>1, BucketFields

LEMMA DictFunction ==
    /\ Dict = [k \in Key |-> Dict[k]]
    /\ Dict' = [k \in Key |-> Dict'[k]]
  BY DEF Dict

LEMMA DictValue ==
    ASSUME Inv, NEW k \in Key, NEW p \in Place, Entry(p).key = k
    PROVE  Dict[k] = Entry(p).value /\ Dict[k] # NULL /\ k \in Map!Present
<1>1. /\ k # NULL /\ Entry(p).value \in Nat
      /\ \A q, r \in Place : Entry(q).key = Entry(r).key /\ Entry(q).key # NULL => q = r
  BY CallFields, PlaceFacts DEF Inv, OneEntryPerKey
<1>2. p = CHOOSE q \in Place : Entry(q).key = k
  BY <1>1
<1>3. Dict[k] = Entry(p).value
  BY <1>2 DEF Dict
<1> QED
  BY <1>1, <1>3, HashmapAssumption DEF Map!Present

LEMMA DictNone ==
    ASSUME NEW k \in Key, \A p \in Place : Entry(p).key # k
    PROVE  Dict[k] = NULL /\ k \notin Map!Present
<1>1. Dict[k] = NULL
  BY DEF Dict
<1> QED
  BY <1>1 DEF Map!Present

LEMMA DictValueNext ==
    ASSUME OneEntryPerKey', NEW k \in Key, NEW p \in Place', Entry(p)'.key = k
    PROVE  Dict'[k] = Entry(p)'.value
<1>1. /\ k # NULL
      /\ \A q, r \in Place' : Entry(q)'.key = Entry(r)'.key /\ Entry(q)'.key # NULL => q = r
  BY CallFields DEF OneEntryPerKey
<1>2. p = CHOOSE q \in Place' : Entry(q)'.key = k
  BY <1>1
<1> QED
  BY <1>2 DEF Dict

LEMMA DictNoneNext ==
    ASSUME NEW k \in Key, \A p \in Place' : Entry(p)'.key # k
    PROVE  Dict'[k] = NULL
  BY DEF Dict

\* The entry of j comes before the entry of k.
Before(j, k) == \E p, q \in Place : p < q /\ Entry(p).key = j /\ Entry(q).key = k

LEMMA OlderPairs ==
    /\ Older \subseteq Key \X Key /\ Older' \subseteq Key \X Key
    /\ \A j, k \in Key : <<j, k>> \in Older <=> Before(j, k)
    /\ \A j, k \in Key : <<j, k>> \in Older' <=> Before(j, k)'
  BY DEF Older, Before

\* What the abstract map says is the same if the entries correspond to each other in
\* their order.
LEMMA SameEntries ==
    ASSUME Inv, Inv', NEW f,
           \A p \in Live : f[p] \in Place' /\ Entry(f[p])' = Entry(p),
           \A q \in Place' : Entry(q)'.key # NULL => \E p \in Live : f[p] = q,
           \A p, q \in Live : p < q => f[p] < f[q]
    PROVE  Dict' = Dict /\ Older' = Older
<1>1. OneEntryPerKey' /\ NULL \notin Key /\ Place \subseteq Nat /\ Place' \subseteq Nat
  <2>1. HashmapTypeOK /\ HashmapTypeOK' /\ OneEntryPerKey'
    BY DEF Inv
  <2>2. Place' \subseteq Nat
    <3>1. Len(order') \in Nat /\ Len(old') \in Nat /\ at' \in Nat /\ at' >= 1
      BY <2>1 DEF HashmapTypeOK
    <3> QED
      BY <3>1 DEF Place
  <2> QED
    BY <2>1, <2>2, PlaceFacts, CallFields
<1>2. ASSUME NEW k \in Key
      PROVE  Dict'[k] = Dict[k]
  <2>1. CASE \E p \in Place : Entry(p).key = k
    <3>1. PICK p \in Place : Entry(p).key = k
      BY <2>1
    <3>2. p \in Live
      BY <1>1, <3>1 DEF Live
    <3>3. PICK q \in Place' : q = f[p] /\ Entry(q)' = Entry(p)
      BY <3>2
    <3>4. Dict'[k] = Entry(q)'.value
      BY <1>1, <3>1, <3>3, DictValueNext
    <3> QED
      BY <3>1, <3>3, <3>4, DictValue
  <2>2. CASE \A p \in Place : Entry(p).key # k
    <3>1. \A q \in Place' : Entry(q)'.key # k
      BY <1>1, <2>2 DEF Live
    <3> QED
      BY <2>2, <3>1, DictNone, DictNoneNext
  <2> QED
    BY <2>1, <2>2
<1>3. ASSUME NEW j \in Key, NEW k \in Key
      PROVE  Before(j, k)' <=> Before(j, k)
  <2>1. ASSUME Before(j, k)
        PROVE  Before(j, k)'
    <3>1. PICK p, q \in Place : p < q /\ Entry(p).key = j /\ Entry(q).key = k
      BY <2>1 DEF Before
    <3>2. p \in Live /\ q \in Live
      BY <1>1, <3>1 DEF Live
    <3>3. /\ f[p] \in Place' /\ f[q] \in Place' /\ f[p] < f[q]
          /\ Entry(f[p])'.key = j /\ Entry(f[q])'.key = k
      BY <3>1, <3>2
    <3>4. \E a, b \in Place' : a < b /\ Entry(a)'.key = j /\ Entry(b)'.key = k
      BY <3>3
    <3> QED
      BY <3>4 DEF Before
  <2>2. ASSUME Before(j, k)'
        PROVE  Before(j, k)
    <3>1. PICK a, b \in Place' : a < b /\ Entry(a)'.key = j /\ Entry(b)'.key = k
      BY <2>2 DEF Before
    <3>2. PICK p, q \in Live : f[p] = a /\ f[q] = b
      BY <1>1, <3>1
    <3>3. p \in Place /\ q \in Place /\ p \in Nat /\ q \in Nat /\ a \in Nat /\ b \in Nat
      BY <1>1 DEF Live
    <3>4. p < q
      BY <3>1, <3>2, <3>3
    <3> QED
      BY <3>1, <3>2, <3>3, <3>4 DEF Before
  <2> QED
    BY <2>1, <2>2
<1>4. Dict' = Dict
  <2>1. [k \in Key |-> Dict'[k]] = [k \in Key |-> Dict[k]]
    BY <1>2
  <2> QED
    BY <2>1, DictFunction
<1>5. Older' = Older
  <2>1. \A j, k \in Key : <<j, k>> \in Older' <=> <<j, k>> \in Older
    BY <1>3, OlderPairs
  <2> QED
    BY <2>1, OlderPairs
<1> QED
  BY <1>4, <1>5

----------------------------------------------------------------------------
(* Stutters. *)

\* Nothing moves.
LEMMA SamePlaceEntries ==
    ASSUME Inv, Inv', Place' \subseteq Place,
           \A p \in Live : p \in Place',
           \A p \in Place' : Entry(p)' = Entry(p)
    PROVE  Dict' = Dict /\ Older' = Older
<1>0. PICK f : f = [p \in Live |-> p]
  OBVIOUS
<1>1. \A p \in Live : f[p] = p /\ p \in Place' /\ Entry(p)' = Entry(p)
  BY <1>0
<1>2. \A p \in Live : f[p] \in Place' /\ Entry(f[p])' = Entry(p)
  BY <1>1
<1>3. \A q \in Place' : Entry(q)'.key # NULL => q \in Live /\ f[q] = q
  BY <1>1 DEF Live
<1>4. \A p, q \in Live : p < q => f[p] < f[q]
  BY <1>1
<1> QED
  BY <1>2, <1>3, <1>4, SameEntries

LEMMA KeepsStutters ==
    ASSUME Inv, Inv', Keeps
    PROVE  Dict' = Dict /\ Older' = Older
<1>1. HashmapTypeOK /\ (pending = NoCall \/ at > Len(old))
  BY DEF Inv, Keeps, Complete
<1>2. /\ order' = order /\ buckets' = buckets /\ old' = << >> /\ at' = 1
      /\ Len(order) \in Nat
  BY <1>1, KeepsFacts, TypeFacts
<1>3. Place' = Place /\ \A p \in Place' : Entry(p)' = Entry(p)
  BY <1>1, <1>2, SettledPlaces, SettledPlacesAfter
<1> QED
  BY <1>3, SamePlaceEntries DEF Live

LEMMA BeginsStutters ==
    ASSUME Inv, Inv', NEW call \in StoreCall, Begins(call)
    PROVE  Dict' = Dict /\ Older' = Older
<1>1. Place' = Place /\ \A p \in Place' : Entry(p)' = Entry(p)
  BY BeginsPlaces DEF Inv
<1> QED
  BY <1>1, SamePlaceEntries DEF Live

LEMMA SkipStutters ==
    ASSUME Inv, Inv', SkipTombstone
    PROVE  Dict' = Dict /\ Older' = Older
<1>1. PICK a \in Nat : a = at
  BY TypeFacts DEF Inv
<1>2. /\ Place' = Place \ {a} /\ Entry(a).key = NULL
      /\ \A p \in Place' : p \in Place /\ Entry(p)' = Entry(p)
  BY <1>1, SkipPlaces DEF Inv
<1> QED
  BY <1>2, SamePlaceEntries DEF Live

\* The copy takes the place behind the entries that were copied before it.
LEMMA CopyStutters ==
    ASSUME Inv, Inv', resize_entry
    PROVE  Dict' = Dict /\ Older' = Older
<1>1. PICK n \in Nat, a \in Nat : n = Len(order) + 1 /\ a = at
  BY TypeFacts DEF Inv
<1>2. /\ Place' = (Place \ {a}) \cup {n} /\ a \in Place /\ Entry(a).key # NULL
      /\ n \in Place => n = a
      /\ Entry(n)' = Entry(a)
      /\ \A p \in Place' : p # n => p \in Place /\ Entry(p)' = Entry(p)
  BY <1>1, CopyPlaces DEF Inv
<1>3. \A p \in Place : p \in Nat /\ (p < a => p < n) /\ (a < p => n < p)
  <2>1. Len(order) < at /\ Len(order) \in Nat /\ at \in Nat /\ Len(old) \in Nat
    BY CopyFacts, TypeFacts DEF Inv
  <2> QED
    BY <1>1, <2>1 DEF Place
<1>0. PICK f : f = [p \in Live |-> IF p = a THEN n ELSE p]
  OBVIOUS
<1>4. \A p \in Live : p \in Place /\ f[p] = IF p = a THEN n ELSE p
  BY <1>0 DEF Live
<1>5. \A p \in Live : f[p] \in Place' /\ Entry(f[p])' = Entry(p)
  <2>1. ASSUME NEW p \in Live
        PROVE  f[p] \in Place' /\ Entry(f[p])' = Entry(p)
    <3>1. CASE p = a
      BY <1>2, <1>4, <3>1
    <3>2. CASE p # a
      <4>1. f[p] = p /\ p \in Place' /\ p # n
        BY <1>2, <1>4, <3>2
      <4> QED
        BY <1>2, <4>1
    <3> QED
      BY <3>1, <3>2
  <2> QED
    BY <2>1
<1>6. \A q \in Place' : Entry(q)'.key # NULL => \E p \in Live : f[p] = q
  <2>1. ASSUME NEW q \in Place', Entry(q)'.key # NULL
        PROVE  \E p \in Live : f[p] = q
    <3>1. a \in Live /\ f[a] = n
      <4>1. a \in Live
        BY <1>2 DEF Live
      <4> QED
        BY <1>4, <4>1
    <3>2. CASE q # n
      <4>1. q \in Live /\ q # a
        BY <1>2, <2>1, <3>2 DEF Live
      <4> QED
        BY <1>4, <4>1
    <3> QED
      BY <3>1, <3>2
  <2> QED
    BY <2>1
<1>7. \A p, q \in Live : p < q => f[p] < f[q]
  BY <1>1, <1>3, <1>4
<1> QED
  BY <1>5, <1>6, <1>7, SameEntries

----------------------------------------------------------------------------
(* What the functions do to the abstract map. *)

LEMMA PresentKeys ==
    ASSUME Inv, NEW k \in Key
    PROVE  k \in Map!Present <=> \E p \in Place : Entry(p).key = k
  BY DictValue, DictNone

LEMMA LinksPut ==
    ASSUME Inv, Inv', NEW i \in Offset, NEW k \in Key, NEW v \in Nat, Links(i, k, v)
    PROVE  k \notin Map!Present /\ Map!Put(k, v)
<1>1. /\ HashmapTypeOK /\ OnPath /\ Filled /\ OneEntryPerKey'
      /\ pending = NoCall \/ at > Len(old)
  BY ReachableParts DEF Inv, Links, Complete
<1>2. /\ Place = 1 .. Len(order)
      /\ \A p \in 1 .. Len(order) : Entry(p) = buckets[order[p]] /\ order[p] \in Offset
  BY <1>1, SettledPlaces, TypeFacts
<1>3. \A j \in Offset : buckets[j].key # k
  BY <1>1, Absent DEF Links
<1>4. PICK n \in Nat : n = Len(order) + 1
  BY <1>1, TypeFacts
<1>5. /\ Len(order') = n /\ order'[n] = i /\ buckets'[i].key = k /\ buckets'[i].value = v
      /\ \A p \in 1 .. Len(order) : order'[p] = order[p] /\ order[p] # i
      /\ \A j \in Offset : j # i => buckets'[j] = buckets[j]
      /\ old' = << >> /\ at' = 1 /\ Len(order) \in Nat
  BY <1>1, <1>4, LinksFacts, TypeFacts DEF Filled
<1>6. Place' = 1 .. n /\ \A p \in 1 .. n : Entry(p)' = buckets'[order'[p]]
  BY <1>4, <1>5, SettledPlacesAfter
<1>7. /\ Place' = Place \cup {n} /\ n \notin Place /\ Place \subseteq Nat
      /\ \A p \in Place : p < n
  BY <1>2, <1>4, <1>5, <1>6
<1>8. n \in Place' /\ Entry(n)'.key = k /\ Entry(n)'.value = v
  BY <1>4, <1>5, <1>6
<1>9. \A p \in Place : Entry(p)' = Entry(p) /\ Entry(p).key # k
  BY <1>2, <1>3, <1>4, <1>5, <1>6, <1>7
<1>10. k \notin Map!Present
  BY <1>9, PresentKeys
<1>11. Dict' = [Dict EXCEPT ![k] = v]
  <2>1. ASSUME NEW j \in Key
        PROVE  Dict'[j] = IF j = k THEN v ELSE Dict[j]
    <3>1. CASE j = k
      BY <1>1, <1>8, <3>1, DictValueNext
    <3>2. CASE j # k /\ \E p \in Place : Entry(p).key = j
      BY <1>1, <1>7, <1>9, <3>2, DictValue, DictValueNext
    <3>3. CASE j # k /\ \A p \in Place : Entry(p).key # j
      BY <1>7, <1>8, <1>9, <3>3, DictNone, DictNoneNext
    <3> QED
      BY <3>1, <3>2, <3>3
  <2>2. [j \in Key |-> Dict'[j]] = [[j \in Key |-> Dict[j]] EXCEPT ![k] = v]
    BY <2>1
  <2> QED
    BY <2>2, DictFunction
<1>12. Older' = Older \cup (Map!Present \X {k})
  <2>1. ASSUME NEW j \in Key, NEW m \in Key
        PROVE  Before(j, m)' <=> Before(j, m) \/ (j \in Map!Present /\ m = k)
    <3>1. Before(j, m)' <=> \E p, q \in Place' : p < q /\ Entry(p)'.key = j /\ Entry(q)'.key = m
      BY DEF Before
    <3>2. j \in Map!Present <=> \E p \in Place : Entry(p).key = j
      BY PresentKeys
    <3>3. ASSUME Before(j, m)'
          PROVE  Before(j, m) \/ (j \in Map!Present /\ m = k)
      <4>1. PICK p, q \in Place' : p < q /\ Entry(p)'.key = j /\ Entry(q)'.key = m
        BY <3>1, <3>3
      <4>2. p # n /\ p \in Place
        BY <1>4, <1>6, <1>7, <4>1
      <4>3. CASE q = n
        BY <1>8, <1>9, <3>2, <4>1, <4>2, <4>3
      <4>4. CASE q # n
        <5>1. q \in Place
          BY <1>7, <4>4
        <5> QED
          BY <1>9, <4>1, <4>2, <5>1 DEF Before
      <4> QED
        BY <4>3, <4>4
    <3>4. ASSUME Before(j, m)
          PROVE  Before(j, m)'
      BY <1>7, <1>9, <3>1, <3>4 DEF Before
    <3>5. ASSUME j \in Map!Present, m = k
          PROVE  Before(j, m)'
      BY <1>7, <1>8, <1>9, <3>1, <3>2, <3>5
    <3> QED
      BY <3>3, <3>4, <3>5
  <2>2. Map!Present \subseteq Key
    BY DEF Map!Present
  <2>3. \A j, m \in Key :
           <<j, m>> \in Older' <=> <<j, m>> \in Older \cup (Map!Present \X {k})
    BY <2>1, OlderPairs
  <2> QED
    BY <2>2, <2>3, OlderPairs
<1> QED
  BY <1>10, <1>11, <1>12 DEF Map!Put

LEMMA OverwritesPut ==
    ASSUME Inv, Inv', NEW i \in Offset, NEW k \in Key, NEW v \in Nat, Overwrites(i, k, v)
    PROVE  k \in Map!Present /\ Dict[k] = buckets[i].value /\ Map!Put(k, v)
<1>1. HashmapTypeOK /\ Listed /\ Once /\ OneEntryPerKey'
  BY ReachableParts DEF Inv
<1>2. /\ Place = 1 .. Len(order) /\ Place' = Place
      /\ \A p \in Place : Entry(p) = buckets[order[p]] /\ Entry(p)' = buckets'[order[p]]
      /\ \A p \in Place : order[p] \in Offset
  BY <1>1, SamePlaces
<1>3. /\ buckets[i].key = k /\ buckets'[i].key = k /\ buckets'[i].value = v
      /\ \A j \in Offset : j # i => buckets'[j] = buckets[j]
  BY <1>1, OverwritesFacts
<1>4. PICK q \in Place : order[q] = i
  BY <1>1, <1>2, <1>3, CallFields, BucketFields DEF Listed, IsEmpty
<1>5. \A p \in Place : p # q => order[p] # i
  BY <1>1, <1>2, <1>4 DEF Once
<1>6. /\ Entry(q).key = k /\ Entry(q)'.key = k /\ Entry(q)'.value = v
      /\ \A p \in Place : p # q => Entry(p)' = Entry(p)
  BY <1>2, <1>3, <1>4, <1>5
<1>7. k \in Map!Present /\ Dict[k] = buckets[i].value
  BY <1>2, <1>4, <1>6, DictValue
<1>8. Dict' = [Dict EXCEPT ![k] = v]
  <2>1. ASSUME NEW j \in Key
        PROVE  Dict'[j] = IF j = k THEN v ELSE Dict[j]
    <3>1. CASE j = k
      BY <1>1, <1>2, <1>6, <3>1, DictValueNext
    <3>2. CASE j # k /\ \E p \in Place : Entry(p).key = j
      <4>1. PICK p \in Place : Entry(p).key = j
        BY <3>2
      <4>2. p # q
        BY <1>6, <3>2, <4>1
      <4> QED
        BY <1>1, <1>2, <1>6, <3>2, <4>1, <4>2, DictValue, DictValueNext
    <3>3. CASE j # k /\ \A p \in Place : Entry(p).key # j
      <4>1. \A p \in Place' : Entry(p)'.key # j
        BY <1>2, <1>6, <3>3
      <4> QED
        BY <3>3, <4>1, DictNone, DictNoneNext
    <3> QED
      BY <3>1, <3>2, <3>3
  <2>2. [j \in Key |-> Dict'[j]] = [[j \in Key |-> Dict[j]] EXCEPT ![k] = v]
    BY <2>1
  <2> QED
    BY <2>2, DictFunction
<1>9. Older' = Older
  <2>1. \A p \in Place : Entry(p)'.key = Entry(p).key
    BY <1>6
  <2>2. \A j, m \in Key : Before(j, m)' <=> Before(j, m)
    BY <1>2, <2>1 DEF Before
  <2>3. \A j, m \in Key : <<j, m>> \in Older' <=> <<j, m>> \in Older
    BY <2>2, OlderPairs
  <2> QED
    BY <2>3, OlderPairs
<1> QED
  BY <1>7, <1>8, <1>9 DEF Map!Put

LEMMA BuriesDelete ==
    ASSUME Inv, Inv', NEW i \in Offset, NEW k \in Key, Buries(i, k)
    PROVE  k \in Map!Present /\ Dict[k] = buckets[i].value /\ Map!Delete(k)
<1>1. HashmapTypeOK /\ Listed /\ Once /\ OneEntryPerKey /\ OneEntryPerKey' /\ k # NULL
  BY ReachableParts, CallFields DEF Inv
<1>2. /\ Place = 1 .. Len(order) /\ Place' = Place
      /\ \A p \in Place : Entry(p) = buckets[order[p]] /\ Entry(p)' = buckets'[order[p]]
      /\ \A p \in Place : order[p] \in Offset
  BY <1>1, SamePlaces
<1>3. /\ buckets[i].key = k /\ buckets'[i].key = NULL
      /\ \A j \in Offset : j # i => buckets'[j] = buckets[j]
  BY <1>1, BuriesFacts
<1>4. PICK q \in Place : order[q] = i
  BY <1>1, <1>2, <1>3, BucketFields DEF Listed, IsEmpty
<1>5. \A p \in Place : p # q => order[p] # i
  BY <1>1, <1>2, <1>4 DEF Once
<1>6. /\ Entry(q).key = k /\ Entry(q)'.key = NULL
      /\ \A p \in Place : p # q => Entry(p)' = Entry(p)
  BY <1>2, <1>3, <1>4, <1>5
<1>7. \A p \in Place : p # q => Entry(p).key # k
  BY <1>1, <1>4, <1>6 DEF OneEntryPerKey
<1>8. k \in Map!Present /\ Dict[k] = buckets[i].value
  BY <1>2, <1>4, <1>6, DictValue
<1>9. Dict' = [Dict EXCEPT ![k] = NULL]
  <2>1. ASSUME NEW j \in Key
        PROVE  Dict'[j] = IF j = k THEN NULL ELSE Dict[j]
    <3>1. CASE j = k
      <4>1. \A p \in Place' : Entry(p)'.key # k
        BY <1>1, <1>2, <1>6, <1>7
      <4> QED
        BY <3>1, <4>1, DictNoneNext
    <3>2. CASE j # k /\ \E p \in Place : Entry(p).key = j
      <4>1. PICK p \in Place : Entry(p).key = j
        BY <3>2
      <4>2. p # q
        BY <1>6, <3>2, <4>1
      <4> QED
        BY <1>1, <1>2, <1>6, <3>2, <4>1, <4>2, DictValue, DictValueNext
    <3>3. CASE j # k /\ \A p \in Place : Entry(p).key # j
      <4>1. j # NULL
        BY CallFields
      <4>2. \A p \in Place' : Entry(p)'.key # j
        BY <1>2, <1>6, <3>3, <4>1
      <4> QED
        BY <3>3, <4>2, DictNone, DictNoneNext
    <3> QED
      BY <3>1, <3>2, <3>3
  <2>2. [j \in Key |-> Dict'[j]] = [[j \in Key |-> Dict[j]] EXCEPT ![k] = NULL]
    BY <2>1
  <2> QED
    BY <2>2, DictFunction
<1>10. Older' = {p \in Older : p[1] # k /\ p[2] # k}
  <2>1. ASSUME NEW j \in Key, NEW m \in Key
        PROVE  Before(j, m)' <=> Before(j, m) /\ j # k /\ m # k
    <3>1. \A p \in Place, x \in Key :
             Entry(p)'.key = x <=> (Entry(p).key = x /\ x # k)
      BY <1>1, <1>4, <1>6, <1>7, CallFields
    <3> QED
      BY <1>2, <3>1 DEF Before
  <2>2. \A j, m \in Key : <<j, m>> \in Older' <=> <<j, m>> \in Older /\ j # k /\ m # k
    BY <2>1, OlderPairs
  <2> QED
    BY <2>2, OlderPairs
<1> QED
  BY <1>8, <1>9, <1>10 DEF Map!Delete

----------------------------------------------------------------------------
(* The functions, as their callers see them. *)

LEMMA SameCardinality == \A S : Map!Cardinality(S) = Cardinality(S)
  BY DEF Map!Cardinality, Cardinality, Map!IsFiniteSet, IsFiniteSet

LEMMA SameReturns ==
    /\ Map!Nothing = Nothing
    /\ \A f, v : Map!Returned(f, v) = Returned(f, v)
    /\ \A entries : Map!CalledBack(entries) = CalledBack(entries)
    /\ \A entries, before : Map!CalledInTurn(entries, before) = CalledInTurn(entries, before)
  BY DEF Map!Nothing, Nothing, Map!Returned, Returned, Map!CalledBack, CalledBack,
         Map!CalledInTurn, CalledInTurn

\* A lookup finds the entry of the abstract map.
LEMMA LookUp ==
    ASSUME Inv, pending = NoCall \/ at > Len(old), NEW k \in Key, NEW i \in Offset,
           find_entry(k, i)
    PROVE  /\ buckets[i].key # NULL => k \in Map!Present /\ Dict[k] = buckets[i].value
           /\ buckets[i].key = NULL => k \notin Map!Present /\ buckets[i].value = 0
<1>1. HashmapTypeOK /\ OnPath /\ Listed
  BY ReachableParts DEF Inv
<1>2. /\ Place = 1 .. Len(order)
      /\ \A p \in 1 .. Len(order) : Entry(p) = buckets[order[p]] /\ order[p] \in Offset
  BY <1>1, SettledPlaces, TypeFacts
<1>3. CASE buckets[i].key # NULL
  <2>1. buckets[i].key = k /\ ~ IsEmpty(i)
    BY <1>1, <1>3, FoundFacts, BucketFields DEF IsEmpty
  <2>2. PICK p \in 1 .. Len(order) : order[p] = i
    BY <1>1, <2>1 DEF Listed
  <2> QED
    BY <1>2, <1>3, <2>1, <2>2, DictValue
<1>4. CASE buckets[i].key = NULL
  <2>1. IsEmpty(i) /\ \A j \in Offset : buckets[j].key # k
    BY <1>1, <1>4, Absent, FoundFacts
  <2>2. \A p \in Place : Entry(p).key # k
    BY <1>2, <2>1
  <2> QED
    BY <1>4, <2>1, <2>2, DictNone DEF IsEmpty, EmptyBucket
<1> QED
  BY <1>3, <1>4

LEMMA BodyImplements ==
    ASSUME Inv, Inv', NEW call \in StoreCall, Body(call), Complete,
           pending = NoCall => ~ Loaded
    PROVE  Map!Next
<1>1. PICK k \in Key, v \in Value : k = call.key /\ v = call.value
  BY DEF StoreCall
<1>2. v \in Nat /\ (pending = NoCall \/ at > Len(old))
  BY HashmapAssumption DEF Complete
<1>3. PICK i \in Offset :
        /\ find_entry(k, i)
        /\ \/ call.op = "set" /\ SetBody(k, v, i)
           \/ call.op = "get_set" /\ GetSetBody(k, v, i)
           \/ call.op = "set_free" /\ SetFreeBody(k, v, i)
  BY <1>1 DEF Body
<1>4. ASSUME buckets[i].key = NULL, LinkEntry(i, k, v)
      PROVE  k \notin Map!Present /\ Map!Put(k, v)
  <2>1. Links(i, k, v)
    BY <1>3, <1>4 DEF Links
  <2> QED
    BY <1>2, <2>1, LinksPut
<1>5. ASSUME buckets[i].key # NULL, OverwriteEntry(i, v)
      PROVE  k \in Map!Present /\ Dict[k] = buckets[i].value /\ Map!Put(k, v)
  <2>1. Overwrites(i, k, v)
    BY <1>3, <1>5 DEF Overwrites
  <2> QED
    BY <1>2, <2>1, OverwritesPut
<1>6. CASE SetBody(k, v, i)
  <2>1. Map!Set(k, v)
    BY <1>4, <1>5, <1>6, SameReturns DEF SetBody, Map!Set
  <2> QED
    BY <2>1 DEF Map!Next
<1>7. CASE GetSetBody(k, v, i)
  <2>1. CASE /\ buckets[i].key = NULL
             /\ LinkEntry(i, k, v)
             /\ ret' = Returned(FALSE, v)
    <3>1. Map!GetSet(k, v)
      BY <1>4, <2>1, SameReturns, Zenon DEF Map!GetSet
    <3> QED
      BY <3>1 DEF Map!Next
  <2>2. CASE /\ buckets[i].key # NULL
             /\ ret' = Returned(TRUE, buckets[i].value)
             /\ UNCHANGED <<buckets, order, count>>
    <3>1. k \in Map!Present /\ Dict[k] = buckets[i].value
      BY <1>2, <1>3, <2>2, LookUp
    <3>2. Dict' = Dict /\ Older' = Older
      BY <2>2, KeepsStutters DEF Keeps
    <3>3. Map!GetSet(k, v)
      BY <2>2, <3>1, <3>2, SameReturns, Zenon DEF Map!GetSet
    <3> QED
      BY <3>3 DEF Map!Next
  <2> QED
    BY <1>7, <2>1, <2>2 DEF GetSetBody
<1>8. CASE SetFreeBody(k, v, i)
  <2>1. CASE /\ buckets[i].key = NULL
             /\ LinkEntry(i, k, v)
             /\ ret' = Nothing
    <3>1. Map!EntryOf(k) = {}
      BY <1>4, <2>1 DEF Map!EntryOf, Map!Given
    <3>2. ret' = Map!CalledBack(Map!EntryOf(k))
      BY <2>1, <3>1, SameReturns DEF Nothing
    <3> QED
      BY <1>4, <2>1, <3>2 DEF Map!SetFree, Map!Next
  <2>2. CASE /\ buckets[i].key # NULL
             /\ OverwriteEntry(i, v)
             /\ ret' = CalledBack({<<k, buckets[i].value>>})
    <3>1. Map!EntryOf(k) = {<<k, buckets[i].value>>}
      BY <1>5, <2>2 DEF Map!EntryOf, Map!Given
    <3>2. ret' = Map!CalledBack(Map!EntryOf(k))
      BY <2>2, <3>1, SameReturns
    <3> QED
      BY <1>5, <2>2, <3>2 DEF Map!SetFree, Map!Next
  <2> QED
    BY <1>8, <2>1, <2>2 DEF SetFreeBody
<1> QED
  BY <1>3, <1>6, <1>7, <1>8

\* A call that only looks.
LEMMA LooksKeep ==
    ASSUME Inv, Inv', pending = NoCall,
           UNCHANGED <<capacity, buckets, count, tombstone_count, order, old, at, pending>>
    PROVE  Dict' = Dict /\ Older' = Older
<1>1. Keeps
  BY TypeFacts DEF Inv, Keeps, Complete
<1> QED
  BY <1>1, KeepsStutters

LEMMA GetImplements ==
    ASSUME Inv, Inv', NEW k \in Key, hashmap_get(k)
    PROVE  Map!Next
<1>1. PICK i \in Offset : /\ find_entry(k, i)
                          /\ ret' = Returned(buckets[i].key # NULL, buckets[i].value)
  BY DEF hashmap_get
<1>2. Dict' = Dict /\ Older' = Older
  BY LooksKeep DEF hashmap_get
<1>3. pending = NoCall
  BY DEF hashmap_get
<1>4. CASE buckets[i].key # NULL
  <2>1. k \in Map!Present /\ Dict[k] = buckets[i].value
    BY <1>1, <1>3, <1>4, LookUp
  <2>2. (buckets[i].key # NULL) = TRUE
    BY <1>4
  <2>3. ret' = Map!Returned(TRUE, Dict[k])
    BY <1>1, <2>1, <2>2, SameReturns
  <2> QED
    BY <1>2, <2>1, <2>3 DEF Map!Get, Map!Next
<1>5. CASE buckets[i].key = NULL
  <2>1. k \notin Map!Present /\ buckets[i].value = 0
    BY <1>1, <1>3, <1>5, LookUp
  <2>2. (buckets[i].key # NULL) = FALSE
    BY <1>5
  <2>3. ret' = Map!Returned(FALSE, 0)
    BY <1>1, <2>1, <2>2, SameReturns
  <2> QED
    BY <1>2, <2>1, <2>3 DEF Map!Get, Map!Next
<1> QED
  BY <1>4, <1>5

LEMMA RemoveImplements ==
    ASSUME Inv, Inv', NEW k \in Key, hashmap_remove(k) \/ hashmap_remove_free(k)
    PROVE  Map!Next
<1>1. /\ pending = NoCall
      /\ UNCHANGED <<capacity, count, order, old, at, pending>>
  BY DEF hashmap_remove, hashmap_remove_free
<1>2. PICK i \in Offset :
        /\ find_entry(k, i)
        /\ \/ /\ buckets[i].key # NULL /\ Bury(i)
              /\ \/ ret' = Nothing /\ hashmap_remove(k)
                 \/ ret' = CalledBack({<<k, buckets[i].value>>}) /\ hashmap_remove_free(k)
           \/ /\ buckets[i].key = NULL /\ ret' = Nothing
              /\ UNCHANGED <<buckets, tombstone_count>>
  <2>1. CASE hashmap_remove(k)
    BY <2>1 DEF hashmap_remove
  <2>2. CASE hashmap_remove_free(k)
    BY <2>2 DEF hashmap_remove_free
  <2> QED
    BY <2>1, <2>2
<1>3. CASE buckets[i].key # NULL
  <2>1. Buries(i, k)
    BY <1>1, <1>2, <1>3 DEF Buries
  <2>2. k \in Map!Present /\ Dict[k] = buckets[i].value /\ Map!Delete(k)
    BY <2>1, BuriesDelete
  <2>3. CASE ret' = Nothing
    BY <2>2, <2>3, SameReturns DEF Map!Remove, Map!Next
  <2>4. CASE ret' = CalledBack({<<k, buckets[i].value>>})
    <3>1. Map!EntryOf(k) = {<<k, buckets[i].value>>}
      BY <2>2 DEF Map!EntryOf, Map!Given
    <3>2. ret' = Map!CalledBack(Map!EntryOf(k))
      BY <2>4, <3>1, SameReturns
    <3> QED
      BY <2>2, <3>2 DEF Map!RemoveFree, Map!Next
  <2> QED
    BY <1>2, <1>3, <2>3, <2>4
<1>4. CASE buckets[i].key = NULL
  <2>1. ret' = Nothing /\ UNCHANGED <<buckets, tombstone_count>>
    BY <1>2, <1>4
  <2>2. Dict' = Dict /\ Older' = Older
    BY <1>1, <2>1, LooksKeep
  <2>3. k \notin Map!Present /\ Dict[k] = NULL
    <3>1. k \notin Map!Present
      BY <1>1, <1>2, <1>4, LookUp
    <3> QED
      BY <3>1 DEF Map!Present
  <2>4. Map!Delete(k)
    <3>1. [Dict EXCEPT ![k] = NULL] = Dict
      <4>1. [[j \in Key |-> Dict[j]] EXCEPT ![k] = NULL] = [j \in Key |-> Dict[j]]
        BY <2>3
      <4> QED
        BY <4>1, DictFunction
    <3>2. ~ \E p \in Place : Entry(p).key = k
      BY <2>3, PresentKeys
    <3>3. \A p \in Older : p[1] # k /\ p[2] # k
      BY <3>2 DEF Older
    <3> QED
      BY <2>2, <3>1, <3>3 DEF Map!Delete
  <2> QED
    BY <2>1, <2>4, SameReturns DEF Map!Remove, Map!Next
<1> QED
  BY <1>3, <1>4

LEMMA SizeImplements ==
    ASSUME Inv, Inv', hashmap_size
    PROVE  Map!Next
<1>1. /\ HashmapTypeOK /\ CountsAgree /\ OneEntryPerKey /\ pending = NoCall
      /\ ret' = Returned(FALSE, count - tombstone_count)
  BY DEF Inv, hashmap_size
<1>2. Dict' = Dict /\ Older' = Older
  BY LooksKeep DEF hashmap_size
<1>3. /\ Place = 1 .. Len(order)
      /\ \A p \in 1 .. Len(order) : Entry(p) = buckets[order[p]]
  BY <1>1, SettledPlaces
<1>4. Live = Place \ Tombs /\ Place \cap Tombs = Tombs
  BY <1>3 DEF Live, Tombs
<1>5. IsFiniteSet(Place) /\ IsFiniteSet(Live)
  BY <1>1, CountsFinite
<1>6. Cardinality(Place) = count
  <2>1. Len(order) \in Int /\ Len(order) >= 0 /\ 1 \in Int
    BY <1>1, TypeFacts
  <2>2. Cardinality(1 .. Len(order)) = IF 1 > Len(order) THEN 0 ELSE Len(order) - 1 + 1
    BY <2>1, FS_Interval
  <2> QED
    BY <1>1, <1>3, <2>1, <2>2, CountParts
<1>7. Cardinality(Live) = count - tombstone_count
  <2>1. Cardinality(Place \ Tombs) = Cardinality(Place) - Cardinality(Place \cap Tombs)
    BY <1>5, FS_Difference
  <2> QED
    BY <1>1, <1>4, <1>6, <2>1, CountParts
<1>8. Cardinality(Map!Present) = Cardinality(Live)
  <2> DEFINE f == [p \in Live |-> Entry(p).key]
  <2>1. \A p \in Live : Entry(p).key \in Map!Present
    BY <1>1, PlaceFacts, PresentKeys DEF Live
  <2>2. f \in [Live -> Map!Present]
    BY <2>1
  <2>3. \A p, q \in Live : f[p] = f[q] => p = q
    BY <1>1 DEF OneEntryPerKey, Live
  <2>4. \A k \in Map!Present : \E p \in Live : f[p] = k
    <3>1. ASSUME NEW k \in Map!Present
          PROVE  \E p \in Live : f[p] = k
      <4>1. k \in Key /\ k # NULL
        BY CallFields DEF Map!Present
      <4>2. PICK p \in Place : Entry(p).key = k
        BY <4>1, PresentKeys
      <4> QED
        BY <4>1, <4>2 DEF Live
    <3> QED
      BY <3>1
  <2> HIDE DEF f
  <2>5. f \in Bijection(Live, Map!Present)
    BY <2>2, <2>3, <2>4 DEF Bijection, Injection, Surjection, IsInjective
  <2>6. ExistsBijection(Live, Map!Present)
    BY <2>5 DEF ExistsBijection
  <2> QED
    BY <1>5, <2>6, FS_Bijection
<1>9. Cardinality(Map!Present) = count - tombstone_count
  BY <1>7, <1>8
<1>10. ret' = Map!Returned(FALSE, Cardinality(Map!Present))
  BY <1>1, <1>9, SameReturns
<1>11. Map!Size
  BY <1>2, <1>10, SameCardinality DEF Map!Size
<1> QED
  BY <1>11 DEF Map!Next

\* The entries that the callback is given are the oldest ones, in their order, and
\* all of them unless the list is longer than the loop goes.
LEMMA IterateImplements ==
    ASSUME Inv, Inv', hashmap_iterate
    PROVE  Map!Next \/ CutShort
<1>1. HashmapTypeOK /\ pending = NoCall
  BY DEF Inv, hashmap_iterate
<1>2. Dict' = Dict /\ Older' = Older
  BY LooksKeep DEF hashmap_iterate
<1>3. /\ Place = 1 .. Len(order)
      /\ \A p \in 1 .. Len(order) : Entry(p) = buckets[order[p]]
  BY <1>1, SettledPlaces
<1>4. \A p \in Visited : /\ p \in Place /\ buckets[order[p]] = Entry(p)
                         /\ Entry(p).key \in Key
  BY <1>1, <1>3, PlaceFacts DEF Visited
<1> DEFINE S == {Entry(p).key : p \in Visited}
           Pairs == {pq \in Visited \X Visited : pq[1] < pq[2]}
           Asked == Older \cap (S \X S)
<1>5. S \in SUBSET Map!Present
  BY <1>4, PresentKeys
\* A place whose key was visited is the one visited.
<1>6. ASSUME NEW p \in Place, Entry(p).key \in S
      PROVE  p \in Visited
  <2>1. PICK r \in Visited : Entry(r).key = Entry(p).key
    BY <1>6
  <2> QED
    BY <1>4, <1>6, <2>1, CallFields DEF Inv, OneEntryPerKey
<1>7. \A jk \in Older : jk[2] \in S => jk[1] \in S
  <2>1. ASSUME NEW jk \in Older, jk[2] \in S
        PROVE  jk[1] \in S
    <3>1. PICK p, q \in Place : p < q /\ Entry(p).key = jk[1] /\ Entry(q).key = jk[2]
      BY DEF Older
    <3>2. jk[1] \in Key /\ NULL \notin Key /\ q \in Visited
      BY <1>6, <2>1, <3>1, CallFields DEF Older
    <3>3. p \in Nat /\ q \in Nat /\ ITERATE_STOP \in Nat
      BY <1>1, PlaceFacts, HashmapAssumption
    <3>4. p \in Visited
      BY <1>3, <3>1, <3>2, <3>3 DEF Visited
    <3> QED
      BY <3>1, <3>4
  <2> QED
    BY <2>1
<1>8. \A p \in Visited : Given(p) = Map!Given(Entry(p).key)
  <2>1. \A p \in Visited : Dict[Entry(p).key] = buckets[order[p]].value
    BY <1>4, DictValue
  <2> QED
    BY <1>4, <2>1 DEF Given, Map!Given
<1>9. {Given(p) : p \in Visited} = {Map!Given(k) : k \in S}
  BY <1>8
<1>10. {<<Given(pq[1]), Given(pq[2])>> : pq \in Pairs}
         = {<<Map!Given(jk[1]), Map!Given(jk[2])>> : jk \in Asked}
  <2>1. ASSUME NEW pq \in Pairs
        PROVE  \E jk \in Asked : /\ Given(pq[1]) = Map!Given(jk[1])
                                 /\ Given(pq[2]) = Map!Given(jk[2])
    <3>1. pq[1] \in Visited /\ pq[2] \in Visited /\ pq[1] < pq[2]
      OBVIOUS
    <3> DEFINE jk == <<Entry(pq[1]).key, Entry(pq[2]).key>>
    <3>2. jk \in Older
      BY <1>4, <3>1 DEF Older
    <3>3. jk \in Asked
      BY <3>1, <3>2
    <3> HIDE DEF Asked
    <3> QED
      BY <1>8, <3>1, <3>3
  <2>2. ASSUME NEW jk \in Asked
        PROVE  \E pq \in Pairs : /\ Given(pq[1]) = Map!Given(jk[1])
                                 /\ Given(pq[2]) = Map!Given(jk[2])
    <3>1. jk \in Older /\ jk[1] \in S /\ jk[2] \in S
      OBVIOUS
    <3>2. PICK p, q \in Place : p < q /\ Entry(p).key = jk[1] /\ Entry(q).key = jk[2]
      BY <3>1 DEF Older
    <3>3. p \in Visited /\ q \in Visited
      BY <1>6, <3>1, <3>2
    <3>4. <<p, q>> \in Pairs
      BY <3>2, <3>3
    <3>5. Given(p) = Map!Given(jk[1]) /\ Given(q) = Map!Given(jk[2])
      BY <1>8, <3>2, <3>3
    <3> HIDE DEF Pairs
    <3> QED
      BY <3>4, <3>5
  <2> HIDE DEF Pairs, Asked
  <2> QED
    BY <2>1, <2>2
<1>11. ret' = Map!CalledInTurn({Map!Given(k) : k \in S},
                 {<<Map!Given(jk[1]), Map!Given(jk[2])>> : jk \in Asked})
  BY <1>9, <1>10, SameReturns DEF hashmap_iterate
<1>12. Map!IterateOver(S)
  BY <1>2, <1>11 DEF Map!IterateOver
<1>13. CASE Len(order) <= ITERATE_STOP + 2
  <2>1. ASSUME NEW k \in Map!Present
        PROVE  k \in S
    <3>1. k \in Key /\ k # NULL
      BY CallFields DEF Map!Present
    <3>2. PICK p \in Place : Entry(p).key = k
      BY <3>1, DictNone
    <3>3. p \in 1 .. Len(order) /\ p <= ITERATE_STOP + 2
      BY <1>1, <1>3, <1>13, <3>2, TypeFacts, HashmapAssumption
    <3>4. p \in Visited
      BY <1>3, <3>1, <3>2, <3>3 DEF Visited
    <3> QED
      BY <3>2, <3>4
  <2>2. S = Map!Present
    BY <1>5, <2>1
  <2> HIDE DEF S
  <2> QED
    BY <1>12, <2>2 DEF Map!Iterate, Map!Next
<1>14. CASE Len(order) > ITERATE_STOP + 2
  <2> HIDE DEF S
  <2> QED
    BY <1>5, <1>7, <1>12, <1>14 DEF CutShort
<1> QED
  BY <1>1, <1>13, <1>14, TypeFacts, HashmapAssumption

LEMMA FreeImplements ==
    ASSUME Inv, hashmap_free
    PROVE  Map!Next
<1>1. order' = << >> /\ old' = << >> /\ at' = 1 /\ ret' = Nothing
  BY FreeFacts DEF Inv, hashmap_free
<1>2. Place' = {}
  BY <1>1, SettledPlacesAfter
<1>3. Dict' = [k \in Key |-> NULL]
  BY <1>2 DEF Dict
<1>4. Older' = {}
  BY <1>2 DEF Older
<1> QED
  BY <1>1, <1>3, <1>4, SameReturns DEF Map!Free, Map!Next

\* Whatever the probing, the tombstones and the resizes do, for every hash and every
\* capacity, the callers of the hash table see the ordered map of map.h, except in an
\* iteration over a list of more than ITERATE_STOP + 2 buckets, which is given the
\* oldest entries only where map.h:65 promises all of them.
THEOREM MapRefinement == HashmapSpec => ImplementsOrderedMap
<1>1. hashmap_create => Map!Init
  <2> SUFFICES ASSUME hashmap_create
               PROVE  Map!Init
    OBVIOUS
  <2>1. Place = {} /\ ret = Nothing
    BY DEF hashmap_create, Place
  <2>2. Dict = [k \in Key |-> NULL] /\ Older = {}
    BY <2>1 DEF Dict, Older
  <2> QED
    BY <2>1, <2>2, SameReturns DEF Map!Init
<1>2. ASSUME Inv, Inv', Next
      PROVE  Map!Next \/ CutShort \/ UNCHANGED Map!mapVars
  <2> DEFINE Stutters == Dict' = Dict /\ Older' = Older /\ ret' = ret
  <2> SUFFICES Map!Next \/ CutShort \/ Stutters
    BY DEF Map!mapVars
  <2>1. ASSUME NEW call \in StoreCall, Store(call)
        PROVE  Map!Next \/ Stutters
    <3>1. CASE Loaded /\ hashmap_resize(call)
      <4>1. Begins(call) /\ ret' = ret
        BY <2>1, <3>1 DEF Store, Begins, hashmap_resize
      <4> QED
        BY <1>2, <4>1, BeginsStutters
    <3>2. CASE /\ ~ Loaded
               /\ Body(call)
               /\ UNCHANGED <<capacity, tombstone_count, old, at, pending>>
      <4>1. Complete
        BY <1>2, <2>1, <3>2, TypeFacts DEF Inv, Complete, Store
      <4> QED
        BY <1>2, <3>2, <4>1, BodyImplements
    <3> QED
      BY <2>1, <3>1, <3>2 DEF Store
  <2>2. CASE StoreResized
    <3>1. pending \in StoreCall /\ Body(pending) /\ Complete /\ pending # NoCall
      BY <1>2, <2>2, TypeFacts DEF Inv, StoreResized, Complete
    <3> QED
      BY <1>2, <3>1, BodyImplements
  <2>3. CASE resize_entry
    BY <1>2, <2>3, CopyStutters DEF resize_entry
  <2>4. CASE SkipTombstone
    BY <1>2, <2>4, SkipStutters DEF SkipTombstone
  <2>5. CASE \E k \in Key, v \in Value :
                hashmap_set(k, v) \/ hashmap_get_set(k, v) \/ hashmap_set_free(k, v)
    <3>1. PICK call \in StoreCall : Store(call)
      BY <2>5, CallFields DEF hashmap_set, hashmap_get_set, hashmap_set_free
    <3> QED
      BY <2>1, <3>1
  <2>6. CASE \E k \in Key : hashmap_get(k) \/ hashmap_remove(k) \/ hashmap_remove_free(k)
    BY <1>2, <2>6, GetImplements, RemoveImplements
  <2>7. CASE hashmap_size \/ hashmap_iterate \/ hashmap_free
    BY <1>2, <2>7, SizeImplements, IterateImplements, FreeImplements
  <2> HIDE DEF Stutters
  <2> QED
    BY <1>2, <2>2, <2>3, <2>4, <2>5, <2>6, <2>7 DEF Next
<1>3. ASSUME UNCHANGED vars
      PROVE  UNCHANGED Map!mapVars
  <2>1. /\ buckets' = buckets /\ order' = order /\ old' = old /\ at' = at /\ ret' = ret
    BY <1>3 DEF vars
  <2> QED
    BY <2>1 DEF Map!mapVars, Dict, Older, Place, Entry
<1>4. Inv /\ Inv' /\ [Next]_vars => [Map!Next \/ CutShort]_(Map!mapVars)
  BY <1>2, <1>3
<1> QED
  BY <1>1, <1>4, Invariance, PTL DEF HashmapSpec, ImplementsOrderedMap
============================================================================
