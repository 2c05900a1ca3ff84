# Verification of the DPDK middlebox for memcached

This directory holds TLA+ models of the middlebox under `src/middlebox`, the TLC
configurations that check them and proofs for TLAPS. The middlebox accepts
memcached `gets` requests from clients over UDP, merges the keys of many clients
into one message, sends it to memcached, and steers the replies back to the
clients that asked. It is one DPDK polling core: handlers run to completion, and
what makes the program hard is state that is shared between handlers, across
packets that come in any order, late, or not at all. Beside the middlebox, the
repository holds the clients that drive it and the hash table that an earlier
version used; both are modelled as well.

## Inventory

| Part | Source | State | Operations | Interacts with |
|---|---|---|---|---|
| Request merging | `api.c` 61-134, 215-239, 319-327, 447-459 | `ukey`, `ukey_len`, `total_ukey_size`, `request_id`, `outstanding_req`, `keys_sent[]`, `keys_rcvd[]`, `last_seq_id`, `last_send_clock` | `insert_ukey_group`, `construct_pkt_and_send_to_server`, `refresh_backlog`, reply accounting | called from both handlers and from the poll loop; sends to memcached |
| Reply steering | `api.c` 158-213, 241-248, 277-317, 337-347 | `client_pkts`, chains through `mbuf.next`, `LRU_queue`, `LRU_ptr`, `pkt_counts[]`, `key_hold`, `last_key` | registration, lookup, eviction, forwarding, clearing | shares `key_hold` between handlers; owns the mbufs of clients |
| Handlers and poll loop | `api.c` 136-332, `middlebox.c` 10-35 | none of their own | `app_client_in`, `app_server_in`, `lcore_main` | call both parts above in one run |
| memcached, network | outside the repository | requests not answered yet | answers, losses | external |
| Payloads | `api.c` 379-445, 461-542 | `global_ap` | `strip_keys`, `strip_key_value`, `construct_keys_packet`, `init_*_app_payload` | pure, but for `global_ap` |
| Datapath | `eth.c`, `arp.c`, `ip.c`, `udp.c` | `known_haddrs`, the mbuf pools, rings | `eth_in` ... `udp_in`, `udp_send` ... `dpdk_eth_send` | hands packets to the handlers and back |
| Start-up, utilities | `dpdk_init.c`, `utils.c`, `middlebox.c` `main` | none | port, pool and table set-up, address conversion | DPDK |
| Clients | `client/client.cpp`, `rand_client/client.cpp` | `burst_ctr`, `msg_ctr`, the socket | send a burst, receive a fixed number of datagrams | middlebox |
| Hash table | `deprecated/map.c`, `map.h` | buckets, linked list of them, `count`, `tombstone_count` | `hashmap_set`, `_get_set`, `_set_free`, `_get`, `_remove`, `_remove_free`, `_size`, `_iterate`, `_free`, resize | `deprecated/api.c` |
| Old code | the rest of `deprecated/`, `client/old_client.cpp` | older handlers and client | - | not built any more |

What makes each part correct:

- *Merging*: nothing asked for is lost, repeated or reordered; messages fit the
  payload; `outstanding_req` (unsigned, 16 bits) covers the requests that are counted
  until its increment overflows; a request is counted once; keys never wait while memcached is idle, nor for ever.
- *Steering*: insertion into the table never fails; every entry can be evicted;
  chains lead to live packets, no packet is in two chains or leaks; replies go
  only to clients that asked.
- *Both together*: each key of each request is answered; an entry disappears once
  its answer is complete.
- *Payloads*: parsing what was built gives back the keys. *Datapath*: every mbuf
  received is freed, kept or sent exactly once.
- *Clients*: a burst ends, and when it does its keys were answered.
- *Hash table*: an entry is found again across removals and resizes, a key has
  one, the probing loops end, the order of insertion is kept.

The hard behaviours are listed one by one, with their lines, in `PROJECT.json`
under `hazards`: clients' packets between the datagrams of a value, replies
after a time-out, reused request ids, lost datagrams, stale slots in the LRU
queue, the key that a full message keeps back, unsigned wrap-around.

## Modules

- `KeyQueue`: the abstract promise of merging. Keys wait in a queue without
  repetition; a message takes a non-empty prefix. No sizes, ids or clocks.
- `Batch`: request merging. The C globals are the fields of the record `batch`;
  each C function is an operator from a record to the next, with the name it has
  in C (`insert_ukey_group`, `construct_pkt_and_send_to_server`,
  `refresh_backlog`) or a name for the block of a handler it stands for
  (`BatchKey`, `CountReply`, `Fulfil`, `SendIfIdle`). Next lets any environment
  call them that answers only what was sent. `in_client` marks that
  `app_client_in` is between two keys of a packet: the loop is one action per
  key, but no other handler comes in between.
- `ClientMap`: reply steering. A chain of mbufs is a sequence; a signature without
  an entry has the empty chain. `rte_hash_*` and `rte_pktmbuf_free` are modelled
  from how `api.c` uses them.
- `Middlebox`: EXTENDS both and composes them. Each handler is one action (one per
  key for `app_client_in`) that changes both records; memcached owes the answers
  in `todo`, `value` is a value some datagrams of which are still to come, `got`
  is the bag of what was forwarded to whom.
- `Datapath`: who owns an mbuf on its way from the port through `eth_in`, `arp_in`,
  `ip_in`, `udp_in` and the handlers to the transmit ring. It does not know keys or
  ids: which clients wait and how many messages leave are choices, which `ClientMap`
  and `Batch` make precise. A handler leaves its calls (sends and frees) in `calls`;
  `Perform` makes one at a time, since `dpdk_eth_send` waits for room in the ring
  and the driver works beside the core (`Arrive`, `Transmit`). `Owners` counts who
  will still give back a reference, `ref` is the reference count. `failed` is set
  where the code dereferences NULL because the pool was empty.
- `Payload`: the texts. The loop of `strip_keys` is walked one character per step
  (`SkipCommand`, `CopyChar`, `EndKey`, `EndKeys`) with its one `buffer`, which keeps the
  last key until the next character is written and holds anything before that;
  `Send` writes the message; `FirstDatagram` and `NextDatagram` put the pieces of an
  answer over the old contents of an mbuf, and `LookUp` is the choice between a key
  in the datagram and `last_key`. `Words` is the reference: what memcached takes for keys.
- `Clients`: EXTENDS `Middlebox` and composes it with the programs that use it. A
  client is one process: `SendPacket` while the burst lasts, then `Receive`, which
  counts `msg_ctr` down to the end of the burst. The burst client repeats one
  message (`BurstSend`), the random client draws its keys from the list
  (`RandSend`, `create_rand_msg`). `Delivered` is what the middlebox forwarded to a
  client, taken from `got`; a client reads one datagram after another and, like the
  code, never looks at what it answers.
- `OrderedMap`: the abstract promise of the hash table, taken from `map.h`: a map
  that remembers the order in which its entries were added, one action per function.
  `Iterate` gives its callback every entry, in that order (`map.h:65-66`).
- `Hashmap`: the hash table itself. Buckets are a function on indices, the linked
  list `first`, `next`, ... is the sequence `order` of indices, and the hash is any
  function from keys. A call is one action, except that a resize is one action for
  each entry of the old list (`resize_entry`, `SkipTombstone`), between
  `hashmap_resize`, which replaces the table, and `StoreResized`, the rest of the
  call that started it. `hashmap_free` is followed by `hashmap_create`.
- `MCBatch`, `MCMiddlebox`, `MCPayload`, `MCDatapath`, `MCClients`,
  `MCHashmap`: instances for TLC.
- `BatchProofs`, `ClientMapProofs`, `MiddleboxProofs`, `SteeringProofs`, `ClientsProofs`,
  `PayloadProofs`, `DatapathProofs`, `HashmapProofs`: theorems.

Some abstractions deserve a word. *Time*: the only use of the clock is the test of
`api.c:122`, so `expired` is one bit, set by `Tick` and cleared by a send. A
time-out that elapses while `app_client_in` runs is seen after it, because only
`lcore_main` looks. *One key per reply*: `app_server_in` reads one key from the
first datagram of a reply and takes every datagram without key as the
continuation of the last value of several datagrams; memcached is modelled the
way this code expects it, one answer per key with its own sequence numbers.
*Words*: in `Payload`, "gets" and
"VALUE" are single characters, so a "VALUE" that only arises where the new text of an
mbuf meets the old one is not seen. *Sockets*: the packet a client sends is the next
one the middlebox handles; one that travels longer is one that is sent later, since
a client reads nothing before its burst is out. *Pools*: in `Datapath`, one pool stands for `mbuf_pool` and `small_mbuf_pool`. In
`Middlebox`, a packet for which the pool has no mbufs is held back by the network; the
code would lose it or dereference a copy that could not be made (`api.c:313`), which is
what `Datapath` models. *Deleting and freeing*: `Datapath` does not know which entry
`key_hold` names. Its constant `Orderly` says whether the entry that `api.c:246` deletes is always
the one whose chain `api.c:247` frees. The runs and theorems of `Datapath` take it as
TRUE; `Middlebox`, which has `key_hold` and `last_key`, shows when it is (`ChainsStayLive`)
and that it can be false (`wrong_entry`). With `Orderly = FALSE`, TLC finds `NoUseAfterFree`,
`OnlyIgnoredFramesLeak` and `MacIsKnown` violated within a second or two each.

The definitions named `...Keep`, `...Late`, `...NoSpaces` and so on, each marked
as a mutant in its comment, are wrong variants of the definition that follows
them; they are used nowhere in a specification and serve to confirm that the
properties notice the mistake.

## Runs

| Run | Shows |
|---|---|
| `batch` (`MCBatch.cfg`) | Merging: `CoveredUntilOverflow`, `NoDuplicateKeys`, `MessageFits`, `WorkConserving`, `SendOpensItsRequest`, `AskedKeyWaits`, refinement of `KeyQueue` (`QueueSpec`), `BacklogIsSent` |
| `middlebox` (`MCMiddlebox.cfg`) | Values of one and of two datagrams, full messages, a table that overflows, lost replies and lost continuations: `Steered`, `NotAnsweredTwice`, `ChainsAreLive`, `NoPacketLeaks`, `LRUCoversMap`, `RoomForNext`, and `Spec` implements `BatchSpec` and `ClientMapSpec`, so that what `Batch` promises holds in the composition |
| `delivery` (`MCDelivery.cfg`) | No loss, messages never full: every key is answered (`EveryKeyAnswered`) and no entry waits for nothing (`EntriesAreAwaited`) |
| `datapath` (`MCDatapath.cfg`) | Ownership of mbufs while driver and core run side by side, with an exhausted pool and a full ring, if `Orderly`: `NoUseAfterFree`, `MacIsKnown`, `OnlyIgnoredFramesLeak`, `EveryPacketHandled` |
| `payload` (`MCPayload.cfg`) | Requests with any blanks, values with blanks and with the word "VALUE": `KeysAreWords`, `MessageAsksTheSame`, `LookedUpByItsKey` |
| `clients` (`MCClients.cfg`) | Burst client, random client and middlebox together, no loss: if the count of a client matches its message, a finished burst was answered (`BurstIsAnswered`), and the client does not wait for ever in `recvfrom` (`ClientsFinish`) |
| `hashmap` (`MCHashmap.cfg`) | The hash table under every sequence of calls: `Reachable`, `OneEntryPerKey`, `EmptyBucketLeft`, `CountsAgree`, `EmptyMapIsNotResized`, and it implements `OrderedMap`, but for iterations that are cut short (`ImplementsOrderedMap`) |
| `wrong_entry` (`MCWrongEntry.cfg`) | Violation: see below |
| `lost_head` (`MCLostHead.cfg`) | Violation: see below |
| `retained_key` (`MCRetainedKey.cfg`) | Violation: see below |
| `rewritten` (`MCRewritten.cfg`) | Violation: see below |
| `uncounted` (`MCUncounted.cfg`) | Violation: see below |

The five violations are disagreements between the code and its documentation:

1. `wrong_entry`. `key_hold` is written by both handlers. When a client's packet
   comes between two datagrams of a value, the last datagram finds the clients by
   `last_key` but deletes the entry of `key_hold` (`api.c:246`), which is the
   client's. The chain that was found is freed and stays in the table.
2. `lost_head`. A datagram without key goes to the clients of `last_key`
   (`api.c:180`) even if the first datagram of its value was lost and `last_key`
   belongs to another value. README.md:3 and the comment on packet loss at
   `api.c:224` promise otherwise.
3. `retained_key`. The key that does not fit a message is kept for the next one
   (`api.c:79`), which has the next request id; its clients were registered under
   the id before (`api.c:284`), and the answer finds nobody.
4. `rewritten`. README.md:7 says that a reply is copied for each client. The code
   sends one mbuf to all of them: it raises the reference count (`api.c:206`) and
   writes the next client's address into the header (`ip.c:65`) while the send
   before may still wait in the ring. Two clients' frames then carry one address.
   This needs a driver that sends after `rte_eth_tx_burst` returned; `net_tap`,
   which the scripts use, copies within the call.
5. `uncounted`. README.md:21-25 lets the scripts ask for any number of keys and
   expects each client to display the values. `client.cpp:122` counts four datagrams
   for each packet, whatever the message of `argv[3]` names. With five keys the client
   ends before all values came, and takes datagrams of one burst for those of the
   next; with three it would wait for ever in `recvfrom`. The messages of both scripts
   happen to name four keys.

A sixth disagreement has no run of its own. `map.h:65` says that `hashmap_iterate` calls `c`
on every element; the loop stops after 1002 buckets of the list, tombstones included
(`map.c:373`). `ImplementsOrderedMap` therefore excepts the steps `CutShort`: an iteration
over a longer list, which is given the oldest entries in their order. `ITERATE_STOP` is chosen such that
`hashmap` reaches iterations of both kinds.

This is why `middlebox` excludes clients' packets between the datagrams of a value
(`Interleaved`) and losses of the first of several datagrams (`Lost`), and `delivery`
and `clients` use a payload that is never full: the properties hold outside the
first three situations, and TLC shows them failing inside. The properties of `clients`
are about clients for which `CountMatches` holds: every random client, and a burst client
whose message names as many keys as it expects datagrams.

### Bounds

Constants of the code are scaled down; each bound is a constant with a comment.

- `batch`: three keys of lengths 1, 2 and 4 against 8 characters, so that two or
  three keys fill a message and each key can be the one kept back; two request
  ids, so that an id is reused while its request is open; at least two
  outstanding requests before keys wait; `UINT16` is 5, so that full messages make the
  counter overflow and a decrement below zero would show as 4. Sequence numbers 0 and 1
  suffice for the comparison with the number before.
- All runs of `Middlebox` keep one request outstanding before keys wait, so that
  the second and third packet are merged into one message, share the chain of a
  key, and leave by a reply or a time-out.
- `middlebox`: three packets, each with one of two keys, with both, or with one of them
  twice. A payload that two keys fill (one of them is kept back), four mbufs, a
  table of three entries that the registrations of three packets
  overflow: it is full, slots of `LRU_queue` go stale, a signature stands in two slots, and
  its older slot evicts its entry. Two datagrams per value tell the first, the last and
  (with a loss) a missing one apart. mbufs are symmetric.
- `clients`: the burst client sends the same two keys in two packets at a time, twice,
  and expects two datagrams for each (`REPLIES_PER_REQUEST`, 4 in the code); the random
  client sends one packet that names one key twice. Six mbufs, so that the pool never runs
  dry; one datagram per value; a table without eviction. Six request ids, more than
  messages: with fewer, two answers for one id and key would be one element of the
  set `todo`. `uncounted`: one client, five keys and four datagrams per packet, two
  bursts of one packet.
- `hashmap`: three keys, two of which share a hash, in the last bucket of the table, so
  that the second wraps around to the home of the third. A table of three that grows
  to six: `MaxCapacity` ends the calls that would resize again. `ITERATE_STOP` is 1, so that
  `hashmap_iterate` stops after three buckets; the list grows to four. Values 0, which an empty bucket
  has, and `0xDEAD`, which a tombstone has.
- `delivery`: three packets that share a key, two datagrams per value, a table
  without eviction: what an evicted client should get is stated nowhere.
- `payload`: every request of up to six characters over two letters and the blank
  behind "gets": two keys of two letters, three keys of one, leading, adjacent and
  trailing blanks, no key at all. Answers in one, two and three datagrams of six
  characters. The buffer starts empty or with a key of an earlier call.
- `datapath`: four mbufs, of which the port can take all, the table two and the
  message one, so that the pool is empty in every phase; a receive ring and a burst
  of two, so that a burst can be full, partial or empty; a transmit ring of one, so
  that the second send of a handler waits; at most one further key per packet and
  one message per handler; five frames: a request, a reply, a packet from an
  unknown host, an ARP request and an ARP reply. A frame for another host is
  treated as the packet from an unknown host is (`IpDrop`), and an ARP frame that is
  ignored as any other frame that is not IPv4 (`EthIgnore`). `rewritten` has two
  clients and a ring of two, to hold both frames of one reply.

In `middlebox` there are two request ids, so that ids wrap around while entries of
their former use are in the table; the other composed runs have more ids than
messages. The runs of `Middlebox`, `clients` and `payload`
switch the deadlock check off because the number of packets is bounded: once they are
handled, nothing is left to do. `batch`, `datapath` and `hashmap` check it; a
failed process (`Dead`) is the one state of `datapath` that may stay as it is.

### Fairness

`lcore_main` is an endless loop that never blocks. So a handler that has started
ends (`ClientEnd`, `AppClientKey`, `AppClientEnd`), `refresh_backlog` is called
again and again (`Refresh`, `PollRefresh`), and the clock goes on (`Tick`,
`ClockTick`): weak fairness for each. `Middlebox` also assumes that memcached
answers each message and continues each value, for `delivery` only. `Datapath` assumes that the core goes on
(`WF_vars(Core)`: it spins in `eth.c:44` or polls) and that the device sends what is
in the transmit ring (`WF_vars(Transmit)`). `Clients` assumes in addition
(`ClientsFairness`) that a client that has a packet to send sends it, which in the code
waits for nothing, and that `recvfrom` returns when a datagram is there. In the
other runs nothing is assumed about clients. `Hashmap` states no fairness: that its
loops end follows from `EmptyBucketLeft`.

## Proofs

The theorems hold for every set of keys, signatures and mbufs and all constants
that satisfy `KeyLenAssumption`, `BatchAssumption`, `ClientMapAssumption`,
`MiddleboxAssumption`, `ClientsAssumption`, `PayloadAssumption`, `DatapathAssumption`
and `HashmapAssumption`, as far as a module has these constants. Every invariant and
every action property of the runs that pass is proved, and so are the refinements.

`BatchProofs`:

- `BatchTypes`: `BatchSpec => []BatchTypeOK`. The invariant is inductive as it is;
  one lemma per C function says that it keeps the type.
- `NoDuplicates`: `[]NoDuplicateKeys`. Inductive with the types: an append of an
  absent key, a prefix and a single key are injective.
- `WorkConservation`: `[]WorkConserving`. Every operator that ends a handler either
  leaves no keys or does not go below the minimum; the argument needs that
  handlers do not overlap (`in_client`).
- `OutstandingCovers`: `CoveredUntilOverflow`, which is about the unsigned
  decrement of `api.c:229`. A send adds one open request at most and one to the
  counter (at most, because its id may be that of an open request), a fulfilled
  request was open, and a time-out forgets all of them. Cardinality lemmas of
  `FiniteSetTheorems` carry the counting. The one step that can make the counter too low is its own
  increment at 65535 (`Overflows`): nothing in the code bounds the full messages, and
  requests that are never fulfilled stay counted until a time-out.
- `AskedKeyIsKept`: `AskedKeyWaits`. The invariant is `Roomy`: between two rounds of
  the loop the waiting keys are not a full message. So a key that waits already
  meets no full message, and a new key that fills it is the last, which is kept.
- `OnlySendsOpen`: `SendOpensItsRequest`. `Roomy` is strengthened to `Counted` (no keys,
  no size), from which a full message has at least two keys: the one kept back is
  not the only one, and the message that leaves has a key to wait for.

- `QueueRefinement`: `BatchSpec => QueueSpec`. With `Counted`, every call of
  `construct_pkt_and_send_to_server` takes a non-empty prefix of `ukey`; each action of
  `Batch` is `Ask`, `AskAndSend`, `Send` or a stutter of `KeyQueue`.
- `MessagesFit`: `[]MessageFits`. The length of a message is a recursive function on
  positions (`Lengths`), so a property of it is the set of the positions that have it, and
  induction is that a set with 0 and with the successor of each member holds every
  number (`SetInduction`, from the well-foundedness of `<`). What waits fits
  between two rounds of the loop; what does not fit is cut to its front and one key.

`ClientMapProofs`: `ClientMapTypes`, and

- `LRUCovers`: `[]LRUCoversMap`. Inductive with the types: `TakeSlot` overwrites one
  slot of `LRU_queue` and deletes the entry of the signature that stood there; every
  other entry keeps the slot it had, and the new one gets the slot overwritten.
- `Room`: `[]RoomForNext`, from `LRUCoversMap` by counting. The range of `LRU_queue` has
  `MAP_ENTRIES` elements at most; if there are as many entries, each slot holds
  one, and the slot at `LRU_ptr` as well.

`MiddleboxProofs`: `Composition`, `Spec => BatchSpec`. `Batch` counts only replies to
requests that were sent with keys; the middlebox has to meet that. The invariant
`Environment` says so: clients' packets name keys, and memcached owes answers, and
continues values, only for requests with keys sent. It survives each step since a
handler never takes the keys of a request away (`Keeps`) and answers become due
only when a message leaves, to which `construct_pkt_and_send_to_server` gave keys
at that very call; that needs `Counted` again. `MiddleboxKeepsBatch` then carries
the theorems of `BatchProofs` over to the composition, `CoveredUntilOverflow` included.

`SteeringProofs` is about the table in the composition, for any number of clients, keys,
mbufs, entries and datagrams per value. `MiddleboxTypes` (`[]TypeOK`, invariant `Typed`) and
`MiddleboxHasRoom` (`[]LRUCoversMap`, `[]RoomForNext`) hold in every environment. The
others need an environment in which the code can tell the datagrams of a value,
since it remembers one key only; each hypothesis is one that TLC shows to be needed:

- `Orderly`: no client's packet between two datagrams of a value (else `wrong_entry`), no
  value whose first datagram is lost while others follow (else `lost_head`), and a value for
  every key (a bare END is looked up by `last_key`, too: with a key that is not stored,
  `Steered`, `ChainsAreLive` and `NoPacketLeaks` fail).
- `NoGaps`: no datagram is lost in the middle of a value. With three datagrams and the
  second lost, the count of the entry never reaches three, the entry stays, and when the
  request id comes round it is answered again: `NotAnsweredTwice` fails.
- `OneMessage`: all keys fit into one message (else `retained_key`). `Lost = {}`: an answer
  that is lost as a whole leaves an entry that waits for nothing.

Under `Orderly`, the invariant `Steering` is inductive: an mbuf is live if and only if it stands
in a chain, and at one place of one chain (`Exact`); a value that is partly delivered
is the one of `key_hold` and of `last_key` (`Continues`); a chained packet asked for the key of its
signature (`Owed`). `Delivery` says what a datagram then does, whether it is the first or a later
one.

- `ChainsStayLive`, `PacketsStayReachable`: `[](ChainsAreLive /\ NoPacketLeaks)`, from `Exact`.
- `OnlyWhatWasAsked`: `[]Steered`, from `Owed` and `Continues`.
- `SteeringRefines`: `Spec => ClientMapSpec`. A chain is no longer than there are mbufs,
  since `Exact` makes it injective.
- `NoAnswerTwice` (with `NoGaps`): `[]NotAnsweredTwice`. No client gets the last datagram of a value,
  and so a complete value, more often than it asked; when a tail was lost and the id
  comes round, it does get a first datagram again. The invariant `Due` adds up what a client
  got and what it waits for, which is never more than it asked for so far. It holds
  because the last datagram clears its entry, which `CountsArrived` tells: an entry counts
  from one, and the datagrams that arrived.
- `EntriesAreWaitedFor` (with `Lost = {}` and `OneMessage`): `[]EntriesAreAwaited`. A key that waits goes on
  waiting under its request id or leaves in the message of that id (`Passes`), and is
  then owed (`WaitsOrOwed`).

`ClientsProofs`: the client programs are a case of the environment of `Middlebox` (lemma
`ClientsUseMiddlebox`), so all of the above holds for them. `BurstsAreAnswered`,
`[]BurstIsAnswered` (with `Orderly` and `NoGaps`): a client counts datagrams and looks at none.
The theorem is about clients whose count matches their message, beside others whose
count may not, and about values of one datagram, since the clients count datagrams.
`Accounts` relates its three loop counters to what it sent and was delivered. By
`NoAnswerTwice` the datagrams forwarded to it map one to one into the positions at which its packets
name their keys (`CountSuffices`), so if there are as many, every position is met.

`PayloadProofs`, for requests, values and datagrams of every length:

- `StripKeys`, `[]KeysAreWords`. The loop invariant `Walked` says where the walk is: the keys
  found are the words that end before the last character read (`FoundBefore`), and
  behind a blank the buffer holds one of them (`AtBlank`), else the characters since the
  last blank (`Copying`). A word that ends at a given position begins at one position only.
- `MessageIsShort`, `[]MessageAsksTheSame`. The loops of merging and writing are recursive
  functions (`Merged`, `construct_keys_packet`); lemmas about loops in general (`LoopExists`,
  `LoopsAgree`) give what one more key does to them (`MergedAppend`, `WrittenAppend`), and
  `WordsWritten` that the words of a message are the keys written. The invariant `Asks` then
  speaks of `Draft`, the message that the keys found so far would make: it names these
  keys, and is shorter than what was read, less the blank and the key in the buffer.
- `LookUpsAreRight`, `LookedUpByItsKey`. Unless a value contains the word "VALUE", it stands
  nowhere in the mbuf but at the start of an answer, and the datagrams without it
  find in `last_key` the key of the value that is continued (`Answering`).
- `PayloadTypes`, `[]TypeOK`.

`DatapathProofs`, under the hypothesis `Orderly` of `Datapath` (without it, `api.c:246-247` free a chain to
which the table still leads, and drop another one): the inductive invariant `Inv` (`Ownership`) joins `NoUseAfterFree` and
`MacIsKnown` with what they need. A packet no handler has seen has one reference and its
header as received (`Fresh`), hence no other owner (`Exclusive`); what a handler sends
with a reference of its own has another owner until then, `memcached_pkt` or the reply
the handler frees afterwards (`SendsOwned`); nothing that is sent is in the table
(`SendsOutside`).

- `NoFreeInUse` and `NothingElseLeaks`, `[]NoUseAfterFree` and `OnlyIgnoredFramesLeak`,
  share one argument. `Surplus(b)`, the references to `b` less its owners, is the same
  after every step but `EthIgnore`, where it grows by one for the frame ignored
  (`StepOwners`). The owners are counted over sequences: lemmas `CountConcat`,
  `CountTail`, `CountSplit` say how concatenation, `Tail` and `SubSeq` divide a count.
- `HostsAreKnown`, `[]MacIsKnown`: the address of a reply comes from a packet in the
  table. Giving back one of several references leaves its header alone, and by
  `NoUseAfterFree` the table keeps one; a send writes over other mbufs only.
- `DatapathTypes`, `[]TypeOK`.

`HashmapProofs`: the inductive invariant `Inv` (`Invariance`) joins the properties of the
run with three parts they need: a bucket on the list is not empty (`Filled`), the new
table holds no tombstone before its resize has ended (`Copied`), and the table is
loaded to three quarters at most (`HasRoom`).

- `LoopsEnd`, `[]EmptyBucketLeft`: every call that fills a bucket has tested the load
  first, and 3/4 of a table leaves room for one more entry at any capacity from 2. The
  list is shorter than the table and holds every bucket that is not empty, so one is
  empty, by counting.
- `EntriesReachable`, `KeysUnique`: a removal leaves a tombstone, which is not empty, so
  no probe sequence is cut. `find_entry` returns an empty bucket only if no entry of the
  key lies before it; by `Reachable` none lies behind it, so the key is absent and
  the new entry is the only one.
- `CountsRight`, `[]CountsAgree`, and `HashmapTypes`: `tombstone_count` is the number of
  tombstones on the list, hence not above `count` when map.c:102 subtracts it.
- `NoEmptyResize`, `EmptyMapIsNotResized`: a loaded table has a list.

`MapRefinement` in the same module, `HashmapSpec => ImplementsOrderedMap` (with the exception
`CutShort`, see above): the abstract
map is read from the list: the entries copied so far, then those to be copied. The
lemma `SameEntries` says that it stays the same when entries before and after a step
correspond in their order, which covers the steps of a resize; a call that returns is
the action of `OrderedMap` of its name. Where `hashmap_size` returns, the list without
tombstones is in bijection with the keys present; `hashmap_iterate` gives its callback all entries
in their order if the list has at most `ITERATE_STOP + 2` buckets, else a prefix.

The assumptions: a key is shorter than an empty message leaves room for
(`MAX_KEY_LENGTH` 1443 against 1458), "gets" alone fits into a message, there are at least two
request ids, the minimum of outstanding requests (1000) lies below the modulus, a value has no
more datagrams than there are sequence numbers, the hash table starts with two
buckets or more and grows at least to twice its size, and there are finitely many
mbufs, of which a chain may hold all (`MaxChain` is a bound of `ClientMap`
alone), and at least one place in the transmit ring and in a burst. The theorems about
the datapath are of `Spec`, so they hold for `FairSpec`, which the run checks.

Only model-checked: the liveness properties `BacklogIsSent`, `EveryKeyAnswered`,
`EveryPacketHandled` and `ClientsFinish`. They need fairness and `ENABLED`, which are out of
the prover's reach.

## Plan

1. `Batch`, `ClientMap`, `Middlebox`, `Datapath`, `Payload`; theorems about `Batch`,
   `ClientMap` and `strip_keys`, and `Spec => BatchSpec`: done.
2. `Clients`: burst and random client with the middlebox: done.
3. `Hashmap`: the deprecated table as an implementation of `OrderedMap`, with proofs: done.
4. Proofs about the composition: the table, the chains and who is answered, `Spec =>
   ClientMapSpec`, `ClientsSpec => Spec`, `BurstIsAnswered`: done.
5. Proofs about `Datapath`, an invariant on reference counts, and about all of `Payload`: done.
6. `Steering`: an abstract specification of who is owed what, implemented by
   `Middlebox` in an orderly environment; the invariant `Due` is its core.
7. The positions and lengths that `init_send_app_payload` and `init_rcv_app_payload` compute.

## Not modelled

- Payload bytes, headers and addresses beyond what the properties tell apart.
- `PROGRAM_TIMEOUT`: its value, -1, disables it.
- Copies of requests longer than a small mbuf, which become multi-segment chains
  and collide with the use of `next` as the chain of clients.
- Exhaustion of the pools together with the keys: in `Middlebox` a client's packet
  arrives only while there are mbufs for it. `Datapath` models the empty pool.
- In `Batch`, that a reply for which no client is found is not counted (`api.c:183-186`);
  `Middlebox` does model it.
- `RTE_ETH_TX_OFFLOAD_MBUF_FAST_FREE` (`dpdk_init.c:26`): the driver of the model looks
  at reference counts.
- Requests with more keys than `MAX_KEY_PER_PACKET`, and what becomes of a request that
  names no key behind its first blank (`KeysAreWords` excludes it).
- Missing keys: in the instances of `Middlebox`, memcached has every key.
- Several values in one datagram; replies of memcached that overlap.
- Request ids that are reused while answers for them are due, together with clients
  that wait (`middlebox` has the reuse, `clients` the waiting).
- A client that loses a datagram waits for ever (`client.cpp:125` has no time-out);
  `clients` loses none.
- Of the hash table: the build without `__HASHMAP_REMOVABLE`, failed allocations,
  callers that change the memory of a key, and the byte-wise hash function, for which
  any function stands.
- The handlers under `deprecated/`: they use `GROUP_SIZE`, `struct Array` and `struct
  client_info`, which are defined nowhere, and so cannot be built. `old_client.cpp` expects
  one reply per message and writes no header that the middlebox of today could read.
- DPDK start-up, the tests and the scripts.
