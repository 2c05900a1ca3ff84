----------------------------- MODULE MCClients -----------------------------
(* Instances of Clients for TLC. *)
EXTENDS Clients

CONSTANTS k1, k2, k3, k4, k5, burst, rand

OneKey == {k2}
TwoKeys == {k1, k2}
FiveKeys == {k1, k2, k3, k4, k5}
MCSig == ReqId \X Key
MCKeyLen == [k \in Key |-> 2]

\* A burst client that asks for the same keys in two packets at a time, twice, and
\* a random client with one packet for k2 twice. The pool has an mbuf for each key
\* that can be under way, so that it never runs dry.
MCMessage == burst :> <<k1, k2>>
MCRequests == [1 .. NUM_KEYS_PER_PACKET -> Key]
MCBurstSize == (burst :> 2) @@ (rand :> 1)
MCBurstNumber == (burst :> 2) @@ (rand :> 1)

\* One burst client that asks for one key more than the four datagrams it expects,
\* one packet at a time.
LongMessage == burst :> <<k1, k2, k3, k4, k5>>
LongRequests == {<<k1, k2, k3, k4, k5>>, <<k2>>}
OneClient == burst :> 1
TwoBursts == burst :> 2
============================================================================
