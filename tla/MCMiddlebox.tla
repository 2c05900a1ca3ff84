---------------------------- MODULE MCMiddlebox ----------------------------
(* Instances of Middlebox for TLC. *)
EXTENDS Middlebox

CONSTANTS k1, k2, k3

TwoKeys == {k1, k2}

MCSig == ReqId \X Key
MCKeyLen == [k \in Key |-> 2]

\* Packets with one key, with both, and with the same key twice.
OverTwoKeys == {<<k1>>, <<k2>>, <<k1, k2>>, <<k1, k1>>}

\* Packets that share a key.
SharedKey == {<<k1>>, <<k1, k2>>}

Symmetry == Permutations(Buf)
============================================================================
