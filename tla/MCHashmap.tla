---------------------------- MODULE MCHashmap ----------------------------
(* Instances of Hashmap for TLC. *)
EXTENDS Hashmap, TLC

CONSTANTS k1, k2, k3

\* k1 and k2 have one hash and go to the last bucket of a table of three and of
\* six: the second goes around to the home of k3.
MCHash == (k1 :> 5) @@ (k2 :> 5) @@ (k3 :> 6)
=========================================================================
