------------------------------ MODULE MCBatch ------------------------------
(***************************************************************************)
(* Instances of Batch for TLC. Payload sizes are scaled down so that two   *)
(* or three keys fill a message; the test at api.c:320 then fires with     *)
(* short and with long last keys.                                          *)
(***************************************************************************)
EXTENDS Batch

CONSTANTS key1, key2, key3

MCKey == {key1, key2, key3}

\* Lengths 1, 2 and 4 against a payload of 12 - 4 characters.
MCKeyLen == [k \in MCKey |-> CASE k = key1 -> 1 [] k = key2 -> 2 [] k = key3 -> 4]
============================================================================
