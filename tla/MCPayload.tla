----------------------------- MODULE MCPayload -----------------------------
(***************************************************************************)
(* Payload for TLC: all requests of up to six characters behind "gets",   *)
(* among them those with adjacent, leading and trailing blanks and without *)
(* any key.                                                                *)
(***************************************************************************)
EXTENDS Payload

CONSTANTS x, y, MaxRequest

MCLetter == {x, y}
MCRequests == BoundedSeq(MCLetter \cup {Blank}, MaxRequest)

\* One datagram, several, and values that contain a blank or "VALUE".
MCData == {<<x>>, <<x, Blank, y, x, x, y, x>>, <<x, x, x, x, Blank, Value, Blank, x, x, x>>}

\* The empty string, and a key from an earlier call.
MCUninitialised == {<< >>, <<y>>}
============================================================================
