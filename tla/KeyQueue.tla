------------------------------ MODULE KeyQueue ------------------------------
(***************************************************************************)
(* What the merging of client requests promises, without packets, sizes,   *)
(* ids or clocks: keys wait in a queue in the order in which they were     *)
(* first asked, none twice, and every message takes a non-empty prefix of  *)
(* the queue.                                                              *)
(***************************************************************************)
EXTENDS Integers, SequencesExt

CONSTANT Key

VARIABLES
    queue,    \* keys that wait
    message   \* keys of the last message to memcached

queueVars == <<queue, message>>

QueueInit == queue = << >> /\ message = << >>

Ask(k) ==
    /\ ~Contains(queue, k)
    /\ queue' = Append(queue, k)
    /\ UNCHANGED message

\* A non-empty prefix of the keys of q leaves.
Take(q) ==
    \E n \in 1 .. Len(q) :
        /\ message' = SubSeq(q, 1, n)
        /\ queue' = SubSeq(q, n + 1, Len(q))

Send == Take(queue)

\* One more key makes a message leave in the same step.
AskAndSend(k) == ~Contains(queue, k) /\ Take(Append(queue, k))

QueueNext ==
    \/ \E k \in Key : Ask(k) \/ AskAndSend(k)
    \/ Send

QueueSpec == QueueInit /\ [][QueueNext]_queueVars
=============================================================================
