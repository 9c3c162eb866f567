---------------------------- MODULE BoundedQueue -----------------------------
(***************************************************************************)
(* What a queue of bounded length promises: items leave at the front in    *)
(* the order they came, and when there are too many it is the oldest that  *)
(* make way.  The Bluetooth message queue and the assistant's conversation *)
(* history are each shown to implement it; one makes room before it pushes *)
(* and the other after.                                                    *)
(***************************************************************************)
EXTENDS Naturals, Sequences

CONSTANTS
    Items,
    Capacity,
    Burst     \* the most items one operation brings, at most Capacity

VARIABLE queue

\* The last n items of s.
Latest(s, n) == IF Len(s) <= n THEN s ELSE SubSeq(s, Len(s) - n + 1, Len(s))

Init == queue = <<>>

\* The items that came together are the last of the new queue, which is the old one
\* with them at its end, cut to the capacity.
Put ==
    \E n \in 1..Burst :
        LET items == Latest(queue', n) IN
        /\ items \in [1..n -> Items]
        /\ queue' = Latest(queue \o items, Capacity)

Take == queue # <<>> /\ queue' = Tail(queue)

Clear == queue' = <<>>

Next == Put \/ Take \/ Clear

Spec == Init /\ [][Next]_queue
==============================================================================
