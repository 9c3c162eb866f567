------------------------------ MODULE CallLog --------------------------------
(***************************************************************************)
(* What a record of calls promises, whoever keeps it: a session is opened  *)
(* once, may be replaced by a newer one, and is closed at most once, after *)
(* which it is in the log for good.  The call signalling of the core and   *)
(* the call service of the application are each shown to implement it.     *)
(***************************************************************************)
EXTENDS Sequences, Naturals

CONSTANTS
    Keepers,  \* who keeps a record
    Sessions

VARIABLES
    current,  \* keeper -> the sessions that are open
    ended     \* keeper -> its log: the sessions that were closed, oldest first

vars == <<current, ended>>

Ended(k) == {ended[k][i] : i \in 1..Len(ended[k])}

Init ==
    /\ current = [k \in Keepers |-> {}]
    /\ ended = [k \in Keepers |-> <<>>]

\* A session the keeper never had is opened; at most one makes way for it.
Open(k, s) ==
    /\ s \notin current[k] \cup Ended(k)
    /\ \E gone \in {{}} \cup {{r} : r \in current[k]} :
           current' = [current EXCEPT ![k] = (@ \ gone) \cup {s}]
    /\ UNCHANGED ended

Close(k, s) ==
    /\ s \in current[k]
    /\ current' = [current EXCEPT ![k] = @ \ {s}]
    /\ ended' = [ended EXCEPT ![k] = Append(@, s)]

Next == \E k \in Keepers, s \in Sessions : Open(k, s) \/ Close(k, s)

Spec == Init /\ [][Next]_vars

\* What follows from it: no session is open and closed at once, or closed twice.
ClosedOnce ==
    \A k \in Keepers :
        /\ current[k] \cap Ended(k) = {}
        /\ \A i, j \in 1..Len(ended[k]) : ended[k][i] = ended[k][j] => i = j
==============================================================================
