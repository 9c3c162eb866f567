--------------------------- MODULE CallSignalling ----------------------------
(***************************************************************************)
(* Calls between nodes (rust/src/p2p/webrtc_signaling.rs): each node has a *)
(* WebRTCSignaling; offers and answers travel between them by means the    *)
(* repository leaves to the application, so they may be lost, late,        *)
(* repeated and out of order.                                              *)
(*                                                                         *)
(* Every session draws an encryption key of its own.  Keys are numbered in *)
(* the order they are drawn and tell the sessions apart, where call ids    *)
(* need not: an id is a hash of caller, callee and the millisecond.        *)
(***************************************************************************)
EXTENDS Naturals, Sequences, FiniteSets

CONSTANTS
    Nodes,
    MaxTime,   \* bound: the last millisecond
    MaxKeys    \* bound: sessions opened by all nodes

ASSUME CallAssumption == MaxTime \in Nat /\ MaxKeys \in Nat

VARIABLES
    clock,
    active_calls,  \* node -> the sessions in its map, at most one for a call id
    call_history,  \* node -> its ended sessions, oldest first
    offers,        \* offers that may still arrive, any number of times
    answers,       \* answers that may still arrive, any number of times
    drawn          \* history: for each key, the node and call id it was drawn for

vars == <<clock, active_calls, call_history, offers, answers, drawn>>

\* generate_call_id
CallId(caller, callee) == [caller |-> caller, callee |-> callee, at |-> clock]
CallIds == [caller : Nodes, callee : Nodes, at : 0..MaxTime]

Offers == [call_id : CallIds, caller : Nodes, callee : Nodes]

CallSessions ==
    [call_id : CallIds, peer : Nodes, direction : {"Outgoing", "Incoming"},
     state : {"Ringing", "Connecting", "Ended"}, key : 1..MaxKeys]

Init ==
    /\ clock = 0
    /\ active_calls = [n \in Nodes |-> {}]
    /\ call_history = [n \in Nodes |-> <<>>]
    /\ offers = {}
    /\ answers = {}
    /\ drawn = <<>>

Active(n, id) == {s \in active_calls[n] : s.call_id = id}

\* HashMap::insert: a session with the same call id is dropped.
Insert(n, s) ==
    active_calls' = [active_calls EXCEPT ![n] = (@ \ Active(n, s.call_id)) \cup {s}]

Session(n, id, peer, direction, state) ==
    /\ Len(drawn) < MaxKeys
    /\ drawn' = Append(drawn, [node |-> n, call_id |-> id])
    /\ Insert(n, [call_id |-> id, peer |-> peer, direction |-> direction,
                  state |-> state, key |-> Len(drawn) + 1])

create_offer(n, callee) ==
    /\ n # callee
    /\ Session(n, CallId(n, callee), callee, "Outgoing", "Ringing")
    /\ offers' = offers \cup {[call_id |-> CallId(n, callee), caller |-> n, callee |-> callee]}
    /\ UNCHANGED <<clock, call_history, answers>>

\* Slip: the session names the callee of the offer, which is the node itself.
accept_call_own_name(n, offer) ==
    /\ offer.callee = n
    /\ Session(n, offer.call_id, offer.callee, "Incoming", "Connecting")
    /\ answers' = answers \cup {[call_id |-> offer.call_id, to |-> offer.caller]}
    /\ UNCHANGED <<clock, call_history, offers>>

\* The callee takes an offer, whether or not it has taken it before.
accept_call(n, offer) ==
    /\ offer.callee = n
    /\ Session(n, offer.call_id, offer.caller, "Incoming", "Connecting")
    /\ answers' = answers \cup {[call_id |-> offer.call_id, to |-> offer.caller]}
    /\ UNCHANGED <<clock, call_history, offers>>

\* An answer whose call is not, or no longer, in the map changes nothing.
handle_answer(n, answer) ==
    /\ answer.to = n
    /\ active_calls' = [active_calls EXCEPT ![n] =
           {IF s.call_id = answer.call_id THEN [s EXCEPT !.state = "Connecting"] ELSE s : s \in @}]
    /\ UNCHANGED <<clock, call_history, offers, answers, drawn>>

\* Slip: a call that nobody took is dropped without a trace.
end_call_unlogged(n, s) ==
    /\ s \in active_calls[n]
    /\ active_calls' = [active_calls EXCEPT ![n] = @ \ {s}]
    /\ call_history' = IF s.state = "Ringing" THEN call_history
                       ELSE [call_history EXCEPT ![n] = Append(@, [s EXCEPT !.state = "Ended"])]
    /\ UNCHANGED <<clock, offers, answers, drawn>>

\* For a call id with no session nothing happens; the other side is not told.
end_call(n, s) ==
    /\ s \in active_calls[n]
    /\ active_calls' = [active_calls EXCEPT ![n] = @ \ {s}]
    /\ call_history' = [call_history EXCEPT ![n] = Append(@, [s EXCEPT !.state = "Ended"])]
    /\ UNCHANGED <<clock, offers, answers, drawn>>

Tick ==
    /\ clock < MaxTime
    /\ clock' = clock + 1
    /\ UNCHANGED <<active_calls, call_history, offers, answers, drawn>>

Next ==
    \/ \E n \in Nodes :
        \/ \E callee \in Nodes : create_offer(n, callee)
        \/ \E offer \in offers : accept_call(n, offer)
        \/ \E answer \in answers : handle_answer(n, answer)
        \/ \E s \in active_calls[n] : end_call(n, s)
    \/ Tick

Spec == Init /\ [][Next]_vars

-----------------------------------------------------------------------------
Keys(sessions) == {s.key : s \in sessions}
LoggedKeys(n) == [i \in 1..Len(call_history[n]) |-> call_history[n][i].key]

\* Types; the map of a node has one session for a call id at most.
TypeOK ==
    /\ clock \in 0..MaxTime
    /\ \A n \in Nodes :
        /\ active_calls[n] \subseteq {s \in CallSessions : s.state # "Ended"}
        /\ \A s, t \in active_calls[n] : s.call_id = t.call_id => s = t
        /\ \A i \in 1..Len(call_history[n]) :
               call_history[n][i] \in {s \in CallSessions : s.state = "Ended"}
    /\ offers \subseteq Offers
    /\ answers \subseteq {[call_id |-> o.call_id, to |-> o.caller] : o \in offers}

\* Two ends of one call face each other, whatever was repeated or came late: each
\* names the other as its peer, and one of them is the caller.
EndsFaceEachOther ==
    \A m, n \in Nodes : \A s \in active_calls[m], t \in active_calls[n] :
        (m # n /\ s.call_id = t.call_id) =>
            /\ s.peer = n /\ t.peer = m
            /\ s.direction # t.direction

\* A caller's session leaves Ringing only once the callee has opened a session of
\* that call: an answer is never taken for another callee's.
ConnectingWasAccepted ==
    \A n \in Nodes : \A s \in active_calls[n] :
        s.state = "Connecting" /\ s.direction = "Outgoing" =>
            \E k \in 1..Len(drawn) : drawn[k] = [node |-> s.peer, call_id |-> s.call_id]

\* A session that is neither open nor logged gave way to a later one of the same
\* call id: an offer made twice in one millisecond or taken twice.  None is lost
\* in any other way.
LostOnlyToItsTwin ==
    \A k \in 1..Len(drawn) :
        LET n == drawn[k].node IN
        \/ k \in Keys(active_calls[n])
        \/ \E i \in 1..Len(call_history[n]) : call_history[n][i].key = k
        \/ \E j \in k + 1 .. Len(drawn) : drawn[j] = drawn[k]

\* Each node's map and history implement a call log.
Log == INSTANCE CallLog WITH
    Keepers <- Nodes, Sessions <- 1..MaxKeys,
    current <- [n \in Nodes |-> Keys(active_calls[n])],
    ended <- [n \in Nodes |-> LoggedKeys(n)]
IsCallLog == Log!Spec
==============================================================================
