----------------------------- MODULE CallsProofs -----------------------------
(***************************************************************************)
(* Theorems about the call signalling of the core and the call service of  *)
(* the app, for any numbers of nodes, screens, calls, milliseconds and     *)
(* keys, and that each of the two implements CallLog.                      *)
(*                                                                         *)
(* The signalling's argument: an offer carries the two ends of its call in *)
(* the call id, an answer was sent by the callee of the call it names, and *)
(* every session was drawn by its node for its call id.                    *)
(***************************************************************************)
EXTENDS MCCalls, SequenceTheorems, TLAPS

(* The two ends of a call. *)

Drawings == [node : Nodes, call_id : CallIds]

Records ==
    /\ clock \in 0..MaxTime
    /\ active_calls \in [Nodes -> SUBSET {s \in CallSessions : s.state # "Ended"}]
    /\ call_history \in [Nodes -> Seq({s \in CallSessions : s.state = "Ended"})]
    /\ drawn \in Seq(Drawings) /\ Len(drawn) <= MaxKeys

OneForACall == \A n \in Nodes : \A s, t \in active_calls[n] : s.call_id = t.call_id => s = t

\* An offer is made by the caller of its call to another node, its callee.
OffersNameTheirCall ==
    \A o \in offers :
        /\ o \in Offers
        /\ o.caller = o.call_id.caller /\ o.callee = o.call_id.callee
        /\ o.caller # o.callee

\* The callee has opened a session of that call.
WasAccepted(id) == \E k \in 1..Len(drawn) : drawn[k] = [node |-> id.callee, call_id |-> id]

\* An answer goes back to the caller of an offer the callee took.
AnswersWereGiven ==
    \A a \in answers :
        /\ \E o \in offers : a = [call_id |-> o.call_id, to |-> o.caller]
        /\ WasAccepted(a.call_id)

\* A session stands at one end of its call and names the other.
AtItsEnd(n, s) ==
    /\ s.call_id.caller # s.call_id.callee
    /\ IF s.direction = "Outgoing"
       THEN n = s.call_id.caller /\ s.peer = s.call_id.callee
       ELSE n = s.call_id.callee /\ s.peer = s.call_id.caller

\* Its key is the one that was drawn for it.
HasItsKey(n, s) == s.key \in 1..Len(drawn) /\ drawn[s.key] = [node |-> n, call_id |-> s.call_id]

\* A caller's session that is connecting was accepted.
HeardTheCallee(s) == s.state = "Connecting" /\ s.direction = "Outgoing" => WasAccepted(s.call_id)

SessionsAreWellFormed ==
    \A n \in Nodes : \A s \in active_calls[n] :
        AtItsEnd(n, s) /\ HasItsKey(n, s) /\ HeardTheCallee(s)

LoggedKeysWereDrawn ==
    \A n \in Nodes : \A i \in 1..Len(call_history[n]) : call_history[n][i].key \in 1..Len(drawn)

CallsInv ==
    /\ Records
    /\ OneForACall
    /\ OffersNameTheirCall
    /\ AnswersWereGiven
    /\ SessionsAreWellFormed
    /\ LoggedKeysWereDrawn
    /\ LostOnlyToItsTwin

\* WebRTCSignaling::new at every node.
LEMMA InitCalls == Init => CallsInv
<1> SUFFICES ASSUME Init PROVE CallsInv
  OBVIOUS
<1>1. Records
  BY CallAssumption DEF Init, Records
<1> QED
  BY <1>1 DEF Init, CallsInv, OneForACall, OffersNameTheirCall, AnswersWereGiven,
     SessionsAreWellFormed, LoggedKeysWereDrawn, LostOnlyToItsTwin

-----------------------------------------------------------------------------
(* Opening a session, by an offer or by taking one. *)

\* A drawing more: earlier ones stay, and what was accepted stays accepted.
LEMMA DrawnMore ==
  ASSUME NEW x \in Drawings, drawn \in Seq(Drawings), drawn' = Append(drawn, x)
  PROVE  /\ drawn' \in Seq(Drawings) /\ Len(drawn') = Len(drawn) + 1
         /\ \A k \in 1..Len(drawn) : drawn'[k] = drawn[k]
         /\ drawn'[Len(drawn) + 1] = x
         /\ \A id : WasAccepted(id) => WasAccepted(id)'
<1>1. /\ drawn' \in Seq(Drawings) /\ Len(drawn') = Len(drawn) + 1
      /\ \A k \in 1..Len(drawn) : drawn'[k] = drawn[k]
      /\ drawn'[Len(drawn) + 1] = x
  OBVIOUS
<1>2. ASSUME NEW id, WasAccepted(id)
      PROVE  WasAccepted(id)'
  BY <1>1, <1>2 DEF WasAccepted
<1> QED
  BY <1>1, <1>2

\* The new session replaces at most the one of its call id, which it is the twin of.
LEMMA SessionKeeps ==
  ASSUME CallsInv, NEW n \in Nodes, NEW id \in CallIds, NEW peer \in Nodes,
         NEW direction \in {"Outgoing", "Incoming"}, NEW state \in {"Ringing", "Connecting"},
         id.caller # id.callee,
         IF direction = "Outgoing"
         THEN n = id.caller /\ peer = id.callee /\ state = "Ringing"
         ELSE n = id.callee /\ peer = id.caller,
         Session(n, id, peer, direction, state), UNCHANGED <<clock, call_history>>
  PROVE  /\ Records' /\ OneForACall' /\ SessionsAreWellFormed' /\ LoggedKeysWereDrawn'
         /\ LostOnlyToItsTwin'
         /\ drawn' = Append(drawn, [node |-> n, call_id |-> id])
<1> DEFINE new == [call_id |-> id, peer |-> peer, direction |-> direction, state |-> state,
                   key |-> Len(drawn) + 1]
           x == [node |-> n, call_id |-> id]
<1>1. /\ Records /\ OneForACall /\ SessionsAreWellFormed /\ LoggedKeysWereDrawn
      /\ LostOnlyToItsTwin
  BY DEF CallsInv
<1>2. /\ Len(drawn) < MaxKeys
      /\ drawn' = Append(drawn, x)
      /\ active_calls' = [active_calls EXCEPT ![n] = (@ \ Active(n, id)) \cup {new}]
  BY DEF Session, Insert
<1>3. /\ active_calls \in [Nodes -> SUBSET {s \in CallSessions : s.state # "Ended"}]
      /\ drawn \in Seq(Drawings)
      /\ call_history \in [Nodes -> Seq({s \in CallSessions : s.state = "Ended"})]
  BY <1>1 DEF Records
<1>4. x \in Drawings
  BY DEF Drawings
<1>5. /\ drawn' \in Seq(Drawings) /\ Len(drawn') = Len(drawn) + 1
      /\ \A k \in 1..Len(drawn) : drawn'[k] = drawn[k]
      /\ drawn'[Len(drawn) + 1] = x
      /\ \A i : WasAccepted(i) => WasAccepted(i)'
  BY <1>2, <1>3, <1>4, DrawnMore
<1>6. new \in CallSessions /\ new.state # "Ended"
  BY <1>2, <1>3, CallAssumption DEF CallSessions
<1>7. \A m \in Nodes : active_calls'[m] =
          IF m = n THEN {s \in active_calls[n] : s.call_id # id} \cup {new} ELSE active_calls[m]
  BY <1>2, <1>3 DEF Active
<1> HIDE DEF new, x
<1>8. Records'
  <2>1. active_calls' \in [Nodes -> SUBSET {s \in CallSessions : s.state # "Ended"}]
    BY <1>2, <1>3, <1>6
  <2> QED
    BY <2>1, <1>1, <1>2, <1>3, <1>5, CallAssumption DEF Records
<1>9. OneForACall'
  <2>1. new.call_id = id
    BY DEF new
  <2> QED
    BY <1>1, <1>7, <2>1 DEF OneForACall
<1>10. SessionsAreWellFormed'
  <2> SUFFICES ASSUME NEW m \in Nodes, NEW s \in active_calls'[m]
               PROVE  AtItsEnd(m, s) /\ HasItsKey(m, s)' /\ HeardTheCallee(s)'
    BY DEF SessionsAreWellFormed, AtItsEnd
  <2>1. CASE s \in active_calls[m]
    <3>1. AtItsEnd(m, s) /\ HasItsKey(m, s) /\ HeardTheCallee(s)
      BY <1>1, <2>1 DEF SessionsAreWellFormed
    <3> QED
      BY <3>1, <1>3, <1>5 DEF HasItsKey, HeardTheCallee
  <2>2. CASE s = new /\ m = n
    BY <2>2, <1>3, <1>5 DEF new, x, AtItsEnd, HasItsKey, HeardTheCallee
  <2> QED
    BY <1>7, <2>1, <2>2
<1>11. LoggedKeysWereDrawn'
  BY <1>1, <1>3, <1>5 DEF LoggedKeysWereDrawn
<1>12. LostOnlyToItsTwin'
  <2> SUFFICES ASSUME NEW k \in 1..Len(drawn')
               PROVE  \/ k \in Keys(active_calls'[drawn'[k].node])
                      \/ \E i \in 1..Len(call_history[drawn'[k].node]) :
                             call_history[drawn'[k].node][i].key = k
                      \/ \E j \in k + 1 .. Len(drawn') : drawn'[j] = drawn'[k]
    BY DEF LostOnlyToItsTwin, Keys
  <2>1. CASE k = Len(drawn) + 1
    <3>1. drawn'[k].node = n
      BY <2>1, <1>5 DEF x
    <3>2. new \in active_calls'[n] /\ new.key = k
      BY <2>1, <1>7 DEF new
    <3> QED
      BY <3>1, <3>2 DEF Keys
  <2>2. CASE k \in 1..Len(drawn)
    <3> DEFINE m == drawn[k].node
    <3>1. drawn'[k] = drawn[k] /\ m \in Nodes
      <4>1. drawn[k] \in Drawings
        BY <2>2, <1>3
      <4> QED
        BY <4>1, <2>2, <1>5 DEF Drawings
    <3>2. \/ k \in Keys(active_calls[m])
          \/ \E i \in 1..Len(call_history[m]) : call_history[m][i].key = k
          \/ \E j \in k + 1 .. Len(drawn) : drawn[j] = drawn[k]
      BY <1>1, <2>2 DEF LostOnlyToItsTwin
    <3>3. CASE k \in Keys(active_calls[m])
      <4>1. PICK s \in active_calls[m] : s.key = k
        BY <3>3 DEF Keys
      <4>2. CASE s \in active_calls'[m]
        BY <4>1, <4>2, <3>1 DEF Keys
      <4>3. CASE s \notin active_calls'[m]
        <5>1. m = n /\ s.call_id = id
          BY <4>1, <4>3, <3>1, <1>7
        <5>2. drawn[k] = [node |-> m, call_id |-> s.call_id]
          BY <4>1, <3>1, <1>1 DEF SessionsAreWellFormed, HasItsKey
        <5>3. drawn'[Len(drawn) + 1] = drawn'[k]
          BY <5>1, <5>2, <3>1, <1>5 DEF x
        <5>4. Len(drawn) + 1 \in k + 1 .. Len(drawn')
          BY <2>2, <1>3, <1>5
        <5> QED
          BY <5>3, <5>4
      <4> QED
        BY <4>2, <4>3
    <3>4. CASE \E j \in k + 1 .. Len(drawn) : drawn[j] = drawn[k]
      <4>1. PICK j \in k + 1 .. Len(drawn) : drawn[j] = drawn[k]
        BY <3>4
      <4>2. j \in k + 1 .. Len(drawn') /\ drawn'[j] = drawn'[k]
        BY <4>1, <2>2, <1>3, <1>5
      <4> QED
        BY <4>2
    <3> QED
      BY <3>1, <3>2, <3>3, <3>4
  <2> QED
    BY <2>1, <2>2, <1>3, <1>5
<1> QED
  BY <1>2, <1>8, <1>9, <1>10, <1>11, <1>12 DEF x

\* An offer: the caller's session is ringing.
LEMMA OfferKeepsCalls ==
  ASSUME CallsInv, NEW n \in Nodes, NEW callee \in Nodes, create_offer(n, callee)
  PROVE  CallsInv'
<1> DEFINE id == CallId(n, callee)
           offer == [call_id |-> id, caller |-> n, callee |-> callee]
<1>1. clock \in 0..MaxTime /\ drawn \in Seq(Drawings)
  BY DEF CallsInv, Records
<1>2. id \in CallIds /\ id.caller = n /\ id.callee = callee
  BY <1>1 DEF CallId, CallIds
<1>3. /\ n # callee
      /\ Session(n, id, callee, "Outgoing", "Ringing")
      /\ offers' = offers \cup {offer}
      /\ UNCHANGED <<clock, call_history>> /\ UNCHANGED answers
  BY DEF create_offer
<1> HIDE DEF id
<1>4. /\ Records' /\ OneForACall' /\ SessionsAreWellFormed' /\ LoggedKeysWereDrawn'
      /\ LostOnlyToItsTwin'
      /\ drawn' = Append(drawn, [node |-> n, call_id |-> id])
  BY <1>2, <1>3, SessionKeeps
<1>5. OffersNameTheirCall'
  BY <1>2, <1>3 DEF CallsInv, OffersNameTheirCall, Offers
<1>6. AnswersWereGiven'
  <2>1. [node |-> n, call_id |-> id] \in Drawings
    BY <1>2 DEF Drawings
  <2>2. \A i : WasAccepted(i) => WasAccepted(i)'
    BY <1>1, <1>4, <2>1, DrawnMore
  <2> QED
    BY <1>3, <2>2 DEF CallsInv, AnswersWereGiven
<1> QED
  BY <1>4, <1>5, <1>6 DEF CallsInv

\* Taking an offer: the drawing of the callee's session is what the answer stands for.
LEMMA AcceptKeepsCalls ==
  ASSUME CallsInv, NEW n \in Nodes, NEW offer \in offers, accept_call(n, offer)
  PROVE  CallsInv'
<1> DEFINE id == offer.call_id
           answer == [call_id |-> id, to |-> offer.caller]
<1>1. drawn \in Seq(Drawings)
  BY DEF CallsInv, Records
<1>2. /\ id \in CallIds /\ offer.caller \in Nodes
      /\ id.caller = offer.caller /\ id.callee = offer.callee /\ id.caller # id.callee
  BY DEF CallsInv, OffersNameTheirCall, Offers
<1>3. /\ offer.callee = n
      /\ Session(n, id, offer.caller, "Incoming", "Connecting")
      /\ answers' = answers \cup {answer}
      /\ UNCHANGED <<clock, call_history>> /\ UNCHANGED offers
  BY DEF accept_call
<1> HIDE DEF id
<1>4. /\ Records' /\ OneForACall' /\ SessionsAreWellFormed' /\ LoggedKeysWereDrawn'
      /\ LostOnlyToItsTwin'
      /\ drawn' = Append(drawn, [node |-> n, call_id |-> id])
  BY <1>2, <1>3, SessionKeeps
<1>5. OffersNameTheirCall'
  BY <1>3 DEF CallsInv, OffersNameTheirCall
<1>6. AnswersWereGiven'
  <2>1. [node |-> n, call_id |-> id] \in Drawings
    BY <1>2 DEF Drawings
  <2>2. /\ \A i : WasAccepted(i) => WasAccepted(i)'
        /\ Len(drawn') = Len(drawn) + 1
        /\ drawn'[Len(drawn) + 1] = [node |-> n, call_id |-> id]
    BY <1>1, <1>4, <2>1, DrawnMore
  <2>3. WasAccepted(id)'
    <3>1. Len(drawn) + 1 \in 1..Len(drawn')
      BY <1>1, <2>2
    <3> QED
      BY <3>1, <2>2, <1>2, <1>3 DEF WasAccepted
  <2>4. \E o \in offers' : answer = [call_id |-> o.call_id, to |-> o.caller]
    BY <1>3 DEF id
  <2>5. ASSUME NEW a \in answers
        PROVE  /\ \E o \in offers' : a = [call_id |-> o.call_id, to |-> o.caller]
               /\ WasAccepted(a.call_id)'
    BY <1>3, <2>2 DEF CallsInv, AnswersWereGiven
  <2>6. answer.call_id = id
    OBVIOUS
  <2> QED
    BY <1>3, <2>3, <2>4, <2>5, <2>6 DEF AnswersWereGiven
<1> QED
  BY <1>4, <1>5, <1>6 DEF CallsInv

-----------------------------------------------------------------------------
(* The steps that open no session. *)

\* A session as an answer leaves it.
Heard(s, id) == IF s.call_id = id THEN [s EXCEPT !.state = "Connecting"] ELSE s

LEMMA HeardFacts ==
  ASSUME NEW s \in CallSessions, s.state # "Ended", NEW id
  PROVE  /\ Heard(s, id) \in CallSessions /\ Heard(s, id).state # "Ended"
         /\ Heard(s, id).call_id = s.call_id /\ Heard(s, id).peer = s.peer
         /\ Heard(s, id).direction = s.direction /\ Heard(s, id).key = s.key
         /\ s.call_id # id => Heard(s, id) = s
  BY DEF CallSessions, Heard

\* An answer: the sessions of its call are connecting, and it was given for them.
LEMMA AnswerKeepsCalls ==
  ASSUME CallsInv, NEW n \in Nodes, NEW answer \in answers, handle_answer(n, answer)
  PROVE  /\ CallsInv'
         /\ \A m \in Nodes : Keys(active_calls'[m]) = Keys(active_calls[m])
<1> DEFINE id == answer.call_id
<1>1. /\ Records /\ OneForACall /\ SessionsAreWellFormed /\ LoggedKeysWereDrawn
      /\ LostOnlyToItsTwin /\ OffersNameTheirCall /\ AnswersWereGiven
  BY DEF CallsInv
<1>2. /\ active_calls' = [active_calls EXCEPT ![n] = {Heard(s, id) : s \in @}]
      /\ UNCHANGED <<clock, call_history, offers, answers, drawn>>
  BY DEF handle_answer, Heard
<1>3. active_calls \in [Nodes -> SUBSET {s \in CallSessions : s.state # "Ended"}]
  BY <1>1 DEF Records
<1>4. \A m \in Nodes : active_calls'[m] =
          IF m = n THEN {Heard(s, id) : s \in active_calls[n]} ELSE active_calls[m]
  BY <1>2, <1>3
<1>5. \A m \in Nodes : \A s \in active_calls[m] :
          /\ Heard(s, id) \in CallSessions /\ Heard(s, id).state # "Ended"
          /\ Heard(s, id).call_id = s.call_id /\ Heard(s, id).peer = s.peer
          /\ Heard(s, id).direction = s.direction /\ Heard(s, id).key = s.key
          /\ s.call_id # id => Heard(s, id) = s
  BY <1>3, HeardFacts
<1>6. Records'
  <2>1. active_calls' \in [Nodes -> SUBSET {s \in CallSessions : s.state # "Ended"}]
    BY <1>2, <1>3, <1>5
  <2> QED
    BY <2>1, <1>1, <1>2 DEF Records
<1> HIDE DEF id
<1>12. \A m \in Nodes : \A t \in active_calls'[m] :
           \E s \in active_calls[m] : t = IF m = n THEN Heard(s, id) ELSE s
  BY <1>4
<1>7. OneForACall'
  <2> SUFFICES ASSUME NEW m \in Nodes, NEW t1 \in active_calls'[m], NEW t2 \in active_calls'[m],
                      t1.call_id = t2.call_id
               PROVE  t1 = t2
    BY DEF OneForACall
  <2>1. PICK s1 \in active_calls[m] : t1 = IF m = n THEN Heard(s1, id) ELSE s1
    BY <1>12
  <2>2. PICK s2 \in active_calls[m] : t2 = IF m = n THEN Heard(s2, id) ELSE s2
    BY <1>12
  <2>3. s1.call_id = s2.call_id
    BY <2>1, <2>2, <1>5
  <2> QED
    BY <1>1, <2>1, <2>2, <2>3 DEF OneForACall
<1>8. SessionsAreWellFormed'
  <2> SUFFICES ASSUME NEW m \in Nodes, NEW t \in active_calls'[m]
               PROVE  AtItsEnd(m, t) /\ HasItsKey(m, t)' /\ HeardTheCallee(t)'
    BY DEF SessionsAreWellFormed, AtItsEnd
  <2>1. PICK s \in active_calls[m] : t = IF m = n THEN Heard(s, id) ELSE s
    BY <1>12
  <2>2. AtItsEnd(m, s) /\ HasItsKey(m, s) /\ HeardTheCallee(s)
    BY <1>1 DEF SessionsAreWellFormed
  <2>3. AtItsEnd(m, t)
    BY <2>1, <2>2, <1>5 DEF AtItsEnd
  <2>4. HasItsKey(m, t)'
    BY <2>1, <2>2, <1>2, <1>5 DEF HasItsKey
  <2>5. WasAccepted(id)
    BY <1>1 DEF AnswersWereGiven, id
  <2>6. HeardTheCallee(t)
    BY <2>1, <2>2, <2>5, <1>5 DEF HeardTheCallee
  <2> QED
    BY <2>3, <2>4, <2>6, <1>2 DEF HeardTheCallee, WasAccepted
<1>9. \A m \in Nodes : Keys(active_calls'[m]) = Keys(active_calls[m])
  <2> SUFFICES ASSUME NEW m \in Nodes
               PROVE  Keys(active_calls'[m]) = Keys(active_calls[m])
    OBVIOUS
  <2>1. ASSUME NEW s \in active_calls[m]
        PROVE  \E t \in active_calls'[m] : t.key = s.key
    BY <1>4, <1>5
  <2>2. ASSUME NEW t \in active_calls'[m]
        PROVE  \E s \in active_calls[m] : t.key = s.key
    BY <1>5, <1>12
  <2> QED
    BY <2>1, <2>2 DEF Keys
<1>10. LostOnlyToItsTwin'
  <2>1. \A k \in 1..Len(drawn) : drawn[k].node \in Nodes
    <3>1. \A k \in 1..Len(drawn) : drawn[k] \in Drawings
      BY <1>1 DEF Records
    <3> QED
      BY <3>1 DEF Drawings
  <2> QED
    BY <1>1, <1>2, <1>9, <2>1 DEF LostOnlyToItsTwin
<1>11. OffersNameTheirCall' /\ AnswersWereGiven' /\ LoggedKeysWereDrawn'
  BY <1>1, <1>2 DEF OffersNameTheirCall, AnswersWereGiven, LoggedKeysWereDrawn, WasAccepted
<1> QED
  BY <1>6, <1>7, <1>8, <1>9, <1>10, <1>11 DEF CallsInv

\* The end of a call: what leaves the map is in the history.
LEMMA EndKeepsCalls ==
  ASSUME CallsInv, NEW n \in Nodes, NEW s \in active_calls[n], end_call(n, s)
  PROVE  CallsInv'
<1> DEFINE closed == [s EXCEPT !.state = "Ended"]
           Closed == {t \in CallSessions : t.state = "Ended"}
<1>1. /\ Records /\ OneForACall /\ SessionsAreWellFormed /\ LoggedKeysWereDrawn
      /\ LostOnlyToItsTwin /\ OffersNameTheirCall /\ AnswersWereGiven
  BY DEF CallsInv
<1>2. /\ active_calls' = [active_calls EXCEPT ![n] = @ \ {s}]
      /\ call_history' = [call_history EXCEPT ![n] = Append(@, closed)]
      /\ UNCHANGED <<clock, offers, answers, drawn>>
  BY DEF end_call
<1>3. /\ active_calls \in [Nodes -> SUBSET {t \in CallSessions : t.state # "Ended"}]
      /\ call_history \in [Nodes -> Seq(Closed)]
      /\ drawn \in Seq(Drawings)
  BY <1>1 DEF Records
<1>4. s \in CallSessions /\ HasItsKey(n, s)
  BY <1>1, <1>3 DEF SessionsAreWellFormed
<1>5. closed \in Closed /\ closed.key = s.key
  BY <1>4 DEF CallSessions
<1> HIDE DEF closed
<1>6. /\ \A m \in Nodes : active_calls'[m] = IF m = n THEN active_calls[n] \ {s} ELSE active_calls[m]
      /\ \A m \in Nodes : call_history'[m] =
             IF m = n THEN Append(call_history[n], closed) ELSE call_history[m]
  BY <1>2, <1>3
<1>7. /\ Len(call_history'[n]) = Len(call_history[n]) + 1
      /\ \A i \in 1..Len(call_history[n]) : call_history'[n][i] = call_history[n][i]
      /\ call_history'[n][Len(call_history[n]) + 1] = closed
      /\ Len(call_history[n]) \in Nat
      /\ call_history'[n] \in Seq(Closed)
  <2>1. call_history[n] \in Seq(Closed) /\ call_history'[n] = Append(call_history[n], closed)
    BY <1>3, <1>6
  <2> HIDE DEF Closed
  <2> QED
    BY <2>1, <1>5
<1>8. Records'
  <2>1. active_calls' \in [Nodes -> SUBSET {t \in CallSessions : t.state # "Ended"}]
    BY <1>2, <1>3
  <2>2. call_history' \in [Nodes -> Seq(Closed)]
    BY <1>2, <1>3, <1>6, <1>7
  <2> QED
    BY <2>1, <2>2, <1>1, <1>2 DEF Records
<1>9. OneForACall'
  BY <1>1, <1>6 DEF OneForACall
<1>10. SessionsAreWellFormed'
  <2> SUFFICES ASSUME NEW m \in Nodes, NEW t \in active_calls'[m]
               PROVE  AtItsEnd(m, t) /\ HasItsKey(m, t)' /\ HeardTheCallee(t)'
    BY DEF SessionsAreWellFormed, AtItsEnd
  <2>1. t \in active_calls[m]
    BY <1>6
  <2>2. AtItsEnd(m, t) /\ HasItsKey(m, t) /\ HeardTheCallee(t)
    BY <1>1, <2>1 DEF SessionsAreWellFormed
  <2> QED
    BY <2>2, <1>2 DEF HasItsKey, HeardTheCallee, WasAccepted
<1>11. LoggedKeysWereDrawn'
  BY <1>1, <1>2, <1>4, <1>5, <1>6, <1>7 DEF LoggedKeysWereDrawn, HasItsKey
<1>12. LostOnlyToItsTwin'
  <2> SUFFICES ASSUME NEW k \in 1..Len(drawn)
               PROVE  \/ k \in Keys(active_calls'[drawn[k].node])
                      \/ \E i \in 1..Len(call_history'[drawn[k].node]) :
                             call_history'[drawn[k].node][i].key = k
                      \/ \E j \in k + 1 .. Len(drawn) : drawn[j] = drawn[k]
    BY <1>2 DEF LostOnlyToItsTwin, Keys
  <2> DEFINE m == drawn[k].node
  <2>1. m \in Nodes
    <3>1. drawn[k] \in Drawings
      BY <1>3
    <3> QED
      BY <3>1 DEF Drawings
  <2>2. \/ k \in Keys(active_calls[m])
        \/ \E i \in 1..Len(call_history[m]) : call_history[m][i].key = k
        \/ \E j \in k + 1 .. Len(drawn) : drawn[j] = drawn[k]
    BY <1>1 DEF LostOnlyToItsTwin
  <2> HIDE DEF m
  <2>3. CASE k \in Keys(active_calls[m])
    <3>1. PICK t \in active_calls[m] : t.key = k
      BY <2>3 DEF Keys
    <3>2. CASE t \in active_calls'[m]
      BY <3>1, <3>2 DEF Keys, m
    <3>3. CASE t \notin active_calls'[m]
      <4>1. m = n /\ t = s
        BY <3>1, <3>3, <2>1, <1>6
      <4>2. Len(call_history[n]) + 1 \in 1..Len(call_history'[n])
        BY <1>7
      <4> QED
        BY <4>1, <4>2, <3>1, <1>5, <1>7 DEF m
    <3> QED
      BY <3>2, <3>3
  <2>4. CASE \E i \in 1..Len(call_history[m]) : call_history[m][i].key = k
    <3>1. PICK i \in 1..Len(call_history[m]) : call_history[m][i].key = k
      BY <2>4
    <3>2. i \in 1..Len(call_history'[m]) /\ call_history'[m][i] = call_history[m][i]
      BY <2>1, <3>1, <1>6, <1>7
    <3>3. call_history'[m][i].key = k
      BY <3>1, <3>2
    <3> QED
      BY <3>2, <3>3 DEF m
  <2>5. CASE \E j \in k + 1 .. Len(drawn) : drawn[j] = drawn[k]
    BY <2>5
  <2> QED
    BY <2>2, <2>3, <2>4, <2>5
<1>13. OffersNameTheirCall' /\ AnswersWereGiven'
  BY <1>1, <1>2 DEF OffersNameTheirCall, AnswersWereGiven, WasAccepted
<1> QED
  BY <1>8, <1>9, <1>10, <1>11, <1>12, <1>13 DEF CallsInv

\* Every step keeps the invariant.
LEMMA StepKeepsCalls ==
  ASSUME CallsInv, [Next]_vars
  PROVE  CallsInv'
<1>1. ASSUME NEW n \in Nodes, NEW callee \in Nodes, create_offer(n, callee)
      PROVE  CallsInv'
  BY <1>1, OfferKeepsCalls
<1>2. ASSUME NEW n \in Nodes, NEW offer \in offers, accept_call(n, offer)
      PROVE  CallsInv'
  BY <1>2, AcceptKeepsCalls
<1>3. ASSUME NEW n \in Nodes, NEW answer \in answers, handle_answer(n, answer)
      PROVE  CallsInv'
  BY <1>3, AnswerKeepsCalls
<1>4. ASSUME NEW n \in Nodes, NEW s \in active_calls[n], end_call(n, s)
      PROVE  CallsInv'
  BY <1>4, EndKeepsCalls
<1>5. ASSUME clock' \in 0..MaxTime, UNCHANGED <<active_calls, call_history, offers, answers, drawn>>
      PROVE  CallsInv'
  <2>1. Records'
    BY <1>5 DEF CallsInv, Records
  <2>2. OneForACall' /\ OffersNameTheirCall' /\ AnswersWereGiven' /\ LoggedKeysWereDrawn'
    BY <1>5 DEF CallsInv, OneForACall, OffersNameTheirCall, AnswersWereGiven, WasAccepted,
       LoggedKeysWereDrawn
  <2>3. SessionsAreWellFormed'
    <3>1. \A n, s : /\ AtItsEnd(n, s) => AtItsEnd(n, s)'
                    /\ HasItsKey(n, s) => HasItsKey(n, s)'
                    /\ HeardTheCallee(s) => HeardTheCallee(s)'
      BY <1>5 DEF AtItsEnd, HasItsKey, HeardTheCallee, WasAccepted
    <3> QED
      BY <1>5, <3>1 DEF CallsInv, SessionsAreWellFormed
  <2>4. LostOnlyToItsTwin'
    BY <1>5 DEF CallsInv, LostOnlyToItsTwin, Keys
  <2> QED
    BY <2>1, <2>2, <2>3, <2>4 DEF CallsInv
<1>6. Tick => clock' \in 0..MaxTime /\ UNCHANGED <<active_calls, call_history, offers, answers, drawn>>
  BY CallAssumption DEF CallsInv, Records, Tick
<1>7. UNCHANGED vars =>
          clock' \in 0..MaxTime /\ UNCHANGED <<active_calls, call_history, offers, answers, drawn>>
  BY DEF CallsInv, Records, vars
<1> QED
  BY <1>1, <1>2, <1>3, <1>4, <1>5, <1>6, <1>7 DEF Next

\* What the runs check of the ends follows from it.
LEMMA CallsInvImplies == CallsInv => EndsAgree
<1> SUFFICES ASSUME CallsInv PROVE EndsAgree
  OBVIOUS
<1>1. TypeOK
  <2>1. answers \subseteq {[call_id |-> o.call_id, to |-> o.caller] : o \in offers}
    BY DEF CallsInv, AnswersWereGiven
  <2>2. \A n \in Nodes : \A i \in 1..Len(call_history[n]) :
            call_history[n][i] \in {s \in CallSessions : s.state = "Ended"}
    <3> DEFINE Closed == {s \in CallSessions : s.state = "Ended"}
    <3>1. call_history \in [Nodes -> Seq(Closed)]
      BY DEF CallsInv, Records
    <3> HIDE DEF Closed
    <3>2. \A n \in Nodes : \A i \in 1..Len(call_history[n]) : call_history[n][i] \in Closed
      BY <3>1
    <3> QED
      BY <3>2 DEF Closed
  <2>3. offers \subseteq Offers
    BY DEF CallsInv, OffersNameTheirCall
  <2> QED
    BY <2>1, <2>2, <2>3 DEF CallsInv, Records, OneForACall, TypeOK
<1>2. SessionsAreWellFormed
  BY DEF CallsInv
<1>3. ASSUME NEW n \in Nodes, NEW s \in active_calls[n]
      PROVE  s.direction \in {"Outgoing", "Incoming"}
  BY <1>3 DEF CallsInv, Records, CallSessions
<1>4. EndsFaceEachOther
  BY <1>2, <1>3 DEF EndsFaceEachOther, SessionsAreWellFormed, AtItsEnd
<1>5. ConnectingWasAccepted
  <2> SUFFICES ASSUME NEW n \in Nodes, NEW s \in active_calls[n],
                      s.state = "Connecting", s.direction = "Outgoing"
               PROVE  \E k \in 1..Len(drawn) : drawn[k] = [node |-> s.peer, call_id |-> s.call_id]
    BY DEF ConnectingWasAccepted
  <2>1. WasAccepted(s.call_id) /\ s.peer = s.call_id.callee
    BY <1>2 DEF SessionsAreWellFormed, AtItsEnd, HeardTheCallee
  <2> QED
    BY <2>1 DEF WasAccepted
<1> QED
  BY <1>1, <1>4, <1>5 DEF EndsAgree

\* Whatever is lost, late or repeated, the two ends of a call name each other, and a
\* caller is connecting only to a callee that took its call.
THEOREM EndsFindEachOther == MCSpec => []EndsAgree
<1>1. MCInit => CallsInv
  BY InitCalls DEF MCInit
<1>2. CallsInv /\ [MCNext]_all_vars => CallsInv'
  BY StepKeepsCalls DEF MCNext, all_vars
<1> QED
  BY <1>1, <1>2, CallsInvImplies, PTL DEF MCSpec

\* A session is replaced only by one for the same call, and logged otherwise.
THEOREM ReplacedByItsTwin == MCSpec => []LostOnlyToItsTwin
<1>1. MCInit => CallsInv
  BY InitCalls DEF MCInit
<1>2. CallsInv /\ [MCNext]_all_vars => CallsInv'
  BY StepKeepsCalls DEF MCNext, all_vars
<1>3. CallsInv => LostOnlyToItsTwin
  BY DEF CallsInv
<1> QED
  BY <1>1, <1>2, <1>3, PTL DEF MCSpec

-----------------------------------------------------------------------------
(* The call service of the app.  An update reaches the current call only from a    *)
(* screen that shows it.  On a screen whose call is not hasty, a start is waited   *)
(* for or a timer runs for that call alone, and not both: a call that is ringing   *)
(* or has ended has neither, so what is begun next starts from nothing.            *)

States == {"incoming", "dialing", "connected", "ended"}

ScreenStates ==
    [id : CallNames, seconds : Nat, state : States, shown : States,
     starts : Seq(CallNames), timer : CallNames \cup {None}, strays : Nat]

Statuses == {"completed", "rejected", "missed"}

AppRecords ==
    /\ _currentCall \in App!ActiveCalls \cup {None}
    /\ _history \in Seq([id : CallNames, durationSeconds : Nat, status : Statuses])
    /\ screen \in [Screens -> ScreenStates \cup {None}]
    /\ issued \subseteq CallNames
    /\ ticks \in [CallNames -> [App!Whose -> Nat]]
    /\ hasty \subseteq CallNames

\* Nothing but the one start or timer of the call that the screen has.
InTime(r) ==
    /\ r.starts = <<>> \/ r.starts = <<r.id>>
    /\ r.timer \in {None, r.id}
    /\ r.strays = 0
    /\ r.state \in {"incoming", "ended"} => r.starts = <<>> /\ r.timer = None
    /\ r.state = "dialing" => r.timer = None
    /\ r.state = "connected" => r.starts = <<>>
    /\ r.shown = "connected" => r.state \in {"connected", "ended"}

CountsItsCall(r) ==
    /\ r \in ScreenStates
    /\ r.id \in issued
    /\ r.id \notin hasty => InTime(r)
    /\ App!IsCurrent(r.id) => r.seconds <= App!Accountable(r.id)

ScreensCountTheirCall == \A s \in Screens : screen[s] # None => CountsItsCall(screen[s])

KnownIdsWereIssued ==
    /\ _currentCall # None => _currentCall.id \in issued
    /\ \A i \in 1..Len(_history) : _history[i].id \in issued

AppInv == AppRecords /\ ScreensCountTheirCall /\ KnownIdsWereIssued /\ App!DurationIsOwn

\* No call, no record, no screen.
LEMMA InitApp == App!Init => AppInv
<1> SUFFICES ASSUME App!Init PROVE AppInv
  OBVIOUS
<1>1. AppRecords
  BY DEF App!Init, AppRecords
<1> QED
  BY <1>1 DEF App!Init, AppInv, ScreensCountTheirCall, KnownIdsWereIssued, App!DurationIsOwn

\* What a call may show never becomes less, and no call becomes current again.
History ==
    /\ issued \subseteq issued' /\ hasty \subseteq hasty'
    /\ ticks' \in [CallNames -> [App!Whose -> Nat]] /\ hasty' \subseteq CallNames
    /\ \A c \in CallNames, whose \in App!Whose : ticks[c][whose] <= ticks'[c][whose]
    /\ \A c \in issued : App!IsCurrent(c)' => App!IsCurrent(c)

LEMMA AccountableGrows ==
  ASSUME AppInv, History, NEW c \in CallNames
  PROVE  /\ App!Accountable(c) \in Nat /\ App!Accountable(c)' \in Nat
         /\ App!Accountable(c) <= App!Accountable(c)'
<1>1. "own" \in App!Whose /\ "other" \in App!Whose
  BY DEF App!Whose
<1>2. /\ ticks[c]["own"] \in Nat /\ ticks[c]["other"] \in Nat
      /\ ticks'[c]["own"] \in Nat /\ ticks'[c]["other"] \in Nat
  BY <1>1 DEF AppInv, AppRecords, History
<1>3. ticks[c]["own"] <= ticks'[c]["own"] /\ ticks[c]["other"] <= ticks'[c]["other"]
  BY <1>1 DEF History
<1>4. c \in hasty => c \in hasty'
  BY DEF History
<1> QED
  BY <1>2, <1>3, <1>4 DEF App!Accountable

\* The screen's part of a step: one screen is closed, or counts its call.
ScreenStep(s) ==
    \E new \in ScreenStates \cup {None} :
        /\ screen' = [screen EXCEPT ![s] = new]
        /\ new # None => CountsItsCall(new)'

LEMMA ScreenStepKeeps ==
  ASSUME AppInv, History, NEW s \in Screens, ScreenStep(s)
  PROVE  /\ screen' \in [Screens -> ScreenStates \cup {None}]
         /\ ScreensCountTheirCall'
<1>1. screen \in [Screens -> ScreenStates \cup {None}]
  BY DEF AppInv, AppRecords
<1>2. PICK new \in ScreenStates \cup {None} :
          /\ screen' = [screen EXCEPT ![s] = new]
          /\ new # None => CountsItsCall(new)'
  BY DEF ScreenStep
<1>3. screen' \in [Screens -> ScreenStates \cup {None}]
  BY <1>1, <1>2
<1>4. ASSUME NEW r \in Screens, screen'[r] # None
      PROVE  CountsItsCall(screen[r])'
  <2>1. CASE r = s
    <3>1. screen'[r] = new
      BY <1>1, <1>2, <2>1
    <3> QED
      BY <1>2, <1>4, <3>1 DEF CountsItsCall, ScreenStates, InTime, App!IsCurrent, App!Accountable
  <2>2. CASE r # s
    <3>1. PICK old : old = screen[r]
      OBVIOUS
    <3>2. screen'[r] = old
      BY <1>1, <1>2, <2>2, <3>1
    <3>3. CountsItsCall(old)
      BY <3>1, <3>2, <1>4 DEF AppInv, ScreensCountTheirCall
    <3>4. old \in ScreenStates /\ old.id \in issued /\ old.id \in CallNames /\ old.seconds \in Nat
      BY <3>3 DEF CountsItsCall, ScreenStates
    <3>5. old.id \in issued' /\ (old.id \notin hasty' => InTime(old))
      BY <3>3, <3>4 DEF History, CountsItsCall
    <3>6. App!IsCurrent(old.id)' => old.seconds <= App!Accountable(old.id)'
      <4>1. App!IsCurrent(old.id)' => App!IsCurrent(old.id)
        BY <3>4 DEF History
      <4>2. /\ App!Accountable(old.id) \in Nat /\ App!Accountable(old.id)' \in Nat
            /\ App!Accountable(old.id) <= App!Accountable(old.id)'
        BY <3>4, AccountableGrows
      <4>3. App!IsCurrent(old.id) => old.seconds <= App!Accountable(old.id)
        BY <3>3 DEF CountsItsCall
      <4> QED
        BY <3>4, <4>1, <4>2, <4>3
    <3>7. CountsItsCall(old)'
      BY <3>4, <3>5, <3>6 DEF CountsItsCall, InTime
    <3> QED
      BY <3>2, <3>7 DEF CountsItsCall, InTime, App!IsCurrent, App!Accountable
  <2> QED
    BY <2>1, <2>2
<1> QED
  BY <1>3, <1>4 DEF ScreensCountTheirCall

\* The durations that stand are still accounted for.
Current == _currentCall # None => _currentCall.durationSeconds <= App!Accountable(_currentCall.id)
Recorded ==
    \A i \in 1..Len(_history) : _history[i].durationSeconds <= App!Accountable(_history[i].id)

LEMMA StaysAccountable ==
  ASSUME AppInv, History, NEW c \in CallNames, NEW d \in Nat, d <= App!Accountable(c)
  PROVE  d <= App!Accountable(c)'
  BY AccountableGrows

LEMMA CurrentKeeps ==
  ASSUME AppInv, History, UNCHANGED _currentCall
  PROVE  Current'
<1> SUFFICES ASSUME _currentCall # None
             PROVE  Current'
  BY DEF Current
<1>1. _currentCall \in App!ActiveCalls
  BY DEF AppInv, AppRecords
<1>2. PICK c, d : c = _currentCall.id /\ d = _currentCall.durationSeconds
  OBVIOUS
<1>3. c \in CallNames /\ d \in Nat
  BY <1>1, <1>2 DEF App!ActiveCalls
<1>4. d <= App!Accountable(c)
  BY <1>2 DEF AppInv, App!DurationIsOwn
<1>5. d <= App!Accountable(c)'
  BY <1>3, <1>4, StaysAccountable
<1> QED
  BY <1>2, <1>5 DEF Current, App!Accountable

LEMMA RecordedKeeps ==
  ASSUME AppInv, History, UNCHANGED _history
  PROVE  Recorded'
<1> SUFFICES ASSUME NEW i \in 1..Len(_history)
             PROVE  (_history[i].durationSeconds <= App!Accountable(_history[i].id))'
  BY DEF Recorded
<1> DEFINE R == [id : CallNames, durationSeconds : Nat, status : Statuses]
<1>1. _history \in Seq(R)
  BY DEF AppInv, AppRecords
<1> HIDE DEF R
<1>2. _history[i] \in R
  BY <1>1
<1>3. PICK c, d : c = _history[i].id /\ d = _history[i].durationSeconds
  OBVIOUS
<1>4. c \in CallNames /\ d \in Nat
  BY <1>2, <1>3 DEF R
<1>5. d <= App!Accountable(c)
  BY <1>3 DEF AppInv, App!DurationIsOwn
<1>6. d <= App!Accountable(c)'
  BY <1>4, <1>5, StaysAccountable
<1> QED
  BY <1>3, <1>6 DEF App!Accountable

\* A step of the screens alone, which may make calls hasty.
LEMMA OnlyScreens ==
  ASSUME AppInv, NEW s \in Screens, ScreenStep(s),
         UNCHANGED <<_currentCall, _history, issued, ticks>>,
         hasty \subseteq hasty', hasty' \subseteq CallNames
  PROVE  AppInv'
<1>1. History
  <2>1. \A c \in CallNames, whose \in App!Whose : ticks[c][whose] <= ticks'[c][whose]
    BY DEF AppInv, AppRecords
  <2>2. \A c \in issued : App!IsCurrent(c)' => App!IsCurrent(c)
    BY DEF App!IsCurrent
  <2> QED
    BY <2>1, <2>2 DEF History, AppInv, AppRecords
<1>2. screen' \in [Screens -> ScreenStates \cup {None}] /\ ScreensCountTheirCall'
  BY <1>1, ScreenStepKeeps
<1>3. Current' /\ Recorded'
  BY <1>1, CurrentKeeps, RecordedKeeps
<1>4. App!DurationIsOwn'
  BY <1>3 DEF App!DurationIsOwn, Current, Recorded
<1>5. AppRecords' /\ KnownIdsWereIssued'
  BY <1>2 DEF AppInv, AppRecords, KnownIdsWereIssued
<1> QED
  BY <1>2, <1>4, <1>5 DEF AppInv

\* A call begins under an id nothing has had.
LEMMA BeginKeepsApp ==
  ASSUME AppInv, NEW s \in Screens, ScreenStep(s), NEW id \in CallNames, NEW isIncoming \in BOOLEAN,
         App!Begin(id, isIncoming), UNCHANGED <<_history, ticks>>,
         hasty \subseteq hasty', hasty' \subseteq CallNames
  PROVE  AppInv'
<1>1. /\ _currentCall' = [id |-> id, isIncoming |-> isIncoming, durationSeconds |-> 0]
      /\ issued' = issued \cup {id} /\ id \notin issued
  BY DEF App!Begin
<1>2. _currentCall' \in App!ActiveCalls /\ _currentCall'.id = id /\ _currentCall'.durationSeconds = 0
  BY <1>1 DEF App!ActiveCalls
<1>3. History
  <2>1. \A c \in CallNames, whose \in App!Whose : ticks[c][whose] <= ticks'[c][whose]
    BY DEF AppInv, AppRecords
  <2>2. \A c \in issued : App!IsCurrent(c)' => App!IsCurrent(c)
    BY <1>1, <1>2 DEF App!IsCurrent
  <2> QED
    BY <1>1, <2>1, <2>2 DEF History, AppInv, AppRecords
<1>4. screen' \in [Screens -> ScreenStates \cup {None}] /\ ScreensCountTheirCall'
  BY <1>3, ScreenStepKeeps
<1>5. AppRecords'
  BY <1>1, <1>2, <1>4 DEF AppInv, AppRecords
<1>6. KnownIdsWereIssued'
  BY <1>1, <1>2 DEF AppInv, KnownIdsWereIssued
<1>7. App!DurationIsOwn'
  <2>1. 0 <= App!Accountable(id)'
    BY <1>3, AccountableGrows
  <2>2. Recorded'
    BY <1>3, RecordedKeeps
  <2>3. 0 <= App!Accountable(_currentCall.id)'
    BY <2>1, <1>2 DEF App!Accountable
  <2> QED
    BY <1>2, <2>2, <2>3 DEF App!DurationIsOwn, Recorded
<1> QED
  BY <1>4, <1>5, <1>6, <1>7 DEF AppInv

\* What a record put before a history leaves where.
LEMMA Prepended ==
  ASSUME NEW S, NEW x \in S, NEW q \in Seq(S)
  PROVE  /\ <<x>> \o q \in Seq(S)
         /\ Len(q) \in Nat /\ Len(<<x>> \o q) = Len(q) + 1
         /\ (<<x>> \o q)[1] = x
         /\ \A i \in 1..Len(q) : (<<x>> \o q)[i + 1] = q[i]
<1>1. <<x>> \in Seq(S) /\ Len(<<x>>) = 1 /\ <<x>>[1] = x
  OBVIOUS
<1>2. /\ <<x>> \o q \in Seq(S) /\ Len(q) \in Nat
      /\ Len(<<x>> \o q) = 1 + Len(q)
      /\ \A i \in 1 .. 1 + Len(q) : (<<x>> \o q)[i] = IF i <= 1 THEN <<x>>[i] ELSE q[i - 1]
  BY <1>1, ConcatProperties
<1> QED
  BY <1>1, <1>2

\* The current call moves into the history as it is.
LEMMA CloseFacts ==
  ASSUME AppInv, _currentCall # None, NEW status \in Statuses, App!Close(status)
  PROVE  /\ _currentCall \in App!ActiveCalls
         /\ _currentCall' = None
         /\ _history' \in Seq([id : CallNames, durationSeconds : Nat, status : Statuses])
         /\ Len(_history) \in Nat /\ Len(_history') = Len(_history) + 1
         /\ _history'[1] = App!toRecord(status)
         /\ \A i \in 1..Len(_history) : _history'[i + 1] = _history[i]
<1>1. _currentCall \in App!ActiveCalls
      /\ _history \in Seq([id : CallNames, durationSeconds : Nat, status : Statuses])
  BY DEF AppInv, AppRecords
<1>2. App!toRecord(status) \in [id : CallNames, durationSeconds : Nat, status : Statuses]
  BY <1>1 DEF App!ActiveCalls, App!toRecord
<1>3. _history' = <<App!toRecord(status)>> \o _history /\ _currentCall' = None
  BY DEF App!Close
<1> DEFINE R == [id : CallNames, durationSeconds : Nat, status : Statuses]
           x == App!toRecord(status)
<1> HIDE DEF R, x
<1>4. _history \in Seq(R) /\ x \in R /\ _history' = <<x>> \o _history
  BY <1>1, <1>2, <1>3 DEF R, x
<1>5. /\ _history' \in Seq(R)
      /\ Len(_history) \in Nat /\ Len(_history') = Len(_history) + 1
      /\ _history'[1] = x
      /\ \A i \in 1..Len(_history) : _history'[i + 1] = _history[i]
  BY <1>4, Prepended
<1> QED
  BY <1>1, <1>3, <1>5 DEF R, x

LEMMA CloseKeepsApp ==
  ASSUME AppInv, NEW s \in Screens, ScreenStep(s), _currentCall # None, NEW status \in Statuses,
         App!Close(status)
  PROVE  AppInv'
<1>1. UNCHANGED <<issued, ticks, hasty>>
  BY DEF App!Close
<1>2. /\ _currentCall \in App!ActiveCalls
      /\ _currentCall' = None
      /\ _history' \in Seq([id : CallNames, durationSeconds : Nat, status : Statuses])
      /\ Len(_history) \in Nat /\ Len(_history') = Len(_history) + 1
      /\ _history'[1] = App!toRecord(status)
      /\ \A i \in 1..Len(_history) : _history'[i + 1] = _history[i]
  BY CloseFacts
<1>3. History
  <2>1. \A c \in CallNames, whose \in App!Whose : ticks[c][whose] <= ticks'[c][whose]
    BY <1>1 DEF AppInv, AppRecords
  <2>2. \A c \in issued : ~App!IsCurrent(c)'
    BY <1>2 DEF App!IsCurrent
  <2> QED
    BY <1>1, <2>1, <2>2 DEF History, AppInv, AppRecords
<1>4. screen' \in [Screens -> ScreenStates \cup {None}] /\ ScreensCountTheirCall'
  BY <1>3, ScreenStepKeeps
<1>5. AppRecords'
  BY <1>1, <1>2, <1>4 DEF AppInv, AppRecords
<1>6. _history'[1].id = _currentCall.id /\ _history'[1].durationSeconds = _currentCall.durationSeconds
  BY <1>2 DEF App!toRecord
<1>7. ASSUME NEW i \in 1..Len(_history'), i # 1
      PROVE  i - 1 \in 1..Len(_history) /\ _history'[i] = _history[i - 1]
  <2>1. i - 1 \in 1..Len(_history) /\ (i - 1) + 1 = i
    BY <1>2, <1>7
  <2> QED
    BY <2>1, <1>2
<1>8. KnownIdsWereIssued'
  BY <1>1, <1>2, <1>6, <1>7 DEF AppInv, KnownIdsWereIssued
<1>9. \A i \in 1..Len(_history') :
          _history'[i].durationSeconds <= App!Accountable(_history[i].id)'
  BY <1>1, <1>2, <1>6, <1>7 DEF AppInv, App!DurationIsOwn, App!Accountable
<1>10. App!DurationIsOwn'
  BY <1>2, <1>9 DEF App!DurationIsOwn
<1> QED
  BY <1>4, <1>5, <1>8, <1>10 DEF AppInv

\* A tick for the current call is accounted for: by the timer that was started for it,
\* or by another once the call is hasty.
LEMMA TickCounts ==
  ASSUME AppInv, NEW s \in Screens, NEW whose \in App!Whose, App!Tick(s, whose),
         App!IsCurrent(screen[s].id)
  PROVE  /\ History
         /\ \E new \in ScreenStates :
                /\ screen' = [screen EXCEPT ![s] = new] /\ screen'[s] = new
                /\ new.seconds \in Nat /\ new.id = screen[s].id
                /\ CountsItsCall(new)'
         /\ _currentCall' = [_currentCall EXCEPT !.durationSeconds = screen'[s].seconds]
         /\ _currentCall' \in App!ActiveCalls /\ _currentCall'.id = screen[s].id
<1>1. /\ screen \in [Screens -> ScreenStates \cup {None}]
      /\ ticks \in [CallNames -> [App!Whose -> Nat]]
      /\ _currentCall \in App!ActiveCalls /\ _currentCall # None
      /\ _currentCall.id = screen[s].id
  BY DEF AppInv, AppRecords, App!IsCurrent
<1>2. PICK c : c = screen[s].id
  OBVIOUS
<1>3. /\ screen[s] # None /\ App!Running(screen[s], whose)
      /\ screen' = [screen EXCEPT ![s].seconds = @ + 1]
      /\ _currentCall' = [_currentCall EXCEPT !.durationSeconds = screen'[s].seconds]
      /\ ticks' = [ticks EXCEPT ![c][whose] = @ + 1]
      /\ UNCHANGED <<_history, issued, hasty>>
  BY <1>2 DEF App!Tick, App!Open
<1>4. CountsItsCall(screen[s])
  BY <1>3 DEF AppInv, ScreensCountTheirCall
<1>5. /\ screen[s] \in ScreenStates /\ c \in CallNames /\ screen[s].seconds \in Nat
      /\ c \in issued /\ screen[s].seconds <= App!Accountable(c)
      /\ c \notin hasty => InTime(screen[s])
  BY <1>2, <1>4 DEF CountsItsCall, ScreenStates
<1>6. PICK new : new = [screen[s] EXCEPT !.seconds = @ + 1]
  OBVIOUS
<1>7. /\ new \in ScreenStates /\ new.id = c /\ new.seconds = screen[s].seconds + 1
      /\ InTime(screen[s]) => InTime(new)
  BY <1>2, <1>5, <1>6 DEF ScreenStates, InTime
<1>8. screen' = [screen EXCEPT ![s] = new] /\ screen'[s] = new
  BY <1>1, <1>3, <1>6
<1>9. /\ _currentCall' \in App!ActiveCalls /\ _currentCall'.id = c
  <2>1. screen'[s].seconds \in Nat
    BY <1>5, <1>7, <1>8
  <2> QED
    BY <1>1, <1>2, <1>3, <2>1 DEF App!ActiveCalls
<1>10. /\ ticks' \in [CallNames -> [App!Whose -> Nat]]
       /\ ticks'[c][whose] = ticks[c][whose] + 1
       /\ \A d \in CallNames, w \in App!Whose :
              ticks'[d][w] = IF d = c /\ w = whose THEN ticks[d][w] + 1 ELSE ticks[d][w]
  BY <1>1, <1>3, <1>5
<1>11. History
  <2>1. \A d \in CallNames, w \in App!Whose : ticks[d][w] \in Nat /\ ticks[d][w] <= ticks'[d][w]
    BY <1>1, <1>10
  <2>2. \A d \in issued : App!IsCurrent(d)' => App!IsCurrent(d)
    BY <1>1, <1>2, <1>9 DEF App!IsCurrent
  <2> QED
    BY <1>3, <1>10, <2>1, <2>2 DEF History, AppInv, AppRecords
<1>12. whose = "other" => c \in hasty
  <2> SUFFICES ASSUME whose = "other", c \notin hasty
               PROVE  FALSE
    OBVIOUS
  <2>1. /\ screen[s].timer \in {None, screen[s].id} /\ screen[s].strays = 0
    BY <1>5 DEF InTime
  <2>2. screen[s].timer \notin {None, screen[s].id} \/ screen[s].strays > 0
    BY <1>3 DEF App!Running
  <2> QED
    BY <2>1, <2>2
<1>13. App!Accountable(c)' = App!Accountable(c) + 1
  <2>1. "own" \in App!Whose /\ "other" \in App!Whose /\ (whose = "own" \/ whose = "other")
    BY DEF App!Whose
  <2>2. /\ ticks[c]["own"] \in Nat /\ ticks[c]["other"] \in Nat
        /\ ticks'[c]["own"] = IF whose = "own" THEN ticks[c]["own"] + 1 ELSE ticks[c]["own"]
        /\ ticks'[c]["other"] = IF whose = "other" THEN ticks[c]["other"] + 1 ELSE ticks[c]["other"]
    BY <1>1, <1>5, <1>10, <2>1
  <2>3. CASE whose = "own"
    BY <1>3, <2>2, <2>3 DEF App!Accountable
  <2>4. CASE whose = "other"
    BY <1>3, <1>12, <2>2, <2>4 DEF App!Accountable
  <2> QED
    BY <2>1, <2>3, <2>4
<1>14. CountsItsCall(new)'
  <2>1. App!Accountable(c) \in Nat
    BY <1>5, <1>11, AccountableGrows
  <2>2. new.seconds <= App!Accountable(c)'
    BY <1>5, <1>7, <1>13, <2>1
  <2>3. new.seconds <= App!Accountable(new.id)'
    BY <1>7, <2>2
  <2>4. new.id \in issued' /\ (new.id \notin hasty' => InTime(new)')
    BY <1>3, <1>5, <1>7 DEF InTime
  <2> QED
    BY <1>7, <2>3, <2>4 DEF CountsItsCall
<1>15. new.seconds \in Nat
  BY <1>5, <1>7
<1> QED
  BY <1>2, <1>3, <1>7, <1>8, <1>9, <1>11, <1>14, <1>15

LEMMA TickKeepsApp ==
  ASSUME AppInv, NEW s \in Screens, NEW whose \in App!Whose, App!Tick(s, whose)
  PROVE  AppInv'
<1>1. UNCHANGED <<_history, issued, hasty>>
  BY DEF App!Tick
<1>2. CASE App!IsCurrent(screen[s].id)
  <2>1. PICK new \in ScreenStates :
            /\ screen' = [screen EXCEPT ![s] = new] /\ screen'[s] = new
            /\ new.seconds \in Nat /\ new.id = screen[s].id
            /\ CountsItsCall(new)'
    BY <1>2, TickCounts
  <2>2. /\ History
        /\ _currentCall' = [_currentCall EXCEPT !.durationSeconds = new.seconds]
        /\ _currentCall' \in App!ActiveCalls /\ _currentCall'.id = new.id
    BY <1>2, <2>1, TickCounts
  <2>3. _currentCall'.durationSeconds = new.seconds
    BY <1>2, <2>2 DEF AppInv, AppRecords, App!IsCurrent, App!ActiveCalls
  <2>4. ScreenStep(s)
    BY <2>1 DEF ScreenStep
  <2>5. screen' \in [Screens -> ScreenStates \cup {None}] /\ ScreensCountTheirCall'
    BY <2>2, <2>4, ScreenStepKeeps
  <2>6. AppRecords'
    BY <1>1, <2>2, <2>5 DEF AppInv, AppRecords, History
  <2>7. _currentCall'.id \in issued'
    BY <2>1, <2>2 DEF CountsItsCall
  <2>8. KnownIdsWereIssued'
    BY <1>1, <2>7 DEF AppInv, KnownIdsWereIssued
  <2>9. Recorded'
    BY <1>1, <2>2, RecordedKeeps
  <2>10. new.seconds <= App!Accountable(new.id)'
    <3>1. _currentCall' # None
      BY <2>2, AppAssumption DEF App!AppCallsAssumption
    <3>2. App!IsCurrent(new.id)'
      BY <2>2, <3>1 DEF App!IsCurrent
    <3> QED
      BY <2>1, <3>2 DEF CountsItsCall
  <2>11. App!DurationIsOwn'
    BY <2>2, <2>3, <2>9, <2>10 DEF App!DurationIsOwn, Recorded, App!Accountable
  <2> QED
    BY <2>5, <2>6, <2>8, <2>11 DEF AppInv
<1>3. CASE ~App!IsCurrent(screen[s].id)
  <2>1. /\ screen[s] # None /\ UNCHANGED <<_currentCall, ticks>>
        /\ screen' = [screen EXCEPT ![s].seconds = @ + 1]
    BY <1>3 DEF App!Tick, App!Open
  <2>2. CountsItsCall(screen[s]) /\ screen \in [Screens -> ScreenStates \cup {None}]
    BY <2>1 DEF AppInv, AppRecords, ScreensCountTheirCall
  <2>3. PICK new : new = [screen[s] EXCEPT !.seconds = @ + 1]
    OBVIOUS
  <2>4. /\ new \in ScreenStates /\ new.id = screen[s].id
        /\ InTime(screen[s]) => InTime(new)
    BY <2>2, <2>3 DEF CountsItsCall, ScreenStates, InTime
  <2>5. /\ new.id \in issued' /\ (new.id \notin hasty' => InTime(new)')
        /\ ~App!IsCurrent(new.id)'
    BY <1>1, <1>3, <2>1, <2>2, <2>4 DEF CountsItsCall, App!IsCurrent, InTime
  <2>6. CountsItsCall(new)'
    BY <2>4, <2>5 DEF CountsItsCall
  <2>7. screen' = [screen EXCEPT ![s] = new]
    BY <2>1, <2>2, <2>3
  <2>8. ScreenStep(s)
    BY <2>4, <2>6, <2>7 DEF ScreenStep
  <2> QED
    BY <1>1, <2>1, <2>8, OnlyScreens DEF AppInv, AppRecords
<1> QED
  BY <1>2, <1>3

\* A screen that keeps its call and seconds keeps count, if it is in time when it must be.
LEMMA SameCall ==
  ASSUME AppInv, NEW s \in Screens, screen[s] # None, NEW new \in ScreenStates,
         new.id = screen[s].id, new.seconds = screen[s].seconds,
         screen' = [screen EXCEPT ![s] = new],
         UNCHANGED <<_currentCall, _history, issued, ticks>>,
         hasty' = hasty \/ hasty' = hasty \cup {new.id},
         InTime(screen[s]) /\ new.id \notin hasty' => InTime(new)
  PROVE  AppInv'
<1>1. CountsItsCall(screen[s])
  BY DEF AppInv, ScreensCountTheirCall
<1>2. new.id \in CallNames /\ new.id \in issued' /\ (new.id \notin hasty' => InTime(new)')
  BY <1>1 DEF CountsItsCall, ScreenStates, InTime
<1>3. hasty \subseteq hasty' /\ hasty' \subseteq CallNames
  BY <1>2 DEF AppInv, AppRecords
<1>4. App!IsCurrent(new.id)' => new.seconds <= App!Accountable(new.id)'
  <2> SUFFICES ASSUME App!IsCurrent(new.id)'
               PROVE  new.seconds <= App!Accountable(new.id)'
    OBVIOUS
  <2>1. App!IsCurrent(new.id)
    BY DEF App!IsCurrent
  <2>2. new.seconds <= App!Accountable(new.id)
    BY <1>1, <2>1 DEF CountsItsCall
  <2>3. /\ ticks[new.id]["own"] \in Nat /\ ticks[new.id]["other"] \in Nat /\ new.seconds \in Nat
    BY <1>2 DEF AppInv, AppRecords, App!Whose, ScreenStates
  <2> QED
    BY <1>3, <2>2, <2>3 DEF App!Accountable
<1>5. ScreenStep(s)
  BY <1>2, <1>4 DEF ScreenStep, CountsItsCall
<1> QED
  BY <1>3, <1>5, OnlyScreens

\* A screen that takes a call just issued has counted nothing for it yet.
LEMMA NewCall ==
  ASSUME AppInv, NEW s \in Screens, NEW id \in CallNames, NEW isIncoming \in BOOLEAN,
         App!Begin(id, isIncoming), UNCHANGED <<_history, ticks>>,
         NEW new \in ScreenStates, new.id = id, new.seconds = 0,
         screen' = [screen EXCEPT ![s] = new],
         hasty' = hasty \/ hasty' = hasty \cup {id},
         id \notin hasty' => InTime(new)
  PROVE  AppInv'
<1>1. issued' = issued \cup {id}
  BY DEF App!Begin
<1>2. hasty \subseteq hasty' /\ hasty' \subseteq CallNames
  BY DEF AppInv, AppRecords
<1>3. new.seconds <= App!Accountable(new.id)'
  <2>1. ticks'[id]["own"] \in Nat /\ ticks'[id]["other"] \in Nat
    BY DEF AppInv, AppRecords, App!Whose
  <2> QED
    BY <2>1 DEF App!Accountable
<1>4. ScreenStep(s)
  BY <1>1, <1>3 DEF ScreenStep, CountsItsCall, InTime
<1> QED
  BY <1>2, <1>4, BeginKeepsApp

\* Every step keeps the invariant.
LEMMA StepKeepsApp ==
  ASSUME AppInv, [App!Next]_App!vars
  PROVE  AppInv'
<1>1. ASSUME NEW s \in Screens, screen[s] # None
      PROVE  /\ screen[s] \in ScreenStates /\ CountsItsCall(screen[s])
             /\ screen[s].id \in CallNames /\ screen[s].starts \in Seq(CallNames)
             /\ screen[s].strays \in Nat
             /\ screen[s].id \notin hasty => InTime(screen[s])
  BY <1>1 DEF AppInv, ScreensCountTheirCall, CountsItsCall, ScreenStates
<1>2. screen \in [Screens -> ScreenStates \cup {None}] /\ None \notin CallNames
  BY AppAssumption DEF AppInv, AppRecords, App!AppCallsAssumption
<1>3. ASSUME NEW s \in Screens, NEW isIncoming \in BOOLEAN, App!initState(s, isIncoming)
      PROVE  AppInv'
  <2> DEFINE state == IF isIncoming THEN "incoming" ELSE "dialing"
             first(id) == [id |-> id, seconds |-> 0, state |-> state, shown |-> state,
                           starts |-> IF isIncoming THEN <<>> ELSE <<id>>,
                           timer |-> None, strays |-> 0]
  <2>1. PICK id \in CallNames :
            /\ App!Begin(id, isIncoming)
            /\ screen' = [screen EXCEPT ![s] = first(id)]
            /\ UNCHANGED <<_history, ticks, hasty>>
    BY <1>3 DEF App!initState
  <2>2. PICK new : new = first(id)
    OBVIOUS
  <2>3. new \in ScreenStates /\ new.id = id /\ new.seconds = 0 /\ InTime(new)
    BY <2>2 DEF ScreenStates, States, InTime
  <2> HIDE DEF first, state
  <2> QED
    BY <2>1, <2>2, <2>3, NewCall
<1>4. ASSUME NEW s \in Screens, App!build(s)
      PROVE  AppInv'
  <2>1. PICK new : new = [screen[s] EXCEPT !.shown = screen[s].state]
    OBVIOUS
  <2>2. /\ screen[s] # None
        /\ screen' = [screen EXCEPT ![s] = new]
        /\ UNCHANGED <<_currentCall, _history, issued, ticks, hasty>>
    BY <1>2, <1>4, <2>1 DEF App!build, App!Open
  <2>3. /\ new \in ScreenStates /\ new.id = screen[s].id /\ new.seconds = screen[s].seconds
        /\ InTime(screen[s]) => InTime(new)
    BY <1>1, <2>1, <2>2 DEF ScreenStates, InTime
  <2> QED
    BY <2>2, <2>3, SameCall
<1>5. ASSUME NEW s \in Screens, App!_acceptCall(s)
      PROVE  AppInv'
  <2>1. PICK new : new = [screen[s] EXCEPT !.state = IF @ = "incoming" THEN "dialing" ELSE @,
                                           !.starts = Append(@, screen[s].id)]
    OBVIOUS
  <2>2. /\ screen[s] # None /\ screen[s].shown = "incoming"
        /\ screen' = [screen EXCEPT ![s] = new]
        /\ hasty' = IF screen[s].state = "incoming" THEN hasty ELSE hasty \cup {screen[s].id}
        /\ UNCHANGED <<_currentCall, _history, issued, ticks>>
    BY <1>2, <1>5, <2>1 DEF App!_acceptCall, App!Shows, App!Open
  <2>3. Append(screen[s].starts, screen[s].id) \in Seq(CallNames)
    BY <1>1, <2>2
  <2>4. new \in ScreenStates /\ new.id = screen[s].id /\ new.seconds = screen[s].seconds
    BY <1>1, <2>1, <2>2, <2>3 DEF ScreenStates, States
  <2>5. InTime(screen[s]) /\ new.id \notin hasty' => InTime(new)
    <3> SUFFICES ASSUME InTime(screen[s]), screen[s].state = "incoming"
                 PROVE  InTime(new)
      BY <2>2, <2>4
    <3>1. screen[s].starts = <<>> /\ screen[s].timer = None /\ screen[s].strays = 0
      BY DEF InTime
    <3>2. /\ new.starts = <<new.id>> /\ new.timer = None /\ new.strays = 0
          /\ new.state = "dialing" /\ new.shown = "incoming"
      BY <1>1, <2>1, <2>2, <2>4, <3>1 DEF ScreenStates
    <3> QED
      BY <3>2 DEF InTime
  <2> QED
    BY <2>2, <2>4, <2>5, SameCall
<1>6. ASSUME NEW s \in Screens, App!Connected(s)
      PROVE  AppInv'
  <2>1. PICK new : new = [screen[s] EXCEPT !.starts = Tail(@), !.state = "connected",
                                           !.timer = Head(screen[s].starts),
                                           !.strays = IF screen[s].timer = None THEN @ ELSE @ + 1]
    OBVIOUS
  <2>2. /\ screen[s] # None /\ screen[s].starts # <<>>
        /\ screen' = [screen EXCEPT ![s] = new]
        /\ UNCHANGED <<_currentCall, _history, issued, ticks, hasty>>
    BY <1>2, <1>6, <2>1 DEF App!Connected, App!Open
  <2>3. Tail(screen[s].starts) \in Seq(CallNames) /\ Head(screen[s].starts) \in CallNames
    BY <1>1, <2>2
  <2>4. (IF screen[s].timer = None THEN screen[s].strays ELSE screen[s].strays + 1) \in Nat
    BY <1>1, <2>2
  <2>5. new \in ScreenStates /\ new.id = screen[s].id /\ new.seconds = screen[s].seconds
    BY <1>1, <2>1, <2>2, <2>3, <2>4 DEF ScreenStates, States
  <2>6. ASSUME InTime(screen[s])
        PROVE  InTime(new)
    <3>1. /\ screen[s].starts = <<screen[s].id>> /\ screen[s].strays = 0
          /\ screen[s].state \notin {"incoming", "ended", "connected"}
      BY <2>2, <2>6 DEF InTime
    <3>2. screen[s].state = "dialing" /\ screen[s].timer = None /\ screen[s].shown # "connected"
      BY <1>1, <2>2, <2>6, <3>1 DEF InTime, ScreenStates, States
    <3>3. Head(screen[s].starts) = screen[s].id /\ Tail(screen[s].starts) = <<>>
      BY <3>1
    <3>4. /\ new.starts = <<>> /\ new.timer = new.id /\ new.strays = 0
          /\ new.state = "connected"
      BY <1>1, <2>1, <2>2, <3>1, <3>2, <3>3 DEF ScreenStates
    <3> QED
      BY <3>4 DEF InTime
  <2> QED
    BY <2>2, <2>5, <2>6, SameCall
<1>7. ASSUME NEW s \in Screens, NEW whose \in App!Whose, App!Tick(s, whose)
      PROVE  AppInv'
  BY <1>7, TickKeepsApp
<1>8. ASSUME NEW s \in Screens, screen[s] # None, NEW new \in ScreenStates \cup {None},
             new # None => /\ new.id = screen[s].id /\ new.seconds = screen[s].seconds
                           /\ InTime(screen[s]) => InTime(new),
             screen' = [screen EXCEPT ![s] = new],
             \/ App!IsCurrent(screen[s].id) /\ \E status \in Statuses : App!Close(status)
             \/ UNCHANGED <<_currentCall, _history, issued, ticks, hasty>>
      PROVE  AppInv'
  <2>1. CASE UNCHANGED <<_currentCall, _history, issued, ticks, hasty>>
    <3>1. CASE new # None
      BY <1>8, <2>1, <3>1, SameCall
    <3>2. CASE new = None
      BY <1>8, <2>1, <3>2, OnlyScreens DEF ScreenStep, AppInv, AppRecords
    <3> QED
      BY <3>1, <3>2
  <2>2. ASSUME App!IsCurrent(screen[s].id), NEW status \in Statuses, App!Close(status)
        PROVE  AppInv'
    <3>1. _currentCall # None /\ _currentCall' = None
      BY <2>2 DEF App!IsCurrent, App!Close
    <3>2. UNCHANGED <<issued, ticks, hasty>>
      BY <2>2 DEF App!Close
    <3>3. new # None => CountsItsCall(new)'
      BY <1>1, <1>8, <3>1, <3>2 DEF CountsItsCall, InTime, App!IsCurrent
    <3>4. ScreenStep(s)
      BY <1>8, <3>3 DEF ScreenStep
    <3> QED
      BY <2>2, <3>1, <3>4, CloseKeepsApp
  <2> QED
    BY <1>8, <2>1, <2>2
<1>9. ASSUME NEW s \in Screens, App!_endCall(s)
      PROVE  AppInv'
  <2>1. PICK new : new = [screen[s] EXCEPT !.state = "ended", !.timer = None]
    OBVIOUS
  <2>2. /\ screen[s] # None /\ screen[s].shown = "connected"
        /\ screen' = [screen EXCEPT ![s] = new]
        /\ \/ App!IsCurrent(screen[s].id) /\ App!Close("completed")
           \/ UNCHANGED <<_currentCall, _history, issued, ticks, hasty>>
    BY <1>2, <1>9, <2>1 DEF App!_endCall, App!endCall, App!Shows, App!Open
  <2>3. new \in ScreenStates /\ new.id = screen[s].id /\ new.seconds = screen[s].seconds
    BY <1>1, <2>1, <2>2 DEF ScreenStates, States
  <2>4. ASSUME InTime(screen[s])
        PROVE  InTime(new)
    <3>1. screen[s].starts = <<>> /\ screen[s].strays = 0
      BY <2>2, <2>4 DEF InTime
    <3>2. /\ new.starts = <<>> /\ new.timer = None /\ new.strays = 0 /\ new.state = "ended"
      BY <1>1, <2>1, <2>2, <3>1 DEF ScreenStates
    <3> QED
      BY <3>2 DEF InTime
  <2>5. "completed" \in Statuses
    BY DEF Statuses
  <2> QED
    BY <2>2, <2>3, <2>4, <2>5, <1>8
<1>10. ASSUME NEW s \in Screens, App!_rejectCall(s)
       PROVE  AppInv'
  <2> DEFINE status == IF _currentCall.isIncoming THEN "rejected" ELSE "missed"
  <2>1. /\ screen[s] # None /\ screen' = [screen EXCEPT ![s] = None]
        /\ \/ App!IsCurrent(screen[s].id) /\ App!Close(status)
           \/ UNCHANGED <<_currentCall, _history, issued, ticks, hasty>>
    BY <1>10 DEF App!_rejectCall, App!rejectCall, App!Shows, App!Open
  <2>2. status \in Statuses
    BY DEF Statuses
  <2> HIDE DEF status
  <2> QED
    BY <2>1, <2>2, <1>8
<1>11. ASSUME NEW s \in Screens, App!_callAgain(s)
       PROVE  AppInv'
  <2> DEFINE next(id) == [screen[s] EXCEPT !.id = id, !.seconds = 0, !.state = "dialing",
                                           !.starts = Append(@, id)]
  <2>0. screen[s] # None /\ screen[s].shown = "ended"
    BY <1>11 DEF App!_callAgain, App!Shows, App!Open
  <2>1. PICK id \in CallNames :
            /\ App!Begin(id, FALSE)
            /\ screen' = [screen EXCEPT ![s].id = id, ![s].seconds = 0, ![s].state = "dialing",
                                        ![s].starts = Append(@, id)]
            /\ hasty' = IF screen[s].state = "ended" /\ screen[s].id \notin hasty THEN hasty
                        ELSE hasty \cup {id}
            /\ UNCHANGED <<_history, ticks>>
    BY <1>11 DEF App!_callAgain
  <2>2. PICK new : new = next(id)
    OBVIOUS
  <2>3. /\ screen' = [screen EXCEPT ![s] = new]
        /\ Append(screen[s].starts, id) \in Seq(CallNames)
    <3>1. screen' = [screen EXCEPT ![s] = new]
      BY <1>2, <2>1, <2>2
    <3>2. screen[s].starts \in Seq(CallNames)
      BY <1>1, <2>0
    <3> HIDE DEF next
    <3> QED
      BY <3>1, <3>2
  <2>4. new \in ScreenStates /\ new.id = id /\ new.seconds = 0
    BY <1>1, <2>0, <2>2, <2>3 DEF ScreenStates, States
  <2>5. id \notin hasty' => InTime(new)
    <3> SUFFICES ASSUME screen[s].state = "ended", screen[s].id \notin hasty
                 PROVE  InTime(new)
      BY <2>1
    <3>1. screen[s].starts = <<>> /\ screen[s].timer = None /\ screen[s].strays = 0
      BY <1>1, <2>0 DEF InTime
    <3>2. /\ new.starts = <<new.id>> /\ new.timer = None /\ new.strays = 0
          /\ new.state = "dialing" /\ new.shown = "ended"
      BY <1>1, <2>0, <2>2, <2>4, <3>1 DEF ScreenStates
    <3> QED
      BY <3>2 DEF InTime
  <2> HIDE DEF next
  <2> QED
    BY <2>1, <2>3, <2>4, <2>5, NewCall
<1>12. ASSUME NEW s \in Screens, App!dispose(s)
       PROVE  AppInv'
  BY <1>12, <1>8 DEF App!dispose, App!Open
<1>13. CASE UNCHANGED App!vars
  BY <1>13 DEF App!vars, AppInv, AppRecords, ScreensCountTheirCall, KnownIdsWereIssued,
               App!DurationIsOwn, CountsItsCall, InTime, App!IsCurrent, App!Accountable
<1> QED
  BY <1>3, <1>4, <1>5, <1>6, <1>7, <1>9, <1>10, <1>11, <1>12, <1>13 DEF App!Next

\* No call is shown or logged with seconds that another call's start or timer counted,
\* on its own screen or on another, unless a button of its screen was pressed once more
\* before it was drawn anew (voice_call_screen.dart, call_service.dart): for any screens,
\* calls and seconds.
THEOREM SecondsAreOwn == MCSpec => []DurationIsOwn
<1>1. MCInit => AppInv
  BY InitApp DEF MCInit
<1>2. AppInv /\ [MCNext]_all_vars => AppInv'
  BY StepKeepsApp DEF MCNext, all_vars, app_vars, App!vars
<1>3. AppInv => DurationIsOwn
  BY DEF AppInv, DurationIsOwn
<1> QED
  BY <1>1, <1>2, <1>3, PTL DEF MCSpec

-----------------------------------------------------------------------------
(* Both implement CallLog.  The signalling's: a new session is one the node never  *)
(* had, and its twin, if any, makes way for it; the end of a call closes it.       *)

\* No two open sessions of a node have one key.
LEMMA KeysTellSessionsApart ==
  ASSUME CallsInv, NEW n \in Nodes, NEW s \in active_calls[n], NEW t \in active_calls[n],
         s.key = t.key
  PROVE  s = t
<1>1. HasItsKey(n, s) /\ HasItsKey(n, t)
  BY DEF CallsInv, SessionsAreWellFormed
<1>2. s.call_id = t.call_id
  BY <1>1 DEF HasItsKey
<1> QED
  BY <1>2 DEF CallsInv, OneForACall

\* Opening a session of the signalling is the log's Open.
LEMMA SessionOpens ==
  ASSUME CallsInv, NEW n \in Nodes, NEW id, NEW peer, NEW direction, NEW state,
         Session(n, id, peer, direction, state), UNCHANGED call_history
  PROVE  Log!Open(n, Len(drawn) + 1)
<1> DEFINE k == Len(drawn) + 1
           new == [call_id |-> id, peer |-> peer, direction |-> direction, state |-> state,
                   key |-> k]
           cur == [m \in Nodes |-> Keys(active_calls[m])]
           gone == Keys(Active(n, id))
<1>1. Records /\ OneForACall /\ SessionsAreWellFormed /\ LoggedKeysWereDrawn
  BY DEF CallsInv
<1>2. Len(drawn) \in Nat
  BY <1>1 DEF Records
<1>3. active_calls' = [active_calls EXCEPT ![n] = (@ \ Active(n, id)) \cup {new}]
  BY DEF Session, Insert
<1>4. \A m \in Nodes : active_calls'[m] =
          IF m = n THEN (active_calls[n] \ Active(n, id)) \cup {new} ELSE active_calls[m]
  BY <1>1, <1>3 DEF Records
<1>5. new.key = k
  OBVIOUS
<1> HIDE DEF new
<1>6. Keys(active_calls'[n]) = (Keys(active_calls[n]) \ gone) \cup {k}
  <2>1. ASSUME NEW s \in active_calls[n]
        PROVE  s \in Active(n, id) <=> s.key \in gone
    BY KeysTellSessionsApart DEF Keys, Active
  <2>2. ASSUME NEW x \in Keys(active_calls'[n])
        PROVE  x \in (Keys(active_calls[n]) \ gone) \cup {k}
    BY <1>4, <1>5, <2>1 DEF Keys
  <2>3. ASSUME NEW x \in (Keys(active_calls[n]) \ gone) \cup {k}
        PROVE  x \in Keys(active_calls'[n])
    <3>1. CASE x = k
      BY <3>1, <1>4, <1>5 DEF Keys
    <3>2. CASE x # k
      <4>1. PICK s \in active_calls[n] : s.key = x
        BY <2>3, <3>2 DEF Keys
      <4>2. s \in active_calls'[n]
        BY <4>1, <2>1, <2>3, <3>2, <1>4
      <4> QED
        BY <4>1, <4>2 DEF Keys
    <3> QED
      BY <3>1, <3>2
  <2> QED
    BY <2>2, <2>3
<1>7. cur' = [cur EXCEPT ![n] = (@ \ gone) \cup {k}]
  BY <1>4, <1>6
<1>8. gone \in {{}} \cup {{r} : r \in cur[n]}
  <2>1. CASE Active(n, id) = {}
    BY <2>1 DEF Keys
  <2>2. CASE Active(n, id) # {}
    <3>1. PICK s \in active_calls[n] : s.call_id = id
      BY <2>2 DEF Active
    <3>2. Active(n, id) = {s}
      BY <3>1, <1>1 DEF Active, OneForACall
    <3>3. gone = {s.key} /\ s.key \in cur[n]
      BY <3>1, <3>2 DEF Keys
    <3> QED
      BY <3>3
  <2> QED
    BY <2>1, <2>2
<1>9. k \notin cur[n]
  <2>1. \A s \in active_calls[n] : s.key \in 1..Len(drawn)
    BY <1>1 DEF SessionsAreWellFormed, HasItsKey
  <2> QED
    BY <2>1, <1>2 DEF Keys
<1>10. k \notin Log!Ended(n)
  <2>1. LoggedKeys(n) = [i \in 1..Len(call_history[n]) |-> call_history[n][i].key]
        /\ Len(call_history[n]) \in Nat
    <3> DEFINE Closed == {s \in CallSessions : s.state = "Ended"}
    <3>1. call_history \in [Nodes -> Seq(Closed)]
      BY <1>1 DEF Records
    <3> HIDE DEF Closed
    <3>2. call_history[n] \in Seq(Closed)
      BY <3>1
    <3> QED
      BY <3>2 DEF LoggedKeys
  <2>2. Len(LoggedKeys(n)) = Len(call_history[n])
    BY <2>1
  <2>3. \A i \in 1..Len(LoggedKeys(n)) : LoggedKeys(n)[i] \in 1..Len(drawn)
    BY <2>1, <2>2, <1>1 DEF LoggedKeysWereDrawn
  <2> QED
    BY <2>3, <1>2 DEF Log!Ended
<1>11. UNCHANGED [m \in Nodes |-> LoggedKeys(m)]
  BY DEF LoggedKeys
<1> QED
  BY <1>7, <1>8, <1>9, <1>10, <1>11 DEF Log!Open

\* The end of a call is the log's Close.
LEMMA EndCloses ==
  ASSUME CallsInv, NEW n \in Nodes, NEW s \in active_calls[n], end_call(n, s)
  PROVE  Log!Close(n, s.key)
<1> DEFINE closed == [s EXCEPT !.state = "Ended"]
           Closed == {t \in CallSessions : t.state = "Ended"}
           cur == [m \in Nodes |-> Keys(active_calls[m])]
           log == [m \in Nodes |-> LoggedKeys(m)]
<1>1. Records
  BY DEF CallsInv
<1>2. /\ active_calls' = [active_calls EXCEPT ![n] = @ \ {s}]
      /\ call_history' = [call_history EXCEPT ![n] = Append(@, closed)]
  BY DEF end_call
<1>3. /\ active_calls \in [Nodes -> SUBSET {t \in CallSessions : t.state # "Ended"}]
      /\ call_history \in [Nodes -> Seq(Closed)]
  BY <1>1 DEF Records
<1>4. closed \in Closed /\ closed.key = s.key
  <2>1. s \in CallSessions
    BY <1>3
  <2> QED
    BY <2>1 DEF CallSessions
<1> HIDE DEF closed, Closed
<1>5. Keys(active_calls'[n]) = Keys(active_calls[n]) \ {s.key}
  BY <1>2, <1>3, KeysTellSessionsApart DEF Keys
<1>6. cur' = [cur EXCEPT ![n] = @ \ {s.key}]
  BY <1>2, <1>3, <1>5
<1>7. LoggedKeys(n)' = Append(LoggedKeys(n), s.key)
  <2> DEFINE h == call_history[n]
  <2>1. h \in Seq(Closed) /\ call_history'[n] = Append(h, closed)
    BY <1>2, <1>3
  <2>2. /\ Len(h) \in Nat /\ Len(Append(h, closed)) = Len(h) + 1
        /\ \A i \in 1..Len(h) : Append(h, closed)[i] = h[i]
        /\ Append(h, closed)[Len(h) + 1] = closed
    BY <2>1, <1>4
  <2> HIDE DEF h
  <2>3. LoggedKeys(n)' = [i \in 1 .. Len(h) + 1 |-> Append(h, closed)[i].key]
    BY <2>1, <2>2 DEF LoggedKeys
  <2>4. LoggedKeys(n) = [i \in 1..Len(h) |-> h[i].key]
    BY DEF LoggedKeys, h
  <2>5. Len(LoggedKeys(n)) = Len(h)
    BY <2>2, <2>4
  <2>6. Append(LoggedKeys(n), s.key) =
            [i \in 1 .. Len(h) + 1 |-> IF i = Len(h) + 1 THEN s.key ELSE h[i].key]
    BY <2>2, <2>4, <2>5
  <2> QED
    BY <2>2, <2>3, <2>6, <1>4
<1>8. log' = [log EXCEPT ![n] = Append(@, s.key)]
  <2>1. \A m \in Nodes : m # n => LoggedKeys(m)' = LoggedKeys(m)
    BY <1>2, <1>3 DEF LoggedKeys
  <2> QED
    BY <1>7, <2>1
<1>9. s.key \in cur[n]
  BY DEF Keys
<1> QED
  BY <1>6, <1>8, <1>9 DEF Log!Close

LEMMA StepIsLogged ==
  ASSUME CallsInv, [Next]_vars
  PROVE  [Log!Next]_(Log!vars)
<1>1. CallAssumption /\ Len(drawn) \in Nat
  BY CallAssumption DEF CallsInv, Records
<1>2. ASSUME NEW n \in Nodes, NEW callee \in Nodes, create_offer(n, callee)
      PROVE  Log!Next
  <2>1. Log!Open(n, Len(drawn) + 1) /\ Len(drawn) + 1 \in 1..MaxKeys
    BY <1>1, <1>2, SessionOpens DEF create_offer, Session, CallAssumption
  <2> QED
    BY <2>1 DEF Log!Next
<1>3. ASSUME NEW n \in Nodes, NEW offer \in offers, accept_call(n, offer)
      PROVE  Log!Next
  <2>1. Log!Open(n, Len(drawn) + 1) /\ Len(drawn) + 1 \in 1..MaxKeys
    BY <1>1, <1>3, SessionOpens DEF accept_call, Session, CallAssumption
  <2> QED
    BY <2>1 DEF Log!Next
<1>4. ASSUME NEW n \in Nodes, NEW answer \in answers, handle_answer(n, answer)
      PROVE  UNCHANGED Log!vars
  <2>1. \A m \in Nodes : Keys(active_calls'[m]) = Keys(active_calls[m])
    BY <1>4, AnswerKeepsCalls
  <2>2. UNCHANGED call_history
    BY <1>4 DEF handle_answer
  <2> QED
    BY <2>1, <2>2 DEF Log!vars, LoggedKeys
<1>5. ASSUME NEW n \in Nodes, NEW s \in active_calls[n], end_call(n, s)
      PROVE  Log!Next
  <2>1. Log!Close(n, s.key)
    BY <1>5, EndCloses
  <2>2. s.key \in 1..MaxKeys
    BY DEF CallsInv, Records, CallSessions
  <2> QED
    BY <2>1, <2>2 DEF Log!Next
<1>6. Tick \/ UNCHANGED vars => UNCHANGED Log!vars
  BY DEF Tick, vars, Log!vars, LoggedKeys
<1> QED
  BY <1>2, <1>3, <1>4, <1>5, <1>6 DEF Next

(* The app's: an id is given out once, the call that was current makes way, and    *)
(* the history, newest first, is the log read backwards.                           *)

AppCurrent == [k \in {"app"} |-> IF _currentCall = None THEN {} ELSE {_currentCall.id}]
LoggedIds == [i \in 1..Len(_history) |-> _history[i].id]

\* A record put before the history is one more at the end of the log.
LEMMA CloseAppends ==
  ASSUME AppInv, _currentCall # None, NEW status \in Statuses, App!Close(status)
  PROVE  App!Reverse(LoggedIds)' = Append(App!Reverse(LoggedIds), _currentCall.id)
<1> DEFINE h == _history
           g == _history'
<1>1. /\ Len(h) \in Nat /\ Len(g) = Len(h) + 1
      /\ g[1] = App!toRecord(status)
      /\ \A i \in 1..Len(h) : g[i + 1] = h[i]
  BY CloseFacts
<1>2. g[1].id = _currentCall.id
  BY <1>1 DEF App!toRecord
<1>3. LoggedIds' = [i \in 1..Len(g) |-> g[i].id] /\ LoggedIds = [i \in 1..Len(h) |-> h[i].id]
  BY DEF LoggedIds
<1> HIDE DEF h, g
<1>4. Len(LoggedIds') = Len(h) + 1 /\ Len(LoggedIds) = Len(h)
  BY <1>1, <1>3
<1>5. App!Reverse(LoggedIds)' = [i \in 1 .. Len(h) + 1 |-> g[(Len(h) + 1 - i) + 1].id]
  BY <1>1, <1>3, <1>4 DEF App!Reverse
<1>6. App!Reverse(LoggedIds) = [i \in 1..Len(h) |-> h[(Len(h) - i) + 1].id]
  BY <1>1, <1>3, <1>4 DEF App!Reverse
<1>7. Append(App!Reverse(LoggedIds), _currentCall.id) =
          [i \in 1 .. Len(h) + 1 |->
               IF i = Len(h) + 1 THEN _currentCall.id ELSE h[(Len(h) - i) + 1].id]
  <2>1. Len(App!Reverse(LoggedIds)) = Len(h)
    BY <1>1, <1>6
  <2> QED
    BY <1>1, <1>6, <2>1
<1>8. ASSUME NEW i \in 1 .. Len(h) + 1
      PROVE  g[(Len(h) + 1 - i) + 1].id =
                 IF i = Len(h) + 1 THEN _currentCall.id ELSE h[(Len(h) - i) + 1].id
  <2>1. CASE i = Len(h) + 1
    BY <1>1, <1>2, <2>1
  <2>2. CASE i # Len(h) + 1
    <3>1. (Len(h) - i) + 1 \in 1..Len(h)
      BY <1>1, <2>2
    <3>2. g[((Len(h) - i) + 1) + 1] = h[(Len(h) - i) + 1]
      BY <1>1, <3>1
    <3>3. (Len(h) + 1 - i) + 1 = ((Len(h) - i) + 1) + 1
      BY <1>1
    <3> QED
      BY <2>2, <3>2, <3>3
  <2> QED
    BY <2>1, <2>2
<1> QED
  BY <1>5, <1>7, <1>8

\* A call that begins is opened.
LEMMA BeginOpens ==
  ASSUME AppInv, NEW id \in CallNames, NEW isIncoming \in BOOLEAN, App!Begin(id, isIncoming),
         UNCHANGED _history
  PROVE  App!Log!Open("app", id)
<1>1. /\ id \notin issued
      /\ _currentCall' = [id |-> id, isIncoming |-> isIncoming, durationSeconds |-> 0]
  BY DEF App!Begin
<1>2. _currentCall' # None /\ _currentCall'.id = id
  <2>1. _currentCall' \in App!ActiveCalls
    BY <1>1 DEF App!ActiveCalls
  <2> QED
    BY <1>1, <2>1, AppAssumption DEF App!AppCallsAssumption
<1>3. AppCurrent' = [AppCurrent EXCEPT !["app"] = (@ \ AppCurrent["app"]) \cup {id}]
  BY <1>2 DEF AppCurrent
<1>4. AppCurrent["app"] \in {{}} \cup {{r} : r \in AppCurrent["app"]}
  BY DEF AppCurrent
<1>5. id \notin AppCurrent["app"]
  BY <1>1 DEF AppCurrent, AppInv, KnownIdsWereIssued
<1>6. id \notin App!Log!Ended("app")
  <2>1. /\ Len(_history) \in Nat
        /\ \A i \in 1..Len(_history) : _history[i].id # id
    BY <1>1 DEF AppInv, AppRecords, KnownIdsWereIssued
  <2>2. LoggedIds = [i \in 1..Len(_history) |-> _history[i].id] /\ Len(LoggedIds) = Len(_history)
    BY <2>1 DEF LoggedIds
  <2>3. App!Reverse(LoggedIds) =
            [i \in 1..Len(_history) |-> LoggedIds[(Len(_history) - i) + 1]]
    BY <2>2 DEF App!Reverse
  <2>4. Len(App!Reverse(LoggedIds)) = Len(_history)
    BY <2>1, <2>3
  <2>5. ASSUME NEW i \in 1..Len(_history)
        PROVE  App!Reverse(LoggedIds)[i] # id
    <3>1. (Len(_history) - i) + 1 \in 1..Len(_history)
      BY <2>1
    <3> QED
      BY <3>1, <2>1, <2>2, <2>3
  <2> QED
    BY <2>4, <2>5 DEF App!Log!Ended, LoggedIds
<1>7. UNCHANGED [k \in {"app"} |-> App!Reverse([i \in 1..Len(_history) |-> _history[i].id])]
  OBVIOUS
<1> QED
  BY <1>3, <1>4, <1>5, <1>6, <1>7 DEF App!Log!Open, AppCurrent

\* A call that is closed is logged.
LEMMA CloseCloses ==
  ASSUME AppInv, _currentCall # None, NEW status \in Statuses, App!Close(status)
  PROVE  App!Log!Close("app", _currentCall.id)
<1> DEFINE log == [k \in {"app"} |-> App!Reverse(LoggedIds)]
<1>1. _currentCall' = None
  BY CloseFacts
<1>2. _currentCall.id \in AppCurrent["app"]
  BY DEF AppCurrent
<1>3. AppCurrent' = [AppCurrent EXCEPT !["app"] = @ \ {_currentCall.id}]
  BY <1>1 DEF AppCurrent
<1>4. log' = [log EXCEPT !["app"] = Append(@, _currentCall.id)]
  BY CloseAppends
<1> QED
  BY <1>2, <1>3, <1>4 DEF App!Log!Close, AppCurrent, LoggedIds

LEMMA StepIsLoggedByApp ==
  ASSUME AppInv, [App!Next]_App!vars
  PROVE  [App!Log!Next]_(App!Log!vars)
<1>1. ASSUME NEW id \in CallNames, NEW isIncoming \in BOOLEAN, App!Begin(id, isIncoming),
             UNCHANGED _history
      PROVE  App!Log!Next
  BY <1>1, BeginOpens DEF App!Log!Next
<1>2. ASSUME NEW id, App!IsCurrent(id), NEW status \in Statuses, App!Close(status)
      PROVE  App!Log!Next
  <2>1. _currentCall # None /\ _currentCall.id \in CallNames
    BY <1>2 DEF App!IsCurrent, AppInv, AppRecords, App!ActiveCalls
  <2> QED
    BY <1>2, <2>1, CloseCloses DEF App!Log!Next
<1>3. UNCHANGED <<_currentCall, _history>> => UNCHANGED App!Log!vars
  BY DEF App!Log!vars
<1>4. ASSUME NEW s \in Screens, NEW whose \in App!Whose, App!Tick(s, whose)
      PROVE  UNCHANGED App!Log!vars
  <2>1. UNCHANGED _history
    BY <1>4 DEF App!Tick
  <2>2. AppCurrent' = AppCurrent
    <3>1. CASE App!IsCurrent(screen[s].id)
      <4>1. _currentCall # None /\ _currentCall.id = screen[s].id
        BY <3>1 DEF App!IsCurrent
      <4>2. _currentCall' \in App!ActiveCalls /\ _currentCall'.id = screen[s].id
        BY <1>4, <3>1, TickCounts
      <4>3. _currentCall' # None
        BY <4>2, AppAssumption DEF App!AppCallsAssumption
      <4> QED
        BY <4>1, <4>2, <4>3 DEF AppCurrent
    <3>2. CASE ~App!IsCurrent(screen[s].id)
      BY <1>4, <3>2 DEF App!Tick, AppCurrent
    <3> QED
      BY <3>1, <3>2
  <2> QED
    BY <2>1, <2>2 DEF App!Log!vars, AppCurrent
<1>5. ASSUME NEW s \in Screens, App!_endCall(s)
      PROVE  App!Log!Next \/ UNCHANGED App!Log!vars
  BY <1>2, <1>3, <1>5 DEF App!_endCall, App!endCall, Statuses
<1>6. ASSUME NEW s \in Screens, App!_rejectCall(s)
      PROVE  App!Log!Next \/ UNCHANGED App!Log!vars
  BY <1>2, <1>3, <1>6 DEF App!_rejectCall, App!rejectCall, Statuses
<1>7. ASSUME NEW s \in Screens,
             (\E isIncoming \in BOOLEAN : App!initState(s, isIncoming)) \/ App!_callAgain(s)
      PROVE  App!Log!Next
  BY <1>1, <1>7 DEF App!initState, App!_callAgain
<1>8. ASSUME NEW s \in Screens,
             App!build(s) \/ App!_acceptCall(s) \/ App!Connected(s) \/ App!dispose(s)
      PROVE  UNCHANGED App!Log!vars
  BY <1>3, <1>8 DEF App!build, App!_acceptCall, App!Connected, App!dispose
<1>9. UNCHANGED App!vars => UNCHANGED App!Log!vars
  BY <1>3 DEF App!vars
<1> QED
  BY <1>4, <1>5, <1>6, <1>7, <1>8, <1>9 DEF App!Next

\* The call signalling's map and history, and the app's current call and history, each
\* implement a call log: a call is opened once, closed at most once, and logged for good.
THEOREM CallsAreLogged == MCSpec => BothAreCallLogs
<1>1. MCInit => CallsInv /\ AppInv
  BY InitCalls, InitApp DEF MCInit
<1>2. CallsInv /\ AppInv /\ [MCNext]_all_vars =>
          CallsInv' /\ AppInv' /\ [Log!Next]_(Log!vars) /\ [App!Log!Next]_(App!Log!vars)
  <2>1. [MCNext]_all_vars => [Next]_vars /\ [App!Next]_App!vars
    BY DEF MCNext, all_vars, app_vars, vars, App!vars
  <2> QED
    BY <2>1, StepKeepsCalls, StepKeepsApp, StepIsLogged, StepIsLoggedByApp
<1>3. MCInit => Log!Init
  BY DEF MCInit, Init, Log!Init, Keys, LoggedKeys
<1>4. MCInit => App!Log!Init
  BY DEF MCInit, App!Init, App!Log!Init, App!Reverse
<1> QED
  BY <1>1, <1>2, <1>3, <1>4, PTL
     DEF MCSpec, BothAreCallLogs, IsCallLog, Log!Spec, App!IsCallLog, App!Log!Spec
==============================================================================
