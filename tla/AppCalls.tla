------------------------------ MODULE AppCalls -------------------------------
(***************************************************************************)
(* The application's one current call and its history (lib/services/call/  *)
(* call_service.dart) under the call screens that drive it (lib/features/  *)
(* chat/voice_call_screen.dart).  A screen starts a timer two seconds      *)
(* after it dials or accepts, and keeps a handle on the last one only.  It *)
(* is drawn anew some time after its state has changed: until then the old *)
(* buttons can be pressed again, and a start or a timer that is waited for *)
(* or runs by then outlives the call it was meant for.  Generated ids are  *)
(* taken to be distinct.                                                   *)
(***************************************************************************)
EXTENDS Naturals, Sequences, FiniteSets, SequencesExt

CONSTANTS
    Screens,     \* call screens, opened one over the other
    Calls,       \* the ids _generateId may return
    None,
    MaxSeconds,  \* bound: seconds a screen counts for one call
    MaxHasty     \* bound: calls that are hasty when a button is pressed once more

\* A timer is the one started for the call that its screen now has, or another.
Whose == {"own", "other"}

\* The fields of an _ActiveCall that steps read.
ActiveCalls == [id : Calls, isIncoming : BOOLEAN, durationSeconds : Nat]

AppCallsAssumption == None \notin Calls /\ None \notin ActiveCalls /\ {MaxSeconds, MaxHasty} \subseteq Nat

VARIABLES
    _currentCall,  \* None or one of ActiveCalls
    _history,      \* the records, newest first
    screen,        \* each screen: None, or what it keeps
    issued,        \* history: the ids given out
    ticks,         \* history: each call's seconds, by the timer started for it and by others
    hasty          \* history: the calls begun or accepted by a button pressed once more

vars == <<_currentCall, _history, screen, issued, ticks, hasty>>

Init ==
    /\ _currentCall = None
    /\ _history = <<>>
    /\ screen = [s \in Screens |-> None]
    /\ issued = {}
    /\ ticks = [c \in Calls |-> [whose \in Whose |-> 0]]
    /\ hasty = {}

\* startCall and receiveCall: a call that was current is forgotten.
Begin(id, isIncoming) ==
    /\ id \notin issued
    /\ _currentCall' = [id |-> id, isIncoming |-> isIncoming, durationSeconds |-> 0]
    /\ issued' = issued \cup {id}

\* Every other operation returns early for any id but the current call's.
IsCurrent(id) == _currentCall # None /\ _currentCall.id = id

toRecord(status) ==
    [id |-> _currentCall.id, durationSeconds |-> _currentCall.durationSeconds, status |-> status]

\* Slip: the call is logged and stays current.
CloseKeeps(status) ==
    /\ _history' = <<toRecord(status)>> \o _history
    /\ UNCHANGED <<_currentCall, issued, ticks, hasty>>

Close(status) ==
    /\ _history' = <<toRecord(status)>> \o _history
    /\ _currentCall' = None
    /\ UNCHANGED <<issued, ticks, hasty>>

endCall(id) ==
    IF IsCurrent(id) THEN Close("completed") ELSE UNCHANGED <<_currentCall, _history, issued, ticks, hasty>>

rejectCall(id) ==
    IF IsCurrent(id) THEN Close(IF _currentCall.isIncoming THEN "rejected" ELSE "missed")
    ELSE UNCHANGED <<_currentCall, _history, issued, ticks, hasty>>

-----------------------------------------------------------------------------
(* The screens.  A screen keeps its call and seconds; its state, incoming until    *)
(* the call is accepted, and the state it was last drawn in, which decides what    *)
(* can be pressed; and for history, the call each delayed start was meant for and  *)
(* the one the timer in _callTimer was started for.  "strays" are the timers that  *)
(* run without a handle.  A connected call is only marked so; acceptCall is left   *)
(* out.  What a screen does on its way out finds no call of its own.               *)

Open(s) == screen[s] # None

Shows(s, state) == Open(s) /\ screen[s].shown = state

initState(s, isIncoming) ==
    /\ ~Open(s)
    /\ \E id \in Calls :
        /\ Begin(id, isIncoming)
        /\ LET state == IF isIncoming THEN "incoming" ELSE "dialing" IN
           screen' = [screen EXCEPT ![s] =
               [id |-> id, seconds |-> 0, state |-> state, shown |-> state,
                starts |-> IF isIncoming THEN <<>> ELSE <<id>>, timer |-> None, strays |-> 0]]
    /\ UNCHANGED <<_history, ticks, hasty>>

\* setState, or any animation that sets state, has the screen drawn anew.
build(s) ==
    /\ Open(s)
    /\ screen' = [screen EXCEPT ![s].shown = screen[s].state]
    /\ UNCHANGED <<_currentCall, _history, issued, ticks, hasty>>

\* A button still drawn from an earlier state is pressed once more within the bound only.
MayPress(inTime) == inTime \/ Cardinality(hasty) < MaxHasty

_acceptCall(s) ==
    /\ Shows(s, "incoming")
    /\ MayPress(screen[s].state = "incoming")
    /\ screen' = [screen EXCEPT ![s].state = IF @ = "incoming" THEN "dialing" ELSE @,
                                ![s].starts = Append(@, screen[s].id)]
    /\ hasty' = IF screen[s].state = "incoming" THEN hasty ELSE hasty \cup {screen[s].id}
    /\ UNCHANGED <<_currentCall, _history, issued, ticks>>

\* Two seconds on, whatever has become of the call: one more timer.
Connected(s) ==
    /\ Open(s) /\ screen[s].starts # <<>>
    /\ screen' = [screen EXCEPT ![s].starts = Tail(@), ![s].state = "connected",
                                ![s].timer = Head(screen[s].starts),
                                ![s].strays = IF screen[s].timer = None THEN @ ELSE @ + 1]
    /\ UNCHANGED <<_currentCall, _history, issued, ticks, hasty>>

Running(r, whose) ==
    CASE whose = "own" -> r.timer = r.id
      [] whose = "other" -> r.timer \notin {None, r.id} \/ r.strays > 0

\* A tick of any of the screen's timers: updateCallDuration of the call it now has.
Tick(s, whose) ==
    /\ Open(s) /\ Running(screen[s], whose)
    /\ screen[s].seconds < MaxSeconds
    /\ screen' = [screen EXCEPT ![s].seconds = @ + 1]
    /\ IF IsCurrent(screen[s].id)
       THEN /\ _currentCall' = [_currentCall EXCEPT !.durationSeconds = screen'[s].seconds]
            /\ ticks' = [ticks EXCEPT ![screen[s].id][whose] = @ + 1]
       ELSE UNCHANGED <<_currentCall, ticks>>
    /\ UNCHANGED <<_history, issued, hasty>>

\* Slip: the timer runs on.
_endCallUncancelled(s) ==
    /\ Shows(s, "connected")
    /\ screen' = [screen EXCEPT ![s].state = "ended"]
    /\ endCall(screen[s].id)

_endCall(s) ==
    /\ Shows(s, "connected")
    /\ screen' = [screen EXCEPT ![s].state = "ended", ![s].timer = None]
    /\ endCall(screen[s].id)

\* _rejectCall, or _cancelDialing, which does the same.
_rejectCall(s) ==
    /\ Shows(s, "incoming") \/ Shows(s, "dialing")
    /\ screen' = [screen EXCEPT ![s] = None]
    /\ rejectCall(screen[s].id)

\* Nothing has the screen drawn here but the next change of its dots.
_callAgain(s) ==
    /\ Shows(s, "ended")
    /\ MayPress(screen[s].state = "ended")
    /\ \E id \in Calls :
        /\ Begin(id, FALSE)
        /\ screen' = [screen EXCEPT ![s].id = id, ![s].seconds = 0, ![s].state = "dialing",
                                    ![s].starts = Append(@, id)]
        /\ hasty' = IF screen[s].state = "ended" /\ screen[s].id \notin hasty THEN hasty
                    ELSE hasty \cup {id}
    /\ UNCHANGED <<_history, ticks>>

\* Leaving the screen does not end its call.
dispose(s) ==
    /\ Open(s)
    /\ screen' = [screen EXCEPT ![s] = None]
    /\ UNCHANGED <<_currentCall, _history, issued, ticks, hasty>>

Next == \E s \in Screens :
    \/ \E isIncoming \in BOOLEAN : initState(s, isIncoming)
    \/ build(s) \/ _acceptCall(s) \/ Connected(s)
    \/ \E whose \in Whose : Tick(s, whose)
    \/ _endCall(s) \/ _rejectCall(s) \/ _callAgain(s) \/ dispose(s)

Spec == Init /\ [][Next]_vars

-----------------------------------------------------------------------------
\* The seconds that a call may show: those of the one timer that was started for it.
\* Only once a button has been pressed again before its screen was drawn anew do timers
\* overlap; from then on that screen's calls also show what its other timers ticked.
Accountable(id) == ticks[id]["own"] + (IF id \in hasty THEN ticks[id]["other"] ELSE 0)

\* The duration of a call, current or recorded, is never more than that: no timer or
\* delayed start left over from an earlier call on the same screen adds to it unless a
\* button was pressed again, and none of another screen ever does.
DurationIsOwn ==
    /\ _currentCall # None => _currentCall.durationSeconds <= Accountable(_currentCall.id)
    /\ \A i \in 1..Len(_history) : _history[i].durationSeconds <= Accountable(_history[i].id)

\* The current call and the history implement a call log.
Log == INSTANCE CallLog WITH
    Keepers <- {"app"}, Sessions <- Calls,
    current <- [k \in {"app"} |-> IF _currentCall = None THEN {} ELSE {_currentCall.id}],
    ended <- [k \in {"app"} |-> Reverse([i \in 1..Len(_history) |-> _history[i].id])]
IsCallLog == Log!Spec
==============================================================================
