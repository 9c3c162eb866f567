------------------------------- MODULE MCCalls -------------------------------
(***************************************************************************)
(* The call signalling of the core and the call service of the app, for    *)
(* TLC.  Each keeps a record of calls of its own and neither calls the     *)
(* other: a behaviour takes the steps of one of them, chosen at the start, *)
(* and leaves the other as it began.  Both implement CallLog.              *)
(***************************************************************************)
EXTENDS CallSignalling, TLC

CONSTANTS
    None,
    CallNames,  \* the ids the app may generate
    Screens,    \* the app's call screens
    MaxSeconds, \* bound: seconds a screen counts for one call
    MaxHasty    \* bound: calls that are hasty when a button is pressed once more

VARIABLES
    part,  \* which of the two takes steps
    _currentCall, _history, screen, issued, ticks, hasty

app_vars == <<_currentCall, _history, screen, issued, ticks, hasty>>
all_vars == <<part, vars, app_vars>>

App == INSTANCE AppCalls WITH Calls <- CallNames

ASSUME AppAssumption == App!AppCallsAssumption

MCInit ==
    /\ part \in {"signalling", "app"}
    /\ Init
    /\ App!Init

MCNext ==
    \/ part = "signalling" /\ Next /\ UNCHANGED <<part, app_vars>>
    \/ part = "app" /\ App!Next /\ UNCHANGED <<part, vars>>

MCSpec == MCInit /\ [][MCNext]_all_vars

\* No node, id or screen is told apart from another, and the properties of steps are of
\* the form [][A]_v.
MCSymmetry ==
    Permutations(Nodes) \cup Permutations(CallNames) \cup Permutations(Screens)

-----------------------------------------------------------------------------
\* The two ends of a call name each other, and a caller's end is connecting only
\* when the callee has taken that call.
EndsAgree == TypeOK /\ EndsFaceEachOther /\ ConnectingWasAccepted

\* A duration the app shows or logs counts one timer's seconds, the one started for the
\* call, unless a button of its screen was pressed once more.
DurationIsOwn == App!DurationIsOwn

\* The signalling's map and history, and the app's current call and history, each
\* implement a call log: opened once, closed at most once, logged for good.
BothAreCallLogs == IsCallLog /\ App!IsCallLog

=============================================================================
