------------------------------ MODULE MCGroups ------------------------------
(***************************************************************************)
(* The group keys of the Rust core and those of the app, for TLC.  Neither *)
(* calls the other and they share no variable: a behaviour takes the steps *)
(* of one of them, chosen at the start, and leaves the other as it began.  *)
(***************************************************************************)
EXTENDS GroupKeys

CONSTANTS
    Groups,       \* group ids of the app
    AppMaxKeys, AppMaxChanges, AppMaxMessages  \* bounds of AppGroupKeys

VARIABLES
    part,        \* which of the two takes steps
    app_groups,  \* "groups" of AppGroupKeys
    messages, drawn, changes, learnt

app_vars == <<app_groups, messages, drawn, changes, learnt>>
all_vars == <<part, vars, app_vars>>

App == INSTANCE AppGroupKeys WITH
    groups <- app_groups,
    MaxKeys <- AppMaxKeys, MaxChanges <- AppMaxChanges, MaxMessages <- AppMaxMessages

ASSUME AppAssumption == App!AppGroupKeysAssumption

MCInit ==
    /\ part \in {"core", "app"}
    /\ Init
    /\ App!Init

MCNext ==
    \/ part = "core" /\ Next /\ UNCHANGED <<part, app_vars>>
    \/ part = "app" /\ App!Next /\ UNCHANGED <<part, vars>>

MCSpec == MCInit /\ [][MCNext]_all_vars

-----------------------------------------------------------------------------
\* A message of the core opens only on a device in the epoch it was sealed in, and
\* a device registers nothing but keys of its current epoch.
CoreOpensOnlyInItsEpoch == TypeOK /\ OpensOnlyInItsEpoch

\* What opens in a group of the app was sealed for that group, and since its last
\* change, also when the group was created again and its epochs came back.
AppOpensOnlyTheLatest == App!OpensOnlyTheLatest

\* A member that left, or was left out when its group was created again, knows no
\* key of the group, and no two senders share one, also across groups.
AppKeysArePrivate == App!TypeOK /\ App!RemovedKnowNoKey /\ App!SendersDiffer

=============================================================================
