----------------------------- MODULE MCRatchets -----------------------------
(***************************************************************************)
(* Two ratchets over one session, and the session managers of three peers, *)
(* for TLC.  The two specifications share no variable: a behaviour takes   *)
(* the steps of one of them, chosen at the start, and leaves the other as  *)
(* it began.                                                               *)
(***************************************************************************)
EXTENDS DoubleRatchet

CONSTANTS
    N, MaxInits, ManagerMaxKeys, ManagerMaxMessages, ManagerMaxRecv  \* of E2EESessions

VARIABLES
    part,    \* which of the two takes steps
    bundle, pending, sessions, inits, owner, derived,
    posted,  \* "sent" of E2EESessions
    unused   \* "fresh" of E2EESessions

manager_vars == <<bundle, pending, sessions, inits, owner, derived, posted, unused>>
all_vars == <<part, vars, manager_vars>>

Managers == INSTANCE E2EESessions WITH
    sent <- posted, fresh <- unused,
    MaxKeys <- ManagerMaxKeys, MaxMessages <- ManagerMaxMessages, MaxRecv <- ManagerMaxRecv

ASSUME ManagersAssumption == Managers!SessionAssumption

MCInit ==
    /\ part \in {"ratchet", "managers"}
    /\ Init
    /\ Managers!Init

MCNext ==
    \/ part = "ratchet" /\ Next /\ UNCHANGED <<part, manager_vars>>
    \/ part = "managers" /\ Managers!Next /\ UNCHANGED <<part, vars>>

MCSpec == MCInit /\ [][MCNext]_all_vars

-----------------------------------------------------------------------------
\* A header's number locates its message key in the sending chain, and the
\* receiving chain stands where its number says, through skips, replays and
\* ratchets on both sides.
NumbersInStep == HeaderLocatesKey /\ RecvInStep

\* Across all peers and all the sessions a manager ever had, no two messages are
\* encrypted under the same message key.
SessionKeysDiffer == Managers!NoKeyReuse

\* A session is filed under the peer whose ratchet key it holds, and there is at
\* most one for each.
KeysHaveTheRightOwner == Managers!TypeOK /\ Managers!KeysHaveTheRightOwner

=============================================================================
