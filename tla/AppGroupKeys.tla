---------------------------- MODULE AppGroupKeys ----------------------------
(***************************************************************************)
(* The app's GroupE2EEService (lib/services/crypto/group_e2ee_service.dart)*)
(* and the group chat screen that uses it.  The service is one object per  *)
(* device and holds every group's sender keys; all members of a group are  *)
(* taken to hold the keys it holds while they are members.                 *)
(*                                                                         *)
(* A sender key is 32 random bytes: it is taken to differ from every other *)
(* key, and a message's MAC to fit its key alone.                          *)
(***************************************************************************)
EXTENDS Naturals, FiniteSets

CONSTANTS
    Groups,       \* group ids, of at most 32 bytes
    Members,      \* member ids
    NoGroup,      \* what _groups holds for an id without a group
    MaxKeys,      \* bound: sender keys drawn
    MaxChanges,   \* bound: times each group is created, changed or rotated
    MaxMessages   \* bound: messages sealed

\* A member list is finite.
AppGroupKeysAssumption ==
    /\ IsFiniteSet(Members)
    /\ MaxKeys \in Nat /\ MaxChanges \in Nat

VARIABLES
    groups,    \* _groups: GroupKeyMaterial by id
    messages,  \* every message sealed so far; they may be opened at any time
    drawn,     \* how many keys were drawn
    changes,   \* how often each group was created, changed or rotated
    learnt     \* the keys each member was ever given, by group

vars == <<groups, messages, drawn, changes, learnt>>

Exists(g) == groups[g] # NoGroup

\* The members in some order: which of the new keys is whose does not matter.
Number(members) ==
    CHOOSE number \in [members -> 1 .. Cardinality(members)] :
        \A i \in 1 .. Cardinality(members) : \E m \in members : number[m] = i

\* Slip: a member that has a key in some group keeps it.
FreshKeysShared(members) ==
    [m \in members |->
        LET old == {g \in Groups : Exists(g) /\ m \in DOMAIN groups[g].senderKeys}
        IN IF old = {} THEN drawn + Number(members)[m]
                       ELSE groups[CHOOSE g \in old : TRUE].senderKeys[m]]

\* A new key for each of the members.
FreshKeys(members) == [m \in members |-> drawn + Number(members)[m]]

Given(was, members, keys) ==
    [m \in Members |-> IF m \in members THEN was[m] \cup {keys[x] : x \in members} ELSE was[m]]

\* The members hold the group's keys from now on.
Becomes(g, material, n) ==
    /\ drawn + n <= MaxKeys
    /\ changes[g] < MaxChanges
    /\ drawn' = drawn + n
    /\ groups' = [groups EXCEPT ![g] = material]
    /\ changes' = [changes EXCEPT ![g] = @ + 1]
    /\ learnt' = [learnt EXCEPT ![g] = Given(@, material.memberIds, material.senderKeys)]
    /\ UNCHANGED messages

-----------------------------------------------------------------------------
Init ==
    /\ groups = [g \in Groups |-> NoGroup]
    /\ messages = {}
    /\ drawn = 0
    /\ changes = [g \in Groups |-> 0]
    /\ learnt = [g \in Groups |-> [m \in Members |-> {}]]

\* A group that exists is replaced: its epoch is 0 again.  The group chat screen
\* does so for 'group-demo' whenever it opens.
createGroup(g, members) ==
    Becomes(g, [memberIds |-> members, senderKeys |-> FreshKeys(members), epoch |-> 0],
            Cardinality(members))

\* Slip: the epoch stays.
addMember_same_epoch(g, m) ==
    /\ Exists(g)
    /\ m \notin groups[g].memberIds
    /\ Becomes(g, [memberIds |-> groups[g].memberIds \cup {m},
                   senderKeys |-> [x \in groups[g].memberIds \cup {m} |->
                       IF x = m THEN drawn + 1 ELSE groups[g].senderKeys[x]],
                   epoch |-> groups[g].epoch], 1)

\* Only the new member gets a new key; the others keep theirs.
addMember(g, m) ==
    /\ Exists(g)
    /\ m \notin groups[g].memberIds
    /\ Becomes(g, [memberIds |-> groups[g].memberIds \cup {m},
                   senderKeys |-> [x \in groups[g].memberIds \cup {m} |->
                       IF x = m THEN drawn + 1 ELSE groups[g].senderKeys[x]],
                   epoch |-> groups[g].epoch + 1], 1)

_rotateAllKeys(g, members) ==
    Becomes(g, [memberIds |-> members, senderKeys |-> FreshKeys(members),
                epoch |-> groups[g].epoch + 1], Cardinality(members))

removeMember(g, m) ==
    /\ Exists(g)
    /\ m \in groups[g].memberIds
    /\ _rotateAllKeys(g, groups[g].memberIds \ {m})

rotateKeys(g) == Exists(g) /\ _rotateAllKeys(g, groups[g].memberIds)

\* The message that the service seals for a sender with a key; the time it was
\* sealed, and who belonged to the group then, are kept for the properties.
Sealed(g, sender) ==
    [groupId |-> g, senderId |-> sender, epoch |-> groups[g].epoch,
     key |-> groups[g].senderKeys[sender], at |-> changes[g]]

encryptGroupMessage(g, sender) ==
    /\ Exists(g)
    /\ sender \in DOMAIN groups[g].senderKeys
    /\ Cardinality(messages \cup {Sealed(g, sender)}) <= MaxMessages
    /\ messages' = messages \cup {Sealed(g, sender)}
    /\ UNCHANGED <<groups, drawn, changes, learnt>>

\* Whether decryptGroupMessage opens a message in a group.  It does not compare
\* the group named in the message with the one it is asked for.
decryptGroupMessage(g, message) ==
    /\ Exists(g)
    /\ message.senderId \in DOMAIN groups[g].senderKeys
    /\ message.epoch = groups[g].epoch
    /\ message.key = groups[g].senderKeys[message.senderId]

Next == \E g \in Groups :
    \/ \E members \in SUBSET Members : createGroup(g, members)
    \/ \E m \in Members : addMember(g, m)
    \/ \E m \in Members : removeMember(g, m)
    \/ rotateKeys(g)
    \/ \E m \in Members : encryptGroupMessage(g, m)

Spec == Init /\ [][Next]_vars

-----------------------------------------------------------------------------
\* GroupKeyMaterial: the members are those with a sender key
\* (group_e2ee_service.dart:8).
TypeOK ==
    /\ drawn \in 0 .. MaxKeys
    /\ changes \in [Groups -> 0 .. MaxChanges]
    /\ learnt \in [Groups -> [Members -> SUBSET (1 .. drawn)]]
    /\ \A g \in Groups : Exists(g) =>
           /\ groups[g].memberIds \subseteq Members
           /\ groups[g].senderKeys \in [groups[g].memberIds -> 1 .. drawn]
           /\ groups[g].epoch < changes[g]
    /\ \A m \in messages : m.groupId \in Groups /\ m.senderId \in Members /\ m.key \in 1 .. drawn

\* Whatever opens in a group was sealed for that group and since its last change,
\* although the group named in a message is not compared, an epoch comes back when
\* a group is created again, and one sender may be in several groups
\* (group_e2ee_service.dart:174).
OpensOnlyTheLatest ==
    \A g \in Groups : \A m \in messages :
        decryptGroupMessage(g, m) => m.groupId = g /\ m.at = changes[g]

\* Who is no longer a member was never given a key that the group uses now
\* (removeMember, group_e2ee_service.dart:219).
RemovedKnowNoKey ==
    \A g \in Groups : Exists(g) => \A m \in Members \ groups[g].memberIds :
        \A x \in groups[g].memberIds : groups[g].senderKeys[x] \notin learnt[g][m]

\* No two senders share a key, in whatever group they are: random nonces are
\* drawn per key (group_e2ee_service.dart:159).
SendersDiffer ==
    \A g, h \in Groups : Exists(g) /\ Exists(h) =>
        \A m \in groups[g].memberIds : \A x \in groups[h].memberIds :
            groups[g].senderKeys[m] = groups[h].senderKeys[x] => g = h /\ m = x

\* What the app says of its group keys, zero_ai_service.dart:159: they are all
\* rotated when the members change.  No key of a message sealed before the last
\* change is in use then, so that who has just joined is not given it.
ChangesRotateAll ==
    \A g \in Groups : \A m \in messages : Exists(g) /\ m.groupId = g /\ m.at # changes[g] =>
        \A x \in groups[g].memberIds : groups[g].senderKeys[x] # m.key
=============================================================================
