------------------------------ MODULE GroupKeys ------------------------------
(***************************************************************************)
(* The GroupKeyManagers of several devices, for one group                  *)
(* (rust/src/p2p/group_e2ee.rs).  Nothing in the repository synchronises   *)
(* them: each device creates the group, registers and removes members and  *)
(* ratchets on its own, in any order, while messages sealed by one device  *)
(* reach another early, late or never.                                     *)
(*                                                                         *)
(* SHA-256 is taken to be injective: a key is the sender key it started    *)
(* from and the epochs that were hashed into it.                           *)
(***************************************************************************)
EXTENDS Naturals, Sequences, FiniteSets

CONSTANTS
    Devices,      \* the devices, each with its own GroupKeyManager
    Members,      \* the member ids
    NoGroup,      \* the entry of a device that has not created the group
    MaxEpoch,     \* bound: epochs ratcheted through
    MaxMessages   \* bound: different messages sealed

ASSUME GroupBoundsAssumption == MaxEpoch \in Nat /\ MaxMessages \in Nat

VARIABLES
    groups,  \* the GroupEncryption of each device, or NoGroup
    wire     \* the messages sealed so far

vars == <<groups, wire>>

generate_sender_key(member, epoch) == [member |-> member, epoch |-> epoch, hashed |-> <<>>]

derive_key_from_epoch(old, epoch) == [old EXCEPT !.hashed = Append(@, epoch)]

Init ==
    /\ groups = [d \in Devices |-> NoGroup]
    /\ wire = {}

\* A group that exists already is replaced.
create_group(d, creator) ==
    /\ groups' = [groups EXCEPT ![d] =
           [sender_keys |-> [m \in {} |-> <<>>],
            current_key |-> generate_sender_key(creator, 0),
            epoch |-> 0]]
    /\ UNCHANGED wire

\* The operations below fail, and change nothing, where there is no group.
Exists(d) == groups[d] # NoGroup

\* Slip: the key is always the one of the first epoch.
register_first_epoch(d, member) ==
    /\ Exists(d)
    /\ groups' = [groups EXCEPT ![d].sender_keys =
           [m \in DOMAIN @ \cup {member} |->
               IF m = member THEN generate_sender_key(member, 0) ELSE @[m]]]
    /\ UNCHANGED wire

register_member(d, member) ==
    /\ Exists(d)
    /\ groups' = [groups EXCEPT ![d].sender_keys =
           [m \in DOMAIN @ \cup {member} |->
               IF m = member THEN generate_sender_key(member, groups[d].epoch) ELSE @[m]]]
    /\ UNCHANGED wire

\* Slip: the sender keys of the old epoch stay registered.
Ratcheted_keeps_senders(g) ==
    [g EXCEPT !.epoch = @ + 1,
              !.current_key = derive_key_from_epoch(@, g.epoch + 1)]

\* The group's state after ratchet_group.
Ratcheted(g) ==
    [g EXCEPT !.epoch = @ + 1,
              !.current_key = derive_key_from_epoch(@, g.epoch + 1),
              !.sender_keys = [m \in {} |-> <<>>]]

ratchet_group(d) ==
    /\ Exists(d)
    /\ groups[d].epoch < MaxEpoch
    /\ groups' = [groups EXCEPT ![d] = Ratcheted(@)]
    /\ UNCHANGED wire

\* The member's key is removed, then the group is ratcheted; nobody checks that
\* there was a key to remove.
remove_member(d, member) ==
    /\ Exists(d)
    /\ groups[d].epoch < MaxEpoch
    /\ LET removed == [groups[d] EXCEPT !.sender_keys =
                          [m \in DOMAIN @ \ {member} |-> @[m]]]
       IN  groups' = [groups EXCEPT ![d] = Ratcheted(removed)]
    /\ UNCHANGED wire

\* The key that encrypt_group_message and decrypt_group_message look up.
KeyFor(d, sender) ==
    IF sender \in DOMAIN groups[d].sender_keys
    THEN groups[d].sender_keys[sender]
    ELSE groups[d].current_key

encrypt_group_message(d, sender) ==
    /\ Exists(d)
    /\ Cardinality(wire) < MaxMessages
    /\ wire' = wire \cup {[sender |-> sender, key |-> KeyFor(d, sender),
                           epoch |-> groups[d].epoch]}
    /\ UNCHANGED groups

\* Whether decrypt_group_message returns the plaintext; it changes no state.
decrypt_group_message(d, msg) == Exists(d) /\ KeyFor(d, msg.sender) = msg.key

Next ==
    \E d \in Devices :
        \/ ratchet_group(d)
        \/ \E m \in Members :
            \/ create_group(d, m)
            \/ register_member(d, m)
            \/ remove_member(d, m)
            \/ encrypt_group_message(d, m)

Spec == Init /\ [][Next]_vars

-----------------------------------------------------------------------------
Keys == [member : Members, epoch : 0 .. MaxEpoch, hashed : Seq(1 .. MaxEpoch)]

\* A sender key is its member's for the current epoch; the group key has been
\* through every epoch up to the current one.
TypeOK ==
    /\ wire \subseteq [sender : Members, key : Keys, epoch : 0 .. MaxEpoch]
    /\ \A d \in Devices : Exists(d) =>
        /\ groups[d].epoch \in 0 .. MaxEpoch
        /\ groups[d].current_key \in Keys
        /\ Len(groups[d].current_key.hashed) = groups[d].epoch
        /\ \A m \in DOMAIN groups[d].sender_keys :
              groups[d].sender_keys[m] = generate_sender_key(m, groups[d].epoch)

\* A message opens only on a device that is in the epoch the message was sealed in,
\* whatever the devices did in which order.  So a removal or a ratchet shuts earlier
\* messages out, but only until the device creates the group again: epoch 0 is back
\* with it, under the same keys, and so is what was sealed under them.
OpensOnlyInItsEpoch ==
    \A d \in Devices, msg \in wire :
        decrypt_group_message(d, msg) => groups[d].epoch = msg.epoch

\* Two devices use the same key for a sender exactly when they agree on the epoch
\* and on whether the sender is registered (and, if not, on who created the
\* group); in epoch 0 the group key is the creator's own sender key.
AgreeOn(d1, d2, sender) ==
    LET in(d) == sender \in DOMAIN groups[d].sender_keys
        creator(d) == groups[d].current_key.member
        own(d) == in(d) \/ (groups[d].epoch = 0 /\ creator(d) = sender)
    IN  /\ groups[d1].epoch = groups[d2].epoch
        /\ \/ own(d1) /\ own(d2)
           \/ ~ in(d1) /\ ~ in(d2) /\ creator(d1) = creator(d2)

\* The keys of two devices agree exactly when their views do: one device's
\* register_member that the other has not made is enough to part them.
SameKeySameView ==
    \A d1, d2 \in Devices, sender \in Members :
        Exists(d1) /\ Exists(d2) =>
            (KeyFor(d1, sender) = KeyFor(d2, sender) <=> AgreeOn(d1, d2, sender))

=============================================================================
