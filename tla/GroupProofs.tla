----------------------------- MODULE GroupProofs -----------------------------
(***************************************************************************)
(* For any number of devices, groups, members, epochs and messages: a      *)
(* message of the core opens only in its epoch and the keys of two devices *)
(* agree exactly when their views do; a message of the app opens only in   *)
(* its group and until the group's next change, nobody who left knows a    *)
(* key, and no two senders share one.                                      *)
(*                                                                         *)
(* The first part is about the core (GroupKeys), the second about the app  *)
(* (AppGroupKeys); MCSpec takes the steps of either.                       *)
(***************************************************************************)
EXTENDS MCGroups, FiniteSetTheorems, TLAPS

\* The numbers 1 .. e: the epochs a group key has been through in epoch e.
UpTo(e) == [i \in 1 .. e |-> i]

ChainKey(c, e) == [member |-> c, epoch |-> 0, hashed |-> UpTo(e)]

GroupEncryption(d) ==
    /\ groups[d] = [sender_keys |-> groups[d].sender_keys,
                    current_key |-> groups[d].current_key,
                    epoch |-> groups[d].epoch]
    /\ groups[d].epoch \in 0 .. MaxEpoch
    /\ \E c \in Members : groups[d].current_key = ChainKey(c, groups[d].epoch)
    /\ groups[d].sender_keys =
           [m \in DOMAIN groups[d].sender_keys |-> generate_sender_key(m, groups[d].epoch)]
    /\ DOMAIN groups[d].sender_keys \subseteq Members

\* The two kinds of keys a message of an epoch can be sealed with.
KeysOf(sender, e) == {generate_sender_key(sender, e)} \cup {ChainKey(c, e) : c \in Members}

\* The inductive invariant of the core: it says which key every device and every
\* message holds, so that keys can be compared by their epochs.
CoreInv ==
    /\ DOMAIN groups = Devices
    /\ \A d \in Devices : Exists(d) => GroupEncryption(d)
    /\ \A msg \in wire :
        /\ msg = [sender |-> msg.sender, key |-> msg.key, epoch |-> msg.epoch]
        /\ msg.sender \in Members
        /\ msg.epoch \in 0 .. MaxEpoch
        /\ msg.key \in KeysOf(msg.sender, msg.epoch)

\* One more epoch hashed into the key.
LEMMA UpToAppend ==
    ASSUME NEW e \in Nat
    PROVE  /\ UpTo(e) \in Seq(1 .. e)
           /\ Len(UpTo(e)) = e
           /\ Append(UpTo(e), e + 1) = UpTo(e + 1)
           /\ UpTo(0) = <<>>
  BY DEF UpTo

\* Keys of different epochs differ, whichever kind they are; a sender key is the group
\* key only in epoch 0 and for the creator.
LEMMA KeysApart ==
    ASSUME NEW e \in Nat, NEW f \in Nat, NEW m \in Members, NEW c \in Members, NEW b \in Members
    PROVE  /\ generate_sender_key(m, e) = generate_sender_key(m, f) <=> e = f
           /\ ChainKey(c, e) = ChainKey(b, f) <=> e = f /\ c = b
           /\ generate_sender_key(m, e) = ChainKey(c, f) <=> e = 0 /\ f = 0 /\ m = c
  <1>1. Len(UpTo(e)) = e /\ Len(UpTo(f)) = f /\ UpTo(0) = <<>>
    BY UpToAppend
  <1>2. Len(<<>>) = 0
    OBVIOUS
  <1>3. generate_sender_key(m, e) = generate_sender_key(m, f) <=> e = f
    BY DEF generate_sender_key
  <1>4. ChainKey(c, e) = ChainKey(b, f) <=> e = f /\ c = b
    BY <1>1 DEF ChainKey
  <1>5. generate_sender_key(m, e) = ChainKey(c, f) <=> e = 0 /\ f = 0 /\ m = c
    BY <1>1, <1>2 DEF ChainKey, generate_sender_key
  <1> QED
    BY <1>3, <1>4, <1>5

\* The key looked up for a sender is one of the two of the device's epoch.
LEMMA KeyForKinds ==
    ASSUME CoreInv, NEW d \in Devices, Exists(d), NEW s \in Members
    PROVE  /\ s \in DOMAIN groups[d].sender_keys =>
                  KeyFor(d, s) = generate_sender_key(s, groups[d].epoch)
           /\ s \notin DOMAIN groups[d].sender_keys => KeyFor(d, s) = groups[d].current_key
           /\ KeyFor(d, s) \in KeysOf(s, groups[d].epoch)
  <1>1. GroupEncryption(d)
    BY DEF CoreInv
  <1>2. s \in DOMAIN groups[d].sender_keys =>
            groups[d].sender_keys[s] = generate_sender_key(s, groups[d].epoch)
    BY <1>1 DEF GroupEncryption
  <1>3. \E c \in Members : groups[d].current_key = ChainKey(c, groups[d].epoch)
    BY <1>1 DEF GroupEncryption
  <1> QED
    BY <1>2, <1>3 DEF KeyFor, KeysOf

\* Ratcheting hashes one more epoch into the key.
LEMMA DeriveAppends ==
    ASSUME NEW c, NEW e, NEW h, NEW n
    PROVE  derive_key_from_epoch([member |-> c, epoch |-> e, hashed |-> h], n) =
               [member |-> c, epoch |-> e, hashed |-> Append(h, n)]
  BY DEF derive_key_from_epoch

LEMMA CreateKeeps ==
    ASSUME CoreInv, NEW d \in Devices, NEW c \in Members, create_group(d, c)
    PROVE  CoreInv'
  <1>1. generate_sender_key(c, 0) = ChainKey(c, 0)
    BY UpToAppend DEF generate_sender_key, ChainKey
  <1>2. GroupEncryption(d)'
    <2>1. groups'[d] = [sender_keys |-> [m \in {} |-> <<>>],
                        current_key |-> generate_sender_key(c, 0), epoch |-> 0]
      BY DEF create_group, CoreInv
    <2>2. [m \in {} |-> <<>>] = [m \in {} |-> generate_sender_key(m, 0)]
      OBVIOUS
    <2> QED
      BY <1>1, <2>1, <2>2, GroupBoundsAssumption DEF GroupEncryption
  <1> QED
    BY <1>2 DEF create_group, CoreInv, GroupEncryption, Exists

LEMMA RegisterKeeps ==
    ASSUME CoreInv, NEW d \in Devices, NEW x \in Members, register_member(d, x)
    PROVE  CoreInv'
  <1>1. GroupEncryption(d)
    BY DEF register_member, CoreInv
  <1> DEFINE keys == groups[d].sender_keys
             more == [m \in DOMAIN keys \cup {x} |->
                         IF m = x THEN generate_sender_key(x, groups[d].epoch) ELSE keys[m]]
  <1>2. /\ groups'[d] = [groups[d] EXCEPT !.sender_keys = more]
        /\ \A e \in Devices \ {d} : groups'[e] = groups[e]
        /\ DOMAIN groups' = Devices
        /\ wire' = wire
    BY DEF register_member, CoreInv
  <1>3. more = [m \in DOMAIN keys \cup {x} |-> generate_sender_key(m, groups[d].epoch)]
    BY <1>1 DEF GroupEncryption
  <1>4. groups'[d] = [sender_keys |-> more, current_key |-> groups[d].current_key,
                      epoch |-> groups[d].epoch]
    BY <1>1, <1>2 DEF GroupEncryption
  <1> HIDE DEF more
  <1>5. DOMAIN more = DOMAIN keys \cup {x}
    BY <1>3
  <1>6. GroupEncryption(d)'
    BY <1>1, <1>3, <1>4, <1>5 DEF GroupEncryption
  <1> QED
    BY <1>2, <1>6 DEF CoreInv, GroupEncryption, Exists

\* What a ratchet makes of a group, with or without a key removed before it.
LEMMA RatchetedIsNext ==
    ASSUME CoreInv, NEW d \in Devices, GroupEncryption(d), groups[d].epoch < MaxEpoch,
           NEW g, g.epoch = groups[d].epoch, g.current_key = groups[d].current_key,
           g = [sender_keys |-> g.sender_keys, current_key |-> g.current_key, epoch |-> g.epoch],
           groups' = [groups EXCEPT ![d] = Ratcheted(g)], wire' = wire
    PROVE  CoreInv'
  <1> DEFINE e == groups[d].epoch
  <1>1. PICK c \in Members : groups[d].current_key = ChainKey(c, e)
    BY DEF GroupEncryption
  <1>2. e \in Nat /\ e + 1 \in 0 .. MaxEpoch
    BY GroupBoundsAssumption DEF GroupEncryption
  <1>3. derive_key_from_epoch(groups[d].current_key, e + 1) = ChainKey(c, e + 1)
    <2>1. Append(UpTo(e), e + 1) = UpTo(e + 1)
      BY <1>2, UpToAppend
    <2>2. derive_key_from_epoch(ChainKey(c, e), e + 1) =
              [member |-> c, epoch |-> 0, hashed |-> Append(UpTo(e), e + 1)]
      BY DeriveAppends DEF ChainKey
    <2> QED
      BY <1>1, <2>1, <2>2 DEF ChainKey
  <1>4. groups'[d] = [sender_keys |-> [m \in {} |-> <<>>],
                      current_key |-> ChainKey(c, e + 1), epoch |-> e + 1]
    BY <1>3 DEF CoreInv, Ratcheted
  <1>5. [m \in {} |-> <<>>] = [m \in {} |-> generate_sender_key(m, e + 1)]
    OBVIOUS
  <1>6. GroupEncryption(d)'
    BY <1>2, <1>4, <1>5 DEF GroupEncryption
  <1> QED
    BY <1>6 DEF CoreInv, GroupEncryption, Exists

LEMMA RatchetKeeps ==
    ASSUME CoreInv, NEW d \in Devices, ratchet_group(d)
    PROVE  CoreInv'
  <1>1. /\ GroupEncryption(d)
        /\ groups[d].epoch < MaxEpoch
        /\ groups' = [groups EXCEPT ![d] = Ratcheted(groups[d])]
        /\ wire' = wire
    BY DEF ratchet_group, CoreInv
  <1>2. groups[d] = [sender_keys |-> groups[d].sender_keys,
                     current_key |-> groups[d].current_key, epoch |-> groups[d].epoch]
    BY <1>1 DEF GroupEncryption
  <1> QED
    BY <1>1, <1>2, RatchetedIsNext

LEMMA RemoveKeeps ==
    ASSUME CoreInv, NEW d \in Devices, NEW x \in Members, remove_member(d, x)
    PROVE  CoreInv'
  <1> DEFINE g == [groups[d] EXCEPT !.sender_keys = [m \in DOMAIN @ \ {x} |-> @[m]]]
  <1>1. /\ GroupEncryption(d)
        /\ groups[d].epoch < MaxEpoch
        /\ groups' = [groups EXCEPT ![d] = Ratcheted(g)]
        /\ wire' = wire
    BY DEF remove_member, CoreInv
  <1>2. /\ g.epoch = groups[d].epoch
        /\ g.current_key = groups[d].current_key
        /\ g = [sender_keys |-> g.sender_keys, current_key |-> g.current_key, epoch |-> g.epoch]
    BY <1>1 DEF GroupEncryption
  <1> HIDE DEF g
  <1> QED
    BY <1>1, <1>2, RatchetedIsNext

LEMMA EncryptKeeps ==
    ASSUME CoreInv, NEW d \in Devices, NEW s \in Members, encrypt_group_message(d, s)
    PROVE  CoreInv'
  <1> DEFINE new == [sender |-> s, key |-> KeyFor(d, s), epoch |-> groups[d].epoch]
  <1>1. groups' = groups /\ wire' = wire \cup {new} /\ Exists(d)
    BY DEF encrypt_group_message
  <1>2. new.epoch \in 0 .. MaxEpoch /\ new.key \in KeysOf(s, new.epoch)
    BY <1>1, KeyForKinds DEF CoreInv, GroupEncryption
  <1>3. /\ new = [sender |-> new.sender, key |-> new.key, epoch |-> new.epoch]
        /\ new.sender = s
    OBVIOUS
  <1> HIDE DEF new
  <1> QED
    BY <1>1, <1>2, <1>3 DEF CoreInv, Exists, GroupEncryption, KeysOf

LEMMA CoreInvariant == Spec => []CoreInv
  <1>1. Init => CoreInv
    BY DEF Init, CoreInv, Exists
  <1>2. CoreInv /\ [Next]_vars => CoreInv'
    <2>1. ASSUME CoreInv, Next PROVE CoreInv'
      BY <2>1, CreateKeeps, RegisterKeeps, RatchetKeeps, RemoveKeeps, EncryptKeeps DEF Next
    <2>2. ASSUME CoreInv, UNCHANGED vars PROVE CoreInv'
      BY <2>2 DEF vars, CoreInv, Exists, GroupEncryption
    <2> QED
      BY <2>1, <2>2
  <1> QED
    BY <1>1, <1>2, PTL DEF Spec

LEMMA CoreInvTypes == CoreInv => TypeOK
  <1> SUFFICES ASSUME CoreInv PROVE TypeOK
    OBVIOUS
  <1>1. ASSUME NEW e \in 0 .. MaxEpoch, NEW c \in Members
        PROVE  ChainKey(c, e) \in Keys /\ generate_sender_key(c, e) \in Keys
               /\ Len(ChainKey(c, e).hashed) = e
    <2>1. UpTo(e) \in Seq(1 .. e) /\ Len(UpTo(e)) = e
      BY UpToAppend
    <2>2. UpTo(e) \in Seq(1 .. MaxEpoch)
      BY <2>1, GroupBoundsAssumption DEF UpTo
    <2> QED
      BY <2>1, <2>2, GroupBoundsAssumption DEF ChainKey, generate_sender_key, Keys
  <1>2. wire \subseteq [sender : Members, key : Keys, epoch : 0 .. MaxEpoch]
    BY <1>1 DEF CoreInv, KeysOf
  <1>3. ASSUME NEW d \in Devices, Exists(d)
        PROVE  /\ groups[d].epoch \in 0 .. MaxEpoch
               /\ groups[d].current_key \in Keys
               /\ Len(groups[d].current_key.hashed) = groups[d].epoch
               /\ \A m \in DOMAIN groups[d].sender_keys :
                     groups[d].sender_keys[m] = generate_sender_key(m, groups[d].epoch)
    <2>1. GroupEncryption(d)
      BY <1>3 DEF CoreInv
    <2>2. groups[d].epoch \in 0 .. MaxEpoch
      BY <2>1 DEF GroupEncryption
    <2>3. PICK c \in Members : groups[d].current_key = ChainKey(c, groups[d].epoch)
      BY <2>1 DEF GroupEncryption
    <2>4. \A m \in DOMAIN groups[d].sender_keys :
              groups[d].sender_keys[m] = generate_sender_key(m, groups[d].epoch)
      BY <2>1 DEF GroupEncryption
    <2> QED
      BY <1>1, <2>2, <2>3, <2>4
  <1> QED
    BY <1>2, <1>3 DEF TypeOK

LEMMA CoreInvOpens == CoreInv => OpensOnlyInItsEpoch
  <1> SUFFICES ASSUME CoreInv, NEW d \in Devices, NEW msg \in wire, decrypt_group_message(d, msg)
               PROVE  groups[d].epoch = msg.epoch
    BY DEF OpensOnlyInItsEpoch
  <1>1. /\ msg.sender \in Members
        /\ msg.key \in KeysOf(msg.sender, msg.epoch)
        /\ msg.key \in KeysOf(msg.sender, groups[d].epoch)
        /\ msg.epoch \in Nat /\ groups[d].epoch \in Nat
    <2>1. /\ Exists(d) /\ KeyFor(d, msg.sender) = msg.key
          /\ msg.sender \in Members
          /\ msg.epoch \in 0 .. MaxEpoch
          /\ msg.key \in KeysOf(msg.sender, msg.epoch)
      BY DEF CoreInv, decrypt_group_message
    <2>2. GroupEncryption(d)
      BY <2>1 DEF CoreInv
    <2>3. groups[d].epoch \in 0 .. MaxEpoch
      BY <2>2 DEF GroupEncryption
    <2> QED
      BY <2>1, <2>3, KeyForKinds, GroupBoundsAssumption
  <1> QED
    BY <1>1, KeysApart DEF KeysOf

LEMMA CoreInvViews == CoreInv => SameKeySameView
  <1> SUFFICES ASSUME CoreInv, NEW d1 \in Devices, NEW d2 \in Devices, NEW s \in Members,
                      Exists(d1), Exists(d2)
               PROVE  KeyFor(d1, s) = KeyFor(d2, s) <=> AgreeOn(d1, d2, s)
    BY DEF SameKeySameView
  <1> DEFINE in1 == s \in DOMAIN groups[d1].sender_keys
             in2 == s \in DOMAIN groups[d2].sender_keys
             e1 == groups[d1].epoch
             e2 == groups[d2].epoch
  <1>0. GroupEncryption(d1) /\ GroupEncryption(d2)
    BY DEF CoreInv
  <1>1. PICK c1 \in Members : groups[d1].current_key = ChainKey(c1, e1)
    BY <1>0 DEF GroupEncryption
  <1>2. PICK c2 \in Members : groups[d2].current_key = ChainKey(c2, e2)
    BY <1>0 DEF GroupEncryption
  <1>3. e1 \in Nat /\ e2 \in Nat
    BY <1>0, GroupBoundsAssumption DEF GroupEncryption
  <1>4. /\ in1 => KeyFor(d1, s) = generate_sender_key(s, e1)
        /\ ~ in1 => KeyFor(d1, s) = ChainKey(c1, e1)
        /\ in2 => KeyFor(d2, s) = generate_sender_key(s, e2)
        /\ ~ in2 => KeyFor(d2, s) = ChainKey(c2, e2)
    BY <1>1, <1>2, KeyForKinds
  <1>5. AgreeOn(d1, d2, s) <=>
            /\ e1 = e2
            /\ \/ (in1 \/ (e1 = 0 /\ c1 = s)) /\ (in2 \/ (e2 = 0 /\ c2 = s))
               \/ ~ in1 /\ ~ in2 /\ c1 = c2
    <2>1. groups[d1].current_key.member = c1 /\ groups[d2].current_key.member = c2
      BY <1>1, <1>2 DEF ChainKey
    <2> QED
      BY <2>1 DEF AgreeOn
  <1> HIDE DEF in1, in2, e1, e2
  <1>6. CASE in1 /\ in2
    BY <1>3, <1>4, <1>5, <1>6, KeysApart
  <1>7. CASE in1 /\ ~ in2
    BY <1>3, <1>4, <1>5, <1>7, KeysApart
  <1>8. CASE ~ in1 /\ in2
    BY <1>3, <1>4, <1>5, <1>8, KeysApart
  <1>9. CASE ~ in1 /\ ~ in2
    BY <1>3, <1>4, <1>5, <1>9, KeysApart
  <1> QED
    BY <1>6, <1>7, <1>8, <1>9

\* A behaviour of MCSpec is one of GroupKeys: the steps of the app leave it alone.
LEMMA CorePart == MCSpec => Spec
  <1>1. MCInit => Init
    BY DEF MCInit
  <1>2. [MCNext]_all_vars => [Next]_vars
    BY DEF MCNext, all_vars
  <1> QED
    BY <1>1, <1>2, PTL DEF MCSpec, Spec

\* A message opens only on a device that is in the epoch it was sealed in, in whatever
\* order the devices created, registered, removed and ratcheted.  (A group that is
\* created again is in epoch 0 again, and what was sealed there may open again.)
THEOREM MessagesOpenInTheirEpoch == MCSpec => []CoreOpensOnlyInItsEpoch
  <1>1. CoreInv => CoreOpensOnlyInItsEpoch
    BY CoreInvTypes, CoreInvOpens DEF CoreOpensOnlyInItsEpoch
  <1> QED
    BY CorePart, CoreInvariant, <1>1, PTL

\* Two devices hold the same key for a sender exactly when their views of the group
\* agree.
THEOREM ViewsDecideKeys == MCSpec => []SameKeySameView
  BY CorePart, CoreInvariant, CoreInvViews, PTL

-----------------------------------------------------------------------------
Has(g) == app_groups[g] # NoGroup

KeysIn(g) == app_groups[g].senderKeys

\* A message whose key is in use is of the group and the sender that use it, and it is
\* of the group's last change or of an earlier epoch: an added member leaves the
\* others their keys, but moves the epoch on.
UsedByItsSender(m) ==
    /\ m.epoch \in Nat
    /\ \A g \in Groups : Has(g) => \A x \in app_groups[g].memberIds : KeysIn(g)[x] = m.key =>
        /\ m.groupId = g /\ m.senderId = x
        /\ \/ m.at = changes[g] /\ m.epoch = app_groups[g].epoch
           \/ m.epoch < app_groups[g].epoch

\* The inductive invariant of the app.
AppInv ==
    /\ DOMAIN app_groups = Groups
    /\ \A g \in Groups : Has(g) => app_groups[g].epoch \in Nat
    /\ App!TypeOK
    /\ App!RemovedKnowNoKey
    /\ App!SendersDiffer
    /\ \A m \in messages : UsedByItsSender(m)

\* AppGroupKeys counts with the same operators.
LEMMA AppCounts ==
    ASSUME NEW S
    PROVE  App!Cardinality(S) = Cardinality(S) /\ (App!IsFiniteSet(S) <=> IsFiniteSet(S))
  BY DEF App!Cardinality, Cardinality, App!IsFiniteSet, IsFiniteSet

\* The new keys are numbered on from the last one drawn, one for each member.
LEMMA NumberCounts ==
    ASSUME NEW members \in SUBSET Members
    PROVE  /\ Cardinality(members) \in Nat
           /\ App!Number(members) \in [members -> 1 .. Cardinality(members)]
           /\ \A x, y \in members : App!Number(members)[x] = App!Number(members)[y] => x = y
  <1> DEFINE n == App!Cardinality(members)
             Counts(number) == \A i \in 1 .. n : \E m \in members : number[m] = i
  <1>1. IsFiniteSet(Members)
    BY AppAssumption, AppCounts DEF App!AppGroupKeysAssumption
  <1>2. IsFiniteSet(members)
    BY <1>1, FS_Subset
  <1>0. n = Cardinality(members)
    BY AppCounts
  <1>3. n \in Nat /\ ExistsBijection(1 .. n, members)
    BY <1>0, <1>2, FS_CardinalityType
  <1>4. PICK f \in Bijection(1 .. n, members) : TRUE
    BY <1>3 DEF ExistsBijection
  <1>5. /\ f \in [1 .. n -> members]
        /\ \A i, j \in 1 .. n : f[i] = f[j] => i = j
        /\ \A m \in members : \E i \in 1 .. n : f[i] = m
    BY <1>4 DEF Bijection, Injection, Surjection, IsInjective
  <1>6. \E number \in [members -> 1 .. n] : Counts(number)
    <2> DEFINE inverse == [m \in members |-> CHOOSE i \in 1 .. n : f[i] = m]
    <2>1. \A m \in members : inverse[m] \in 1 .. n /\ f[inverse[m]] = m
      BY <1>5
    <2>2. inverse \in [members -> 1 .. n]
      BY <2>1
    <2> HIDE DEF inverse
    <2>3. \A i \in 1 .. n : f[i] \in members /\ inverse[f[i]] = i
      BY <1>5, <2>1
    <2>4. Counts(inverse)
      BY <2>3
    <2> QED
      BY <2>2, <2>4
  <1> DEFINE number == App!Number(members)
  <1>7. number = CHOOSE num \in [members -> 1 .. n] : Counts(num)
    BY DEF App!Number
  <1> HIDE DEF number, Counts, n
  <1>8. number \in [members -> 1 .. n] /\ Counts(number)
    BY <1>6, <1>7
  <1>9. number \in Surjection(members, 1 .. n)
    BY <1>8 DEF Surjection, Counts
  <1>10. Cardinality(1 .. n) = n
    BY <1>3, FS_Interval
  <1>11. number \in Injection(members, 1 .. n)
    BY <1>0, <1>2, <1>9, <1>10, FS_SurjSameCardinalityImpliesInj
  <1>12. \A x, y \in members : number[x] = number[y] => x = y
    BY <1>11 DEF Injection, IsInjective
  <1> QED
    BY <1>0, <1>3, <1>8, <1>12 DEF number

LEMMA FreshKeysAreNew ==
    ASSUME NEW members \in SUBSET Members, drawn \in Nat
    PROVE  LET n == Cardinality(members)
           IN  /\ n \in Nat
               /\ App!FreshKeys(members) \in [members -> 1 .. drawn + n]
               /\ \A x \in members : App!FreshKeys(members)[x] > drawn
               /\ \A x, y \in members :
                      App!FreshKeys(members)[x] = App!FreshKeys(members)[y] => x = y
  <1>1. /\ Cardinality(members) \in Nat
        /\ \A x \in members : App!Number(members)[x] \in 1 .. Cardinality(members)
        /\ \A x, y \in members : App!Number(members)[x] = App!Number(members)[y] => x = y
    BY NumberCounts
  <1> DEFINE N == App!Number(members)
  <1> HIDE DEF N
  <1>2. App!FreshKeys(members) = [m \in members |-> drawn + N[m]]
    BY DEF App!FreshKeys, N
  <1> QED
    BY <1>1, <1>2 DEF N

\* The keys of a changed group are new, or those its members had in an earlier epoch.
\* Every change of a group is of this kind.
LEMMA BecomesKeeps ==
    ASSUME AppInv, NEW g \in Groups, NEW members \in SUBSET Members, NEW n \in Nat,
           NEW keys \in [members -> 1 .. drawn + n], NEW e \in Nat, e <= changes[g],
           App!Becomes(g, [memberIds |-> members, senderKeys |-> keys, epoch |-> e], n),
           \A x, y \in members : keys[x] = keys[y] => x = y,
           \A x \in members :
               \/ keys[x] > drawn
               \/ /\ Has(g) /\ app_groups[g].memberIds \subseteq members
                  /\ x \in app_groups[g].memberIds /\ keys[x] = KeysIn(g)[x]
                  /\ app_groups[g].epoch < e
    PROVE  AppInv'
  <1> DEFINE new == [memberIds |-> members, senderKeys |-> keys, epoch |-> e]
  <1>1. /\ drawn + n <= AppMaxKeys
        /\ changes[g] < AppMaxChanges
        /\ drawn' = drawn + n
        /\ app_groups' = [app_groups EXCEPT ![g] = new]
        /\ changes' = [changes EXCEPT ![g] = changes[g] + 1]
        /\ learnt' = [learnt EXCEPT ![g] = App!Given(learnt[g], members, keys)]
        /\ messages' = messages
    BY DEF App!Becomes
  <1>2. /\ DOMAIN app_groups = Groups
        /\ drawn \in Nat /\ drawn' \in Nat /\ drawn <= drawn'
        /\ changes \in [Groups -> 0 .. AppMaxChanges]
        /\ learnt \in [Groups -> [Members -> SUBSET (1 .. drawn)]]
        /\ AppMaxKeys \in Nat /\ AppMaxChanges \in Nat
    BY <1>1, AppAssumption DEF AppInv, App!TypeOK, App!AppGroupKeysAssumption
  <1>3. /\ app_groups'[g].memberIds = members
        /\ app_groups'[g].senderKeys = keys
        /\ app_groups'[g].epoch = e
        /\ \A h \in Groups \ {g} : app_groups'[h] = app_groups[h]
        /\ DOMAIN app_groups' = Groups
    BY <1>1, <1>2
  <1>4. \A h \in Groups : Has(h) =>
            /\ app_groups[h].memberIds \subseteq Members
            /\ KeysIn(h) \in [app_groups[h].memberIds -> 1 .. drawn]
            /\ app_groups[h].epoch \in Nat
            /\ app_groups[h].epoch < changes[h]
    BY DEF AppInv, App!TypeOK, App!Exists, Has, KeysIn
  <1>5. /\ learnt'[g] = [m \in Members |-> IF m \in members
                            THEN learnt[g][m] \cup {keys[x] : x \in members}
                            ELSE learnt[g][m]]
        /\ \A h \in Groups \ {g} : learnt'[h] = learnt[h]
        /\ DOMAIN learnt' = Groups
    BY <1>1, <1>2 DEF App!Given
  <1>6. App!TypeOK'
    <2>1. drawn' \in 0 .. AppMaxKeys
      BY <1>1, <1>2
    <2>2. changes' \in [Groups -> 0 .. AppMaxChanges]
      BY <1>1, <1>2
    <2>3. learnt' \in [Groups -> [Members -> SUBSET (1 .. drawn')]]
      <3>1. \A h \in Groups : learnt[h] \in [Members -> SUBSET (1 .. drawn')]
        BY <1>2
      <3>2. {keys[x] : x \in members} \subseteq 1 .. drawn'
        BY <1>1
      <3>3. learnt'[g] \in [Members -> SUBSET (1 .. drawn')]
        BY <1>5, <3>1, <3>2
      <3> HIDE DEF new
      <3>4. learnt' = [h \in Groups |-> learnt'[h]]
        BY <1>1, <1>2
      <3> QED
        BY <1>5, <3>1, <3>3, <3>4
    <2>4. ASSUME NEW h \in Groups, Has(h)'
          PROVE  /\ app_groups'[h].memberIds \subseteq Members
                 /\ KeysIn(h)' \in [app_groups'[h].memberIds -> 1 .. drawn']
                 /\ app_groups'[h].epoch < changes'[h]
      <3>1. CASE h = g
        BY <1>1, <1>2, <1>3, <3>1 DEF KeysIn
      <3>2. CASE h # g
        BY <1>1, <1>2, <1>3, <1>4, <2>4, <3>2 DEF Has, KeysIn
      <3> QED
        BY <3>1, <3>2
    <2>5. \A m \in messages' : m.groupId \in Groups /\ m.senderId \in Members
                               /\ m.key \in 1 .. drawn'
      BY <1>1, <1>2 DEF AppInv, App!TypeOK
    <2> QED
      BY <2>1, <2>2, <2>3, <2>4, <2>5 DEF App!TypeOK, App!Exists, Has, KeysIn
  <1>7. App!RemovedKnowNoKey'
    <2> SUFFICES ASSUME NEW h \in Groups, Has(h)', NEW m \in Members \ app_groups'[h].memberIds,
                        NEW x \in app_groups'[h].memberIds
                 PROVE  KeysIn(h)'[x] \notin learnt'[h][m]
      BY DEF App!RemovedKnowNoKey, App!Exists, Has, KeysIn
    <2>1. \A i \in Groups : Has(i) => \A y \in Members \ app_groups[i].memberIds :
              \A z \in app_groups[i].memberIds : KeysIn(i)[z] \notin learnt[i][y]
      BY DEF AppInv, App!RemovedKnowNoKey, App!Exists, Has, KeysIn
    <2>2. CASE h # g
      BY <1>3, <1>5, <2>1, <2>2 DEF Has, KeysIn
    <2>3. CASE h = g
      <3>1. learnt'[h][m] = learnt[g][m] /\ KeysIn(h)'[x] = keys[x] /\ x \in members
        BY <1>3, <1>5, <2>3 DEF KeysIn
      <3>2. learnt[g][m] \subseteq 1 .. drawn
        BY <1>2
      <3> QED
        BY <1>2, <1>3, <2>1, <2>3, <3>1, <3>2
    <2> QED
      BY <2>2, <2>3
  <1>8. App!SendersDiffer'
    <2> SUFFICES ASSUME NEW h \in Groups, NEW i \in Groups, Has(h)', Has(i)',
                        NEW m \in app_groups'[h].memberIds, NEW x \in app_groups'[i].memberIds,
                        KeysIn(h)'[m] = KeysIn(i)'[x]
                 PROVE  h = i /\ m = x
      BY DEF App!SendersDiffer, App!Exists, Has, KeysIn
    <2>1. \A u, v \in Groups : Has(u) /\ Has(v) =>
              \A y \in app_groups[u].memberIds : \A z \in app_groups[v].memberIds :
                  KeysIn(u)[y] = KeysIn(v)[z] => u = v /\ y = z
      BY DEF AppInv, App!SendersDiffer, App!Exists, Has, KeysIn
    <2>2. \A u \in Groups \ {g} : Has(u)' => /\ Has(u) /\ KeysIn(u)' = KeysIn(u)
                                             /\ app_groups'[u].memberIds = app_groups[u].memberIds
      BY <1>3 DEF Has, KeysIn
    <2>3. \A u \in Groups \ {g} : Has(u)' =>
              \A y \in app_groups[u].memberIds : \A z \in members : KeysIn(u)[y] # keys[z]
      <3> SUFFICES ASSUME NEW u \in Groups \ {g}, Has(u), NEW y \in app_groups[u].memberIds,
                          NEW z \in members
                   PROVE  KeysIn(u)[y] # keys[z]
        BY <2>2
      <3>1. KeysIn(u)[y] \in 1 .. drawn
        BY <1>4
      <3> QED
        BY <1>2, <2>1, <3>1
    <2> QED
      BY <1>3, <2>1, <2>2, <2>3 DEF KeysIn
  <1>9. ASSUME NEW m \in messages' PROVE UsedByItsSender(m)'
    <2> SUFFICES ASSUME NEW h \in Groups, Has(h)', NEW x \in app_groups'[h].memberIds,
                        KeysIn(h)'[x] = m.key
                 PROVE  /\ m.groupId = h /\ m.senderId = x
                        /\ \/ m.at = changes'[h] /\ m.epoch = app_groups'[h].epoch
                           \/ m.epoch < app_groups'[h].epoch
      BY <1>1, <1>9 DEF UsedByItsSender, AppInv
    <2>1. UsedByItsSender(m) /\ m.key \in 1 .. drawn
      BY <1>1, <1>9 DEF AppInv, App!TypeOK
    <2>2. CASE h # g
      BY <1>1, <1>2, <1>3, <2>1, <2>2 DEF UsedByItsSender, Has, KeysIn
    <2>3. CASE h = g
      <3>1. keys[x] = m.key /\ x \in members /\ keys[x] <= drawn
        BY <1>2, <1>3, <2>1, <2>3 DEF KeysIn
      <3>2. /\ Has(g) /\ x \in app_groups[g].memberIds /\ m.key = KeysIn(g)[x]
            /\ app_groups[g].epoch < e
        BY <1>2, <3>1
      <3>3. m.groupId = g /\ m.senderId = x
        BY <2>1, <3>2 DEF UsedByItsSender
      <3> QED
        <4>1. m.epoch \in Nat /\ m.epoch <= app_groups[g].epoch
          BY <1>4, <2>1, <3>2 DEF UsedByItsSender
        <4> QED
          BY <1>3, <1>4, <2>3, <3>2, <3>3, <4>1
    <2> QED
      BY <2>2, <2>3
  <1> QED
    BY <1>3, <1>4, <1>6, <1>7, <1>8, <1>9 DEF AppInv, Has

LEMMA CreateGroupKeeps ==
    ASSUME AppInv, NEW g \in Groups, NEW members \in SUBSET Members, App!createGroup(g, members)
    PROVE  AppInv'
  <1> DEFINE keys == App!FreshKeys(members)
             n == Cardinality(members)
  <1>1. drawn \in Nat /\ changes[g] \in Nat
    BY AppAssumption DEF AppInv, App!TypeOK, App!AppGroupKeysAssumption
  <1>2. /\ n \in Nat
        /\ keys \in [members -> 1 .. drawn + n]
        /\ \A x \in members : keys[x] > drawn
        /\ \A x, y \in members : keys[x] = keys[y] => x = y
    BY <1>1, FreshKeysAreNew
  <1>3. App!Becomes(g, [memberIds |-> members, senderKeys |-> keys, epoch |-> 0], n)
    BY AppCounts DEF App!createGroup
  <1> HIDE DEF keys, n
  <1> QED
    BY <1>1, <1>2, <1>3, BecomesKeeps

\* removeMember and rotateKeys.
LEMMA RotateKeeps ==
    ASSUME AppInv, NEW g \in Groups, Has(g), NEW members \in SUBSET Members,
           App!_rotateAllKeys(g, members)
    PROVE  AppInv'
  <1> DEFINE keys == App!FreshKeys(members)
             n == Cardinality(members)
             e == app_groups[g].epoch + 1
  <1>1. drawn \in Nat /\ changes[g] \in Nat /\ e \in Nat /\ e <= changes[g]
    <2>1. app_groups[g].epoch \in Nat /\ app_groups[g].epoch < changes[g]
      BY DEF AppInv, App!TypeOK, App!Exists, Has
    <2>2. drawn \in Nat /\ changes[g] \in Nat
      BY AppAssumption DEF AppInv, App!TypeOK, App!AppGroupKeysAssumption
    <2> QED
      BY <2>1, <2>2
  <1>2. /\ n \in Nat
        /\ keys \in [members -> 1 .. drawn + n]
        /\ \A x \in members : keys[x] > drawn
        /\ \A x, y \in members : keys[x] = keys[y] => x = y
    BY <1>1, FreshKeysAreNew
  <1>3. App!Becomes(g, [memberIds |-> members, senderKeys |-> keys, epoch |-> e], n)
    BY AppCounts DEF App!_rotateAllKeys
  <1> HIDE DEF keys, n, e
  <1> QED
    BY <1>1, <1>2, <1>3, BecomesKeeps

LEMMA AddMemberKeeps ==
    ASSUME AppInv, NEW g \in Groups, NEW m \in Members, App!addMember(g, m)
    PROVE  AppInv'
  <1> DEFINE old == app_groups[g].memberIds
             members == old \cup {m}
             keys == [x \in members |-> IF x = m THEN drawn + 1 ELSE KeysIn(g)[x]]
             e == app_groups[g].epoch + 1
  <1>1. Has(g) /\ m \notin old
    BY DEF App!addMember, App!Exists, Has
  <1>2. /\ drawn \in Nat /\ changes[g] \in Nat
        /\ app_groups[g].epoch \in Nat /\ app_groups[g].epoch < changes[g]
        /\ old \subseteq Members
        /\ KeysIn(g) \in [old -> 1 .. drawn]
        /\ \A x, y \in old : KeysIn(g)[x] = KeysIn(g)[y] => x = y
    <2>1. drawn \in Nat /\ changes[g] \in Nat
      BY AppAssumption DEF AppInv, App!TypeOK, App!AppGroupKeysAssumption
    <2>2. /\ app_groups[g].epoch \in Nat /\ app_groups[g].epoch < changes[g]
          /\ old \subseteq Members
          /\ KeysIn(g) \in [old -> 1 .. drawn]
      BY <1>1 DEF AppInv, App!TypeOK, App!Exists, Has, KeysIn
    <2>3. \A x, y \in old : KeysIn(g)[x] = KeysIn(g)[y] => x = y
      BY <1>1 DEF AppInv, App!SendersDiffer, App!Exists, Has, KeysIn
    <2> QED
      BY <2>1, <2>2, <2>3
  <1>3. App!Becomes(g, [memberIds |-> members, senderKeys |-> keys, epoch |-> e], 1)
    BY DEF App!addMember, KeysIn
  <1>4. keys \in [members -> 1 .. drawn + 1]
    BY <1>2
  <1>5. \A x, y \in members : keys[x] = keys[y] => x = y
    BY <1>2
  <1>6. \A x \in members :
            \/ keys[x] > drawn
            \/ /\ Has(g) /\ old \subseteq members
               /\ x \in old /\ keys[x] = KeysIn(g)[x]
               /\ app_groups[g].epoch < e
    BY <1>1, <1>2
  <1>7. members \in SUBSET Members /\ e \in Nat /\ e <= changes[g]
    BY <1>2
  <1> HIDE DEF keys, members, e
  <1> QED
    BY <1>3, <1>4, <1>5, <1>6, <1>7, BecomesKeeps

LEMMA EncryptGroupKeeps ==
    ASSUME AppInv, NEW g \in Groups, NEW s \in Members, App!encryptGroupMessage(g, s)
    PROVE  AppInv'
  <1> DEFINE new == App!Sealed(g, s)
  <1>1. /\ Has(g) /\ s \in DOMAIN KeysIn(g)
        /\ messages' = messages \cup {new}
        /\ UNCHANGED <<app_groups, drawn, changes, learnt>>
    BY DEF App!encryptGroupMessage, App!Exists, Has, KeysIn
  <1>2. /\ new.groupId = g /\ new.senderId = s /\ new.key = KeysIn(g)[s]
        /\ new.at = changes[g] /\ new.epoch = app_groups[g].epoch
    BY DEF App!Sealed, KeysIn
  <1> HIDE DEF new
  <1>3. /\ app_groups[g].epoch \in Nat
        /\ KeysIn(g) \in [app_groups[g].memberIds -> 1 .. drawn]
    BY <1>1 DEF AppInv, App!TypeOK, App!Exists, Has, KeysIn
  <1>4. new.key \in 1 .. drawn /\ s \in app_groups[g].memberIds
    BY <1>1, <1>2, <1>3
  <1>5. ASSUME NEW m, m = new PROVE UsedByItsSender(m)'
    <2>1. \A h \in Groups : Has(h) => \A x \in app_groups[h].memberIds :
              KeysIn(h)[x] = KeysIn(g)[s] => h = g /\ x = s
      BY <1>1, <1>4 DEF AppInv, App!SendersDiffer, App!Exists, Has, KeysIn
    <2> QED
      BY <1>1, <1>2, <1>3, <1>5, <2>1 DEF UsedByItsSender, Has, KeysIn
  <1>6. \A m \in messages : UsedByItsSender(m)'
    BY <1>1 DEF AppInv, UsedByItsSender, Has, KeysIn
  <1>7. App!TypeOK'
    BY <1>1, <1>2, <1>4 DEF AppInv, App!TypeOK, App!Exists
  <1>8. App!RemovedKnowNoKey' /\ App!SendersDiffer'
    BY <1>1 DEF AppInv, App!RemovedKnowNoKey, App!SendersDiffer, App!Exists
  <1> QED
    BY <1>1, <1>5, <1>6, <1>7, <1>8 DEF AppInv, Has

LEMMA InitApp == App!Init => AppInv
  <1> SUFFICES ASSUME App!Init PROVE AppInv
    OBVIOUS
  <1>1. \A g \in Groups : ~ Has(g)
    BY DEF App!Init, Has
  <1>2. App!TypeOK
    BY <1>1, AppAssumption DEF App!Init, App!TypeOK, App!AppGroupKeysAssumption, App!Exists, Has
  <1> QED
    BY <1>1, <1>2 DEF App!Init, AppInv, App!RemovedKnowNoKey, App!SendersDiffer, App!Exists, Has

LEMMA AppInvariant == App!Spec => []AppInv
  <1>1. AppInv /\ [App!Next]_(App!vars) => AppInv'
    <2>1. ASSUME AppInv, App!Next PROVE AppInv'
      <3>1. PICK g \in Groups :
              \/ \E members \in SUBSET Members : App!createGroup(g, members)
              \/ \E m \in Members : App!addMember(g, m)
              \/ \E m \in Members : App!removeMember(g, m)
              \/ App!rotateKeys(g)
              \/ \E m \in Members : App!encryptGroupMessage(g, m)
        BY <2>1 DEF App!Next
      <3>2. Has(g) => app_groups[g].memberIds \subseteq Members
        BY <2>1 DEF AppInv, App!TypeOK, App!Exists, Has
      <3>3. CASE \E m \in Members : App!removeMember(g, m)
        BY <2>1, <3>2, <3>3, RotateKeeps DEF App!removeMember, App!Exists, Has
      <3>4. CASE App!rotateKeys(g)
        BY <2>1, <3>2, <3>4, RotateKeeps DEF App!rotateKeys, App!Exists, Has
      <3> QED
        BY <2>1, <3>1, <3>3, <3>4, CreateGroupKeeps, AddMemberKeeps, EncryptGroupKeeps
    <2>2. ASSUME AppInv, UNCHANGED App!vars PROVE AppInv'
      BY <2>2 DEF App!vars, AppInv, App!TypeOK, App!RemovedKnowNoKey, App!SendersDiffer,
                  App!Exists, UsedByItsSender, Has, KeysIn
    <2> QED
      BY <2>1, <2>2
  <1> QED
    BY InitApp, <1>1, PTL DEF App!Spec

\* A behaviour of MCSpec is one of AppGroupKeys too.
LEMMA AppPart == MCSpec => App!Spec
  <1>1. MCInit => App!Init
    BY DEF MCInit
  <1>2. [MCNext]_all_vars => [App!Next]_(App!vars)
    BY DEF MCNext, all_vars, app_vars, App!vars
  <1> QED
    BY <1>1, <1>2, PTL DEF MCSpec, App!Spec

\* What opens in a group was sealed for it, and since the group's last change: also
\* after the group was created again and its epochs came back.
THEOREM OnlyTheLatestOpens == MCSpec => []AppOpensOnlyTheLatest
  <1>1. AppInv => AppOpensOnlyTheLatest
    <2> SUFFICES ASSUME AppInv, NEW g \in Groups, NEW m \in messages,
                        App!decryptGroupMessage(g, m)
                 PROVE  m.groupId = g /\ m.at = changes[g]
      BY DEF AppOpensOnlyTheLatest, App!OpensOnlyTheLatest
    <2>1. /\ Has(g) /\ m.senderId \in DOMAIN KeysIn(g)
          /\ m.epoch = app_groups[g].epoch /\ m.key = KeysIn(g)[m.senderId]
      BY DEF App!decryptGroupMessage, App!Exists, Has, KeysIn
    <2>2. /\ app_groups[g].epoch \in Nat
          /\ KeysIn(g) \in [app_groups[g].memberIds -> 1 .. drawn]
      BY <2>1 DEF AppInv, App!TypeOK, App!Exists, Has, KeysIn
    <2> QED
      BY <2>1, <2>2 DEF AppInv, UsedByItsSender
  <1> QED
    BY AppPart, AppInvariant, <1>1, PTL

\* Who is no longer a member was never given a key that is in use, and no two senders
\* share one, in whatever groups they are.
THEOREM KeysArePrivate == MCSpec => []AppKeysArePrivate
  <1>1. AppInv => AppKeysArePrivate
    BY DEF AppInv, AppKeysArePrivate
  <1> QED
    BY AppPart, AppInvariant, <1>1, PTL

=============================================================================
