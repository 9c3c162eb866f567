---------------------------- MODULE NetworkProofs ----------------------------
(***************************************************************************)
(* Theorems about the tables and the event channel of Network, for any     *)
(* numbers of peers, names, connections and addresses, and about the       *)
(* messages of Messaging, for any nodes, links, texts and sessions.        *)
(***************************************************************************)
EXTENDS MCNetwork, SequenceTheorems, FiniteSetTheorems, TLAPS

Tables ==
    /\ live \in [Peers -> Nat]
    /\ connected_peers \subseteq Peers
    /\ known_peers \in [Peers -> KnownPeers \cup {None}]
    /\ zero_id_to_peer_id \in [Versions -> Peers \cup {None}]
    /\ announced \in [Peers -> SUBSET Versions]
    /\ established \in Nat

\* A peer with two connections is remembered as one that had them, so that closing
\* one of them leaves no uncounted peer unexplained.
TwoAreRemembered == \A p \in Peers : live[p] > 1 => p \in doubled

\* The index has an entry for each name that was announced, of a peer that announced
\* it, and such a peer is known.
IndexFollowsNews ==
    /\ \A z \in Versions \ Unusable :
           /\ zero_id_to_peer_id[z] = None <=> \A p \in Peers : z \notin announced[p]
           /\ zero_id_to_peer_id[z] # None => z \in announced[zero_id_to_peer_id[z]]
    /\ \A p \in Peers : announced[p] # {} => known_peers[p] # None

IInv ==
    /\ Tables
    /\ ModeFollowsPeers
    /\ CountedPeersAreLive
    /\ TwoAreRemembered
    /\ IndexFollowsNews

\* The empty tables of ZeroP2PNetwork::new.
LEMMA InitInv == Init => IInv
  BY DEF Init, IInv, Tables, ModeFollowsPeers, CountedPeersAreLive, TwoAreRemembered,
         IndexFollowsNews

\* A connection more: its peer is counted, and the DHT is served.
LEMMA EstablishedInv ==
  ASSUME IInv, NEW p \in Peers, ConnectionEstablished(p)
  PROVE  IInv'
<1>1. Tables'
  <2>1. live' \in [Peers -> Nat] /\ established' \in Nat
    BY DEF IInv, Tables, ConnectionEstablished
  <2>2. connected_peers' \subseteq Peers
    BY DEF IInv, Tables, ConnectionEstablished
  <2>3. UNCHANGED <<known_peers, zero_id_to_peer_id, announced>>
    BY DEF ConnectionEstablished
  <2> QED
    BY <2>1, <2>2, <2>3 DEF IInv, Tables, KnownPeers
<1>2. ModeFollowsPeers'
  BY DEF IInv, Tables, ModeFollowsPeers, ConnectionEstablished
<1>3. live' = [live EXCEPT ![p] = @ + 1] /\ live \in [Peers -> Nat]
  BY DEF IInv, Tables, ConnectionEstablished
<1>4. CountedPeersAreLive'
  BY <1>3 DEF IInv, Tables, CountedPeersAreLive, ConnectionEstablished
<1>5. TwoAreRemembered'
  BY <1>3 DEF IInv, Tables, TwoAreRemembered, ConnectionEstablished
<1>6. IndexFollowsNews'
  BY DEF IInv, IndexFollowsNews, ConnectionEstablished
<1> QED
  BY <1>1, <1>2, <1>4, <1>5, <1>6 DEF IInv

\* A connection less: the peer is no longer counted, whatever it has left, and the
\* DHT is served as long as another is.
LEMMA ClosedInv ==
  ASSUME IInv, NEW p \in Peers, ConnectionClosed(p)
  PROVE  IInv'
<1>1. live' = [live EXCEPT ![p] = @ - 1] /\ live \in [Peers -> Nat] /\ live[p] > 0
  BY DEF IInv, Tables, ConnectionClosed
<1>2. Tables'
  <2>1. live' \in [Peers -> Nat]
    BY <1>1
  <2>2. connected_peers' \subseteq Peers
    BY DEF IInv, Tables, ConnectionClosed
  <2>3. UNCHANGED <<known_peers, zero_id_to_peer_id, announced, established>>
    BY DEF ConnectionClosed
  <2> QED
    BY <2>1, <2>2, <2>3 DEF IInv, Tables, KnownPeers
<1>3. ModeFollowsPeers'
  BY DEF IInv, ModeFollowsPeers, ConnectionClosed
<1>4. CountedPeersAreLive'
  BY <1>1 DEF IInv, Tables, CountedPeersAreLive, TwoAreRemembered, ConnectionClosed
<1>5. TwoAreRemembered'
  BY <1>1 DEF IInv, Tables, TwoAreRemembered, ConnectionClosed
<1>6. IndexFollowsNews'
  BY DEF IInv, IndexFollowsNews, ConnectionClosed
<1> QED
  BY <1>2, <1>3, <1>4, <1>5, <1>6 DEF IInv

\* A peer says who it is: it is known, and found under that name from now on.
LEMMA IdentifyInv ==
  ASSUME IInv, NEW p \in Peers, NEW z \in Versions, IdentifyReceived(p, z)
  PROVE  IInv'
<1> USE NetworkAssumption DEF NetworkAssumption
<1>1. /\ known_peers' = [known_peers EXCEPT ![p] = [zero_id |-> z, connected |-> TRUE]]
      /\ announced' = [announced EXCEPT ![p] = @ \cup {z}]
      /\ [zero_id |-> z, connected |-> TRUE] \in KnownPeers
      /\ None \notin KnownPeers
  BY DEF IdentifyReceived, KnownPeers
<1>2. Tables
  BY DEF IInv
<1>3. Tables'
  <2>1. zero_id_to_peer_id' \in [Versions -> Peers \cup {None}]
    BY <1>2 DEF Tables, IdentifyReceived, Index
  <2>2. known_peers' \in [Peers -> KnownPeers \cup {None}]
    BY <1>1, <1>2 DEF Tables
  <2>3. announced' \in [Peers -> SUBSET Versions]
    BY <1>1, <1>2 DEF Tables
  <2>4. UNCHANGED <<live, connected_peers, established>>
    BY DEF IdentifyReceived, link
  <2> QED
    BY <1>2, <2>1, <2>2, <2>3, <2>4 DEF Tables, KnownPeers
<1>4. ModeFollowsPeers' /\ CountedPeersAreLive' /\ TwoAreRemembered'
  BY DEF IInv, ModeFollowsPeers, CountedPeersAreLive, TwoAreRemembered, IdentifyReceived, link
<1>5. IndexFollowsNews'
  <2>1. \A q \in Peers : announced'[q] # {} => known_peers'[q] # None
    <3> SUFFICES ASSUME NEW q \in Peers, announced'[q] # {} PROVE known_peers'[q] # None
      OBVIOUS
    <3>1. CASE q = p
      BY <1>1, <1>2, <3>1 DEF Tables
    <3>2. CASE q # p
      BY <1>1, <1>2, <3>2 DEF Tables, IInv, IndexFollowsNews
    <3> QED
      BY <3>1, <3>2
  <2>2. ASSUME NEW y \in Versions \ Unusable
        PROVE  /\ zero_id_to_peer_id'[y] = None <=> \A q \in Peers : y \notin announced'[q]
               /\ zero_id_to_peer_id'[y] # None => y \in announced'[zero_id_to_peer_id'[y]]
    <3>1. CASE y = z
      <4>1. zero_id_to_peer_id'[y] = p /\ y \in announced'[p] /\ p # None
        BY <1>1, <1>2, <3>1 DEF Tables, IdentifyReceived, Index
      <4> QED
        BY <4>1
    <3>2. CASE y # z
      <4>1. zero_id_to_peer_id'[y] = zero_id_to_peer_id[y]
        BY <1>2, <3>2 DEF Tables, IdentifyReceived, Index
      <4>2. \A q \in Peers : y \in announced'[q] <=> y \in announced[q]
        BY <1>1, <1>2, <3>2 DEF Tables
      <4>3. zero_id_to_peer_id[y] \in Peers \cup {None}
        BY <1>2 DEF Tables
      <4> QED
        BY <4>1, <4>2, <4>3 DEF IInv, IndexFollowsNews
    <3> QED
      BY <3>1, <3>2
  <2> QED
    BY <2>1, <2>2 DEF IndexFollowsNews
<1> QED
  BY <1>3, <1>4, <1>5 DEF IInv

\* No other step touches the tables.
LEMMA OthersInv ==
  ASSUME IInv, UNCHANGED <<link, peer_tables, mode, announced>>
  PROVE  IInv'
  BY DEF IInv, Tables, ModeFollowsPeers, CountedPeersAreLive, TwoAreRemembered,
         IndexFollowsNews, link, peer_tables, KnownPeers

LEMMA NextInv == IInv /\ [Next]_vars => IInv'
<1> SUFFICES ASSUME IInv, [Next]_vars PROVE IInv'
  OBVIOUS
<1>1. CASE \E p \in Peers : ConnectionEstablished(p)
  BY <1>1, EstablishedInv
<1>2. CASE \E p \in Peers : ConnectionClosed(p)
  BY <1>2, ClosedInv
<1>3. CASE \E p \in Peers, z \in Versions : IdentifyReceived(p, z)
  BY <1>3, IdentifyInv
<1>4. CASE \/ \E s \in NatStatus : AutonatStatusChanged(s)
           \/ \E addr \in Addrs : NewListenAddr(addr)
           \/ Recv \/ bootstrap
           \/ \E g \in Groups : subscribe_group(g)
           \/ UNCHANGED vars
  <2>1. UNCHANGED <<link, peer_tables, mode, announced>>
    BY <1>4 DEF AutonatStatusChanged, NewListenAddr, Recv, bootstrap, subscribe_group, vars
  <2> QED
    BY <2>1, OthersInv
<1> QED
  BY <1>1, <1>2, <1>3, <1>4 DEF Next, SwarmEvent

\* The tables of a node agree with each other and with the history of its
\* connections and of what its peers announced (network.rs:367-456).
THEOREM TablesInvariant == Spec => []IInv
  BY InitInv, NextInv, PTL DEF Spec

\* Kademlia serves the DHT exactly while the node counts a peer as connected, for
\* any order of connections opened and closed (network.rs:430-456).
THEOREM ModeIsRight == Spec => []ModeFollowsPeers
<1>1. IInv => ModeFollowsPeers
  BY DEF IInv
<1> QED
  BY <1>1, TablesInvariant, PTL

\* A counted peer has a connection, and only a peer that had two at once can have one
\* without being counted (network.rs:445-456).
THEOREM CountedHaveConnections == Spec => []CountedPeersAreLive
<1>1. IInv => CountedPeersAreLive
  BY DEF IInv
<1> QED
  BY <1>1, TablesInvariant, PTL

\* A zero id that was announced is found for ever after, at a peer that announced it
\* (network.rs:390-397, 537-541).
THEOREM AnnouncersAreFound == Spec => []FindsAnAnnouncer
<1>1. IInv => FindsAnAnnouncer
  BY NetworkAssumption DEF NetworkAssumption, IInv, Tables, IndexFollowsNews,
     FindsAnAnnouncer, find_peer_by_zero_id
<1> QED
  BY <1>1, TablesInvariant, PTL

-----------------------------------------------------------------------------
(* The channel *)

LEMMA SeqOfIsBounded ==
  ASSUME NEW S, NEW n \in Nat, NEW s
  PROVE  s \in SeqOf(S, n) <=> s \in Seq(S) /\ Len(s) <= n
<1>1. ASSUME s \in SeqOf(S, n) PROVE s \in Seq(S) /\ Len(s) <= n
  <2>1. PICK m \in 0 .. n : s \in [1 .. m -> S]
    BY <1>1 DEF SeqOf
  <2> QED
    BY <2>1, SeqDef
<1>2. ASSUME s \in Seq(S), Len(s) <= n PROVE s \in SeqOf(S, n)
  <2>1. Len(s) \in 0 .. n /\ s \in [1 .. Len(s) -> S]
    BY <1>2, LenProperties
  <2> QED
    BY <2>1 DEF SeqOf
<1> QED
  BY <1>1, <1>2

\* What is a prefix of a list is a prefix of the longer list.
LEMMA PrefixOfAppended ==
  ASSUME NEW S, NEW s \in Seq(S), NEW t \in Seq(S), NEW x \in S, IsPrefix(s, t)
  PROVE  IsPrefix(s, Append(t, x))
<1>1. /\ Len(s) \in Nat /\ Len(t) \in Nat /\ Len(s) <= Len(t)
      /\ SubSeq(s, 1, Len(s)) = SubSeq(t, 1, Len(s))
  BY DEF IsPrefix
<1>2. SubSeq(Append(t, x), 1, Len(s)) = SubSeq(t, 1, Len(s))
  BY <1>1
<1> QED
  BY <1>1, <1>2 DEF IsPrefix

LEMMA PrefixOfItself ==
  ASSUME NEW S, NEW s \in Seq(S)
  PROVE  IsPrefix(s, s)
  BY DEF IsPrefix

\* The members of a finite set in some order.
LEMMA SetToSeqHolds ==
  ASSUME NEW S, IsFiniteSet(S)
  PROVE  SetToSeq(S) \in Seq(S)
<1>1. Cardinality(S) \in Nat /\ ExistsBijection(1 .. Cardinality(S), S)
  BY FS_CardinalityType
<1>2. \E f \in [1 .. Cardinality(S) -> S] : IsInjective(f)
  BY <1>1 DEF ExistsBijection, Bijection, Injection
<1>3. SetToSeq(S) \in [1 .. Cardinality(S) -> S]
  BY <1>2 DEF SetToSeq
<1> QED
  BY <1>1, <1>3

\* The inductive invariant of the channel.
News == TypeOK /\ channel \in Seq(Events) /\ SnapshotsGrow

\* The snapshots in the channel were each taken of the addresses of their time.
Snapshot(i) == channel[i].kind = "NetworkReady"

LEMMA NewsReads ==
  ASSUME News
  PROVE  /\ external_addresses \in Seq(Routable) /\ Len(external_addresses) <= MaxAddrs
         /\ Len(channel) \in Nat
         /\ \A i \in 1 .. Len(channel) : Snapshot(i) => channel[i].addrs \in Seq(Routable)
<1>1. MaxAddrs \in Nat
  BY NetworkAssumption
<1>2. external_addresses \in SeqOf(Routable, MaxAddrs)
  BY DEF News, TypeOK
<1>3. ASSUME NEW i \in 1 .. Len(channel), Snapshot(i) PROVE channel[i].addrs \in Seq(Routable)
  <2>1. channel[i] \in Events
    BY DEF News, TypeOK
  <2>2. channel[i].addrs \in SeqOf(Routable, MaxAddrs)
    BY <1>3, <2>1 DEF Events, Snapshot
  <2> QED
    BY <1>1, <2>2, SeqOfIsBounded
<1> QED
  BY <1>1, <1>2, <1>3, SeqOfIsBounded DEF News

LEMMA InitNews == Init => News
<1> SUFFICES ASSUME Init PROVE News
  OBVIOUS
<1>1. external_addresses \in SeqOf(Routable, MaxAddrs)
  <2>1. external_addresses = <<>> /\ <<>> \in Seq(Routable) /\ Len(<<>>) = 0 /\ MaxAddrs \in Nat
    BY EmptySeq, NetworkAssumption DEF Init
  <2>2. Len(<<>>) <= MaxAddrs
    BY <2>1
  <2>3. <<>> \in SeqOf(Routable, MaxAddrs)
    BY <2>1, <2>2, SeqOfIsBounded, Zenon
  <2> QED
    BY <2>1, <2>3
<1>2. TypeOK
  BY <1>1, NetworkAssumption DEF Init, TypeOK
<1> QED
  BY <1>2 DEF Init, News, SnapshotsGrow

\* The node's own news goes to the end, after all it is a continuation of.
LEMMA EstablishedNews ==
  ASSUME News, NEW p \in Peers, ConnectionEstablished(p)
  PROVE  News'
<1> DEFINE ready == NetworkReady
<1>1. /\ channel' = Append(channel, ready)
      /\ external_addresses' = external_addresses
      /\ ready \in Events /\ ready.addrs = external_addresses /\ ready.kind = "NetworkReady"
  BY DEF ConnectionEstablished, _announce_network_ready, NetworkReady, Events, News, TypeOK
<1> HIDE DEF ready
<1>2. channel' \in Seq(Events)
  BY <1>1 DEF News, Events
<1>3. SnapshotsGrow'
  <2>1. /\ Len(channel') = Len(channel) + 1 /\ Len(channel) \in Nat
        /\ \A i \in 1 .. Len(channel) : channel'[i] = channel[i]
        /\ channel'[Len(channel) + 1] = ready
    BY <1>1, AppendProperties DEF News
  <2>2. IsPrefix(external_addresses, external_addresses)
    BY NewsReads, PrefixOfItself
  <2> QED
    BY <1>1, <2>1, <2>2 DEF News, SnapshotsGrow
<1>4. TypeOK'
  <2>1. live' \in [Peers -> 0 .. MaxConns] /\ established' \in 0 .. MaxReady
    BY NetworkAssumption DEF News, TypeOK, ConnectionEstablished
  <2>2. connected_peers' \subseteq Peers /\ mode' = "server"
    BY DEF News, TypeOK, ConnectionEstablished
  <2>3. UNCHANGED <<known_peers, zero_id_to_peer_id, nat_status, external_addresses, app, announced>>
    BY DEF ConnectionEstablished
  <2>4. \A i \in 1 .. Len(channel') : channel'[i] \in Events'
    BY <1>2 DEF Events
  <2> QED
    BY <2>1, <2>2, <2>3, <2>4 DEF News, TypeOK, app, KnownPeers
<1> QED
  BY <1>2, <1>3, <1>4 DEF News, Events

\* An address more keeps the older lists prefixes.
LEMMA ListenNews ==
  ASSUME News, NEW x \in Addrs, NewListenAddr(x)
  PROVE  News'
<1>1. /\ channel' = channel
      /\ UNCHANGED <<live, established, peer_tables, nat_status, mode, app, announced>>
      /\ \/ external_addresses' = external_addresses
         \/ /\ x \in Routable /\ Len(external_addresses) < MaxAddrs
            /\ external_addresses' = Append(external_addresses, x)
  BY DEF NewListenAddr, link
<1>2. external_addresses' \in SeqOf(Routable, MaxAddrs)
  <2>1. /\ external_addresses \in Seq(Routable) /\ Len(external_addresses) <= MaxAddrs
        /\ MaxAddrs \in Nat
    BY NewsReads, NetworkAssumption
  <2>2. CASE external_addresses' = external_addresses
    BY <2>1, <2>2, SeqOfIsBounded
  <2>3. CASE /\ x \in Routable /\ Len(external_addresses) < MaxAddrs
             /\ external_addresses' = Append(external_addresses, x)
    <3>1. external_addresses' \in Seq(Routable) /\ Len(external_addresses') <= MaxAddrs
      BY <2>1, <2>3, AppendProperties
    <3> QED
      BY <2>1, <3>1, SeqOfIsBounded
  <2> QED
    BY <1>1, <2>2, <2>3
<1>3. TypeOK'
  BY <1>1, <1>2 DEF News, TypeOK, peer_tables, app, KnownPeers, Events
<1>4. SnapshotsGrow'
  <2>1. ASSUME NEW i \in 1 .. Len(channel), Snapshot(i)
        PROVE  IsPrefix(channel[i].addrs, external_addresses')
    <3>1. /\ IsPrefix(channel[i].addrs, external_addresses)
          /\ channel[i].addrs \in Seq(Routable) /\ external_addresses \in Seq(Routable)
      BY <2>1, NewsReads DEF News, SnapshotsGrow, Snapshot
    <3> QED
      BY <1>1, <3>1, PrefixOfAppended
  <2> QED
    BY <1>1, <2>1 DEF News, SnapshotsGrow, Snapshot
<1> QED
  BY <1>1, <1>3, <1>4 DEF News, Events

LEMMA RecvNews ==
  ASSUME News, Recv
  PROVE  News'
<1>1. /\ channel # <<>> /\ channel' = Tail(channel)
      /\ UNCHANGED <<link, peer_tables, nat_status, external_addresses, mode, app, announced>>
  BY DEF Recv
<1>2. /\ channel' \in Seq(Events) /\ Len(channel') = Len(channel) - 1 /\ Len(channel) \in Nat
      /\ \A i \in 1 .. Len(channel') : channel'[i] = channel[i + 1]
  BY <1>1, HeadTailProperties DEF News
<1>3. TypeOK'
  <2>1. \A i \in 1 .. Len(channel') : channel'[i] \in Events'
    BY <1>2, ElementOfSeq DEF Events
  <2> QED
    BY <1>1, <2>1 DEF News, TypeOK, link, peer_tables, app, KnownPeers
<1>4. SnapshotsGrow'
  BY <1>1, <1>2 DEF News, SnapshotsGrow
<1> QED
  BY <1>2, <1>3, <1>4 DEF News, Events

\* Errors go to the end of the channel and are no snapshots.
LEMMA SubscribedNews ==
  ASSUME News, NEW ts \in SUBSET Topics, IsFiniteSet(ts), NEW refused, Subscribed(ts, refused)
  PROVE  /\ subscribed_topics' \subseteq Topics
         /\ channel' \in Seq(Events)
         /\ external_addresses' = external_addresses => SnapshotsGrow'
<1> DEFINE errors == {Error(t) : t \in ts \cap refused}
           added == SetToSeq(errors)
<1>1. IsFiniteSet(ts \cap refused)
  BY FS_Intersection
<1>2. IsFiniteSet(errors)
  <2> DEFINE f == [t \in ts \cap refused |-> Error(t)]
  <2>1. f \in Surjection(ts \cap refused, errors)
    BY DEF Surjection
  <2> QED
    BY <1>1, <2>1, FS_Surjection
<1>3. errors \subseteq Events /\ \A x \in errors : x.kind = "Error"
  BY DEF Error, Events
<1>4. channel' = channel \o added /\ subscribed_topics' = subscribed_topics \cup (ts \ refused)
  BY DEF Subscribed
<1>5. added \in Seq(errors)
  BY <1>2, SetToSeqHolds
<1> HIDE DEF errors, added
<1>6. added \in Seq(Events) /\ \A i \in 1 .. Len(added) : added[i].kind = "Error"
  BY <1>3, <1>5
<1>7. /\ channel' \in Seq(Events) /\ Len(channel') = Len(channel) + Len(added)
      /\ \A i \in 1 .. Len(channel') : channel'[i] = IF i <= Len(channel) THEN channel[i]
                                                     ELSE added[i - Len(channel)]
      /\ Len(channel) \in Nat /\ Len(added) \in Nat
  BY <1>4, <1>6, ConcatProperties DEF News
<1>8. ASSUME NEW i \in 1 .. Len(channel'), channel'[i].kind = "NetworkReady"
      PROVE  i \in 1 .. Len(channel) /\ channel'[i] = channel[i]
  BY <1>6, <1>7, <1>8
<1>9. ASSUME external_addresses' = external_addresses PROVE SnapshotsGrow'
  <2> SUFFICES ASSUME NEW i \in 1 .. Len(channel'), channel'[i].kind = "NetworkReady"
               PROVE  /\ IsPrefix(channel'[i].addrs, external_addresses')
                      /\ \A j \in i .. Len(channel') : channel'[j].kind = "NetworkReady" =>
                             IsPrefix(channel'[i].addrs, channel'[j].addrs)
    BY DEF SnapshotsGrow
  <2>1. i \in 1 .. Len(channel) /\ channel'[i] = channel[i]
    BY <1>8
  <2>2. ASSUME NEW j \in i .. Len(channel'), channel'[j].kind = "NetworkReady"
        PROVE  IsPrefix(channel'[i].addrs, channel'[j].addrs)
    <3>1. j \in i .. Len(channel) /\ channel'[j] = channel[j]
      BY <1>7, <1>8, <2>1, <2>2
    <3> QED
      BY <2>1, <2>2, <3>1 DEF News, SnapshotsGrow
  <2> QED
    BY <1>9, <2>1, <2>2 DEF News, SnapshotsGrow
<1>10. subscribed_topics' \subseteq Topics
  BY <1>4 DEF News, TypeOK
<1> QED
  BY <1>7, <1>9, <1>10

LEMMA CallsNews ==
  ASSUME News, bootstrap \/ \E g \in Groups : subscribe_group(g)
  PROVE  News'
<1>1. /\ UNCHANGED <<link, peer_tables, nat_status, external_addresses, mode, announced>>
      /\ bootstrapped' \in {None, "ok", "error"}
  BY DEF bootstrap, subscribe_group, News, TypeOK
<1>2. \/ \E ts \in SUBSET Topics : \E refused : IsFiniteSet(ts) /\ Subscribed(ts, refused)
      \/ UNCHANGED <<subscribed_topics, channel>>
  <2>1. CASE bootstrap
    <3>1. {"dm", "space"} \in SUBSET Topics /\ IsFiniteSet({"dm", "space"})
      <4>1. IsFiniteSet({"dm"} \cup {"space"})
        BY FS_Singleton, FS_AddElement
      <4>2. {"dm", "space"} = {"dm"} \cup {"space"}
        OBVIOUS
      <4>3. {"dm", "space"} \in SUBSET Topics
        BY DEF Topics
      <4> QED
        BY <4>1, <4>2, <4>3
    <3> QED
      BY <2>1, <3>1 DEF bootstrap
  <2>2. CASE \E g \in Groups : subscribe_group(g)
    <3>1. PICK g \in Groups : \E refused \in SUBSET {g} : Subscribed({g}, refused)
      BY <2>2 DEF subscribe_group
    <3>2. {g} \in SUBSET Topics /\ IsFiniteSet({g})
      BY FS_Singleton DEF Topics
    <3> QED
      BY <3>1, <3>2
  <2> QED
    BY <2>1, <2>2
<1>3. /\ subscribed_topics' \subseteq Topics
      /\ channel' \in Seq(Events)
      /\ SnapshotsGrow'
  <2>1. CASE UNCHANGED <<subscribed_topics, channel>>
    BY <1>1, <2>1 DEF News, TypeOK, SnapshotsGrow
  <2> QED
    BY <1>1, <1>2, <2>1, SubscribedNews
<1>4. TypeOK'
  <2>1. \A i \in 1 .. Len(channel') : channel'[i] \in Events'
    BY <1>3, ElementOfSeq DEF Events
  <2> QED
    BY <1>1, <1>3, <2>1 DEF News, TypeOK, link, peer_tables, KnownPeers
<1> QED
  BY <1>3, <1>4 DEF News, Events

LEMMA TablesNews ==
  ASSUME News,
         \/ \E p \in Peers : ConnectionClosed(p) \/ \E z \in Versions : IdentifyReceived(p, z)
         \/ \E s \in NatStatus : AutonatStatusChanged(s)
         \/ UNCHANGED vars
  PROVE  News'
<1>1. UNCHANGED <<channel, external_addresses>>
  BY DEF ConnectionClosed, IdentifyReceived, AutonatStatusChanged, vars
<1>2. TypeOK'
  <2>1. CASE \E p \in Peers : ConnectionClosed(p)
    <3>1. PICK p \in Peers : ConnectionClosed(p)
      BY <2>1
    <3>2. live' \in [Peers -> 0 .. MaxConns]
      BY <3>1, NetworkAssumption DEF News, TypeOK, ConnectionClosed
    <3>3. connected_peers' \subseteq Peers /\ mode' \in {"auto", "server", "client"}
      BY <3>1 DEF News, TypeOK, ConnectionClosed
    <3>4. UNCHANGED <<established, known_peers, zero_id_to_peer_id, nat_status, app, announced>>
      BY <3>1 DEF ConnectionClosed
    <3> QED
      BY <1>1, <3>2, <3>3, <3>4 DEF News, TypeOK, app, KnownPeers, Events
  <2>2. CASE \E p \in Peers, z \in Versions : IdentifyReceived(p, z)
    <3>1. PICK p \in Peers, z \in Versions : IdentifyReceived(p, z)
      BY <2>2
    <3>2. zero_id_to_peer_id' \in [Versions -> Peers \cup {None}]
      BY <3>1 DEF News, TypeOK, IdentifyReceived, Index
    <3>3. [zero_id |-> z, connected |-> TRUE] \in KnownPeers
      BY DEF KnownPeers
    <3>4. known_peers' \in [Peers -> KnownPeers \cup {None}]
      BY <3>1, <3>3 DEF News, TypeOK, IdentifyReceived
    <3>5. announced' \in [Peers -> SUBSET Versions]
      BY <3>1 DEF News, TypeOK, IdentifyReceived
    <3>6. UNCHANGED <<link, connected_peers, nat_status, mode, app>>
      BY <3>1 DEF IdentifyReceived
    <3> QED
      BY <1>1, <3>2, <3>4, <3>5, <3>6 DEF News, TypeOK, app, link, KnownPeers, Events
  <2>3. CASE \E s \in NatStatus : AutonatStatusChanged(s)
    BY <1>1, <2>3 DEF AutonatStatusChanged, News, TypeOK, app, link, peer_tables, KnownPeers, Events
  <2>4. CASE UNCHANGED vars
    BY <2>4 DEF vars, News, TypeOK, app, link, peer_tables, KnownPeers, Events
  <2> QED
    BY <2>1, <2>2, <2>3, <2>4
<1> QED
  BY <1>1, <1>2 DEF News, SnapshotsGrow, Events

LEMMA NewsInvariant == Spec => []News
<1>1. News /\ [Next]_vars => News'
  BY EstablishedNews, ListenNews, RecvNews, CallsNews, TablesNews DEF Next, SwarmEvent
<1> QED
  BY InitNews, <1>1, PTL DEF Spec

\* The tables agree with each other and with what there has been, and the news that
\* waits on the channel is in the order in which it came about.
THEOREM NodeIsConsistent == Spec => []TablesAndNewsAgree
<1>1. IInv /\ FindsAnAnnouncer /\ News => TablesAndNewsAgree
  BY DEF IInv, News, TablesAndNewsAgree
<1> QED
  BY TablesInvariant, AnnouncersAreFound, NewsInvariant, <1>1, PTL

-----------------------------------------------------------------------------
(* Messages *)

Headers == [msg_type : {0, 1}, timestamp : Nat]
Bodies == [key : Nodes \X Messages!Targets \X Nat, text : Texts] \cup [text : Texts]
Datas == [header : Headers, body : Bodies]
Msgs == [author : Nodes, seq : Nat, topic : {Messages!TopicOf(t) : t \in Messages!Targets},
         data : Datas]
Publishes == [msg : Msgs, answer : {"Duplicate", "InsufficientPeers", "Ok"}]
Given == [kind : {"SpacePost", "DirectMessage"}, from_peer : Nodes, content : Bodies,
          timestamp : Nat]

MessageTypes ==
    /\ e2ee \in BOOLEAN
    /\ clock \in 0 .. MaxTime
    /\ next \in [Nodes \X Messages!Targets -> Nat]
    /\ sends \in Seq(Publishes)
    /\ seen \in [Nodes -> SUBSET Datas]
    /\ flying \subseteq [from : Nodes, to : Nodes, msg : Msgs]
    /\ events \in [Nodes -> Seq(Given)]

\* A message tells its topic by its type, and is under a key of its session that the
\* session has left behind.
Composed(m, encrypted, number) ==
    \E target \in Messages!Targets :
        /\ m.topic = Messages!TopicOf(target)
        /\ m.data.header.msg_type = IF target = "SPACE" THEN 1 ELSE 0
        /\ encrypted => \E k \in Nat : /\ m.data.body.key = <<m.author, target, k>>
                                       /\ k < number[<<m.author, target>>]

SendsOf(s) ==
    {i \in 1 .. Len(sends) : sends[i].msg.author = s[1]
                             /\ sends[i].msg.topic = Messages!TopicOf(s[2])}

Publishing ==
    /\ \A i \in 1 .. Len(sends) : Composed(sends[i].msg, e2ee, next)
    /\ \A s \in Nodes \X Messages!Targets :
           next[s] = IF e2ee THEN Cardinality(SendsOf(s)) ELSE 0
    /\ Messages!NoKeyTwice
    /\ Messages!CiphertextsDiffer

\* A node has seen nothing that nobody sent.
SeenWasSent ==
    \A n \in Nodes : \A d \in seen[n] : \E i \in 1 .. Len(sends) : sends[i].msg.data = d

\* A copy is on its way to a node that subscribes its topic; a direct message that is
\* passed on goes to a node that has it.
CopiesAreMeant ==
    \A copy \in flying :
        /\ <<copy.from, copy.to>> \in links
        /\ \E i \in Messages!Sent : sends[i].msg = copy.msg
        /\ copy.msg.topic \in Messages!SubscribedBy(copy.to)
        /\ copy.msg.topic # Messages!SPACE_TOPIC =>
               copy.from = copy.msg.author \/ copy.msg.data \in seen[copy.to]

\* What an event was made from.
MadeFrom(event, n, m) ==
    /\ event.content = m.data.body
    /\ event.timestamp = m.data.header.timestamp
    /\ event.kind = "SpacePost" <=> m.topic = Messages!SPACE_TOPIC
    /\ event.kind = "DirectMessage" => m.topic = Messages!DM_TOPIC(n) /\ event.from_peer = m.author

EventsWereSent ==
    \A n \in Nodes : \A i \in 1 .. Len(events[n]) :
        \E j \in Messages!Sent : /\ MadeFrom(events[n][i], n, sends[j].msg)
                                 /\ sends[j].msg.data \in seen[n]

\* The inductive invariant of the messages.
MessagesInv ==
    /\ MessageTypes
    /\ Publishing
    /\ SeenWasSent
    /\ CopiesAreMeant
    /\ EventsWereSent
    /\ Messages!OncePerBytes

LEMMA TopicsApart ==
  ASSUME NEW t \in Messages!Targets, NEW u \in Messages!Targets
  PROVE  /\ Messages!TopicOf(t) = Messages!TopicOf(u) <=> t = u
         /\ Messages!TopicOf(t) = Messages!SPACE_TOPIC <=> t = "SPACE"
         /\ \A n \in Nodes : Messages!TopicOf(t) \in Messages!SubscribedBy(n) /\ t # "SPACE" =>
                Messages!TopicOf(t) = Messages!DM_TOPIC(n)
<1>1. ASSUME NEW n, NEW m PROVE /\ <<"dm", n>> # <<"space">>
                                /\ <<"dm", n>> = <<"dm", m>> <=> n = m
  OBVIOUS
<1> QED
  BY <1>1 DEF Messages!TopicOf, Messages!SPACE_TOPIC, Messages!DM_TOPIC, Messages!SubscribedBy,
     Messages!Targets

LEMMA MessagesCount ==
  ASSUME NEW S
  PROVE  Messages!Cardinality(S) = Cardinality(S)
  BY DEF Messages!Cardinality, Cardinality

\* One publish more.
LEMMA OneMore ==
  ASSUME MessageTypes, NEW x \in Publishes, sends' = Append(sends, x)
  PROVE  /\ Len(sends) \in Nat /\ Len(sends') = Len(sends) + 1
         /\ sends' \in Seq(Publishes)
         /\ \A i \in 1 .. Len(sends) : sends'[i] = sends[i]
         /\ sends'[Len(sends) + 1] = x
  BY AppendProperties DEF MessageTypes

\* Copies go from a node to nodes.
LEMMA CopiesTyped ==
  ASSUME NEW from \in Nodes, NEW to \in SUBSET Nodes, NEW m \in Msgs
  PROVE  /\ Messages!Copies(from, to, m) \subseteq [from : Nodes, to : Nodes, msg : Msgs]
         /\ \A copy \in Messages!Copies(from, to, m) :
                copy.from = from /\ copy.to \in to /\ copy.msg = m
  BY DEF Messages!Copies

LEMMA InitMessages == Messages!Init => MessagesInv
<1> SUFFICES ASSUME Messages!Init PROVE MessagesInv
  OBVIOUS
<1>1. MaxTime \in Nat
  BY MessagesAssumption DEF Messages!MessagingAssumption
<1>2. /\ e2ee \in BOOLEAN /\ clock = 0 /\ sends = <<>> /\ flying = {}
      /\ next = [s \in Nodes \X Messages!Targets |-> 0]
      /\ seen = [n \in Nodes |-> {}] /\ events = [n \in Nodes |-> <<>>]
  BY DEF Messages!Init
<1>3. Len(<<>>) = 0
  OBVIOUS
<1>4. MessageTypes
  BY <1>1, <1>2 DEF MessageTypes
<1>5. Publishing
  <2>1. ASSUME NEW s \in Nodes \X Messages!Targets
        PROVE  next[s] = IF e2ee THEN Cardinality(SendsOf(s)) ELSE 0
    <3>1. SendsOf(s) = {}
      BY <1>2, <1>3 DEF SendsOf
    <3> QED
      BY <1>2, <3>1, FS_EmptySet
  <2> QED
    BY <1>2, <1>3, <2>1 DEF Publishing, Messages!NoKeyTwice, Messages!CiphertextsDiffer
<1>6. SeenWasSent /\ CopiesAreMeant
  BY <1>2 DEF SeenWasSent, CopiesAreMeant
<1>7. EventsWereSent /\ Messages!OncePerBytes
  BY <1>2, <1>3 DEF EventsWereSent, Messages!OncePerBytes
<1> QED
  BY <1>4, <1>5, <1>6, <1>7 DEF MessagesInv

\* A call that reaches gossipsub: one message more, under a key never used before.
LEMMA SendKeeps ==
  ASSUME MessagesInv, NEW n \in Nodes, NEW target \in Messages!Targets, NEW text \in Texts,
         Messages!Send(n, target, text)
  PROVE  MessagesInv'
<1> DEFINE key == <<n, target, next[<<n, target>>]>>
           body == IF e2ee THEN [key |-> key, text |-> text] ELSE [text |-> text]
           header == Messages!Header(target)
           data == [header |-> header, body |-> body]
           msg == [author |-> n, seq |-> Len(sends), topic |-> Messages!TopicOf(target),
                   data |-> data]
           answer == Messages!Answer(n, msg)
           x == [msg |-> msg, answer |-> answer]
           s0 == <<n, target>>
<1>1. /\ sends' = Append(sends, x)
      /\ next' = IF e2ee THEN [next EXCEPT ![s0] = @ + 1] ELSE next
      /\ IF answer = "Ok"
         THEN /\ seen' = [seen EXCEPT ![n] = @ \cup {data}]
              /\ flying' = flying \cup Messages!Copies(n, Messages!Mesh(n, msg.topic), msg)
         ELSE UNCHANGED <<seen, flying>>
      /\ UNCHANGED <<e2ee, links, clock, events>>
  BY DEF Messages!Send, Messages!Payload, Messages!SpendKey, Messages!MessageId
<1>2. MessageTypes /\ s0 \in Nodes \X Messages!Targets /\ next[s0] \in Nat
  BY DEF MessagesInv, MessageTypes
<1>3. /\ header = [msg_type |-> IF target = "SPACE" THEN 1 ELSE 0, timestamp |-> clock]
      /\ header \in Headers
  BY <1>2, MessagesAssumption
  DEF Messages!Header, Headers, MessageTypes, Messages!MessagingAssumption
<1>4. /\ body \in Bodies
      /\ e2ee => body.key = key
  BY <1>2 DEF Bodies
<1>5. /\ answer \in {"Duplicate", "InsufficientPeers", "Ok"}
      /\ answer = "Duplicate" <=> data \in seen[n]
  BY DEF Messages!Answer, Messages!MessageId
<1>6. /\ data \in Datas /\ data.header = header /\ data.body = body
  BY <1>3, <1>4 DEF Datas
<1> HIDE DEF body, header, key
<1>7. /\ msg \in Msgs /\ msg.author = n /\ msg.topic = Messages!TopicOf(target)
      /\ msg.data = data
  BY <1>2, <1>6, LenProperties DEF Msgs, MessageTypes
<1> HIDE DEF data, answer
<1>8. x \in Publishes /\ x.msg = msg /\ x.answer = answer
  BY <1>5, <1>7 DEF Publishes
<1> HIDE DEF msg, x
<1>9. /\ Len(sends) \in Nat /\ Len(sends') = Len(sends) + 1
      /\ sends' \in Seq(Publishes)
      /\ \A i \in 1 .. Len(sends) : sends'[i] = sends[i]
      /\ sends'[Len(sends) + 1] = x
  BY <1>1, <1>2, <1>8, OneMore
<1>10. /\ next' \in [Nodes \X Messages!Targets -> Nat]
       /\ \A s \in Nodes \X Messages!Targets : next[s] <= next'[s]
       /\ \A s \in (Nodes \X Messages!Targets) \ {s0} : next'[s] = next[s]
       /\ next'[s0] = IF e2ee THEN next[s0] + 1 ELSE next[s0]
  <2>1. /\ next \in [Nodes \X Messages!Targets -> Nat] /\ s0 \in Nodes \X Messages!Targets
        /\ next' = IF e2ee THEN [next EXCEPT ![s0] = @ + 1] ELSE next
    BY <1>1, <1>2 DEF MessageTypes
  <2> HIDE DEF s0
  <2> QED
    BY <2>1
<1>11. /\ seen' \in [Nodes -> SUBSET Datas]
       /\ \A m \in Nodes : seen[m] \subseteq seen'[m]
       /\ \A m \in Nodes : \A d \in seen'[m] : d \in seen[m] \/ d = data
  <2>1. /\ seen \in [Nodes -> SUBSET Datas] /\ data \in Datas
        /\ \/ seen' = [seen EXCEPT ![n] = @ \cup {data}]
           \/ seen' = seen
    BY <1>1, <1>2, <1>6 DEF MessageTypes
  <2> QED
    BY <2>1
<1>12. MessageTypes'
  <2>1. Messages!Copies(n, Messages!Mesh(n, msg.topic), msg)
            \subseteq [from : Nodes, to : Nodes, msg : Msgs]
    <3>1. Messages!Mesh(n, msg.topic) \subseteq Nodes
      BY DEF Messages!Mesh
    <3> QED
      BY <1>7, <3>1, CopiesTyped
  <2>2. flying' \subseteq [from : Nodes, to : Nodes, msg : Msgs]
    BY <1>1, <1>2, <2>1 DEF MessageTypes
  <2> QED
    BY <1>1, <1>2, <1>9, <1>10, <1>11, <2>2
    DEF MessageTypes, Publishes, Msgs, Datas, Headers, Bodies, Given
<1>13. ASSUME NEW i \in 1 .. Len(sends), e2ee
       PROVE  sends[i].msg.data.body.key # key
  <2>1. Composed(sends[i].msg, e2ee, next)
    BY DEF MessagesInv, Publishing
  <2>2. PICK t \in Messages!Targets, k \in Nat :
          /\ sends[i].msg.data.body.key = <<sends[i].msg.author, t, k>>
          /\ k < next[<<sends[i].msg.author, t>>]
    BY <1>13, <2>1 DEF Composed
  <2>3. CASE sends[i].msg.author = n /\ t = target
    BY <1>2, <2>2, <2>3 DEF key
  <2>4. CASE ~ (sends[i].msg.author = n /\ t = target)
    BY <2>2, <2>4 DEF key
  <2> QED
    BY <2>3, <2>4
<1>14. Publishing'
  <2>1. ASSUME NEW m \in Msgs, Composed(m, e2ee, next) PROVE Composed(m, e2ee, next')
    <3>1. PICK t \in Messages!Targets :
            /\ m.topic = Messages!TopicOf(t)
            /\ m.data.header.msg_type = IF t = "SPACE" THEN 1 ELSE 0
            /\ e2ee => \E k \in Nat : /\ m.data.body.key = <<m.author, t, k>>
                                      /\ k < next[<<m.author, t>>]
      BY <2>1 DEF Composed
    <3>2. <<m.author, t>> \in Nodes \X Messages!Targets
      BY DEF Msgs
    <3>3. next[<<m.author, t>>] \in Nat /\ next'[<<m.author, t>>] \in Nat
          /\ next[<<m.author, t>>] <= next'[<<m.author, t>>]
      BY <1>2, <1>10, <3>2 DEF MessageTypes
    <3> QED
      BY <3>1, <3>3 DEF Composed
  <2>2. Composed(msg, e2ee, next')
    BY <1>2, <1>3, <1>4, <1>6, <1>7, <1>10 DEF Composed, key
  <2>3. ASSUME NEW i \in 1 .. Len(sends') PROVE Composed(sends'[i].msg, e2ee', next')
    <3>1. CASE i \in 1 .. Len(sends)
      <4>1. sends[i].msg \in Msgs /\ Composed(sends[i].msg, e2ee, next)
        <5>1. sends[i] \in Publishes
          BY <1>2, <3>1, ElementOfSeq DEF MessageTypes
        <5> QED
          BY <3>1, <5>1 DEF MessagesInv, Publishing, Publishes
      <4>2. Composed(sends[i].msg, e2ee, next')
        BY <2>1, <4>1
      <4> QED
        BY <1>1, <1>9, <3>1, <4>2
    <3>2. CASE i = Len(sends) + 1
      <4>1. sends'[i].msg = msg
        BY <1>8, <1>9, <3>2
      <4> QED
        BY <1>1, <2>2, <4>1
    <3> QED
      BY <1>9, <3>1, <3>2
  <2>4. ASSUME NEW s \in Nodes \X Messages!Targets
        PROVE  next'[s] = IF e2ee' THEN Cardinality(SendsOf(s)') ELSE 0
    <3>1. next[s] = IF e2ee THEN Cardinality(SendsOf(s)) ELSE 0
      BY DEF MessagesInv, Publishing
    <3>2. IsFiniteSet(SendsOf(s)) /\ Len(sends) + 1 \notin SendsOf(s)
      <4>1. IsFiniteSet(1 .. Len(sends)) /\ SendsOf(s) \subseteq 1 .. Len(sends)
        BY <1>9, FS_Interval DEF SendsOf
      <4> QED
        BY <1>9, <4>1, FS_Subset
    <3>3. CASE s = s0
      <4>1. SendsOf(s)' = SendsOf(s) \cup {Len(sends) + 1}
        BY <1>7, <1>8, <1>9, <3>3 DEF SendsOf
      <4>2. Cardinality(SendsOf(s)') = Cardinality(SendsOf(s)) + 1
        BY <3>2, <4>1, FS_AddElement
      <4> QED
        BY <1>1, <1>10, <3>1, <3>3, <4>2
    <3>4. CASE s # s0
      <4>1. ~ (msg.author = s[1] /\ msg.topic = Messages!TopicOf(s[2]))
        BY <1>7, <3>4, TopicsApart
      <4>2. SendsOf(s)' = SendsOf(s)
        BY <1>8, <1>9, <4>1 DEF SendsOf
      <4> QED
        BY <1>1, <1>10, <3>1, <3>4, <4>2
    <3> QED
      BY <3>3, <3>4
  <2>5. Messages!NoKeyTwice'
    <3>1. e2ee => \A i, j \in 1 .. Len(sends) :
              sends[i].msg.data.body.key = sends[j].msg.data.body.key => i = j
      BY DEF MessagesInv, Publishing, Messages!NoKeyTwice
    <3>2. e2ee => sends'[Len(sends) + 1].msg.data.body.key = key
      BY <1>4, <1>6, <1>7, <1>8, <1>9
    <3> QED
      BY <1>1, <1>9, <1>13, <3>1, <3>2 DEF Messages!NoKeyTwice
  <2>6. Messages!CiphertextsDiffer'
    <3>1. ASSUME e2ee PROVE data \notin seen[n]
      <4>1. \A d \in seen[n] : \E i \in 1 .. Len(sends) : sends[i].msg.data = d
        BY DEF MessagesInv, SeenWasSent
      <4>2. data.body.key = key
        BY <1>4, <1>6, <3>1
      <4> QED
        BY <1>13, <3>1, <4>1, <4>2
    <3>2. e2ee => \A i \in 1 .. Len(sends) : sends[i].answer # "Duplicate"
      BY DEF MessagesInv, Publishing, Messages!CiphertextsDiffer
    <3> QED
      BY <1>1, <1>5, <1>8, <1>9, <3>1, <3>2 DEF Messages!CiphertextsDiffer
  <2> QED
    BY <2>3, <2>4, <2>5, <2>6 DEF Publishing
<1>15. SeenWasSent'
  BY <1>7, <1>8, <1>9, <1>11 DEF MessagesInv, SeenWasSent
<1>16. /\ \A i \in Messages!Sent : i \in Messages!Sent' /\ sends'[i] = sends[i]
       /\ answer = "Ok" => Len(sends) + 1 \in Messages!Sent'
  BY <1>8, <1>9 DEF Messages!Sent
<1>17. CopiesAreMeant'
  <2> SUFFICES ASSUME NEW copy \in flying'
               PROVE  /\ <<copy.from, copy.to>> \in links
                      /\ \E i \in Messages!Sent' : sends'[i].msg = copy.msg
                      /\ copy.msg.topic \in Messages!SubscribedBy(copy.to)
                      /\ copy.msg.topic # Messages!SPACE_TOPIC =>
                             copy.from = copy.msg.author \/ copy.msg.data \in seen'[copy.to]
    BY <1>1 DEF CopiesAreMeant
  <2>1. CASE copy \in flying
    <3>1. copy.to \in Nodes
      BY <1>2, <2>1 DEF MessageTypes
    <3> QED
      BY <1>11, <1>16, <2>1, <3>1 DEF MessagesInv, CopiesAreMeant
  <2>2. CASE answer = "Ok" /\ copy \in Messages!Copies(n, Messages!Mesh(n, msg.topic), msg)
    <3>1. PICK m \in Messages!Mesh(n, msg.topic) : copy = [from |-> n, to |-> m, msg |-> msg]
      BY <2>2 DEF Messages!Copies
    <3>2. <<n, m>> \in links /\ msg.topic \in Messages!SubscribedBy(m)
      BY <3>1 DEF Messages!Mesh
    <3>3. sends'[Len(sends) + 1].msg = copy.msg
      BY <1>8, <1>9, <3>1
    <3> QED
      BY <1>7, <1>16, <2>2, <3>1, <3>2, <3>3
  <2> QED
    BY <1>1, <2>1, <2>2
<1>18. EventsWereSent'
  <2> SUFFICES ASSUME NEW m \in Nodes, NEW i \in 1 .. Len(events[m])
               PROVE  \E j \in Messages!Sent' : /\ MadeFrom(events[m][i], m, sends'[j].msg)
                                                /\ sends'[j].msg.data \in seen'[m]
    BY <1>1 DEF EventsWereSent
  <2>1. PICK j \in Messages!Sent : /\ MadeFrom(events[m][i], m, sends[j].msg)
                                   /\ sends[j].msg.data \in seen[m]
    BY DEF MessagesInv, EventsWereSent
  <2> QED
    BY <1>11, <1>16, <2>1
<1>19. Messages!OncePerBytes'
  BY <1>1 DEF MessagesInv, Messages!OncePerBytes
<1> QED
  BY <1>12, <1>14, <1>15, <1>17, <1>18, <1>19 DEF MessagesInv

\* A copy arrives at a node that has not seen its bytes: one event is made of it.
LEMMA DeliverKeeps ==
  ASSUME MessagesInv, NEW copy \in flying, Messages!Deliver(copy)
  PROVE  MessagesInv'
<1> DEFINE m == copy.msg
           n == copy.to
           d == m.data
           on == Messages!Mesh(n, m.topic) \ {copy.from, m.author}
           event == Messages!handle_gossipsub_message(copy.from, m)
<1>1. /\ IF d \in seen[n]
         THEN flying' = flying \ {copy} /\ UNCHANGED <<seen, events>>
         ELSE /\ seen' = [seen EXCEPT ![n] = @ \cup {d}]
              /\ flying' = (flying \ {copy}) \cup Messages!Copies(n, on, m)
              /\ events' = [events EXCEPT ![n] = Append(@, event)]
      /\ UNCHANGED <<e2ee, links, clock, next, sends>>
  BY DEF Messages!Deliver, Messages!MessageId
<1>2. /\ MessageTypes
      /\ n \in Nodes /\ copy.from \in Nodes /\ m \in Msgs
  BY DEF MessagesInv, MessageTypes
<1>3. PICK j \in Messages!Sent : sends[j].msg = m
  BY DEF MessagesInv, CopiesAreMeant
<1>4. PICK target \in Messages!Targets :
        /\ m.topic = Messages!TopicOf(target)
        /\ d.header.msg_type = IF target = "SPACE" THEN 1 ELSE 0
  BY <1>3 DEF MessagesInv, Publishing, Composed, Messages!Sent
<1>5. /\ d \in Datas /\ d.body \in Bodies /\ d.header.timestamp \in Nat
  BY <1>2 DEF Msgs, Datas, Headers
<1>6. /\ event = [kind |-> IF m.topic = Messages!SPACE_TOPIC THEN "SpacePost" ELSE "DirectMessage",
                  from_peer |-> copy.from, content |-> d.body, timestamp |-> d.header.timestamp]
      /\ event \in Given
  BY <1>2, <1>5 DEF Messages!handle_gossipsub_message, Given
<1>7. /\ m.topic \in Messages!SubscribedBy(n)
      /\ m.topic # Messages!SPACE_TOPIC => copy.from = m.author \/ d \in seen[n]
  BY DEF MessagesInv, CopiesAreMeant
<1>8. m.topic # Messages!SPACE_TOPIC => m.topic = Messages!DM_TOPIC(n)
  BY <1>2, <1>4, <1>7, TopicsApart
<1>9. /\ seen' \in [Nodes -> SUBSET Datas]
      /\ \A x \in Nodes : seen[x] \subseteq seen'[x]
      /\ d \in seen'[n]
      /\ \A x \in Nodes : \A y \in seen'[x] : y \in seen[x] \/ y = d
  <2>1. /\ seen \in [Nodes -> SUBSET Datas]
        /\ \/ seen' = [seen EXCEPT ![n] = @ \cup {d}]
           \/ seen' = seen /\ d \in seen[n]
    BY <1>1, <1>2 DEF MessageTypes
  <2> HIDE DEF d, n
  <2> QED
    BY <1>2, <1>5, <2>1 DEF n
<1>10. Messages!Sent' = Messages!Sent
  BY <1>1 DEF Messages!Sent
<1>11. ASSUME NEW k \in flying' PROVE
         \/ k \in flying
         \/ /\ k.from = n /\ k.to \in on /\ k.msg = m
  <2>1. on \subseteq Nodes
    BY DEF Messages!Mesh
  <2> QED
    BY <1>1, <1>2, <2>1, CopiesTyped
<1>12. MessageTypes'
  <2>1. flying' \subseteq [from : Nodes, to : Nodes, msg : Msgs]
    <3>1. on \subseteq Nodes
      BY DEF Messages!Mesh
    <3>2. Messages!Copies(n, on, m) \subseteq [from : Nodes, to : Nodes, msg : Msgs]
      BY <1>2, <3>1, CopiesTyped
    <3> QED
      BY <1>1, <1>2, <3>2 DEF MessageTypes
  <2>2. events' \in [Nodes -> Seq(Given)]
    <3>1. Append(events[n], event) \in Seq(Given)
      BY <1>2, <1>6, AppendProperties DEF MessageTypes
    <3> QED
      BY <1>1, <1>2, <3>1 DEF MessageTypes
  <2> QED
    BY <1>1, <1>2, <1>9, <2>1, <2>2
    DEF MessageTypes, Publishes, Msgs, Datas, Headers, Bodies, Given
<1>13. Publishing'
  <2>1. \A i \in 1 .. Len(sends) : Composed(sends[i].msg, e2ee, next)'
    BY <1>1 DEF MessagesInv, Publishing
  <2>2. \A s : SendsOf(s)' = SendsOf(s)
    BY <1>1 DEF SendsOf
  <2>3. (\A s \in Nodes \X Messages!Targets :
            next[s] = IF e2ee THEN Cardinality(SendsOf(s)) ELSE 0)'
    BY <1>1, <2>2 DEF MessagesInv, Publishing
  <2>4. Messages!NoKeyTwice'
    BY <1>1 DEF MessagesInv, Publishing, Messages!NoKeyTwice
  <2>5. Messages!CiphertextsDiffer'
    BY <1>1 DEF MessagesInv, Publishing, Messages!CiphertextsDiffer
  <2> QED
    BY <1>1, <2>1, <2>3, <2>4, <2>5 DEF Publishing
<1>14. SeenWasSent'
  <2>1. j \in 1 .. Len(sends) /\ sends[j].msg.data = d
    BY <1>3 DEF Messages!Sent
  <2> QED
    BY <1>1, <1>9, <2>1 DEF MessagesInv, SeenWasSent
<1>15. CopiesAreMeant'
  <2> SUFFICES ASSUME NEW k \in flying'
               PROVE  /\ <<k.from, k.to>> \in links
                      /\ \E i \in Messages!Sent : sends[i].msg = k.msg
                      /\ k.msg.topic \in Messages!SubscribedBy(k.to)
                      /\ k.msg.topic # Messages!SPACE_TOPIC =>
                             k.from = k.msg.author \/ k.msg.data \in seen'[k.to]
    BY <1>1, <1>10 DEF CopiesAreMeant
  <2>1. CASE k \in flying
    <3>1. k.to \in Nodes
      BY <1>2, <2>1 DEF MessageTypes
    <3> QED
      BY <1>9, <2>1, <3>1 DEF MessagesInv, CopiesAreMeant
  <2>2. CASE k.from = n /\ k.to \in on /\ k.msg = m
    <3>1. <<n, k.to>> \in links /\ m.topic \in Messages!SubscribedBy(k.to) /\ k.to \in Nodes
      BY <2>2 DEF Messages!Mesh
    <3>2. m.topic # Messages!SPACE_TOPIC => k.to = n
      <4>1. ASSUME m.topic # Messages!SPACE_TOPIC PROVE k.to = n
        <5>1. target # "SPACE" /\ n \in Messages!Targets /\ k.to \in Messages!Targets
          BY <1>2, <1>4, <3>1, <4>1, TopicsApart DEF Messages!Targets
        <5>2. m.topic = Messages!DM_TOPIC(n) /\ m.topic = Messages!DM_TOPIC(k.to)
          BY <1>4, <1>8, <3>1, <4>1, <5>1, TopicsApart
        <5> QED
          BY <5>2 DEF Messages!DM_TOPIC
      <4> QED
        BY <4>1
    <3> QED
      BY <1>3, <1>9, <2>2, <3>1, <3>2
  <2> QED
    BY <1>11, <2>1, <2>2
<1>16. MadeFrom(event, n, m) \/ d \in seen[n]
  BY <1>6, <1>7, <1>8 DEF MadeFrom
<1>17. \A x \in Nodes : \A i \in 1 .. Len(events'[x]) :
         \/ i \in 1 .. Len(events[x]) /\ events'[x][i] = events[x][i]
         \/ x = n /\ d \notin seen[n] /\ i = Len(events[n]) + 1 /\ events'[x][i] = event
  <2> SUFFICES ASSUME NEW x \in Nodes, NEW i \in 1 .. Len(events'[x])
               PROVE  \/ i \in 1 .. Len(events[x]) /\ events'[x][i] = events[x][i]
                      \/ /\ x = n /\ d \notin seen[n]
                         /\ i = Len(events[n]) + 1 /\ events'[x][i] = event
    OBVIOUS
  <2>1. CASE d \in seen[n] \/ x # n
    <3>1. events'[x] = events[x]
      BY <1>1, <1>2, <2>1 DEF MessageTypes
    <3> QED
      BY <3>1
  <2>2. CASE d \notin seen[n] /\ x = n
    <3>1. events'[n] = Append(events[n], event)
      BY <1>1, <1>2, <2>2 DEF MessageTypes
    <3>2. events[n] \in Seq(Given)
      BY <1>2 DEF MessageTypes
    <3>3. /\ Len(events'[n]) = Len(events[n]) + 1 /\ Len(events[n]) \in Nat
          /\ \A k \in 1 .. Len(events[n]) : events'[n][k] = events[n][k]
          /\ events'[n][Len(events[n]) + 1] = event
      BY <1>6, <3>1, <3>2, AppendProperties
    <3>4. i \in 1 .. Len(events[n]) \/ i = Len(events[n]) + 1
      BY <2>2, <3>3
    <3> HIDE DEF event, d, n
    <3> QED
      BY <2>2, <3>3, <3>4
  <2> QED
    BY <2>1, <2>2
<1>18. EventsWereSent'
  <2> SUFFICES ASSUME NEW x \in Nodes, NEW i \in 1 .. Len(events'[x])
               PROVE  \E k \in Messages!Sent : /\ MadeFrom(events'[x][i], x, sends[k].msg)
                                               /\ sends[k].msg.data \in seen'[x]
    BY <1>1, <1>10 DEF EventsWereSent
  <2>1. CASE i \in 1 .. Len(events[x]) /\ events'[x][i] = events[x][i]
    BY <1>9, <2>1 DEF MessagesInv, EventsWereSent
  <2>2. CASE x = n /\ d \notin seen[n] /\ events'[x][i] = event
    BY <1>3, <1>9, <1>16, <2>2
  <2> QED
    BY <1>17, <2>1, <2>2
<1>19. Messages!OncePerBytes'
  <2>1. ASSUME NEW i \in 1 .. Len(events[n]), d \notin seen[n]
        PROVE  ~ /\ events[n][i].kind = event.kind
                 /\ events[n][i].content = event.content
                 /\ events[n][i].timestamp = event.timestamp
    <3>1. PICK k \in Messages!Sent : /\ MadeFrom(events[n][i], n, sends[k].msg)
                                     /\ sends[k].msg.data \in seen[n]
      BY <1>2 DEF MessagesInv, EventsWereSent
    <3> DEFINE o == sends[k].msg
    <3>2. /\ k \in 1 .. Len(sends) /\ o \in Msgs
          /\ Composed(o, e2ee, next)
      <4>1. k \in 1 .. Len(sends)
        BY <3>1 DEF Messages!Sent
      <4>2. sends[k] \in Publishes
        BY <1>2, <4>1, ElementOfSeq DEF MessageTypes
      <4> QED
        BY <4>1, <4>2 DEF MessagesInv, Publishing, Publishes
    <3>3. PICK t \in Messages!Targets :
            /\ o.topic = Messages!TopicOf(t)
            /\ o.data.header.msg_type = IF t = "SPACE" THEN 1 ELSE 0
      BY <3>2 DEF Composed
    <3>4. o.topic = Messages!SPACE_TOPIC <=> t = "SPACE"
      BY <3>3, TopicsApart
    <3>5. m.topic = Messages!SPACE_TOPIC <=> target = "SPACE"
      BY <1>4, TopicsApart
    <3>6. ASSUME /\ events[n][i].kind = event.kind
                 /\ events[n][i].content = event.content
                 /\ events[n][i].timestamp = event.timestamp
          PROVE  o.data = d
      <4>1. o.data.body = d.body /\ o.data.header.timestamp = d.header.timestamp
        BY <1>6, <3>1, <3>6 DEF MadeFrom
      <4>2. o.data.header.msg_type = d.header.msg_type
        BY <1>4, <1>6, <3>1, <3>3, <3>4, <3>5, <3>6 DEF MadeFrom
      <4>3. o.data \in Datas /\ o.data.header \in Headers /\ d.header \in Headers
        BY <1>5, <3>2 DEF Msgs, Datas
      <4>4. o.data.header = d.header
        BY <4>1, <4>2, <4>3 DEF Headers
      <4> QED
        BY <1>5, <4>1, <4>3, <4>4 DEF Datas
    <3> QED
      BY <2>1, <3>1, <3>6
  <2> SUFFICES ASSUME NEW x \in Nodes, NEW i \in 1 .. Len(events'[x]),
                      NEW k \in 1 .. Len(events'[x]),
                      events'[x][i].kind = events'[x][k].kind,
                      events'[x][i].content = events'[x][k].content,
                      events'[x][i].timestamp = events'[x][k].timestamp
               PROVE  i = k
    BY DEF Messages!OncePerBytes
  <2>2. \/ i \in 1 .. Len(events[x]) /\ events'[x][i] = events[x][i]
        \/ x = n /\ d \notin seen[n] /\ i = Len(events[n]) + 1 /\ events'[x][i] = event
    BY <1>17
  <2>3. \/ k \in 1 .. Len(events[x]) /\ events'[x][k] = events[x][k]
        \/ x = n /\ d \notin seen[n] /\ k = Len(events[n]) + 1 /\ events'[x][k] = event
    BY <1>17
  <2>4. i \in 1 .. Len(events[x]) /\ k \in 1 .. Len(events[x]) /\
            events'[x][i] = events[x][i] /\ events'[x][k] = events[x][k] => i = k
    BY DEF MessagesInv, Messages!OncePerBytes
  <2> HIDE DEF event, d, n
  <2> QED
    BY <2>1, <2>2, <2>3, <2>4
<1> QED
  BY <1>12, <1>13, <1>14, <1>15, <1>18, <1>19 DEF MessagesInv

LEMMA LoseAndTickKeep ==
  ASSUME MessagesInv,
         \/ \E copy \in flying : Messages!Lose(copy)
         \/ Messages!Tick
         \/ UNCHANGED Messages!vars
  PROVE  MessagesInv'
<1>1. /\ UNCHANGED <<e2ee, links, next, seen, events, sends>>
      /\ flying' \subseteq flying
      /\ clock' \in 0 .. MaxTime
  BY MessagesAssumption DEF Messages!Lose, Messages!Tick, Messages!vars, MessagesInv, MessageTypes,
     Messages!MessagingAssumption
<1>2. Messages!Sent' = Messages!Sent
  BY <1>1 DEF Messages!Sent
<1>3. MessageTypes'
  BY <1>1 DEF MessagesInv, MessageTypes, Publishes, Msgs, Datas, Headers, Bodies, Given
<1>4. Publishing'
  BY <1>1 DEF MessagesInv, Publishing, SendsOf, Messages!NoKeyTwice, Messages!CiphertextsDiffer
<1>5. SeenWasSent' /\ CopiesAreMeant' /\ EventsWereSent'
  BY <1>1, <1>2 DEF MessagesInv, SeenWasSent, CopiesAreMeant, EventsWereSent
<1>6. Messages!OncePerBytes'
  BY <1>1 DEF MessagesInv, Messages!OncePerBytes
<1> QED
  BY <1>3, <1>4, <1>5, <1>6 DEF MessagesInv

LEMMA MessagesInvariant == Messages!Spec => []MessagesInv
<1>1. MessagesInv /\ [Messages!Next]_(Messages!vars) => MessagesInv'
  BY SendKeeps, DeliverKeeps, LoseAndTickKeep DEF Messages!Next
<1> QED
  BY InitMessages, <1>1, PTL DEF Messages!Spec

\* No message key encrypts twice and no message is refused as a duplicate under E2EE:
\* a key is spent before gossipsub is asked (network.rs:144-170).
THEOREM KeysAreSpentForGood == Messages!Spec => []KeysAreSpent
<1>1. MessagesInv => KeysAreSpent
  <2> SUFFICES ASSUME MessagesInv PROVE KeysAreSpent
    OBVIOUS
  <2>1. \A s \in Nodes \X Messages!Targets :
          next[s] = IF e2ee THEN Messages!Cardinality({i \in 1 .. Len(sends) :
                        sends[i].msg.author = s[1]
                        /\ sends[i].msg.topic = Messages!TopicOf(s[2])})
                    ELSE 0
    BY MessagesCount DEF MessagesInv, Publishing, SendsOf
  <2>2. Messages!TypeOK
    BY <2>1 DEF MessagesInv, MessageTypes, CopiesAreMeant, Messages!TypeOK
  <2> QED
    BY <2>2 DEF MessagesInv, Publishing, KeysAreSpent
<1> QED
  BY MessagesInvariant, <1>1, PTL

\* An application is given the same bytes once, over however many paths they come, and
\* a direct message by the peer that wrote it (network.rs:458-520).
THEOREM EventsStayGenuine == Messages!Spec => []EventsAreGenuine
<1>1. MessagesInv => EventsAreGenuine
  <2> SUFFICES ASSUME MessagesInv, NEW n \in Nodes, NEW i \in 1 .. Len(events[n]),
                      events[n][i].kind = "DirectMessage"
               PROVE  \E j \in Messages!Sent : /\ sends[j].msg.topic = Messages!DM_TOPIC(n)
                                               /\ sends[j].msg.author = events[n][i].from_peer
                                               /\ sends[j].msg.data.body = events[n][i].content
    BY DEF MessagesInv, EventsAreGenuine, Messages!DirectFromAuthor
  <2> QED
    BY DEF MessagesInv, EventsWereSent, MadeFrom
<1> QED
  BY MessagesInvariant, <1>1, PTL

==============================================================================
