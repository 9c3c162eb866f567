------------------------------- MODULE Network -------------------------------
(***************************************************************************)
(* The tables one node keeps about its peers, and the events it hands to   *)
(* the application (rust/src/p2p/network.rs, ZeroP2PNetwork).              *)
(*                                                                         *)
(* libp2p is external: it opens and closes connections, identifies peers,  *)
(* finds listen addresses and probes the NAT.  One call of next_event      *)
(* selects between one swarm event, handled at once, and one event queued  *)
(* on the node's own channel.  An action is one such call, or one call of  *)
(* bootstrap or subscribe by the application.  The events next_event       *)
(* returns are built from these tables and are left out, but for the ones  *)
(* the channel carries; RoutingUpdated and the ignored swarm events change *)
(* nothing.                                                                *)
(***************************************************************************)
EXTENDS Naturals, Sequences, FiniteSets, SequencesExt

CONSTANTS
    Peers,        \* the other nodes
    Versions,     \* agent versions peers may announce; the node calls them zero ids
    Unusable,     \* those of Versions that are empty or "unknown"
    Addrs,        \* listen addresses the node may get
    Routable,     \* those of Addrs that are neither loopback nor private
    Groups,       \* group topics the application may subscribe
    NatStatus,    \* what autonat may report, "Unknown" included
    None,
    MaxConns,     \* bound: simultaneous connections to one peer
    MaxReady,     \* bound: connections established over a run
    MaxAddrs      \* bound: addresses pushed over a run

ASSUME NetworkAssumption ==
    /\ Unusable \subseteq Versions
    /\ Routable \subseteq Addrs
    /\ "Unknown" \in NatStatus
    /\ None \notin Versions \cup Peers
    /\ None \notin [zero_id : Versions, connected : BOOLEAN]
    /\ {"dm", "space"} \cap Groups = {}
    /\ MaxConns \in Nat /\ MaxReady \in Nat /\ MaxAddrs \in Nat

VARIABLES
    live,                \* libp2p: connections open to each peer
    connected_peers,
    known_peers,         \* peer -> None or [zero_id, connected]
    zero_id_to_peer_id,  \* zero id -> None or a peer
    nat_status,
    external_addresses,
    mode,                \* Kademlia: "auto" until the node sets it
    subscribed_topics,
    channel,             \* the unbounded channel from event_sender to event_receiver
    bootstrapped,        \* what bootstrap returned: None, "ok" or "error"
    doubled,             \* history: peers that ever had two connections at once
    announced,           \* history: the zero ids each peer has announced
    told_error,          \* history: whether next_event has returned an Error
    established          \* history: connections established

peer_tables == <<connected_peers, known_peers, zero_id_to_peer_id>>
link == <<live, doubled, established>>
app == <<subscribed_topics, bootstrapped>>
vars == <<link, peer_tables, nat_status, external_addresses, mode, app, channel,
          announced, told_error>>

Topics == {"dm", "space"} \cup Groups

NetworkReady == [kind |-> "NetworkReady", addrs |-> external_addresses, nat |-> nat_status]
Error(t) == [kind |-> "Error", topic |-> t]

Init ==
    /\ live = [p \in Peers |-> 0]
    /\ connected_peers = {}
    /\ known_peers = [p \in Peers |-> None]
    /\ zero_id_to_peer_id = [z \in Versions |-> None]
    /\ nat_status = "Unknown"
    /\ external_addresses = <<>>
    /\ mode = "auto"
    /\ subscribed_topics = {}
    /\ channel = <<>>
    /\ bootstrapped = None
    /\ doubled = {}
    /\ announced = [p \in Peers |-> {}]
    /\ told_error = FALSE
    /\ established = 0

-----------------------------------------------------------------------------
(* Swarm events *)

_announce_network_ready == channel' = Append(channel, NetworkReady)

ConnectionEstablished(p) ==
    /\ live[p] < MaxConns /\ established < MaxReady
    /\ live' = [live EXCEPT ![p] = @ + 1]
    /\ doubled' = IF live[p] > 0 THEN doubled \cup {p} ELSE doubled
    /\ established' = established + 1
    /\ connected_peers' = connected_peers \cup {p}
    /\ mode' = "server"
    /\ _announce_network_ready
    /\ UNCHANGED <<known_peers, zero_id_to_peer_id, nat_status, external_addresses, app,
                   announced, told_error>>

\* Slip: the mode is looked at before the peer is removed.
ConnectionClosedChecksFirst(p) ==
    /\ live[p] > 0
    /\ live' = [live EXCEPT ![p] = @ - 1]
    /\ connected_peers' = connected_peers \ {p}
    /\ mode' = IF connected_peers = {} THEN "client" ELSE mode
    /\ UNCHANGED <<doubled, established, known_peers, zero_id_to_peer_id, nat_status,
                   external_addresses, app, channel, announced, told_error>>

\* Any one of the peer's connections: the others are not looked at.
ConnectionClosed(p) ==
    /\ live[p] > 0
    /\ live' = [live EXCEPT ![p] = @ - 1]
    /\ connected_peers' = connected_peers \ {p}
    /\ mode' = IF connected_peers' = {} THEN "client" ELSE mode
    /\ UNCHANGED <<doubled, established, known_peers, zero_id_to_peer_id, nat_status,
                   external_addresses, app, channel, announced, told_error>>

\* The entry of the zero id moves to the peer; its older entries stay.
Index(p, z) ==
    IF z \in Unusable THEN UNCHANGED zero_id_to_peer_id
    ELSE zero_id_to_peer_id' = [zero_id_to_peer_id EXCEPT ![z] = p]

IdentifyReceived(p, z) ==
    /\ live[p] > 0
    /\ Index(p, z)
    /\ known_peers' = [known_peers EXCEPT ![p] = [zero_id |-> z, connected |-> TRUE]]
    /\ announced' = [announced EXCEPT ![p] = @ \cup {z}]
    /\ UNCHANGED <<link, connected_peers, nat_status, external_addresses, mode, app, channel,
                   told_error>>

AutonatStatusChanged(new) ==
    /\ new # nat_status
    /\ nat_status' = new
    /\ UNCHANGED <<link, peer_tables, external_addresses, mode, app, channel, announced,
                   told_error>>

\* Also for an address that was there before: nothing removes one.
NewListenAddr(a) ==
    /\ IF a \in Routable
       THEN /\ Len(external_addresses) < MaxAddrs
            /\ external_addresses' = Append(external_addresses, a)
       ELSE UNCHANGED external_addresses
    /\ UNCHANGED <<link, peer_tables, nat_status, mode, app, channel, announced, told_error>>

SwarmEvent ==
    \/ \E p \in Peers : \/ ConnectionEstablished(p)
                        \/ ConnectionClosed(p)
                        \/ \E z \in Versions : IdentifyReceived(p, z)
    \/ \E s \in NatStatus : AutonatStatusChanged(s)
    \/ \E a \in Addrs : NewListenAddr(a)

\* The other branch of the select: event_receiver.recv().
Recv ==
    /\ channel # <<>>
    /\ channel' = Tail(channel)
    /\ told_error' = (told_error \/ Head(channel).kind = "Error")
    /\ UNCHANGED <<link, peer_tables, nat_status, external_addresses, mode, app, announced>>

-----------------------------------------------------------------------------
(* Calls of the application *)

\* Slip: a topic that cannot be subscribed is passed over in silence.
SubscribedSilently(ts, refused) ==
    /\ subscribed_topics' = subscribed_topics \cup (ts \ refused)
    /\ UNCHANGED channel

\* subscribe_dm, subscribe_space and subscribe_group: gossipsub takes the topic,
\* or an Error is queued.
Subscribed(ts, refused) ==
    /\ subscribed_topics' = subscribed_topics \cup (ts \ refused)
    /\ channel' = channel \o SetToSeq({Error(t) : t \in ts \cap refused})

subscribe_group(g) ==
    /\ g \notin subscribed_topics
    /\ \A i \in 1..Len(channel) : channel[i] # Error(g)
    /\ \E refused \in SUBSET {g} : Subscribed({g}, refused)
    /\ UNCHANGED <<link, peer_tables, nat_status, external_addresses, mode, bootstrapped,
                   announced, told_error>>

\* What becomes of one bootstrap address: it does not parse, dial takes it, or
\* dial refuses it.
Dials == {"unparsable", "dialled", "refused"}

\* A refused dial returns before the topics are subscribed.
bootstrap ==
    /\ bootstrapped = None
    /\ \E dials \in SeqOf(Dials, 2), refused \in SUBSET {"dm", "space"} :
        IF \E i \in DOMAIN dials : dials[i] = "refused"
        THEN bootstrapped' = "error" /\ UNCHANGED <<subscribed_topics, channel>>
        ELSE bootstrapped' = "ok" /\ Subscribed({"dm", "space"}, refused)
    /\ UNCHANGED <<link, peer_tables, nat_status, external_addresses, mode, announced,
                   told_error>>

Next == SwarmEvent \/ Recv \/ bootstrap \/ \E g \in Groups : subscribe_group(g)

Spec == Init /\ [][Next]_vars

\* The application keeps calling next_event, and the select picks among its ready
\* branches at random: the channel is not passed over for ever.
FairSpec == Spec /\ WF_vars(Recv)

\* find_peer_by_zero_id
find_peer_by_zero_id(z) ==
    IF zero_id_to_peer_id[z] = None THEN None ELSE known_peers[zero_id_to_peer_id[z]]

-----------------------------------------------------------------------------
KnownPeers == [zero_id : Versions, connected : {TRUE}]
Events ==
    [kind : {"NetworkReady"}, addrs : SeqOf(Routable, MaxAddrs), nat : NatStatus]
    \cup [kind : {"Error"}, topic : Topics]

\* Types of the node's tables and of what its channel carries.
TypeOK ==
    /\ live \in [Peers -> 0..MaxConns]
    /\ connected_peers \subseteq Peers
    /\ known_peers \in [Peers -> KnownPeers \cup {None}]
    /\ zero_id_to_peer_id \in [Versions -> Peers \cup {None}]
    /\ nat_status \in NatStatus
    /\ external_addresses \in SeqOf(Routable, MaxAddrs)
    /\ mode \in {"auto", "server", "client"}
    /\ subscribed_topics \subseteq Topics
    /\ \A i \in 1..Len(channel) : channel[i] \in Events
    /\ bootstrapped \in {None, "ok", "error"}
    /\ announced \in [Peers -> SUBSET Versions]
    /\ established \in 0..MaxReady

\* Kademlia serves the DHT exactly while the node counts a peer as connected,
\* whatever connections come and go in between.
ModeFollowsPeers ==
    /\ (mode = "server") <=> (connected_peers # {})
    /\ mode = "auto" => established = 0

\* A peer counted as connected has a live connection; a peer with a live
\* connection that is not counted lost one of two connections at some time.
CountedPeersAreLive ==
    /\ \A p \in connected_peers : live[p] > 0
    /\ \A p \in Peers \ connected_peers : live[p] > 0 => p \in doubled

\* A zero id that some peer has announced finds a known peer for ever after, and
\* the peer it finds has itself announced it.
FindsAnAnnouncer ==
    \A z \in Versions \ Unusable :
        /\ (\E p \in Peers : z \in announced[p]) <=> find_peer_by_zero_id(z) # None
        /\ zero_id_to_peer_id[z] # None => z \in announced[zero_id_to_peer_id[z]]

\* The addresses of every NetworkReady that waits in the channel are a prefix of
\* those of the next one, and of the node's own: news is delayed, never reordered.
SnapshotsGrow ==
    \A i \in 1..Len(channel) : channel[i].kind = "NetworkReady" =>
        /\ IsPrefix(channel[i].addrs, external_addresses)
        /\ \A j \in i..Len(channel) : channel[j].kind = "NetworkReady" =>
               IsPrefix(channel[i].addrs, channel[j].addrs)

\* After a bootstrap that returned Ok the node gets the direct messages and posts
\* meant for it, or the application is told of an error.
BootstrapIsReported ==
    bootstrapped = "ok" ~> ({"dm", "space"} \subseteq subscribed_topics \/ told_error)
==============================================================================
