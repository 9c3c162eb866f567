------------------------------ MODULE MCNetwork ------------------------------
(***************************************************************************)
(* The tables and the event channel of one node, and the messages between  *)
(* several, for TLC.  A message reaches a node by an event that leaves the *)
(* tables alone, so the two share no variable: a behaviour takes the steps *)
(* of one part, chosen at the start, and leaves the others as they began.  *)
(* The node itself is looked at in two parts: "peers", where connections   *)
(* of two peers come and go and the application calls nothing, and "news", *)
(* where one peer connects at most twice while addresses, NAT changes and  *)
(* the application's calls mix with what is on the channel.                *)
(***************************************************************************)
EXTENDS Network

CONSTANTS
    a, b, c,                                                   \* three nodes
    Nodes, Topologies, Texts, Sessions, MaxTime, MaxSends      \* of Messaging

VARIABLES
    part,
    e2ee, links, clock, next, seen, flying, events, sends, lost

message_vars == <<e2ee, links, clock, next, seen, flying, events, sends, lost>>
all_vars == <<part, vars, message_vars>>

All == {l \in {a, b, c} \X {a, b, c} : l[1] # l[2]}
Line == {<<a, b>>, <<b, a>>, <<b, c>>, <<c, b>>}

\* In the line a has no neighbour that subscribes c's messages: gossipsub refuses
\* them.
MCTopologies == {All, Line}
MCSessions == {<<a, b>>, <<b, a>>, <<a, c>>, <<a, "SPACE">>}

Messages == INSTANCE Messaging

ASSUME MessagesAssumption == Messages!MessagingAssumption

MCInit ==
    /\ part \in {"peers", "news", "messages"}
    /\ Init
    /\ Messages!Init
    /\ part # "messages" => ~ e2ee /\ links = All

Same(x) == x' = x
PeersNext == Next /\ Same(nat_status) /\ Same(external_addresses) /\ Same(app)

OnePeer == CHOOSE p \in Peers : TRUE
NewsNext ==
    /\ Next
    /\ Same(known_peers)
    /\ established' <= 2
    /\ live'[OnePeer] <= 1
    /\ \A p \in Peers \ {OnePeer} : live'[p] = 0

\* Three encrypted messages in the line, where some are refused; two elsewhere.
MessagesNext == Messages!Next /\ (Len(sends') = 3 => e2ee /\ links = Line)

MCNext ==
    \/ part = "peers" /\ PeersNext /\ UNCHANGED <<part, message_vars>>
    \/ part = "news" /\ NewsNext /\ UNCHANGED <<part, message_vars>>
    \/ part = "messages" /\ MessagesNext /\ UNCHANGED <<part, vars>>

\* The fairness of Network and of Messaging.
MCSpec ==
    /\ MCInit /\ [][MCNext]_all_vars
    /\ WF_vars(Recv)
    /\ WF_message_vars(\E copy \in flying : Messages!Deliver(copy))

-----------------------------------------------------------------------------
\* The mode of the DHT, the connected peers and the zero-id index agree with each
\* other and with the connections and announcements there have been, and the news
\* on the channel is in the order in which it came about.
TablesAndNewsAgree ==
    part # "messages" =>
        TypeOK /\ ModeFollowsPeers /\ CountedPeersAreLive /\ FindsAnAnnouncer /\ SnapshotsGrow

\* Message keys are numbered without a gap over refused publishes, none encrypts
\* twice, and so no two ciphertexts are the same bytes.
KeysAreSpent == Messages!TypeOK /\ Messages!NoKeyTwice /\ Messages!CiphertextsDiffer

\* What an application is given it is given once, and a direct message by the peer
\* that wrote it.
EventsAreGenuine == Messages!OncePerBytes /\ Messages!DirectFromAuthor

\* What was published with Ok reaches every node it was meant for, unless it is lost
\* on the way.
OkIsHeard == Messages!OkIsHeard

=============================================================================
