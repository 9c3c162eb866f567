------------------------------ MODULE Messaging ------------------------------
(***************************************************************************)
(* Direct messages and space posts over gossipsub: send_direct_message,    *)
(* publish_space_post and handle_gossipsub_message (rust/src/p2p/          *)
(* network.rs), on several nodes.                                          *)
(*                                                                         *)
(* gossipsub is external: it refuses bytes it has seen and topics without  *)
(* a neighbour, and passes what it takes along the links between nodes     *)
(* that subscribe the topic.  The code decides what the bytes are, when    *)
(* two messages are the same, and what a failed publish leaves behind.     *)
(***************************************************************************)
EXTENDS Naturals, FiniteSets, Sequences

CONSTANTS
    Nodes,
    Topologies, \* what the connections may be: symmetric sets of pairs of nodes
    Texts,
    Sessions,   \* <<node, target>>: the ratchet sessions of the nodes' managers
    MaxTime,    \* bound: the last millisecond
    MaxSends    \* bound: calls that reach gossipsub

MessagingAssumption ==
    /\ \A net \in Topologies : \A l \in net : l \in Nodes \X Nodes /\ <<l[2], l[1]>> \in net
    /\ Sessions \subseteq Nodes \X (Nodes \cup {"SPACE"})
    /\ "SPACE" \notin Nodes
    /\ MaxTime \in Nat /\ MaxSends \in Nat

VARIABLES
    e2ee,     \* whether the nodes were built with a session manager
    links,    \* the connections between the nodes
    clock,    \* milliseconds
    next,     \* session -> the number its next message gets
    seen,     \* gossipsub: the message ids each node has sent or received
    flying,   \* copies on the links
    events,   \* what each node's application has been given, in order
    sends,    \* history: the publishes in order, refused ones included
    lost      \* history: whether a link ever lost a copy

vars == <<e2ee, links, clock, next, seen, flying, events, sends, lost>>

Targets == Nodes \cup {"SPACE"}
DM_TOPIC(n) == <<"dm", n>>
SPACE_TOPIC == <<"space">>
TopicOf(target) == IF target = "SPACE" THEN SPACE_TOPIC ELSE DM_TOPIC(target)

\* Slip: a node subscribes the direct messages of everyone.
SubscribedToAll(n) == {DM_TOPIC(m) : m \in Nodes} \cup {SPACE_TOPIC}

\* bootstrap: one's own direct messages, and the space.
SubscribedBy(n) == {DM_TOPIC(n), SPACE_TOPIC}

\* The nodes gossipsub of n would send a message of the topic to.
Mesh(n, topic) == {m \in Nodes : <<n, m>> \in links /\ topic \in SubscribedBy(m)}

\* The nine bytes of DirectMessageHeader: the sender's zero id is not among them.
Header(target) == [msg_type |-> IF target = "SPACE" THEN 1 ELSE 0, timestamp |-> clock]

\* The payload of a send by n: the header, and the text as it is or under the next
\* key of the session with the target.
Payload(n, target, text) ==
    [header |-> Header(target),
     body |-> IF e2ee THEN [key |-> <<n, target, next[n, target]>>, text |-> text]
              ELSE [text |-> text]]

\* Slip: the header is left out of the hash.
MessageIdOfBody(msg) == msg.data.body

\* message_id_fn hashes the payload and nothing else.
MessageId(msg) == msg.data

Init ==
    /\ e2ee \in BOOLEAN
    /\ links \in Topologies
    /\ clock = 0
    /\ next = [s \in Nodes \X Targets |-> 0]
    /\ seen = [n \in Nodes |-> {}]
    /\ flying = {}
    /\ events = [n \in Nodes |-> <<>>]
    /\ sends = <<>>
    /\ lost = FALSE

Copies(from, to, msg) == {[from |-> from, to |-> m, msg |-> msg] : m \in to}

\* What gossipsub.publish answers.
Answer(n, msg) ==
    CASE MessageId(msg) \in seen[n] -> "Duplicate"
      [] MessageId(msg) \notin seen[n] /\ Mesh(n, msg.topic) = {} -> "InsufficientPeers"
      [] OTHER -> "Ok"

\* Slip: a message that was refused leaves its key to the next one.
SpendKeyIfSent(n, target, answer) ==
    next' = IF e2ee /\ answer = "Ok" THEN [next EXCEPT ![<<n, target>>] = @ + 1] ELSE next

\* The message is encrypted before it is published: its key is spent whatever
\* gossipsub answers.
SpendKey(n, target, answer) ==
    next' = IF e2ee THEN [next EXCEPT ![<<n, target>>] = @ + 1] ELSE next

\* send_direct_message(target, text), and publish_space_post(text) as the same with
\* the target "SPACE".  Without a session encrypt_message fails and nothing happens.
Send(n, target, text) ==
    /\ Len(sends) < MaxSends
    /\ e2ee => <<n, target>> \in Sessions
    /\ LET msg == [author |-> n, seq |-> Len(sends), topic |-> TopicOf(target),
                   data |-> Payload(n, target, text)]
           answer == Answer(n, msg) IN
        /\ SpendKey(n, target, answer)
        /\ sends' = Append(sends, [msg |-> msg, answer |-> answer])
        /\ IF answer = "Ok"
           THEN /\ seen' = [seen EXCEPT ![n] = @ \cup {MessageId(msg)}]
                /\ flying' = flying \cup Copies(n, Mesh(n, msg.topic), msg)
           ELSE UNCHANGED <<seen, flying>>
    /\ UNCHANGED <<e2ee, links, clock, events, lost>>

\* The DirectMessage or SpacePost made of a message: the peer is the one that
\* passed it on, the sender's zero id is always empty.
handle_gossipsub_message(from, msg) ==
    [kind |-> IF msg.topic = SPACE_TOPIC THEN "SpacePost" ELSE "DirectMessage",
     from_peer |-> from, content |-> msg.data.body, timestamp |-> msg.data.header.timestamp]

\* A copy arrives: unless its id is known it is passed on and handed to the node.
Deliver(c) ==
    /\ c \in flying
    /\ IF MessageId(c.msg) \in seen[c.to]
       THEN flying' = flying \ {c} /\ UNCHANGED <<seen, events>>
       ELSE /\ seen' = [seen EXCEPT ![c.to] = @ \cup {MessageId(c.msg)}]
            /\ flying' = (flying \ {c})
                             \cup Copies(c.to, Mesh(c.to, c.msg.topic) \ {c.from, c.msg.author}, c.msg)
            /\ events' = [events EXCEPT ![c.to] =
                              Append(@, handle_gossipsub_message(c.from, c.msg))]
    /\ UNCHANGED <<e2ee, links, clock, next, sends, lost>>

Lose(c) ==
    /\ flying' = flying \ {c}
    /\ lost' = TRUE
    /\ UNCHANGED <<e2ee, links, clock, next, seen, events, sends>>

Tick ==
    /\ clock < MaxTime
    /\ clock' = clock + 1
    /\ UNCHANGED <<e2ee, links, next, seen, flying, events, sends, lost>>

Next ==
    \/ \E n \in Nodes, target \in Targets, text \in Texts : Send(n, target, text)
    \/ \E c \in flying : Deliver(c) \/ Lose(c)
    \/ Tick

Spec == Init /\ [][Next]_vars

\* An open link hands over what is on it.
FairSpec == Spec /\ WF_vars(\E c \in flying : Deliver(c))

-----------------------------------------------------------------------------
Sent == {i \in 1..Len(sends) : sends[i].answer = "Ok"}

\* Types, and numbers of a session that count the calls made of it.
TypeOK ==
    /\ clock \in 0..MaxTime
    /\ \A s \in Nodes \X Targets :
        next[s] = IF e2ee THEN Cardinality({i \in 1..Len(sends) :
                      sends[i].msg.author = s[1] /\ sends[i].msg.topic = TopicOf(s[2])})
                  ELSE 0
    /\ \A c \in flying : <<c.from, c.to>> \in links /\ \E i \in Sent : sends[i].msg = c.msg

\* No message key encrypts twice, whatever publishes failed and were repeated: a
\* refused message has left the node's hands too.
NoKeyTwice ==
    e2ee => \A i, j \in 1..Len(sends) :
        sends[i].msg.data.body.key = sends[j].msg.data.body.key => i = j

\* The application of a node is never given the same bytes twice, over however many
\* paths they come and however often they are sent.
OncePerBytes ==
    \A n \in Nodes : \A i, j \in 1..Len(events[n]) :
        /\ events[n][i].kind = events[n][j].kind
        /\ events[n][i].content = events[n][j].content
        /\ events[n][i].timestamp = events[n][j].timestamp
        => i = j

\* A direct message comes straight from its author, so that from_peer_id, the only
\* trace of the sender that is left, names the one who wrote it.
DirectFromAuthor ==
    \A n \in Nodes : \A i \in 1..Len(events[n]) : events[n][i].kind = "DirectMessage" =>
        \E j \in Sent : /\ sends[j].msg.topic = DM_TOPIC(n)
                        /\ sends[j].msg.author = events[n][i].from_peer
                        /\ sends[j].msg.data.body = events[n][i].content

\* Under E2EE no message is refused as a duplicate: the same text to two targets, or
\* by two authors, in one millisecond never makes the same bytes.
CiphertextsDiffer == e2ee => \A i \in 1..Len(sends) : sends[i].answer # "Duplicate"

\* Nodes that a message published with Ok has not reached yet, neither itself nor as
\* the same bytes from elsewhere.
Owed ==
    {o \in Nodes \X Sent :
        LET n == o[1]
            msg == sends[o[2]].msg
        IN  /\ n # msg.author
            /\ n \in Mesh(msg.author, msg.topic)
            /\ msg.data \notin {sends[j].msg.data : j \in {k \in Sent : sends[k].msg.author = n}}
            /\ ~\E e \in 1..Len(events[n]) :
                   /\ events[n][e].content = msg.data.body
                   /\ events[n][e].timestamp = msg.data.header.timestamp}

\* Every neighbour a message was published to is given it in the end, unless it has
\* sent the same bytes itself, or a link lost a copy: nothing is sent again.
OkIsHeard == []<>(lost \/ Owed = {})
==============================================================================
