----------------------------- MODULE OnionCircuits -----------------------------
(***************************************************************************)
(* Onion circuits: OnionRoutingService and the OnionChatService on top of  *)
(* it (lib/services/onion), both singletons that share circuit objects.    *)
(* The service lists its circuits; the chat and the console keep           *)
(* references to them, which outlive the listing.  All nodes have the same *)
(* latency, so that sorting may leave them in any order.                   *)
(***************************************************************************)
EXTENDS Naturals, Sequences, FiniteSets

CONSTANTS
    Regions,
    HopCount,        \* hops of a circuit that is asked for
    Lifetime,        \* the ten minutes of a circuit, in ticks
    MaxNodes, MaxCircuits, MaxTime   \* bounds of a behaviour

OnionCircuitsAssumption ==
    /\ IsFiniteSet(Regions) /\ HopCount \in Nat \ {0} /\ Lifetime \in Nat
    /\ MaxNodes \in Nat /\ MaxCircuits \in Nat /\ MaxTime \in Nat

VARIABLES
    _nodes,          \* the regions of the registered nodes
    heap,            \* every circuit object ever made
    _circuits,       \* the objects the service lists
    _activeCircuit,  \* the object the chat uses; 0 for none
    sent,            \* how the last sendMessage of the chat ended
    now,
    refreshed        \* refreshCircuit of the service, which nothing in the app calls,
                     \* has been called

vars == <<_nodes, heap, _circuits, _activeCircuit, sent, now, refreshed>>

NullObject == 0
Room == Len(heap) < MaxCircuits

\* What removeWhere leaves of a list: its members of K, in their order.
Kept(listed, K) ==
    LET kept[i \in 0..Len(listed)] ==
            IF i = 0 THEN <<>>
            ELSE IF listed[i] \in K THEN Append(kept[i - 1], listed[i]) ELSE kept[i - 1]
    IN  kept[Len(listed)]

\* The alive objects of a list, and those of another id.
Alive(h, listed) == Kept(listed, {c \in DOMAIN h : h[c].isAlive})
Others(h, listed, id) == Kept(listed, {c \in DOMAIN h : h[c].circuitId # id})

\* What the loop over the candidates may select: as many nodes as hops, no two of them
\* in one region.  Without enough nodes or regions there is no circuit.
Selections ==
    {s \in SUBSET DOMAIN _nodes :
        Cardinality(s) = HopCount /\ \A a, b \in s : _nodes[a] = _nodes[b] => a = b}

\* The object a build makes; its id is a random one.
Circuit(id, hops) ==
    [circuitId |-> id, hops |-> hops, expiresAt |-> now + Lifetime, isAlive |-> TRUE]

\* The results of buildCircuit on the objects h and the list: the new objects, the new
\* list and the object, or none.
Builds(h, listed) ==
    IF Selections = {} THEN {[heap |-> h, listed |-> listed, circuit |-> NullObject]}
    ELSE {[heap |-> Append(h, Circuit(Len(h) + 1, s)), listed |-> Append(listed, Len(h) + 1),
           circuit |-> Len(h) + 1] : s \in Selections}

\* Slip: a destroyed circuit is only taken off the list.
Destroyed_unmarked(h, listed, id) == h

\* destroyCircuit marks what it takes off the list.
Destroyed(h, listed, id) ==
    [c \in DOMAIN h |-> IF h[c].circuitId = id /\ c \in {listed[i] : i \in DOMAIN listed}
                        THEN [h[c] EXCEPT !.isAlive = FALSE] ELSE h[c]]

\* The first half of expireStaleCircuits; the second takes what is dead off the list.
Expired(h, listed) ==
    [c \in DOMAIN h |-> IF c \in {listed[i] : i \in DOMAIN listed} /\ now > h[c].expiresAt
                        THEN [h[c] EXCEPT !.isAlive = FALSE] ELSE h[c]]

Init ==
    /\ _nodes = <<>> /\ heap = <<>> /\ _circuits = <<>> /\ _activeCircuit = NullObject
    /\ sent = "nothing" /\ now = 0 /\ refreshed = FALSE

addCustomNode ==
    /\ Len(_nodes) < MaxNodes
    /\ \E r \in Regions : _nodes' = Append(_nodes, r)
    /\ UNCHANGED <<heap, _circuits, _activeCircuit, sent, now, refreshed>>

\* The console's button.
buildCircuit ==
    /\ Room
    /\ \E b \in Builds(heap, _circuits) : heap' = b.heap /\ _circuits' = b.listed
    /\ UNCHANGED <<_nodes, _activeCircuit, sent, now, refreshed>>

destroyCircuit ==
    /\ \E c \in DOMAIN heap :
          LET id == heap[c].circuitId IN
          /\ heap' = Destroyed(heap, _circuits, id)
          /\ _circuits' = Others(heap, _circuits, id)
    /\ UNCHANGED <<_nodes, _activeCircuit, sent, now, refreshed>>

Without(listed, c) == Kept(listed, DOMAIN heap \ {c})

\* refreshCircuit of the service: the old object leaves the list as it is, buildCircuit
\* lists a new one, and a copy of that is listed under the old id.
refreshCircuit ==
    /\ Len(heap) + 2 <= MaxCircuits
    /\ \E i \in DOMAIN _circuits :
          LET old == _circuits[i] IN
          \E b \in Builds(heap, Without(_circuits, old)) :
             IF b.circuit = NullObject
             THEN heap' = b.heap /\ _circuits' = b.listed
             ELSE /\ heap' = Append(b.heap, Circuit(heap[old].circuitId, b.heap[b.circuit].hops))
                  /\ _circuits' = Append(b.listed, Len(heap) + 2)
    /\ refreshed' = TRUE
    /\ UNCHANGED <<_nodes, _activeCircuit, sent, now>>

-----------------------------------------------------------------------------
\* The results of _ensureCircuit: the first circuit still alive, or a new one.
Ensured ==
    LET h == Expired(heap, _circuits)
        listed == Alive(h, _circuits) IN
    IF listed # <<>> THEN {[heap |-> h, listed |-> listed, circuit |-> listed[1]]}
    ELSE {[b EXCEPT !.circuit = IF @ = NullObject THEN _activeCircuit ELSE @] :
             b \in Builds(h, listed)}

Becomes(b) == heap' = b.heap /\ _circuits' = b.listed /\ _activeCircuit' = b.circuit

\* The chat's own refreshCircuit: its circuit is destroyed before there is another.
chat_refreshCircuit ==
    /\ Room
    /\ LET h == Expired(heap, _circuits)
           listed == Alive(h, _circuits)
           old == _activeCircuit
           destroys == old # NullObject /\ (old # NullObject => h[old].isAlive)
           id == h[old].circuitId IN
       \E b \in IF destroys
                THEN Builds(Destroyed(h, listed, id), Others(h, listed, id))
                ELSE Builds(h, listed) :
          Becomes([b EXCEPT !.circuit = IF @ = NullObject THEN old ELSE @])
    /\ UNCHANGED <<_nodes, sent, now, refreshed>>

\* buildOnionLayers and routeMessage on a circuit: the layer of each hop but the exit
\* names the hop after it in the reversed list, and the last one has none.
routeMessage(circuit) ==
    IF Cardinality(circuit.hops) > 1 THEN "range error" ELSE "delivered"

\* sendMessage makes sure of a circuit unless its own is marked alive, expired or not.
\* Without any, it asks for one once more for its answer and relies on getting it.
sendMessage ==
    /\ Room
    /\ LET usable == _activeCircuit # NullObject /\ heap[_activeCircuit].isAlive IN
       \E b \in IF usable THEN {[heap |-> heap, listed |-> _circuits, circuit |-> _activeCircuit]}
                ELSE Ensured :
          /\ Becomes(b)
          /\ sent' = IF b.circuit = NullObject THEN "null error"
                     ELSE IF ~b.heap[b.circuit].isAlive THEN "no circuit"
                     ELSE routeMessage(b.heap[b.circuit])
    /\ UNCHANGED <<_nodes, now, refreshed>>

Tick == now < MaxTime /\ now' = now + 1
        /\ UNCHANGED <<_nodes, heap, _circuits, _activeCircuit, sent, refreshed>>

Next ==
    \/ addCustomNode \/ buildCircuit \/ destroyCircuit \/ refreshCircuit
    \/ chat_refreshCircuit \/ sendMessage \/ Tick

Spec == Init /\ [][Next]_vars

-----------------------------------------------------------------------------
\* No two hops of a listed circuit are in one region, however the circuit came to be
\* listed (onion_routing_service.dart:199-220, 409-427).
RegionsDiffer ==
    \A i \in DOMAIN _circuits : \A a, b \in heap[_circuits[i]].hops :
        a # b => _nodes[a] # _nodes[b]

\* A circuit id is listed once: a refresh, which gives an id to a new object, leaves
\* no other object with it (onion_routing_service.dart:398-427).
IdsListedOnce ==
    \A i, j \in DOMAIN _circuits :
        heap[_circuits[i]].circuitId = heap[_circuits[j]].circuitId => i = j

\* A circuit that the chat takes for alive is still listed by the service, so that it
\* can expire and be destroyed, whatever the console does meanwhile.  It takes that
\* nothing calls the service's own refreshCircuit, which forgets the object it replaces
\* (onion_chat_service.dart:34-83 against onion_routing_service.dart:398-438).
ActiveIsListed ==
    ~refreshed /\ _activeCircuit # NullObject /\ heap[_activeCircuit].isAlive =>
        \E i \in DOMAIN _circuits : _circuits[i] = _activeCircuit

\* Claimed by the console (onion_circuit_panel.dart:166): messages are wrapped in a
\* layer for every hop.  Building the layers of two or more hops fails.
LayersCanBeBuilt == sent # "range error"

=============================================================================
