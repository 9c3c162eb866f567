---------------------------- MODULE DoubleRatchet ----------------------------
(***************************************************************************)
(* Two RatchetStates that start from one shared secret and each other's    *)
(* public keys, the way the tests of rust/src/crypto/double_ratchet.rs set *)
(* them up, exchanging messages over a network that loses, repeats and     *)
(* reorders them.  A message stays in "sent" for good, so it may be        *)
(* delivered late, again, or never.                                        *)
(***************************************************************************)
EXTENDS Ratchet, FiniteSets

CONSTANTS
    MaxKeys,      \* bound: DH key pairs generated
    MaxMessages,  \* bound: messages sent
    MaxRecv       \* bound: receiving number reached by replays

ASSUME BoundsAssumption == MaxKeys \in Nat /\ MaxMessages \in Nat /\ MaxRecv \in Nat

VARIABLES
    st,       \* the RatchetState of each party
    sent,     \* every message ever sent
    fresh,    \* the next unused DH key pair
    tried,    \* messages handed to ratchet_decrypt
    opened    \* messages whose plaintext ratchet_decrypt returned

vars == <<st, sent, fresh, tried, opened>>

Parties == {"alice", "bob"}
Peer(p) == IF p = "alice" THEN "bob" ELSE "alice"

Init ==
    /\ st = [p \in Parties |-> IF p = "alice" THEN InitialState("ss", 1, 0)
                                              ELSE InitialState("ss", 0, 1)]
    /\ sent = {}
    /\ fresh = 2
    /\ tried = {}
    /\ opened = {}

\* Whether the call draws a new key pair decides how far "fresh" moves.
Drawn(ratchets) == IF ratchets THEN fresh + 1 ELSE fresh

Encrypt(p) ==
    LET r == ratchet_encrypt(st[p], fresh) IN
    /\ Cardinality(sent) < MaxMessages
    /\ fresh < MaxKeys
    /\ st' = [st EXCEPT ![p] = r.state]
    /\ sent' = sent \cup {[from |-> p, header |-> r.header, key |-> r.key,
                           body |-> Cardinality(sent)]}
    /\ fresh' = Drawn(NeedsSendRatchet(st[p]))
    /\ UNCHANGED <<tried, opened>>

Decrypt(p, m) ==
    LET r == ratchet_decrypt(st[p], m.header, fresh) IN
    /\ m.from = Peer(p)
    /\ fresh < MaxKeys
    /\ st[p].recv_n < MaxRecv
    /\ st' = [st EXCEPT ![p] = r.state]
    /\ fresh' = Drawn(NeedsRecvRatchet(st[p], m.header))
    /\ tried' = tried \cup {m}
    /\ opened' = IF r.key = m.key THEN opened \cup {m} ELSE opened
    /\ UNCHANGED sent

Next == \E p \in Parties : Encrypt(p) \/ \E m \in sent : Decrypt(p, m)

Spec == Init /\ [][Next]_vars

\* The schedule of test_double_ratchet_full_cycle: each message is decrypted once,
\* right after it was encrypted.
NextInTurn ==
    \E p \in Parties :
        \/ sent = tried /\ Encrypt(p)
        \/ \E m \in sent \ tried : Decrypt(p, m)

SpecInTurn == Init /\ [][NextInTurn]_vars

-----------------------------------------------------------------------------
Secrets == {"ss", "none"}
Messages == [from : Parties, header : RatchetHeaders, key : ChainKeys(Secrets), body : Nat]

\* Every record has its fields, and every key pair in use has been generated.
TypeOK ==
    /\ fresh \in Nat
    /\ st \in [Parties -> RatchetStates(Secrets)]
    /\ sent \subseteq Messages
    /\ tried \subseteq sent /\ opened \subseteq tried
    /\ \A p \in Parties : st[p].dh < fresh /\ st[p].remote < fresh
    /\ \A m \in sent : m.header.dh < fresh

\* No two messages, of either party and of whatever chains, are encrypted under
\* the same message key and nonce: the key of one message opens no other, however
\* sends, receive ratchets, replays of old headers and chain limits interleave.
NoKeyReuse == \A m1, m2 \in sent : m1.key = m2.key => m1 = m2

\* What the receiver relies on: the number in the header is the position of the
\* message key in its chain, and the numbers sent under one public key are gap
\* free from 0, also across the resets dh_ratchet_recv makes on the sending side.
HeaderLocatesKey ==
    \A m \in sent :
        /\ m.key.step = m.header.n
        /\ \A k \in 0 .. m.header.n :
               \E m2 \in sent : m2.header.dh = m.header.dh /\ m2.header.n = k

\* The receiving chain and recv_message_number move together, so that skipping to
\* a header's number lands on that number's key even after a replay has been
\* pushed through try_skipped_message_keys.
RecvInStep ==
    \A p \in Parties : ~ IsNone(st[p].recv) => st[p].recv.step = st[p].recv_n

\* Forward secrecy of the state: a step only ever mixes more into a root key and,
\* while the root stays, only advances the chains.  No earlier message key can be
\* derived again, also when a message with an old public key is replayed.
Extends(long, short) ==
    /\ long.secret = short.secret
    /\ Len(long.mixed) >= Len(short.mixed)
    /\ SubSeq(long.mixed, 1, Len(short.mixed)) = short.mixed

ForwardOnly ==
    [][\A p \in Parties :
        /\ Extends(st'[p].root, st[p].root)
        /\ st'[p].root = st[p].root =>
              /\ st'[p].send.step >= st[p].send.step
              /\ st'[p].recv.step >= st[p].recv.step]_vars

-----------------------------------------------------------------------------
(* The strengthening that makes NoKeyReuse inductive. *)

LastMixed(root) == root.mixed[Len(root.mixed)]

\* The chain was cut from a root whose last DH output is that of key pair d and an
\* older key, and d is therefore the larger number in it.
CutWith(ck, d) ==
    /\ ck.half = "first"
    /\ \E r \in 0 .. d - 1 : LastMixed(ck.root) = {d, r}

\* A sending chain belongs to the current key pair and stands at the next number.
SendChainInv ==
    /\ st["alice"].dh # st["bob"].dh
    /\ \A p \in Parties : ~ IsNone(st[p].send) =>
           CutWith(st[p].send, st[p].dh) /\ st[p].send.step = st[p].send_n

\* Every message was sealed at its number in a chain of the key pair it names; the
\* pair (public key, number) identifies it; under a key pair still in use only
\* numbers below the next one have been sent.
SentInv ==
    /\ IsFiniteSet(sent)
    /\ \A m \in sent : CutWith(m.key, m.header.dh) /\ m.key.step = m.header.n
    /\ \A m1, m2 \in sent :
           m1.header.dh = m2.header.dh /\ m1.header.n = m2.header.n => m1 = m2
    /\ \A m \in sent : \A p \in Parties : m.header.dh = st[p].dh =>
           ~ IsNone(st[p].send) /\ m.header.n < st[p].send_n

IndInv == TypeOK /\ SendChainInv /\ SentInv

\* test_double_ratchet_full_cycle: "ratchet_decrypt(&mut bob, &msg).unwrap()" for
\* every message in turn.
TriedMeansOpened == tried = opened

=============================================================================
