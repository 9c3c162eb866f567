---------------------------- MODULE E2EESessions ----------------------------
(***************************************************************************)
(* The E2EESessionManagers of several peers (rust/src/crypto/session.rs):  *)
(* X3DH key agreement (rust/src/crypto/x3dh.rs), one ratchet per peer, and *)
(* ZeroCore::initialize (rust/src/ffi.rs), which replaces the whole        *)
(* manager.  Initiations and messages stay on the wire for good: they may  *)
(* arrive late, repeatedly, or never.                                      *)
(***************************************************************************)
EXTENDS Ratchet, FiniteSets

CONSTANTS
    N,            \* number of peers
    MaxKeys,      \* bound: key pairs generated
    MaxInits,     \* bound: session initiations
    MaxMessages,  \* bound: messages sent
    MaxRecv       \* bound: receiving number reached by replays

SessionAssumption ==
    /\ N \in Nat \ {0}
    /\ {MaxKeys, MaxInits, MaxMessages, MaxRecv} \subseteq Nat
    /\ 3 * N <= MaxKeys  \* the first bundles

Peers == 0 .. N - 1

VARIABLES
    bundle,    \* X3DHKeyBundle of each peer: identity, signed and first one-time key
    pending,   \* pending_pre_keys of each peer, by key id
    sessions,  \* sessions[p][q] : {} or {RatchetState} of p for peer q
    inits,     \* SessionInitiations on the wire
    sent,      \* messages on the wire
    fresh,     \* the next unused key pair
    owner,     \* which peer generated each key pair
    derived    \* shared secrets returned by initiate_session and accept_session

vars == <<bundle, pending, sessions, inits, sent, fresh, owner, derived>>

-----------------------------------------------------------------------------
(* X3DH.  An Option<key> is {} or {key}. *)

Secret(k) == [key |-> k, form |-> "secret"]
Public(k) == [key |-> k, form |-> "public"]

\* The input of HKDF: DH1, DH2, DH3 and, with a one-time key, DH4; and its salt,
\* the associated data.
SharedSecret(dhs, salt) == [dhs |-> dhs, salt |-> salt]

\* The sender's associated data is its own SECRET identity key and public keys.
x3dh_send(ik_a, ek_a, ik_b, spk_b, opk_b) ==
    SharedSecret(
        <<DH(ik_a, spk_b), DH(ek_a, ik_b), DH(ek_a, spk_b), {DH(ek_a, k) : k \in opk_b}>>,
        <<Secret(ik_a), Public(ik_b), {Public(k) : k \in opk_b}>>)

\* The receiver's has the sender's public key and its own SECRET keys.
x3dh_recv(ik_b, spk_b, ik_a, ek_a, opk_b) ==
    SharedSecret(
        <<DH(spk_b, ik_a), DH(ik_b, ek_a), DH(spk_b, ek_a), {DH(k, ek_a) : k \in opk_b}>>,
        <<Public(ik_a), Secret(ik_b), {Secret(k) : k \in opk_b}>>)

-----------------------------------------------------------------------------
\* E2EESessionManager::new: the identity key comes from the seed, the pre-keys are
\* random.  Of the ten one-time keys only the first is ever handed out.
Init ==
    /\ bundle = [p \in Peers |-> [ik |-> p, spk |-> N + p, opk |-> 2 * N + p]]
    /\ pending = [p \in Peers |-> {2 * N + p}]
    /\ sessions = [p \in Peers |-> [q \in Peers |-> {}]]
    /\ inits = {}
    /\ sent = {}
    /\ fresh = 3 * N
    /\ owner = [k \in 0 .. 3 * N - 1 |-> k % N]
    /\ derived = {}

\* Peer p generates the next n key pairs.
Generate(p, n) ==
    /\ fresh + n <= MaxKeys
    /\ fresh' = fresh + n
    /\ owner' = [k \in 0 .. fresh + n - 1 |-> IF k < fresh THEN owner[k] ELSE p]

\* initiate_session draws the ephemeral key, a stand-in for the peer's ratchet key
\* and, in alice_initial, its own ratchet key.  It names no one-time key.
initiate_session(p, q, opk) ==
    LET ek == fresh
        bob_dh == fresh + 1
        own == fresh + 2
        secret == x3dh_send(bundle[p].ik, ek, bundle[q].ik, bundle[q].spk, opk) IN
    /\ Cardinality(inits) < MaxInits
    /\ Generate(p, 3)
    /\ sessions' = [sessions EXCEPT ![p][q] = {InitialState(secret, own, bob_dh)}]
    /\ inits' = inits \cup {[from |-> p, to |-> q, ek |-> ek, opk_id |-> {}]}
    /\ derived' = derived \cup {[ek |-> ek, secret |-> secret]}
    /\ UNCHANGED <<bundle, pending, sent>>

\* Slip: own and remote ratchet key are swapped.
accept_swaps_keys(i) ==
    LET p == i.to
        opk == i.opk_id \cap pending[p]
        secret == x3dh_recv(bundle[p].ik, bundle[p].spk, bundle[i.from].ik, i.ek, opk) IN
    /\ Generate(p, 1)
    /\ pending' = [pending EXCEPT ![p] = @ \ opk]
    /\ sessions' = [sessions EXCEPT ![p][i.from] = {InitialState(secret, i.ek, fresh)}]
    /\ derived' = derived \cup {[ek |-> i.ek, secret |-> secret]}
    /\ UNCHANGED <<bundle, inits, sent>>

\* accept_session takes the named one-time key, if any, and starts a session with
\* a new ratchet key against the initiation's ephemeral key.  An existing session
\* with that peer is replaced.
accept_session(i) ==
    LET p == i.to
        opk == i.opk_id \cap pending[p]
        secret == x3dh_recv(bundle[p].ik, bundle[p].spk, bundle[i.from].ik, i.ek, opk) IN
    /\ Generate(p, 1)
    /\ pending' = [pending EXCEPT ![p] = @ \ opk]
    /\ sessions' = [sessions EXCEPT ![p][i.from] = {InitialState(secret, fresh, i.ek)}]
    /\ derived' = derived \cup {[ek |-> i.ek, secret |-> secret]}
    /\ UNCHANGED <<bundle, inits, sent>>

\* encrypt_message; without a session for q it fails and changes nothing.
encrypt_message(p, q) ==
    \E s \in sessions[p][q] :
        LET r == ratchet_encrypt(s, fresh) IN
        /\ Cardinality(sent) < MaxMessages
        /\ Generate(p, IF NeedsSendRatchet(s) THEN 1 ELSE 0)
        /\ sessions' = [sessions EXCEPT ![p][q] = {r.state}]
        /\ sent' = sent \cup {[from |-> p, to |-> q, header |-> r.header, key |-> r.key,
                               body |-> Cardinality(sent)]}
        /\ UNCHANGED <<bundle, pending, inits, derived>>

\* decrypt_message; the ratchet has moved whether or not the message opens.
decrypt_message(m) ==
    \E s \in sessions[m.to][m.from] :
        /\ s.recv_n < MaxRecv
        /\ Generate(m.to, IF NeedsRecvRatchet(s, m.header) THEN 1 ELSE 0)
        /\ sessions' = [sessions EXCEPT ![m.to][m.from] =
                           {ratchet_decrypt(s, m.header, fresh).state}]
        /\ UNCHANGED <<bundle, pending, inits, sent, derived>>

\* ZeroCore::initialize with the same mnemonic: the manager is replaced, every
\* session is gone, the identity key is the same and the pre-keys are new.
initialize(p) ==
    /\ Generate(p, 2)
    /\ bundle' = [bundle EXCEPT ![p].spk = fresh, ![p].opk = fresh + 1]
    /\ pending' = [pending EXCEPT ![p] = {fresh + 1}]
    /\ sessions' = [sessions EXCEPT ![p] = [q \in Peers |-> {}]]
    /\ UNCHANGED <<inits, sent, derived>>

Next ==
    \/ \E p, q \in Peers : p # q /\ \E opk \in {{}, {bundle[q].opk}} : initiate_session(p, q, opk)
    \/ \E i \in inits : accept_session(i)
    \/ \E p, q \in Peers : encrypt_message(p, q)
    \/ \E m \in sent : decrypt_message(m)
    \/ \E p \in Peers : initialize(p)

Spec == Init /\ [][Next]_vars

-----------------------------------------------------------------------------
\* Keys in use have been generated; a peer holds at most one session per peer and
\* none with itself.
TypeOK ==
    /\ fresh \in 3 * N .. MaxKeys
    /\ owner \in [0 .. fresh - 1 -> Peers]
    /\ \A p, q \in Peers :
        /\ Cardinality(sessions[p][q]) <= IF p = q THEN 0 ELSE 1
        /\ \A s \in sessions[p][q] : s.dh \in DOMAIN owner /\ s.remote \in DOMAIN owner

\* Across all peers, all sessions, sessions replaced by a second initiation or a
\* repeated acceptance, and managers rebuilt by initialize, no two messages are
\* encrypted under the same message key.
NoKeyReuse == \A m1, m2 \in sent : m1.key = m2.key => m1 = m2

\* Each side's ratchet key is its own, and a session that has received under a
\* ratchet key, or was accepted, holds a key the peer generated: never its own and
\* never a third peer's.  (An initiator that has received nothing still holds the
\* stand-in key it drew itself.)
KeysHaveTheRightOwner ==
    \A p, q \in Peers : \A s \in sessions[p][q] :
        /\ owner[s.dh] = p
        /\ owner[s.remote] = q \/ (owner[s.remote] = p /\ IsNone(s.recv))

\* test_x3dh_key_exchange: "assert_eq!(send_result.shared_secret,
\* recv_result.shared_secret)".
SecretsAgree ==
    \A d1, d2 \in derived : d1.ek = d2.ek => d1.secret = d2.secret

\* What the app says of one-time pre-keys, zero_ai_service.dart:152: they keep an
\* exchange from being replayed.  No two exchanges then use the same one;
\* get_one_time_key hands out the first, and nothing ever removes it.
OneTimeKeys(d) == (UNION d.secret.dhs[4]) \ {d.ek}
OneTimeKeysServeOnce ==
    \A d1, d2 \in derived : d1.ek # d2.ek => OneTimeKeys(d1) \cap OneTimeKeys(d2) = {}

=============================================================================
