------------------------------- MODULE Ratchet -------------------------------
(***************************************************************************)
(* The functions of rust/src/crypto/double_ratchet.rs, from one            *)
(* RatchetState to the next, over symbolic keys.                           *)
(*                                                                         *)
(*  - A Diffie-Hellman key pair is a number; its public and secret halves  *)
(*    are not told apart, and the output of DH(a, B) is the set {a, b}.    *)
(*  - A root key is the shared secret it started from and the sequence of  *)
(*    DH outputs mixed into it: HKDF is injective.                         *)
(*  - A chain key is the root key it was cut from, the half of the HKDF    *)
(*    output it is, and the number of kdf_ck steps taken since.            *)
(*  - A message key (with its nonce) is the chain key kdf_ck was given, and *)
(*    an AEAD ciphertext opens under exactly the key that sealed it.       *)
(*                                                                         *)
(* Every StaticSecret::random() of the code is the parameter "fresh".      *)
(***************************************************************************)
EXTENDS Naturals, Sequences

CONSTANTS
    SendChainLimit   \* messages on one sending chain before a new DH key (100)

ASSUME SendChainLimitAssumption == SendChainLimit \in Nat \ {0}

DH(a, b) == {a, b}

RootOf(secret) == [secret |-> secret, mixed |-> <<>>]

kdf_rk(root, dh) == [secret |-> root.secret, mixed |-> Append(root.mixed, dh)]

\* derive_initial_chain_keys: send_key is the first half, recv_key the second.
SendHalf(root) == [root |-> root, half |-> "first", step |-> 0]
RecvHalf(root) == [root |-> root, half |-> "second", step |-> 0]

\* kdf_ck: the chain key names the message key; this is the next chain key.
kdf_ck(ck) == [root |-> ck.root, half |-> ck.half, step |-> ck.step + 1]

\* An Option<ChainKey> that is None.
NoChain == [root |-> RootOf("none"), half |-> "none", step |-> 0]
IsNone(ck) == ck.half = "none"

\* RatchetState and RatchetHeader, for a given set of shared secrets.
RootKeys(Secrets) == [secret : Secrets, mixed : Seq(SUBSET Nat)]
ChainKeys(Secrets) ==
    [root : RootKeys(Secrets), half : {"none", "first", "second"}, step : Nat]
RatchetStates(Secrets) ==
    [dh : Nat, root : RootKeys(Secrets), send : ChainKeys(Secrets), recv : ChainKeys(Secrets),
     send_n : Nat, recv_n : Nat, prev_n : Nat, remote : Nat,
     skipped : SUBSET [dh : Nat, n : Nat, key : ChainKeys(Secrets)]]
RatchetHeaders == [dh : Nat, pn : Nat, n : Nat]

\* alice_initial and bob_initial build the same record from the own key pair, the
\* peer's public key and the shared secret.
InitialState(secret, own, remote) ==
    [dh |-> own, root |-> kdf_rk(RootOf(secret), DH(own, remote)),
     send |-> NoChain, recv |-> NoChain,
     send_n |-> 0, recv_n |-> 0, prev_n |-> 0,
     remote |-> remote, skipped |-> {}]

-----------------------------------------------------------------------------
(* Sending *)

dh_ratchet_send(s, fresh) ==
    LET root == kdf_rk(s.root, DH(fresh, s.remote)) IN
    [s EXCEPT !.prev_n = s.send_n, !.send_n = 0,
              !.root = root, !.send = SendHalf(root), !.dh = fresh]

NeedsSendRatchet(s) == IsNone(s.send) \/ s.send_n >= SendChainLimit

BeforeEncrypt(s, fresh) == IF NeedsSendRatchet(s) THEN dh_ratchet_send(s, fresh) ELSE s

\* Slip: the sending chain key is used but not replaced.
ratchet_encrypt_keeps_chain(s, fresh) ==
    LET t == BeforeEncrypt(s, fresh) IN
    [state |-> [t EXCEPT !.send_n = @ + 1],
     header |-> [dh |-> t.dh, pn |-> t.prev_n, n |-> t.send_n],
     key |-> t.send]

ratchet_encrypt(s, fresh) ==
    LET t == BeforeEncrypt(s, fresh) IN
    [state |-> [t EXCEPT !.send = kdf_ck(t.send), !.send_n = @ + 1],
     header |-> [dh |-> t.dh, pn |-> t.prev_n, n |-> t.send_n],
     key |-> t.send]

-----------------------------------------------------------------------------
(* Receiving *)

NeedsRecvRatchet(s, header) == header.dh # s.remote

\* Slip: the reply chain keeps counting where the old sending chain stopped.
dh_ratchet_recv_keeps_count(s, header, fresh) ==
    LET root1 == kdf_rk(s.root, DH(s.dh, header.dh))
        root2 == kdf_rk(root1, DH(fresh, header.dh)) IN
    [s EXCEPT !.prev_n = 0, !.recv_n = 0,
              !.root = root2, !.send = SendHalf(root2), !.recv = RecvHalf(root2),
              !.dh = fresh, !.remote = header.dh]

dh_ratchet_recv(s, header, fresh) ==
    LET root1 == kdf_rk(s.root, DH(s.dh, header.dh))
        root2 == kdf_rk(root1, DH(fresh, header.dh)) IN
    [s EXCEPT !.prev_n = 0, !.send_n = 0, !.recv_n = 0,
              !.root = root2, !.send = SendHalf(root2), !.recv = RecvHalf(root2),
              !.dh = fresh, !.remote = header.dh]

\* Advance the receiving chain to number n and on past it, dropping the message
\* keys in between; the key tried is the one at n.
TakeKeyAt(s, n) ==
    LET at == [s.recv EXCEPT !.step = @ + (n - s.recv_n)] IN
    [state |-> [s EXCEPT !.recv = kdf_ck(at), !.recv_n = n + 1], key |-> at]

\* Slip: an old number winds the chain back.
try_skipped_rewinds(s, header) == TakeKeyAt(s, header.n)

\* try_skipped_message_keys, called with recv_n above the header's number: a
\* stored key is removed and used; without one the loop that would store keys
\* does not run and the current chain key is tried and spent.
try_skipped_message_keys(s, header) ==
    LET stored == {e \in s.skipped : e.dh = header.dh /\ e.n = header.n} IN
    IF stored # {}
    THEN [state |-> [s EXCEPT !.skipped = @ \ stored],
          key |-> (CHOOSE e \in stored : TRUE).key]
    ELSE TakeKeyAt(s, s.recv_n)

\* ratchet_decrypt: the state after the call and the key the ciphertext was tried
\* with.  The state moves whether or not the ciphertext opens.
ratchet_decrypt(s, header, fresh) ==
    LET t == IF NeedsRecvRatchet(s, header) THEN dh_ratchet_recv(s, header, fresh) ELSE s IN
    IF IsNone(t.recv) THEN [state |-> t, key |-> NoChain]
    ELSE IF t.recv_n > header.n THEN try_skipped_message_keys(t, header)
    ELSE TakeKeyAt(t, header.n)

=============================================================================
