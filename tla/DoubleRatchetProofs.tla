------------------------ MODULE DoubleRatchetProofs ------------------------
(***************************************************************************)
(* No message key of the double ratchet is used for two messages, its      *)
(* numbers stay in step with its chains and its states move forward, for   *)
(* any chain limit and any number of key pairs, messages, losses, replays  *)
(* and reorderings.  The second part says the same of the keys of all the  *)
(* sessions of any number of session managers, and whose keys they are.    *)
(*                                                                         *)
(* The argument: every sending chain is cut from a root key whose last DH  *)
(* output mixes a key pair drawn for that chain with an older public key.  *)
(* The newer of the two names the chain, the header carries it, and the    *)
(* message number is the position in the chain; so equal message keys mean *)
(* equal (public key, number) pairs, and those are never repeated.         *)
(***************************************************************************)
EXTENDS MCRatchets, FiniteSetTheorems, TLAPS

\* kdf_rk appends one DH output, which is then the last one mixed in.
LEMMA KdfRkFacts ==
    ASSUME NEW K, NEW root \in RootKeys(K), NEW d \in SUBSET Nat
    PROVE  kdf_rk(root, d) \in RootKeys(K) /\ LastMixed(kdf_rk(root, d)) = d
  <1>1. root.mixed \in Seq(SUBSET Nat) /\ root.secret \in K
    BY DEF RootKeys
  <1>2. Append(root.mixed, d) \in Seq(SUBSET Nat)
    BY <1>1
  <1>3. Append(root.mixed, d)[Len(Append(root.mixed, d))] = d
    BY <1>1
  <1> QED BY <1>1, <1>2, <1>3 DEF RootKeys, kdf_rk, LastMixed

\* A root key that more was mixed into is another one, and extends the old.
LEMMA KdfRkExtends ==
    ASSUME NEW K, NEW root \in RootKeys(K), NEW d \in SUBSET Nat, NEW e \in SUBSET Nat
    PROVE  /\ Extends(kdf_rk(root, d), root) /\ kdf_rk(root, d) # root
           /\ Extends(kdf_rk(kdf_rk(root, d), e), root) /\ kdf_rk(kdf_rk(root, d), e) # root
  <1> DEFINE q == root.mixed
             once == Append(q, d)
             twice == Append(once, e)
  <1>1. q \in Seq(SUBSET Nat)
    BY DEF RootKeys
  <1>2. /\ once \in Seq(SUBSET Nat) /\ Len(q) \in Nat /\ Len(once) = Len(q) + 1
        /\ \A i \in 1..Len(q) : once[i] = q[i]
    BY <1>1
  <1>3. SubSeq(once, 1, Len(q)) = q
    BY <1>1, <1>2
  <1> HIDE DEF once
  <1>4. /\ twice \in Seq(SUBSET Nat) /\ Len(twice) = Len(q) + 2
        /\ \A i \in 1..Len(q) : twice[i] = q[i]
    BY <1>2
  <1> HIDE DEF twice
  <1>5. SubSeq(twice, 1, Len(q)) = q
    BY <1>1, <1>2, <1>4
  <1>6. /\ kdf_rk(root, d).mixed = once /\ kdf_rk(root, d).secret = root.secret
        /\ kdf_rk(kdf_rk(root, d), e).mixed = twice /\ kdf_rk(kdf_rk(root, d), e).secret = root.secret
    BY DEF kdf_rk, once, twice
  <1>7. Extends(kdf_rk(root, d), root)
    BY <1>2, <1>3, <1>6 DEF Extends
  <1>8. Extends(kdf_rk(kdf_rk(root, d), e), root)
    BY <1>2, <1>4, <1>5, <1>6 DEF Extends
  <1>9. once # q /\ twice # q
    BY <1>2, <1>4
  <1> QED BY <1>6, <1>7, <1>8, <1>9

\* The step from one record to another is allowed by ForwardOnly.
Forward(t, s) ==
    /\ Extends(t.root, s.root)
    /\ t.root = s.root => t.send.step >= s.send.step /\ t.recv.step >= s.recv.step

\* The receiving chain stands where the number says.
InStep(s) == ~ IsNone(s.recv) => s.recv.step = s.recv_n

LEMMA StaysForward == ASSUME NEW K, NEW s \in RatchetStates(K) PROVE Forward(s, s)
  <1>1. /\ s.root.mixed \in Seq(SUBSET Nat)
        /\ s.send.step \in Nat /\ s.recv.step \in Nat
    BY DEF RatchetStates, RootKeys, ChainKeys
  <1>2. SubSeq(s.root.mixed, 1, Len(s.root.mixed)) = s.root.mixed
    BY <1>1
  <1> QED BY <1>1, <1>2 DEF Forward, Extends

\* The initial records are RatchetStates.
LEMMA InitialStateType ==
    ASSUME NEW K, NEW secret \in K, "none" \in K, NEW own \in Nat, NEW remote \in Nat
    PROVE  /\ InitialState(secret, own, remote) \in RatchetStates(K)
           /\ InitialState(secret, own, remote).dh = own
           /\ InitialState(secret, own, remote).remote = remote
           /\ IsNone(InitialState(secret, own, remote).send)
           /\ IsNone(InitialState(secret, own, remote).recv)
  BY DEF InitialState, RatchetStates, ChainKeys, RootKeys, NoChain, IsNone, RootOf, kdf_rk,
         DH

\* dh_ratchet_send cuts a sending chain named by the key pair it draws.
LEMMA SendRatchetFacts ==
    ASSUME NEW K, NEW s \in RatchetStates(K), NEW f \in Nat, s.remote < f
    PROVE  LET t == dh_ratchet_send(s, f) IN
           /\ t \in RatchetStates(K)
           /\ t.dh = f /\ t.remote = s.remote /\ t.send_n = 0
           /\ CutWith(t.send, f) /\ t.send.step = 0
           /\ t.recv = s.recv /\ t.recv_n = s.recv_n
           /\ Extends(t.root, s.root) /\ t.root # s.root
  <1> DEFINE root == kdf_rk(s.root, DH(f, s.remote))
  <1>1. s.root \in RootKeys(K) /\ s.remote \in Nat
    BY DEF RatchetStates
  <1>2. /\ root \in RootKeys(K)
        /\ LastMixed(root) = {f, s.remote}
    BY <1>1, KdfRkFacts DEF DH
  <1>3. SendHalf(root) \in ChainKeys(K)
    BY <1>2 DEF SendHalf, ChainKeys
  <1>4. CutWith(SendHalf(root), f) /\ SendHalf(root).step = 0
    BY <1>1, <1>2 DEF SendHalf, CutWith
  <1>8. Extends(root, s.root) /\ root # s.root
    BY <1>1, KdfRkExtends DEF DH
  <1> HIDE DEF root
  <1> DEFINE c == SendHalf(root)
             t == [s EXCEPT !.prev_n = s.send_n, !.send_n = 0,
                            !.root = root, !.send = c, !.dh = f]
  <1>5. dh_ratchet_send(s, f) = t
    BY DEF dh_ratchet_send, root
  <1> HIDE DEF c
  <1>6. t \in RatchetStates(K)
    BY <1>2, <1>3 DEF RatchetStates, c
  <1>7. /\ t.dh = f /\ t.remote = s.remote /\ t.send_n = 0 /\ t.send = c
        /\ t.recv = s.recv /\ t.recv_n = s.recv_n /\ t.root = root
    BY DEF RatchetStates
  <1> HIDE DEF t
  <1> QED BY <1>4, <1>5, <1>6, <1>7, <1>8 DEF c

\* dh_ratchet_recv replaces key pair and sending chain together.
LEMMA RecvRatchetFacts ==
    ASSUME NEW K, NEW s \in RatchetStates(K), NEW h \in RatchetHeaders, NEW f \in Nat, h.dh < f
    PROVE  LET t == dh_ratchet_recv(s, h, f) IN
           /\ t \in RatchetStates(K)
           /\ t.dh = f /\ t.remote = h.dh /\ t.send_n = 0 /\ t.recv_n = 0
           /\ CutWith(t.send, f) /\ t.send.step = 0
           /\ ~ IsNone(t.recv) /\ t.recv.step = 0
           /\ Extends(t.root, s.root) /\ t.root # s.root
  <1> DEFINE root1 == kdf_rk(s.root, DH(s.dh, h.dh))
             root2 == kdf_rk(root1, DH(f, h.dh))
  <1>1. s.root \in RootKeys(K) /\ s.dh \in Nat /\ h.dh \in Nat
    BY DEF RatchetStates, RatchetHeaders
  <1>2. root1 \in RootKeys(K)
    BY <1>1, KdfRkFacts DEF DH
  <1>3. root2 \in RootKeys(K) /\ LastMixed(root2) = {f, h.dh}
    <2> HIDE DEF root1
    <2> QED BY <1>1, <1>2, KdfRkFacts DEF DH, root2
  <1>9. Extends(root2, s.root) /\ root2 # s.root
    BY <1>1, KdfRkExtends DEF DH
  <1> HIDE DEF root2
  <1>4. SendHalf(root2) \in ChainKeys(K) /\ RecvHalf(root2) \in ChainKeys(K)
    BY <1>3 DEF SendHalf, RecvHalf, ChainKeys
  <1>5. CutWith(SendHalf(root2), f) /\ SendHalf(root2).step = 0
    BY <1>1, <1>3 DEF SendHalf, CutWith
  <1>10. ~ IsNone(RecvHalf(root2)) /\ RecvHalf(root2).step = 0
    BY DEF RecvHalf, IsNone
  <1> DEFINE c == SendHalf(root2)
             d == RecvHalf(root2)
             t == [s EXCEPT !.prev_n = 0, !.send_n = 0, !.recv_n = 0,
                            !.root = root2, !.send = c, !.recv = d,
                            !.dh = f, !.remote = h.dh]
  <1>6. dh_ratchet_recv(s, h, f) = t
    BY DEF dh_ratchet_recv, root2
  <1> HIDE DEF c, d
  <1>7. t \in RatchetStates(K)
    BY <1>1, <1>3, <1>4 DEF RatchetStates, c, d
  <1>8. /\ t.dh = f /\ t.remote = h.dh /\ t.send_n = 0 /\ t.recv_n = 0 /\ t.send = c
        /\ t.recv = d /\ t.root = root2
    BY DEF RatchetStates
  <1> HIDE DEF t
  <1> QED BY <1>5, <1>6, <1>7, <1>8, <1>9, <1>10 DEF c, d

\* A chain that was cut is not the absent one.
LEMMA CutIsSome == ASSUME NEW ck, NEW d, CutWith(ck, d) PROVE ~ IsNone(ck)
  BY DEF CutWith, IsNone

\* ratchet_encrypt seals at the number it announces and advances the chain by one.
LEMMA EncryptFacts ==
    ASSUME NEW K, NEW s \in RatchetStates(K), NEW f \in Nat, s.remote < f,
           ~ IsNone(s.send) => CutWith(s.send, s.dh) /\ s.send.step = s.send_n
    PROVE  LET r == ratchet_encrypt(s, f)
               t == BeforeEncrypt(s, f) IN
           /\ t \in RatchetStates(K) /\ t.remote = s.remote
           /\ NeedsSendRatchet(s) => t.dh = f /\ t.send_n = 0
           /\ ~ NeedsSendRatchet(s) => t = s
           /\ r.state \in RatchetStates(K) /\ r.state.dh = t.dh /\ r.state.remote = s.remote
           /\ r.state.send_n = t.send_n + 1
           /\ CutWith(r.state.send, t.dh) /\ r.state.send.step = t.send_n + 1
           /\ r.header \in RatchetHeaders /\ r.header.dh = t.dh /\ r.header.n = t.send_n
           /\ r.key \in ChainKeys(K) /\ CutWith(r.key, t.dh) /\ r.key.step = t.send_n
           /\ r.state.recv = s.recv /\ r.state.recv_n = s.recv_n
           /\ Forward(r.state, s)
  <1> DEFINE t == BeforeEncrypt(s, f)
             r == ratchet_encrypt(s, f)
  <1>1. /\ t \in RatchetStates(K) /\ t.remote = s.remote
        /\ CutWith(t.send, t.dh) /\ t.send.step = t.send_n
        /\ NeedsSendRatchet(s) => t.dh = f /\ t.send_n = 0
        /\ ~ NeedsSendRatchet(s) => t = s
        /\ t.recv = s.recv /\ t.recv_n = s.recv_n
        /\ NeedsSendRatchet(s) => Extends(t.root, s.root) /\ t.root # s.root
    <2>1. CASE NeedsSendRatchet(s)
      BY <2>1, SendRatchetFacts DEF BeforeEncrypt
    <2>2. CASE ~ NeedsSendRatchet(s)
      BY <2>2 DEF BeforeEncrypt, NeedsSendRatchet
    <2> QED BY <2>1, <2>2
  <1> HIDE DEF t
  <1>2. t.send \in ChainKeys(K) /\ t.send_n \in Nat /\ t.prev_n \in Nat /\ t.dh \in Nat
    BY <1>1 DEF RatchetStates
  <1>3. /\ kdf_ck(t.send) \in ChainKeys(K)
        /\ kdf_ck(t.send).step = t.send.step + 1
        /\ CutWith(kdf_ck(t.send), t.dh)
    BY <1>1, <1>2 DEF kdf_ck, ChainKeys, CutWith
  <1>4. /\ r.state = [t EXCEPT !.send = kdf_ck(t.send), !.send_n = @ + 1]
        /\ r.header = [dh |-> t.dh, pn |-> t.prev_n, n |-> t.send_n]
        /\ r.key = t.send
    BY DEF ratchet_encrypt, t
  <1> HIDE DEF r
  <1>5. /\ r.state \in RatchetStates(K) /\ r.state.dh = t.dh /\ r.state.remote = s.remote
        /\ r.state.send_n = t.send_n + 1
        /\ r.state.send = kdf_ck(t.send)
        /\ r.state.recv = s.recv /\ r.state.recv_n = s.recv_n /\ r.state.root = t.root
    <2> DEFINE c == kdf_ck(t.send)
               k == t.send_n + 1
               u == [t EXCEPT !.send = c, !.send_n = k]
    <2>1. c \in ChainKeys(K) /\ k \in Nat
      BY <1>2, <1>3
    <2>2. r.state = u
      BY <1>4
    <2> HIDE DEF c, k
    <2>3. u \in RatchetStates(K)
      BY <1>1, <2>1 DEF RatchetStates
    <2>4. /\ u.dh = t.dh /\ u.remote = t.remote /\ u.send_n = k /\ u.send = c
          /\ u.recv = t.recv /\ u.recv_n = t.recv_n /\ u.root = t.root
      BY <1>1 DEF RatchetStates
    <2> HIDE DEF u
    <2> QED BY <1>1, <2>2, <2>3, <2>4 DEF c, k
  <1>6. r.header \in RatchetHeaders /\ r.header.dh = t.dh /\ r.header.n = t.send_n
    BY <1>2, <1>4 DEF RatchetHeaders
  <1>7. Forward(r.state, s)
    <2>1. CASE NeedsSendRatchet(s)
      BY <2>1, <1>1, <1>5 DEF Forward
    <2>2. CASE ~ NeedsSendRatchet(s)
      <3>1. s.send.step \in Nat /\ s.recv.step \in Nat
        BY DEF RatchetStates, ChainKeys
      <3>2. Extends(s.root, s.root)
        BY StaysForward DEF Forward
      <3> QED BY <2>2, <3>1, <3>2, <1>1, <1>3, <1>5 DEF Forward
    <2> QED BY <2>1, <2>2
  <1> QED BY <1>1, <1>2, <1>3, <1>4, <1>5, <1>6, <1>7 DEF t, r

\* Taking a receiving key leaves the sending side alone.
LEMMA TakeKeyFacts ==
    ASSUME NEW K, NEW s \in RatchetStates(K), NEW n \in Nat, n >= s.recv_n
    PROVE  LET t == TakeKeyAt(s, n).state IN
           /\ t \in RatchetStates(K)
           /\ t.dh = s.dh /\ t.remote = s.remote /\ t.send = s.send /\ t.send_n = s.send_n
           /\ t.root = s.root /\ t.recv.step >= s.recv.step
           /\ InStep(s) => InStep(t)
  <1> DEFINE at == [s.recv EXCEPT !.step = @ + (n - s.recv_n)]
  <1>1. s.recv \in ChainKeys(K) /\ s.recv_n \in Nat
    BY DEF RatchetStates
  <1>2. n - s.recv_n \in Nat
    BY <1>1
  <1>3. /\ at \in ChainKeys(K)
        /\ at.step = s.recv.step + (n - s.recv_n) /\ at.half = s.recv.half
    BY <1>1, <1>2 DEF ChainKeys
  <1> HIDE DEF at
  <1>4. /\ kdf_ck(at) \in ChainKeys(K)
        /\ kdf_ck(at).step = at.step + 1 /\ kdf_ck(at).half = at.half
    BY <1>3 DEF kdf_ck, ChainKeys
  <1> DEFINE c == kdf_ck(at)
             k == n + 1
             t == [s EXCEPT !.recv = c, !.recv_n = k]
  <1>5. TakeKeyAt(s, n).state = t
    BY DEF TakeKeyAt, at
  <1>6. t \in RatchetStates(K)
    <2>1. c \in ChainKeys(K) /\ k \in Nat
      BY <1>4
    <2> HIDE DEF c, k
    <2> QED BY <2>1 DEF RatchetStates
  <1> HIDE DEF c, k
  <1>7. /\ t.dh = s.dh /\ t.remote = s.remote /\ t.send = s.send /\ t.send_n = s.send_n
        /\ t.recv = c /\ t.recv_n = k /\ t.root = s.root
    BY DEF RatchetStates
  <1> HIDE DEF t
  <1>8. s.recv.step \in Nat /\ s.send.step \in Nat
    BY DEF RatchetStates, ChainKeys
  <1>9. t.recv.step >= s.recv.step
    BY <1>1, <1>2, <1>3, <1>4, <1>7, <1>8 DEF c
  <1>10. IsNone(t.recv) <=> IsNone(s.recv)
    BY <1>3, <1>4, <1>7 DEF IsNone, c
  <1>11. InStep(s) => InStep(t)
    BY <1>1, <1>3, <1>4, <1>7, <1>8, <1>10 DEF InStep, c, k
  <1> QED BY <1>5, <1>6, <1>7, <1>9, <1>11

\* ratchet_decrypt either leaves key pair and sending chain alone or replaces both.
LEMMA DecryptFacts ==
    ASSUME NEW K, NEW s \in RatchetStates(K), NEW h \in RatchetHeaders, NEW f \in Nat, h.dh < f
    PROVE  LET t == ratchet_decrypt(s, h, f).state IN
           /\ t \in RatchetStates(K)
           /\ ~ NeedsRecvRatchet(s, h) =>
                 t.dh = s.dh /\ t.remote = s.remote /\ t.send = s.send /\ t.send_n = s.send_n
           /\ NeedsRecvRatchet(s, h) =>
                 /\ t.dh = f /\ t.remote = h.dh /\ t.send_n = 0
                 /\ CutWith(t.send, f) /\ t.send.step = 0
           /\ Forward(t, s)
           /\ InStep(s) => InStep(t)
  <1> DEFINE u == IF NeedsRecvRatchet(s, h) THEN dh_ratchet_recv(s, h, f) ELSE s
             t == ratchet_decrypt(s, h, f).state
  <1>1. /\ u \in RatchetStates(K)
        /\ ~ NeedsRecvRatchet(s, h) => u = s
        /\ NeedsRecvRatchet(s, h) =>
              /\ u.dh = f /\ u.remote = h.dh /\ u.send_n = 0
              /\ CutWith(u.send, f) /\ u.send.step = 0
              /\ ~ IsNone(u.recv) /\ u.recv.step = 0 /\ u.recv_n = 0
              /\ Extends(u.root, s.root) /\ u.root # s.root
    BY RecvRatchetFacts
  <1>2. t = u \/ t = try_skipped_message_keys(u, h).state \/ (u.recv_n <= h.n /\ t = TakeKeyAt(u, h.n).state)
    <2> HIDE DEF u
    <2>1. u.recv_n \in Nat /\ h.n \in Nat
      BY <1>1 DEF RatchetStates, RatchetHeaders
    <2>2. ratchet_decrypt(s, h, f) =
            IF IsNone(u.recv) THEN [state |-> u, key |-> NoChain]
            ELSE IF u.recv_n > h.n THEN try_skipped_message_keys(u, h)
            ELSE TakeKeyAt(u, h.n)
      BY DEF ratchet_decrypt, u
    <2> QED BY <2>1, <2>2
  <1> HIDE DEF u, t
  <1>3. u.recv_n \in Nat /\ h.n \in Nat
    BY <1>1 DEF RatchetStates, RatchetHeaders
  <1>4. /\ t \in RatchetStates(K)
        /\ t.dh = u.dh /\ t.remote = u.remote /\ t.send = u.send /\ t.send_n = u.send_n
        /\ t.root = u.root /\ t.recv.step >= u.recv.step
        /\ InStep(u) => InStep(t)
    <2>4. u.recv.step \in Nat
      BY <1>1 DEF RatchetStates, ChainKeys
    <2>1. CASE t = u
      BY <1>1, <2>1, <2>4
    <2>2. CASE t = try_skipped_message_keys(u, h).state
      <3> DEFINE stored == {e \in u.skipped : e.dh = h.dh /\ e.n = h.n}
      <3>1. CASE stored # {}
        <4>1. t = [u EXCEPT !.skipped = @ \ stored]
          BY <2>2, <3>1 DEF try_skipped_message_keys
        <4> HIDE DEF stored
        <4>2. /\ t \in RatchetStates(K)
              /\ t.dh = u.dh /\ t.remote = u.remote /\ t.send = u.send /\ t.send_n = u.send_n
              /\ t.root = u.root /\ t.recv = u.recv /\ t.recv_n = u.recv_n
          BY <1>1, <4>1 DEF RatchetStates
        <4> QED BY <2>4, <4>2 DEF InStep
      <3>2. CASE stored = {}
        <4>1. t = TakeKeyAt(u, u.recv_n).state
          BY <2>2, <3>2 DEF try_skipped_message_keys
        <4> QED BY <1>1, <1>3, <4>1, TakeKeyFacts
      <3> QED BY <3>1, <3>2
    <2>3. CASE u.recv_n <= h.n /\ t = TakeKeyAt(u, h.n).state
      BY <1>1, <1>3, <2>3, TakeKeyFacts
    <2> QED BY <1>2, <2>1, <2>2, <2>3
  <1>5. Forward(t, s)
    <2>1. CASE NeedsRecvRatchet(s, h)
      BY <2>1, <1>1, <1>4 DEF Forward
    <2>2. CASE ~ NeedsRecvRatchet(s, h)
      <3>1. s.send.step \in Nat
        BY DEF RatchetStates, ChainKeys
      <3>2. Extends(s.root, s.root)
        BY StaysForward DEF Forward
      <3> QED BY <2>2, <3>1, <3>2, <1>1, <1>4 DEF Forward
    <2> QED BY <2>1, <2>2
  <1>6. InStep(s) => InStep(t)
    BY <1>1, <1>4 DEF InStep
  <1> QED BY <1>1, <1>4, <1>5, <1>6 DEF t

-----------------------------------------------------------------------------
States == RatchetStates(Secrets)

\* The two states the tests build satisfy the invariant.
LEMMA InitIndInv == Init => IndInv
  <1> SUFFICES ASSUME Init PROVE IndInv
    OBVIOUS
  <1>1. /\ st["alice"] = InitialState("ss", 1, 0) /\ st["bob"] = InitialState("ss", 0, 1)
        /\ st \in [Parties -> {InitialState("ss", 1, 0), InitialState("ss", 0, 1)}]
        /\ sent = {} /\ tried = {} /\ opened = {} /\ fresh = 2
    BY DEF Init, Parties
  <1>2. /\ InitialState("ss", 1, 0) \in States /\ InitialState("ss", 0, 1) \in States
        /\ st["alice"].dh = 1 /\ st["alice"].remote = 0 /\ IsNone(st["alice"].send)
        /\ st["bob"].dh = 0 /\ st["bob"].remote = 1 /\ IsNone(st["bob"].send)
    BY <1>1, InitialStateType DEF States, Secrets
  <1>3. TypeOK
    <2>1. st \in [Parties -> RatchetStates(Secrets)]
      BY <1>1, <1>2 DEF States
    <2> QED BY <1>1, <1>2, <2>1 DEF TypeOK, Parties
  <1>4. SendChainInv
    BY <1>2 DEF SendChainInv, Parties
  <1>5. SentInv
    BY <1>1, FS_EmptySet DEF SentInv
  <1> QED BY <1>3, <1>4, <1>5 DEF IndInv

\* ratchet_encrypt: the new message is sealed under an unused (key, number) pair.
LEMMA EncryptIndInv ==
    ASSUME IndInv, NEW p \in Parties, Encrypt(p)
    PROVE  IndInv'
  <1> DEFINE s == st[p]
             t == BeforeEncrypt(s, fresh)
             r == ratchet_encrypt(s, fresh)
             m == [from |-> p, header |-> r.header, key |-> r.key, body |-> Cardinality(sent)]
  <1>1. s \in States /\ fresh \in Nat /\ s.remote < fresh /\ s.dh < fresh /\ s.dh \in Nat
    BY DEF IndInv, TypeOK, States, RatchetStates
  <1>2. ~ IsNone(s.send) => CutWith(s.send, s.dh) /\ s.send.step = s.send_n
    BY DEF IndInv, SendChainInv
  <1>3. /\ t \in States /\ t.dh \in Nat /\ t.send_n \in Nat
        /\ NeedsSendRatchet(s) => t.dh = fresh /\ t.send_n = 0
        /\ ~ NeedsSendRatchet(s) => t = s
        /\ r.state \in States /\ r.state.dh = t.dh /\ r.state.remote = s.remote
        /\ r.state.send_n = t.send_n + 1
        /\ CutWith(r.state.send, t.dh) /\ r.state.send.step = t.send_n + 1
        /\ r.header \in RatchetHeaders /\ r.header.dh = t.dh /\ r.header.n = t.send_n
        /\ r.key \in ChainKeys(Secrets) /\ CutWith(r.key, t.dh) /\ r.key.step = t.send_n
    <2> HIDE DEF s
    <2>1. t \in States /\ t.dh \in Nat /\ t.send_n \in Nat
      BY <1>1, <1>2, EncryptFacts DEF States, RatchetStates
    <2> QED BY <1>1, <1>2, <2>1, EncryptFacts DEF States
  <1>4. /\ st' = [st EXCEPT ![p] = r.state] /\ sent' = sent \cup {m}
        /\ fresh' = Drawn(NeedsSendRatchet(s))
        /\ tried' = tried /\ opened' = opened
    BY DEF Encrypt
  <1> HIDE DEF s, t, r
  <1>5. /\ fresh' \in Nat /\ fresh' >= fresh /\ t.dh < fresh'
        /\ NeedsSendRatchet(s) => t.dh = fresh
        /\ ~ NeedsSendRatchet(s) => t.dh = s.dh /\ t.send_n = s.send_n /\ ~ IsNone(s.send)
    BY <1>1, <1>3, <1>4 DEF Drawn, NeedsSendRatchet
  <1>6. /\ st'[p] = r.state
        /\ \A q \in Parties : q # p => st'[q] = st[q]
        /\ st' \in [Parties -> States]
    BY <1>3, <1>4 DEF IndInv, TypeOK, States
  <1>7. IsFiniteSet(sent) /\ Cardinality(sent) \in Nat /\ IsFiniteSet(sent')
    BY <1>4, FS_AddElement, FS_CardinalityType DEF IndInv, SentInv
  <1>8. m \in Messages /\ m.header.dh = t.dh /\ m.header.n = t.send_n /\ m.key = r.key
    BY <1>3, <1>7 DEF Messages
  <1> HIDE DEF m
  <1>9. \A q \in Parties : q # p => st[q].dh # t.dh
    BY <1>3, <1>5 DEF IndInv, TypeOK, SendChainInv, Parties, s, States, RatchetStates
  <1>10. \A m2 \in sent : ~ (m2.header.dh = t.dh /\ m2.header.n = t.send_n)
    <2> SUFFICES ASSUME NEW m2 \in sent, m2.header.dh = t.dh, m2.header.n = t.send_n
                 PROVE  FALSE
      OBVIOUS
    <2>1. m2.header.dh < fresh /\ m2.header.n \in Nat
      BY DEF IndInv, TypeOK, Messages, RatchetHeaders
    <2>2. ~ NeedsSendRatchet(s)
      BY <1>1, <1>5, <2>1
    <2>3. m2.header.n < st[p].send_n
      BY <1>5, <2>2 DEF IndInv, SentInv, s
    <2> QED BY <1>5, <2>1, <2>2, <2>3 DEF s
  <1>11. TypeOK'
    <2>1. \A q \in Parties : st'[q].dh < fresh' /\ st'[q].remote < fresh'
      <3>1. ASSUME NEW q \in Parties, q # p
            PROVE  st'[q].dh < fresh' /\ st'[q].remote < fresh'
        <4>1. st[q].dh \in Nat /\ st[q].remote \in Nat /\ st[q].dh < fresh /\ st[q].remote < fresh
          BY DEF IndInv, TypeOK, RatchetStates
        <4> QED BY <1>1, <1>5, <1>6, <3>1, <4>1
      <3>2. st'[p].dh < fresh' /\ st'[p].remote < fresh'
        <4>1. s.remote \in Nat
          BY <1>1 DEF States, RatchetStates
        <4> QED BY <1>1, <1>3, <1>5, <1>6, <4>1
      <3> QED BY <3>1, <3>2
    <2>2. \A m2 \in sent' : m2.header.dh < fresh'
      <3>1. ASSUME NEW m2 \in sent PROVE m2.header.dh < fresh'
        <4>1. m2.header.dh \in Nat /\ m2.header.dh < fresh
          BY DEF IndInv, TypeOK, Messages, RatchetHeaders
        <4> QED BY <1>1, <1>5, <4>1
      <3> QED BY <1>4, <1>5, <1>8, <3>1
    <2>3. sent' \subseteq Messages /\ tried' \subseteq sent' /\ opened' \subseteq tried'
      BY <1>4, <1>8 DEF IndInv, TypeOK
    <2> QED BY <1>5, <1>6, <2>1, <2>2, <2>3 DEF TypeOK, States
  <1>12. SendChainInv'
    <2>1. st'["alice"].dh # st'["bob"].dh
      BY <1>3, <1>6, <1>9 DEF Parties
    <2>2. \A q \in Parties : ~ IsNone(st'[q].send) =>
             CutWith(st'[q].send, st'[q].dh) /\ st'[q].send.step = st'[q].send_n
      <3>1. ASSUME NEW q \in Parties, q # p, ~ IsNone(st'[q].send)
            PROVE  CutWith(st'[q].send, st'[q].dh) /\ st'[q].send.step = st'[q].send_n
        BY <1>6, <3>1 DEF IndInv, SendChainInv
      <3> QED BY <1>3, <1>6, <3>1
    <2> QED BY <2>1, <2>2 DEF SendChainInv
  <1>13. SentInv'
    <2>1. \A m2 \in sent' : CutWith(m2.key, m2.header.dh) /\ m2.key.step = m2.header.n
      BY <1>3, <1>4, <1>8 DEF IndInv, SentInv
    <2>2. \A m1, m2 \in sent' :
             m1.header.dh = m2.header.dh /\ m1.header.n = m2.header.n => m1 = m2
      BY <1>4, <1>8, <1>10 DEF IndInv, SentInv
    <2>3. ASSUME NEW m2 \in sent', NEW q \in Parties, m2.header.dh = st'[q].dh
          PROVE  ~ IsNone(st'[q].send) /\ m2.header.n < st'[q].send_n
      <3>1. CASE q # p
        <4>1. m2 # m
          BY <1>6, <1>8, <1>9, <2>3, <3>1
        <4> QED BY <1>4, <1>6, <2>3, <3>1, <4>1 DEF IndInv, SentInv
      <3>2. CASE q = p
        <4>1. ~ IsNone(st'[p].send)
          BY <1>3, <1>6, CutIsSome
        <4>2. CASE m2 = m
          BY <1>3, <1>6, <1>8, <3>2, <4>1, <4>2
        <4>3. CASE m2 # m
          <5>1. m2 \in sent /\ m2.header.dh = t.dh
            BY <1>3, <1>4, <1>6, <2>3, <3>2, <4>3
          <5>2. m2.header.dh \in Nat /\ m2.header.dh < fresh /\ m2.header.n \in Nat
            BY <5>1 DEF IndInv, TypeOK, Messages, RatchetHeaders
          <5>3. ~ NeedsSendRatchet(s)
            BY <1>1, <1>5, <5>1, <5>2
          <5>4. m2.header.n < st[p].send_n
            BY <1>5, <5>1, <5>3 DEF IndInv, SentInv, s
          <5> QED BY <1>3, <1>5, <1>6, <3>2, <4>1, <5>2, <5>3, <5>4 DEF s
        <4> QED BY <4>2, <4>3
      <3> QED BY <3>1, <3>2
    <2> QED BY <1>7, <2>1, <2>2, <2>3 DEF SentInv
  <1> QED BY <1>11, <1>12, <1>13 DEF IndInv

\* ratchet_decrypt: nothing is sent, and a receive ratchet moves to an unused key
\* pair together with the chain cut for it.
LEMMA DecryptIndInv ==
    ASSUME IndInv, NEW p \in Parties, NEW m \in sent, Decrypt(p, m)
    PROVE  IndInv'
  <1> DEFINE s == st[p]
             t == ratchet_decrypt(s, m.header, fresh).state
  <1>1. /\ s \in States /\ fresh \in Nat
        /\ m.header \in RatchetHeaders /\ m.header.dh < fresh /\ m.header.dh \in Nat
    BY DEF IndInv, TypeOK, States, Messages, RatchetHeaders
  <1>2. /\ t \in States
        /\ ~ NeedsRecvRatchet(s, m.header) =>
              t.dh = s.dh /\ t.remote = s.remote /\ t.send = s.send /\ t.send_n = s.send_n
        /\ NeedsRecvRatchet(s, m.header) =>
              /\ t.dh = fresh /\ t.remote = m.header.dh /\ t.send_n = 0
              /\ CutWith(t.send, fresh) /\ t.send.step = 0
    <2> HIDE DEF s
    <2> QED BY <1>1, DecryptFacts DEF States
  <1>3. /\ st' = [st EXCEPT ![p] = t] /\ sent' = sent
        /\ fresh' = Drawn(NeedsRecvRatchet(s, m.header))
        /\ tried' \subseteq sent /\ opened' \subseteq tried'
    BY DEF Decrypt, IndInv, TypeOK
  <1> HIDE DEF s, t
  <1>4. /\ st'[p] = t
        /\ \A q \in Parties : q # p => st'[q] = st[q]
        /\ st' \in [Parties -> States]
    BY <1>2, <1>3 DEF IndInv, TypeOK, States
  <1>5. /\ s.dh \in Nat /\ s.remote \in Nat /\ s.dh < fresh /\ s.remote < fresh
        /\ t.dh \in Nat /\ t.remote \in Nat
    BY <1>1, <1>2 DEF IndInv, TypeOK, States, RatchetStates, s
  <1>6. /\ fresh' \in Nat /\ fresh' >= fresh
        /\ NeedsRecvRatchet(s, m.header) => fresh' = fresh + 1
    BY <1>1, <1>3 DEF Drawn
  <1>7. t.dh < fresh' /\ t.remote < fresh'
    BY <1>1, <1>2, <1>5, <1>6
  <1>8. \A q \in Parties : q # p => st[q].dh # t.dh
    BY <1>1, <1>2 DEF IndInv, TypeOK, SendChainInv, Parties, s, RatchetStates
  <1>9. TypeOK'
    <2>1. \A q \in Parties : st'[q].dh < fresh' /\ st'[q].remote < fresh'
      <3>1. ASSUME NEW q \in Parties, q # p
            PROVE  st'[q].dh < fresh' /\ st'[q].remote < fresh'
        <4>1. st[q].dh \in Nat /\ st[q].remote \in Nat /\ st[q].dh < fresh /\ st[q].remote < fresh
          BY DEF IndInv, TypeOK, RatchetStates
        <4> QED BY <1>1, <1>4, <1>6, <3>1, <4>1
      <3> QED BY <1>4, <1>7, <3>1
    <2>2. \A m2 \in sent' : m2.header.dh < fresh'
      <3> SUFFICES ASSUME NEW m2 \in sent PROVE m2.header.dh < fresh'
        BY <1>3
      <3>1. m2.header.dh \in Nat /\ m2.header.dh < fresh
        BY DEF IndInv, TypeOK, Messages, RatchetHeaders
      <3> QED BY <1>1, <1>6, <3>1
    <2>3. sent' \subseteq Messages
      BY <1>3 DEF IndInv, TypeOK
    <2> QED BY <1>3, <1>4, <1>6, <2>1, <2>2, <2>3 DEF TypeOK, States
  <1>10. SendChainInv'
    <2>1. st'["alice"].dh # st'["bob"].dh
      BY <1>4, <1>8 DEF Parties
    <2>2. ASSUME NEW q \in Parties, ~ IsNone(st'[q].send)
          PROVE  CutWith(st'[q].send, st'[q].dh) /\ st'[q].send.step = st'[q].send_n
      <3>1. CASE q # p
        BY <1>4, <2>2, <3>1 DEF IndInv, SendChainInv
      <3>2. CASE q = p /\ NeedsRecvRatchet(s, m.header)
        BY <1>2, <1>4, <3>2
      <3>3. CASE q = p /\ ~ NeedsRecvRatchet(s, m.header)
        BY <1>2, <1>4, <2>2, <3>3 DEF IndInv, SendChainInv, s
      <3> QED BY <3>1, <3>2, <3>3
    <2> QED BY <2>1, <2>2 DEF SendChainInv
  <1>11. SentInv'
    <2>1. ASSUME NEW m2 \in sent, NEW q \in Parties, m2.header.dh = st'[q].dh
          PROVE  ~ IsNone(st'[q].send) /\ m2.header.n < st'[q].send_n
      <3>1. CASE q # p
        BY <1>4, <2>1, <3>1 DEF IndInv, SentInv
      <3>2. CASE q = p
        <4>1. m2.header.dh \in Nat /\ m2.header.dh < fresh
          BY DEF IndInv, TypeOK, Messages, RatchetHeaders
        <4>2. ~ NeedsRecvRatchet(s, m.header)
          BY <1>1, <1>2, <1>4, <2>1, <3>2, <4>1
        <4> QED BY <1>2, <1>4, <2>1, <3>2, <4>2 DEF IndInv, SentInv, s
      <3> QED BY <3>1, <3>2
    <2> QED BY <1>3, <2>1 DEF IndInv, SentInv
  <1> QED BY <1>9, <1>10, <1>11 DEF IndInv

\* Chains, numbers and key pairs stay consistent in every reachable state.
THEOREM RatchetInvariant == Spec => []IndInv
  <1>1. IndInv /\ [Next]_vars => IndInv'
    <2> SUFFICES ASSUME IndInv, [Next]_vars PROVE IndInv'
      OBVIOUS
    <2>1. CASE Next
      BY <2>1, EncryptIndInv, DecryptIndInv DEF Next
    <2>2. CASE UNCHANGED vars
      BY <2>2 DEF vars, IndInv, TypeOK, SendChainInv, SentInv
    <2> QED BY <2>1, <2>2
  <1> QED BY <1>1, InitIndInv, PTL DEF Spec

\* Types hold in every reachable state; in particular no state or header names a
\* key pair that was never generated.
THEOREM TypeCorrect == Spec => []TypeOK
  <1>1. IndInv => TypeOK
    BY DEF IndInv
  <1> QED BY <1>1, RatchetInvariant, PTL

\* ratchet_encrypt never seals two messages under one message key and nonce.
THEOREM KeysAreUsedOnce == Spec => []NoKeyReuse
  <1>1. IndInv => NoKeyReuse
    <2> SUFFICES ASSUME IndInv, NEW m1 \in sent, NEW m2 \in sent, m1.key = m2.key
                 PROVE  m1 = m2
      BY DEF NoKeyReuse
    <2>1. m1.header.dh \in Nat /\ m2.header.dh \in Nat
      BY DEF IndInv, TypeOK, Messages, RatchetHeaders
    <2>2. PICK r1 \in 0 .. m1.header.dh - 1 : LastMixed(m1.key.root) = {m1.header.dh, r1}
      BY DEF IndInv, SentInv, CutWith
    <2>3. PICK r2 \in 0 .. m2.header.dh - 1 : LastMixed(m2.key.root) = {m2.header.dh, r2}
      BY DEF IndInv, SentInv, CutWith
    <2>4. {m1.header.dh, r1} = {m2.header.dh, r2}
      BY <2>2, <2>3
    <2>5. m1.header.dh = m2.header.dh
      BY <2>1, <2>4
    <2>6. m1.header.n = m2.header.n
      BY DEF IndInv, SentInv
    <2> QED BY <2>5, <2>6 DEF IndInv, SentInv
  <1> QED BY <1>1, RatchetInvariant, PTL

-----------------------------------------------------------------------------
(* The numbers in the headers.  A chain starts at number 0 under a key pair of its *)
(* own, and every number up to the next one has been sent under it; the receiving  *)
(* chain moves with its number whichever way a key is taken from it.               *)

Reached(messages, d, n) == \E m \in messages : m.header.dh = d /\ m.header.n = n

NumbersInv ==
    /\ \A p \in Parties : InStep(st[p])
    /\ \A p \in Parties : ~ IsNone(st[p].send) =>
           \A n \in 0 .. st[p].send_n - 1 : Reached(sent, st[p].dh, n)
    /\ \A m \in sent : \A n \in 0 .. m.header.n : Reached(sent, m.header.dh, n)

LEMMA InitNumbers == Init => NumbersInv
  <1> SUFFICES ASSUME Init PROVE NumbersInv
    OBVIOUS
  <1>1. /\ st["alice"] = InitialState("ss", 1, 0) /\ st["bob"] = InitialState("ss", 0, 1)
        /\ sent = {}
    BY DEF Init, Parties
  <1>2. \A p \in Parties : IsNone(st[p].send) /\ IsNone(st[p].recv)
    <2>1. IsNone(st["alice"].send) /\ IsNone(st["alice"].recv)
      BY <1>1 DEF InitialState, NoChain, IsNone
    <2>2. IsNone(st["bob"].send) /\ IsNone(st["bob"].recv)
      BY <1>1 DEF InitialState, NoChain, IsNone
    <2> QED BY <2>1, <2>2 DEF Parties
  <1> QED BY <1>1, <1>2 DEF NumbersInv, InStep

\* A message continues the numbers of its chain, or starts those of a new one.
LEMMA EncryptNumbers ==
    ASSUME IndInv, NumbersInv, NEW p \in Parties, Encrypt(p)
    PROVE  NumbersInv' /\ \A q \in Parties : Forward(st'[q], st[q])
  <1> DEFINE s == st[p]
             t == BeforeEncrypt(s, fresh)
             r == ratchet_encrypt(s, fresh)
             m == [from |-> p, header |-> r.header, key |-> r.key, body |-> Cardinality(sent)]
  <1>1. s \in States /\ fresh \in Nat /\ s.remote < fresh /\ st \in [Parties -> States]
    BY DEF IndInv, TypeOK, States
  <1>2. ~ IsNone(s.send) => CutWith(s.send, s.dh) /\ s.send.step = s.send_n
    BY DEF IndInv, SendChainInv
  <1>3. /\ t \in States
        /\ NeedsSendRatchet(s) => t.dh = fresh /\ t.send_n = 0
        /\ ~ NeedsSendRatchet(s) => t = s
        /\ r.state \in States /\ r.state.dh = t.dh /\ r.state.send_n = t.send_n + 1
        /\ r.header.dh = t.dh /\ r.header.n = t.send_n
        /\ r.state.recv = s.recv /\ r.state.recv_n = s.recv_n
        /\ Forward(r.state, s)
    <2> HIDE DEF s
    <2> QED BY <1>1, <1>2, EncryptFacts DEF States
  <1>4. st' = [st EXCEPT ![p] = r.state] /\ sent' = sent \cup {m}
    BY DEF Encrypt
  <1>5. t.send_n \in Nat
    BY <1>3 DEF States, RatchetStates
  <1>6. m.header = r.header
    OBVIOUS
  <1>7. NeedsSendRatchet(s) \/ ~ IsNone(s.send)
    BY DEF NeedsSendRatchet
  <1> HIDE DEF s, t, r, m
  <1>8. st'[p] = r.state /\ \A q \in Parties : q # p => st'[q] = st[q]
    BY <1>1, <1>4
  <1>9. \A d, n : Reached(sent, d, n) => Reached(sent', d, n)
    <2> SUFFICES ASSUME NEW d, NEW n, Reached(sent, d, n) PROVE Reached(sent', d, n)
      OBVIOUS
    <2> QED BY <1>4 DEF Reached
  <1>10. Reached(sent', t.dh, t.send_n)
    BY <1>3, <1>4, <1>6 DEF Reached
  <1>11. ASSUME NEW n \in 0 .. t.send_n PROVE Reached(sent', t.dh, n)
    <2>1. CASE n = t.send_n
      BY <2>1, <1>10
    <2>2. CASE n # t.send_n
      <3>1. ~ NeedsSendRatchet(s)
        BY <1>3, <1>5, <2>2
      <3>2. n \in 0 .. s.send_n - 1
        BY <1>3, <1>5, <2>2, <3>1
      <3>3. Reached(sent, s.dh, n)
        BY <1>7, <3>1, <3>2 DEF NumbersInv, s
      <3> QED BY <1>3, <1>9, <3>1, <3>3
    <2> QED BY <2>1, <2>2
  <1>12. ASSUME NEW q \in Parties PROVE InStep(st[q])'
    BY <1>3, <1>8 DEF NumbersInv, InStep, s
  <1>13. ASSUME NEW q \in Parties, ~ IsNone(st'[q].send), NEW n \in 0 .. st'[q].send_n - 1
         PROVE  Reached(sent', st'[q].dh, n)
    <2>1. CASE q = p
      <3>1. n \in 0 .. t.send_n
        BY <1>3, <1>5, <1>8, <1>13, <2>1
      <3> QED BY <1>3, <1>8, <1>11, <2>1, <3>1
    <2>2. CASE q # p
      BY <1>8, <1>9, <1>13, <2>2 DEF NumbersInv
    <2> QED BY <2>1, <2>2
  <1>14. ASSUME NEW m2 \in sent', NEW n \in 0 .. m2.header.n
         PROVE  Reached(sent', m2.header.dh, n)
    <2>1. CASE m2 = m
      BY <1>3, <1>6, <1>11, <2>1
    <2>2. CASE m2 \in sent
      BY <1>9, <2>2 DEF NumbersInv
    <2> QED BY <1>4, <2>1, <2>2
  <1>15. \A q \in Parties : Forward(st'[q], st[q])
    BY <1>1, <1>3, <1>8, StaysForward DEF States, s
  <1>16. NumbersInv'
    <2>1. \A q \in Parties : InStep(st[q])'
      BY <1>12 DEF InStep
    <2> QED BY <2>1, <1>13, <1>14 DEF NumbersInv
  <1> QED BY <1>15, <1>16

\* Receiving replaces the sending chain by one of number 0 or leaves it alone.
LEMMA DecryptNumbers ==
    ASSUME IndInv, NumbersInv, NEW p \in Parties, NEW m \in sent, Decrypt(p, m)
    PROVE  NumbersInv' /\ \A q \in Parties : Forward(st'[q], st[q])
  <1> DEFINE s == st[p]
             t == ratchet_decrypt(s, m.header, fresh).state
  <1>1. /\ s \in States /\ fresh \in Nat /\ st \in [Parties -> States]
        /\ m.header \in RatchetHeaders /\ m.header.dh < fresh
    BY DEF IndInv, TypeOK, States, Messages
  <1>2. /\ t \in States
        /\ ~ NeedsRecvRatchet(s, m.header) =>
              t.dh = s.dh /\ t.send = s.send /\ t.send_n = s.send_n
        /\ NeedsRecvRatchet(s, m.header) => t.send_n = 0
        /\ Forward(t, s)
        /\ InStep(s) => InStep(t)
    <2> HIDE DEF s
    <2> QED BY <1>1, DecryptFacts DEF States
  <1>3. st' = [st EXCEPT ![p] = t] /\ sent' = sent
    BY DEF Decrypt
  <1> HIDE DEF s, t
  <1>4. st'[p] = t /\ \A q \in Parties : q # p => st'[q] = st[q]
    BY <1>1, <1>3
  <1>5. \A d, n : Reached(sent', d, n) <=> Reached(sent, d, n)
    BY <1>3 DEF Reached
  <1>6. ASSUME NEW q \in Parties PROVE InStep(st[q])'
    BY <1>2, <1>4 DEF NumbersInv, s
  <1>7. ASSUME NEW q \in Parties, ~ IsNone(st'[q].send), NEW n \in 0 .. st'[q].send_n - 1
        PROVE  Reached(sent', st'[q].dh, n)
    <2>1. CASE q = p /\ NeedsRecvRatchet(s, m.header)
      BY <1>2, <1>4, <1>7, <2>1
    <2>2. CASE ~ (q = p /\ NeedsRecvRatchet(s, m.header))
      <3>1. st'[q].dh = st[q].dh /\ st'[q].send = st[q].send /\ st'[q].send_n = st[q].send_n
        BY <1>2, <1>4, <2>2 DEF s
      <3> QED BY <1>5, <1>7, <3>1 DEF NumbersInv
    <2> QED BY <2>1, <2>2
  <1>8. \A m2 \in sent' : \A n \in 0 .. m2.header.n : Reached(sent', m2.header.dh, n)
    BY <1>3, <1>5 DEF NumbersInv
  <1>9. \A q \in Parties : Forward(st'[q], st[q])
    BY <1>1, <1>2, <1>4, StaysForward DEF States, s
  <1>10. NumbersInv'
    <2>1. \A q \in Parties : InStep(st[q])'
      BY <1>6 DEF InStep
    <2> QED BY <2>1, <1>7, <1>8 DEF NumbersInv
  <1> QED BY <1>9, <1>10

LEMMA NumbersStep == NumbersInv /\ IndInv /\ [Next]_vars => NumbersInv'
  <1> SUFFICES ASSUME NumbersInv, IndInv, [Next]_vars PROVE NumbersInv'
    OBVIOUS
  <1>1. CASE Next
    BY <1>1, EncryptNumbers, DecryptNumbers DEF Next
  <1>2. CASE UNCHANGED vars
    BY <1>2 DEF vars, NumbersInv, InStep, Reached
  <1> QED BY <1>1, <1>2

\* The number in a header is the position of its key in its chain, the numbers of a
\* chain have no gap, and the receiving chain stands where its number says.
THEOREM NumbersStayInStep == Spec => []NumbersInStep
  <1>1. NumbersInv /\ IndInv /\ [Next]_vars => NumbersInv'
    BY NumbersStep
  <1>2. NumbersInv /\ IndInv => NumbersInStep
    BY DEF NumbersInv, IndInv, SentInv, NumbersInStep, HeaderLocatesKey, RecvInStep, InStep, Reached
  <1> QED BY <1>1, <1>2, InitNumbers, RatchetInvariant, PTL DEF Spec

\* Forward secrecy of the state: a step mixes more into a root key or advances the
\* chains cut from it, and never goes back.
THEOREM StatesMoveForward == Spec => ForwardOnly
  <1>1. NumbersInv /\ IndInv /\ [Next]_vars => NumbersInv'
    BY NumbersStep
  <1>3. NumbersInv /\ IndInv /\ [Next]_vars => [\A p \in Parties : Forward(st'[p], st[p])]_vars
    BY EncryptNumbers, DecryptNumbers DEF Next
  <1>2. [\A p \in Parties : Forward(st'[p], st[p])]_vars =>
            [\A p \in Parties :
               /\ Extends(st'[p].root, st[p].root)
               /\ st'[p].root = st[p].root =>
                     /\ st'[p].send.step >= st[p].send.step
                     /\ st'[p].recv.step >= st[p].recv.step]_vars
    BY DEF Forward
  <1> QED BY <1>1, <1>2, <1>3, InitNumbers, RatchetInvariant, PTL DEF Spec, ForwardOnly

-----------------------------------------------------------------------------
(* The session managers of N peers.  They call the same functions of the ratchet;  *)
(* key pairs are now drawn by all peers, and the secret a session starts from is   *)
(* what X3DH makes of identity, signed, ephemeral and one-time keys.               *)

LEMMA SameFunctions ==
    /\ \A s, f : Managers!ratchet_encrypt(s, f) = ratchet_encrypt(s, f)
    /\ \A s, h, f : Managers!ratchet_decrypt(s, h, f) = ratchet_decrypt(s, h, f)
    /\ \A secret, own, remote :
           Managers!InitialState(secret, own, remote) = InitialState(secret, own, remote)
    /\ \A s : Managers!IsNone(s) = IsNone(s)
    /\ \A s : Managers!NeedsSendRatchet(s) = NeedsSendRatchet(s)
    /\ \A s, h : Managers!NeedsRecvRatchet(s, h) = NeedsRecvRatchet(s, h)
    /\ \A S : Managers!Cardinality(S) = Cardinality(S)
  <1>1. \A s, f : Managers!ratchet_encrypt(s, f) = ratchet_encrypt(s, f)
    BY DEF Managers!ratchet_encrypt, Managers!BeforeEncrypt, Managers!NeedsSendRatchet,
           Managers!IsNone, Managers!dh_ratchet_send, Managers!kdf_rk, Managers!DH,
           Managers!SendHalf, Managers!kdf_ck, ratchet_encrypt, BeforeEncrypt, NeedsSendRatchet,
           IsNone, dh_ratchet_send, kdf_rk, DH, SendHalf, kdf_ck
  <1>2. \A s, h, f : Managers!ratchet_decrypt(s, h, f) = ratchet_decrypt(s, h, f)
    BY DEF Managers!ratchet_decrypt, Managers!NeedsRecvRatchet, Managers!IsNone,
           Managers!dh_ratchet_recv, Managers!NoChain, Managers!RootOf, Managers!kdf_rk,
           Managers!DH, Managers!SendHalf, Managers!kdf_ck, Managers!RecvHalf,
           Managers!TakeKeyAt, Managers!try_skipped_message_keys, ratchet_decrypt,
           NeedsRecvRatchet, IsNone, dh_ratchet_recv, NoChain, RootOf, kdf_rk, DH, SendHalf,
           kdf_ck, RecvHalf, TakeKeyAt, try_skipped_message_keys
  <1>3. \A secret, own, remote :
            Managers!InitialState(secret, own, remote) = InitialState(secret, own, remote)
    BY DEF Managers!InitialState, Managers!kdf_rk, Managers!DH, Managers!NoChain,
           Managers!RootOf, InitialState, kdf_rk, DH, NoChain, RootOf
  <1>4. \A s : Managers!IsNone(s) = IsNone(s)
    BY DEF Managers!IsNone, IsNone
  <1>5. \A s : Managers!NeedsSendRatchet(s) = NeedsSendRatchet(s)
    BY DEF Managers!NeedsSendRatchet, Managers!IsNone, NeedsSendRatchet, IsNone
  <1>6. \A s, h : Managers!NeedsRecvRatchet(s, h) = NeedsRecvRatchet(s, h)
    BY DEF Managers!NeedsRecvRatchet, NeedsRecvRatchet
  <1>7. \A S : Managers!Cardinality(S) = Cardinality(S)
    BY DEF Managers!Cardinality, Cardinality
  <1> QED BY <1>1, <1>2, <1>3, <1>4, <1>5, <1>6, <1>7

Peers == 0 .. N - 1

\* What X3DH returns, and what a chain may start from.
Halves == [key : Nat, form : {"secret", "public"}]
SharedSecrets ==
    [dhs : (SUBSET Nat) \X (SUBSET Nat) \X (SUBSET Nat) \X SUBSET (SUBSET Nat),
     salt : Halves \X Halves \X SUBSET Halves]
Starts == SharedSecrets \cup {"none"}

LEMMA SecretTypes ==
    ASSUME NEW a \in Nat, NEW b \in Nat, NEW c \in Nat, NEW d \in Nat, NEW opk \in SUBSET Nat
    PROVE  /\ Managers!x3dh_send(a, b, c, d, opk) \in Starts
           /\ Managers!x3dh_recv(a, b, c, d, opk) \in Starts
  <1>1. Managers!x3dh_send(a, b, c, d, opk) \in SharedSecrets
    BY DEF Managers!x3dh_send, Managers!SharedSecret, Managers!DH, Managers!Secret,
           Managers!Public, SharedSecrets, Halves
  <1>2. Managers!x3dh_recv(a, b, c, d, opk) \in SharedSecrets
    BY DEF Managers!x3dh_recv, Managers!SharedSecret, Managers!DH, Managers!Secret,
           Managers!Public, SharedSecrets, Halves
  <1> QED BY <1>1, <1>2 DEF Starts

\* A session of p for q, when "top" is the next key pair and "own" says whose they are.
SessionFits(s, p, q, top, own) ==
    /\ s \in RatchetStates(Starts)
    /\ s.dh < top /\ s.remote < top
    /\ own[s.dh] = p
    /\ own[s.remote] = q \/ (own[s.remote] = p /\ IsNone(s.recv))
    /\ ~ IsNone(s.send) => CutWith(s.send, s.dh) /\ s.send.step = s.send_n

KeyPairs ==
    /\ unused \in Nat /\ 3 * N <= unused /\ unused <= ManagerMaxKeys
    /\ owner \in [0 .. unused - 1 -> Peers]
    /\ bundle \in [Peers -> [ik : Nat, spk : Nat, opk : Nat]]
    /\ pending \in [Peers -> SUBSET Nat]

InitiationsFit ==
    \A i \in inits :
        /\ i.from \in Peers /\ i.to \in Peers /\ i.from # i.to
        /\ i.ek \in 0 .. unused - 1 /\ owner[i.ek] = i.from

\* No key pair is in use in two sessions.
SessionsFit ==
    /\ sessions \in [Peers -> [Peers -> SUBSET RatchetStates(Starts)]]
    /\ \A p, q \in Peers : \A s \in sessions[p][q] :
           /\ p # q
           /\ SessionFits(s, p, q, unused, owner)
           /\ \A t \in sessions[p][q] : s = t
    /\ \A p1, q1, p2, q2 \in Peers : \A s1 \in sessions[p1][q1], s2 \in sessions[p2][q2] :
           s1.dh = s2.dh => p1 = p2 /\ q1 = q2

Wire == [from : Peers, to : Peers, header : RatchetHeaders, key : ChainKeys(Starts), body : Nat]

\* As SentInv of two parties, for all sessions there are.
PostedFits ==
    /\ IsFiniteSet(posted)
    /\ posted \subseteq Wire
    /\ \A m \in posted :
           /\ m.from # m.to
           /\ m.header.dh < unused /\ owner[m.header.dh] = m.from
           /\ CutWith(m.key, m.header.dh) /\ m.key.step = m.header.n
    /\ \A m1, m2 \in posted :
           m1.header.dh = m2.header.dh /\ m1.header.n = m2.header.n => m1 = m2

NumbersBelow ==
    \A p, q \in Peers : \A s \in sessions[p][q] : \A m \in posted :
        m.header.dh = s.dh => ~ IsNone(s.send) /\ m.header.n < s.send_n

ManagersInv == KeyPairs /\ InitiationsFit /\ SessionsFit /\ PostedFits /\ NumbersBelow

\* Every peer has its bundle and no session.
LEMMA InitManagers == Managers!Init => ManagersInv
  <1> SUFFICES ASSUME Managers!Init PROVE ManagersInv
    OBVIOUS
  <1>1. N \in Nat \ {0} /\ 3 * N <= ManagerMaxKeys /\ ManagerMaxKeys \in Nat
    BY ManagersAssumption DEF Managers!SessionAssumption
  <1>2. /\ bundle = [p \in Peers |-> [ik |-> p, spk |-> N + p, opk |-> 2 * N + p]]
        /\ pending = [p \in Peers |-> {2 * N + p}]
        /\ sessions = [p \in Peers |-> [q \in Peers |-> {}]]
        /\ inits = {} /\ posted = {} /\ unused = 3 * N
        /\ owner = [k \in 0 .. 3 * N - 1 |-> k % N]
    BY DEF Managers!Init, Managers!Peers, Peers
  <1>3. KeyPairs
    <2>1. \A k \in 0 .. 3 * N - 1 : k % N \in Peers
      BY <1>1 DEF Peers
    <2>2. \A p \in Peers : p \in Nat /\ N + p \in Nat /\ 2 * N + p \in Nat
      BY <1>1 DEF Peers
    <2>3. bundle \in [Peers -> [ik : Nat, spk : Nat, opk : Nat]]
      BY <1>2, <2>2
    <2>4. pending \in [Peers -> SUBSET Nat]
      BY <1>2, <2>2
    <2>5. owner \in [0 .. unused - 1 -> Peers]
      BY <1>2, <2>1
    <2>6. unused \in Nat /\ 3 * N <= unused /\ unused <= ManagerMaxKeys
      BY <1>1, <1>2
    <2> QED BY <2>3, <2>4, <2>5, <2>6 DEF KeyPairs
  <1>4. SessionsFit
    BY <1>2 DEF SessionsFit
  <1>5. PostedFits
    BY <1>2, FS_EmptySet DEF PostedFits
  <1> QED BY <1>2, <1>3, <1>4, <1>5 DEF ManagersInv, InitiationsFit, NumbersBelow

\* Key pairs that peer p generates are numbered on from those there are, and are p's.
Grown(p) ==
    /\ unused' \in Nat /\ unused <= unused' /\ unused' <= ManagerMaxKeys
    /\ owner' \in [0 .. unused' - 1 -> Peers]
    /\ \A k \in 0 .. unused - 1 : owner'[k] = owner[k]
    /\ \A k \in unused .. unused' - 1 : owner'[k] = p

LEMMA GenerateGrows ==
    ASSUME KeyPairs, NEW p \in Peers, NEW n \in Nat, Managers!Generate(p, n)
    PROVE  Grown(p) /\ unused' = unused + n
  <1>1. /\ unused \in Nat /\ owner \in [0 .. unused - 1 -> Peers]
        /\ unused + n <= ManagerMaxKeys /\ unused' = unused + n
        /\ owner' = [k \in 0 .. unused + n - 1 |-> IF k < unused THEN owner[k] ELSE p]
    BY DEF KeyPairs, Managers!Generate
  <1> QED BY <1>1 DEF Grown

LEMMA BelowNumber == ASSUME NEW k \in Nat, NEW n \in Nat, k < n PROVE k \in 0 .. n - 1
  OBVIOUS

\* Whatever was said of older key pairs still holds.
LEMMA GrownKeeps ==
    ASSUME ManagersInv, NEW p \in Peers, Grown(p)
    PROVE  /\ \A s, p1, q1 : SessionFits(s, p1, q1, unused, owner) => SessionFits(s, p1, q1, unused', owner')
           /\ \A m \in posted : m.header.dh < unused' /\ owner'[m.header.dh] = m.from
           /\ \A i \in inits : i.ek \in 0 .. unused' - 1 /\ owner'[i.ek] = i.from
  <1>1. unused \in Nat /\ unused' \in Nat /\ unused <= unused'
    BY DEF ManagersInv, KeyPairs, Grown
  <1>2. ASSUME NEW k \in Nat, k < unused
        PROVE  k \in 0 .. unused' - 1 /\ k < unused' /\ owner'[k] = owner[k]
    <2>1. k < unused'
      BY <1>1, <1>2
    <2>2. k \in 0 .. unused - 1
      BY <1>1, <1>2, BelowNumber
    <2>3. k \in 0 .. unused' - 1
      BY <1>1, <2>1, BelowNumber
    <2> QED BY <2>1, <2>2, <2>3 DEF Grown
  <1>3. ASSUME NEW s, NEW p1, NEW q1, SessionFits(s, p1, q1, unused, owner)
        PROVE  SessionFits(s, p1, q1, unused', owner')
    <2>1. /\ s.dh \in Nat /\ s.remote \in Nat
          /\ s.dh < unused /\ s.remote < unused
      BY <1>3 DEF SessionFits, RatchetStates
    <2>2. /\ s.dh < unused' /\ owner'[s.dh] = owner[s.dh]
          /\ s.remote < unused' /\ owner'[s.remote] = owner[s.remote]
      BY <1>2, <2>1
    <2> QED BY <1>3, <2>2 DEF SessionFits
  <1>4. ASSUME NEW m \in posted
        PROVE  m.header.dh < unused' /\ owner'[m.header.dh] = m.from
    <2>1. m.header.dh \in Nat /\ m.header.dh < unused /\ owner[m.header.dh] = m.from
      BY DEF ManagersInv, PostedFits, Wire, RatchetHeaders
    <2> QED BY <1>2, <2>1
  <1>5. ASSUME NEW i \in inits
        PROVE  i.ek \in 0 .. unused' - 1 /\ owner'[i.ek] = i.from
    <2>1. i.ek \in 0 .. unused - 1 /\ owner[i.ek] = i.from
      BY DEF ManagersInv, InitiationsFit
    <2>2. i.ek \in Nat /\ i.ek < unused
      BY <1>1, <2>1
    <2> QED BY <1>2, <2>1, <2>2
  <1> QED BY <1>3, <1>4, <1>5

\* A session is set up or moves on: its key pair is new or the one it had.
LEMMA SessionMoves ==
    ASSUME ManagersInv, NEW p \in Peers, NEW q \in Peers, p # q, Grown(p), NEW t,
           sessions' = [sessions EXCEPT ![p][q] = {t}],
           SessionFits(t, p, q, unused', owner'),
           t.dh >= unused \/ \E s \in sessions[p][q] : s.dh = t.dh
    PROVE  SessionsFit'
  <1>1. sessions \in [Peers -> [Peers -> SUBSET RatchetStates(Starts)]] /\ unused \in Nat
    BY DEF ManagersInv, SessionsFit, KeyPairs
  <1>2. t \in RatchetStates(Starts) /\ t.dh \in Nat
    BY DEF SessionFits, RatchetStates
  <1>3. sessions' \in [Peers -> [Peers -> SUBSET RatchetStates(Starts)]]
    BY <1>1, <1>2
  <1>4. \A p1, q1 \in Peers :
            sessions'[p1][q1] = IF p1 = p /\ q1 = q THEN {t} ELSE sessions[p1][q1]
    BY <1>1
  <1>5. ASSUME NEW p1 \in Peers, NEW q1 \in Peers, NEW s \in sessions'[p1][q1]
        PROVE  /\ p1 # q1
               /\ SessionFits(s, p1, q1, unused', owner')
               /\ \A r \in sessions'[p1][q1] : s = r
    <2>1. CASE p1 = p /\ q1 = q
      BY <1>4, <1>5, <2>1
    <2>2. CASE ~ (p1 = p /\ q1 = q)
      <3>1. sessions'[p1][q1] = sessions[p1][q1] /\ s \in sessions[p1][q1]
        BY <1>4, <1>5, <2>2
      <3>2. /\ p1 # q1 /\ SessionFits(s, p1, q1, unused, owner)
            /\ \A r \in sessions[p1][q1] : s = r
        BY <3>1 DEF ManagersInv, SessionsFit
      <3>3. SessionFits(s, p1, q1, unused', owner')
        BY <3>2, GrownKeeps
      <3> QED BY <3>1, <3>2, <3>3
    <2> QED BY <2>1, <2>2
  <1>6. ASSUME NEW p1 \in Peers, NEW q1 \in Peers, NEW s \in sessions[p1][q1], s.dh = t.dh
        PROVE  p1 = p /\ q1 = q
    <2>1. s.dh \in Nat /\ s.dh < unused
      BY <1>6 DEF ManagersInv, SessionsFit, SessionFits, RatchetStates
    <2>2. PICK r \in sessions[p][q] : r.dh = t.dh
      BY <1>1, <1>2, <1>6, <2>1
    <2> QED BY <1>6, <2>2 DEF ManagersInv, SessionsFit
  <1>7. ASSUME NEW p1 \in Peers, NEW q1 \in Peers, NEW p2 \in Peers, NEW q2 \in Peers,
               NEW s1 \in sessions'[p1][q1], NEW s2 \in sessions'[p2][q2], s1.dh = s2.dh
        PROVE  p1 = p2 /\ q1 = q2
    <2>1. CASE s1 \in sessions[p1][q1] /\ s2 \in sessions[p2][q2]
      BY <1>7, <2>1 DEF ManagersInv, SessionsFit
    <2>2. CASE s1 = t /\ p1 = p /\ q1 = q
      BY <1>4, <1>6, <1>7, <2>2
    <2>3. CASE s2 = t /\ p2 = p /\ q2 = q
      BY <1>4, <1>6, <1>7, <2>3
    <2> QED BY <1>4, <2>1, <2>2, <2>3
  <1> QED BY <1>3, <1>5, <1>7 DEF SessionsFit
\* One session is set up or moves on and nothing is sent.
LEMMA QuietMove ==
    ASSUME ManagersInv, NEW p \in Peers, NEW q \in Peers, p # q, Grown(p), NEW t,
           sessions' = [sessions EXCEPT ![p][q] = {t}],
           SessionFits(t, p, q, unused', owner'),
           t.dh >= unused \/ \E s \in sessions[p][q] :
               s.dh = t.dh /\ s.send = t.send /\ s.send_n = t.send_n,
           bundle' = bundle, pending' \in [Peers -> SUBSET Nat], InitiationsFit', posted' = posted
    PROVE  ManagersInv'
  <1>1. KeyPairs'
    <2>1. 3 * N <= unused' /\ unused' \in Nat /\ unused' <= ManagerMaxKeys
      <3>1. N \in Nat /\ 3 * N <= unused /\ unused \in Nat
        BY ManagersAssumption DEF ManagersInv, KeyPairs, Managers!SessionAssumption
      <3>2. unused' \in Nat /\ unused <= unused' /\ unused' <= ManagerMaxKeys
        BY DEF Grown
      <3> QED BY <3>1, <3>2
    <2> QED BY <2>1 DEF ManagersInv, KeyPairs, Grown
  <1>2. SessionsFit'
    BY SessionMoves
  <1>3. PostedFits'
    BY GrownKeeps DEF ManagersInv, PostedFits
  <1>4. NumbersBelow'
    <2> SUFFICES ASSUME NEW p1 \in Peers, NEW q1 \in Peers, NEW s \in sessions'[p1][q1],
                        NEW m \in posted, m.header.dh = s.dh
                 PROVE  ~ IsNone(s.send) /\ m.header.n < s.send_n
      BY DEF NumbersBelow
    <2>1. sessions'[p1][q1] = IF p1 = p /\ q1 = q THEN {t} ELSE sessions[p1][q1]
      BY DEF ManagersInv, SessionsFit
    <2>2. CASE ~ (p1 = p /\ q1 = q)
      BY <2>1, <2>2 DEF ManagersInv, NumbersBelow
    <2>3. CASE p1 = p /\ q1 = q
      <3>1. m.header.dh \in Nat /\ m.header.dh < unused /\ unused \in Nat
        BY DEF ManagersInv, PostedFits, Wire, RatchetHeaders, KeyPairs
      <3>2. s = t
        BY <2>1, <2>3
      <3>3. PICK r \in sessions[p][q] : r.dh = t.dh /\ r.send = t.send /\ r.send_n = t.send_n
        BY <3>1, <3>2
      <3> QED BY <3>2, <3>3 DEF ManagersInv, NumbersBelow
    <2> QED BY <2>2, <2>3
  <1> QED BY <1>1, <1>2, <1>3, <1>4 DEF ManagersInv

LEMMA SamePeers == Managers!Peers = Peers
  BY DEF Managers!Peers, Peers

\* initiate_session draws three key pairs of its own and starts from the last two.
LEMMA InitiateKeeps ==
    ASSUME ManagersInv, NEW p \in Peers, NEW q \in Peers, p # q,
           NEW opk \in {{}, {bundle[q].opk}}, Managers!initiate_session(p, q, opk)
    PROVE  ManagersInv'
  <1> DEFINE secret == Managers!x3dh_send(bundle[p].ik, unused, bundle[q].ik, bundle[q].spk, opk)
             t == InitialState(secret, unused + 2, unused + 1)
             i == [from |-> p, to |-> q, ek |-> unused, opk_id |-> {}]
  <1>1. /\ unused \in Nat /\ bundle \in [Peers -> [ik : Nat, spk : Nat, opk : Nat]]
        /\ pending \in [Peers -> SUBSET Nat] /\ KeyPairs
    BY DEF ManagersInv, KeyPairs
  <1>2. /\ Managers!Generate(p, 3)
        /\ sessions' = [sessions EXCEPT ![p][q] = {t}]
        /\ inits' = inits \cup {i}
        /\ bundle' = bundle /\ pending' = pending /\ posted' = posted
    BY SameFunctions DEF Managers!initiate_session
  <1>3. Grown(p) /\ unused' = unused + 3
    BY <1>1, <1>2, GenerateGrows
  <1>4. secret \in Starts
    BY <1>1, SecretTypes
  <1> HIDE DEF secret
  <1>5. /\ t \in RatchetStates(Starts) /\ t.dh = unused + 2 /\ t.remote = unused + 1
        /\ IsNone(t.send) /\ IsNone(t.recv)
    <2>1. "none" \in Starts /\ unused + 2 \in Nat /\ unused + 1 \in Nat
      BY <1>1 DEF Starts
    <2> QED BY <1>4, <2>1, InitialStateType
  <1>6. owner'[unused] = p /\ owner'[unused + 1] = p /\ owner'[unused + 2] = p
    BY <1>1, <1>3 DEF Grown
  <1>7. SessionFits(t, p, q, unused', owner')
    BY <1>1, <1>3, <1>5, <1>6 DEF SessionFits
  <1>8. InitiationsFit'
    <2>1. unused \in 0 .. unused' - 1
      BY <1>1, <1>3
    <2> QED BY <1>2, <1>3, <1>6, <2>1, GrownKeeps DEF ManagersInv, InitiationsFit
  <1>9. t.dh >= unused
    BY <1>1, <1>5
  <1> HIDE DEF t
  <1> QED BY <1>1, <1>2, <1>3, <1>7, <1>8, <1>9, QuietMove

\* accept_session draws one key pair and starts against the initiator's ephemeral key.
LEMMA AcceptKeeps ==
    ASSUME ManagersInv, NEW i \in inits, Managers!accept_session(i)
    PROVE  ManagersInv'
  <1> DEFINE p == i.to
             q == i.from
             opk == i.opk_id \cap pending[p]
             secret == Managers!x3dh_recv(bundle[p].ik, bundle[p].spk, bundle[q].ik, i.ek, opk)
             t == InitialState(secret, unused, i.ek)
  <1>1. /\ unused \in Nat /\ bundle \in [Peers -> [ik : Nat, spk : Nat, opk : Nat]]
        /\ pending \in [Peers -> SUBSET Nat] /\ KeyPairs
    BY DEF ManagersInv, KeyPairs
  <1>2. /\ Managers!Generate(p, 1)
        /\ pending' = [pending EXCEPT ![p] = @ \ opk]
        /\ sessions' = [sessions EXCEPT ![p][q] = {t}]
        /\ inits' = inits /\ bundle' = bundle /\ posted' = posted
    BY SameFunctions DEF Managers!accept_session
  <1>3. /\ p \in Peers /\ q \in Peers /\ p # q
        /\ i.ek \in 0 .. unused - 1 /\ owner[i.ek] = q
    BY DEF ManagersInv, InitiationsFit
  <1>4. i.ek \in Nat /\ i.ek < unused
    BY <1>1, <1>3
  <1>5. Grown(p) /\ unused' = unused + 1
    BY <1>1, <1>2, <1>3, GenerateGrows
  <1>6. opk \in SUBSET Nat
    BY <1>1, <1>3
  <1> HIDE DEF opk
  <1>7. secret \in Starts
    BY <1>1, <1>3, <1>4, <1>6, SecretTypes
  <1> HIDE DEF secret
  <1>8. /\ t \in RatchetStates(Starts) /\ t.dh = unused /\ t.remote = i.ek
        /\ IsNone(t.send) /\ IsNone(t.recv)
    <2>1. "none" \in Starts
      BY DEF Starts
    <2> QED BY <1>1, <1>4, <1>7, <2>1, InitialStateType
  <1>9. owner'[unused] = p /\ owner'[i.ek] = q
    BY <1>1, <1>3, <1>5 DEF Grown
  <1>10. SessionFits(t, p, q, unused', owner')
    BY <1>1, <1>4, <1>5, <1>8, <1>9 DEF SessionFits
  <1>11. InitiationsFit'
    BY <1>2, <1>3, <1>5, GrownKeeps DEF ManagersInv, InitiationsFit
  <1>12. pending' \in [Peers -> SUBSET Nat]
    BY <1>1, <1>2
  <1>13. t.dh >= unused
    BY <1>1, <1>8
  <1> HIDE DEF t, p, q
  <1> QED BY <1>2, <1>3, <1>5, <1>10, <1>11, <1>12, <1>13, QuietMove

\* decrypt_message moves the receiving side, to the sender's key if it is a new one.
LEMMA ManagerDecryptKeeps ==
    ASSUME ManagersInv, NEW m \in posted, Managers!decrypt_message(m)
    PROVE  ManagersInv'
  <1> DEFINE p == m.to
             q == m.from
  <1>1. PICK s \in sessions[p][q] :
            /\ Managers!Generate(p, IF NeedsRecvRatchet(s, m.header) THEN 1 ELSE 0)
            /\ sessions' = [sessions EXCEPT ![p][q] = {ratchet_decrypt(s, m.header, unused).state}]
            /\ UNCHANGED <<bundle, pending, inits, posted, derived>>
    BY SameFunctions DEF Managers!decrypt_message
  <1> DEFINE t == ratchet_decrypt(s, m.header, unused).state
             drawn == IF NeedsRecvRatchet(s, m.header) THEN 1 ELSE 0
  <1>2. /\ p \in Peers /\ q \in Peers /\ p # q
        /\ m.header \in RatchetHeaders /\ m.header.dh \in Nat
        /\ m.header.dh < unused /\ owner[m.header.dh] = q
    BY DEF ManagersInv, PostedFits, Wire, RatchetHeaders
  <1>3. KeyPairs /\ unused \in Nat /\ pending \in [Peers -> SUBSET Nat]
    BY DEF ManagersInv, KeyPairs
  <1>4. Grown(p) /\ unused' = unused + drawn
    <2>1. drawn \in Nat
      OBVIOUS
    <2>2. Managers!Generate(p, drawn)
      BY <1>1
    <2> HIDE DEF drawn
    <2> QED BY <1>2, <1>3, <2>1, <2>2, GenerateGrows
  <1>5. /\ s \in RatchetStates(Starts) /\ s.dh \in Nat
        /\ SessionFits(s, p, q, unused, owner)
    BY <1>2 DEF ManagersInv, SessionsFit, SessionFits, RatchetStates
  <1>6. /\ t \in RatchetStates(Starts)
        /\ ~ NeedsRecvRatchet(s, m.header) =>
              t.dh = s.dh /\ t.remote = s.remote /\ t.send = s.send /\ t.send_n = s.send_n
        /\ NeedsRecvRatchet(s, m.header) =>
              /\ t.dh = unused /\ t.remote = m.header.dh /\ t.send_n = 0
              /\ CutWith(t.send, unused) /\ t.send.step = 0
    BY <1>2, <1>3, <1>5, DecryptFacts
  <1>7. sessions' = [sessions EXCEPT ![p][q] = {t}]
    BY <1>1
  <1> HIDE DEF t
  <1>8. t.remote = m.header.dh
    BY <1>6 DEF NeedsRecvRatchet
  <1>9. m.header.dh < unused' /\ owner'[m.header.dh] = q
    BY <1>2, <1>4, GrownKeeps
  <1>10. SessionFits(t, p, q, unused', owner')
    <2>1. CASE NeedsRecvRatchet(s, m.header)
      <3>1. unused' = unused + 1 /\ t.dh = unused
        BY <1>4, <1>6, <2>1
      <3>2. unused \in unused .. unused' - 1 /\ unused < unused'
        BY <1>3, <3>1
      <3>3. owner'[unused] = p
        BY <1>4, <3>2 DEF Grown
      <3> QED BY <1>6, <1>8, <1>9, <2>1, <3>1, <3>2, <3>3 DEF SessionFits
    <2>2. CASE ~ NeedsRecvRatchet(s, m.header)
      <3>1. SessionFits(s, p, q, unused', owner')
        BY <1>2, <1>4, <1>5, GrownKeeps
      <3> QED BY <1>6, <1>8, <1>9, <2>2, <3>1 DEF SessionFits
    <2> QED BY <2>1, <2>2
  <1>11. t.dh >= unused \/ \E r \in sessions[p][q] :
            r.dh = t.dh /\ r.send = t.send /\ r.send_n = t.send_n
    BY <1>3, <1>6
  <1>12. InitiationsFit'
    BY <1>1, <1>2, <1>4, GrownKeeps DEF ManagersInv, InitiationsFit
  <1>13. bundle' = bundle /\ pending' \in [Peers -> SUBSET Nat] /\ posted' = posted
    BY <1>1, <1>3
  <1> HIDE DEF p, q, drawn
  <1> QED BY <1>2, <1>4, <1>7, <1>10, <1>11, <1>12, <1>13, QuietMove

\* encrypt_message sends under the session's chain, or under a new one cut with a key
\* pair of its own.
LEMMA ManagerEncryptKeeps ==
    ASSUME ManagersInv, NEW p \in Peers, NEW q \in Peers, Managers!encrypt_message(p, q)
    PROVE  ManagersInv'
  <1>1. PICK s \in sessions[p][q] :
            LET r == ratchet_encrypt(s, unused) IN
            /\ Managers!Generate(p, IF NeedsSendRatchet(s) THEN 1 ELSE 0)
            /\ sessions' = [sessions EXCEPT ![p][q] = {r.state}]
            /\ posted' = posted \cup {[from |-> p, to |-> q, header |-> r.header, key |-> r.key,
                                      body |-> Cardinality(posted)]}
            /\ UNCHANGED <<bundle, pending, inits, derived>>
    BY SameFunctions DEF Managers!encrypt_message
  <1> DEFINE t == BeforeEncrypt(s, unused)
             r == ratchet_encrypt(s, unused)
             m == [from |-> p, to |-> q, header |-> r.header, key |-> r.key,
                   body |-> Cardinality(posted)]
             drawn == IF NeedsSendRatchet(s) THEN 1 ELSE 0
  <1>2. KeyPairs /\ unused \in Nat
    BY DEF ManagersInv, KeyPairs
  <1>3. /\ p # q /\ s \in RatchetStates(Starts) /\ s.dh \in Nat /\ s.remote \in Nat
        /\ s.dh < unused /\ s.remote < unused /\ s.send_n \in Nat
        /\ SessionFits(s, p, q, unused, owner)
        /\ ~ IsNone(s.send) => CutWith(s.send, s.dh) /\ s.send.step = s.send_n
    BY DEF ManagersInv, SessionsFit, SessionFits, RatchetStates
  <1>4. Grown(p) /\ unused' = unused + drawn
    <2>1. drawn \in Nat
      OBVIOUS
    <2>2. Managers!Generate(p, drawn)
      BY <1>1
    <2> HIDE DEF drawn
    <2> QED BY <1>2, <2>1, <2>2, GenerateGrows
  <1>5. /\ NeedsSendRatchet(s) => t.dh = unused /\ t.send_n = 0
        /\ ~ NeedsSendRatchet(s) => t = s
        /\ t.dh \in Nat /\ t.send_n \in Nat
        /\ r.state \in RatchetStates(Starts) /\ r.state.dh = t.dh /\ r.state.remote = s.remote
        /\ r.state.send_n = t.send_n + 1
        /\ CutWith(r.state.send, t.dh) /\ r.state.send.step = t.send_n + 1
        /\ r.header \in RatchetHeaders /\ r.header.dh = t.dh /\ r.header.n = t.send_n
        /\ r.key \in ChainKeys(Starts) /\ CutWith(r.key, t.dh) /\ r.key.step = t.send_n
        /\ r.state.recv = s.recv
    <2>1. t \in RatchetStates(Starts)
      BY <1>2, <1>3, EncryptFacts
    <2>2. t.dh \in Nat /\ t.send_n \in Nat
      BY <2>1 DEF RatchetStates
    <2> QED BY <1>2, <1>3, <2>2, EncryptFacts
  <1>6. sessions' = [sessions EXCEPT ![p][q] = {r.state}] /\ posted' = posted \cup {m}
    BY <1>1
  <1> HIDE DEF t, r
  <1>7. /\ NeedsSendRatchet(s) => t.dh = unused /\ unused' = unused + 1
        /\ ~ NeedsSendRatchet(s) => t.dh = s.dh /\ t.send_n = s.send_n /\ ~ IsNone(s.send)
    BY <1>4, <1>5 DEF NeedsSendRatchet
  <1>8. t.dh < unused' /\ owner'[t.dh] = p /\ SessionFits(s, p, q, unused', owner')
    <2>1. SessionFits(s, p, q, unused', owner')
      BY <1>3, <1>4, GrownKeeps
    <2>2. CASE NeedsSendRatchet(s)
      <3>1. unused \in unused .. unused' - 1 /\ unused < unused'
        BY <1>2, <1>7, <2>2
      <3> QED BY <1>4, <1>7, <2>1, <2>2, <3>1 DEF Grown
    <2>3. CASE ~ NeedsSendRatchet(s)
      BY <1>7, <2>1, <2>3 DEF SessionFits
    <2> QED BY <2>2, <2>3
  <1>9. SessionFits(r.state, p, q, unused', owner')
    BY <1>5, <1>8 DEF SessionFits
  <1>10. r.state.dh >= unused \/ \E s2 \in sessions[p][q] : s2.dh = r.state.dh
    BY <1>2, <1>5, <1>7
  <1>11. SessionsFit'
    <2> DEFINE u == r.state
    <2> HIDE DEF u, drawn
    <2>1. /\ sessions' = [sessions EXCEPT ![p][q] = {u}] /\ SessionFits(u, p, q, unused', owner')
          /\ u.dh >= unused \/ \E s2 \in sessions[p][q] : s2.dh = u.dh
      BY <1>6, <1>9, <1>10 DEF u
    <2> QED BY <1>3, <1>4, <2>1, SessionMoves
  <1>12. \A p1, q1 \in Peers :
             sessions'[p1][q1] = IF p1 = p /\ q1 = q THEN {r.state} ELSE sessions[p1][q1]
    BY <1>6 DEF ManagersInv, SessionsFit
  <1>13. \A p1, q1 \in Peers : \A s2 \in sessions[p1][q1] :
             s2.dh = t.dh => p1 = p /\ q1 = q /\ ~ NeedsSendRatchet(s)
    <2> SUFFICES ASSUME NEW p1 \in Peers, NEW q1 \in Peers, NEW s2 \in sessions[p1][q1],
                        s2.dh = t.dh
                 PROVE  p1 = p /\ q1 = q /\ ~ NeedsSendRatchet(s)
      OBVIOUS
    <2>1. s2.dh \in Nat /\ s2.dh < unused
      BY DEF ManagersInv, SessionsFit, SessionFits, RatchetStates
    <2>2. ~ NeedsSendRatchet(s)
      BY <1>2, <1>7, <2>1
    <2> QED BY <1>7, <2>2 DEF ManagersInv, SessionsFit
  <1>14. \A m2 \in posted :
             /\ m2.header.dh \in Nat /\ m2.header.n \in Nat /\ m2.header.dh < unused
             /\ m2.header.dh = t.dh => ~ NeedsSendRatchet(s) /\ m2.header.n < t.send_n
    <2> SUFFICES ASSUME NEW m2 \in posted
                 PROVE  /\ m2.header.dh \in Nat /\ m2.header.n \in Nat /\ m2.header.dh < unused
                        /\ m2.header.dh = t.dh => ~ NeedsSendRatchet(s) /\ m2.header.n < t.send_n
      OBVIOUS
    <2>1. m2.header.dh \in Nat /\ m2.header.n \in Nat /\ m2.header.dh < unused
      BY DEF ManagersInv, PostedFits, Wire, RatchetHeaders
    <2>2. ASSUME m2.header.dh = t.dh PROVE ~ NeedsSendRatchet(s) /\ m2.header.n < t.send_n
      <3>1. ~ NeedsSendRatchet(s)
        BY <1>2, <1>7, <2>1, <2>2
      <3> QED BY <1>7, <2>2, <3>1 DEF ManagersInv, NumbersBelow
    <2> QED BY <2>1, <2>2
  <1>15. /\ IsFiniteSet(posted) /\ Cardinality(posted) \in Nat /\ IsFiniteSet(posted')
    BY <1>6, FS_AddElement, FS_CardinalityType DEF ManagersInv, PostedFits
  <1>16. /\ m \in Wire /\ m.from = p /\ m.from # m.to /\ m.header.dh = t.dh
         /\ m.header.n = t.send_n /\ m.key = r.key
    BY <1>3, <1>5, <1>15 DEF Wire
  <1> HIDE DEF m, drawn
  <1>17. PostedFits'
    <2>1. posted' \subseteq Wire
      BY <1>6, <1>16 DEF ManagersInv, PostedFits
    <2>2. ASSUME NEW m2 \in posted'
          PROVE  /\ m2.from # m2.to
                 /\ m2.header.dh < unused' /\ owner'[m2.header.dh] = m2.from
                 /\ CutWith(m2.key, m2.header.dh) /\ m2.key.step = m2.header.n
      <3>1. CASE m2 \in posted
        BY <1>4, <3>1, GrownKeeps DEF ManagersInv, PostedFits
      <3>2. CASE m2 = m
        BY <1>5, <1>8, <1>16, <3>2
      <3> QED BY <1>6, <2>2, <3>1, <3>2
    <2>3. \A m1, m2 \in posted' :
              m1.header.dh = m2.header.dh /\ m1.header.n = m2.header.n => m1 = m2
      <3>1. \A m2 \in posted : ~ (m2.header.dh = t.dh /\ m2.header.n = t.send_n)
        BY <1>5, <1>14
      <3> QED BY <1>6, <1>16, <3>1 DEF ManagersInv, PostedFits
    <2> QED BY <1>15, <2>1, <2>2, <2>3 DEF PostedFits
  <1>18. NumbersBelow'
    <2> SUFFICES ASSUME NEW p1 \in Peers, NEW q1 \in Peers, NEW s2 \in sessions'[p1][q1],
                        NEW m2 \in posted', m2.header.dh = s2.dh
                 PROVE  ~ IsNone(s2.send) /\ m2.header.n < s2.send_n
      BY DEF NumbersBelow
    <2>1. CASE p1 = p /\ q1 = q
      <3>1. s2 = r.state /\ ~ IsNone(s2.send) /\ s2.dh = t.dh /\ s2.send_n = t.send_n + 1
        BY <1>5, <1>12, <2>1, CutIsSome
      <3>2. CASE m2 = m
        BY <1>5, <1>16, <3>1, <3>2
      <3>3. CASE m2 \in posted
        BY <1>5, <1>14, <3>1, <3>3
      <3> QED BY <1>6, <3>2, <3>3
    <2>2. CASE ~ (p1 = p /\ q1 = q)
      <3>1. s2 \in sessions[p1][q1] /\ s2.dh # t.dh
        BY <1>12, <1>13, <2>2
      <3>2. m2 \in posted
        BY <1>6, <1>16, <3>1
      <3> QED BY <3>1, <3>2 DEF ManagersInv, NumbersBelow
    <2> QED BY <2>1, <2>2
  <1>19. KeyPairs' /\ InitiationsFit'
    <2>1. 3 * N <= unused' /\ unused' \in Nat /\ unused' <= ManagerMaxKeys
      BY <1>4, ManagersAssumption DEF ManagersInv, KeyPairs, Grown, Managers!SessionAssumption
    <2>2. KeyPairs'
      BY <1>1, <1>4, <2>1 DEF ManagersInv, KeyPairs, Grown
    <2> QED BY <1>1, <1>4, <2>2, GrownKeeps DEF ManagersInv, InitiationsFit
  <1> QED BY <1>11, <1>17, <1>18, <1>19 DEF ManagersInv

LEMMA NewPreKeys ==
    ASSUME NEW b \in [Peers -> [ik : Nat, spk : Nat, opk : Nat]], NEW p \in Peers,
           NEW spk \in Nat, NEW opk \in Nat
    PROVE  [b EXCEPT ![p].spk = spk, ![p].opk = opk] \in [Peers -> [ik : Nat, spk : Nat, opk : Nat]]
  OBVIOUS

\* ZeroCore::initialize forgets the sessions and draws new pre-keys.
LEMMA InitializeKeeps ==
    ASSUME ManagersInv, NEW p \in Peers, Managers!initialize(p)
    PROVE  ManagersInv'
  <1>1. /\ Managers!Generate(p, 2)
        /\ bundle' = [bundle EXCEPT ![p].spk = unused, ![p].opk = unused + 1]
        /\ pending' = [pending EXCEPT ![p] = {unused + 1}]
        /\ sessions' = [sessions EXCEPT ![p] = [q \in Peers |-> {}]]
        /\ inits' = inits /\ posted' = posted
    BY SamePeers DEF Managers!initialize
  <1>2. /\ KeyPairs /\ unused \in Nat /\ bundle \in [Peers -> [ik : Nat, spk : Nat, opk : Nat]]
        /\ pending \in [Peers -> SUBSET Nat]
        /\ sessions \in [Peers -> [Peers -> SUBSET RatchetStates(Starts)]]
    BY DEF ManagersInv, KeyPairs, SessionsFit
  <1>3. Grown(p)
    BY <1>1, <1>2, GenerateGrows
  <1>4. KeyPairs'
    <2>1. 3 * N <= unused' /\ unused' \in Nat /\ unused' <= ManagerMaxKeys
      BY <1>3, ManagersAssumption DEF ManagersInv, KeyPairs, Grown, Managers!SessionAssumption
    <2>2. bundle' \in [Peers -> [ik : Nat, spk : Nat, opk : Nat]]
      <3>1. unused + 1 \in Nat
        BY <1>2
      <3> QED BY <1>1, <1>2, <3>1, NewPreKeys
    <2>3. pending' \in [Peers -> SUBSET Nat]
      BY <1>1, <1>2
    <2> QED BY <1>3, <2>1, <2>2, <2>3 DEF KeyPairs, Grown
  <1>5. \A p1, q1 \in Peers : sessions'[p1][q1] \subseteq sessions[p1][q1]
    BY <1>1, <1>2
  <1>6. SessionsFit'
    <2>1. sessions' \in [Peers -> [Peers -> SUBSET RatchetStates(Starts)]]
      BY <1>1, <1>2
    <2>2. ASSUME NEW p1 \in Peers, NEW q1 \in Peers, NEW s \in sessions'[p1][q1]
          PROVE  /\ p1 # q1
                 /\ SessionFits(s, p1, q1, unused', owner')
                 /\ \A t \in sessions'[p1][q1] : s = t
      BY <1>3, <1>5, <2>2, GrownKeeps DEF ManagersInv, SessionsFit
    <2>3. \A p1, q1, p2, q2 \in Peers : \A s1 \in sessions'[p1][q1], s2 \in sessions'[p2][q2] :
              s1.dh = s2.dh => p1 = p2 /\ q1 = q2
      BY <1>5 DEF ManagersInv, SessionsFit
    <2> QED BY <2>1, <2>2, <2>3 DEF SessionsFit
  <1>7. PostedFits'
    BY <1>1, <1>3, GrownKeeps DEF ManagersInv, PostedFits
  <1>8. InitiationsFit'
    BY <1>1, <1>3, GrownKeeps DEF ManagersInv, InitiationsFit
  <1>9. NumbersBelow'
    BY <1>1, <1>5 DEF ManagersInv, NumbersBelow
  <1> QED BY <1>4, <1>6, <1>7, <1>8, <1>9 DEF ManagersInv

LEMMA ManagersKeep == ManagersInv /\ Managers!Next => ManagersInv'
  <1> SUFFICES ASSUME ManagersInv, Managers!Next PROVE ManagersInv'
    OBVIOUS
  <1>1. CASE \E p, q \in Managers!Peers : p # q /\
            \E opk \in {{}, {bundle[q].opk}} : Managers!initiate_session(p, q, opk)
    <2>1. PICK p \in Peers, q \in Peers : p # q /\
              \E opk \in {{}, {bundle[q].opk}} : Managers!initiate_session(p, q, opk)
      BY <1>1, SamePeers
    <2>2. PICK opk \in {{}, {bundle[q].opk}} : Managers!initiate_session(p, q, opk)
      BY <2>1
    <2> QED BY <2>1, <2>2, InitiateKeeps
  <1>2. CASE \E i \in inits : Managers!accept_session(i)
    BY <1>2, AcceptKeeps
  <1>3. CASE \E p, q \in Managers!Peers : Managers!encrypt_message(p, q)
    BY <1>3, SamePeers, ManagerEncryptKeeps
  <1>4. CASE \E m \in posted : Managers!decrypt_message(m)
    BY <1>4, ManagerDecryptKeeps
  <1>5. CASE \E p \in Managers!Peers : Managers!initialize(p)
    BY <1>5, SamePeers, InitializeKeeps
  <1> QED BY <1>1, <1>2, <1>3, <1>4, <1>5 DEF Managers!Next

\* The sessions of all peers stay consistent, whichever of the two takes the steps.
LEMMA ManagersInvariant == MCSpec => []ManagersInv
  <1>1. MCInit => ManagersInv
    BY InitManagers DEF MCInit
  <1>2. ManagersInv /\ [MCNext]_all_vars => ManagersInv'
    <2> SUFFICES ASSUME ManagersInv, [MCNext]_all_vars PROVE ManagersInv'
      OBVIOUS
    <2>1. CASE Managers!Next
      BY <2>1, ManagersKeep
    <2>2. CASE UNCHANGED manager_vars
      <3>1. /\ sessions' = sessions /\ posted' = posted /\ unused' = unused /\ owner' = owner
            /\ inits' = inits /\ bundle' = bundle /\ pending' = pending
        BY <2>2 DEF manager_vars
      <3>2. KeyPairs'
        BY <3>1 DEF ManagersInv, KeyPairs
      <3>3. InitiationsFit'
        BY <3>1 DEF ManagersInv, InitiationsFit
      <3>4. SessionsFit'
        BY <3>1 DEF ManagersInv, SessionsFit
      <3>5. PostedFits'
        BY <3>1 DEF ManagersInv, PostedFits
      <3>6. NumbersBelow'
        BY <3>1 DEF ManagersInv, NumbersBelow
      <3> QED BY <3>2, <3>3, <3>4, <3>5, <3>6 DEF ManagersInv
    <2> QED BY <2>1, <2>2 DEF MCNext, all_vars
  <1> QED BY <1>1, <1>2, PTL DEF MCSpec

\* Whatever sessions are replaced, accepted twice or forgotten, and however initiations
\* and messages are replayed, no two messages of any peers share a message key.
THEOREM SessionKeysNeverRepeat == MCSpec => []SessionKeysDiffer
  <1>1. ManagersInv => SessionKeysDiffer
    <2> SUFFICES ASSUME ManagersInv, NEW m1 \in posted, NEW m2 \in posted, m1.key = m2.key
                 PROVE  m1 = m2
      BY DEF SessionKeysDiffer, Managers!NoKeyReuse
    <2>1. m1.header.dh \in Nat /\ m2.header.dh \in Nat
      BY DEF ManagersInv, PostedFits, Wire, RatchetHeaders
    <2>2. PICK r1 \in 0 .. m1.header.dh - 1 : LastMixed(m1.key.root) = {m1.header.dh, r1}
      BY DEF ManagersInv, PostedFits, CutWith
    <2>3. PICK r2 \in 0 .. m2.header.dh - 1 : LastMixed(m2.key.root) = {m2.header.dh, r2}
      BY DEF ManagersInv, PostedFits, CutWith
    <2>4. {m1.header.dh, r1} = {m2.header.dh, r2}
      BY <2>2, <2>3
    <2>5. m1.header.dh = m2.header.dh
      BY <2>1, <2>4
    <2>6. m1.header.n = m2.header.n
      BY DEF ManagersInv, PostedFits
    <2> QED BY <2>5, <2>6 DEF ManagersInv, PostedFits
  <1> QED BY <1>1, ManagersInvariant, PTL

\* A session holds its own peer's key pair and the key of the peer it is filed under,
\* and there is at most one for each.
THEOREM KeysBelongToTheirPeers == MCSpec => []KeysHaveTheRightOwner
  <1>1. ManagersInv => Managers!TypeOK
    <2> SUFFICES ASSUME ManagersInv PROVE Managers!TypeOK
      OBVIOUS
    <2>1. /\ unused \in 3 * N .. ManagerMaxKeys
          /\ unused \in Nat /\ owner \in [0 .. unused - 1 -> Peers]
      BY ManagersAssumption DEF ManagersInv, KeyPairs, Managers!SessionAssumption
    <2>2. ASSUME NEW p \in Peers, NEW q \in Peers
          PROVE  Cardinality(sessions[p][q]) <= IF p = q THEN 0 ELSE 1
      <3>1. CASE sessions[p][q] = {}
        <4>1. Cardinality(sessions[p][q]) = 0
          BY <3>1, FS_EmptySet
        <4> QED BY <4>1
      <3>2. CASE sessions[p][q] # {}
        <4>1. PICK s \in sessions[p][q] : TRUE
          BY <3>2
        <4>2. p # q /\ sessions[p][q] = {s}
          BY <4>1 DEF ManagersInv, SessionsFit
        <4>3. Cardinality(sessions[p][q]) = 1
          BY <4>2, FS_Singleton
        <4> QED BY <4>2, <4>3
      <3> QED BY <3>1, <3>2
    <2>3. ASSUME NEW p \in Peers, NEW q \in Peers, NEW s \in sessions[p][q]
          PROVE  s.dh \in DOMAIN owner /\ s.remote \in DOMAIN owner
      <3>1. s.dh \in Nat /\ s.remote \in Nat /\ s.dh < unused /\ s.remote < unused
        BY DEF ManagersInv, SessionsFit, SessionFits, RatchetStates
      <3>2. s.dh \in 0 .. unused - 1 /\ s.remote \in 0 .. unused - 1
        BY <2>1, <3>1, BelowNumber
      <3> QED BY <2>1, <3>2
    <2> QED BY <2>1, <2>2, <2>3, SamePeers, SameFunctions DEF Managers!TypeOK
  <1>2. ManagersInv => Managers!KeysHaveTheRightOwner
    BY SamePeers, SameFunctions DEF ManagersInv, SessionsFit, SessionFits,
       Managers!KeysHaveTheRightOwner
  <1> QED BY <1>1, <1>2, ManagersInvariant, PTL DEF KeysHaveTheRightOwner

=============================================================================
