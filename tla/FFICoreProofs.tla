---------------------------- MODULE FFICoreProofs ----------------------------
(***************************************************************************)
(* For any number of threads and calls: a core, once initialized, is seen  *)
(* by every later call; a lock is held by the thread that is inside it;    *)
(* a thread that is alone finds its own last error.  The locks play no     *)
(* part in the first and the third, because every access to the core and   *)
(* to the last error is one step.  That the calls return at all            *)
(* (CallsReturn) is a liveness property and checked by TLC only.           *)
(***************************************************************************)
EXTENDS FFICore, TLAPS

\* A message is not None.
LEMMA FailIsSome ==
    ASSUME NEW t \in Threads, NEW why \in Whys
    PROVE  Fail(t, why) \in Messages /\ Fail(t, why) # None
  BY NoneAssumption DEF Fail, Messages

\* Where a call goes after its arguments: to ZERO_CORE only with an argument; a
\* reader of the core goes straight to LAST_ERROR only without one, and
\* zero_initialize only with a message.
LEMMA ArgumentCases ==
    ASSUME NEW t \in Threads, NEW c \in Calls, message[t] \in Messages \cup {None}
    PROVE  /\ AfterArguments(t, c).pc \in {"idle", "core", "err"}
           /\ AfterArguments(t, c).message \in Messages \cup {None}
           /\ AfterArguments(t, c).pc = "core" => c.arg # None
           /\ AfterArguments(t, c).pc = "err" /\ c.op = "initialize" =>
                 AfterArguments(t, c).message # None
           /\ AfterArguments(t, c).pc = "err" /\ c.op \in CoreReaders => c.arg = None
  <1>1. Fail(t, "null") \in Messages /\ Fail(t, "null") # None
    BY FailIsSome DEF Whys
  <1>2. Fail(t, "mnemonic") \in Messages /\ Fail(t, "mnemonic") # None
    BY FailIsSome DEF Whys
  <1>3. c.op \in CoreReaders => c.arg \in {"ok", None}
    BY DEF Calls, Initialize, Generate, Readers, CoreReaders
  <1>4. CASE c.arg = None
    BY <1>1, <1>4, NoneAssumption DEF AfterArguments
  <1>5. CASE c.arg # None /\ c.arg = "bad"
    BY <1>2, <1>3, <1>5 DEF AfterArguments
  <1>6. CASE c.arg = "ok" /\ c.op = "generate_mnemonic"
    BY <1>6, NoneAssumption DEF AfterArguments, CoreReaders
  <1>7. CASE c.arg # None /\ c.arg # "bad" /\ c.op = "last_error"
    BY <1>7 DEF AfterArguments, CoreReaders
  <1>8. CASE /\ c.arg # None /\ c.arg # "bad" /\ c.op # "last_error"
             /\ ~ (c.arg = "ok" /\ c.op = "generate_mnemonic")
    BY <1>8 DEF AfterArguments
  <1> QED
    BY <1>4, <1>5, <1>6, <1>7, <1>8

LEMMA InitIndInv == Init => IndInv
  <1> SUFFICES ASSUME Init
               PROVE  IndInv
    OBVIOUS
  <1>1. [op |-> "last_error", arg |-> None] \in Calls
    BY DEF Calls, Readers
  <1>2. CallState
    BY <1>1 DEF Init, CallState
  <1>3. CoreStays
    BY DEF Init, CoreStays
  <1>4. InitializedIsSeen
    BY DEF Init, InitializedIsSeen
  <1> QED
    BY <1>2, <1>3, <1>4 DEF IndInv

LEMMA BeginKeeps ==
    ASSUME IndInv, NEW t \in Threads, Begin(t)
    PROVE  IndInv'
  <1> USE DEF IndInv
  <1>1. PICK c \in Calls :
          /\ call' = [call EXCEPT ![t] = c]
          /\ pc' = [pc EXCEPT ![t] = AfterArguments(t, c).pc]
          /\ message' = [message EXCEPT ![t] = AfterArguments(t, c).message]
    BY DEF Begin
  <1> DEFINE a == AfterArguments(t, c)
  <1>2. /\ a.pc \in {"idle", "core", "err"}
        /\ a.message \in Messages \cup {None}
        /\ a.pc = "core" => c.arg # None
        /\ a.pc = "err" /\ c.op = "initialize" => a.message # None
        /\ a.pc = "err" /\ c.op \in CoreReaders => c.arg = None
    BY ArgumentCases DEF CallState
  <1>3. /\ begun_ready' = [begun_ready EXCEPT ![t] = ready]
        /\ UNCHANGED <<core, ready>>
    BY DEF Begin
  <1> HIDE DEF a
  <1>4. CallState'
    BY <1>1, <1>2, <1>3 DEF CallState, a
  <1>5. CoreStays'
    BY <1>1, <1>2, <1>3 DEF CallState, CoreStays, a
  <1>6. InitializedIsSeen'
    BY <1>1, <1>2, <1>3 DEF CallState, InitializedIsSeen, a
  <1> QED
    BY <1>4, <1>5, <1>6

LEMMA InCoreKeeps ==
    ASSUME IndInv, NEW t \in Threads, InCore(t)
    PROVE  IndInv'
  <1> USE DEF IndInv
  <1>0. /\ pc[t] = "in_core"
        /\ UNCHANGED <<call, ready, begun_ready>>
        /\ call[t].arg # None
    BY DEF InCore, CoreStays
  <1>1. CASE InitializeCore(t)
    <2>1. /\ core' = call[t].arg
          /\ pc' = [pc EXCEPT ![t] = "err"]
          /\ message' = [message EXCEPT ![t] = None]
          /\ call[t].op = "initialize"
      BY <1>1 DEF InitializeCore
    <2>2. CallState'
      BY <1>0, <2>1 DEF CallState
    <2>3. CoreStays'
      BY <1>0, <2>1 DEF CallState, CoreStays
    <2>4. InitializedIsSeen'
      BY <1>0, <2>1 DEF CallState, InitializedIsSeen, CoreReaders
    <2> QED
      BY <2>2, <2>3, <2>4
  <1>2. CASE ReadCore(t)
    <2> DEFINE m == CASE core = None -> Fail(t, "not initialized")
                      [] core # None /\ call[t].op = "get_id" -> None
                      [] OTHER -> Fail(t, "no session")
    <2>1. /\ core' = core
          /\ pc' = [pc EXCEPT ![t] = "err"]
          /\ message' = [message EXCEPT ![t] = m]
          /\ call[t].op # "initialize"
      BY <1>2 DEF ReadCore
    <2>2. /\ Fail(t, "not initialized") \in Messages
          /\ Fail(t, "no session") \in Messages
          /\ Fail(t, "no session") # Fail(t, "not initialized")
          /\ None # Fail(t, "not initialized")
      BY FailIsSome DEF Whys, Fail
    <2>3. m \in Messages \cup {None}
      BY <2>2
    <2>4. m = Fail(t, "not initialized") => core = None
      BY <2>2
    <2> HIDE DEF m
    <2>5. CallState'
      BY <1>0, <2>1, <2>3 DEF CallState
    <2>6. CoreStays'
      BY <1>0, <2>1 DEF CallState, CoreStays
    <2>7. InitializedIsSeen'
      BY <1>0, <2>1, <2>4 DEF CallState, InitializedIsSeen, CoreStays
    <2> QED
      BY <2>5, <2>6, <2>7
  <1>3. CASE PublicKey(t)
    <2>1. core' = core /\ call[t].op # "initialize"
      BY <1>3 DEF PublicKey
    <2>2. CASE core = None
      <3>1. /\ message' = [message EXCEPT ![t] = Fail(t, "not initialized")]
            /\ pc' = [pc EXCEPT ![t] = "err"]
        BY <1>3, <2>2 DEF PublicKey
      <3>2. CallState'
        BY <1>0, <3>1, FailIsSome DEF CallState, Whys
      <3>3. CoreStays'
        BY <1>0, <2>1, <3>1 DEF CallState, CoreStays
      <3>4. InitializedIsSeen'
        BY <1>0, <2>1, <2>2, <3>1 DEF CallState, InitializedIsSeen, CoreStays
      <3> QED
        BY <3>2, <3>3, <3>4
    <2>3. CASE core # None
      <3>1. message' = message /\ pc' = [pc EXCEPT ![t] = "idle"]
        BY <1>3, <2>3 DEF PublicKey
      <3> QED
        BY <1>0, <2>1, <3>1 DEF CallState, InitializedIsSeen, CoreStays
    <2> QED
      BY <2>2, <2>3
  <1> QED
    BY <1>1, <1>2, <1>3 DEF InCore

LEMMA LocksKeep ==
    ASSUME IndInv, NEW t \in Threads, LockCore(t) \/ LockErr(t)
    PROVE  IndInv'
  <1>1. /\ UNCHANGED <<core, call, message, ready, begun_ready>>
        /\ \/ pc[t] = "core" /\ pc' = [pc EXCEPT ![t] = "in_core"]
           \/ pc[t] = "err" /\ pc' = [pc EXCEPT ![t] = "in_err"]
    BY DEF LockCore, LockErr
  <1> QED
    BY <1>1 DEF IndInv, CallState, CoreStays, InitializedIsSeen

LEMMA InErrKeeps ==
    ASSUME IndInv, NEW t \in Threads, InErr(t)
    PROVE  IndInv'
  <1>1. /\ UNCHANGED <<core, call, message, begun_ready>>
        /\ pc[t] = "in_err" /\ pc' = [pc EXCEPT ![t] = "idle"]
    BY DEF InErr
  <1>2. /\ ready' \in BOOLEAN
        /\ ready => ready'
        /\ ready' => ready \/ (call[t].op = "initialize" /\ message[t] = None)
    <2>1. ready \in BOOLEAN
      BY DEF IndInv, CallState
    <2>2. \/ ready' = (ready \/ (call[t].op = "initialize" /\ message[t] = None))
          \/ ready' = ready
      BY Zenon DEF InErr, WriteError, zero_last_error
    <2>3. ready' \in BOOLEAN
      BY <2>1, <2>2
    <2>4. ready => ready'
      BY <2>1, <2>2
    <2>5. ready' => ready \/ (call[t].op = "initialize" /\ message[t] = None)
      BY <2>1, <2>2
    <2> QED
      BY <2>3, <2>4, <2>5
  <1> QED
    BY <1>1, <1>2 DEF IndInv, CallState, CoreStays, InitializedIsSeen

\* The inductive invariant: from the step in which an initialization installs its
\* core, the core is there for good.
THEOREM CoreInvariant == Spec => []IndInv
  <1>1. IndInv /\ [Next]_vars => IndInv'
    <2> SUFFICES ASSUME IndInv, [Next]_vars
                 PROVE  IndInv'
      OBVIOUS
    <2>1. CASE Next
      BY <2>1, BeginKeeps, InCoreKeeps, LocksKeep, InErrKeeps DEF Next, Step
    <2>2. CASE UNCHANGED vars
      BY <2>2 DEF vars, IndInv, CallState, CoreStays, InitializedIsSeen
    <2> QED
      BY <2>1, <2>2
  <1> QED
    BY InitIndInv, <1>1, PTL DEF Spec

\* After zero_initialize has returned ZERO_OK, no call that begins later in any
\* thread reports "Not initialized".
THEOREM InitializedStaysSeen == Spec => []InitializedIsSeen
  <1>1. IndInv => InitializedIsSeen
    BY DEF IndInv
  <1> QED
    BY CoreInvariant, <1>1, PTL

-----------------------------------------------------------------------------
\* What TypeOK needs beside itself: an initialization gets to ZERO_CORE only with an
\* identity.
LocksInv ==
    /\ TypeOK
    /\ \A t \in Threads : pc[t] \in {"core", "in_core"} /\ call[t].op = "initialize" =>
           call[t].arg \in Identities

\* With a mnemonic that does not parse, no call gets as far as ZERO_CORE.
LEMMA BadStopsEarly ==
    ASSUME NEW t \in Threads, NEW c \in Calls, c.op = "initialize",
           AfterArguments(t, c).pc = "core"
    PROVE  c.arg \in Identities
  <1>1. c.arg \in Identities \cup {None, "bad"}
    BY DEF Calls, Initialize, Generate, Readers, CoreReaders
  <1>2. c.arg # None /\ c.arg # "bad"
    BY NoneAssumption DEF AfterArguments, Silent
  <1> QED
    BY <1>1, <1>2

LEMMA InitLocks == Init => LocksInv
  <1>1. [op |-> "last_error", arg |-> None] \in Calls
    BY DEF Calls, Readers
  <1> QED
    BY <1>1, FFIAssumption DEF Init, LocksInv, TypeOK, locks

LEMMA BeginKeepsLocks ==
    ASSUME LocksInv, NEW t \in Threads, Begin(t)
    PROVE  LocksInv'
  <1> USE DEF LocksInv, TypeOK
  <1>1. PICK c \in Calls :
          /\ call' = [call EXCEPT ![t] = c]
          /\ pc' = [pc EXCEPT ![t] = AfterArguments(t, c).pc]
          /\ message' = [message EXCEPT ![t] = AfterArguments(t, c).message]
    BY DEF Begin
  <1>2. /\ pc[t] = "idle"
        /\ UNCHANGED <<core, last_error, core_lock, err_lock>>
    BY DEF Begin, locks
  <1> DEFINE a == AfterArguments(t, c)
  <1>3. /\ a.pc \in {"idle", "core", "err"}
        /\ a.message \in Messages \cup {None}
    BY ArgumentCases
  <1>4. a.pc = "core" /\ c.op = "initialize" => c.arg \in Identities
    BY BadStopsEarly
  <1> HIDE DEF a
  <1>5. pc' = [pc EXCEPT ![t] = a.pc] /\ message' = [message EXCEPT ![t] = a.message]
    BY <1>1 DEF a
  <1> QED
    BY <1>1, <1>2, <1>3, <1>4, <1>5

LEMMA StepKeepsLocks ==
    ASSUME LocksInv, NEW t \in Threads, Step(t)
    PROVE  LocksInv'
  <1> USE FFIAssumption DEF LocksInv, TypeOK
  <1>1. CASE LockCore(t)
    BY <1>1 DEF LockCore
  <1>2. CASE LockErr(t)
    BY <1>2 DEF LockErr
  <1>3. CASE InErr(t)
    <2>1. /\ pc[t] = "in_err" /\ pc' = [pc EXCEPT ![t] = "idle"]
          /\ err_lock' = Free
          /\ core_lock' = IF core_lock = t THEN Free ELSE core_lock
          /\ UNCHANGED <<core, call, message>>
      BY <1>3 DEF InErr
    <2>2. last_error' \in Messages \cup {None}
      BY <1>3 DEF InErr, WriteError, zero_last_error
    <2> QED
      BY <2>1, <2>2
  <1>4. CASE InCore(t)
    <2>1. pc[t] = "in_core" /\ UNCHANGED <<last_error, err_lock, call>>
      BY <1>4 DEF InCore
    <2>2. \/ /\ core_lock' = Free
             /\ pc' = [pc EXCEPT ![t] = "err"]
          \/ /\ core_lock' = core_lock
             /\ pc' = [pc EXCEPT ![t] = "err"]
          \/ /\ core_lock' = Free
             /\ pc' = [pc EXCEPT ![t] = "idle"]
      BY <1>4 DEF InCore, InitializeCore, ReadCore, PublicKey
    <2>3. core' \in Identities \cup {None}
      BY <1>4, <2>1 DEF InCore, InitializeCore, ReadCore, PublicKey
    <2>4. message' \in [Threads -> Messages \cup {None}]
      <3>1. /\ Fail(t, "not initialized") \in Messages
            /\ Fail(t, "no session") \in Messages
        BY FailIsSome DEF Whys
      <3> QED
        BY <1>4, <3>1 DEF InCore, InitializeCore, ReadCore, PublicKey
    <2> QED
      BY <2>1, <2>2, <2>3, <2>4
  <1> QED
    BY <1>1, <1>2, <1>3, <1>4 DEF Step

\* Each lock is held by the thread that is inside it and by no other, and a thread
\* that waits for ZERO_CORE never holds LAST_ERROR: the order in which
\* zero_identity_public_key_hex takes the two is the only one there is.
THEOREM LocksAreHeldInside == Spec => []TypeOK
  <1>1. LocksInv /\ [Next]_vars => LocksInv'
    <2>1. ASSUME LocksInv, Next PROVE LocksInv'
      BY <2>1, BeginKeepsLocks, StepKeepsLocks DEF Next
    <2>2. ASSUME LocksInv, UNCHANGED vars PROVE LocksInv'
      BY <2>2 DEF vars, locks, LocksInv, TypeOK
    <2> QED
      BY <2>1, <2>2
  <1>2. LocksInv => TypeOK
    BY DEF LocksInv
  <1> QED
    BY InitLocks, <1>1, <1>2, PTL DEF Spec

-----------------------------------------------------------------------------
Alone(t) == \A u \in Threads \ {t} : calls[u] = 0

\* The inductive invariant behind OwnError: with no other thread about, LAST_ERROR is
\* behind the thread's message only while the thread is on its way to write it.
OwnInv ==
    /\ pc \in [Threads -> {"idle", "core", "in_core", "err", "in_err"}]
    /\ call \in [Threads -> Calls]
    /\ message \in [Threads -> Messages \cup {None}]
    /\ got \in [Threads -> Messages \cup {None}]
    /\ last_error \in Messages \cup {None}
    /\ calls \in [Threads -> Nat]
    /\ \A t \in Threads : calls[t] = 0 => pc[t] = "idle"
    /\ \A t \in Threads : pc[t] \in {"core", "in_core"} => call[t].op # "last_error"
    /\ \A t \in Threads : Alone(t) =>
           /\ pc[t] \in {"idle", "core", "in_core"} \/ call[t].op = "last_error" =>
                  last_error = message[t]
           /\ pc[t] = "idle" /\ call[t] = [op |-> "last_error", arg |-> "ok"] =>
                  got[t] = message[t]

\* What a call does to the thread's message, and where zero_last_error goes.
LEMMA ArgumentsKeepMessage ==
    ASSUME NEW t \in Threads, NEW c \in Calls
    PROVE  /\ AfterArguments(t, c).pc \in {"idle", "core"} =>
                  AfterArguments(t, c).message = message[t]
           /\ c.op = "last_error" =>
                  /\ AfterArguments(t, c).message = message[t]
                  /\ AfterArguments(t, c).pc # "core"
           /\ c = [op |-> "last_error", arg |-> "ok"] => AfterArguments(t, c).pc = "err"
  <1>1. c.op = "last_error" => c.arg \in {"ok", None}
    BY DEF Calls, Initialize, Generate, Readers
  <1>2. None # "ok" /\ None # "bad"
    BY NoneAssumption
  <1>3. CASE c.arg = None
    BY <1>2, <1>3 DEF AfterArguments, Silent
  <1>4. CASE c.arg # None /\ c.arg = "bad"
    BY <1>1, <1>4 DEF AfterArguments
  <1>5. CASE c.arg # None /\ c.arg # "bad"
    BY <1>5 DEF AfterArguments
  <1> QED
    BY <1>3, <1>4, <1>5

LEMMA BeginKeepsOwn ==
    ASSUME OwnInv, NEW t \in Threads, Begin(t)
    PROVE  OwnInv'
  <1> USE DEF OwnInv
  <1>1. PICK c \in Calls :
          /\ call' = [call EXCEPT ![t] = c]
          /\ pc' = [pc EXCEPT ![t] = AfterArguments(t, c).pc]
          /\ message' = [message EXCEPT ![t] = AfterArguments(t, c).message]
    BY DEF Begin
  <1>2. /\ pc[t] = "idle"
        /\ calls' = [calls EXCEPT ![t] = @ + 1]
        /\ UNCHANGED <<last_error, got>>
    BY DEF Begin
  <1> DEFINE a == AfterArguments(t, c)
  <1>3. /\ a.pc \in {"idle", "core", "err"}
        /\ a.message \in Messages \cup {None}
    BY ArgumentCases
  <1>4. /\ a.pc \in {"idle", "core"} => a.message = message[t]
        /\ c.op = "last_error" => a.message = message[t] /\ a.pc # "core"
        /\ c = [op |-> "last_error", arg |-> "ok"] => a.pc = "err"
    BY ArgumentsKeepMessage
  <1> HIDE DEF a
  <1>5. pc' = [pc EXCEPT ![t] = a.pc] /\ message' = [message EXCEPT ![t] = a.message]
    BY <1>1 DEF a
  <1>6. \A u \in Threads : Alone(u)' => u = t /\ Alone(t)
    BY <1>2 DEF Alone
  <1> QED
    BY <1>1, <1>2, <1>3, <1>4, <1>5, <1>6

LEMMA StepKeepsOwn ==
    ASSUME OwnInv, NEW t \in Threads, Step(t)
    PROVE  OwnInv'
  <1> USE DEF OwnInv
  <1>0. calls' = calls /\ call' = call
    BY DEF Step, LockCore, InCore, LockErr, InErr
  <1>1. pc[t] # "idle"
    BY DEF Step, LockCore, InCore, LockErr, InErr
  <1>2. \A u \in Threads : Alone(u)' => u = t /\ Alone(t)
    BY <1>0, <1>1 DEF Alone
  <1>3. CASE LockCore(t) \/ LockErr(t)
    <2>1. /\ UNCHANGED <<last_error, message, got>>
          /\ \/ pc[t] = "core" /\ pc' = [pc EXCEPT ![t] = "in_core"]
             \/ pc[t] = "err" /\ pc' = [pc EXCEPT ![t] = "in_err"]
      BY <1>3 DEF LockCore, LockErr
    <2> QED
      BY <1>0, <1>1, <1>2, <2>1
  <1>4. CASE InCore(t)
    <2>1. pc[t] = "in_core" /\ UNCHANGED <<last_error, got>>
      BY <1>4 DEF InCore
    <2>2. \/ pc' = [pc EXCEPT ![t] = "err"]
          \/ pc' = [pc EXCEPT ![t] = "idle"] /\ message' = message
      BY <1>4 DEF InCore, InitializeCore, ReadCore, PublicKey
    <2>3. /\ message' \in [Threads -> Messages \cup {None}]
          /\ \A u \in Threads \ {t} : message'[u] = message[u]
      <3>1. /\ Fail(t, "not initialized") \in Messages
            /\ Fail(t, "no session") \in Messages
        BY FailIsSome DEF Whys
      <3> QED
        BY <1>4, <3>1 DEF InCore, InitializeCore, ReadCore, PublicKey
    <2> QED
      BY <1>0, <1>1, <1>2, <2>1, <2>2, <2>3
  <1>5. CASE InErr(t)
    <2>1. /\ pc[t] = "in_err" /\ pc' = [pc EXCEPT ![t] = "idle"]
          /\ UNCHANGED message
      BY <1>5 DEF InErr
    <2>2. CASE WriteError(t)
      BY <1>0, <1>1, <1>2, <2>1, <2>2 DEF WriteError
    <2>3. CASE zero_last_error(t)
      BY <1>0, <1>1, <1>2, <2>1, <2>3 DEF zero_last_error
    <2> QED
      BY <1>5, <2>2, <2>3 DEF InErr
  <1> QED
    BY <1>3, <1>4, <1>5 DEF Step

\* A thread that is alone with the library finds its own last error, whatever calls it
\* made with whatever arguments, and zero_last_error returns it.
THEOREM ErrorsAreOwn == Spec => []OwnError
  <1>1. Init => OwnInv
    <2>1. [op |-> "last_error", arg |-> None] \in Calls
      BY DEF Calls, Readers
    <2> QED
      BY <2>1 DEF Init, OwnInv
  <1>2. OwnInv /\ [Next]_vars => OwnInv'
    <2>1. ASSUME OwnInv, Next PROVE OwnInv'
      BY <2>1, BeginKeepsOwn, StepKeepsOwn DEF Next
    <2>2. ASSUME OwnInv, UNCHANGED vars PROVE OwnInv'
      BY <2>2 DEF vars, OwnInv, Alone
    <2> QED
      BY <2>1, <2>2
  <1>3. OwnInv => OwnError
    BY DEF OwnInv, OwnError, Alone
  <1> QED
    BY <1>1, <1>2, <1>3, PTL DEF Spec

=============================================================================
