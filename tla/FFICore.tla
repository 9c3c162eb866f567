------------------------------- MODULE FFICore -------------------------------
(***************************************************************************)
(* The C interface of the core (rust/src/ffi.rs), called from several      *)
(* threads.  Two global mutexes are involved: ZERO_CORE, around the one    *)
(* ZeroCore of the process, and LAST_ERROR, around the last error message. *)
(* Every exported function that touches either is a call here; a step is   *)
(* taking a lock, or the work done while holding it up to its release.     *)
(*                                                                         *)
(* No exported function initiates an E2EE session, so the session manager  *)
(* inside a ZeroCore has none and encrypt and decrypt fail with it too.    *)
(***************************************************************************)
EXTENDS Naturals, FiniteSets

CONSTANTS
    Threads,     \* the calling threads
    Identities,  \* the identities that valid mnemonics stand for
    Free,        \* an unlocked mutex
    None,        \* an Option that is None
    MaxCalls     \* bound: calls per thread

ASSUME FFIAssumption == Free \notin Threads /\ MaxCalls \in Nat

VARIABLES
    core,        \* ZERO_CORE: None or the identity of the ZeroCore
    last_error,  \* LAST_ERROR: None or a message
    core_lock,   \* holder of ZERO_CORE
    err_lock,    \* holder of LAST_ERROR
    pc,          \* where each thread is
    call,        \* the call each thread is in, or returned from last
    message,     \* what the thread's last reporting call puts into LAST_ERROR
    got,         \* what the thread's last zero_last_error returned
    calls,       \* calls each thread has made
    ready,       \* whether a zero_initialize has returned ZERO_OK
    begun_ready  \* "ready" when the thread's call began

locks == <<core_lock, err_lock>>
vars == <<core, last_error, locks, pc, call, message, got, calls, ready, begun_ready>>

Whys == {"null", "mnemonic", "not initialized", "no session"}
Messages == [by : Threads, why : Whys]
Fail(t, why) == [by |-> t, why |-> why]

ASSUME NoneAssumption == None \notin Identities \cup Messages \cup {"ok", "bad"}

CoreReaders == {"get_id", "encrypt", "decrypt", "public_key"}

\* An operation and, for zero_initialize, the identity; "arg" None is a null
\* pointer, "bad" a mnemonic that does not parse or cannot be generated.
Initialize == [op : {"initialize"}, arg : Identities \cup {None, "bad"}]
Generate == [op : {"generate_mnemonic"}, arg : {"ok", None, "bad"}]
Readers == [op : CoreReaders \cup {"last_error"}, arg : {"ok", None}]
Calls == Initialize \cup Generate \cup Readers

\* These two return ZERO_ERR_INVALID_ARG for a null pointer without a message.
Silent == {"public_key", "last_error"}

Init ==
    /\ core = None
    /\ last_error = None
    /\ core_lock = Free
    /\ err_lock = Free
    /\ pc = [t \in Threads |-> "idle"]
    /\ call = [t \in Threads |-> [op |-> "last_error", arg |-> None]]
    /\ message = [t \in Threads |-> None]
    /\ got = [t \in Threads |-> None]
    /\ calls = [t \in Threads |-> 0]
    /\ ready = FALSE
    /\ begun_ready = [t \in Threads |-> FALSE]

\* Where a call goes after its arguments have been looked at.
AfterArguments(t, c) ==
    CASE c.arg = None /\ c.op \in Silent -> [pc |-> "idle", message |-> message[t]]
      [] c.arg = None /\ c.op \notin Silent -> [pc |-> "err", message |-> Fail(t, "null")]
      [] c.arg = "bad" -> [pc |-> "err", message |-> Fail(t, "mnemonic")]
      [] c.arg = "ok" /\ c.op = "generate_mnemonic" -> [pc |-> "err", message |-> None]
      [] c.arg # None /\ c.op = "last_error" -> [pc |-> "err", message |-> message[t]]
      [] OTHER -> [pc |-> "core", message |-> message[t]]

Begin(t) ==
    /\ pc[t] = "idle"
    /\ calls[t] < MaxCalls
    /\ \E c \in Calls :
        /\ call' = [call EXCEPT ![t] = c]
        /\ pc' = [pc EXCEPT ![t] = AfterArguments(t, c).pc]
        /\ message' = [message EXCEPT ![t] = AfterArguments(t, c).message]
    /\ calls' = [calls EXCEPT ![t] = @ + 1]
    /\ begun_ready' = [begun_ready EXCEPT ![t] = ready]
    /\ UNCHANGED <<core, last_error, locks, got, ready>>

\* Slip: LAST_ERROR is taken first, and held until the end.
LockCoreAfterErr(t) ==
    /\ pc[t] = "core"
    /\ IF call[t].op = "get_id" /\ err_lock # t
       THEN err_lock = Free /\ err_lock' = t /\ UNCHANGED <<core_lock, pc>>
       ELSE core_lock = Free /\ core_lock' = t /\ pc' = [pc EXCEPT ![t] = "in_core"]
            /\ UNCHANGED err_lock
    /\ UNCHANGED <<core, last_error, call, message, got, calls, ready, begun_ready>>

LockCore(t) ==
    /\ pc[t] = "core"
    /\ core_lock = Free
    /\ core_lock' = t
    /\ pc' = [pc EXCEPT ![t] = "in_core"]
    /\ UNCHANGED <<core, last_error, err_lock, call, message, got, calls, ready, begun_ready>>

\* Slip: the old core is taken out, and the lock released, before the new one is
\* put in.
InitializeTakesFirst(t) ==
    /\ call[t].op = "initialize"
    /\ core' = IF core = None THEN call[t].arg ELSE None
    /\ core_lock' = Free
    /\ pc' = [pc EXCEPT ![t] = IF core = None THEN "err" ELSE "core"]
    /\ message' = [message EXCEPT ![t] = None]

\* The core, built before the lock was taken, replaces the one there was.
InitializeCore(t) ==
    /\ call[t].op = "initialize"
    /\ core' = call[t].arg
    /\ core_lock' = Free
    /\ pc' = [pc EXCEPT ![t] = "err"]
    /\ message' = [message EXCEPT ![t] = None]

\* zero_get_id; and zero_encrypt and zero_decrypt, which find no session.
ReadCore(t) ==
    /\ call[t].op \in {"get_id", "encrypt", "decrypt"}
    /\ core_lock' = Free
    /\ pc' = [pc EXCEPT ![t] = "err"]
    /\ message' = [message EXCEPT ![t] =
           CASE core = None -> Fail(t, "not initialized")
             [] core # None /\ call[t].op = "get_id" -> None
             [] OTHER -> Fail(t, "no session")]
    /\ UNCHANGED core

\* zero_identity_public_key_hex sets an error while it still holds ZERO_CORE, and
\* on success returns without clearing an older one.
PublicKey(t) ==
    /\ call[t].op = "public_key"
    /\ IF core = None
       THEN /\ message' = [message EXCEPT ![t] = Fail(t, "not initialized")]
            /\ pc' = [pc EXCEPT ![t] = "err"]
            /\ UNCHANGED core_lock
       ELSE /\ core_lock' = Free
            /\ pc' = [pc EXCEPT ![t] = "idle"]
            /\ UNCHANGED message
    /\ UNCHANGED core

InCore(t) ==
    /\ pc[t] = "in_core"
    /\ InitializeCore(t) \/ ReadCore(t) \/ PublicKey(t)
    /\ UNCHANGED <<last_error, err_lock, call, got, calls, ready, begun_ready>>

LockErr(t) ==
    /\ pc[t] = "err"
    /\ err_lock = Free
    /\ err_lock' = t
    /\ pc' = [pc EXCEPT ![t] = "in_err"]
    /\ UNCHANGED <<core, last_error, core_lock, call, message, got, calls, ready, begun_ready>>

\* Slip: a successful call leaves the old error in place.
WriteErrorOnly(t) ==
    /\ call[t].op # "last_error"
    /\ last_error' = IF message[t] = None THEN last_error ELSE message[t]
    /\ ready' = (ready \/ (call[t].op = "initialize" /\ message[t] = None))
    /\ UNCHANGED got

\* set_last_error or clear_last_error; the call's return value follows from it.
WriteError(t) ==
    /\ call[t].op # "last_error"
    /\ last_error' = message[t]
    /\ ready' = (ready \/ (call[t].op = "initialize" /\ message[t] = None))
    /\ UNCHANGED got

zero_last_error(t) ==
    /\ call[t].op = "last_error"
    /\ got' = [got EXCEPT ![t] = last_error]
    /\ UNCHANGED <<last_error, ready>>

\* The call returns; the guards it still holds are dropped.
InErr(t) ==
    /\ pc[t] = "in_err"
    /\ WriteError(t) \/ zero_last_error(t)
    /\ err_lock' = Free
    /\ core_lock' = IF core_lock = t THEN Free ELSE core_lock
    /\ pc' = [pc EXCEPT ![t] = "idle"]
    /\ UNCHANGED <<core, call, message, calls, begun_ready>>

Step(t) == LockCore(t) \/ InCore(t) \/ LockErr(t) \/ InErr(t)

Next == \E t \in Threads : Begin(t) \/ Step(t)

Spec == Init /\ [][Next]_vars

\* A thread inside a call is scheduled again.  Each thread makes finitely many
\* calls, so this is enough for a free lock to be taken.
FairSpec == Spec /\ \A t \in Threads : WF_vars(Step(t))

-----------------------------------------------------------------------------
\* A lock is held exactly by the thread that is at a step inside it.
TypeOK ==
    /\ core \in Identities \cup {None}
    /\ last_error \in Messages \cup {None}
    /\ message \in [Threads -> Messages \cup {None}]
    /\ call \in [Threads -> Calls]
    /\ pc \in [Threads -> {"idle", "core", "in_core", "err", "in_err"}]
    /\ \A t \in Threads : pc[t] = "in_core" => core_lock = t
    /\ \A t \in Threads : pc[t] = "in_err" <=> err_lock = t
    /\ \A t \in Threads : pc[t] = "idle" => core_lock # t

\* Once zero_initialize has returned ZERO_OK to any thread, no call that begins
\* afterwards, in any thread, reports "Not initialized", also while another thread
\* initializes again or fails to.
InitializedIsSeen ==
    \A t \in Threads :
        /\ call[t].op \in CoreReaders /\ call[t].arg # None
        /\ pc[t] \in {"err", "in_err"}
        /\ message[t] = Fail(t, "not initialized")
        => ~ begun_ready[t]

\* Every call returns: zero_identity_public_key_hex takes LAST_ERROR while it holds
\* ZERO_CORE, which is safe as long as no call takes them the other way round.
CallsReturn == \A t \in Threads : pc[t] # "idle" ~> pc[t] = "idle"

\* A thread that no other thread's call comes between finds LAST_ERROR as its own
\* last reporting call left it, and zero_last_error returns it.  (Otherwise it is
\* the error of whichever call wrote last: LAST_ERROR is written after ZERO_CORE
\* has been released.)
OwnError ==
    \A t \in Threads :
        /\ pc[t] = "idle"
        /\ \A u \in Threads \ {t} : calls[u] = 0
        => /\ last_error = message[t]
           /\ call[t] = [op |-> "last_error", arg |-> "ok"] => got[t] = message[t]

\* The inductive invariant behind InitializedIsSeen: a core is there from the moment
\* an initialization is about to report success, and it never goes away again.
CoreStays ==
    /\ ready => core # None
    /\ \A t \in Threads : begun_ready[t] => ready
    /\ \A t \in Threads : pc[t] \in {"core", "in_core"} => call[t].arg # None
    /\ \A t \in Threads :
           call[t].op = "initialize" /\ pc[t] \in {"err", "in_err"} /\ message[t] = None
           => core # None

CallState ==
    /\ pc \in [Threads -> {"idle", "core", "in_core", "err", "in_err"}]
    /\ call \in [Threads -> Calls]
    /\ message \in [Threads -> Messages \cup {None}]
    /\ begun_ready \in [Threads -> BOOLEAN]
    /\ ready \in BOOLEAN

IndInv == CallState /\ CoreStays /\ InitializedIsSeen

=============================================================================
