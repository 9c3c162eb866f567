----------------------------- MODULE IdentityStore -----------------------------
(***************************************************************************)
(* The app's stored identity, IdentityService (lib/services/               *)
(* identity_service.dart): three entries of the platform's secure storage, *)
(* written without waiting for the answers, read and deleted by            *)
(* asynchronous methods that give up after three seconds, in a process     *)
(* that may be killed.  The storage plugin takes one call after the other  *)
(* and answers in that order; a call that timed out is still carried out.  *)
(***************************************************************************)
EXTENDS Naturals, Sequences, FiniteSets

CONSTANTS
    MaxIdentities, MaxLoads, MaxClears, MaxRefusals, MaxCrashes   \* bounds of a behaviour

ASSUME IdentityStoreAssumption ==
    {MaxIdentities, MaxLoads, MaxClears, MaxRefusals, MaxCrashes} \subseteq Nat

VARIABLES
    stored,    \* the entries; 0 for one that is absent
    calls,     \* calls on their way to the plugin
    answers,   \* answers on their way back
    load,      \* the running loadIdentity
    clear,     \* the running clearIdentity
    created,   \* identities handed to the user so far; the last is the number
    loaded,    \* what the last finished loadIdentity gave (0 for null), and the last
               \* identity that had been created when it was called
    cleared,   \* clearIdentity has finished, and no identity was created since it began
    since,     \* "none" before the first clearIdentity, "clear" from the start of one,
               \* "both" once an identity is created after it
    raced,     \* an identity was created while loadIdentity was running
    old,       \* an old version had left an identity without its mnemonic
    refusals,  \* calls the storage has refused
    crashes

history == <<cleared, since, raced, old>>
vars == <<stored, calls, answers, load, clear, created, loaded, history, refusals, crashes>>

_mnemonicKey == "mnemonic"
_storageKey == "seed"
_initializedKey == "initialized"
Keys == {_mnemonicKey, _storageKey, _initializedKey}

\* Nobody waits for a write; a method waits for the read or the delete it called.
Nobody == <<"nobody", 0>>
Write(key, value) == [op |-> "write", key |-> key, value |-> value, waiter |-> Nobody]
Read(key, waiter) == [op |-> "read", key |-> key, value |-> 0, waiter |-> waiter]
Delete(key, waiter) == [op |-> "delete", key |-> key, value |-> 0, waiter |-> waiter]

Init ==
    /\ old \in BOOLEAN
    /\ created = IF old THEN 1 ELSE 0
    /\ stored = [k \in Keys |-> IF k = _mnemonicKey THEN 0 ELSE created]
    /\ calls = <<>> /\ answers = <<>>
    /\ load = [at |-> "idle", run |-> 0, from |-> 0]
    /\ clear = [at |-> "idle", run |-> 0]
    /\ loaded = [id |-> 0, from |-> 0]
    /\ cleared = FALSE /\ since = "none" /\ raced = FALSE
    /\ refusals = 0 /\ crashes = 0

\* Slip: the flag is written first.
_persist_flag_first(id) ==
    <<Write(_initializedKey, 1), Write(_mnemonicKey, id), Write(_storageKey, id)>>

_persist(id) ==
    <<Write(_mnemonicKey, id), Write(_storageKey, id), Write(_initializedKey, 1)>>

\* createIdentity and createIdentityFromMnemonic: the identity is handed out before
\* any of its entries is written.
createIdentity ==
    /\ created < MaxIdentities
    /\ created' = created + 1
    /\ calls' = calls \o _persist(created + 1)
    /\ cleared' = FALSE
    /\ since' = IF since = "none" THEN "none" ELSE "both"
    /\ raced' = (raced \/ load.at # "idle")
    /\ UNCHANGED <<stored, answers, load, clear, loaded, old, refusals, crashes>>

loadIdentity ==
    /\ load.at = "idle" /\ load.run < MaxLoads
    /\ load' = [at |-> _mnemonicKey, run |-> load.run + 1, from |-> created]
    /\ calls' = Append(calls, Read(_mnemonicKey, <<"load", load.run + 1>>))
    /\ UNCHANGED <<stored, answers, clear, created, loaded, history, refusals, crashes>>

\* Slip: the mnemonic goes before the seed.
DeleteOrderMnemonicFirst == <<_mnemonicKey, _storageKey, _initializedKey>>

DeleteOrder == <<_storageKey, _mnemonicKey, _initializedKey>>

clearIdentity ==
    /\ clear.at = "idle" /\ clear.run < MaxClears
    /\ clear' = [at |-> DeleteOrder[1], run |-> clear.run + 1]
    /\ calls' = Append(calls, Delete(DeleteOrder[1], <<"clear", clear.run + 1>>))
    /\ cleared' = FALSE /\ since' = "clear"
    /\ UNCHANGED <<stored, answers, load, created, loaded, raced, old, refusals, crashes>>

-----------------------------------------------------------------------------
\* The plugin carries out its first call, or refuses it, and answers.
Carry ==
    /\ calls # <<>>
    /\ \E ok \in BOOLEAN :
          LET call == Head(calls) IN
          /\ ok \/ refusals < MaxRefusals
          /\ refusals' = IF ok THEN refusals ELSE refusals + 1
          /\ stored' = IF ok /\ call.op # "read"
                       THEN [stored EXCEPT ![call.key] = call.value] ELSE stored
          /\ answers' = IF call.waiter = Nobody THEN answers
                        ELSE Append(answers, [to |-> call.waiter, ok |-> ok,
                                              value |-> stored[call.key]])
    /\ calls' = Tail(calls)
    /\ UNCHANGED <<load, clear, created, loaded, history, crashes>>

LoadReturns(id) ==
    /\ load' = [load EXCEPT !.at = "idle"]
    /\ loaded' = [id |-> id, from |-> load.from]

\* The two reads of loadIdentity; an identity of an old version is given its mnemonic.
LoadContinues(answer) ==
    /\ answer.to = <<"load", load.run>> /\ load.at # "idle"
    /\ \/ answer.ok /\ answer.value # 0 /\ load.at = _mnemonicKey
          /\ LoadReturns(answer.value) /\ UNCHANGED calls
       \/ answer.ok /\ answer.value = 0 /\ load.at = _mnemonicKey
          /\ load' = [load EXCEPT !.at = _storageKey]
          /\ calls' = Append(calls, Read(_storageKey, answer.to))
          /\ UNCHANGED loaded
       \/ answer.ok /\ answer.value # 0 /\ load.at = _storageKey
          /\ LoadReturns(answer.value)
          /\ calls' = Append(calls, Write(_mnemonicKey, answer.value))
       \/ /\ ~answer.ok \/ (answer.value = 0 /\ load.at = _storageKey)
          /\ LoadReturns(0) /\ UNCHANGED calls
    /\ UNCHANGED <<clear, cleared>>

\* The three deletes of clearIdentity; the first that fails ends it.
ClearContinues(answer) ==
    /\ answer.to = <<"clear", clear.run>> /\ clear.at # "idle"
    /\ LET i == CHOOSE i \in 1..3 : DeleteOrder[i] = clear.at IN
       IF answer.ok /\ i < 3
       THEN /\ clear' = [clear EXCEPT !.at = DeleteOrder[i + 1]]
            /\ calls' = Append(calls, Delete(DeleteOrder[i + 1], answer.to))
            /\ UNCHANGED cleared
       ELSE /\ clear' = [clear EXCEPT !.at = "idle"]
            /\ cleared' = (answer.ok /\ since = "clear")
            /\ UNCHANGED calls
    /\ UNCHANGED <<load, loaded>>

\* The app takes an answer; one that comes after its timeout reaches nobody.
Answer ==
    /\ answers # <<>>
    /\ LET answer == Head(answers) IN
       \/ LoadContinues(answer)
       \/ ClearContinues(answer)
       \/ /\ ~(answer.to = <<"load", load.run>> /\ load.at # "idle")
          /\ ~(answer.to = <<"clear", clear.run>> /\ clear.at # "idle")
          /\ UNCHANGED <<calls, load, clear, loaded, cleared>>
    /\ answers' = Tail(answers)
    /\ UNCHANGED <<stored, created, since, raced, old, refusals, crashes>>

\* Three seconds pass for a method that waits.
LoadTimeout ==
    /\ load.at # "idle"
    /\ LoadReturns(0)
    /\ UNCHANGED <<stored, calls, answers, clear, created, history, refusals, crashes>>

ClearTimeout ==
    /\ clear.at # "idle"
    /\ clear' = [clear EXCEPT !.at = "idle"]
    /\ UNCHANGED <<stored, calls, answers, load, created, loaded, history, refusals,
                   crashes>>

\* The process is killed: what the plugin has not done is not done.
Crash ==
    /\ crashes < MaxCrashes /\ crashes' = crashes + 1
    /\ calls' = <<>> /\ answers' = <<>>
    /\ load' = [load EXCEPT !.at = "idle"] /\ clear' = [clear EXCEPT !.at = "idle"]
    /\ loaded' = [id |-> 0, from |-> 0]
    /\ UNCHANGED <<stored, created, history, refusals>>

Next ==
    \/ createIdentity \/ loadIdentity \/ clearIdentity
    \/ Carry \/ Answer \/ LoadTimeout \/ ClearTimeout \/ Crash

Spec == Init /\ [][Next]_vars

-----------------------------------------------------------------------------
\* The stored flag never outruns the identity, killed process or not: as long as
\* nobody clears it and no call is refused, an initialised storage that this version
\* filled has the mnemonic that loadIdentity needs (identity_service.dart:64-68).
InitializedIsLoadable ==
    stored[_initializedKey] # 0 /\ since = "none" /\ ~old /\ refusals = 0 =>
        stored[_mnemonicKey] # 0

\* Once clearIdentity has deleted all three entries, no identity comes back on its
\* own: neither a late write nor the migration of an old identity that was being
\* loaded restores one (identity_service.dart:39-62).
ClearIsFinal ==
    cleared /\ calls = <<>> =>
        stored[_mnemonicKey] = 0 /\ stored[_storageKey] = 0

\* What loadIdentity gives is the last identity that had been created when it was
\* called or a later one, in a process that was not killed and a storage that refused
\* nothing: the writes nobody waits for have overtaken nothing.  It takes that none was created while a loadIdentity
\* was running: that one may find no mnemonic, then an identity just written, take it
\* for one of an old version and write its mnemonic over a newer one
\* (identity_service.dart:27-54).
LoadIsFresh ==
    loaded.id # 0 /\ crashes = 0 /\ refusals = 0 /\ ~raced => loaded.id >= loaded.from

=============================================================================
