----------------------------- MODULE KeyDerivation -----------------------------
(***************************************************************************)
(* What is derived from one recovery phrase: the identity and its keys     *)
(* (rust/src/identity.rs), the addresses of the core's wallet (rust/src/   *)
(* wallet) and of the app's own wallet (lib/services/wallet/               *)
(* bip44_wallet.dart), and the base-58 texts of identifiers.  HMAC, HKDF   *)
(* and the hash functions are one-way and collision-free: a derived key is *)
(* the record of what it was derived from.                                 *)
(***************************************************************************)
EXTENDS Naturals, Sequences, SequencesExt

CONSTANTS
    Words,        \* recovery phrases, each a list of words
    Spellings,    \* ways of typing one: spaces and letter case
    Passphrases,
    NoPassphrase, \* the empty one
    Half,         \* 2^31 on the scale of Numbers: where hardened indexes begin
    Numbers,      \* numbers written in paths; those from 2 * Half on do not fit 32 bits
    MaxParts,     \* bound: parts of a path that is asked for
    Counts        \* accounts, chains of change and indexes of the app's wallet

KeyDerivationAssumption ==
    /\ NoPassphrase \in Passphrases
    /\ Half \in Nat /\ 501 < Half
    /\ Numbers \subseteq Nat /\ {0, 44, 60, 195, 501} \subseteq Numbers
    /\ MaxParts \in Nat /\ Counts \subseteq Nat

VARIABLES
    identity,   \* the identity of the device, or NoIdentity
    given,      \* the passphrase its owner gave with the phrase
    key,        \* what derive_keypair last gave, and for which path
    address     \* what deriveAddress of the app's wallet last gave

vars == <<identity, given, key, address>>

Plain(n) == [number |-> n, hardened |-> FALSE]
Hard(n) == [number |-> n, hardened |-> TRUE]
Parts == [number : Numbers, hardened : BOOLEAN]

\* A path begins with "m/", or is "m", or is something else; "m/" has at least the
\* empty part, which is no number.
Path(parts) == [begins |-> "m/", parts |-> parts]
MasterPath == [begins |-> "m", parts |-> <<>>]
Bip44(coin) == Path(<<Hard(44), Hard(coin), Hard(0), Plain(0), Plain(0)>>)
DefaultPath == Bip44(0)
SolanaPath == Path(<<Hard(44), Hard(501), Hard(0), Hard(0)>>)
Paths ==
    {Path(p) : p \in UNION {[1..n -> Parts] : n \in 1..MaxParts}}
        \cup {MasterPath, [begins |-> "other", parts |-> <<>>]}
        \cup {Bip44(c) : c \in {0, 60, 195}} \cup {SolanaPath}
        \cup {Path(<<Hard(44), Hard(0), Plain(0), Plain(0), Plain(0)>>)}

Err == [ok |-> FALSE]
Ok(x) == [ok |-> TRUE, is |-> x]

\* Slip: a hardened number of 2^31 or more wraps round.
parse_derivation_path_wraps(path) ==
    IF path.begins # "m/" \/ \E i \in DOMAIN path.parts : path.parts[i].number >= 2 * Half
    THEN Err
    ELSE Ok([i \in DOMAIN path.parts |->
               (path.parts[i].number + (IF path.parts[i].hardened THEN Half ELSE 0))
                   % (2 * Half)])

parse_derivation_path(path) ==
    IF \/ path.begins # "m/"
       \/ \E i \in DOMAIN path.parts :
             LET part == path.parts[i] IN
             part.number >= IF part.hardened THEN Half ELSE 2 * Half
    THEN Err
    ELSE Ok([i \in DOMAIN path.parts |->
               path.parts[i].number + (IF path.parts[i].hardened THEN Half ELSE 0)])

derive_master_key(seed) == [seed |-> seed, steps |-> <<>>]
derive_child_key(parent, index) == [parent EXCEPT !.steps = Append(@, index)]
derive_keypair_from_indices(seed, indices) ==
    LET after[n \in 0..Len(indices)] ==  \* the key after n indexes
            IF n = 0 THEN derive_master_key(seed) ELSE derive_child_key(after[n - 1], indices[n])
    IN  after[Len(indices)]

\* The default path is not parsed; its indexes are written out.
derive_keypair(seed, path) ==
    IF path = MasterPath THEN Ok(derive_master_key(seed))
    ELSE IF path = DefaultPath
    THEN Ok(derive_keypair_from_indices(seed, <<44 + Half, Half, Half, 0, 0>>))
    ELSE LET parsed == parse_derivation_path(path) IN
         IF parsed.ok THEN Ok(derive_keypair_from_indices(seed, parsed.is)) ELSE Err

\* A typed phrase is parsed to its words, which alone enter the seed.
mnemonic_to_seed(phrase, passphrase) == <<phrase.words, passphrase>>

\* The identity of a phrase; the phrase is kept as it was typed.
Identity(phrase, passphrase) ==
    LET seed == mnemonic_to_seed(phrase, passphrase) IN
    [mnemonic_phrase |-> phrase, seed |-> seed,
     zero_id |-> derive_keypair(seed, DefaultPath).is]

from_mnemonic_and_passphrase(phrase, passphrase) == Identity(phrase, passphrase)

\* The chains of both wallets; each has the salt of its file, and two share a file.
Chains == {"BTC", "ETH", "BSC", "TRX", "SOL"}
bip44_path(chain) ==
    CASE chain = "BTC" -> Bip44(0)
      [] chain \in {"ETH", "BSC"} -> Bip44(60)
      [] chain = "TRX" -> Bip44(195)
      [] chain = "SOL" -> SolanaPath
Salt(chain) ==
    [BTC |-> "bitcoin-seed", ETH |-> "evm-seed", BSC |-> "evm-seed",
     TRX |-> "tron-seed", SOL |-> "solana-seed"][chain]

\* What each address of the core's wallet is a hash of.
derive_addresses(seed) ==
    [c \in Chains |-> [salt |-> Salt(c), seed |-> seed, path |-> bip44_path(c)]]

\* The app's wallet derives a key from the chain's name and the numbers, not from
\* the path it labels the address with.
_deriveChildKey(seed, chainId, account, change, index) ==
    <<"zero-wallet", seed, chainId, account, change, index>>
_buildDerivationPath(chainId, account, change, index) ==
    LET coin == [BTC |-> 0, ETH |-> 60, BSC |-> 60, TRX |-> 195, SOL |-> 501][chainId] IN
    Path(<<Hard(44), Hard(coin), Hard(account), Plain(change), Plain(index)>>)
deriveAddress(seed, chainId, account, change, index) ==
    [chainId |-> chainId,
     privateKey |-> _deriveChildKey(seed, chainId, account, change, index),
     derivationPath |-> _buildDerivationPath(chainId, account, change, index)]

-----------------------------------------------------------------------------
(* Texts in base 58, as their digits.  Bytes enter from the left; the digits are  *)
(* kept lowest first until the end.                                               *)
PushCarry(digits, carry) ==
    LET more[c \in 0..carry] == IF c = 0 THEN <<>> ELSE <<c % 58>> \o more[c \div 58]
    IN  digits \o more[carry]

AddByte(digits, byte) ==
    LET after[n \in 0..Len(digits)] ==  \* n digits of 256 times the number, and the carry
            IF n = 0 THEN [out |-> <<>>, carry |-> byte]
            ELSE LET acc == after[n - 1]
                     sum == digits[n] * 256 + acc.carry
                 IN  [out |-> Append(acc.out, sum % 58), carry |-> sum \div 58]
        end == after[Len(digits)]
    IN  PushCarry(end.out, end.carry)

\* The digits of the number that the bytes are, lowest first.
Digits(bytes) ==
    LET after[n \in 0..Len(bytes)] ==
            IF n = 0 THEN <<>> ELSE AddByte(after[n - 1], bytes[n])
    IN  after[Len(bytes)]

\* Slip: zeros in front are lost.
_base58EncodeWithoutZeros(bytes) == Reverse(Digits(bytes))

\* A byte of zero in front becomes a digit of zero.
_base58Encode(bytes) ==
    LET zeros == CHOOSE n \in 0..Len(bytes) :
                    /\ \A i \in 1..n : bytes[i] = 0
                    /\ n = Len(bytes) \/ bytes[n + 1] # 0
    IN  [i \in 1..zeros |-> 0] \o Reverse(Digits(bytes))

\* The digits of five characters.
Character == [one |-> 0, three |-> 2, T |-> 26, b |-> 34, z |-> 57]

\* Hashes of n bytes as they can begin: with a few zeros, or the largest.
HashesOf(n) ==
    {[i \in 1..n |-> IF i <= zeros THEN 0 ELSE fill] : zeros \in 0..3, fill \in {1, 255}}

\* The texts that can be derived for a hash: both wallets' addresses of a chain (the
\* last four bytes are a checksum), the zero id and the IPFS id of a content.
AddressText(chain, hash) ==
    CASE chain = "BTC" -> _base58Encode(<<0>> \o hash)
      [] chain = "TRX" -> _base58Encode(<<65>> \o hash)
      [] chain = "SOL" -> _base58Encode(hash)
AddressHashes(chain) == HashesOf(IF chain = "SOL" THEN 32 ELSE 24)
derive_zero_id(hash) == _base58Encode(<<122, 105, 100, 49>> \o hash)
to_ipfs_cid(hash) == _base58Encode(<<1, 18, 32>> \o hash)

\* What the payment service takes for an address of a chain that has base-58 texts.
_validateAddress(chain, text) ==
    CASE chain = "BTC" -> /\ text[1] \in {Character.one, Character.three}
                          /\ Len(text) \in 26..35
      [] chain = "TRX" -> text[1] = Character.T /\ Len(text) = 34
      [] chain = "SOL" -> Len(text) \in 32..44

-----------------------------------------------------------------------------
NoIdentity == [zero_id |-> "none"]
NoKey == [of |-> MasterPath, is |-> Err]
NoAddress == [chainId |-> "none"]

Init == identity = NoIdentity /\ given = NoPassphrase /\ key = NoKey /\ address = NoAddress

\* The derived keys of an identity go with it.
Become(phrase, passphrase) ==
    /\ identity' = from_mnemonic_and_passphrase(phrase, passphrase)
    /\ given' = passphrase
    /\ key' = NoKey /\ address' = NoAddress

\* generate and generate_with_passphrase: the phrase is spelled by the library.
generate_with_passphrase ==
    \E w \in Words, p \in Passphrases : Become([words |-> w, spelling |-> "as generated"], p)

\* from_mnemonic_phrase and from_mnemonic_phrase_with_passphrase.
from_mnemonic_phrase_with_passphrase ==
    \E w \in Words, s \in Spellings, p \in Passphrases :
        Become([words |-> w, spelling |-> s], p)

\* Keys and addresses are derived from the seed of the identity; only the last of
\* either is looked at.
DeriveKeypair ==
    /\ identity # NoIdentity
    /\ \E path \in Paths : key' = [of |-> path, is |-> derive_keypair(identity.seed, path)]
    /\ address' = NoAddress
    /\ UNCHANGED <<identity, given>>

DeriveAddress ==
    /\ identity # NoIdentity
    /\ \E c \in Chains, account, change, index \in Counts :
           address' = deriveAddress(identity.seed, c, account, change, index)
    /\ key' = NoKey
    /\ UNCHANGED <<identity, given>>

Next ==
    \/ generate_with_passphrase \/ from_mnemonic_phrase_with_passphrase
    \/ DeriveKeypair \/ DeriveAddress

Spec == Init /\ [][Next]_vars

-----------------------------------------------------------------------------
\* BIP-32's reading of a path: a hardened number is 2^31 higher, without a limit.
StandardIndexes(path) ==
    [i \in DOMAIN path.parts |->
        path.parts[i].number + (IF path.parts[i].hardened THEN Half ELSE 0)]

\* Two paths that both derive a key derive the same one exactly if BIP-32 reads them as
\* the same indexes, whether they went through the parser or not (identity.rs:68-142).
OneKeyPerPath ==
    key.is.ok =>
        \A p \in Paths :
            LET other == derive_keypair(identity.seed, p) IN
            other.ok => (other.is = key.is.is <=> StandardIndexes(p) = StandardIndexes(key.of))

\* An identity is found again from the phrase it shows and its passphrase, and only
\* from those: another phrase or another passphrase gives another zero id
\* (identity.rs:177-238).
PhraseRestores ==
    identity # NoIdentity =>
        \A w \in Words, p \in Passphrases :
            LET restored == from_mnemonic_and_passphrase([words |-> w, spelling |-> "typed"], p)
            IN  restored.zero_id = identity.zero_id
                  <=> w = identity.mnemonic_phrase.words /\ p = given

\* Two chains of the core's wallet have one address exactly when they have one path
\* (wallet/mod.rs:17-74).
OneAddressPerPath ==
    identity # NoIdentity =>
        LET addresses == derive_addresses(identity.seed) IN
        \A c, d \in Chains : addresses[c] = addresses[d] <=> bip44_path(c) = bip44_path(d)

\* In the app's wallet, addresses with different paths never share a key; those of
\* Ethereum and BSC share a path and have a key each (bip44_wallet.dart:181-340).
PathsApart ==
    address # NoAddress =>
        \A c \in Chains, account, change, index \in Counts :
            LET other == deriveAddress(identity.seed, c, account, change, index) IN
            other.privateKey = address.privateKey =>
                other.derivationPath = address.derivationPath

\* The payment service accepts every address the wallets derive, also those of
\* hashes that begin with zeros (pay_service.dart:287-335 against bip44_wallet.dart:
\* 439-457 and rust/src/wallet/trx.rs:17-35).
AddressesAreAccepted ==
    address # NoAddress /\ address.chainId \in {"BTC", "TRX", "SOL"} =>
        \A hash \in AddressHashes(address.chainId) :
            _validateAddress(address.chainId, AddressText(address.chainId, hash))

\* Claimed: the addresses are BIP-44 addresses, so that a path has one key
\* (rust/tests_integration/src/main.rs:356).  The app's wallet gives Ethereum and
\* BSC the same path and different keys.
SamePathSameKey ==
    address # NoAddress =>
        \A c \in Chains, account, change, index \in Counts :
            LET other == deriveAddress(identity.seed, c, account, change, index) IN
            other.derivationPath = address.derivationPath =>
                other.privateKey = address.privateKey

\* Claimed by the test at identity.rs:322: a zero id starts with a small z.
ZeroIdStartsWithZ ==
    identity # NoIdentity => \A hash \in HashesOf(17) : derive_zero_id(hash)[1] = Character.z

\* Claimed by the test at dasn/storage.rs:251: an IPFS id starts with a small b.
CidStartsWithB ==
    identity # NoIdentity => \A hash \in HashesOf(32) : to_ipfs_cid(hash)[1] = Character.b

=============================================================================
