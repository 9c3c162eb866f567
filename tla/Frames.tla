------------------------------- MODULE Frames --------------------------------
(***************************************************************************)
(* The byte layouts messages travel in, down to their lengths: Bluetooth   *)
(* messages (rust/src/ble/protocol.rs), ratchet messages (rust/src/crypto/ *)
(* double_ratchet.rs), file chunks (rust/src/p2p/transfer.rs) and gossip   *)
(* payloads (rust/src/p2p/network.rs).  A frame is a header of fixed size, *)
(* which may hold an id cut to a field and the length of the rest, and the *)
(* payload.  On its way a frame may lose its end or run into the next one. *)
(***************************************************************************)
EXTENDS Integers

CONSTANTS
    PayloadLengths,  \* lengths of payloads that are sent
    IdLengths,       \* lengths of the ids of senders and transfers
    Slack            \* bound: bytes around a boundary at which a frame is cut

\* Payloads are shorter than 2^32 bytes: the 32-bit length fields hold their lengths.
FramesAssumption ==
    /\ PayloadLengths \subseteq Nat /\ \A n \in PayloadLengths : n \div 65536 < 65536
    /\ IdLengths \subseteq Nat /\ Slack \in Nat

VARIABLES
    frame,     \* the frame as it was serialized
    arrived,   \* how many bytes arrive; -1 while it is under way
    outcome    \* what deserializing it gave

vars == <<frame, arrived, outcome>>

Formats == {"bluetooth", "ratchet", "chunk", "gossip"}
Result(what, id, payload) == [result |-> what, id |-> id, payload |-> payload]
NoMessage == Result("None", 0, 0)
Panic == Result("panic", 0, 0)
Some(id, payload) == Result("Some", id, payload)

Lesser(a, b) == IF a < b THEN a ELSE b

\* The bytes before the payload.
HeaderLength(f) ==
    [bluetooth |-> 28, ratchet |-> 45, chunk |-> 49, gossip |-> 9][f]

\* The length below which a deserializer returns None at once; the bluetooth and
\* ratchet headers are four bytes longer.
CheckedLength(f) ==
    [bluetooth |-> 24, ratchet |-> 41, chunk |-> 49, gossip |-> 9][f]

\* Whether the rest is compared with the length the header gives.
PayloadChecked(f) == f \in {"bluetooth", "ratchet"}

\* The bytes of an id that fit its field.
IdField(f) == [bluetooth |-> 12, ratchet |-> 0, chunk |-> 32, gossip |-> 0][f]

\* Slip: the length is kept in one byte.
LengthFieldOfAByte(f, n) == IF f = "bluetooth" THEN n % 256 ELSE n

\* What a length becomes in its field: 16 bits in a Bluetooth message.  The 32 bits
\* of the others are more than a payload here has.
LengthField(f, n) == IF f = "bluetooth" THEN n % 65536 ELSE n

serialize(f, id, payload, known) ==
    [format |-> f, id |-> Lesser(id, IdField(f)), full_id |-> id,
     declared |-> LengthField(f, payload), payload |-> payload, known |-> known]

Length(fr) == HeaderLength(fr.format) + fr.payload

\* Deserializing the first n bytes of a frame, or of the frame and what follows it.
\* "known" is whether the byte for the type or the cipher suite has a meaning.
deserialize(fr, n) ==
    LET f == fr.format
        given == HeaderLength(f) + fr.declared IN
    CASE n < CheckedLength(f) -> NoMessage
      [] n >= CheckedLength(f) /\ ~fr.known -> NoMessage
      [] n >= CheckedLength(f) /\ fr.known /\ n < HeaderLength(f) -> Panic
      [] n >= HeaderLength(f) /\ fr.known /\ f = "gossip" ->
             Some(0, n - HeaderLength(f))
      [] n >= HeaderLength(f) /\ fr.known /\ f # "gossip" /\ n < given ->
             IF PayloadChecked(f) THEN NoMessage ELSE Panic
      [] OTHER -> Some(fr.id, fr.declared)

\* Bytes have a type only in Bluetooth and ratchet messages, and serializing never
\* writes an unknown one; a newer peer may.
Frames ==
    {serialize(f, id, p, known) : f \in Formats, id \in IdLengths, p \in PayloadLengths,
                                  known \in BOOLEAN}

Init ==
    /\ frame \in {fr \in Frames : fr.format \in {"chunk", "gossip"} => fr.known}
    /\ arrived = -1
    /\ outcome = NoMessage

\* Where a frame may be cut, or up to where it may run on.
Ends(fr) ==
    (UNION {b .. b + 2 * Slack : b \in {HeaderLength(fr.format), Length(fr)}})
    \cup (0 .. Lesser(HeaderLength(fr.format), Length(fr)))

Carry ==
    /\ arrived = -1
    /\ \E n \in Ends(frame) :
        /\ arrived' = IF n > Slack THEN n - Slack ELSE 0
        /\ outcome' = deserialize(frame, arrived')
    /\ UNCHANGED frame

Spec == Init /\ [][Carry]_vars

-----------------------------------------------------------------------------
Taken == outcome.result = "Some"

\* Types: a frame that was taken has no more payload than arrived.
TypeOK ==
    /\ frame \in Frames
    /\ arrived \in Nat \cup {-1}
    /\ Taken => outcome.payload + HeaderLength(frame.format) <= arrived

\* A frame that arrives whole is taken, with the payload it was sent with, whatever
\* follows it; but for an unknown type and a length that does not fit its field.
WholeIsTaken ==
    /\ frame.known
    /\ arrived >= Length(frame)
    /\ frame.format # "gossip"
    /\ frame.declared = frame.payload
    => outcome = Some(frame.id, frame.payload)

\* A frame that was cut is never taken for a shorter message: only a payload of
\* 65536 bytes or more, whose length wraps, and a gossip payload, which has no
\* length of its own, come out shorter than they were.
CutIsNotTaken ==
    Taken /\ outcome.payload < frame.payload =>
        frame.format = "gossip" \/ (frame.format = "bluetooth" /\ frame.payload >= 65536)

\* Deserializing gives a message or None.
NeverPanics == outcome # Panic

\* A Bluetooth message comes with the id of its sender.
SenderSurvives ==
    Taken /\ frame.format = "bluetooth" => outcome.id = frame.full_id
==============================================================================
