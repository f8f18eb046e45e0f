-------------------------------- MODULE Framing --------------------------------
(***************************************************************************)
(* Messages on a socket: a length in four bytes, then the payload.  A      *)
(* payload is its bytes; MessagePack is not modelled.                      *)
(***************************************************************************)
EXTENDS Naturals, Sequences, SequencesExt

CONSTANTS BYTE, MAX_FRAME_SIZE      \* 256 and 4 MiB

ASSUME ByteAssumption == BYTE \in Nat \ {0, 1} /\ MAX_FRAME_SIZE \in Nat

Byte == 0 .. BYTE - 1
Lengths == BYTE * BYTE * BYTE * BYTE        \* lengths are u32

(* Big-endian. *)
Encode(n) ==
    LET q == n \div BYTE
        r == q \div BYTE
        s == r \div BYTE
    IN  <<s % BYTE, r % BYTE, q % BYTE, n % BYTE>>

Decode(bytes) ==
    ((bytes[1] * BYTE + bytes[2]) * BYTE + bytes[3]) * BYTE + bytes[4]

write_message(payload) == Encode(Len(payload) % Lengths) \o payload

(* Mutant of read_message: reads on behind the length of a long frame.     *)
read_messageSkipping(stream) ==
    IF Len(stream) < 4 THEN [result |-> "closed"]
    ELSE LET len == Decode(stream)
             rest == SubSeq(stream, 5, Len(stream))
         IN  IF len > MAX_FRAME_SIZE
               THEN [result |-> "message", message |-> <<>>, rest |-> rest]
             ELSE IF Len(rest) < len THEN [result |-> "closed"]
             ELSE [result |-> "message", message |-> SubSeq(rest, 1, len),
                   rest |-> SubSeq(rest, len + 1, Len(rest))]

read_message(stream) ==
    IF Len(stream) < 4 THEN [result |-> "closed"]
    ELSE LET len == Decode(stream)
             rest == SubSeq(stream, 5, Len(stream))
         IN  IF len > MAX_FRAME_SIZE THEN [result |-> "tooLarge"]
             ELSE IF Len(rest) < len THEN [result |-> "closed"]
             ELSE [result |-> "message", message |-> SubSeq(rest, 1, len),
                   rest |-> SubSeq(rest, len + 1, Len(rest))]
=============================================================================
