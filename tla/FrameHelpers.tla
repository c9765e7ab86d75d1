---------------------------- MODULE FrameHelpers ----------------------------
(***************************************************************************)
(* The parsers of src/plugins/helpers.h that read the integers and the     *)
(* header of an ACK frame.                                                 *)
(*                                                                         *)
(* A frame is a sequence of bytes.  helper_frames_varint_decode walks it   *)
(* with pointers: a pointer is the place of a byte in the sequence, the    *)
(* pointer bytes_max one past the last byte is Len(frame) + 1.             *)
(* helper_parse_ack_header walks it with an index that starts at 0 and a   *)
(* length; the byte at index i is frame[i + 1].                            *)
(*                                                                         *)
(* picoquic_varint_decode, which the header parser calls, and the encoder  *)
(* of the peer are the host's; they are modelled from the QUIC             *)
(* specification of variable-length integers.                              *)
(***************************************************************************)
EXTENDS Integers, Sequences
LOCAL INSTANCE SequencesExt

NULL == 0

\* The two high bits of the first byte give the length: 1, 2, 4 or 8 bytes.
VARINT_LEN(first) == 2 ^ (first \div 64)

\* The value of a variable-length integer whose first byte is at place at:
\* the six low bits of the first byte, then the bytes that follow, the most
\* significant first.
varint_value(frame, at, length) ==
    FoldLeft(LAMBDA v, byte : v * 256 + byte, frame[at] % 64,
             SubSeq(frame, at + 1, at + length - 1))

\* Fault: an integer that ends with the frame is refused.
varint_decode_short_of_end(frame, bytes, bytes_max) ==
    LET length == VARINT_LEN(frame[bytes]) IN
    IF bytes < bytes_max /\ bytes + length < bytes_max
    THEN [bytes |-> bytes + length, n64 |-> varint_value(frame, bytes, length)]
    ELSE [bytes |-> NULL]

\* The pointer after the integer and its value, or NULL when the integer
\* does not fit in what is left of the frame.
helper_frames_varint_decode(frame, bytes, bytes_max) ==
    LET length == VARINT_LEN(frame[bytes]) IN
    IF bytes < bytes_max /\ bytes + length <= bytes_max
    THEN [bytes |-> bytes + length, n64 |-> varint_value(frame, bytes, length)]
    ELSE [bytes |-> NULL]

\* The host's decoder: the length of the integer at index byte_index, or 0
\* when fewer than that many bytes are left.
picoquic_varint_decode(frame, byte_index, max_bytes) ==
    LET length == VARINT_LEN(frame[byte_index + 1]) IN
    IF max_bytes = 0 \/ length > max_bytes
    THEN [length |-> 0, n64 |-> 0]
    ELSE [length |-> length,
          n64    |-> varint_value(frame, byte_index + 1, length)]

\* The header of an ACK frame: after the type byte the largest acknowledged
\* packet number, the delay, three ECN counts when the frame has them
\* (their values play no part here), and the number of blocks that follow
\* the first.  The frame has its type byte: bytes_max >= 1.
helper_parse_ack_header(frame, bytes_max, with_ecn, ack_delay_exponent) ==
    LET Read(byte_index) ==
            IF bytes_max > byte_index
            THEN picoquic_varint_decode(frame, byte_index,
                                        bytes_max - byte_index)
            ELSE [length |-> 0, n64 |-> 0]
        AfterCount(byte_index) ==
            LET l_ecnx == picoquic_varint_decode(
                              frame, byte_index, bytes_max - byte_index).length
            IN  IF l_ecnx = 0 THEN bytes_max ELSE byte_index + l_ecnx
        largest   == Read(1)
        delay     == Read(1 + largest.length)
        after     == 1 + largest.length + delay.length
        at_blocks == IF with_ecn
                     THEN AfterCount(AfterCount(AfterCount(after)))
                     ELSE after
        blocks    == Read(at_blocks)
        consumed  == at_blocks + blocks.length
    IN  IF \/ largest.length = 0 \/ delay.length = 0 \/ blocks.length = 0
           \/ bytes_max < consumed
        THEN [ret |-> -1, consumed |-> bytes_max]
        ELSE [ret |-> 0, consumed |-> consumed, largest |-> largest.n64,
              ack_delay |-> delay.n64 * 2 ^ ack_delay_exponent,
              num_block |-> blocks.n64]

-----------------------------------------------------------------------------
(* The peer's encoder. *)

\* The length low bytes of v, the most significant first.
RECURSIVE big_endian(_, _)
big_endian(v, length) ==
    IF length = 0 THEN <<>>
    ELSE Append(big_endian(v \div 256, length - 1), v % 256)

\* v as a variable-length integer of the given length (1, 2, 4 or 8), which
\* need not be the shortest v fits in.
varint_encode(v, length) ==
    LET tag == CHOOSE t \in 0 .. 3 : 2 ^ t = length IN
    [big_endian(v, length) EXCEPT ![1] = @ + 64 * tag]

=============================================================================
