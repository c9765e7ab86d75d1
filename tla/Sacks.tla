-------------------------------- MODULE Sacks --------------------------------
(***************************************************************************)
(* The receiver's record of the packet numbers it has received, from which *)
(* the next ACK frame is built: the list of ranges that starts at          *)
(* cnx->first_sack_item, and the two functions of src/picoquic/sacks.c     *)
(* that read and extend it.                                                *)
(*                                                                         *)
(* The linked list is a sequence of ranges, highest first; its first       *)
(* element is first_sack_item, which is part of the connection and always  *)
(* there.                                                                  *)
(*                                                                         *)
(* The clock takes its values from a small set of instants.  A time of the *)
(* model is the place of an instant in their order; the instant itself is  *)
(* a uint64_t, written as the set of the places of its one bits, because   *)
(* the ACK delay is computed from microseconds beyond 2^42.                *)
(***************************************************************************)
EXTENDS Integers, Sequences, FiniteSets, FiniteSetsExt

CONSTANTS
    PacketNumbers,  \* the packet numbers that can be received
    Instants,       \* the values of the clock, in microseconds
    MaxTime         \* bound of the model on the clock: the last instant

Uint64 == SUBSET (0 .. 63)

ASSUME /\ PacketNumbers \subseteq Nat
       /\ MaxTime \in Nat
       /\ Instants \subseteq Uint64
       /\ Cardinality(Instants) = MaxTime + 1

VARIABLES
    sack_list,  \* the ranges, from first_sack_item on
    now,        \* the clock (current_microsec of the next call)
    ack_frame,  \* what the last call wrote, if it was to encode a frame
    received,   \* the packet numbers recorded so far (history)
    arrival     \* when each of them was first recorded (history)

vars == <<sack_list, now, ack_frame, received, arrival>>

\* a < b for two uint64_t: they differ first, from the top, in a bit of b.
Before(a, b) == a # b /\ Max(SymDiff(a, b)) \in b

\* The instants in the order of time.
Micro ==
    CHOOSE f \in [0 .. MaxTime -> Instants] :
        \A s, t \in 0 .. MaxTime : s < t => Before(f[s], f[t])

\* No frame has been written.
NoFrame == [ack_type |-> 0]

SackItem(start, end, time) ==
    [start_of_sack_range |-> start, end_of_sack_range |-> end,
     time_stamp_last_in_range |-> time]

InsertItem(list, i, item) ==
    SubSeq(list, 1, i - 1) \o <<item>> \o SubSeq(list, i, Len(list))

RemoveItem(list, i) ==
    SubSeq(list, 1, i - 1) \o SubSeq(list, i + 1, Len(list))

-----------------------------------------------------------------------------
(* The functions of the source. *)

RECURSIVE is_pn_already_received_from(_, _, _)
is_pn_already_received_from(list, i, pn64) ==
    IF pn64 > list[i].end_of_sack_range THEN 0
    ELSE IF pn64 >= list[i].start_of_sack_range THEN 1
    ELSE IF i = Len(list) THEN 0
    ELSE is_pn_already_received_from(list, i + 1, pn64)

picoquic_is_pn_already_received(list, pn64) ==
    is_pn_already_received_from(list, 1, pn64)

Done(list) == [ret |-> 0, list |-> list]

\* The range at place i grows by the packet number above it.
extend_end(list, i, pn64, t) ==
    Done([list EXCEPT ![i].end_of_sack_range = pn64,
                      ![i].time_stamp_last_in_range = t])

\* Fault: the hole is filled but the two ranges stay apart.
merge_left_out(list, i, pn64, t) == extend_end(list, i, pn64, t)

\* The packet number fills the hole between the range at place i and the
\* range before it: the range before takes over, the range at i is freed.
merge_with_previous(list, i, pn64, t) ==
    Done(RemoveItem([list EXCEPT ![i - 1].start_of_sack_range =
                                     list[i].start_of_sack_range], i))

\* The range before place i grows downwards by the packet number.
extend_previous(list, i, pn64, t) ==
    Done([list EXCEPT ![i - 1].start_of_sack_range = pn64])

\* Fault: the new range is linked behind the range it is above.
new_hole_behind(list, i, pn64, t, malloc_ok) ==
    IF malloc_ok THEN Done(InsertItem(list, i + 1, SackItem(pn64, pn64, t)))
    ELSE [ret |-> -1, list |-> list]

\* The packet number starts a range of its own in front of the range at
\* place i: the new item takes the contents of the one at i, which takes
\* the packet number and is linked to the new item.
new_hole(list, i, pn64, t, malloc_ok) ==
    IF malloc_ok THEN Done(InsertItem(list, i, SackItem(pn64, pn64, t)))
    ELSE [ret |-> -1, list |-> list]

\* The packet number lies above the range at place i, and below the range
\* before it.
record_above(list, i, pn64, t, malloc_ok) ==
    IF pn64 = list[i].end_of_sack_range + 1
    THEN IF i > 1 /\ pn64 + 1 >= list[i - 1].start_of_sack_range
         THEN merge_with_previous(list, i, pn64, t)
         ELSE extend_end(list, i, pn64, t)
    ELSE IF i > 1 /\ pn64 + 1 = list[i - 1].start_of_sack_range
    THEN extend_previous(list, i, pn64, t)
    ELSE new_hole(list, i, pn64, t, malloc_ok)

\* Fault: a packet number below the last range always starts a new range.
record_below_without_extension(list, pn64, t, malloc_ok) ==
    IF ~malloc_ok THEN [ret |-> -1, list |-> list]
    ELSE Done(Append(list, SackItem(pn64, pn64, t)))

\* The packet number lies below the last range: it extends that range
\* downwards or starts a new last range.
record_below_last(list, pn64, t, malloc_ok) ==
    IF pn64 + 1 = list[Len(list)].start_of_sack_range
    THEN Done([list EXCEPT ![Len(list)].start_of_sack_range = pn64])
    ELSE IF ~malloc_ok THEN [ret |-> -1, list |-> list]
    ELSE Done(Append(list, SackItem(pn64, pn64, t)))

\* The walk down the list, at place i.
RECURSIVE record_from(_, _, _, _, _)
record_from(list, i, pn64, t, malloc_ok) ==
    IF pn64 > list[i].end_of_sack_range
    THEN record_above(list, i, pn64, t, malloc_ok)
    ELSE IF pn64 >= list[i].start_of_sack_range
    THEN [ret |-> 1, list |-> list]
    ELSE IF i = Len(list)
    THEN record_below_last(list, pn64, t, malloc_ok)
    ELSE record_from(list, i + 1, pn64, t, malloc_ok)

\* A first item with both bounds zero is taken for the list that has not
\* recorded anything yet.
picoquic_record_pn_received(list, pn64, current_microsec, malloc_ok) ==
    IF list[1].start_of_sack_range = 0 /\ list[1].end_of_sack_range = 0
    THEN Done([list EXCEPT ![1] = SackItem(pn64, pn64, current_microsec)])
    ELSE record_from(list, 1, pn64, current_microsec, malloc_ok)

-----------------------------------------------------------------------------
(* The ACK delay and the ACK frame. *)

\* The number a word of at most 16 bits stands for, and the word of a number.
number(bits) == MapThenSumSet(LAMBDA b : 2^b, bits)

bits_of(n) == {b \in 0 .. 15 : (n \div 2^b) % 2 = 1}

\* a - b in uint64_t, from bit i on with the borrow of the bits below.
RECURSIVE minus_from(_, _, _, _)
minus_from(a, b, i, borrow) ==
    IF i > 63 THEN {}
    ELSE LET d == (IF i \in a THEN 1 ELSE 0) - (IF i \in b THEN 1 ELSE 0) - borrow
         IN  (IF d % 2 = 1 THEN {i} ELSE {})
                 \cup minus_from(a, b, i + 1, IF d < 0 THEN 1 ELSE 0)

minus(a, b) == minus_from(a, b, 0, 0)

\* The mantissa is halved until it fits 12 bits.
RECURSIVE normalised(_, _)
normalised(exponent, mantissa) ==
    IF \E b \in mantissa : b > 11
    THEN normalised(exponent + 1, {b - 1 : b \in mantissa \ {0}})
    ELSE [exponent |-> exponent, mantissa |-> mantissa]

\* Fault: the largest exponent that fits 5 bits is taken to be 32.
float16_clamped_late(n) ==
    IF n.exponent > 31 THEN 65535
    ELSE IF 11 \in n.mantissa
    THEN (number(n.mantissa \ {11}) + (n.exponent + 1) * 2048) % 65536
    ELSE number(n.mantissa)

\* The 16 bits of a normalised value: values beyond the format are clamped,
\* a mantissa of 12 bits gives up its leading one for an exponent one higher,
\* a shorter one stands for itself.
float16_of(n) ==
    IF n.exponent > 30 THEN 65535
    ELSE IF 11 \in n.mantissa
    THEN (number(n.mantissa \ {11}) + (n.exponent + 1) * 2048) % 65536
    ELSE number(n.mantissa)

picoquic_deltat_to_float16(delta_t) == float16_of(normalised(0, delta_t))

picoquic_float16_to_deltat(float16) ==
    LET exponent == float16 \div 2048 IN
        IF exponent = 0 THEN bits_of(float16 % 2048)
        ELSE {b + exponent - 1 : b \in bits_of(float16 % 2048) \cup {11}}

\* The code for the width of the block lengths.  A block of the model is
\* shorter than 2^32, which the test before the last branch asks for.
block_length_code(max_block_size) ==
    IF max_block_size > 65535
    THEN IF max_block_size > 255 THEN 1 ELSE 0
    ELSE 2

\* The walk starts at the address of first_sack_item.next_sack.  That is
\* the address of first_sack_item itself where next_sack is the first
\* member of the item, so the first range is counted as a block and
\* nb_blocks is never 0.  The two bytes after the type take the low bits
\* of the pointer nb_bytes, and *nb_bytes is not written.
picoquic_encode_sack_frame(list, current_time) ==
    LET block_sizes ==
            {list[i].end_of_sack_range - list[i].start_of_sack_range :
                 i \in DOMAIN list}
    IN  [ack_type |-> 168 + 16 + block_length_code(Max(block_sizes)),
         num_blocks |-> <<"nb_bytes", "nb_bytes">>,
         largest |-> list[1].end_of_sack_range,
         ack_delay |-> picoquic_deltat_to_float16(
                           minus(current_time,
                                 Micro[list[1].time_stamp_last_in_range]))]

-----------------------------------------------------------------------------
(* The events. *)

Init ==
    /\ sack_list = <<SackItem(0, 0, 0)>>
    /\ now = 0
    /\ ack_frame = NoFrame
    /\ received = {}
    /\ arrival = [pn \in PacketNumbers |-> 0]

\* A packet arrives and is recorded; the clock has moved on or not since
\* the packet before.
RecordPn(pn, malloc_ok) ==
    \E t \in {now, now + 1} :
        LET done == picoquic_record_pn_received(sack_list, pn, t, malloc_ok) IN
            /\ t <= MaxTime
            /\ sack_list' = done.list
            /\ now' = t
            /\ ack_frame' = NoFrame
            /\ received' = IF done.ret = -1 THEN received
                           ELSE received \cup {pn}
            /\ arrival' = IF done.ret = 0 THEN [arrival EXCEPT ![pn] = t]
                          ELSE arrival

\* The host builds the next ACK frame, now or at the next instant.  The
\* frame leaves with its packet before the next packet is recorded.
EncodeSackFrame ==
    \E t \in {now, now + 1} :
        /\ t <= MaxTime
        /\ ack_frame' = picoquic_encode_sack_frame(sack_list, Micro[t])
        /\ now' = t
        /\ UNCHANGED <<sack_list, received, arrival>>

Next ==
    \/ \E pn \in PacketNumbers, malloc_ok \in BOOLEAN : RecordPn(pn, malloc_ok)
    \/ EncodeSackFrame

Spec == Init /\ [][Next]_vars

-----------------------------------------------------------------------------
(* Properties. *)

TypeOK ==
    /\ sack_list \in Seq([start_of_sack_range : PacketNumbers \cup {0},
                          end_of_sack_range : PacketNumbers \cup {0},
                          time_stamp_last_in_range : 0 .. MaxTime])
    /\ Len(sack_list) \in 1 .. (Cardinality(PacketNumbers) + 1) \div 2
    /\ now \in 0 .. MaxTime
    /\ ack_frame \in {NoFrame}
           \cup [ack_type : 184 .. 187, num_blocks : {<<"nb_bytes", "nb_bytes">>},
                 largest : PacketNumbers \cup {0}, ack_delay : 0 .. 65535]
    /\ received \subseteq PacketNumbers
    /\ arrival \in [PacketNumbers -> 0 .. MaxTime]

\* picoquic_is_pn_already_received answers yes for a packet number exactly
\* when that number was recorded before, whatever the order in which the
\* numbers arrived.  It is about the walk of picoquic_record_pn_received,
\* which must keep the list in the order the lookup relies on.
SackUnion ==
    \A pn \in PacketNumbers :
        picoquic_is_pn_already_received(sack_list, pn) = 1 <=> pn \in received

\* A packet number that was recorded is answered for by
\* picoquic_is_pn_already_received from then on: the half of the SACK union
\* that keeps a received packet acknowledged.  It is about the test of
\* picoquic_record_pn_received for the first packet ever, which looks at
\* the bounds of the first range.
RecordedStaysReceived ==
    \A pn \in received : picoquic_is_pn_already_received(sack_list, pn) = 1

\* The ranges are in descending order and a hole of at least one packet
\* number separates two neighbours: ranges that touch have been merged.  It
\* is about the three ways picoquic_record_pn_received has of placing a
\* number between two ranges.
RangesCoalesced ==
    /\ \A i \in DOMAIN sack_list :
           sack_list[i].start_of_sack_range <= sack_list[i].end_of_sack_range
    /\ \A i \in 1 .. Len(sack_list) - 1 :
           sack_list[i + 1].end_of_sack_range + 1
               < sack_list[i].start_of_sack_range

\* The 12 leading bits of a delay, which is what 16 bits can tell of it; a
\* delay of 2^42 microseconds or more is told as the longest delay.
leading_bits(delta_t) ==
    IF delta_t = {} THEN {}
    ELSE IF Max(delta_t) > 41 THEN 30 .. 41
    ELSE {b \in delta_t : b > Max(delta_t) - 12}

\* An ACK frame names the highest packet number ever recorded, and its
\* delay, read back by picoquic_float16_to_deltat, is the time since that
\* packet arrived, cut to its 12 leading bits.  It is about the merging and
\* the extension of ranges in picoquic_record_pn_received, which move the
\* bounds of the first range but must leave it the time of its end, and
\* about the exponent, the clamping and the implicit leading one of
\* picoquic_deltat_to_float16.
AckFrameTellsLatest ==
    (ack_frame # NoFrame /\ received # {}) =>
        /\ ack_frame.largest = Max(received)
        /\ picoquic_float16_to_deltat(ack_frame.ack_delay)
               = leading_bits(minus(Micro[now], Micro[arrival[Max(received)]]))

=============================================================================
