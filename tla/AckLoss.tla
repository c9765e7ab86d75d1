------------------------------- MODULE AckLoss -------------------------------
(***************************************************************************)
(* The sender's window together with what feeds it: the packets that wait  *)
(* for an acknowledgement in the host's retransmit queue, the table of     *)
(* packets declared lost, and the feedback the redundancy controller is    *)
(* given for every slot.                                                   *)
(*                                                                         *)
(* process_ack_range (src/plugins/fec/protoops/process_ack_range.c) and    *)
(* window_detect_lost_protected_packets (window_framework_sender.h) are    *)
(* translated from the source.  The lost-packet table, the retransmit      *)
(* queue and the hook that runs when a packet leaves it belong to the host *)
(* and to the plugin's other files; they are modelled from the             *)
(* specification.                                                          *)
(*                                                                         *)
(* An acknowledgement arrives as the bytes of an ACK frame.  The frame is  *)
(* read with the parsers of src/plugins/helpers.h (module FrameHelpers)    *)
(* and each of its ranges is handed to process_ack_range through           *)
(* helper_process_ack_range, the cursor in the retransmit queue going from *)
(* one range to the next; the loop over the ranges is the host's.          *)
(***************************************************************************)
EXTENDS Integers, Sequences, FiniteSets, FrameHelpers

CONSTANTS
    RECEIVE_BUFFER_MAX_LENGTH,  \* number of slots of the ring fec_window[]
    MAX_SLOTS,                  \* window length that forces a repair packet
    MaxSymbolId,                \* bound of the model on max_id
    MaxSlot,                    \* bound of the model on current_slot
    MaxPacketNumber,            \* bound of the model on packet numbers
    ack_delay_exponent,         \* the peer's transport parameter
    DetectFailures              \* how a loss detection may fail, or "none"

VARIABLES
    wff,               \* the window_fec_framework_t of the connection
    retransmit_queue,  \* packets awaiting acknowledgement, newest first
    lost_packets,      \* state->lost_packets
    feedback,          \* what the controller was told of each slot, in order
    next_pn,           \* packet number of the next packet
    landed,            \* ids of the symbols acknowledged so far (history)
    current_packet_is_lost  \* state->current_packet_is_lost

vars == <<wff, retransmit_queue, lost_packets, feedback, next_pn, landed,
          current_packet_is_lost>>

\* The two returns of window_detect_lost_protected_packets with an error:
\* get_bpf_state finds no plugin state, add_lost_packet has no memory.
ASSUME DetectFailures \subseteq {"none", "state", "lost_packet"}

PacketNumbers == 0 .. MaxPacketNumber

\* A sent packet with the metadata the plugin attaches to it.
Packets ==
    [sequence_number : PacketNumbers, slot : 0 .. MaxSlot,
     sfpid : 0 .. MaxSymbolId, fec_protected : BOOLEAN, contains_fec : BOOLEAN]

LostEntries == [pn : PacketNumbers, slot : 0 .. MaxSlot, sfpid : 1 .. MaxSymbolId]

\* The symbols whose packet is neither acknowledged nor given up: it waits
\* in the retransmit queue or in the table of lost packets.
OutstandingIds ==
    {retransmit_queue[i].sfpid :
        i \in {j \in DOMAIN retransmit_queue : retransmit_queue[j].fec_protected}}
      \cup {l.sfpid : l \in lost_packets}

\* The payloads play no part in what the packets do to the window: the
\* window is taken with symbols of one byte.
W == INSTANCE SenderWindow WITH
         in_flight     <- OutstandingIds,
         data          <- [i \in 0 .. RECEIVE_BUFFER_MAX_LENGTH - 1 |-> <<0>>],
         SymbolBytes   <- {0},
         MaxDataLength <- 1,
         PrngOutputs   <- {1}

\* What the handlers below read and write.
State(w, q, l, f, a, lost) ==
    [wff |-> w, retransmit_queue |-> q, lost_packets |-> l, feedback |-> f,
     landed |-> a, current_packet_is_lost |-> lost]

-----------------------------------------------------------------------------
(* The table of lost packets and the retransmit queue. *)

add_lost_packet(table, pn, slot, sfpid) ==
    table \cup {[pn |-> pn, slot |-> slot, sfpid |-> sfpid]}

get_first_lost_packet(table) ==
    IF table = {} THEN -1
    ELSE CHOOSE pn \in {l.pn : l \in table} : \A l \in table : pn <= l.pn

dequeue_lost_packet(table, pn) ==
    LET found == {l \in table : l.pn = pn} IN
    IF found = {}
    THEN [present |-> FALSE, table |-> table]
    ELSE LET l == CHOOSE e \in found : TRUE IN
         [present |-> TRUE, slot |-> l.slot, sfpid |-> l.sfpid,
          table |-> table \ {l}]

\* The packet at place i leaves the retransmit queue.  The plugin's hook on
\* this event reports the symbol of a protected packet landed: received
\* unless state->current_packet_is_lost says that the packet leaves because
\* it is being declared lost.
dequeue_retransmit_packet(s, i) ==
    LET p == s.retransmit_queue[i]
        q == [j \in 1 .. Len(s.retransmit_queue) - 1 |->
                 s.retransmit_queue[IF j < i THEN j ELSE j + 1]]
    IN  IF p.fec_protected
        THEN [s EXCEPT !.retransmit_queue = q,
                       !.wff = W!sfpid_has_landed(@, p.sfpid,
                                                  ~s.current_packet_is_lost).wff,
                       !.landed = IF s.current_packet_is_lost THEN @
                                  ELSE @ \cup {p.sfpid}]
        ELSE [s EXCEPT !.retransmit_queue = q]

-----------------------------------------------------------------------------
(* The functions of the source. *)

\* The controller is told the slot and the window as it is at the call.
window_slot_acked(s, slot) ==
    [s EXCEPT !.feedback[slot] = Append(@, "acked")]

window_slot_nacked(s, slot) ==
    [s EXCEPT !.feedback[slot] = Append(@, "nacked")]

\* Fault: the entry of a recovered packet is acknowledged but the symbol is
\* not reported landed.
recovered_without_landing(s, hit) ==
    window_slot_acked([s EXCEPT !.lost_packets = hit.table], hit.slot)

\* The acknowledged packet number is in the table of lost packets: the peer
\* has the packet after all.
packet_recovered(s, hit) ==
    window_slot_acked(
        [s EXCEPT !.lost_packets = hit.table,
                  !.wff = W!sfpid_has_landed(@, hit.sfpid, TRUE).wff,
                  !.landed = @ \cup {hit.sfpid}],
        hit.slot)

\* Fault: an acknowledged packet stays in the retransmit queue.
acknowledged_without_dequeue(s, p) ==
    LET pkt == s.retransmit_queue[p] IN
    IF pkt.fec_protected \/ pkt.contains_fec
    THEN window_slot_acked(s, pkt.slot)
    ELSE s

\* The acknowledged packet number is the one of the packet at the cursor:
\* the controller hears of the slot of a FEC related packet, and the packet
\* leaves the retransmit queue.
packet_acknowledged(s, p) ==
    LET pkt  == s.retransmit_queue[p]
        told == IF pkt.fec_protected \/ pkt.contains_fec
                THEN window_slot_acked(s, pkt.slot)
                ELSE s
    IN  dequeue_retransmit_packet(told, p)

\* The cursor of process_ack_range: the handler's state, the place p in the
\* retransmit queue of the packet it is at (Len + 1 standing for NULL), and
\* what is left of the range.
Cursor(s, p, highest, range) ==
    [state |-> s, p |-> p, highest |-> highest, range |-> range]

AtPacket(c) == c.p <= Len(c.state.retransmit_queue)

Lower(c) == [c EXCEPT !.highest = @ - 1, !.range = @ - 1]

ack_loop_condition(c) ==
    LET first_lost == get_first_lost_packet(c.state.lost_packets) IN
    /\ AtPacket(c) \/ (first_lost <= c.highest /\ first_lost >= 0)
    /\ c.range > 0

\* Fault: the cursor moves on past a packet that is not above the range.
ack_loop_body_passing_equal(c) ==
    LET hit == dequeue_lost_packet(c.state.lost_packets, c.highest)
        pkt == c.state.retransmit_queue[c.p]
    IN  IF hit.present
        THEN Lower([c EXCEPT !.state = packet_recovered(@, hit)])
        ELSE IF AtPacket(c) /\ pkt.sequence_number >= c.highest
        THEN [c EXCEPT !.p = @ + 1]
        ELSE Lower(c)

\* One pass of the loop.  After a packet left the queue the cursor is at the
\* packet that followed it, which now has its place.
ack_loop_body(c) ==
    LET hit == dequeue_lost_packet(c.state.lost_packets, c.highest)
        pkt == c.state.retransmit_queue[c.p]
    IN  IF hit.present
        THEN Lower([c EXCEPT !.state = packet_recovered(@, hit)])
        ELSE IF AtPacket(c) /\ pkt.sequence_number > c.highest
        THEN [c EXCEPT !.p = @ + 1]
        ELSE IF AtPacket(c) /\ pkt.sequence_number = c.highest
        THEN Lower([c EXCEPT !.state = packet_acknowledged(@, c.p)])
        ELSE Lower(c)

RECURSIVE process_ack_range(_)
process_ack_range(c) ==
    IF ack_loop_condition(c) THEN process_ack_range(ack_loop_body(c)) ELSE c

\* helper_process_ack_range runs process_ack_range for one range with the
\* cursor at ppacket, and hands back the cursor as the range leaves it.
helper_process_ack_range(s, highest, range, ppacket) ==
    LET c == process_ack_range(Cursor(s, ppacket, highest, range)) IN
    [state |-> c.state, ppacket |-> c.p]

\* The host's loop over the blocks of an ACK frame, from the pointer bytes
\* on: the length of the range that ends at largest, then, unless it was
\* the last, the gap down to the next range.  What a block cannot be read
\* from, or names a packet number below 0, ends the loop with the ranges
\* before it processed.
RECURSIVE ack_blocks(_, _, _, _, _, _)
ack_blocks(s, ppacket, frame, bytes, largest, num_block) ==
    LET bytes_max == Len(frame) + 1
        block == helper_frames_varint_decode(frame, bytes, bytes_max)
        range == block.n64 + 1
        done  == helper_process_ack_range(s, largest, range, ppacket)
        gap   == helper_frames_varint_decode(frame, block.bytes, bytes_max)
        block_to_block == gap.n64 + 1 + range
    IN  IF block.bytes = NULL \/ largest + 1 < range THEN s
        ELSE IF num_block = 0 \/ gap.bytes = NULL \/ largest < block_to_block
        THEN done.state
        ELSE ack_blocks(done.state, done.ppacket, frame, gap.bytes,
                        largest - block_to_block, num_block - 1)

\* The host's decoder of an ACK frame, of which sent is the number of
\* packets sent so far.  The low bit of the type byte tells that ECN counts
\* follow the delay.  The cursor starts at the newest packet of the
\* retransmit queue.
decode_ack_frame(s, sent, frame) ==
    LET h == helper_parse_ack_header(frame, Len(frame), frame[1] % 2 = 1,
                                     ack_delay_exponent)
    IN  IF h.ret # 0 \/ h.largest >= sent THEN s
        ELSE ack_blocks(s, 1, frame, h.consumed + 1, h.largest, h.num_block)

\* The packet at place p with current_packet_is_lost set.
marked_lost(s) == [s EXCEPT !.current_packet_is_lost = TRUE]

\* A protected packet is remembered in the table of lost packets.
remembered(s, pkt) ==
    IF pkt.fec_protected
    THEN [s EXCEPT !.lost_packets =
             add_lost_packet(@, pkt.sequence_number, pkt.slot, pkt.sfpid)]
    ELSE s

\* The packet leaves the queue, the mark is taken back and the controller
\* is told of the loss.
declared_lost(s, p) ==
    window_slot_nacked(
        [dequeue_retransmit_packet(s, p) EXCEPT !.current_packet_is_lost = FALSE],
        s.retransmit_queue[p].slot)

\* Fault: a packet leaves as lost without the mark that it is lost.
detect_without_lost_mark(s, p, n, failure) ==
    IF p = 0 \/ n = 0 THEN s
    ELSE declared_lost(remembered(s, s.retransmit_queue[p]), p)

\* Fault: every FEC related packet declared lost is remembered, a packet
\* that carries a repair symbol and no source symbol included.
detect_remembering_repair_packets(s, p, n, failure) ==
    LET pkt  == s.retransmit_queue[p]
        kept == [s EXCEPT !.lost_packets =
                    add_lost_packet(@, pkt.sequence_number, pkt.slot, pkt.sfpid)]
    IN  IF p = 0 \/ n = 0 THEN s
        ELSE declared_lost(marked_lost(kept), p)

\* The walk of window_detect_lost_protected_packets over the retransmit
\* queue of one path, from the oldest packet (place p) on.  The host finds
\* that the n oldest packets need to be retransmitted.  The walk ends at the
\* first of them that is FEC related, which is declared lost.  Without a
\* plugin state the call returns before it has changed anything; when
\* add_lost_packet fails it returns with the packet in the queue and
\* current_packet_is_lost set.
RECURSIVE window_detect_lost_protected_packets(_, _, _, _)
window_detect_lost_protected_packets(s, p, n, failure) ==
    LET pkt == s.retransmit_queue[p] IN
    IF p = 0 \/ n = 0 THEN s
    ELSE IF ~ (pkt.fec_protected \/ pkt.contains_fec)
    THEN window_detect_lost_protected_packets(s, p - 1, n - 1, failure)
    ELSE IF failure = "state" THEN s
    ELSE IF pkt.fec_protected /\ failure = "lost_packet" THEN marked_lost(s)
    ELSE declared_lost(remembered(marked_lost(s), pkt), p)

-----------------------------------------------------------------------------
(* The ACK frames of the peer. *)

\* What a frame acknowledges: the largest packet number, the length of the
\* first range less one, and at most one more block (the gap under the
\* first range and the length of the second range less one).  The peer
\* acknowledges packets that were sent; a first or a second range that
\* reaches one packet number below 0 stands for the frames of a peer that
\* does not.
SecondBlocks(bottom) ==
    {<<>>} \cup
    {<<[gap |-> b[1], range |-> b[2]]>> :
        b \in {c \in (0 .. bottom - 1) \X (0 .. bottom - 1) :
                  c[2] <= bottom - c[1] - 1}}

Contents(sent) ==
    UNION {[largest : {a[1]}, first : {a[2]},
            more : SecondBlocks(a[1] - a[2])] :
              a \in {c \in (0 .. sent - 1) \X (0 .. sent) : c[2] <= c[1] + 1}}

\* The forms a frame is written in: the lengths in bytes of its integers,
\* the delay written, and the ECN counts after the delay.
Forms ==
    [short |-> [largest |-> 1, delay |-> 1, block |-> 1, ack_delay |-> 5,
                counts |-> <<>>],
     long  |-> [largest |-> 2, delay |-> 8, block |-> 4, ack_delay |-> 70000,
                counts |-> <<>>],
     ecn   |-> [largest |-> 1, delay |-> 4, block |-> 2, ack_delay |-> 300,
                counts |-> <<1>> \o varint_encode(300, 2) \o <<0>>]]

\* The bytes up to the end of the first block: type (3 with ECN counts,
\* else 2), largest, delay, the ECN counts, the number of blocks after the
\* first, and the first block.
first_block(c, form) ==
    LET w == Forms[form] IN
    <<IF w.counts = <<>> THEN 2 ELSE 3>>
        \o varint_encode(c.largest, w.largest)
        \o varint_encode(w.ack_delay, w.delay)
        \o w.counts
        \o varint_encode(Len(c.more), 1)
        \o varint_encode(c.first, w.block)

whole_frame(c, form) ==
    LET w == Forms[form] IN
    IF c.more = <<>> THEN first_block(c, form)
    ELSE first_block(c, form) \o varint_encode(c.more[1].gap, w.block)
                             \o varint_encode(c.more[1].range, w.block)

\* The frames of the model: every content in the short form; the newest
\* packet alone in the other forms; and the newest packet with a second
\* block under it in every form, cut after every number of bytes.
Newest(sent, more) == [largest |-> sent - 1, first |-> 0, more |-> more]

Whole(contents, forms) ==
    {[c |-> f[1], form |-> f[2], kept |-> Len(whole_frame(f[1], f[2]))] :
        f \in contents \X forms}

FrameContents(sent) ==
    Whole(Contents(sent), {"short"})
      \cup Whole({Newest(sent, <<>>)} \cap Contents(sent), DOMAIN Forms)
      \cup UNION {[c : {d.c}, form : {d.form}, kept : 1 .. d.kept] :
                     d \in Whole({Newest(sent, <<[gap |-> 0, range |-> 0]>>)}
                                    \cap Contents(sent), DOMAIN Forms)}

ack_frame(d) == SubSeq(whole_frame(d.c, d.form), 1, d.kept)

AckFrames(sent) == {ack_frame(d) : d \in FrameContents(sent)}

\* The packet numbers the frame acknowledges: those of the ranges it holds
\* in full, down to the first that reaches below 0.
Named(d) ==
    LET bottom == d.c.largest - d.c.first
        top2   == bottom - d.c.more[1].gap - 2
        first  == IF /\ d.kept >= Len(first_block(d.c, d.form))
                     /\ bottom >= 0
                  THEN bottom .. d.c.largest
                  ELSE {}
        second == IF /\ d.c.more # <<>>
                     /\ d.kept = Len(whole_frame(d.c, d.form))
                     /\ bottom >= 0
                     /\ top2 - d.c.more[1].range >= 0
                  THEN top2 - d.c.more[1].range .. top2
                  ELSE {}
    IN  first \cup second

-----------------------------------------------------------------------------
(* The events. *)

Now ==
    State(wff, retransmit_queue, lost_packets, feedback, landed,
          current_packet_is_lost)

Becomes(s) ==
    /\ wff' = s.wff
    /\ retransmit_queue' = s.retransmit_queue
    /\ lost_packets' = s.lost_packets
    /\ feedback' = s.feedback
    /\ landed' = s.landed
    /\ current_packet_is_lost' = s.current_packet_is_lost

Sent(slot, sfpid, fec_protected, contains_fec) ==
    /\ retransmit_queue' =
           <<[sequence_number |-> next_pn, slot |-> slot, sfpid |-> sfpid,
              fec_protected |-> fec_protected,
              contains_fec |-> contains_fec]>> \o retransmit_queue
    /\ next_pn' = next_pn + 1

Init ==
    /\ wff = W!create_framework_sender
    /\ retransmit_queue = <<>>
    /\ lost_packets = {}
    /\ feedback = [slot \in 0 .. MaxSlot |-> <<>>]
    /\ next_pn = 0
    /\ landed = {}
    /\ current_packet_is_lost = FALSE

\* A packet with new data: its payload becomes the next source symbol and it
\* is sent in the current slot.  A symbol the ring refuses is not protected.
SendSourcePacket ==
    /\ next_pn <= MaxPacketNumber
    /\ wff.max_id < MaxSymbolId
    /\ wff.current_slot < MaxSlot
    /\ \E what1, what2 \in W!PacketTypes :
           W!window_what_to_send(wff, what1, what2) = "new_rlnc_packet"
    /\ LET p == W!protect_source_symbol(wff) IN
           IF p.ret = 0
           THEN /\ wff' = W!window_sent_symbol(W!sfpid_takes_off(p.wff, p.id))
                /\ Sent(p.wff.current_slot, p.id, TRUE, FALSE)
           ELSE /\ wff' = p.wff
                /\ Sent(0, 0, FALSE, FALSE)
    /\ UNCHANGED <<lost_packets, feedback, landed, current_packet_is_lost>>

\* A packet with a repair symbol over the window, sent in the current slot.
SendFecPacket ==
    /\ next_pn <= MaxPacketNumber
    /\ wff.current_slot < MaxSlot
    /\ \E what1, what2 \in W!PacketTypes :
           LET type == W!window_what_to_send(wff, what1, what2) IN
               /\ type \in {"fec_packet", "fb_fec_packet"}
               /\ W!get_one_coded_symbol(wff, type) # W!NoRepair
    /\ wff' = W!window_sent_symbol(wff)
    /\ Sent(wff.current_slot, 0, FALSE, TRUE)
    /\ UNCHANGED <<lost_packets, feedback, landed, current_packet_is_lost>>

\* A packet the FEC plugin has nothing to do with (a pure acknowledgement).
SendPlainPacket ==
    /\ next_pn <= MaxPacketNumber
    /\ Sent(0, 0, FALSE, FALSE)
    /\ UNCHANGED <<wff, lost_packets, feedback, landed,
                   current_packet_is_lost>>

\* An ACK frame arrives.  A frame that is refused leaves everything as it
\* is (the host then closes the connection with a frame format error).
ReceiveAckFrame(frame) ==
    /\ Becomes(decode_ack_frame(Now, next_pn, frame))
    /\ UNCHANGED next_pn

\* The host's loss detection runs and finds that the n oldest packets of the
\* retransmit queue need to be retransmitted.
DetectLost(n, failure) ==
    /\ n <= Len(retransmit_queue)
    /\ Becomes(window_detect_lost_protected_packets(
                   Now, Len(retransmit_queue), n, failure))
    /\ UNCHANGED next_pn

Next ==
    \/ SendSourcePacket
    \/ SendFecPacket
    \/ SendPlainPacket
    \/ \E frame \in AckFrames(next_pn) : ReceiveAckFrame(frame)
    \/ \E n \in 1 .. MaxPacketNumber + 1, failure \in DetectFailures :
           DetectLost(n, failure)

Spec == Init /\ [][Next]_vars

-----------------------------------------------------------------------------
(* Properties. *)

TypeOK ==
    /\ W!TypeOK
    /\ retransmit_queue \in Seq(Packets)
    /\ lost_packets \subseteq LostEntries
    /\ feedback \in [0 .. MaxSlot -> Seq({"acked", "nacked"})]
    /\ next_pn \in 0 .. MaxPacketNumber + 1
    /\ landed \subseteq 1 .. MaxSymbolId
    /\ current_packet_is_lost \in BOOLEAN

QueuedPackets == {retransmit_queue[i] : i \in DOMAIN retransmit_queue}

\* The symbols the window holds and has not marked received are exactly
\* those whose packet is still waited for, in the retransmit queue or in the
\* table of lost packets: no symbol is given up while its packet can still
\* be acknowledged, and none is kept that no acknowledgement can free.  It
\* is about the two ways a symbol lands in process_ack_range and about
\* current_packet_is_lost in window_detect_lost_protected_packets.
WindowTracksOutstandingPackets == W!WindowHoldsExactlyUnacked

\* The controller hears of every slot at most one loss and at most one
\* acknowledgement, the loss first; of a slot whose packet is still in the
\* retransmit queue it has heard nothing, of one in the table of lost
\* packets only the loss.  It is about process_ack_range being run again
\* for packet numbers it has already seen, and after
\* window_detect_lost_protected_packets.
SlotFeedbackInOrder ==
    /\ \A slot \in DOMAIN feedback :
           feedback[slot] \in
               {<<>>, <<"acked">>, <<"nacked">>, <<"nacked", "acked">>}
    /\ \A p \in QueuedPackets :
           p.fec_protected \/ p.contains_fec => feedback[p.slot] = <<>>
    /\ \A l \in lost_packets : feedback[l.slot] = <<"nacked">>

\* The packet numbers an acknowledgement is waited for.
Waited(s) ==
    {s.retransmit_queue[i].sequence_number : i \in DOMAIN s.retransmit_queue}
      \cup {l.pn : l \in s.lost_packets}

WaitedFor == Waited(Now)

\* Whatever ACK frame arrives, and in whatever state, when it has been read
\* the packets that are no longer waited for are exactly those it names and
\* that were waited for: every range of the frame is settled, in the
\* retransmit queue and in the table of lost packets, and a frame that is
\* cut short or refused settles nothing it does not hold in full.  It is
\* about the integers helper_frames_varint_decode and
\* helper_parse_ack_header read in every length, and about the cursor of
\* process_ack_range, which walks the queue and the range downwards
\* together and is carried from one range of the frame to the next.
AckFrameSettlesItsRanges ==
    \A d \in FrameContents(next_pn) :
        Waited(decode_ack_frame(Now, next_pn, ack_frame(d)))
            = WaitedFor \ Named(d)

\* If no packet is waited for for ever (the peer acknowledges it, or reports
\* that it recovered its symbol), every protected symbol leaves the window
\* in the end.  It is about a packet declared lost by
\* window_detect_lost_protected_packets, whose symbol only the table of
\* lost packets can free, and about the pruning of symbols acknowledged
\* behind the head of the window.
WindowDrains ==
    (\A pn \in PacketNumbers : []<>(pn \notin WaitedFor)) =>
        \A id \in 1 .. MaxSymbolId :
            (id \in W!WindowIds) ~> (id \notin W!WindowIds)

=============================================================================
