----------------------------- MODULE RepairQueue -----------------------------
(***************************************************************************)
(* The sender's queue of repair symbols waiting for a FEC frame: the ring  *)
(* repair_symbols_queue[] of window_fec_framework_t with its head, length  *)
(* and fragmentation offsets, and the functions of                         *)
(* src/plugins/fec/framework/window_framework_sender.h that fill it        *)
(* (queue_repair_symbol), empty it (get_repair_payload_from_queue,         *)
(* reserve_fec_frames) and do both in one handler                          *)
(* (generate_and_queue_repair_symbols).                                    *)
(*                                                                         *)
(* A repair symbol is its number in generation order and the length of its *)
(* payload; the payload itself is left out.                                *)
(***************************************************************************)
EXTENDS Integers, Sequences, FiniteSets, TLC

CONSTANTS
    MAX_QUEUED_REPAIR_SYMBOLS,  \* slots of the ring
    PICOQUIC_MAX_PACKET_SIZE,   \* size_max of the handler's reserve_fec_frames
    FEC_FRAME_HEADER_SIZE,      \* sizeof(fec_frame_header_t)
    DataLengths,                \* payload lengths a repair symbol may have
    MaxBatch,                   \* most repair symbols one block brings
    MaxRepairSymbols,           \* bound of the model on symbols generated
    MaxSourceId                 \* bound of the model on the last protected id

ASSUME /\ MAX_QUEUED_REPAIR_SYMBOLS \in Nat \ {0}
       /\ PICOQUIC_MAX_PACKET_SIZE \in Nat
       /\ FEC_FRAME_HEADER_SIZE \in Nat
       /\ DataLengths \subseteq Nat \ {0}
       /\ MaxBatch \in Nat \ {0}
       /\ MaxRepairSymbols \in Nat
       /\ MaxSourceId \in Nat

VARIABLES
    wff,        \* the queue fields of window_fec_framework_t
    generated,  \* number of repair symbols generated so far
    frames,     \* headers of the FEC frames handed to the packetizer, in order
    evicted,    \* symbols overwritten in the ring before they were sent
    dropped     \* symbols taken from the ring whose frame was not reserved

vars == <<wff, generated, frames, evicted, dropped>>

QueueSlots == 0 .. MAX_QUEUED_REPAIR_SYMBOLS - 1

\* A NULL repair_symbol pointer.
NoRepairSymbol == [id |-> 0, data_length |-> 0]

EmptyItem == [repair_symbol |-> NoRepairSymbol, nss |-> 0, nrs |-> 0]

RepairSymbols == [id : 1 .. MaxRepairSymbols, data_length : DataLengths]

\* How a pass of reserve_fec_frames can end early: the frame or its buffer
\* is not allocated, before the symbol is taken from the queue; the slot is
\* not allocated or the frame is not reserved, after it was taken.
Failures == {"no_frame_memory", "no_slot_memory", "not_reserved"}

PICOQUIC_ERROR_MEMORY == 1025
PICOQUIC_ERROR_FRAME_BUFFER_TOO_SMALL == 1026

-----------------------------------------------------------------------------
(* The functions of the header. *)

has_repair_symbol_at_index(w, idx) ==
    w.repair_symbols_queue[idx].repair_symbol # NoRepairSymbol

remove_item_at_index(w, idx) ==
    [w EXCEPT !.repair_symbols_queue[idx] = EmptyItem]

put_item_at_index(w, idx, rs, nss, nrs) ==
    [w EXCEPT !.repair_symbols_queue[idx] =
                  [repair_symbol |-> rs, nss |-> nss % 256, nrs |-> nrs % 256]]

\* Fault: the occupant is overwritten but the head keeps pointing at its slot.
queue_without_head_move(w, rs, fb) ==
    LET idx  == (w.repair_symbols_queue_head + w.repair_symbols_queue_length)
                    % MAX_QUEUED_REPAIR_SYMBOLS
        room == IF has_repair_symbol_at_index(w, idx)
                THEN [remove_item_at_index(w, idx) EXCEPT
                        !.repair_symbols_queue_length = @ - 1]
                ELSE w
        put  == put_item_at_index(room, idx, rs, fb.total_source_symbols,
                                  fb.total_repair_symbols)
    IN  [put EXCEPT !.repair_symbols_queue_length = @ + 1]

\* Fault: the occupant is overwritten and still counted.
queue_without_length_fix(w, rs, fb) ==
    LET idx == (w.repair_symbols_queue_head + w.repair_symbols_queue_length)
                   % MAX_QUEUED_REPAIR_SYMBOLS
        put == put_item_at_index(w, idx, rs, fb.total_source_symbols,
                                 fb.total_repair_symbols)
    IN  [put EXCEPT !.repair_symbols_queue_length = @ + 1]

\* The symbol goes to the slot after the last one.  An occupant of that slot
\* (the ring is full, it is the head) is freed, and the head moves on.
queue_repair_symbol(w, rs, fb) ==
    LET idx   == (w.repair_symbols_queue_head + w.repair_symbols_queue_length)
                     % MAX_QUEUED_REPAIR_SYMBOLS
        moved == IF /\ w.repair_symbols_queue_length > 1
                    /\ w.repair_symbols_queue_head = idx
                 THEN [w EXCEPT !.repair_symbols_queue_head =
                                    (@ + 1) % MAX_QUEUED_REPAIR_SYMBOLS,
                                !.queue_byte_offset = 0]
                 ELSE w
        room  == IF has_repair_symbol_at_index(w, idx)
                 THEN [remove_item_at_index(moved, idx) EXCEPT
                         !.repair_symbols_queue_length = @ - 1]
                 ELSE w
        put   == put_item_at_index(room, idx, rs, fb.total_source_symbols,
                                   fb.total_repair_symbols)
        first == IF put.repair_symbols_queue_length = 0
                 THEN [put EXCEPT !.repair_symbols_queue_head = idx,
                                  !.queue_byte_offset = 0]
                 ELSE put
    IN  [first EXCEPT !.repair_symbols_queue_length = @ + 1]

RECURSIVE queue_repair_symbols(_, _, _)
queue_repair_symbols(w, rss, fb) ==
    IF rss = <<>> THEN w
    ELSE queue_repair_symbols(queue_repair_symbol(w, Head(rss), fb), Tail(rss), fb)

\* Fault: the symbol is handed out but stays at the head of the queue.
get_payload_without_removal(w, bytes_max) ==
    LET item == w.repair_symbols_queue[w.repair_symbols_queue_head]
        rs   == item.repair_symbol
    IN  IF w.repair_symbols_queue_length = 0 \/ bytes_max < rs.data_length
        THEN [amount |-> 0, wff |-> w, ffh |-> <<>>]
        ELSE [amount |-> rs.data_length, wff |-> w,
              ffh |-> [repair_symbol |-> rs.id, offset |-> 1, nss |-> item.nss,
                       nrs |-> item.nrs, data_length |-> rs.data_length,
                       fin_bit |-> TRUE]]

\* Copies what is left of the head symbol, at most bytes_max bytes, and
\* fills the frame header; a symbol copied to its end leaves the queue.  A
\* symbol longer than bytes_max is not started.
get_repair_payload_from_queue(w, bytes_max) ==
    LET item   == w.repair_symbols_queue[w.repair_symbols_queue_head]
        rs     == item.repair_symbol
        left   == rs.data_length - w.queue_byte_offset
        amount == IF left <= bytes_max THEN left ELSE bytes_max
        copied == [w EXCEPT !.queue_byte_offset = @ + amount,
                            !.queue_piece_offset = @ + 1]
        done   == copied.queue_byte_offset = rs.data_length
    IN  IF w.repair_symbols_queue_length = 0 \/ bytes_max < rs.data_length
        THEN [amount |-> 0, wff |-> w, ffh |-> <<>>]
        ELSE [amount |-> amount,
              wff |-> IF done
                      THEN [remove_item_at_index(copied,
                                                 w.repair_symbols_queue_head)
                              EXCEPT !.repair_symbols_queue_head =
                                         (@ + 1) % MAX_QUEUED_REPAIR_SYMBOLS,
                                     !.queue_byte_offset = 0,
                                     !.queue_piece_offset = 0,
                                     !.repair_symbols_queue_length = @ - 1]
                      ELSE copied,
              ffh |-> [repair_symbol |-> rs.id,
                       offset        |-> copied.queue_piece_offset % 256,
                       nss           |-> item.nss,
                       nrs           |-> item.nrs,
                       data_length   |-> amount,
                       fin_bit       |-> done]]

\* The loop of reserve_fec_frames.  n_ok frames are reserved; the pass after
\* them, if the queue is not empty by then, ends the way `failure' says.
RECURSIVE reserve_loop(_, _, _, _)
reserve_loop(w, bytes_max, n_ok, failure) ==
    LET got  == get_repair_payload_from_queue(w, bytes_max)
        rest == reserve_loop(got.wff, bytes_max, n_ok - 1, failure)
    IN  IF w.repair_symbols_queue_length = 0
        THEN [ret |-> 0, wff |-> w, frames |-> <<>>, dropped |-> {}]
        ELSE IF n_ok = 0 /\ failure = "no_frame_memory"
        THEN [ret |-> PICOQUIC_ERROR_MEMORY, wff |-> w,
              frames |-> <<>>, dropped |-> {}]
        ELSE IF got.amount = 0
        THEN [ret |-> PICOQUIC_ERROR_FRAME_BUFFER_TOO_SMALL, wff |-> w,
              frames |-> <<>>, dropped |-> {}]
        ELSE IF n_ok = 0
        THEN [ret |-> IF failure = "not_reserved" THEN 1
                      ELSE PICOQUIC_ERROR_MEMORY,
              wff |-> got.wff,
              frames |-> <<>>, dropped |-> {got.ffh.repair_symbol}]
        ELSE [rest EXCEPT !.frames = <<got.ffh>> \o @]

reserve_fec_frames(w, size_max, n_ok, failure) ==
    IF size_max <= FEC_FRAME_HEADER_SIZE
    THEN [ret |-> -1, wff |-> w, frames |-> <<>>, dropped |-> {}]
    ELSE reserve_loop(w, size_max - FEC_FRAME_HEADER_SIZE - 1, n_ok, failure)

\* The handler.  `in' holds what the operations it runs answer: whether the
\* controller wants repair symbols, the block fb that is selected (ret is the
\* selection's error), the repair symbols rss the scheme generates for it
\* (gen_ret is the scheme's error) and how frame reservation goes.  The
\* result of reserve_fec_frames is not looked at.
generate_and_queue_repair_symbols(w, in) ==
    LET queued   == queue_repair_symbols(w, in.rss, in.fb)
        raised   == [queued EXCEPT !.highest_sent_id =
                         IF in.fb.last_id > @ THEN in.fb.last_id ELSE @]
        reserved == reserve_fec_frames(raised, PICOQUIC_MAX_PACKET_SIZE,
                                       in.n_ok, in.failure)
        nothing  == [wff |-> w, frames |-> <<>>, dropped |-> {}]
    IN  IF ~in.should_send_rs THEN nothing @@ [ret |-> 0]
        ELSE IF in.ret # 0 THEN nothing @@ [ret |-> in.ret]
        ELSE IF in.fb.total_source_symbols = 0 THEN nothing @@ [ret |-> 0]
        ELSE IF in.gen_ret # 0 THEN nothing @@ [ret |-> in.gen_ret]
        ELSE [reserved EXCEPT !.ret = 0]

-----------------------------------------------------------------------------
(* The events. *)

QueuedIds(w) ==
    {w.repair_symbols_queue[i].repair_symbol.id : i \in QueueSlots} \ {0}

Init ==
    /\ wff = [repair_symbols_queue        |-> [i \in QueueSlots |-> EmptyItem],
              repair_symbols_queue_head   |-> 0,
              repair_symbols_queue_length |-> 0,
              queue_byte_offset           |-> 0,
              queue_piece_offset          |-> 0,
              highest_sent_id             |-> 0]
    /\ generated = 0
    /\ frames = <<>>
    /\ evicted = {}
    /\ dropped = {}

\* One call of generate_and_queue_repair_symbols.  When it gets as far as
\* the scheme, the scheme generates r repair symbols of one length for the
\* k source symbols that end at last_id.
Inputs ==
    [should_send_rs : BOOLEAN, ret : {0, 1}, gen_ret : {0, 1},
     r : 1 .. MaxBatch, k : 0 .. 1, last_id : 1 .. MaxSourceId,
     len : DataLengths, n_ok : 0 .. MAX_QUEUED_REPAIR_SYMBOLS,
     failure : Failures]

Generates(c) ==
    c.should_send_rs /\ c.ret = 0 /\ c.k > 0 /\ c.gen_ret = 0

GenerateAndQueue ==
    \E c \in Inputs :
        LET r    == IF Generates(c) THEN c.r ELSE 0
            new  == generated + 1 .. generated + r
            in   == [should_send_rs |-> c.should_send_rs, ret |-> c.ret,
                     gen_ret |-> c.gen_ret,
                     fb  |-> [total_source_symbols |-> c.k,
                              total_repair_symbols |-> c.r,
                              last_id |-> c.last_id],
                     rss |-> [i \in 1 .. r |->
                                 [id |-> generated + i, data_length |-> c.len]],
                     n_ok |-> c.n_ok, failure |-> c.failure]
            done == generate_and_queue_repair_symbols(wff, in)
            sent == {done.frames[i].repair_symbol : i \in DOMAIN done.frames}
        IN  /\ generated + r <= MaxRepairSymbols
            /\ wff' = done.wff
            /\ generated' = generated + r
            /\ frames' = frames \o done.frames
            /\ dropped' = dropped \cup done.dropped
            /\ evicted' = evicted \cup
                   ((QueuedIds(wff) \cup new)
                        \ (QueuedIds(done.wff) \cup sent \cup done.dropped))

Next == GenerateAndQueue

Spec == Init /\ [][Next]_vars

-----------------------------------------------------------------------------
(* Properties. *)

TypeOK ==
    /\ wff \in [repair_symbols_queue :
                    [QueueSlots -> {EmptyItem} \cup
                        [repair_symbol : RepairSymbols, nss : 0 .. 255,
                         nrs : 0 .. 255]],
                repair_symbols_queue_head   : QueueSlots,
                repair_symbols_queue_length : 0 .. MAX_QUEUED_REPAIR_SYMBOLS,
                queue_byte_offset           : Nat,
                queue_piece_offset          : Nat,
                highest_sent_id             : 0 .. MaxSourceId]
    /\ generated \in 0 .. MaxRepairSymbols
    /\ frames \in Seq([repair_symbol : 1 .. MaxRepairSymbols, offset : 0 .. 255,
                       nss : 0 .. 255, nrs : 0 .. 255, data_length : DataLengths,
                       fin_bit : BOOLEAN])
    /\ evicted \subseteq 1 .. MaxRepairSymbols
    /\ dropped \subseteq 1 .. MaxRepairSymbols

\* The symbol in the i-th place of the queue, counted from the head.
Queued(i) ==
    wff.repair_symbols_queue[(wff.repair_symbols_queue_head + i - 1)
                                 % MAX_QUEUED_REPAIR_SYMBOLS].repair_symbol.id

FrameIds == {frames[i].repair_symbol : i \in DOMAIN frames}

\* The queue as the code reads it: the repair_symbols_queue_length slots
\* from the head.
Waiting == [i \in 1 .. wff.repair_symbols_queue_length |-> Queued(i)]

FreeSlots == {i \in QueueSlots : wff.repair_symbols_queue[i] = EmptyItem}

Fifo == INSTANCE RepairFifo WITH
            Capacity <- MAX_QUEUED_REPAIR_SYMBOLS,
            queue    <- Waiting,
            free     <- Cardinality(FreeSlots),
            sent     <- [i \in DOMAIN frames |-> frames[i].repair_symbol],
            lost     <- evicted \cup dropped

\* The ring is a first-in first-out queue of MAX_QUEUED_REPAIR_SYMBOLS
\* places: every call of generate_and_queue_repair_symbols appends the
\* symbols generated, loses the oldest ones only when the ring overflows and
\* only as many as overflow, and takes symbols for frames from the head, in
\* order; the slots beyond repair_symbols_queue_length hold nothing.  It is
\* about the index arithmetic of queue_repair_symbol when it overwrites the
\* head of a full ring, and of get_repair_payload_from_queue.
ImplementsRepairFifo == Fifo!Spec

\* Every repair symbol generated so far is in exactly one place: queued,
\* sent in a frame, overwritten in the ring, or lost with a frame that was
\* not reserved; no symbol is sent twice.  It is about reserve_fec_frames,
\* which removes a symbol from the queue before it knows that its frame is
\* reserved.
EverySymbolAccountedFor ==
    /\ QueuedIds(wff) \cup FrameIds \cup evicted \cup dropped = 1 .. generated
    /\ Cardinality(QueuedIds(wff)) + Len(frames) + Cardinality(evicted)
           + Cardinality(dropped) = generated

=============================================================================
