--------------------------- MODULE BlockFramework ---------------------------
(***************************************************************************)
(* The block framework of src/plugins/fec/block_framework.h: the sender    *)
(* gathers source symbols into the current FEC block, has the repair       *)
(* symbols of a full (or flushed) block generated, and keeps them in       *)
(* repair_symbols_queue[] until write_fec_frame puts them into a packet.   *)
(* The queue is an array indexed by the payload id of the symbol, with a   *)
(* head that walks from slot to slot.                                      *)
(*                                                                         *)
(* A repair symbol is its block number and its number in the block; its    *)
(* payload is left out, its length is DataLength.                          *)
(***************************************************************************)
EXTENDS Integers, Sequences, FiniteSets, Functions

CONSTANTS
    MAX_QUEUED_REPAIR_SYMBOLS,  \* slots of the queue
    BlockNumbers,               \* values of the bit-field current_block_number: 2^24
    DEFAULT_N,                  \* symbols of a block
    DEFAULT_K,                  \* source symbols of a block
    DataLength,                 \* data_length of a repair symbol
    FEC_FRAME_HEADER_SIZE,      \* sizeof(fec_frame_header_t)
    FrameSizes                  \* the bytes_max write_fec_frame is called with

ASSUME /\ MAX_QUEUED_REPAIR_SYMBOLS \in Nat \ {0}
       /\ BlockNumbers \in Nat \ {0}
       /\ DEFAULT_K \in Nat \ {0} /\ DEFAULT_N \in Nat /\ DEFAULT_N > DEFAULT_K
       /\ DataLength \in Nat \ {0}
       /\ FEC_FRAME_HEADER_SIZE \in Nat
       /\ FrameSizes \subseteq Nat

VARIABLES
    bff,      \* the block_fec_framework_t
    status,   \* "running", "crashed" (a NULL pointer was followed), "destroyed"
    ffh,      \* the header of the last FEC frame written
    order,    \* the slots that hold a repair symbol, the oldest symbol first
    skipped   \* a block has left no repair symbol, or the block number wrapped

vars == <<bff, status, ffh, order, skipped>>

QueueSlots == 0 .. MAX_QUEUED_REPAIR_SYMBOLS - 1

NULL == [fec_block_number |-> -1]
EmptyItem == [repair_symbol |-> NULL, nss |-> 0, nrs |-> 0]
NoFrame == [data_length |-> 0]

PICOQUIC_ERROR_FRAME_BUFFER_TOO_SMALL == 1026

-----------------------------------------------------------------------------
(* fec.h: what block_framework.h uses of it. *)

\* malloc_fec_block, with the two fields new_block_fec_framework and
\* sent_block set after it.
malloc_fec_block(n, k) ==
    [current_source_symbols |-> 0, total_source_symbols |-> k, total_repair_symbols |-> n - k]

\* add_source_symbol_to_fec_block.
add_source_symbol_to_fec_block(fb) == [fb EXCEPT !.current_source_symbols = @ + 1]

\* repair_fec_payload_id.source_fpid.raw: the 24 bits of the block number
\* below the 8 bits of the symbol number.
source_fpid_raw(rs) == rs.fec_block_number + rs.symbol_number * BlockNumbers

-----------------------------------------------------------------------------
(* The functions of block_framework.h. *)

new_block_fec_framework ==
    [current_block_number |-> 0,
     current_block |-> malloc_fec_block(DEFAULT_N, DEFAULT_K),
     n |-> DEFAULT_N, k |-> DEFAULT_K,
     repair_symbols_queue |-> [idx \in QueueSlots |-> EmptyItem],
     repair_symbols_queue_head |-> 0,
     repair_symbols_queue_length |-> 0,
     queue_byte_offset |-> 0,
     queue_piece_offset |-> 0]

ready_to_send(b) == b.current_block.current_source_symbols = b.k

has_repair_symbols_to_send(b) == b.repair_symbols_queue_length > 0

has_repair_symbol_at_index(b, idx) == b.repair_symbols_queue[idx].repair_symbol # NULL

remove_item_at_index(b, idx) == [b EXCEPT !.repair_symbols_queue[idx] = EmptyItem]

put_item_at_index(b, idx, rs, nss, nrs) ==
    [b EXCEPT !.repair_symbols_queue[idx] = [repair_symbol |-> rs, nss |-> nss, nrs |-> nrs]]

\* The length goes down for the symbol that is overwritten, the head stays.
make_room_head_stays(b, idx) ==
    IF has_repair_symbol_at_index(b, idx)
    THEN [remove_item_at_index(b, idx) EXCEPT !.repair_symbols_queue_length = @ - 1]
    ELSE b

\* queue_repair_symbol, first half: the symbol that has the slot is
\* dropped, and the head moves on when it was this symbol and not the last.
make_room(b, idx) ==
    LET head_moves == b.repair_symbols_queue_length > 1 /\ b.repair_symbols_queue_head = idx
    IN  IF has_repair_symbol_at_index(b, idx)
        THEN [remove_item_at_index(b, idx) EXCEPT
                 !.repair_symbols_queue_head =
                     IF head_moves THEN (@ + 1) % MAX_QUEUED_REPAIR_SYMBOLS ELSE @,
                 !.queue_byte_offset = IF head_moves THEN 0 ELSE @,
                 !.repair_symbols_queue_length = @ - 1]
        ELSE b

queue_repair_symbol(b, rs, fb) ==
    LET idx == source_fpid_raw(rs) % MAX_QUEUED_REPAIR_SYMBOLS
        put == put_item_at_index(make_room(b, idx), idx, rs,
                                 fb.total_source_symbols, fb.total_repair_symbols)
        empty == put.repair_symbols_queue_length = 0
    IN  [put EXCEPT !.repair_symbols_queue_head = IF empty THEN idx ELSE @,
                    !.queue_byte_offset = IF empty THEN 0 ELSE @,
                    !.repair_symbols_queue_length = @ + 1]

\* queue_repair_symbols from symbol i on.
RECURSIVE queue_repair_symbols(_, _, _, _)
queue_repair_symbols(b, i, number_of_symbols, fec_block) ==
    IF i >= number_of_symbols THEN b
    ELSE queue_repair_symbols(
             queue_repair_symbol(b, [fec_block_number |-> b.current_block_number,
                                     symbol_number |-> i], fec_block),
             i + 1, number_of_symbols, fec_block)

\* generate_and_queue_repair_symbols, ret being what the operation
\* fec_generate_repair_symbols returns.
generate_and_queue_repair_symbols(b, ret) ==
    IF ret = 0
    THEN queue_repair_symbols(b, 0, b.current_block.total_repair_symbols, b.current_block)
    ELSE b

\* The block number goes on counting past its 24 bits.
sent_block_no_wrap(b, alloc_ok) ==
    [b EXCEPT !.current_block_number = @ + 1,
              !.current_block = IF alloc_ok THEN malloc_fec_block(b.n, b.k) ELSE NULL]

sent_block(b, alloc_ok) ==
    [b EXCEPT !.current_block_number = (@ + 1) % BlockNumbers,
              !.current_block = IF alloc_ok THEN malloc_fec_block(b.n, b.k) ELSE NULL]

\* protect_source_symbol; neither the generation nor sent_block is asked
\* whether it succeeded.
protect_source_symbol(b, ret, alloc_ok) ==
    LET added == [b EXCEPT !.current_block = add_source_symbol_to_fec_block(@)]
    IN  IF ready_to_send(added)
        THEN sent_block(generate_and_queue_repair_symbols(added, ret), alloc_ok)
        ELSE added

\* flush_fec_block: the block is closed with the source symbols it has.
flush_fec_block(b, ret, alloc_ok) ==
    LET fb == b.current_block
        closed == [b EXCEPT !.current_block =
                      [fb EXCEPT !.total_source_symbols = fb.current_source_symbols,
                                 !.total_repair_symbols =
                                     IF fb.current_source_symbols < @
                                     THEN fb.current_source_symbols ELSE @]]
    IN  IF fb.current_source_symbols >= 1
        THEN sent_block(generate_and_queue_repair_symbols(closed, ret), alloc_ok)
        ELSE b

\* The symbol at the head goes out when the room is at least one byte more
\* than it needs.
get_repair_payload_wants_more(b, bytes_max) ==
    LET head == b.repair_symbols_queue_head
        amount == DataLength - b.queue_byte_offset
    IN  IF b.repair_symbols_queue_length = 0 \/ bytes_max <= DataLength
        THEN [amount |-> 0, bff |-> b, ffh |-> NoFrame]
        ELSE [amount |-> amount,
              bff |-> [remove_item_at_index(b, head) EXCEPT
                          !.repair_symbols_queue_head = (@ + 1) % MAX_QUEUED_REPAIR_SYMBOLS,
                          !.repair_symbols_queue_length = @ - 1],
              ffh |-> [repair_fec_payload_id |-> b.repair_symbols_queue[head].repair_symbol,
                       offset |-> 1, data_length |-> amount, fin_bit |-> TRUE]]

\* get_repair_payload_from_queue when the slot at the head holds a symbol:
\* [amount, bff, ffh].  A symbol is never split: it goes out whole or not at
\* all, so the offsets are back at 0 after every call.
get_repair_payload_from_queue(b, bytes_max) ==
    LET head == b.repair_symbols_queue_head
        item == b.repair_symbols_queue[head]
        amount == IF DataLength - b.queue_byte_offset <= bytes_max
                  THEN DataLength - b.queue_byte_offset ELSE bytes_max
        fin_bit == b.queue_byte_offset + amount = DataLength
        moved == [b EXCEPT !.queue_byte_offset = @ + amount, !.queue_piece_offset = @ + 1]
    IN  IF b.repair_symbols_queue_length = 0 \/ bytes_max < DataLength
        THEN [amount |-> 0, bff |-> b, ffh |-> NoFrame]
        ELSE [amount |-> amount,
              bff |-> IF fin_bit
                      THEN [remove_item_at_index(moved, head) EXCEPT
                               !.repair_symbols_queue_head =
                                   (@ + 1) % MAX_QUEUED_REPAIR_SYMBOLS,
                               !.queue_byte_offset = 0,
                               !.queue_piece_offset = 0,
                               !.repair_symbols_queue_length = @ - 1]
                      ELSE moved,
              ffh |-> [repair_fec_payload_id |-> item.repair_symbol,
                       offset |-> moved.queue_piece_offset % 256,
                       nss |-> item.nss, nrs |-> item.nrs,
                       data_length |-> amount, fin_bit |-> fin_bit]]

\* write_fec_frame: [ret, bff, ffh], ffh the header written when ret is 0.
write_fec_frame(b, bytes_max) ==
    LET payload == get_repair_payload_from_queue(b, bytes_max - FEC_FRAME_HEADER_SIZE)
    IN  IF bytes_max < FEC_FRAME_HEADER_SIZE THEN [ret |-> -1, bff |-> b, ffh |-> NoFrame]
        ELSE IF payload.amount = 0
        THEN [ret |-> PICOQUIC_ERROR_FRAME_BUFFER_TOO_SMALL, bff |-> b, ffh |-> NoFrame]
        ELSE [ret |-> 0, bff |-> payload.bff, ffh |-> payload.ffh]

-----------------------------------------------------------------------------
(* The calls of the connection. *)

\* The slots that hold a repair symbol.
\* `order' after the symbols of the slots `put' have been queued, in this
\* order, and the symbols of the slots `taken' have gone.
reordered(put, taken) ==
    SelectSeq(order, LAMBDA idx : idx \notin taken /\ idx \notin Range(put)) \o put

\* The slots of the repair symbols of the current block.
slots_of_block(b, nrs) ==
    [i \in 1 .. nrs |->
        source_fpid_raw([fec_block_number |-> b.current_block_number, symbol_number |-> i - 1])
            % MAX_QUEUED_REPAIR_SYMBOLS]

Init ==
    /\ bff = new_block_fec_framework
    /\ status = "running"
    /\ ffh = NoFrame
    /\ order = <<>>
    /\ skipped = FALSE

\* A call that follows current_block when sent_block has left it NULL.
FollowNullBlock ==
    /\ status = "running"
    /\ bff.current_block = NULL
    /\ status' = "crashed"
    /\ UNCHANGED <<bff, ffh, order, skipped>>

\* A block is closed: it leaves no repair symbol in the queue when the
\* generation fails, and the number of the next block may be 0 again.
BlockSent(called, ret, nrs) ==
    LET sent == called.current_block_number # bff.current_block_number
    IN  /\ bff' = called
        /\ order' = IF sent /\ ret = 0 THEN reordered(slots_of_block(bff, nrs), {}) ELSE order
        /\ skipped' = (skipped \/ (sent /\ (ret # 0 \/ called.current_block_number = 0)))
        /\ UNCHANGED <<status, ffh>>

ProtectSourceSymbol(ret, alloc_ok) ==
    /\ status = "running"
    /\ bff.current_block # NULL
    /\ BlockSent(protect_source_symbol(bff, ret, alloc_ok), ret,
                 bff.current_block.total_repair_symbols)

FlushFecBlock(ret, alloc_ok) ==
    /\ status = "running"
    /\ bff.current_block # NULL
    /\ LET fb == bff.current_block
       IN  BlockSent(flush_fec_block(bff, ret, alloc_ok), ret,
                     IF fb.current_source_symbols < fb.total_repair_symbols
                     THEN fb.current_source_symbols ELSE fb.total_repair_symbols)

\* write_fec_frame.  With symbols in the queue and none in the slot at the
\* head, get_repair_payload_from_queue reads data_length through NULL.
WriteFecFrame(bytes_max) ==
    /\ status = "running"
    /\ IF /\ bytes_max >= FEC_FRAME_HEADER_SIZE
          /\ has_repair_symbols_to_send(bff)
          /\ ~has_repair_symbol_at_index(bff, bff.repair_symbols_queue_head)
       THEN /\ status' = "crashed"
            /\ UNCHANGED <<bff, ffh, order>>
       ELSE LET written == write_fec_frame(bff, bytes_max)
            IN  /\ bff' = written.bff
                /\ ffh' = IF written.ret = 0 THEN written.ffh ELSE ffh
                /\ order' = IF written.ret = 0
                            THEN reordered(<<>>, {bff.repair_symbols_queue_head})
                            ELSE order
                /\ UNCHANGED status
    /\ UNCHANGED skipped

\* destroy_block_fec_framework: the framework and its block are freed, the
\* repair symbols still in the queue are not.
Destroy ==
    /\ status = "running"
    /\ status' = "destroyed"
    /\ UNCHANGED <<bff, ffh, order, skipped>>

Next ==
    \/ \E ret \in {0, 1}, alloc_ok \in BOOLEAN :
           ProtectSourceSymbol(ret, alloc_ok) \/ FlushFecBlock(ret, alloc_ok)
    \/ \E bytes_max \in FrameSizes : WriteFecFrame(bytes_max)
    \/ FollowNullBlock
    \/ Destroy

Spec == Init /\ [][Next]_vars

\* A frame with room for a repair symbol.
SendRepairSymbol ==
    \E bytes_max \in FrameSizes :
        bytes_max >= FEC_FRAME_HEADER_SIZE + DataLength /\ WriteFecFrame(bytes_max)

\* The connection goes on preparing packets while the framework has repair
\* symbols to send, and offers write_fec_frame a packet with room for a
\* symbol again and again.
FairSpec == Spec /\ WF_vars(SendRepairSymbol)

-----------------------------------------------------------------------------
(* Properties *)

Blocks == [current_source_symbols : 0 .. DEFAULT_K, total_source_symbols : 0 .. DEFAULT_K,
           total_repair_symbols : 0 .. DEFAULT_N - DEFAULT_K]
RepairSymbols == [fec_block_number : 0 .. BlockNumbers - 1,
                  symbol_number : 0 .. DEFAULT_N - DEFAULT_K - 1]

TypeOK ==
    /\ bff.current_block_number \in 0 .. BlockNumbers - 1
    /\ bff.current_block \in Blocks \cup {NULL}
    /\ bff.repair_symbols_queue \in
           [QueueSlots -> [repair_symbol : RepairSymbols, nss : 1 .. DEFAULT_K,
                           nrs : 1 .. DEFAULT_N - DEFAULT_K] \cup {EmptyItem}]
    /\ bff.repair_symbols_queue_head \in QueueSlots
    /\ bff.repair_symbols_queue_length \in 0 .. MAX_QUEUED_REPAIR_SYMBOLS
    /\ bff.queue_byte_offset = 0 /\ bff.queue_piece_offset = 0
    /\ status \in {"running", "crashed", "destroyed"}
    /\ skipped \in BOOLEAN

\* As long as every block has left its repair symbol in the queue and the
\* block number has not wrapped, the slot at the head holds the oldest
\* symbol of the queue, so get_repair_payload_from_queue never reads
\* through NULL and write_fec_frame sends the symbols in the order of their
\* blocks.  (The head only ever moves to the next slot: after a block
\* without repair symbol, or once the number is back at 0, the next slot
\* is not where the next symbol is.)
HeadIsOldest ==
    ~skipped =>
        /\ status = "crashed" => bff.current_block = NULL
        /\ order # <<>> => bff.repair_symbols_queue_head = Head(order)

\* The oldest repair symbol of the queue leaves it in the end, in a frame
\* or overwritten by a newer one, unless the framework is destroyed or has
\* crashed before; so every symbol does: none is left behind by the head
\* for ever while write_fec_frame is called.
OldestSymbolLeaves ==
    \A idx \in QueueSlots :
        (order # <<>> /\ Head(order) = idx)
            ~> (order = <<>> \/ Head(order) # idx \/ status # "running")
=============================================================================
