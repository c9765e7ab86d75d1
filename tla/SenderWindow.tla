---------------------------- MODULE SenderWindow ----------------------------
(***************************************************************************)
(* The sender's sliding window of source symbols: the fields of            *)
(* window_fec_framework_t that describe the window, and the functions of   *)
(* src/plugins/fec/framework/window_framework_sender.h that add a symbol   *)
(* to the ring, mark it received, prune the head of the window and select  *)
(* the symbols a repair symbol protects.                                   *)
(*                                                                         *)
(* Every function of the header is an operator from a window record to a   *)
(* window record (and a return value), so that a caller that invokes       *)
(* several of them in one handler composes them.  The actions at the end   *)
(* are the three events that reach the window: a source symbol is sent, a  *)
(* repair symbol is sent, feedback for a symbol arrives.                   *)
(*                                                                         *)
(* The repair symbol itself is made by the random linear code of RlcScheme *)
(* from the payloads of the symbols selected.                              *)
(***************************************************************************)
EXTENDS Integers, FiniteSets, Sequences

CONSTANTS
    RECEIVE_BUFFER_MAX_LENGTH,  \* number of slots of the ring fec_window[]
    MAX_SLOTS,                  \* window length that forces a repair packet
    MaxSymbolId,                \* bound of the model on max_id
    MaxSlot,                    \* bound of the model on current_slot
    SymbolBytes,                \* values of a byte of a payload
    MaxDataLength,              \* bound of the model on data_length
    PrngOutputs                 \* the words the generator of the code yields

ASSUME /\ RECEIVE_BUFFER_MAX_LENGTH \in Nat \ {0}
       /\ MAX_SLOTS \in Nat \ {0}
       /\ MaxSymbolId \in Nat
       /\ MaxSlot \in Nat
       /\ SymbolBytes \subseteq 0 .. 255
       /\ MaxDataLength \in Nat

VARIABLES
    wff,        \* the window_fec_framework_t of the connection
    data,       \* the payload of the source symbol each slot points at
    in_flight,  \* ids sent and not yet reported received
    landed      \* ids reported received (history)

vars == <<wff, data, in_flight, landed>>

Rlc == INSTANCE RlcScheme

INITIAL_SYMBOL_ID == 1

\* A NULL symbol pointer: ids start at INITIAL_SYMBOL_ID, so 0 is free.
NoSymbol == 0

\* The answer of get_one_coded_symbol when no symbol can be built.
NoRepair == [first_id |-> 0, nss |-> 0]

Slots == 0 .. RECEIVE_BUFFER_MAX_LENGTH - 1

EmptySlot == [symbol |-> NoSymbol, received |-> FALSE]

\* The payloads a packet may have.
Payloads == UNION {[1 .. n -> SymbolBytes] : n \in 1 .. MaxDataLength}

PacketTypes == {"new_rlnc_packet", "fec_packet", "fb_fec_packet", "nothing"}

IndexOf(id) == id % RECEIVE_BUFFER_MAX_LENGTH

Larger(a, b) == IF a > b THEN a ELSE b

Smaller(a, b) == IF a < b THEN a ELSE b

-----------------------------------------------------------------------------
(* The functions of the header. *)

is_fec_window_empty(w) == w.window_length = 0

create_framework_sender ==
    [fec_window          |-> [i \in Slots |-> EmptySlot],
     max_id              |-> 0,
     min_id              |-> 0,
     smallest_in_transit |-> INITIAL_SYMBOL_ID - 1,
     highest_in_transit  |-> INITIAL_SYMBOL_ID - 1,
     window_length       |-> 0,
     current_slot        |-> 0]

\* Fault: the slot is cleared but the received flag is left set.
raw_remove_keeps_flag(w, id) ==
    IF \/ w.fec_window[IndexOf(id)].symbol = NoSymbol
       \/ w.fec_window[IndexOf(id)].symbol # id
    THEN [ok |-> FALSE, wff |-> w]
    ELSE [ok  |-> TRUE,
          wff |-> [w EXCEPT !.min_id = IF @ = id THEN @ + 1 ELSE @,
                            !.fec_window[IndexOf(id)].symbol = NoSymbol,
                            !.window_length = @ - 1]]

\* _remove_source_symbol_from_window: frees the slot of id when it holds id.
raw_remove_source_symbol_from_window(w, id) ==
    IF \/ w.fec_window[IndexOf(id)].symbol = NoSymbol
       \/ w.fec_window[IndexOf(id)].symbol # id
    THEN [ok |-> FALSE, wff |-> w]
    ELSE [ok  |-> TRUE,
          wff |-> [w EXCEPT !.min_id = IF @ = id THEN @ + 1 ELSE @,
                            !.fec_window[IndexOf(id)] = EmptySlot,
                            !.window_length = @ - 1]]

\* The while loop of remove_source_symbol_from_window: as long as the slot
\* of smallest_in_transit is marked received, free its occupant and advance.
RECURSIVE prune_received(_)
prune_received(w) ==
    LET head == w.fec_window[IndexOf(w.smallest_in_transit)] IN
    IF is_fec_window_empty(w) \/ ~head.received
    THEN [ok |-> TRUE, wff |-> w]
    ELSE LET r == raw_remove_source_symbol_from_window(w, head.symbol) IN
         IF r.ok
         THEN prune_received([r.wff EXCEPT !.smallest_in_transit = @ + 1])
         ELSE r

\* Fault: only the acknowledged head is removed, the received symbols
\* behind it stay.
remove_without_cascade(w, id) ==
    IF id # w.smallest_in_transit \/ is_fec_window_empty(w)
    THEN [ok |-> FALSE, wff |-> w]
    ELSE LET first == raw_remove_source_symbol_from_window(w, id)
             moved == [first.wff EXCEPT !.smallest_in_transit = @ + 1]
         IN  IF ~first.ok THEN first
             ELSE [ok  |-> TRUE,
                   wff |-> IF is_fec_window_empty(moved)
                           THEN [moved EXCEPT
                                   !.smallest_in_transit = INITIAL_SYMBOL_ID - 1,
                                   !.highest_in_transit = INITIAL_SYMBOL_ID - 1]
                           ELSE moved]

\* Fault: the sentinel is not restored when the window drains.
remove_without_sentinel(w, id) ==
    IF id # w.smallest_in_transit \/ is_fec_window_empty(w)
    THEN [ok |-> FALSE, wff |-> w]
    ELSE LET first == raw_remove_source_symbol_from_window(w, id) IN
         IF ~first.ok THEN first
         ELSE prune_received([first.wff EXCEPT !.smallest_in_transit = @ + 1])

remove_source_symbol_from_window(w, id) ==
    IF id # w.smallest_in_transit \/ is_fec_window_empty(w)
    THEN [ok |-> FALSE, wff |-> w]
    ELSE LET first  == raw_remove_source_symbol_from_window(w, id)
             pruned == prune_received(
                         [first.wff EXCEPT !.smallest_in_transit = @ + 1])
         IN  IF ~first.ok THEN first
             ELSE IF ~pruned.ok THEN pruned
             ELSE [ok  |-> TRUE,
                   wff |-> IF is_fec_window_empty(pruned.wff)
                           THEN [pruned.wff EXCEPT
                                   !.smallest_in_transit = INITIAL_SYMBOL_ID - 1,
                                   !.highest_in_transit = INITIAL_SYMBOL_ID - 1]
                           ELSE pruned.wff]

add_source_symbol_to_window(w, id) ==
    IF \/ w.fec_window[IndexOf(id)].symbol # NoSymbol
       \/ id <= w.highest_in_transit
    THEN [ok |-> FALSE, wff |-> w]
    ELSE LET stored == [w EXCEPT !.fec_window[IndexOf(id)] =
                                    [symbol |-> id, received |-> FALSE]]
             first  == IF w.window_length = 0
                       THEN [stored EXCEPT !.min_id = id, !.max_id = id,
                                           !.smallest_in_transit = id]
                       ELSE stored
         IN  [ok  |-> TRUE,
              wff |-> [first EXCEPT !.window_length = @ + 1,
                                    !.highest_in_transit = id]]

\* Fault: the feedback marks whatever occupies the slot, without comparing
\* its id with the acknowledged one.
has_landed_without_id_test(w, sfpid, received) ==
    LET idx    == IndexOf(sfpid)
        marked == [w EXCEPT !.fec_window[idx].received = TRUE]
    IN  IF ~received \/ w.fec_window[idx].symbol = NoSymbol
        THEN [ret |-> 0, wff |-> w]
        ELSE IF is_fec_window_empty(w) \/ sfpid # w.smallest_in_transit
        THEN [ret |-> 0, wff |-> marked]
        ELSE LET r == remove_source_symbol_from_window(marked, sfpid)
             IN  [ret |-> IF r.ok THEN 0 ELSE -1, wff |-> r.wff]

sfpid_has_landed(w, sfpid, received) ==
    LET idx    == IndexOf(sfpid)
        marked == [w EXCEPT !.fec_window[idx].received = TRUE]
    IN  IF ~received \/ w.fec_window[idx].symbol # sfpid
        THEN [ret |-> 0, wff |-> w]
        ELSE IF is_fec_window_empty(w) \/ sfpid # w.smallest_in_transit
        THEN [ret |-> 0, wff |-> marked]
        ELSE LET r == remove_source_symbol_from_window(marked, sfpid)
             IN  [ret |-> IF r.ok THEN 0 ELSE -1, wff |-> r.wff]

sfpid_takes_off(w, sfpid) ==
    [w EXCEPT !.highest_in_transit = Larger(@, sfpid),
              !.smallest_in_transit = Smaller(@, sfpid)]

get_source_fpid(w) == w.max_id + 1

\* The id is taken from max_id before the ring is asked for room: a refused
\* symbol has consumed its id.
protect_source_symbol(w) ==
    LET id    == w.max_id + 1
        added == add_source_symbol_to_window([w EXCEPT !.max_id = id], id)
    IN  [ret |-> IF added.ok THEN 0 ELSE -1,
         id  |-> id,
         wff |-> IF added.ok
                 THEN [added.wff EXCEPT !.highest_in_transit = id]
                 ELSE added.wff]

\* window_sent_symbol: the packet takes the current slot, the counter moves on.
window_sent_symbol(w) == [w EXCEPT !.current_slot = @ + 1]

get_current_rlnc_window(w) ==
    IF is_fec_window_empty(w)
    THEN [start |-> 0, end |-> 0]
    ELSE [start |-> w.smallest_in_transit, end |-> w.highest_in_transit + 1]

\* Fault: the walk starts one symbol after smallest_in_transit.
select_from_second(w) ==
    LET ids == w.smallest_in_transit + 1 .. w.highest_in_transit
    IN  [ret   |-> IF \A i \in ids : w.fec_window[IndexOf(i)].symbol = i
                   THEN 0 ELSE -1,
         first |-> w.smallest_in_transit + 1,
         total_source_symbols |-> Cardinality(ids)]

\* The source_symbol_t the slot of id points at.
source_symbol(w, id) ==
    [id |-> w.fec_window[IndexOf(id)].symbol, data |-> data[IndexOf(id)]]

\* The fec_block_t that get_one_coded_symbol allocates and the selection
\* fills: fb->source_symbols[] in the order of the walk.
fec_block(w, fb) ==
    [fec_block_number       |-> 0,
     source_symbols         |-> [k \in 1 .. fb.total_source_symbols |->
                                    source_symbol(w, fb.first + k - 1)],
     current_source_symbols |-> fb.total_source_symbols,
     total_source_symbols   |-> fb.total_source_symbols,
     repair_symbols         |-> <<>>,
     total_repair_symbols   |-> 1]

\* Walks the ids from the start of the window to highest_in_transit and
\* fails on the first slot that does not hold the id it is walked for.
select_all_inflight_source_symbols(w) ==
    LET lo  == Larger(w.smallest_in_transit,
                      w.highest_in_transit
                        - Smaller(RECEIVE_BUFFER_MAX_LENGTH, w.highest_in_transit))
        ids == lo .. w.highest_in_transit
    IN  [ret   |-> IF \A i \in ids : /\ w.fec_window[IndexOf(i)].symbol # NoSymbol
                                     /\ w.fec_window[IndexOf(i)].symbol = i
                   THEN 0 ELSE -1,
         first |-> lo,
         total_source_symbols |-> Cardinality(ids)]

\* The repair symbol of the current window: the symbol the code makes of
\* the block with the current slot for a seed, its first protected id, the
\* number of protected symbols as the uint8_t the caller receives, and the
\* 32 bits of fec_scheme_specific as its low 31 bits (the slot, which MaxSlot
\* keeps below 2^31) and bit 31 (set for a feedback repair symbol).
get_one_coded_symbol(w, type) ==
    LET fb    == select_all_inflight_source_symbols(w)
        coded == Rlc!get_one_coded_symbol(fec_block(w, fb),
                                          w.current_slot).fec_block
    IN  IF fb.ret # 0 \/ w.window_length = 0
        THEN NoRepair
        ELSE IF coded.total_repair_symbols # 1 \/ coded.repair_symbols = <<>>
        THEN NoRepair
        ELSE [first_id |-> coded.source_symbols[1].id,
              nss      |-> coded.total_source_symbols % 256,
              fec_scheme_specific |->
                  [low31 |-> w.current_slot, bit31 |-> type = "fb_fec_packet"],
              data     |-> coded.repair_symbols[1].data]

\* what1 and what2 are the controller's answers to the first and to the
\* second what_to_send call (the second follows free_slot_without_feedback).
window_what_to_send(w, what1, what2) ==
    IF w.window_length = MAX_SLOTS THEN "fec_packet"
    ELSE IF what1 = "nothing" /\ what2 = "nothing" THEN "new_rlnc_packet"
    ELSE IF is_fec_window_empty(w) THEN "new_rlnc_packet"
    ELSE IF what1 = "nothing" THEN what2 ELSE what1

\* What window_what_to_send may answer, over the answers of the controller.
Decisions(w) ==
    {window_what_to_send(w, what1, what2) : what1, what2 \in PacketTypes}

-----------------------------------------------------------------------------
(* The events. *)

Init ==
    /\ wff = create_framework_sender
    /\ data = [i \in Slots |-> <<>>]
    /\ in_flight = {}
    /\ landed = {}

\* A new packet is built and sent: its payload becomes the next source
\* symbol, the packet takes a slot and takes off.  A symbol the ring refuses
\* leaves in an unprotected packet.
SendSourceSymbol ==
    /\ wff.max_id < MaxSymbolId
    /\ wff.current_slot < MaxSlot
    /\ "new_rlnc_packet" \in Decisions(wff)
    /\ LET p == protect_source_symbol(wff) IN
           IF p.ret = 0
           THEN /\ wff' = window_sent_symbol(sfpid_takes_off(p.wff, p.id))
                /\ \E payload \in Payloads :
                       data' = [data EXCEPT ![IndexOf(p.id)] = payload]
                /\ in_flight' = in_flight \cup {p.id}
           ELSE /\ wff' = p.wff
                /\ UNCHANGED <<data, in_flight>>
    /\ UNCHANGED landed

\* A repair symbol over the symbols in flight is built and sent in a packet
\* of its own.
SendRepairSymbol ==
    /\ wff.current_slot < MaxSlot
    /\ \E type \in Decisions(wff) \cap {"fec_packet", "fb_fec_packet"} :
           get_one_coded_symbol(wff, type) # NoRepair
    /\ wff' = window_sent_symbol(wff)
    /\ UNCHANGED <<data, in_flight, landed>>

\* Feedback for a symbol that was sent: it was received (an acknowledgement,
\* possibly a repeated one) or its packet is declared lost.
SymbolLanded ==
    \E id \in in_flight \cup landed, received \in BOOLEAN :
        /\ wff' = sfpid_has_landed(wff, id, received).wff
        /\ in_flight' = IF received THEN in_flight \ {id} ELSE in_flight
        /\ landed' = IF received THEN landed \cup {id} ELSE landed
        /\ UNCHANGED data

Next == SendSourceSymbol \/ SendRepairSymbol \/ SymbolLanded

Spec == Init /\ [][Next]_vars

-----------------------------------------------------------------------------
(* Properties. *)

\* A slot is free, or holds a symbol and the flag of its acknowledgement.
SlotType == {EmptySlot} \cup [symbol : 1 .. MaxSymbolId, received : BOOLEAN]

TypeOK ==
    /\ wff \in [fec_window          : [Slots -> SlotType],
                max_id              : 0 .. MaxSymbolId,
                min_id              : 0 .. MaxSymbolId + 1,
                smallest_in_transit : 0 .. MaxSymbolId + 1,
                highest_in_transit  : 0 .. MaxSymbolId,
                window_length       : 0 .. RECEIVE_BUFFER_MAX_LENGTH,
                current_slot        : 0 .. MaxSlot]
    /\ data \in [Slots -> Payloads \cup {<<>>}]
    /\ in_flight \subseteq 1 .. MaxSymbolId
    /\ landed \subseteq 1 .. MaxSymbolId

WindowIds == {wff.fec_window[i].symbol : i \in Slots} \ {NoSymbol}

\* The ids stored in the ring are exactly the range smallest_in_transit ..
\* highest_in_transit, it fits the ring, and window_length, min_id and max_id
\* agree with it; a drained window has both bounds at INITIAL_SYMBOL_ID - 1.
\* It is about add_source_symbol_to_window, remove_source_symbol_from_window
\* and protect_source_symbol together.
WindowContiguous ==
    IF is_fec_window_empty(wff)
    THEN /\ WindowIds = {}
         /\ wff.smallest_in_transit = INITIAL_SYMBOL_ID - 1
         /\ wff.highest_in_transit = INITIAL_SYMBOL_ID - 1
    ELSE /\ WindowIds = wff.smallest_in_transit .. wff.highest_in_transit
         /\ wff.window_length = Cardinality(WindowIds)
         /\ wff.window_length <= RECEIVE_BUFFER_MAX_LENGTH
         /\ wff.min_id = wff.smallest_in_transit
         /\ wff.max_id = wff.highest_in_transit

\* The window invariant as the data model of the framework states it: the
\* ids in the window form the contiguous range smallest_in_transit ..
\* highest_in_transit, after any sequence of protect, take-off and feedback
\* calls.  It is about protect_source_symbol, which increments max_id before
\* add_source_symbol_to_window may refuse the symbol.
WindowIsIdRange ==
    ~is_fec_window_empty(wff) =>
        WindowIds = wff.smallest_in_transit .. wff.highest_in_transit

\* A symbol leaves the window only once it has been reported received, and a
\* symbol reported received is no longer waited for: the symbols stored and
\* not marked received are exactly those in flight.  It is about the pruning
\* of sfpid_has_landed and remove_source_symbol_from_window, which frees
\* slots by their received flag.
WindowHoldsExactlyUnacked ==
    {id \in WindowIds : ~wff.fec_window[IndexOf(id)].received} = in_flight

\* While symbols are in flight a repair symbol can be built, and it is
\* enough to restore any one of them: a receiver that has the repair symbol
\* and the other symbols it protects, and regenerates the coefficients from
\* the slot in fec_scheme_specific, is left with the missing symbol times a
\* coefficient that is not zero.  It is about the bounds of the walk of
\* select_all_inflight_source_symbols, which get_one_coded_symbol uses, and
\* about the coefficients, the padding and the sum of the code's
\* get_one_coded_symbol.
CodedSymbolRestoresInFlight ==
    in_flight # {} =>
        LET rs == get_one_coded_symbol(wff, "fec_packet")
            protected == [k \in 1 .. rs.nss |->
                             source_symbol(wff, rs.first_id + k - 1)]
        IN  /\ rs # NoRepair
            /\ \A id \in in_flight :
                   LET missing == id - rs.first_id + 1 IN
                   /\ missing \in 1 .. rs.nss
                   /\ Rlc!Restores(rs.data, rs.fec_scheme_specific.low31,
                                   protected, missing)

\* Reporting again a symbol that was already reported received changes
\* nothing: sfpid_has_landed compares the id of the slot's occupant, which
\* after a wrap of the ring is a later symbol.
IdempotentAck ==
    \A id \in landed : sfpid_has_landed(wff, id, TRUE).wff = wff

=============================================================================
