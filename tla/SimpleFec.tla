------------------------------ MODULE SimpleFec ------------------------------
(***************************************************************************)
(* The simple_fec plugin between its sender hook and its receiver window.  *)
(*                                                                         *)
(* Sender: schedule_frames_on_path of src/plugins/simple_fec/protoops/     *)
(* after_schedule_frames.c runs after the frames of a packet are written.  *)
(* It reads the has_written flags the frame writers have set, protects the *)
(* payload or stamps the packet as a repair packet, gives it the next slot *)
(* and clears the flags.                                                   *)
(*                                                                         *)
(* Receiver: the two buffers of src/plugins/simple_fec/window_framework/   *)
(* window_receive_buffers.h, each a bounded min-max priority queue.  A     *)
(* source symbol is kept under its id, a repair symbol under its           *)
(* fec-scheme-specific value, which for the random linear code is the slot *)
(* it was generated in.                                                    *)
(*                                                                         *)
(* The priority queue (search_structures.h), the frame writers and the     *)
(* window of the framework sender are not in the sources; they are         *)
(* modelled from the specification.  A symbol is what the buffers look at: *)
(* its key and the ids it protects.                                        *)
(***************************************************************************)
EXTENDS Integers, FiniteSets, FiniteSetsExt, Sequences, SequencesExt

CONSTANTS
    MaxId,           \* bound of the model on source symbol ids
    MaxSlot,         \* bound of the model on current_slot
    MaxProtected,    \* bound of the model on the width of a window
    SourceMaxSize,   \* max_size of the buffer of source symbols
    RepairMaxSizes,  \* the sizes set_repair_rwin_size is asked for
    MaxConcerned     \* the values of max_concerned_source_symbols

ASSUME /\ MaxId \in Nat /\ MaxSlot \in Nat
       /\ MaxProtected \in Nat \ {0}
       /\ SourceMaxSize \in Nat \ {0}
       /\ RepairMaxSizes \subseteq Nat \ {0} /\ RepairMaxSizes # {}
       /\ MaxConcerned \subseteq Nat

VARIABLES
    has_written,              \* plugin_state_t: the four has_written flags
    current_slot,             \* plugin_state_t
    current_repair_frame,     \* plugin_state_t: current_repair_frame_...
    next_id,                  \* the id the next protected payload gets
    smallest_in_transit,      \* the first id the sender still protects
    packet,                   \* the metadata of the packet stamped last
    sent_repair_symbols,      \* the repair symbols that left the sender
    received_source_symbols,  \* received_source_symbols_buffer_t
    received_repair_symbols,  \* received_repair_symbols_buffer_t
    fault                     \* a call has read through a NULL pointer

sender == <<has_written, current_slot, current_repair_frame, next_id,
            smallest_in_transit, packet, sent_repair_symbols>>
receiver == <<received_source_symbols, received_repair_symbols, fault>>
vars == <<sender, receiver>>

FrameKinds == {"fpi", "repair", "fb_fec_repair", "recovered"}

Flags == {"IS_FEC_PROTECTED", "CONTAINS_REPAIR_FRAME", "IS_FB_FEC",
          "CONTAINS_RECOVERED_FRAME"}

NoPacket == [flags |-> {}]

window_repair_symbol_t ==
    [fss : 0 .. MaxSlot, first_id : 0 .. MaxId,
     n_protected_symbols : 1 .. MaxProtected]

last_protected(rs) == rs.first_id + rs.n_protected_symbols - 1

\* A NULL pointer to a buffer: a buffer has room for a symbol at least.
NULL == [max_size |-> 0, items |-> {}]

-----------------------------------------------------------------------------
(* The min-max priority queue: at most max_size values, one for a key. *)

create_min_max_pq(max_size) == [max_size |-> max_size, items |-> {}]

pq_keys(pq) == {item.key : item \in pq.items}

pq_is_empty(pq) == pq.items = {}

pq_get_min_key(pq) == Min(pq_keys(pq))

pq_get_max_key(pq) == Max(pq_keys(pq))

pq_get(pq, key) == (CHOOSE item \in pq.items : item.key = key).val

pq_get_min(pq) == pq_get(pq, pq_get_min_key(pq))

pq_get_max(pq) == pq_get(pq, pq_get_max_key(pq))

pq_pop_min(pq) ==
    [pq EXCEPT !.items = {item \in @ : item.key # pq_get_min_key(pq)}]

\* A key the queue holds is not taken again; a full queue gives up its
\* smallest key for the new one.
pq_insert_and_pop_min_if_full(pq, key, val) ==
    LET with_room ==
            IF Cardinality(pq.items) = pq.max_size THEN pq_pop_min(pq) ELSE pq
    IN  IF key \in pq_keys(pq) THEN pq
        ELSE [with_room EXCEPT !.items = @ \cup {[key |-> key, val |-> val]}]

\* The values with min <= key < max, by rising key.
pq_get_between_bounds(pq, min, max) ==
    LET found == {item \in pq.items : min <= item.key /\ item.key < max}
    IN  [i \in 1 .. Cardinality(found) |->
            (CHOOSE item \in found :
                 Cardinality({other \in found : other.key < item.key}) = i - 1).val]

-----------------------------------------------------------------------------
(* The buffer of source symbols. *)

\* The buffer or its queue may not be allocated.
new_source_symbols_buffer(max_size, malloc_ok) ==
    IF malloc_ok THEN create_min_max_pq(max_size) ELSE NULL

add_source_symbol(buffer, id) == pq_insert_and_pop_min_if_full(buffer, id, id)

get_first_source_symbol_id(buffer) == pq_get_min(buffer)

get_last_source_symbol_id(buffer) == pq_get_max(buffer)

\* What the caller's array holds after the call.  The array is cleared by
\* a memset of max_symbol + 1 - min_symbol bytes, which is that many
\* eighths of a pointer: an entry of a missing symbol beyond them keeps
\* what the caller left there.
get_source_symbols_between_bounds(buffer, min_symbol, max_symbol) ==
    LET n == max_symbol + 1 - min_symbol
        held == Range(pq_get_between_bounds(buffer, min_symbol, max_symbol + 1))
    IN  [ret |-> Cardinality(held),
         symbols |-> [i \in 0 .. n - 1 |->
                         IF min_symbol + i \in held THEN min_symbol + i
                         ELSE IF 8 * (i + 1) <= n THEN "NULL"
                         ELSE "as the caller left it"]]

-----------------------------------------------------------------------------
(* The buffer of repair symbols. *)

new_repair_symbols_buffer(max_size, malloc_ok) ==
    IF malloc_ok THEN create_min_max_pq(max_size) ELSE NULL

\* Fault: the queue is ordered from the newest slot to the oldest.
add_repair_symbol_newest_first(buffer, rs) ==
    pq_insert_and_pop_min_if_full(buffer, MaxSlot - rs.fss, rs)

\* The key is the slot the sender made the symbol in.
add_repair_symbol(buffer, rs) == pq_insert_and_pop_min_if_full(buffer, rs.fss, rs)

\* The symbols of the smallest keys go as long as they protect nothing from
\* remove_under on; the first that does ends the walk.
RECURSIVE remove_and_free_unused_repair_symbols(_, _)
remove_and_free_unused_repair_symbols(buffer, remove_under) ==
    IF pq_is_empty(buffer) THEN buffer
    ELSE IF last_protected(pq_get_min(buffer)) < remove_under
    THEN remove_and_free_unused_repair_symbols(pq_pop_min(buffer), remove_under)
    ELSE buffer

\* new_min_key and new_max_key of the pruning loop: 0 stands for "not set".
lowest_first_id(symbols) ==
    FoldLeft(LAMBDA key, rs : IF key = 0 \/ rs.first_id < key
                              THEN rs.first_id ELSE key,
             0, symbols)

highest_last_id(symbols) ==
    FoldLeft(LAMBDA key, rs : IF key = 0 \/ last_protected(rs) > key
                              THEN last_protected(rs) ELSE key,
             0, symbols)

recent_enough(rs, max_key, highest_contiguously_received_id, max_concerned_source_symbols) ==
    ~ (\/ highest_contiguously_received_id > last_protected(rs)
       \/ rs.first_id <= max_key - max_concerned_source_symbols)

\* Nothing is written to the caller's variables when the buffer is empty.
get_repair_symbols(buffer, highest_contiguously_received_id, max_concerned_source_symbols) ==
    LET symbols ==
            pq_get_between_bounds(buffer, pq_get_min_key(buffer),
                                  pq_get_max_key(buffer) + 1)
        min_key == Min({rs.first_id : rs \in Range(symbols)})
        max_key == Max({last_protected(rs) : rs \in Range(symbols)})
        kept == SelectSeq(symbols,
                          LAMBDA rs : recent_enough(rs, max_key,
                                          highest_contiguously_received_id,
                                          max_concerned_source_symbols))
    IN  IF pq_is_empty(buffer) THEN [added |-> 0, symbols |-> {}]
        ELSE IF max_key - min_key > max_concerned_source_symbols
        THEN [added |-> Len(kept), symbols |-> Range(kept),
              smallest_protected |-> lowest_first_id(kept),
              highest_protected |-> highest_last_id(kept)]
        ELSE [added |-> Len(symbols), symbols |-> Range(symbols),
              smallest_protected |-> min_key, highest_protected |-> max_key]

-----------------------------------------------------------------------------
(* The sender. *)

\* The window a repair frame written now protects: what is in transit, and
\* of that the newest MaxProtected ids.
window_in_transit ==
    LET first == Max({smallest_in_transit, next_id - MaxProtected})
    IN  [fss |-> current_slot, first_id |-> first,
         n_protected_symbols |-> next_id - first]

\* A frame writer has put a frame of this kind in the packet.  The writer
\* of a repair frame takes the symbol from the framework sender and leaves
\* what it protects in the plugin state.
WriteFrame(kind) ==
    /\ ~ fault
    /\ ~ has_written[kind]
    /\ has_written' = [has_written EXCEPT ![kind] = TRUE]
    /\ IF kind \in {"repair", "fb_fec_repair"}
       THEN /\ next_id > smallest_in_transit
            /\ current_slot < MaxSlot
            /\ current_repair_frame' = window_in_transit
       ELSE UNCHANGED current_repair_frame
    /\ UNCHANGED <<current_slot, next_id, smallest_in_transit, packet,
                   sent_repair_symbols, receiver>>

\* The peer has acknowledged source symbols: the window slides.
SymbolsLanded ==
    /\ ~ fault
    /\ \E id \in smallest_in_transit + 1 .. next_id : smallest_in_transit' = id
    /\ UNCHANGED <<has_written, current_slot, current_repair_frame, next_id,
                   packet, sent_repair_symbols, receiver>>

\* The flags of a packet with a repair frame: the flag of a feedback
\* repair frame is added to the flags the packet had when the hook began,
\* not to the flags just written.
repair_packet_flags(packet_flags, written) ==
    IF written["fb_fec_repair"] THEN packet_flags \cup {"IS_FB_FEC"}
    ELSE packet_flags \cup {"CONTAINS_REPAIR_FRAME"}

with_recovered_frame(packet_flags, written) ==
    IF written["recovered"]
    THEN packet_flags \cup {"CONTAINS_RECOVERED_FRAME"} ELSE packet_flags

\* schedule_frames_on_path.  one_rtt: the packet is a 1-RTT packet; err:
\* what protect_packet_payload answers, 0 for a protected payload, 1 for
\* nothing to protect, anything else for a failure.  On a failure the hook
\* returns at once, the flags stay and the packet does not leave.  The
\* reservation the hook may make at its end is in functions outside the
\* sources.
ScheduleFramesOnPath(one_rtt, err) ==
    /\ ~ fault
    /\ sent_repair_symbols' =
           IF (has_written["repair"] \/ has_written["fb_fec_repair"])
                  /\ ~ (has_written["fpi"] /\ one_rtt /\ err \notin {0, 1})
           THEN sent_repair_symbols \cup {current_repair_frame}
           ELSE sent_repair_symbols
    /\ IF has_written["fpi"] /\ one_rtt
       THEN \/ /\ err \notin {0, 1}
               /\ UNCHANGED <<has_written, current_slot, next_id, packet>>
            \/ /\ err = 0
               /\ next_id <= MaxId /\ current_slot < MaxSlot
               /\ packet' = [slot |-> current_slot,
                             flags |-> with_recovered_frame(
                                           {"IS_FEC_PROTECTED"}, has_written),
                             first_source_symbol_id |-> next_id,
                             number_of_source_symbols |-> 1]
               /\ current_slot' = current_slot + 1
               /\ next_id' = next_id + 1
               /\ has_written' = [kind \in FrameKinds |-> FALSE]
            \/ /\ err = 1
               /\ packet' = [flags |-> with_recovered_frame({}, has_written)]
               /\ has_written' = [kind \in FrameKinds |-> FALSE]
               /\ UNCHANGED <<current_slot, next_id>>
       ELSE /\ err = 0
            /\ IF has_written["repair"] \/ has_written["fb_fec_repair"]
               THEN /\ packet' =
                        [slot |-> current_slot,
                         flags |-> with_recovered_frame(
                                       repair_packet_flags({}, has_written),
                                       has_written),
                         first_protected_symbol_id |->
                             current_repair_frame.first_id,
                         number_of_protected_symbols |->
                             current_repair_frame.n_protected_symbols]
                    /\ current_slot' = current_slot + 1
               ELSE /\ packet' = [flags |-> with_recovered_frame({}, has_written)]
                    /\ UNCHANGED current_slot
            /\ has_written' = [kind \in FrameKinds |-> FALSE]
            /\ UNCHANGED next_id
    /\ UNCHANGED <<current_repair_frame, smallest_in_transit, receiver>>

-----------------------------------------------------------------------------
(* The receiver.  The network loses, repeats and reorders the symbols.      *)
(* A step of the receiver reads nothing that changes while the sender puts *)
(* a packet together, so it is taken between two packets.                  *)

BetweenPackets == has_written = [kind \in FrameKinds |-> FALSE] /\ ~ fault

ReceiveSourceSymbol(id) ==
    /\ BetweenPackets
    /\ id < next_id
    /\ received_source_symbols' = add_source_symbol(received_source_symbols, id)
    /\ UNCHANGED <<sender, received_repair_symbols, fault>>

ReceiveRepairSymbol(rs) ==
    /\ BetweenPackets
    /\ rs \in sent_repair_symbols
    /\ received_repair_symbols' = add_repair_symbol(received_repair_symbols, rs)
    /\ UNCHANGED <<sender, received_source_symbols, fault>>

RemoveUnused(remove_under) ==
    /\ BetweenPackets
    /\ received_repair_symbols' =
           remove_and_free_unused_repair_symbols(received_repair_symbols,
                                                 remove_under)
    /\ UNCHANGED <<sender, received_source_symbols, fault>>

\* Fault: the new buffer takes over what the old one holds.
repair_rwin_resized(max_size, malloc_ok) ==
    /\ BetweenPackets
    /\ received_repair_symbols' =
           IF malloc_ok
           THEN [received_repair_symbols EXCEPT !.max_size = max_size]
           ELSE NULL
    /\ fault' = ~ malloc_ok
    /\ UNCHANGED <<sender, received_source_symbols>>

\* set_repair_rwin_size: the buffer is released with what it holds and a
\* new one takes its place.  When the new one cannot be allocated the
\* pointer is NULL and the next line reads max_size through it.
SetRepairRwinSize(max_size, malloc_ok) ==
    /\ BetweenPackets
    /\ received_repair_symbols' = new_repair_symbols_buffer(max_size, malloc_ok)
    /\ fault' = (received_repair_symbols' = NULL)
    /\ UNCHANGED <<sender, received_source_symbols>>

Halted == fault /\ UNCHANGED vars

Init ==
    /\ has_written = [kind \in FrameKinds |-> FALSE]
    /\ current_slot = 0
    /\ current_repair_frame = [fss |-> 0, first_id |-> 0, n_protected_symbols |-> 0]
    /\ next_id = 0
    /\ smallest_in_transit = 0
    /\ packet = NoPacket
    /\ sent_repair_symbols = {}
    /\ received_source_symbols = new_source_symbols_buffer(SourceMaxSize, TRUE)
    /\ \E max_size \in RepairMaxSizes :
           received_repair_symbols = new_repair_symbols_buffer(max_size, TRUE)
    /\ fault = FALSE

Next ==
    \/ \E kind \in FrameKinds : WriteFrame(kind)
    \/ SymbolsLanded
    \/ \E one_rtt \in BOOLEAN, err \in {-1, 0, 1} : ScheduleFramesOnPath(one_rtt, err)
    \/ \E id \in 0 .. MaxId : ReceiveSourceSymbol(id)
    \/ \E rs \in sent_repair_symbols : ReceiveRepairSymbol(rs)
    \/ \E remove_under \in 0 .. MaxId + 1 : RemoveUnused(remove_under)
    \/ \E max_size \in RepairMaxSizes, malloc_ok \in BOOLEAN :
           SetRepairRwinSize(max_size, malloc_ok)
    \/ Halted

Spec == Init /\ [][Next]_vars

-----------------------------------------------------------------------------
(* Properties. *)

pq_within_bounds(pq) ==
    /\ Cardinality(pq.items) <= pq.max_size
    /\ Cardinality(pq_keys(pq)) = Cardinality(pq.items)

\* The variables have their types, and a buffer never holds more symbols
\* than its max_size nor two symbols under one key.
TypeOK ==
    /\ has_written \in [FrameKinds -> BOOLEAN]
    /\ current_slot \in 0 .. MaxSlot
    /\ next_id \in 0 .. MaxId + 1
    /\ smallest_in_transit \in 0 .. next_id
    /\ packet.flags \subseteq Flags
    /\ sent_repair_symbols \subseteq window_repair_symbol_t
    /\ current_repair_frame \in window_repair_symbol_t
           \cup {[fss |-> 0, first_id |-> 0, n_protected_symbols |-> 0]}
    /\ received_source_symbols.items
           \subseteq [key : 0 .. MaxId, val : 0 .. MaxId]
    /\ received_repair_symbols.items
           \subseteq [key : 0 .. MaxSlot, val : sent_repair_symbols]
    /\ received_repair_symbols.max_size \in RepairMaxSizes \cup {NULL.max_size}
    /\ fault = (received_repair_symbols = NULL)
    /\ pq_within_bounds(received_source_symbols)
    /\ pq_within_bounds(received_repair_symbols)
    /\ fault \in BOOLEAN

\* A packet the hook has stamped as a packet with a repair symbol is
\* flagged FEC_PKT_METADATA_FLAG_CONTAINS_REPAIR_FRAME, whether the frame
\* answers feedback or not.  It does not hold of schedule_frames_on_path,
\* which writes the flags of a feedback repair frame from the value it read
\* before it set that flag (SimpleFecFlags.cfg).
RepairFrameIsFlagged ==
    "number_of_protected_symbols" \in DOMAIN packet
        => "CONTAINS_REPAIR_FRAME" \in packet.flags

PruneLeavesNoStale ==
    \A remove_under \in 0 .. MaxId + 1 :
        \A item \in remove_and_free_unused_repair_symbols(
                        received_repair_symbols, remove_under).items :
            last_protected(item.val) >= remove_under

=============================================================================
