----------------------------- MODULE Controllers -----------------------------
(***************************************************************************)
(* The redundancy controllers of the window framework: the protect         *)
(* conditions that decide, at a send opportunity, whether the symbols sent *)
(* since the last block are protected now, and by how many repair symbols: *)
(*   - static_fec/bulk_protect_condition.c and abc/bulk_protect_condition.c*)
(*     (the two bulk controllers), bulk.h, bulk_new_packet_condition.c;    *)
(*   - buffer_limited_protect_condition.c and buffer_limited.h;            *)
(*   - message_based_protect_condition.c and message_based.h.              *)
(* One connection has one controller; which one is chosen when it is       *)
(* created.  The sender's window, the clock, the path's statistics and the *)
(* loss estimate are the environment: the window and the clock are state,  *)
(* the statistics are inputs of each call.                                 *)
(***************************************************************************)
EXTENDS Integers, Sequences, FiniteSets

CONSTANTS
    MaxSourceId,    \* bound of the model on the source symbols sent
    MaxTime,        \* bound of the model on the clock
    Granularity,    \* the fixed-point denominator of the loss estimate
    LossRates,      \* values of lr_gran
    GemodelP,       \* values of gemodel_p_gran
    GemodelR,       \* values of gemodel_r_gran
    Rtts,           \* values of the path's smoothed RTT
    Bytes,          \* values of the path's cwin and bytes in transit
    Mtus,           \* values of the path's send MTU
    Deadlines,      \* delivery deadlines a message may carry
    Allocations,    \* outcomes of my_malloc: a subset of BOOLEAN
    SECOND_IN_MICROSEC,
    DEADLINE_CRITICAL_THRESHOLD_MICROSEC

ASSUME /\ MaxSourceId \in Nat \ {0} /\ MaxTime \in Nat
       /\ Granularity \in Nat \ {0}
       /\ LossRates \subseteq 0 .. Granularity - 1
       /\ GemodelP \subseteq Nat /\ GemodelR \subseteq Nat \ {0}
       /\ Rtts \subseteq Nat \ {0} /\ Bytes \subseteq Nat
       /\ Mtus \subseteq Nat \ {0} /\ Deadlines \subseteq Nat
       /\ Allocations \subseteq BOOLEAN

VARIABLES
    kind,           \* the controller the connection was created with
    controller,     \* the static_redundancy_controller_t with its addon
    window,         \* the sender's fec_window_t: ids start .. end - 1
    current_time,   \* the clock
    has_fec_protected_data_to_send,  \* of the plugin state
    symbols_from_deadlines,  \* of the framework: deadline -> first symbol id
    waking_at,      \* the wake-up the controller has asked for, 0 if none
    answers         \* the blocks the protect condition has answered (history)

vars == <<kind, controller, window, current_time,
          has_fec_protected_data_to_send, symbols_from_deadlines, waking_at,
          answers>>

Kinds == {"bulk_static", "bulk", "buffer_limited", "message_based"}

INITIAL_SYMBOL_ID == 1
PICOQUIC_MAX_PACKET_SIZE == 1536
UNDEFINED_SYMBOL_DEADLINE == -1
PICOQUIC_ERROR_MEMORY == 1028
UINT16 == 65536

Larger(a, b) == IF a > b THEN a ELSE b
Smaller(a, b) == IF a < b THEN a ELSE b

div_ceil(a, b) == (a + b - 1) \div b

window_size(w) == w.end - w.start

\* 2^e modulo m.
RECURSIVE Pow2Mod(_, _)
Pow2Mod(e, m) == IF e = 0 THEN 1 % m ELSE (2 * Pow2Mod(e - 1, m)) % m

\* (uint16_t)div_ceil(cwin - bytes_in_transit, MIN(send_mtu, ...)): the
\* difference is a uint64_t and wraps to 2^64 - d when more bytes are in
\* transit than the window allows; the low 16 bits of the quotient of
\* 2^64 - d by m are those of the quotient of (2^64 - d) mod (m * 2^16).
rem_p_cwin(cwin, bytes_in_transit, send_mtu) ==
    LET m == Smaller(send_mtu, PICOQUIC_MAX_PACKET_SIZE)
        wrapped == (UINT16 * Pow2Mod(48, m) + m * UINT16
                        - (bytes_in_transit - cwin)) % (m * UINT16)
    IN  IF cwin >= bytes_in_transit
        THEN div_ceil(cwin - bytes_in_transit, m) % UINT16
        ELSE div_ceil(wrapped, m) % UINT16

-----------------------------------------------------------------------------
(* The addon state of a controller, allocated at its first use.            *)

NoAddon == [allocated |-> FALSE]

\* get_bulk_addon_state, get_buffer_limited_addon_state
get_bulk_addon_state(c, alloc_ok) ==
    IF c.addons_states # NoAddon \/ ~alloc_ok THEN c
    ELSE [c EXCEPT !.addons_states = [window_first_unprotected_id |-> 0]]

get_buffer_limited_addon_state(c, alloc_ok) == get_bulk_addon_state(c, alloc_ok)

get_message_based_addon_state(c, alloc_ok) ==
    IF c.addons_states # NoAddon \/ ~alloc_ok THEN c
    ELSE [c EXCEPT !.addons_states =
              [window_first_unprotected_id |-> 0,
               last_fully_protected_message_deadline |-> UNDEFINED_SYMBOL_DEADLINE]]

\* Fault: the addon is not moved up to the start of the window.
not_moved_to_start(c, w) == c

\* addon->window_first_unprotected_id = MAX(..., current_window->start)
at_window_start(c, w) ==
    [c EXCEPT !.addons_states.window_first_unprotected_id = Larger(@, w.start)]

\* k = (uint16_t)(current_window->end - addon->window_first_unprotected_id)
symbols_to_protect(c, w) ==
    (w.end - c.addons_states.window_first_unprotected_id) % UINT16

NoOutput == [first_id_to_protect |-> 0, n_symbols_to_protect |-> 0,
             n_repair_symbols |-> 0]

\* return false (0), with the wake-up asked for, if any.
Abstain(c, wake) == [ret |-> 0, controller |-> c, out |-> NoOutput, wake |-> wake]

\* return PICOQUIC_ERROR_MEMORY: the handler has found no plugin state and
\* has touched neither the controller nor its outputs.
OutOfMemory(c) ==
    [ret |-> PICOQUIC_ERROR_MEMORY, controller |-> c, out |-> NoOutput, wake |-> 0]

\* Fault: the block is answered and the addon does not move past it.
first_unprotected_left(c, k) == c

\* addon->window_first_unprotected_id += k
first_unprotected_after(c, k) ==
    [c EXCEPT !.addons_states.window_first_unprotected_id = @ + k]

\* The three outputs of a protect condition that answers true (1).
Answer(c, k, r) ==
    [ret |-> 1, controller |-> first_unprotected_after(c, k),
     out |-> [first_id_to_protect |-> c.addons_states.window_first_unprotected_id,
              n_symbols_to_protect |-> k, n_repair_symbols |-> r],
     wake |-> 0]

-----------------------------------------------------------------------------
(* The protect conditions.  Each takes the controller, the window, the     *)
(* clock and the record "in" of what the call reads from the path, the     *)
(* loss estimate and the plugin state, and returns its answer with the     *)
(* controller it leaves.                                                   *)

\* The bulk controllers wait until no new id was sent for an eighth of the
\* smoothed RTT.
time_threshold(in) == in.smoothed_rtt \div 8

sent_recently(c, now, in) == now < c.last_sent_id_timestamp + time_threshold(in)

\* Fault: the controller stops one repair symbol too late.
fec_in_flight_beyond(c, r_max) == c.n_fec_in_flight > r_max

\* if (controller->n_fec_in_flight >= r_max) return false;
enough_fec_in_flight(c, r_max) == c.n_fec_in_flight >= r_max

\* bulk_protect_condition of static_fec
bulk_protect_condition_static(c, w, now, in) ==
    LET got == get_bulk_addon_state(c, in.alloc_ok)
        addon == at_window_start(got, w)
        k == symbols_to_protect(addon, w)
        lost_of(n) == div_ceil(n * in.lr_gran, Granularity - in.lr_gran) % UINT16
        r_max == (1 + Larger(2 * lost_of(window_size(w)),
                             Granularity \div in.gemodel_r_gran)) % UINT16
        r == Smaller(Larger(1, lost_of(k)), r_max - c.n_fec_in_flight)
    IN  IF in.has_fec_protected_data_to_send THEN Abstain(c, 0)
        ELSE IF sent_recently(c, now, in)
        THEN Abstain(c, c.last_sent_id_timestamp + time_threshold(in))
        ELSE IF got.addons_states = NoAddon THEN Abstain(got, 0)
        ELSE IF k = 0 \/ enough_fec_in_flight(c, r_max) THEN Abstain(addon, 0)
        ELSE Answer(addon, k, r)

\* bulk_protect_condition of abc
bulk_protect_condition(c, w, now, in) ==
    LET got == get_bulk_addon_state(c, in.alloc_ok)
        addon == at_window_start(got, w)
        k == symbols_to_protect(addon, w)
        room == rem_p_cwin(in.cwin, in.bytes_in_transit, in.send_mtu)
        lr_gran_1 == Smaller(Granularity \div 5, in.lr_gran * 2)
        r == IF in.lr_gran = 0 THEN room
             ELSE Smaller(room, 1 + (((k * lr_gran_1) \div (Granularity - lr_gran_1))
                                         % UINT16))
    IN  IF in.has_fec_protected_data_to_send THEN Abstain(c, 0)
        ELSE IF sent_recently(c, now, in)
        THEN Abstain(c, c.last_sent_id_timestamp + time_threshold(in))
        ELSE IF got.addons_states = NoAddon THEN Abstain(got, 0)
        ELSE IF k = 0 THEN Abstain(addon, 0)
        ELSE Answer(addon, k, r)

\* r of the buffer-limited and the message-based controllers, before any cap.
repair_for_losses(k, lr_gran, gemodel_r_gran) ==
    Larger(IF gemodel_r_gran = Granularity THEN 1
           ELSE 1 + Granularity \div gemodel_r_gran,
           div_ceil(k * lr_gran, Granularity - lr_gran) % UINT16) % UINT16

\* buffer_limited_protect_condition
buffer_limited_protect_condition(c, w, now, in) ==
    LET got == get_buffer_limited_addon_state(c, in.alloc_ok)
        addon == at_window_start(got, w)
        fc_blocked == ~in.has_fec_protected_data_to_send
        k == symbols_to_protect(addon, w)
        lr_gran == Smaller(Granularity \div 2, 2 * in.lr_gran)
        enough_packets_sent == k >= Granularity \div Larger(1, in.gemodel_p_gran)
        r == Smaller(repair_for_losses(k, lr_gran, in.gemodel_r_gran),
                     rem_p_cwin(in.cwin, in.bytes_in_transit, in.send_mtu))
    IN  IF got.addons_states = NoAddon THEN Abstain(got, 0)
        ELSE IF k = 0 THEN Abstain(addon, 0)
        ELSE IF fc_blocked \/ enough_packets_sent THEN Answer(addon, k, r)
        ELSE Abstain(addon, 0)

\* rbt_ceiling on the deadlines: the soonest one from "from" on.
soonest_deadline(tree, from) ==
    LET later == {d \in DOMAIN tree : d >= from}
    IN  IF later = {} THEN UNDEFINED_SYMBOL_DEADLINE
        ELSE CHOOSE d \in later : \A other \in later : d <= other

\* rbt_max_key
rbt_max_key(tree) == CHOOSE d \in DOMAIN tree : \A other \in DOMAIN tree : other <= d

\* The deadline up to which the messages are protected, once the window is
\* protected to its end.
fully_protected(c, tree) ==
    IF DOMAIN tree = {} THEN c
    ELSE [c EXCEPT !.addons_states.last_fully_protected_message_deadline =
                       rbt_max_key(tree)]

\* message_based_protect_condition
message_based_protect_condition(c, w, now, in, tree, state_ok) ==
    LET got == get_message_based_addon_state(c, in.alloc_ok)
        addon == at_window_start(got, w)
        k == symbols_to_protect(addon, w)
        owd == in.smoothed_rtt \div 2
        last == addon.addons_states.last_fully_protected_message_deadline
        soonest == soonest_deadline(tree,
                       Larger(IF last # UNDEFINED_SYMBOL_DEADLINE THEN last + 1 ELSE 0,
                              now + owd))
        next_message == in.next_message_timestamp
        time_to_wait == IF /\ next_message # UNDEFINED_SYMBOL_DEADLINE
                           /\ next_message > now
                        THEN next_message - now ELSE 0
        available == (in.cwin * SECOND_IN_MICROSEC) \div in.smoothed_rtt
        used == (in.bytes_in_transit * SECOND_IN_MICROSEC) \div in.smoothed_rtt
        bw_ratio == IF used > 0 THEN (Granularity * available) \div used ELSE 0
        ew == /\ ~in.has_fec_protected_data_to_send
              /\ bw_ratio > Granularity + Granularity \div 10
        allowed == \/ soonest = UNDEFINED_SYMBOL_DEADLINE
                   \/ next_message = UNDEFINED_SYMBOL_DEADLINE
                   \/ now + time_to_wait + owd + DEADLINE_CRITICAL_THRESHOLD_MICROSEC
                          >= soonest
        answer == Answer(addon, k, repair_for_losses(k, in.lr_gran, in.gemodel_r_gran))
    IN  IF ~state_ok THEN OutOfMemory(c)
        ELSE IF got.addons_states = NoAddon THEN Abstain(got, 0)
        ELSE IF k = 0 THEN Abstain(addon, 0)
        ELSE IF ew /\ allowed
        THEN [answer EXCEPT !.controller = fully_protected(@, tree)]
        ELSE Abstain(addon, 0)

\* bulk_new_packet_condition: state->has_fec_protected_data_to_send, or
\* the error code when there is no plugin state.
bulk_new_packet_condition(has_data, state_ok) ==
    IF ~state_ok THEN PICOQUIC_ERROR_MEMORY
    ELSE IF has_data THEN 1 ELSE 0

-----------------------------------------------------------------------------
(* The connection.  The application hands over data, the framework sends   *)
(* source symbols and hears of acknowledged slots, the clock advances, and *)
(* at any send opportunity the protect condition is asked.                 *)

\* create_window_controller: the controller with no addon yet.
Init ==
    /\ kind \in Kinds
    /\ controller = [n_fec_in_flight |-> 0, last_sent_id_timestamp |-> 0,
                     addons_states |-> NoAddon]
    /\ window = [start |-> INITIAL_SYMBOL_ID, end |-> INITIAL_SYMBOL_ID]
    /\ current_time = 0
    /\ has_fec_protected_data_to_send = FALSE
    /\ symbols_from_deadlines = <<>>
    /\ waking_at = 0
    /\ answers = <<>>

\* The application has data for the stream.
ApplicationWrites ==
    /\ ~has_fec_protected_data_to_send
    /\ has_fec_protected_data_to_send' = TRUE
    /\ UNCHANGED <<kind, controller, window, current_time,
                   symbols_from_deadlines, waking_at, answers>>

\* A new packet is sent: its source symbol enters the window; with the
\* message-based controller its deadline is remembered with the first
\* symbol that has it.
SendSourceSymbol(deadline, more) ==
    /\ \E state_ok \in Allocations :
           bulk_new_packet_condition(has_fec_protected_data_to_send, state_ok) = 1
    /\ window.end <= MaxSourceId
    /\ window' = [window EXCEPT !.end = @ + 1]
    /\ controller' = [controller EXCEPT !.last_sent_id_timestamp = current_time]
    /\ has_fec_protected_data_to_send' = more
    /\ symbols_from_deadlines' =
           IF kind = "message_based" /\ deadline \notin DOMAIN symbols_from_deadlines
           THEN [d \in DOMAIN symbols_from_deadlines \cup {deadline} |->
                    IF d = deadline THEN window.end ELSE symbols_from_deadlines[d]]
           ELSE symbols_from_deadlines
    /\ UNCHANGED <<kind, current_time, waking_at, answers>>

\* slot_acked of the controller: one repair symbol less is in flight.
slot_acked(c, is_repair) ==
    IF is_repair THEN [c EXCEPT !.n_fec_in_flight = @ - 1] ELSE c

\* static_slot_acked: the slot of the oldest source symbol in transit, which
\* has left the window, or the slot of a repair symbol, is acknowledged.
\* Without the plugin state the handler returns before it tells the
\* controller.
static_slot_acked(is_repair, alloc_ok) ==
    /\ IF is_repair
       THEN controller.n_fec_in_flight > 0 /\ UNCHANGED window
       ELSE window.start < window.end
                /\ window' = [window EXCEPT !.start = @ + 1]
    /\ controller' = IF alloc_ok THEN slot_acked(controller, is_repair)
                     ELSE controller
    /\ UNCHANGED <<kind, current_time, has_fec_protected_data_to_send,
                   symbols_from_deadlines, waking_at, answers>>

Tick ==
    /\ current_time < MaxTime
    /\ current_time' = current_time + 1
    /\ UNCHANGED <<kind, controller, window, has_fec_protected_data_to_send,
                   symbols_from_deadlines, waking_at, answers>>

\* What a call of the protect condition leaves: the controller, the
\* wake-up asked for and, when it answers true, the block; an error code
\* is an operation given up, which leaves no block.  The framework then
\* sends the repair symbols of the block; they are counted in
\* n_fec_in_flight for the one controller that reads it.
Asked(answer, room) ==
    /\ controller' =
           IF kind = "bulk_static"
           THEN [answer.controller EXCEPT
                     !.n_fec_in_flight = @ + answer.out.n_repair_symbols]
           ELSE answer.controller
    /\ answers' = IF answer.ret = 1
                  THEN Append(answers, [first_id |-> answer.out.first_id_to_protect,
                                        k |-> answer.out.n_symbols_to_protect,
                                        r |-> answer.out.n_repair_symbols,
                                        room |-> room])
                  ELSE answers
    /\ waking_at' = IF answer.wake # 0 THEN answer.wake ELSE waking_at
    /\ UNCHANGED <<kind, window, current_time, has_fec_protected_data_to_send,
                   symbols_from_deadlines>>

\* What a call reads: of the path, of the loss estimate, of the plugin
\* state, and whether its allocation succeeds.
Read(path, loss, alloc_ok) ==
    [smoothed_rtt |-> path.smoothed_rtt, cwin |-> path.cwin,
     bytes_in_transit |-> path.bytes_in_transit, send_mtu |-> path.send_mtu,
     lr_gran |-> loss.lr_gran, gemodel_p_gran |-> loss.gemodel_p_gran,
     gemodel_r_gran |-> loss.gemodel_r_gran,
     next_message_timestamp |-> path.next_message_timestamp,
     has_fec_protected_data_to_send |-> has_fec_protected_data_to_send,
     alloc_ok |-> alloc_ok]

\* The values of the path and of the loss estimate; a controller is given
\* the same value for what it does not read.
Paths(rtts, cwins, in_transit, next_messages) ==
    [smoothed_rtt : rtts, cwin : cwins, bytes_in_transit : in_transit,
     send_mtu : Mtus, next_message_timestamp : next_messages]

Losses(p_grans, r_grans) ==
    [lr_gran : LossRates, gemodel_p_gran : p_grans, gemodel_r_gran : r_grans]

Unread == {0}

BulkStatic ==
    /\ kind = "bulk_static"
    /\ \E path \in Paths(Rtts, Unread, Unread, Unread),
          loss \in Losses(Unread, GemodelR), alloc_ok \in Allocations :
           Asked(bulk_protect_condition_static(
                     controller, window, current_time, Read(path, loss, alloc_ok)),
                 TRUE)

Bulk ==
    /\ kind = "bulk"
    /\ \E path \in Paths(Rtts, Bytes, Bytes, Unread),
          loss \in Losses(Unread, Unread), alloc_ok \in Allocations :
           Asked(bulk_protect_condition(
                     controller, window, current_time, Read(path, loss, alloc_ok)),
                 path.cwin # path.bytes_in_transit)

BufferLimited ==
    /\ kind = "buffer_limited"
    /\ \E path \in Paths(Unread, Bytes, Bytes, Unread),
          loss \in Losses(GemodelP, GemodelR), alloc_ok \in Allocations :
           Asked(buffer_limited_protect_condition(
                     controller, window, current_time, Read(path, loss, alloc_ok)),
                 path.cwin # path.bytes_in_transit)

MessageBased ==
    /\ kind = "message_based"
    /\ \E path \in Paths(Rtts, Bytes, Bytes,
                          Deadlines \cup {UNDEFINED_SYMBOL_DEADLINE}),
          loss \in Losses(Unread, GemodelR),
          alloc_ok \in Allocations, state_ok \in Allocations :
           Asked(message_based_protect_condition(
                     controller, window, current_time, Read(path, loss, alloc_ok),
                     symbols_from_deadlines, state_ok),
                 TRUE)

Next ==
    \/ ApplicationWrites
    \/ \E deadline \in {d \in Deadlines : d >= current_time}, more \in BOOLEAN :
           SendSourceSymbol(deadline, more)
    \/ \E is_repair \in BOOLEAN, alloc_ok \in Allocations :
           static_slot_acked(is_repair, alloc_ok)
    \/ Tick
    \/ BulkStatic
    \/ Bulk
    \/ BufferLimited
    \/ MessageBased

Spec == Init /\ [][Next]_vars

-----------------------------------------------------------------------------
(* Properties.                                                             *)

Blocks == [first_id : 1 .. MaxSourceId, k : 1 .. MaxSourceId,
           r : 0 .. UINT16 - 1, room : BOOLEAN]

\* The ids of a block.
Protected(block) == block.first_id .. block.first_id + block.k - 1

\* The state is well formed: the outputs of a protect condition fit the
\* uint16_t variables they are computed in, and a block lies in the ids
\* that were sent.
TypeOK ==
    /\ kind \in Kinds
    /\ controller.n_fec_in_flight \in Nat
    /\ controller.last_sent_id_timestamp \in 0 .. MaxTime
    /\ \/ controller.addons_states = NoAddon
       \/ controller.addons_states.window_first_unprotected_id \in 0 .. MaxSourceId + 1
    /\ window \in [start : 1 .. MaxSourceId + 1, end : 1 .. MaxSourceId + 1]
    /\ window.start <= window.end
    /\ current_time \in 0 .. MaxTime
    /\ has_fec_protected_data_to_send \in BOOLEAN
    /\ DOMAIN symbols_from_deadlines \subseteq Deadlines
    /\ waking_at \in Nat
    /\ answers \in Seq(Blocks)

\* The blocks answered partition the symbols: every block starts at or
\* after the end of the one before it (window_first_unprotected_id += k),
\* none goes beyond the window, and every symbol of the window below
\* window_first_unprotected_id is in a block, so that no symbol in transit
\* is skipped by the MAX with the start of the window.
BlocksPartition ==
    /\ \A i \in 1 .. Len(answers) - 1 :
           answers[i].first_id + answers[i].k <= answers[i + 1].first_id
    /\ \A i \in DOMAIN answers : answers[i].first_id + answers[i].k <= window.end
    /\ controller.addons_states # NoAddon =>
           \A id \in window.start ..
                      controller.addons_states.window_first_unprotected_id - 1 :
               \E i \in DOMAIN answers : id \in Protected(answers[i])

\* A block is answered with at least one repair symbol unless the
\* congestion window is exactly full: the bulk controller of static_fec
\* abstains when n_fec_in_flight has reached r_max instead of answering
\* r_max - n_fec_in_flight = 0, and the MIN with rem_p_cwin of the other
\* controllers leaves a repair symbol whenever cwin and bytes_in_transit
\* differ.
RepairUnlessNoRoom ==
    \A i \in DOMAIN answers : answers[i].r >= 1 \/ ~answers[i].room
=============================================================================
