------------------------------ MODULE RsScheme ------------------------------
(***************************************************************************)
(* The Reed-Solomon scheme of the window framework, both ends:             *)
(*   - sender_scheme.h: the sender encodes a window once and hands out     *)
(*     its repair symbols one call at a time;                              *)
(*   - receiver_scheme.h: the receiver keeps one code_data_t per code      *)
(*     word, the list of ids known to be missing and the list of symbols   *)
(*     recovered;                                                          *)
(*   - code_data.h: the erasures of one code word and the recovery when    *)
(*     no more than r symbols are missing;                                 *)
(*   - arraylist.h: the growable array the receiver's lists are.           *)
(* with the protocol operations that call them.  Symbols travel over a     *)
(* network that loses, repeats and reorders them, and every allocation of  *)
(* a call may fail.                                                        *)
(*                                                                         *)
(* The payload of a symbol and the arithmetic that computes it are left    *)
(* out: a source symbol is its id, a repair symbol is its metadata, and a  *)
(* recovery yields the ids of the erased source symbols.                   *)
(***************************************************************************)
EXTENDS Integers, Sequences, FiniteSets, FiniteSetsExt

CONSTANTS
    MaxSourceId,    \* bound of the model on the source symbols sent
    MaxRepair,      \* bound of the model on r, the repair symbols of a window
    MaxGenerated,   \* bound of the model on the repair symbols generated
    MaxSymbols,     \* the values set_max_number_of_rs gives max_symbols
    Allocations     \* outcomes of the allocations of a call: a subset of BOOLEAN

ASSUME /\ MaxSourceId \in Nat \ {0}
       /\ MaxRepair \in Nat \ {0}
       /\ MaxGenerated \in Nat
       /\ MaxSymbols \subseteq Nat
       /\ Allocations \subseteq BOOLEAN

VARIABLES
    scheme_sender,      \* the sender_scheme_t
    highest_sent,       \* the last source symbol id the sender has sent
    window,             \* the block the controller has asked to protect
    generated,          \* the repair symbols generate has handed out
    source_symbols,     \* ids in the receiver's buffer of source symbols
    scheme_receiver,    \* the receiver_scheme_t
    delivered,          \* the symbols that have arrived (history)
    recovered_symbols,  \* the ids the last recover_lost_symbols handed over
    closed              \* a call has returned an error: the connection is closed

vars == <<scheme_sender, highest_sent, window, generated, source_symbols,
          scheme_receiver, delivered, recovered_symbols, closed>>

_RS_DATA_BUFFER_DEFAULT_MAX_SYMBOLS == 2000

PICOQUIC_ERROR_MEMORY == 1028
PICOQUIC_ERROR_UNEXPECTED_ERROR == 1030

\* The metadata of a repair symbol is read into uint16_t variables.
UINT16 == 65536

SourceIds == 1 .. MaxSourceId

\* window_repair_symbol_t: fss.val holds r and the index of the symbol.
RepairSymbols ==
    {rs \in [first_id : SourceIds, n_protected_symbols : 1 .. MaxSourceId,
             r : 1 .. MaxRepair, rs_idx : 0 .. MaxRepair - 1,
             is_fb_fec : BOOLEAN] :
        /\ rs.first_id + rs.n_protected_symbols - 1 <= MaxSourceId
        /\ rs.rs_idx < rs.r}

\* A NULL window_repair_symbol_t pointer.
NoRepairSymbol ==
    [first_id |-> 0, n_protected_symbols |-> 0, r |-> 0, rs_idx |-> 0,
     is_fb_fec |-> FALSE]

Larger(a, b) == IF a > b THEN a ELSE b

-----------------------------------------------------------------------------
(* arraylist.h: an arraylist_t is the sequence of its current_size first   *)
(* elements; indices start at 0 as in the code.                            *)

arraylist_is_empty(a) == Len(a) = 0

arraylist_size(a) == Len(a)

arraylist_reset(a) == <<>>

arraylist_push(a, id) == Append(a, id)

arraylist_shift_left(a, n) ==
    IF n = 0 \/ n > Len(a) THEN a ELSE SubSeq(a, n + 1, Len(a))

arraylist_index(a, val) ==
    IF \E i \in 1 .. Len(a) : a[i] = val
    THEN (CHOOSE i \in 1 .. Len(a) :
              a[i] = val /\ \A j \in 1 .. i - 1 : a[j] # val) - 1
    ELSE -1

arraylist_get(a, index) ==
    IF index < 0 \/ index >= Len(a) THEN 0 ELSE a[index + 1]

arraylist_get_first(a) == arraylist_get(a, 0)

arraylist_get_last(a) == arraylist_get(a, Len(a) - 1)

arraylist_set(a, index, val) ==
    IF index < 0 \/ index >= Len(a) THEN a ELSE [a EXCEPT ![index + 1] = val]

-----------------------------------------------------------------------------
(* code_data.h: the erasures of one code word.  Index idx < k is source    *)
(* symbol first_id + idx, index k + j is repair symbol j.                  *)

\* A NULL code_data_t pointer.
NoCodeData == [first_id |-> 0, k |-> 0, r |-> 0, t |-> 0, is_erased |-> <<>>]

\* code_data_create and _code_data_init: the source symbols the buffer
\* lacks and all repair symbols are erased, and t counts them.
code_data_create(first_id, k, r, buffer, alloc_ok) ==
    LET is_erased == [idx \in 0 .. k + r - 1 |->
                         idx >= k \/ first_id + idx \notin buffer]
    IN  IF ~alloc_ok THEN NoCodeData
        ELSE [first_id |-> first_id, k |-> k, r |-> r,
              t |-> Cardinality({idx \in 0 .. k + r - 1 : is_erased[idx]}),
              is_erased |-> is_erased]

\* The ids of the erased source symbols, in the order the loop restores them.
RECURSIVE erased_source_ids(_, _)
erased_source_ids(data, pos_idx) ==
    IF pos_idx >= data.k THEN <<>>
    ELSE (IF data.is_erased[pos_idx] THEN <<data.first_id + pos_idx>> ELSE <<>>)
             \o erased_source_ids(data, pos_idx + 1)

\* _code_data_try_to_recover: with more than r erasures nothing is done;
\* otherwise every erased source symbol is restored and pushed.  When
\* memory runs out, at the locator or at a symbol of the restoring loop,
\* the n_restored symbols restored before it stay pushed.
code_data_try_to_recover(data, recovered, alloc_ok, n_restored) ==
    LET lost == erased_source_ids(data, 0)
        made == IF n_restored < Len(lost) THEN n_restored ELSE Len(lost) - 1
    IN  IF data.t > data.r THEN [ret |-> 1, recovered |-> recovered]
        ELSE IF ~alloc_ok
        THEN [ret |-> PICOQUIC_ERROR_MEMORY,
              recovered |-> recovered \o SubSeq(lost, 1, made)]
        ELSE [ret |-> 0, recovered |-> recovered \o lost]

\* Fault: a symbol that is already known is counted again.
add_symbol_counting_repeats(data, i, recovered, alloc_ok, n_restored) ==
    LET added == [data EXCEPT !.is_erased[i] = FALSE, !.t = @ - 1]
    IN  IF data.t <= data.r
        THEN [ret |-> 0, data |-> data, recovered |-> recovered]
        ELSE LET tried == code_data_try_to_recover(added, recovered, alloc_ok,
                                                        n_restored)
             IN  [ret |-> tried.ret, data |-> added,
                  recovered |-> tried.recovered]

\* code_data_add_symbol_and_try_to_recover: symbol i is no longer erased.
code_data_add_symbol_and_try_to_recover(data, i, recovered, alloc_ok, n_restored) ==
    LET added == [data EXCEPT !.is_erased[i] = FALSE, !.t = @ - 1]
    IN  IF data.t <= data.r \/ ~data.is_erased[i]
        THEN [ret |-> 0, data |-> data, recovered |-> recovered]
        ELSE LET tried == code_data_try_to_recover(added, recovered, alloc_ok,
                                                        n_restored)
             IN  [ret |-> tried.ret, data |-> added,
                  recovered |-> tried.recovered]

-----------------------------------------------------------------------------
(* receiver_scheme.h.  code_data_buffer is the red-black tree, a function  *)
(* from the last protected id of a code word to its code_data_t.           *)

receiver_scheme_create ==
    [max_symbols |-> _RS_DATA_BUFFER_DEFAULT_MAX_SYMBOLS,
     n_symbols |-> 0,
     code_data_buffer |-> <<>>,
     unknown_ids |-> <<>>,
     unknown_recovered |-> <<>>,
     recovered_source_symbols_arraylist |-> <<>>]

rbt_is_empty(tree) == DOMAIN tree = {}

rbt_min(tree) == CHOOSE key \in DOMAIN tree : \A other \in DOMAIN tree : key <= other

\* The smallest key at or above key; the caller tests that there is one.
rbt_ceiling(tree, key) == rbt_min([other \in {o \in DOMAIN tree : o >= key} |-> tree[other]])

rbt_put(tree, key, val) ==
    [other \in DOMAIN tree \cup {key} |-> IF other = key THEN val ELSE tree[other]]

\* The first id of the buffer of source symbols, 0 when it is empty.
buffer_first_source_symbol_id(buffer) ==
    IF buffer = {} THEN 0 ELSE CHOOSE id \in buffer : \A other \in buffer : id <= other

\* The ids from initial_id to current_id that the buffer lacks, pushed on
\* both lists.
RECURSIVE push_missing(_, _, _, _)
push_missing(s, buffer, id, current_id) ==
    IF id > current_id THEN s
    ELSE push_missing(
             IF id \in buffer THEN s
             ELSE [s EXCEPT !.unknown_ids = arraylist_push(@, id),
                            !.unknown_recovered = arraylist_push(@, 0)],
             buffer, id + 1, current_id)

\* Fault: the ids already on the list are not skipped.
initial_id_of_buffer(s, buffer) == buffer_first_source_symbol_id(buffer)

\* The first id that may be missing and is not yet on the list.
initial_id(s, buffer) ==
    Larger(arraylist_get_last(s.unknown_ids) + 1,
           buffer_first_source_symbol_id(buffer))

\* _receiver_scheme_extend_unknown_ids: the loop over temp_arraylist from
\* its element i (indices from 0) on.
RECURSIVE receiver_scheme_extend_unknown_ids(_, _, _, _)
receiver_scheme_extend_unknown_ids(s, temp_arraylist, i, buffer) ==
    LET current_id == arraylist_get(temp_arraylist, i)
    IN  IF i >= arraylist_size(temp_arraylist) THEN [ret |-> 0, scheme |-> s]
        ELSE IF \/ arraylist_is_empty(s.unknown_ids)
                \/ arraylist_get_last(s.unknown_ids) < current_id
        THEN receiver_scheme_extend_unknown_ids(
                 push_missing(s, buffer, initial_id(s, buffer), current_id),
                 temp_arraylist, i + 1, buffer)
        ELSE IF current_id < arraylist_get_first(s.unknown_ids)
        THEN [ret |-> -1, scheme |-> s]
        ELSE receiver_scheme_extend_unknown_ids(s, temp_arraylist, i + 1, buffer)

\* The code word that a source symbol known to be missing belongs to, and
\* the three tests after which the code prints "should not happen".
code_word_is_found(s, id) ==
    /\ ~rbt_is_empty(s.code_data_buffer)
    /\ \E key \in DOMAIN s.code_data_buffer : key >= id
    /\ id >= s.code_data_buffer[rbt_ceiling(s.code_data_buffer, id)].first_id

\* _receiver_scheme_receive_source_data: a symbol that the lists name as
\* missing and not yet known is added to its code word.
receiver_scheme_receive_source_data(s, id, alloc_ok, n_restored) ==
    LET index == arraylist_index(s.unknown_ids, id)
        key   == rbt_ceiling(s.code_data_buffer, id)
        added == code_data_add_symbol_and_try_to_recover(
                     s.code_data_buffer[key], id - s.code_data_buffer[key].first_id,
                     s.recovered_source_symbols_arraylist, alloc_ok, n_restored)
    IN  IF \/ arraylist_is_empty(s.unknown_ids)
           \/ id < arraylist_get_first(s.unknown_ids)
           \/ id > arraylist_get_last(s.unknown_ids)
           \/ index = -1
           \/ arraylist_get(s.unknown_recovered, index) # 0
        THEN [ret |-> 0, scheme |-> s]
        ELSE IF ~code_word_is_found(s, id)
        THEN [ret |-> PICOQUIC_ERROR_UNEXPECTED_ERROR, scheme |-> s]
        ELSE [ret |-> 0,
              scheme |-> [s EXCEPT
                  !.code_data_buffer[key] = added.data,
                  !.recovered_source_symbols_arraylist = added.recovered,
                  !.unknown_recovered = arraylist_set(@, index, 1)]]

receiver_scheme_receive_source_symbol(s, id, alloc_ok, n_restored) ==
    receiver_scheme_receive_source_data(s, id, alloc_ok, n_restored)

\* _receiver_scheme_receive_fb_fec: a retransmitted source symbol is
\* recovered at once when the buffer lacks it.
receiver_scheme_receive_fb_fec(s, buffer, rs, alloc_ok, n_restored) ==
    LET id == rs.first_id % UINT16
        pushed == [s EXCEPT !.recovered_source_symbols_arraylist =
                                arraylist_push(@, id)]
    IN  IF \/ rs.n_protected_symbols % UINT16 # 1
           \/ rs.r # 1
           \/ rs.rs_idx # 0
        THEN [ret |-> PICOQUIC_ERROR_UNEXPECTED_ERROR, scheme |-> s]
        ELSE IF id \in buffer
        THEN receiver_scheme_receive_source_data(s, id, alloc_ok, n_restored)
        ELSE IF ~alloc_ok THEN [ret |-> PICOQUIC_ERROR_MEMORY, scheme |-> s]
        ELSE receiver_scheme_receive_source_data(pushed, id, alloc_ok, n_restored)

\* receiver_scheme_receive_repair_symbol: the code word of the symbol is
\* looked up by its last protected id and created when the buffer lacks
\* one of its source symbols; the symbol is then added to it.
receiver_scheme_receive_repair_symbol(s, buffer, rs, alloc_ok, n_restored) ==
    LET first_id == rs.first_id % UINT16
        k        == rs.n_protected_symbols % UINT16
        key      == first_id + k - 1
        temp_arraylist ==
            SelectSeq([j \in 1 .. k |-> first_id + j - 1],
                      LAMBDA id : id \notin buffer)
        extended == receiver_scheme_extend_unknown_ids(s, temp_arraylist, 0, buffer)
        data     == code_data_create(first_id, k, rs.r, buffer, alloc_ok)
        created  == [extended.scheme EXCEPT
                        !.code_data_buffer = rbt_put(@, key, data),
                        !.n_symbols = @ + rs.r]
        add(scheme) ==
            LET added == code_data_add_symbol_and_try_to_recover(
                             scheme.code_data_buffer[key], k + rs.rs_idx,
                             scheme.recovered_source_symbols_arraylist, alloc_ok,
                             n_restored)
            IN  [ret |-> 0,
                 scheme |-> [scheme EXCEPT
                     !.code_data_buffer[key] = added.data,
                     !.recovered_source_symbols_arraylist = added.recovered]]
    IN  IF rs.is_fb_fec \/ (k = 1 /\ rs.r = 1)
        THEN receiver_scheme_receive_fb_fec(s, buffer, rs, alloc_ok, n_restored)
        ELSE IF key \in DOMAIN s.code_data_buffer THEN add(s)
        ELSE IF s.n_symbols + rs.r > s.max_symbols \/ temp_arraylist = <<>>
        THEN [ret |-> 0, scheme |-> s]
        ELSE IF extended.ret # 0 THEN extended
        ELSE IF data = NoCodeData THEN [ret |-> 0, scheme |-> extended.scheme]
        ELSE add(created)

\* receiver_scheme_recover_lost_symbols: the symbols recovered are handed
\* over and the list is emptied.
receiver_scheme_recover_lost_symbols(s) ==
    [recovered_symbols |-> s.recovered_source_symbols_arraylist,
     scheme |-> [s EXCEPT !.recovered_source_symbols_arraylist =
                              arraylist_reset(@)]]

\* The code words that the loop of receiver_scheme_remove_unused deletes.
unused_code_words(s, highest_contiguously_received_id) ==
    {key \in DOMAIN s.code_data_buffer : key <= highest_contiguously_received_id}

\* Fault: one symbol is given back for a code word, whatever its r.
freed_one_each(s, unused) == Cardinality(unused)

\* The repair symbols of the code words deleted, taken off n_symbols.
freed_symbols(s, unused) ==
    MapThenSumSet(LAMBDA key : s.code_data_buffer[key].r, unused)

\* receiver_scheme_remove_unused: the code words that end at or below the
\* id are deleted, and with them the ids at or below it.
receiver_scheme_remove_unused(s, highest_contiguously_received_id) ==
    LET unused == unused_code_words(s, highest_contiguously_received_id)
        pruned == [s EXCEPT
                      !.code_data_buffer = [key \in DOMAIN @ \ unused |-> @[key]],
                      !.n_symbols = @ - freed_symbols(s, unused)]
        n_removed_unknowns ==
            Cardinality({i \in 1 .. Len(s.unknown_ids) :
                            \A j \in 1 .. i :
                                s.unknown_ids[j] <= highest_contiguously_received_id})
    IN  IF \/ arraylist_is_empty(s.unknown_ids)
           \/ highest_contiguously_received_id < arraylist_get_first(s.unknown_ids)
        THEN s
        ELSE IF rbt_is_empty(pruned.code_data_buffer)
        THEN [pruned EXCEPT !.unknown_ids = arraylist_reset(@),
                            !.unknown_recovered = arraylist_reset(@)]
        ELSE [pruned EXCEPT
                 !.unknown_ids = arraylist_shift_left(@, n_removed_unknowns),
                 !.unknown_recovered = arraylist_shift_left(@, n_removed_unknowns)]

-----------------------------------------------------------------------------

\* receiver_scheme_set_max_buffer_size
receiver_scheme_set_max_buffer_size(s, new_max_symbols) ==
    [s EXCEPT !.max_symbols = new_max_symbols]

-----------------------------------------------------------------------------
(* sender_scheme.h.  repair_symbols is the number of repair symbols the    *)
(* array holds, 0 when the pointer is NULL.                                *)

sender_scheme_create ==
    [repair_symbols |-> 0,
     cur_repair_symbol_idx |-> 0,
     fec_params |-> [first_id_to_protect |-> 0, n_symbols_to_protect |-> 0,
                     n_repair_symbols |-> 0]]

\* _sender_scheme_retransmit: the repair symbol is the source symbol.
sender_scheme_retransmit(s, n_source_symbols, first_protected_id, n_repair_symbols, alloc_ok) ==
    IF n_source_symbols # 1 \/ n_repair_symbols # 1
    THEN [ret |-> PICOQUIC_ERROR_UNEXPECTED_ERROR, scheme |-> s,
          rs |-> NoRepairSymbol]
    ELSE IF ~alloc_ok
    THEN [ret |-> PICOQUIC_ERROR_MEMORY, scheme |-> s, rs |-> NoRepairSymbol]
    ELSE [ret |-> 0, scheme |-> s,
          rs |-> [first_id |-> first_protected_id, n_protected_symbols |-> 1,
                  r |-> n_repair_symbols, rs_idx |-> 0, is_fb_fec |-> TRUE]]

\* Fault: the window is encoded again at every call.
window_is_encoded_never(s, n_source_symbols, first_protected_id) == FALSE

\* "we don't protect same window twice": the window ends where the one
\* encoded last does.
window_is_encoded(s, n_source_symbols, first_protected_id) ==
    first_protected_id + n_source_symbols
        = s.fec_params.first_id_to_protect + s.fec_params.n_symbols_to_protect

\* The window is encoded: its repair symbols replace those of the last one.
sender_scheme_encoded(s, n_source_symbols, first_protected_id, n_repair_symbols) ==
    [repair_symbols |-> n_repair_symbols,
     cur_repair_symbol_idx |-> 0,
     fec_params |-> [first_id_to_protect |-> first_protected_id,
                     n_symbols_to_protect |-> n_source_symbols,
                     n_repair_symbols |-> n_repair_symbols]]

\* Fault: the index is not compared with the number of repair symbols.
repair_symbols_left_whatever_idx(rs_idx, n_repair_symbols) == TRUE

\* There is a repair symbol of this index in the array.
repair_symbols_left(rs_idx, n_repair_symbols) == rs_idx < n_repair_symbols

\* sender_scheme_encode: the next repair symbol of the encoded window.
sender_scheme_encode(s, n_source_symbols, first_protected_id, n_repair_symbols, alloc_ok) ==
    LET is_encoded == window_is_encoded(s, n_source_symbols, first_protected_id)
        encoded == IF is_encoded THEN s
                   ELSE sender_scheme_encoded(s, n_source_symbols,
                                              first_protected_id, n_repair_symbols)
        rs_idx  == encoded.cur_repair_symbol_idx
        counted == [encoded EXCEPT !.cur_repair_symbol_idx = (@ + 1) % UINT16]
    IN  IF n_source_symbols = 1 /\ n_repair_symbols = 1
        THEN sender_scheme_retransmit(s, n_source_symbols, first_protected_id,
                                      n_repair_symbols, alloc_ok)
        ELSE IF ~is_encoded /\ ~alloc_ok
        THEN [ret |-> PICOQUIC_ERROR_MEMORY,
              scheme |-> [s EXCEPT !.repair_symbols = 0],
              rs |-> NoRepairSymbol]
        ELSE IF n_repair_symbols # encoded.fec_params.n_repair_symbols
        THEN [ret |-> PICOQUIC_ERROR_UNEXPECTED_ERROR, scheme |-> encoded,
              rs |-> NoRepairSymbol]
        ELSE IF ~repair_symbols_left(rs_idx, n_repair_symbols)
        THEN [ret |-> PICOQUIC_ERROR_UNEXPECTED_ERROR, scheme |-> counted,
              rs |-> NoRepairSymbol]
        ELSE [ret |-> 0, scheme |-> counted,
              rs |-> [first_id |-> encoded.fec_params.first_id_to_protect,
                      n_protected_symbols |-> encoded.fec_params.n_symbols_to_protect,
                      r |-> encoded.fec_params.n_repair_symbols,
                      rs_idx |-> rs_idx, is_fb_fec |-> FALSE]]

\* The protocol operation generate.
generate(s, n_source_symbols, n_symbols_to_generate, first_protected_id, n_repair_symbols, alloc_ok) ==
    IF n_symbols_to_generate # 1
    THEN [ret |-> PICOQUIC_ERROR_UNEXPECTED_ERROR, scheme |-> s,
          rs |-> NoRepairSymbol]
    ELSE sender_scheme_encode(s, n_source_symbols, first_protected_id,
                              n_repair_symbols, alloc_ok)

-----------------------------------------------------------------------------
(* The two ends.  The sender sends source symbols 1, 2, ... ; the          *)
(* controller asks to protect the symbols sent since the last block, and   *)
(* generate is called for one repair symbol of the block at a time.  Every *)
(* symbol sent may arrive at any time, any number of times, or never.  A   *)
(* call that returns an error closes the connection.                       *)

Init ==
    /\ scheme_sender = sender_scheme_create
    /\ highest_sent = 0
    /\ window = [first_id |-> 1, k |-> 0, r |-> 0, calls |-> 0]
    /\ generated = {}
    /\ source_symbols = {}
    /\ scheme_receiver = receiver_scheme_create
    /\ delivered = [source |-> {}, repair |-> {}]
    /\ recovered_symbols = <<>>
    /\ closed = FALSE

\* The sender sends the next source symbol.
SendSourceSymbol ==
    /\ ~closed
    /\ highest_sent < MaxSourceId
    /\ highest_sent' = highest_sent + 1
    /\ UNCHANGED <<scheme_sender, window, generated, source_symbols,
                   scheme_receiver, delivered, recovered_symbols, closed>>

\* The controller's protect condition answers with the next block: from
\* the first id no block protects yet, or from the start of the sender's
\* window when that is higher (the symbols below it are acknowledged, so
\* the receiver has them), to the last symbol sent, with r repair symbols.
Protect(first_id_to_protect, n_repair_symbols) ==
    /\ ~closed
    /\ first_id_to_protect \in window.first_id + window.k .. highest_sent
    /\ window.first_id + window.k .. first_id_to_protect - 1 \subseteq source_symbols
    /\ window' = [first_id |-> first_id_to_protect,
                  k |-> highest_sent - first_id_to_protect + 1,
                  r |-> n_repair_symbols, calls |-> 0]
    /\ UNCHANGED <<scheme_sender, highest_sent, generated, source_symbols,
                   scheme_receiver, delivered, recovered_symbols, closed>>

\* generate: one more repair symbol of the block.
Generate(n_symbols_to_generate, alloc_ok) ==
    LET out == generate(scheme_sender, window.k, n_symbols_to_generate,
                        window.first_id, window.r, alloc_ok)
    IN  /\ ~closed
        /\ window.k > 0
        /\ Cardinality(generated) < MaxGenerated
        /\ window.calls < MaxGenerated
        /\ scheme_sender' = out.scheme
        /\ generated' = IF out.ret = 0 THEN generated \cup {out.rs} ELSE generated
        /\ window' = [window EXCEPT !.calls = IF out.ret = 0 THEN @ + 1 ELSE @]
        /\ closed' = (out.ret # 0)
        /\ UNCHANGED <<highest_sent, source_symbols, scheme_receiver,
                       delivered, recovered_symbols>>

\* The protocol operation recover_lost_symbols: the list and whether it
\* holds a symbol.
recover_lost_symbols(s) ==
    LET lost == receiver_scheme_recover_lost_symbols(s)
    IN  [recovered |-> IF lost.recovered_symbols = <<>> THEN 0 ELSE 1,
         recovered_symbols |-> lost.recovered_symbols,
         scheme |-> lost.scheme]

\* How many symbols a recovery can have restored when its memory runs
\* out: fewer than it has to restore, which are at most r.
RestoredBeforeFailure(alloc_ok) == IF alloc_ok THEN {0} ELSE 0 .. MaxRepair - 1

\* The ids of a list of recovered symbols.
Ids(symbols) == {symbols[i] : i \in DOMAIN symbols}

\* receive_source_symbol: a source symbol arrives, is put in the buffer
\* and shown to the scheme.
ReceiveSourceSymbol(id, alloc_ok, n_restored) ==
    LET out == receiver_scheme_receive_source_symbol(scheme_receiver, id, alloc_ok,
                                                     n_restored)
    IN  /\ ~closed
        /\ id <= highest_sent
        /\ source_symbols' = source_symbols \cup {id}
        /\ scheme_receiver' = out.scheme
        /\ delivered' = [delivered EXCEPT !.source = @ \cup {id}]
        /\ closed' = (out.ret # 0)
        /\ UNCHANGED <<scheme_sender, highest_sent, window, generated,
                       recovered_symbols>>

\* receive_repair_symbol and recover_lost_symbols: a repair symbol arrives
\* and is shown to the scheme; what the scheme has recovered is put in the
\* buffer of source symbols.
ReceiveRepairSymbol(rs, alloc_ok, n_restored) ==
    LET out == receiver_scheme_receive_repair_symbol(scheme_receiver,
                                                     source_symbols, rs, alloc_ok,
                                                     n_restored)
        lost == recover_lost_symbols(out.scheme)
    IN  /\ ~closed
        /\ rs \in generated
        /\ scheme_receiver' = lost.scheme
        /\ recovered_symbols' = lost.recovered_symbols
        /\ source_symbols' = source_symbols \cup Ids(lost.recovered_symbols)
        /\ delivered' = [delivered EXCEPT !.repair = @ \cup {rs}]
        /\ closed' = (out.ret # 0)
        /\ UNCHANGED <<scheme_sender, highest_sent, window, generated>>

\* The last id below which the receiver has every source symbol.
HighestContiguouslyReceived ==
    CHOOSE h \in 0 .. MaxSourceId :
        /\ 1 .. h \subseteq source_symbols
        /\ h + 1 \notin source_symbols

\* remove_unused_repair_symbols
RemoveUnusedRepairSymbols ==
    /\ ~closed
    /\ scheme_receiver' = receiver_scheme_remove_unused(
                              scheme_receiver, HighestContiguouslyReceived)
    /\ scheme_receiver' # scheme_receiver
    /\ UNCHANGED <<scheme_sender, highest_sent, window, generated,
                   source_symbols, delivered, recovered_symbols, closed>>

\* set_max_number_of_rs
SetMaxNumberOfRs(max_rs) ==
    /\ ~closed
    /\ scheme_receiver' = receiver_scheme_set_max_buffer_size(scheme_receiver, max_rs)
    /\ scheme_receiver' # scheme_receiver
    /\ UNCHANGED <<scheme_sender, highest_sent, window, generated,
                   source_symbols, delivered, recovered_symbols, closed>>

\* The connection is closed: nothing more happens.
Closed == closed /\ UNCHANGED vars

Next ==
    \/ SendSourceSymbol
    \/ \E first_id_to_protect \in SourceIds, n_repair_symbols \in 1 .. MaxRepair :
           Protect(first_id_to_protect, n_repair_symbols)
    \/ \E n_symbols_to_generate \in 1 .. 2, alloc_ok \in Allocations :
           Generate(n_symbols_to_generate, alloc_ok)
    \/ \E id \in SourceIds, alloc_ok \in Allocations :
           \E n_restored \in RestoredBeforeFailure(alloc_ok) :
               ReceiveSourceSymbol(id, alloc_ok, n_restored)
    \/ \E rs \in generated, alloc_ok \in Allocations :
           \E n_restored \in RestoredBeforeFailure(alloc_ok) :
               ReceiveRepairSymbol(rs, alloc_ok, n_restored)
    \/ RemoveUnusedRepairSymbols
    \/ \E max_rs \in MaxSymbols : SetMaxNumberOfRs(max_rs)
    \/ Closed

Spec == Init /\ [][Next]_vars

-----------------------------------------------------------------------------
(* Properties *)

CodeData ==
    {data \in [first_id : SourceIds, k : 1 .. MaxSourceId, r : 1 .. MaxRepair,
               t : 0 .. MaxSourceId + MaxRepair,
               is_erased : UNION {[0 .. n - 1 -> BOOLEAN] :
                                     n \in 2 .. MaxSourceId + MaxRepair}] :
        DOMAIN data.is_erased = 0 .. data.k + data.r - 1}

\* The variables hold values of the types of the code: the lists hold
\* source symbol ids, a code word is stored under its last protected id,
\* and a repair symbol handed out by sender_scheme_encode has an index
\* below the number of repair symbols of its window.
TypeOK ==
    /\ scheme_sender \in
           [repair_symbols : 0 .. MaxRepair,
            cur_repair_symbol_idx : 0 .. MaxRepair + 1,
            fec_params : [first_id_to_protect : 0 .. MaxSourceId,
                          n_symbols_to_protect : 0 .. MaxSourceId,
                          n_repair_symbols : 0 .. MaxRepair]]
    /\ highest_sent \in 0 .. MaxSourceId
    /\ window \in [first_id : SourceIds, k : 0 .. MaxSourceId,
                    r : 0 .. MaxRepair, calls : 0 .. MaxGenerated]
    /\ generated \subseteq RepairSymbols
    /\ source_symbols \subseteq SourceIds
    /\ scheme_receiver.max_symbols \in MaxSymbols \cup {_RS_DATA_BUFFER_DEFAULT_MAX_SYMBOLS}
    /\ scheme_receiver.n_symbols \in 0 .. MaxGenerated * MaxRepair
    /\ DOMAIN scheme_receiver.code_data_buffer \subseteq SourceIds
    /\ \A key \in DOMAIN scheme_receiver.code_data_buffer :
           LET data == scheme_receiver.code_data_buffer[key]
           IN  data \in CodeData /\ key = data.first_id + data.k - 1
    /\ scheme_receiver.unknown_ids \in Seq(SourceIds)
    /\ scheme_receiver.unknown_recovered \in Seq({0, 1})
    /\ scheme_receiver.recovered_source_symbols_arraylist \in Seq(SourceIds)
    /\ delivered \in [source : SUBSET SourceIds, repair : SUBSET generated]
    /\ recovered_symbols \in Seq(SourceIds)
    /\ closed \in BOOLEAN

\* The ids a repair symbol protects.
Protected(rs) == rs.first_id .. rs.first_id + rs.n_protected_symbols - 1

\* The repair symbols of the code word of rs that have arrived.
DeliveredOf(rs, arrived) ==
    {other \in arrived :
        /\ Protected(other) = Protected(rs)
        /\ other.r = rs.r
        /\ other.is_fb_fec = rs.is_fb_fec}

\* The ids known to be missing are in increasing order and none is there
\* twice, as the comment on unknown_recovered in receiver_scheme_t asks,
\* and the two lists that _receiver_scheme_extend_unknown_ids and
\* receiver_scheme_remove_unused change together name the same symbols.
UnknownIdsOrdered ==
    /\ Len(scheme_receiver.unknown_ids) = Len(scheme_receiver.unknown_recovered)
    /\ \A i, j \in DOMAIN scheme_receiver.unknown_ids :
           i < j => scheme_receiver.unknown_ids[i] < scheme_receiver.unknown_ids[j]

\* n_symbols, which receiver_scheme_receive_repair_symbol compares with
\* max_symbols before it stores a code word, is the number of repair
\* symbols of the code words stored, after any creation and removal.
SymbolsCounted ==
    scheme_receiver.n_symbols
        = MapThenSumSet(LAMBDA key : scheme_receiver.code_data_buffer[key].r,
                        DOMAIN scheme_receiver.code_data_buffer)

\* The calls of generate for one block hand out as many different repair
\* symbols, all of the block as the controller asked for it: the window is
\* encoded once ("we don't protect same window twice" in
\* sender_scheme_encode) and cur_repair_symbol_idx walks through it.
OneSymbolPerCall ==
    LET of_block == {rs \in generated :
                        /\ rs.first_id = window.first_id
                        /\ rs.n_protected_symbols = window.k
                        /\ rs.r = window.r}
    IN  /\ window.calls > 0 => of_block # {}
        /\ \A rs \in of_block : ~rs.is_fb_fec => Cardinality(of_block) = window.calls

\* The source symbols that have arrived, as they were sent or retransmitted
\* as a repair symbol of their own.
ArrivedSource(arrived) ==
    arrived.source \cup {rs.first_id : rs \in {fb \in arrived.repair : fb.is_fb_fec}}

\* Every symbol that recover_lost_symbols hands over is protected by a
\* repair symbol that has arrived, and the receiver has k symbols of that
\* code word: source symbols that arrived or were in the buffer, and
\* repair symbols that arrived.  With fewer, _code_data_try_to_recover
\* would build a symbol from a system it cannot solve.
RecoverySound ==
    [][\A id \in Ids(recovered_symbols') :
           \E rs \in delivered'.repair :
               /\ id \in Protected(rs)
               /\ Cardinality(Protected(rs)
                                  \cap (source_symbols \cup ArrivedSource(delivered')))
                      + Cardinality(DeliveredOf(rs, delivered'.repair))
                    >= rs.n_protected_symbols]_vars

\* A source symbol that arrives is taken whatever arrived before it: the
\* returns of _receiver_scheme_receive_source_data that print "should not
\* happen" are never reached while memory can be allocated.
SourceSymbolTaken ==
    [][\A id \in SourceIds : ReceiveSourceSymbol(id, TRUE, 0) => ~closed']_vars

\* Any k of the k + r symbols of a code word suffice: when a repair symbol
\* of a code word has arrived, and k of its symbols have, the receiver has
\* all its source symbols once recover_lost_symbols has run.
AnyKSuffice ==
    \A rs \in delivered.repair :
        (/\ scheme_receiver.recovered_source_symbols_arraylist = <<>>
         /\ Cardinality(Protected(rs) \cap ArrivedSource(delivered))
                + Cardinality(DeliveredOf(rs, delivered.repair))
              >= rs.n_protected_symbols)
            => Protected(rs) \subseteq source_symbols

=============================================================================
