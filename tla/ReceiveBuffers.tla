--------------------------- MODULE ReceiveBuffers ---------------------------
(***************************************************************************)
(* The receiver's two rings of src/plugins/fec/framework/                  *)
(* window_receive_buffers.h: received source symbols, stored at            *)
(* id % max_size, and received repair symbols, stored at                   *)
(* fec_scheme_specific % max_size.  Each ring keeps the index of its       *)
(* oldest (first) and newest (last) symbol and the number of symbols.      *)
(*                                                                         *)
(* A symbol is what the buffers look at: a source symbol is its id, a      *)
(* repair symbol is its key, the first id it protects and the number of    *)
(* source symbols it protects.  The functions of the header are operators  *)
(* from a buffer to a buffer; the actions are the three calls the          *)
(* receiver makes on the arrival of a symbol and of an acknowledgement.    *)
(***************************************************************************)
EXTENDS Integers, FiniteSets, Sequences

CONSTANTS
    SourceMaxSize,  \* max_size of the ring of source symbols
    RepairMaxSize,  \* max_size of the ring of repair symbols
    MaxSourceId,    \* bound of the model on source symbol ids
    MaxSlot,        \* bound of the model on the sender's slot number
    FirstIds,       \* the ids a repair symbol of the model starts at
    MaxNss          \* bound of the model on the symbols a repair protects

ASSUME /\ SourceMaxSize \in Nat \ {0}
       /\ RepairMaxSize \in Nat \ {0}
       /\ MaxSourceId \in Nat
       /\ MaxSlot \in Nat
       /\ FirstIds \subseteq 0 .. MaxSourceId
       /\ MaxNss \in Nat \ {0}

VARIABLES
    source,  \* the received_source_symbols_buffer_t
    repair,  \* the received_repair_symbols_buffer_t
    fault,   \* a call has read through a NULL symbol pointer
    received_ids  \* history: the ids add_source_symbol has been called with

vars == <<source, repair, fault, received_ids>>

\* A NULL pointer to a source symbol.
NULL == -1

SourceIds == 0 .. MaxSourceId

\* fec_scheme_specific is 32 bits wide: the slot number of the sender in
\* the low 31 bits, and bit 31 set on a feedback repair symbol.
FecSchemeSpecific == [fb : {0, 1}, slot : 0 .. MaxSlot]

RepairSymbols ==
    [fec_scheme_specific : FecSchemeSpecific, first_id : FirstIds,
     nss : 1 .. MaxNss]

\* A NULL pointer to a repair symbol: a symbol protects at least one.
NoRepairSymbol ==
    [fec_scheme_specific |-> [fb |-> 0, slot |-> 0], first_id |-> 0, nss |-> 0]

SmallestOf(S) == CHOOSE x \in S : \A y \in S : x <= y

\* a > b on the 32-bit values.
fss_greater(a, b) == a.fb > b.fb \/ (a.fb = b.fb /\ a.slot > b.slot)

\* value % max_size, with 2^31 reduced before it is added.
fss_index(a) ==
    (a.fb * (((2^30 % RepairMaxSize) * 2) % RepairMaxSize) + a.slot)
        % RepairMaxSize

received_source_symbols_buffer_t ==
    [source_symbols : [0 .. SourceMaxSize - 1 -> SourceIds \cup {NULL}],
     first : -1 .. SourceMaxSize - 1, last : -1 .. SourceMaxSize - 1,
     size : 0 .. SourceMaxSize]

received_repair_symbols_buffer_t ==
    [repair_symbols : [0 .. RepairMaxSize - 1 ->
                          RepairSymbols \cup {NoRepairSymbol}],
     nss : [0 .. RepairMaxSize - 1 -> 0 .. MaxNss],
     first : -1 .. RepairMaxSize - 1, last : -1 .. RepairMaxSize - 1,
     size : 0 .. RepairMaxSize]

-----------------------------------------------------------------------------
(* The ring of source symbols. *)

new_source_symbols_buffer ==
    [source_symbols |-> [i \in 0 .. SourceMaxSize - 1 |-> NULL],
     first |-> -1, last |-> -1, size |-> 0]

buffer_contains_source_symbol(b, id) ==
    /\ b.size # 0
    /\ b.source_symbols[id % SourceMaxSize] = id

\* The loop that looks for the new first symbol after the old one has been
\* replaced: the first i whose slot behind first is taken.
source_first_after_replacement(b) ==
    LET n_considered_symbols ==
            1 + (IF b.first < b.last THEN b.last - b.first
                 ELSE b.last + SourceMaxSize - b.first)
        taken == {i \in 0 .. n_considered_symbols - 2 :
                     b.source_symbols[(b.first + 1 + i) % SourceMaxSize] # NULL}
    IN  IF taken = {} THEN b.first ELSE SmallestOf(taken)

\* Fault: a symbol replaces whatever its slot holds, newer or not.
source_symbol_refused_only_if_held(b, id) ==
    buffer_contains_source_symbol(b, id)

\* The two early returns of add_source_symbol: the buffer holds the symbol,
\* or its slot holds a more recent one.
source_symbol_refused(b, id) ==
    \/ buffer_contains_source_symbol(b, id)
    \/ /\ b.source_symbols[id % SourceMaxSize] # NULL
       /\ b.source_symbols[id % SourceMaxSize] >= id

\* The symbol takes its slot; a slot that was empty counts.
source_symbol_stored(b, id) ==
    [b EXCEPT !.source_symbols[id % SourceMaxSize] = id,
              !.size = IF b.source_symbols[id % SourceMaxSize] = NULL
                       THEN @ + 1 ELSE @]

\* Fault: last is set by the first symbol only.
source_last_of_first_symbol(b, id) ==
    IF b.last < 0 THEN [b EXCEPT !.last = id % SourceMaxSize] ELSE b

\* last moves to the symbol when it is the newest.
source_last_moved(b, id) ==
    IF b.last < 0 \/ id > b.source_symbols[b.last]
    THEN [b EXCEPT !.last = id % SourceMaxSize] ELSE b

\* add_source_symbol: stores the symbol unless it is refused; the symbol
\* it replaces is returned.  The comparison with the first symbol reads
\* through source_symbols[first], which the search for a new first may
\* have left on an empty slot.
add_source_symbol(b, id) ==
    LET idx    == id % SourceMaxSize
        retval == b.source_symbols[idx]
        stored == source_last_moved(source_symbol_stored(b, id), id)
        done(buffer) == [buffer |-> buffer, retval |-> retval, fault |-> FALSE]
    IN  IF source_symbol_refused(b, id)
        THEN [buffer |-> b, retval |-> NULL, fault |-> FALSE]
        ELSE IF b.first >= 0 /\ stored.source_symbols[b.first] = NULL
        THEN [buffer |-> stored, retval |-> retval, fault |-> TRUE]
        ELSE IF b.first < 0 \/ id < stored.source_symbols[b.first]
        THEN done([stored EXCEPT !.first = idx])
        ELSE IF retval # NULL /\ idx = b.first /\ stored.size > 1
        THEN done([stored EXCEPT
                      !.first = source_first_after_replacement(stored)])
        ELSE done(stored)

\* NULL stands for the read through an empty slot.
get_first_source_symbol_id(b) == b.source_symbols[b.first]

get_last_source_symbol_id(b) == b.source_symbols[b.last]

\* get_source_symbols: the slots from first on, empty ones included, until
\* as many symbols as asked for (or as the buffer holds) have been met.
get_source_symbols(b, max_elements) ==
    LET wanted == IF b.size < max_elements THEN b.size ELSE max_elements
        slot(i) == b.source_symbols[(b.first + i) % SourceMaxSize]
        added(total) == Cardinality({i \in 0 .. total - 1 : slot(i) # NULL})
        total == SmallestOf({t \in 0 .. SourceMaxSize : added(t) >= wanted})
    IN  IF b.size = 0 THEN <<>> ELSE [i \in 1 .. total |-> slot(i - 1)]

\* get_source_symbols_between_bounds: the number of ids of the range that
\* the buffer holds, the range cut at max_elements.
get_source_symbols_between_bounds(b, max_elements, min_symbol, max_symbol) ==
    IF b.size = 0 THEN 0
    ELSE Cardinality({i \in min_symbol .. max_symbol :
                         /\ i - min_symbol < max_elements
                         /\ b.source_symbols[i % SourceMaxSize] = i})


-----------------------------------------------------------------------------
(* The ring of repair symbols. *)

new_repair_symbols_buffer ==
    [repair_symbols |-> [i \in 0 .. RepairMaxSize - 1 |-> NoRepairSymbol],
     nss |-> [i \in 0 .. RepairMaxSize - 1 |-> 0],
     first |-> -1, last |-> -1, size |-> 0]

\* 1 + the distance from first to last around the ring.
repair_symbols_considered(b) ==
    1 + (IF b.first <= b.last THEN b.last - b.first
         ELSE b.last + RepairMaxSize - b.first)

\* Fault: the index found is not taken modulo the size of the ring.
next_repair_symbol_without_wrap(b, from, n, none) ==
    LET taken == {i \in 0 .. n - 1 :
                     b.repair_symbols[(from + 1 + i) % RepairMaxSize]
                         # NoRepairSymbol}
    IN  IF taken = {} THEN none ELSE from + 1 + SmallestOf(taken)

\* The first taken slot among the n slots behind index from, or none.
next_repair_symbol(b, from, n, none) ==
    LET taken == {i \in 0 .. n - 1 :
                     b.repair_symbols[(from + 1 + i) % RepairMaxSize] # NoRepairSymbol}
    IN  IF taken = {} THEN none
        ELSE (from + 1 + SmallestOf(taken)) % RepairMaxSize

\* The search of add_repair_symbol for a new first symbol.
repair_first_after_replacement(b) ==
    LET n_considered_symbols ==
            IF b.first # -1 /\ b.last # -1 /\ b.first # b.last
            THEN repair_symbols_considered(b) ELSE RepairMaxSize - 1
    IN  next_repair_symbol(b, b.first, n_considered_symbols - 1, b.first)

\* add_repair_symbol: the symbol takes its slot whatever the slot holds.
add_repair_symbol(b, rs, nss) ==
    LET idx    == fss_index(rs.fec_scheme_specific)
        retval == b.repair_symbols[idx]
        stored == [b EXCEPT !.repair_symbols[idx] = rs,
                            !.nss[idx] = nss,
                            !.size = IF retval = NoRepairSymbol THEN @ + 1 ELSE @]
        lasted == IF b.last < 0
                     \/ fss_greater(rs.fec_scheme_specific,
                            stored.repair_symbols[b.last].fec_scheme_specific)
                  THEN [stored EXCEPT !.last = idx] ELSE stored
        done(buffer) == [buffer |-> buffer, retval |-> retval, fault |-> FALSE]
    IN  IF \/ b.last >= 0 /\ stored.repair_symbols[b.last] = NoRepairSymbol
           \/ b.first >= 0 /\ stored.repair_symbols[b.first] = NoRepairSymbol
        THEN [buffer |-> stored, retval |-> retval, fault |-> TRUE]
        ELSE IF b.first < 0
                \/ fss_greater(stored.repair_symbols[b.first].fec_scheme_specific,
                               rs.fec_scheme_specific)
        THEN done([lasted EXCEPT !.first = idx])
        ELSE IF retval # NoRepairSymbol /\ idx = b.first /\ RepairMaxSize > 1
        THEN done([lasted EXCEPT
                      !.first = repair_first_after_replacement(lasted)])
        ELSE done(lasted)

\* The slots between first and last whose symbol the pruning frees.
repair_symbols_to_remove(b, remove_under) ==
    LET n_considered_symbols ==
            IF b.first # -1 /\ b.last # -1
            THEN repair_symbols_considered(b) ELSE 0
    IN  {i \in 0 .. n_considered_symbols - 1 :
            LET idx == (b.first + i) % RepairMaxSize
            IN  /\ b.repair_symbols[idx] # NoRepairSymbol
                /\ b.repair_symbols[idx].fec_scheme_specific.slot + b.nss[idx]
                       >= remove_under}

\* Fault: first stays where it was when its symbol is freed.
remove_without_new_first(b, remove_under) ==
    LET removed == {(b.first + i) % RepairMaxSize :
                       i \in repair_symbols_to_remove(b, remove_under)}
    IN  [b EXCEPT
            !.repair_symbols =
                [idx \in DOMAIN @ |->
                    IF idx \in removed THEN NoRepairSymbol ELSE @[idx]],
            !.size = @ - Cardinality(removed),
            !.last = IF @ \in removed THEN -1 ELSE @]

\* remove_and_free_unused_repair_symbols: frees the symbols chosen, forgets
\* last when its symbol is freed, and moves first to the first symbol
\* behind the last one freed.
remove_and_free_unused_repair_symbols(b, remove_under) ==
    LET removed == {(b.first + i) % RepairMaxSize :
                       i \in repair_symbols_to_remove(b, remove_under)}
        last_removed ==
            (b.first + CHOOSE i \in repair_symbols_to_remove(b, remove_under) :
                           \A j \in repair_symbols_to_remove(b, remove_under) :
                               j <= i) % RepairMaxSize
        freed == [b EXCEPT
                     !.repair_symbols =
                         [idx \in DOMAIN @ |->
                             IF idx \in removed THEN NoRepairSymbol ELSE @[idx]],
                     !.size = @ - Cardinality(removed),
                     !.last = IF @ \in removed THEN -1 ELSE @]
    IN  IF removed = {} THEN b
        ELSE [freed EXCEPT
                 !.first = next_repair_symbol(freed, last_removed,
                                              RepairMaxSize, -1)]

\* get_repair_symbols: the symbols between first and last, at most
\* max_elems of them, and the range of source symbols they protect.
get_repair_symbols(b, max_elems) ==
    LET n_considered_symbols ==
            IF b.first # -1 /\ b.last # -1
            THEN repair_symbols_considered(b) ELSE 0
        held == SelectSeq([i \in 1 .. n_considered_symbols |->
                              b.repair_symbols[(b.first + i - 1) % RepairMaxSize]],
                          LAMBDA s : s # NoRepairSymbol)
        symbols == SubSeq(held, 1, IF Len(held) < max_elems THEN Len(held)
                                   ELSE max_elems)
        ends == {0} \cup {symbols[i].first_id + symbols[i].nss - 1 :
                             i \in 1 .. Len(symbols)}
    IN  IF b.size = 0
        THEN [added |-> 0, symbols |-> <<>>, fault |-> FALSE]
        ELSE IF b.first < 0 \/ b.repair_symbols[b.first] = NoRepairSymbol
        THEN [added |-> Len(symbols), symbols |-> symbols, fault |-> TRUE]
        ELSE [added |-> Len(symbols), symbols |-> symbols, fault |-> FALSE,
              smallest_protected |-> b.repair_symbols[b.first].first_id,
              highest_protected |->
                  CHOOSE e \in ends : \A f \in ends : f <= e]

-----------------------------------------------------------------------------
(* The receiver's calls. *)

Init ==
    /\ source = new_source_symbols_buffer
    /\ repair = new_repair_symbols_buffer
    /\ fault = FALSE
    /\ received_ids = {}

\* A source symbol arrives, in any order and possibly again.
ReceiveSourceSymbol(id) ==
    /\ ~fault
    /\ source' = add_source_symbol(source, id).buffer
    /\ fault' = add_source_symbol(source, id).fault
    /\ received_ids' = received_ids \cup {id}
    /\ UNCHANGED repair

\* A repair symbol arrives; the receiver passes the count it carries.
ReceiveRepairSymbol(rs) ==
    /\ ~fault
    /\ repair' = add_repair_symbol(repair, rs, rs.nss).buffer
    /\ fault' = add_repair_symbol(repair, rs, rs.nss).fault
    /\ UNCHANGED <<source, received_ids>>

\* The receiver prunes the repair symbols.
RemoveUnused(remove_under) ==
    /\ ~fault
    /\ repair' = remove_and_free_unused_repair_symbols(repair, remove_under)
    /\ UNCHANGED <<source, fault, received_ids>>

\* After a read through NULL the plugin is stopped.
Halted == fault /\ UNCHANGED vars

Next ==
    \/ \E id \in SourceIds : ReceiveSourceSymbol(id)
    \/ \E rs \in RepairSymbols : ReceiveRepairSymbol(rs)
    \/ \E remove_under \in 0 .. MaxSlot + MaxNss + 1 : RemoveUnused(remove_under)
    \/ Halted

Spec == Init /\ [][Next]_vars

-----------------------------------------------------------------------------
StoredSourceIds ==
    {source.source_symbols[i] : i \in DOMAIN source.source_symbols} \ {NULL}

StoredRepairSlots ==
    {i \in DOMAIN repair.repair_symbols : repair.repair_symbols[i] # NoRepairSymbol}

TypeOK ==
    /\ source \in received_source_symbols_buffer_t
    /\ repair \in received_repair_symbols_buffer_t
    /\ fault \in BOOLEAN
    /\ received_ids \subseteq SourceIds

\* get_last_source_symbol_id answers the largest id received and kept:
\* add_source_symbol moves last whenever a newer symbol is stored, also
\* when that symbol replaces the one last pointed at.
LastIsNewest ==
    source.size > 0 =>
        /\ get_last_source_symbol_id(source) \in StoredSourceIds
        /\ \A id \in StoredSourceIds : id <= get_last_source_symbol_id(source)

\* get_first_source_symbol_id answers the smallest id the buffer holds, and
\* get_source_symbols starts with it: what the comments of the two
\* functions promise of first after add_source_symbol.
FirstIsOldest ==
    source.size > 0 =>
        /\ get_first_source_symbol_id(source) \in StoredSourceIds
        /\ \A id \in StoredSourceIds : get_first_source_symbol_id(source) <= id
        /\ Head(get_source_symbols(source, 1))
               = get_first_source_symbol_id(source)

\* Of the ids that have arrived, the newest of every slot of the ring.
NewestOfEachSlot ==
    {id \in received_ids :
        \A other \in received_ids :
            other % SourceMaxSize = id % SourceMaxSize => other <= id}

\* Whatever the order of arrival and the repetitions, the source ring holds
\* of every slot the newest symbol that has arrived, size counts them, and
\* get_source_symbols hands over each of them once: its loop ends only
\* when it has met size symbols, and it starts at first, which
\* add_source_symbol may have left on another slot than the oldest one.
RingKeepsNewestOfEachSlot ==
    LET read == get_source_symbols(source, SourceMaxSize)
    IN  /\ StoredSourceIds = NewestOfEachSlot
        /\ source.size = Cardinality(StoredSourceIds)
        /\ Len(read) <= SourceMaxSize
        /\ {read[i] : i \in DOMAIN read} \ {NULL} = StoredSourceIds

\* A buffer of repair symbols that holds a symbol has first on a symbol,
\* and last on a symbol or on none: add_repair_symbol,
\* remove_and_free_unused_repair_symbols and get_repair_symbols read
\* through repair_symbols[first] and repair_symbols[last] without a test.
RepairEndsOnSymbols ==
    /\ repair.size > 0 => repair.first \in StoredRepairSlots
    /\ repair.size = 0 => repair.first = -1
    /\ repair.last \in StoredRepairSlots \cup {-1}
    /\ ~get_repair_symbols(repair, RepairMaxSize).fault

=============================================================================
