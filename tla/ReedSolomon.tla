---------------------------- MODULE ReedSolomon ----------------------------
(***************************************************************************)
(* The Reed-Solomon code over GF(65536) of the rs_gf65536 scheme: the      *)
(* cyclotomic Fourier transform of fft.h, the encoder of reed_solomon.h    *)
(* and the decoder of code_data.h, which takes the symbols of a code word  *)
(* one at a time and restores the erased source symbols as soon as no more *)
(* than r symbols are missing.                                             *)
(*                                                                         *)
(* A code word has k information (source) symbols and r repair symbols;    *)
(* symbol i lies at positions[i], an exponent of alpha.  The sender        *)
(* encodes one block; the receiver creates its code data from the source   *)
(* symbols it holds and is given further symbols of the code word in any   *)
(* order.                                                                  *)
(***************************************************************************)
EXTENDS CyclotomicCoset

CONSTANTS MaxK,         \* most source symbols of a block
          MaxR,         \* most repair symbols of a block
          Elements,     \* the values an element of a source symbol takes
          SymbolSize,   \* symbol_size, in bytes
          Allocations   \* how many allocations of a call may succeed

ASSUME /\ MaxK \in Nat \ {0} /\ MaxR \in Nat \ {0}
       /\ Elements \subseteq 0 .. GF_FIELD_SIZE - 1
       /\ SymbolSize \in Nat /\ SymbolSize % 2 = 0
       /\ Allocations \subseteq Nat

VARIABLES inf_symbols,   \* the source symbols of the block, 0 .. k - 1
          rep_symbols,   \* its repair symbols, 0 .. r - 1, zero until encoded
          encoded,       \* the return of rs_generate_repair_symbols, -1 before
          data,          \* the receiver's code_data_t, or NoCodeData
          recovered,     \* the symbols this code data has pushed on
                         \* recovered_source_symbols_arraylist
          out_of_memory  \* a call on this code data has failed for lack of memory

vars == <<inf_symbols, rep_symbols, encoded, data, recovered, out_of_memory>>

\* A code other than 0 and 1; picoquic.h, which defines it, is outside the plugin sources.
PICOQUIC_ERROR_MEMORY == 1028

Element == 0 .. GF_FIELD_SIZE - 1
SymbolElements == 1 .. SymbolSize \div 2
zero_symbol == [e \in SymbolElements |-> 0]

K == Cardinality(DOMAIN inf_symbols)
R == Cardinality(DOMAIN rep_symbols)

----------------------------------------------------------------------------
(* seq.h *)

\* seq_create: length symbols of zeros.
seq_create(length) == [i \in 0 .. length - 1 |-> zero_symbol]

\* seq_create_from_source_symbols: the data of the symbols that are there,
\* a symbol of zeros where source_symbols[i] is NULL.
seq_create_from_source_symbols(source_symbols, present) ==
    [i \in DOMAIN source_symbols |-> IF i \in present THEN source_symbols[i] ELSE zero_symbol]

----------------------------------------------------------------------------
(* fft.h *)

\* u[0 .. m - 1] of both transforms, repr[i] being the coefficients of the
\* power that goes with f[i] in the normal basis of GF(2^m): u[t] is the
\* sum of the f[i] whose repr has the bit t.
sums_by_bit(f, m, repr) ==
    evaluated([t \in 0 .. m - 1 |->
        gf_add_all(zero_symbol, [i \in {i \in DOMAIN f : bit(repr[i], t) = 1} |-> f[i]])])

subfield_sums(f, m, exponent(_)) ==
    sums_by_bit(f, m, evaluated([i \in DOMAIN f |-> gf_get_normal_repr(m, exponent(i))]))

\* The component for the j-th element of a coset of size m.
coset_component(u, m, j) ==
    gf_add_all(zero_symbol,
               [t \in 0 .. m - 1 |-> gf_mul(u[t], gf_get_normal_basis_element(m, (j + t) % m))])

\* What one turn of the loop of fft_transform_cycl writes: the components
\* at the elements of the coset of s that are below length.
components_below(s, m, u, length) ==
    [x \in {x \in 0 .. length - 1 : \E j \in 0 .. m - 1 : shifted(s, j) = x} |->
        coset_component(u, m, CHOOSE j \in 0 .. m - 1 : shifted(s, j) = x)]

coset_components(s, m, f, positions, length) ==
    components_below(s, m, subfield_sums(f, m, LAMBDA i : (s * positions[i]) % N), length)

\* The loop of fft_transform_cycl from s on; the domain of res is what
\* calculated[] marks.
RECURSIVE transform_from(_, _, _, _, _)
transform_from(s, f, positions, length, res) ==
    IF s = length THEN res
    ELSE IF s \in DOMAIN res THEN transform_from(s + 1, f, positions, length, res)
    ELSE transform_from(s + 1, f, positions, length,
                        coset_components(s, cc_get_coset_size(s), f, positions, length) @@ res)

\* fft_transform_cycl: res becomes the first components of the Fourier
\* transform of the sequence whose coefficient at positions[i] is f[i], and
\* is left as it was when calculated or u cannot be allocated.
fft_transform_cycl(f, positions, res, alloc_ok) ==
    IF alloc_ok
    THEN [ret |-> 0, res |-> transform_from(0, f, positions, Cardinality(DOMAIN res), <<>>)]
    ELSE [ret |-> 1, res |-> res]

\* The components of the transform of f (coefficient i at i) at the
\* negatives of the elements of one coset.
components_at(u, m) == [j \in 1 .. m |-> coset_component(u, m, j - 1)]

partial_transform(f, coset) ==
    components_at(subfield_sums(f, coset.size, LAMBDA i : ((N - coset.leader) * i) % N),
                  coset.size)

\* A sequence as an array indexed from 0.
from_zero(seq) == [i \in 0 .. Len(seq) - 1 |-> seq[i + 1]]

\* fft_partial_transform_cycl: one coset after the other.
fft_partial_transform_cycl(f, cosets, res, alloc_ok) ==
    IF alloc_ok
    THEN [ret |-> 0,
          res |-> from_zero(FlattenSeq([c \in DOMAIN cosets |-> partial_transform(f, cosets[c])]))]
    ELSE [ret |-> 1, res |-> res]

----------------------------------------------------------------------------
(* reed_solomon.h *)

\* _rs_get_syndrome_poly: the first components of the transform of seq.
rs_get_syndrome_poly(seq, positions, syndrome_poly, alloc_ok) ==
    fft_transform_cycl(seq, positions, syndrome_poly, alloc_ok)

\* One turn of the loop of _rs_get_locator_poly: the polynomial of degree
\* d - 1 times (1 + coef * x).
times_linear(locator_poly, d, coef) ==
    evaluated([i \in 0 .. d |->
        xor(IF i < d THEN locator_poly[i] ELSE 0,
            IF i > 0 THEN gf_mul_ee(locator_poly[i - 1], coef) ELSE 0)])

\* _rs_get_locator_poly after the first d positions: the product of the
\* (1 + alpha^position * x).
RECURSIVE locator_from(_, _)
locator_from(d, positions) ==
    IF d = 0 THEN (0 :> 1)
    ELSE times_linear(locator_from(d - 1, positions), d, pow_table(positions[d - 1]))

rs_get_locator_poly(positions, positions_cnt) == locator_from(positions_cnt, positions)

\* One turn of the loop of _rs_get_rep_symbols_locator_poly: the locator
\* of a coset is multiplied in wherever the coefficient of the polynomial
\* so far is 1.
times_coset_locator(so_far, r, size, coset_locator_poly) ==
    [d |-> so_far.d + size,
     poly |-> evaluated([i \in 0 .. r |->
                  xor(so_far.poly[i],
                      xor_all([j \in {j \in 1 .. size : /\ i - j \in 0 .. so_far.d
                                                         /\ so_far.poly[i - j] = 1} |->
                                  coset_locator_poly[j]]))])]

\* _rs_get_rep_symbols_locator_poly after the first n cosets: [d, poly].
RECURSIVE rep_locator_from(_, _, _)
rep_locator_from(n, r, rep_cosets) ==
    IF n = 0 THEN [d |-> 0, poly |-> [i \in 0 .. r |-> IF i = 0 THEN 1 ELSE 0]]
    ELSE times_coset_locator(
             rep_locator_from(n - 1, r, rep_cosets), r, rep_cosets[n].size,
             rs_get_locator_poly([i \in 0 .. rep_cosets[n].size - 1 |->
                                     shifted(rep_cosets[n].leader, i)],
                                 rep_cosets[n].size))

rs_get_rep_symbols_locator_poly(r, rep_cosets, alloc_ok) ==
    IF alloc_ok THEN [ret |-> 0, poly |-> rep_locator_from(Len(rep_cosets), r, rep_cosets).poly]
    ELSE [ret |-> PICOQUIC_ERROR_MEMORY, poly |-> <<>>]

\* The derivative of the locator at alpha^-pos, from the powers of x whose
\* exponent has the given parity.
derivative(locator_poly, d, pos, parity) ==
    xor_all([j \in {j \in 0 .. d - 1 : j % 2 = parity} |->
                gf_mul_ee(pow_table((j * (N - pos)) % N), locator_poly[j + 1])])

\* Fault: the divisor of the Forney coefficient skips the odd powers of x.
rs_get_forney_coef_odd(locator_poly, d, pos) ==
    gf_div_ee(pow_table(pos), derivative(locator_poly, d, pos, 1))

\* _rs_get_forney_coef: alpha^pos over the derivative of the locator at
\* alpha^-pos.
rs_get_forney_coef(locator_poly, d, pos) ==
    gf_div_ee(pow_table(pos), derivative(locator_poly, d, pos, 0))

\* _rs_get_evaluator_poly: syndrome * locator modulo x^r.
rs_get_evaluator_poly(syndrome_poly, locator_poly) ==
    evaluated([n \in DOMAIN syndrome_poly |->
        gf_add_all(zero_symbol,
                   [i \in 0 .. n |-> gf_mul(syndrome_poly[n - i], locator_poly[i])])])

\* The second half of _rs_get_repair_symbols: each component times its
\* Forney coefficient.
times_forney_coef(fft, locator_poly, r, rep_positions) ==
    IF fft.ret # 0 THEN fft
    ELSE [ret |-> 0,
          res |-> [i \in DOMAIN fft.res |->
                      gf_mul(fft.res[i], rs_get_forney_coef(locator_poly, r, rep_positions[i]))]]

\* _rs_get_repair_symbols: the transform of the evaluator at the repair
\* positions, each component times its Forney coefficient.
rs_get_repair_symbols(locator_poly, evaluator_poly, rep_positions, rep_cosets, rep, alloc_ok) ==
    times_forney_coef(fft_partial_transform_cycl(evaluator_poly, rep_cosets, rep, alloc_ok),
                      locator_poly, Cardinality(DOMAIN rep), rep_positions)

\* The positions of the cosets chosen for a code word.
positions_of(cosets, k, r) ==
    [inf_positions |-> cc_cosets_to_positions(cosets.inf_cosets, k),
     rep_positions |-> cc_cosets_to_positions(cosets.rep_cosets, r),
     rep_cosets |-> cosets.rep_cosets]

selected_cosets(k, r, max) == cc_select_cosets(k, r, max.inf_max_cnt, max.rep_max_cnt)

\* The positions of a code word of k + r symbols, source symbols first, as
\* rs_generate_repair_symbols and _code_data_init compute them.
code_positions(k, r) == positions_of(selected_cosets(k, r, cc_estimate_cosets_cnt(k, r)), k, r)

\* The positions of every code word of the model, computed once.
CodePositions ==
    evaluated([k \in 1 .. MaxK |-> evaluated([r \in 1 .. MaxR |-> code_positions(k, r)])])

\* At every position of these code words the table of powers holds the
\* power of alpha that repeated squaring gives.
ASSUME \A k \in 1 .. MaxK, r \in 1 .. MaxR :
           \A p \in Range(CodePositions[k][r].inf_positions)
                       \cup Range(CodePositions[k][r].rep_positions) :
               pow_table(p) = power(2, p)

\* The steps of rs_generate_repair_symbols that allocate, in their order.
EncodingSteps == <<"etd", "syndrome", "locator", "repair">>
Failures == Range(EncodingSteps) \cup {"none"}

\* rs_generate_repair_symbols from the locator on.
encoded_with_locator(locator, syndrome_poly, etd, rep, failed) ==
    IF locator.ret # 0 THEN [ret |-> locator.ret, res |-> rep]
    ELSE rs_get_repair_symbols(locator.poly, rs_get_evaluator_poly(syndrome_poly, locator.poly),
                               etd.rep_positions, etd.rep_cosets, rep, failed # "repair")

\* rs_generate_repair_symbols from the syndrome on.
encoded_with_syndrome(syndrome, etd, rep, failed) ==
    IF syndrome.ret # 0 THEN [ret |-> syndrome.ret, res |-> rep]
    ELSE encoded_with_locator(
             rs_get_rep_symbols_locator_poly(Cardinality(DOMAIN rep), etd.rep_cosets,
                                             failed # "locator"),
             syndrome.res, etd, rep, failed)

\* rs_generate_repair_symbols once etd holds the positions.
encoded_at(etd, inf, rep, failed) ==
    encoded_with_syndrome(
        rs_get_syndrome_poly(inf, etd.inf_positions, seq_create(Cardinality(DOMAIN rep)),
                             failed # "syndrome"),
        etd, rep, failed)

\* rs_generate_repair_symbols, `failed' being the step whose allocation
\* fails: [ret, res], res the repair symbols after the call.
rs_generate_repair_symbols(inf, rep, failed) ==
    IF failed = "etd" THEN [ret |-> PICOQUIC_ERROR_MEMORY, res |-> rep]
    ELSE encoded_at(CodePositions[Cardinality(DOMAIN inf)][Cardinality(DOMAIN rep)],
                    inf, rep, failed)

----------------------------------------------------------------------------
(* code_data.h *)

NoCodeData == [k |-> 0]

\* The symbols of the code word in the order of their positions: the
\* source symbols, then the repair symbols.
code_word(i) == IF i < K THEN inf_symbols[i] ELSE rep_symbols[i - K]

\* data->positions: the positions of the source symbols, then those of the
\* repair symbols.
all_positions(code, k, r) ==
    [i \in 0 .. k + r - 1 |->
        IF i < k THEN code.inf_positions[i] ELSE code.rep_positions[i - k]]

\* _code_data_init: every symbol is erased but the source symbols of
\* `present'; the syndrome is the transform of these.
code_data_init(k, r, positions, seq, present) ==
    [k |-> k, r |-> r, t |-> k + r - Cardinality(present),
     positions |-> positions,
     is_erased |-> [i \in 0 .. k + r - 1 |-> i \notin present],
     poly |-> fft_transform_cycl(seq, positions, seq_create(r), TRUE).res]

\* code_data_create: NoCodeData (NULL) when one of its allocations fails.
code_data_create(k, r, source_symbols, present, alloc_ok) ==
    IF ~alloc_ok THEN NoCodeData
    ELSE code_data_init(k, r, all_positions(CodePositions[k][r], k, r),
                        seq_create_from_source_symbols(source_symbols, present), present)

\* The indices of the erased symbols, and of the erased source symbols.
erased(d) == {i \in DOMAIN d.is_erased : d.is_erased[i]}

\* Fault: the restoring loop runs over the repair symbols as well.
lost_with_repair_symbols(d) == erased(d)

lost(d) == {i \in 0 .. d.k - 1 : d.is_erased[i]}

\* erased_positions of _code_data_try_to_recover: the positions of the
\* erased symbols, in the order of their indices.
erased_positions(d) ==
    [idx \in 0 .. d.t - 1 |->
        d.positions[CHOOSE i \in erased(d) : Cardinality({x \in erased(d) : x < i}) = idx]]

\* One turn of the loop that makes the evaluator out of the syndrome in
\* its own memory.
evaluator_step(i, poly, locator_poly, t) ==
    evaluated([n \in DOMAIN poly |->
        IF n = i THEN gf_mul(poly[i], locator_poly[0])
        ELSE IF n - i \in 1 .. t - i - 1 THEN gf_madd(poly[n], locator_poly[n - i], poly[i])
        ELSE poly[n]])

\* Fault: the loop taken from index 0 upwards; the turn for i reads what
\* the turns before it have added to symbols[i].
RECURSIVE evaluator_upwards(_, _, _, _)
evaluator_upwards(i, poly, locator_poly, t) ==
    IF i < 0 THEN poly
    ELSE evaluator_step(i, evaluator_upwards(i - 1, poly, locator_poly, t), locator_poly, t)

\* The loop of _code_data_try_to_recover from index i down to 0.
RECURSIVE evaluator_from(_, _, _, _)
evaluator_from(i, poly, locator_poly, t) ==
    IF i < 0 THEN poly
    ELSE evaluator_from(i - 1, evaluator_step(i, poly, locator_poly, t), locator_poly, t)

\* The evaluator at alpha^-pos times the Forney coefficient.
forney_sum(evaluator, t, pos, forney_coef) ==
    gf_add_all(zero_symbol,
               [i \in 0 .. t - 1 |->
                   gf_mul(evaluator[i], gf_mul_ee(forney_coef, pow_table((i * (N - pos)) % N)))])

\* The source symbol at pos_idx as the Forney algorithm restores it.
restored_symbol(d, locator_poly, evaluator, pos_idx) ==
    forney_sum(evaluator, d.t, d.positions[pos_idx],
               rs_get_forney_coef(locator_poly, d.t, d.positions[pos_idx]))

\* The restoring loop of _code_data_try_to_recover with `made' source
\* symbols allocated before an allocation fails.
restored(d, locator_poly, evaluator, made) ==
    [ret |-> IF made >= Cardinality(lost(d)) THEN 0 ELSE PICOQUIC_ERROR_MEMORY,
     data |-> [d EXCEPT !.poly = evaluator],
     pushed |-> {[id |-> i, data |-> restored_symbol(d, locator_poly, evaluator, i)] :
                    i \in {i \in lost(d) : Cardinality({x \in lost(d) : x < i}) < made}}]

recovered_with(d, locator_poly, made) ==
    restored(d, locator_poly, evaluator_from(d.t - 1, d.poly, locator_poly, d.t), made)

\* _code_data_try_to_recover, `allocs' of its allocations succeeding:
\* [ret, data, pushed], pushed being the source symbols it has put on the
\* list of recovered symbols.
code_data_try_to_recover(d, allocs) ==
    IF d.t > d.r THEN [ret |-> 1, data |-> d, pushed |-> {}]
    ELSE IF allocs < 2 THEN [ret |-> PICOQUIC_ERROR_MEMORY, data |-> d, pushed |-> {}]
    ELSE recovered_with(d, rs_get_locator_poly(erased_positions(d), d.t), allocs - 2)

\* The syndrome after symbol_data has been added at the position `at'.
syndrome_with(poly, at, symbol_data) ==
    evaluated([j \in DOMAIN poly |-> gf_madd(poly[j], pow_table((at * j) % N), symbol_data)])

\* Fault: the symbol is added to syndrome[j] with the power of j alone.
code_data_add_symbol_no_position(d, i, symbol_data, allocs) ==
    IF d.t <= d.r \/ ~d.is_erased[i] THEN [ret |-> 0, data |-> d, pushed |-> {}]
    ELSE code_data_try_to_recover(
             [d EXCEPT !.is_erased[i] = FALSE, !.t = @ - 1,
                       !.poly = syndrome_with(@, 1, symbol_data)],
             allocs)

\* code_data_add_symbol_and_try_to_recover.
code_data_add_symbol_and_try_to_recover(d, i, symbol_data, allocs) ==
    IF d.t <= d.r \/ ~d.is_erased[i] THEN [ret |-> 0, data |-> d, pushed |-> {}]
    ELSE code_data_try_to_recover(
             [d EXCEPT !.is_erased[i] = FALSE, !.t = @ - 1,
                       !.poly = syndrome_with(@, d.positions[i], symbol_data)],
             allocs)

----------------------------------------------------------------------------
(* One block: the sender encodes it, the receiver decodes it. *)

Symbol == [SymbolElements -> Element]

Init ==
    /\ inf_symbols \in UNION {[0 .. k - 1 -> [SymbolElements -> Elements]] : k \in 1 .. MaxK}
    /\ rep_symbols \in {seq_create(r) : r \in 1 .. MaxR}
    /\ encoded = -1
    /\ data = NoCodeData
    /\ recovered = {}
    /\ out_of_memory = FALSE

\* What a call of rs_generate_repair_symbols leaves.
Generated(done) ==
    /\ encoded' = done.ret
    /\ rep_symbols' = done.res
    /\ UNCHANGED <<inf_symbols, data, recovered, out_of_memory>>

\* The sender encodes the block, again after a call that has failed.
Generate(failed) ==
    /\ encoded # 0
    /\ Generated(rs_generate_repair_symbols(inf_symbols, rep_symbols, failed))

\* The receiver learns k and r from a repair symbol and creates the code
\* data from the source symbols it holds; it does so only when it lacks
\* one of them.
Create(present, alloc_ok) ==
    /\ encoded = 0
    /\ present # 0 .. K - 1
    /\ data = NoCodeData
    /\ data' = code_data_create(K, R, inf_symbols, present, alloc_ok)
    /\ recovered' = {}
    /\ out_of_memory' = ~alloc_ok
    /\ UNCHANGED <<inf_symbols, rep_symbols, encoded>>

\* What a call of code_data_add_symbol_and_try_to_recover leaves.
Added(done) ==
    /\ data' = done.data
    /\ recovered' = recovered \cup done.pushed
    /\ out_of_memory' = (out_of_memory \/ done.ret = PICOQUIC_ERROR_MEMORY)
    /\ UNCHANGED <<inf_symbols, rep_symbols, encoded>>

\* A symbol of the code word arrives, whether it has arrived before or not.
AddSymbol(i, allocs) ==
    /\ data # NoCodeData
    /\ Added(code_data_add_symbol_and_try_to_recover(data, i, code_word(i), allocs))

\* code_data_destroy.
Destroy ==
    /\ data # NoCodeData
    /\ data' = NoCodeData
    /\ UNCHANGED <<inf_symbols, rep_symbols, encoded, recovered, out_of_memory>>

Next ==
    \/ \E failed \in Failures : Generate(failed)
    \/ \E present \in SUBSET (0 .. K - 1), alloc_ok \in BOOLEAN : Create(present, alloc_ok)
    \/ \E i \in 0 .. K + R - 1, allocs \in Allocations : AddSymbol(i, allocs)
    \/ Destroy

Spec == Init /\ [][Next]_vars

----------------------------------------------------------------------------
(* Properties *)

\* The variables have the values of their C types: symbols are sequences
\* of 16-bit elements, t counts symbols of the code word.
TypeOK ==
    /\ inf_symbols \in [0 .. K - 1 -> Symbol]
    /\ rep_symbols \in [0 .. R - 1 -> Symbol]
    /\ encoded \in {-1, 0, 1, PICOQUIC_ERROR_MEMORY}
    /\ out_of_memory \in BOOLEAN
    /\ \A s \in recovered : s.id \in 0 .. K - 1 /\ s.data \in Symbol
    /\ data # NoCodeData =>
           /\ data.k = K /\ data.r = R /\ data.t \in 0 .. K + R
           /\ data.positions \in [0 .. K + R - 1 -> 0 .. N - 1]
           /\ data.is_erased \in [0 .. K + R - 1 -> BOOLEAN]
           /\ data.poly \in [0 .. R - 1 -> Symbol]

\* The component j of the Fourier transform of the symbols at `indices',
\* straight from its definition: the sum of symbol i times
\* alpha^(j * position of i).
component(symbols(_), positions, indices, j) ==
    gf_add_all(zero_symbol,
               [i \in indices |-> gf_mul(symbols(i), power(pow_table(positions[i]), j))])

word_positions == all_positions(CodePositions[K][R], K, R)

\* What rs_generate_repair_symbols returns with 0 is a code word: the
\* source and repair symbols together have the first r components of
\* their Fourier transform zero, and no two symbols share a position.  The
\* decoder restores erasures on no other ground.
CodeWordHasZeroSyndrome ==
    encoded = 0 =>
        /\ \A j \in 0 .. R - 1 :
               component(code_word, word_positions, 0 .. K + R - 1, j) = zero_symbol
        /\ \A i, j \in 0 .. K + R - 1 : i # j => word_positions[i] # word_positions[j]

\* Until the code data turns its syndrome into the evaluator (t is above r
\* until then), the syndrome is the transform of exactly the symbols that
\* are not marked erased: code_data_create and every
\* code_data_add_symbol_and_try_to_recover keep is_erased, t and the
\* syndrome in step, in whatever order the symbols arrive and however
\* often one arrives again.
SyndromeOfReceived ==
    (data # NoCodeData /\ data.t > data.r) =>
        LET received == {i \in 0 .. K + R - 1 : ~data.is_erased[i]}
        IN  /\ data.t = K + R - Cardinality(received)
            /\ \A j \in 0 .. R - 1 :
                   data.poly[j] = component(code_word, data.positions, received, j)

\* Every source symbol _code_data_try_to_recover puts on the list of
\* recovered symbols is the symbol the sender encoded, and once no more
\* than r symbols of the code word are missing every source symbol that
\* has not arrived is on the list, unless an allocation has failed.
DecodingRestoresSent ==
    /\ \A s \in recovered : s.data = inf_symbols[s.id]
    /\ (data # NoCodeData /\ data.t <= data.r /\ ~out_of_memory) =>
           \A i \in 0 .. K - 1 : data.is_erased[i] => \E s \in recovered : s.id = i
=============================================================================
