----------------------------- MODULE RlcScheme -----------------------------
(***************************************************************************)
(* The random linear code over GF(256) of                                  *)
(* simple_fec/window_framework/fec_schemes/rlc_gf256/protoops/             *)
(* rlc_fec_scheme_get_one_coded_symbol_gf256.c: one repair symbol is the   *)
(* sum of the source symbols of a block, each scaled by a coefficient that *)
(* a generator seeded with the slot number hands out.                      *)
(*                                                                         *)
(* The generator (tinymt32.c), the field (the table table_mul) and         *)
(* symbol_add_scaled (swif_symbol.c) are not in the sources.  The field is *)
(* GF(2)[x] modulo x^8 + x^4 + x^3 + x^2 + 1; the generator is a table of  *)
(* the configuration.  What is checked of the code holds for any field and *)
(* any generator.                                                          *)
(***************************************************************************)
EXTENDS Integers, Sequences, FiniteSets, FiniteSetsExt, SequencesExt

CONSTANTS
    PrngOutputs     \* the 32-bit words the generator hands out

ASSUME /\ PrngOutputs \subseteq Nat
       /\ PrngOutputs # {}

UINT8 == 256

\* x^8 = x^4 + x^3 + x^2 + 1 in the field.
GF256_REDUCTION == {0, 2, 3, 4}

----------------------------------------------------------------------------
(* The collaborators. *)

\* A byte as the set of the positions of its one-bits, and back.
bits(v) == {i \in 0 .. 7 : (v \div 2^i) % 2 = 1}
byte(S) ==
    LET b(i) == IF i \in S THEN 2^i ELSE 0
    IN  ((b(0) + b(1)) + (b(2) + b(3))) + ((b(4) + b(5)) + (b(6) + b(7)))

\* a ^ b of C on bytes.
xor(a, b) == byte(SymDiff(bits(a), bits(b)))

\* A polynomial times x, reduced.
times_x(A) ==
    LET shifted == {i + 1 : i \in A}
    IN  IF 8 \in shifted THEN SymDiff(shifted \ {8}, GF256_REDUCTION)
        ELSE shifted

\* x^k in the field, for the degrees a product of two bytes has.
RECURSIVE power_of_x(_)
power_of_x(k) == IF k < 8 THEN {k} ELSE times_x(power_of_x(k - 1))

\* The product of the polynomials A and B: bit t of it is the parity of
\* the pairs of terms whose product has x^t.
product(A, B) ==
    {t \in 0 .. 7 :
        Cardinality({p \in A \X B : t \in power_of_x(p[1] + p[2])}) % 2 = 1}

\* mul[a][b] of the table of the field.
gf256_mul(a, b) ==
    IF a = 0 \/ b = 0 THEN 0 ELSE byte(product(bits(a), bits(b)))

\* to[i] ^= coef * from[i] on the first `length' bytes.
symbol_add_scaled(to, coef, from, length) ==
    [i \in 1 .. length |-> xor(to[i], gf256_mul(coef, from[i]))]

\* The i-th word after tinymt32_init(seed): the generator is deterministic,
\* and the table stands for it.
tinymt32_generate_uint32(seed, i) ==
    LET stream == SetToSortSeq(PrngOutputs, <)
    IN  stream[((seed + i) % Len(stream)) + 1]

----------------------------------------------------------------------------
(* The scheme. *)

\* Fault: the coefficients are used as they are generated.
coefs_as_generated(seed, n) ==
    [i \in 0 .. n - 1 |-> tinymt32_generate_uint32(seed, i) % UINT8]

\* The n coefficients of the seed: the low byte of each word, and 1 where
\* that byte is 0.
get_coefs(seed, n) ==
    [i \in 0 .. n - 1 |->
        LET coef == tinymt32_generate_uint32(seed, i) % UINT8
        IN  IF coef = 0 THEN 1 ELSE coef]

\* The longest payload of the block.
max_length(fec_block) ==
    Max({0} \cup {Len(fec_block.source_symbols[i].data) :
                     i \in 1 .. fec_block.total_source_symbols})

\* knowns[i]: the payload in a buffer of max_length zero bytes.
known(source_symbol, length) ==
    [i \in 1 .. length |-> IF i <= Len(source_symbol.data)
                           THEN source_symbol.data[i] ELSE 0]

\* rs->data after the first j source symbols were added.
RECURSIVE combined(_, _, _, _)
combined(fec_block, coefs, length, j) ==
    IF j = 0 THEN [i \in 1 .. length |-> 0]
    ELSE symbol_add_scaled(combined(fec_block, coefs, length, j - 1),
                           coefs[j - 1],
                           known(fec_block.source_symbols[j], length),
                           length)

\* The protocol operation: it refuses a block that is empty or not full,
\* and otherwise leaves one repair symbol in the block.
get_one_coded_symbol(fec_block, seed) ==
    IF \/ fec_block.total_source_symbols < 1
       \/ fec_block.current_source_symbols # fec_block.total_source_symbols
    THEN [ret |-> 1, fec_block |-> fec_block]
    ELSE LET length == max_length(fec_block)
             coefs  == get_coefs(seed, fec_block.total_source_symbols)
             rs == [fec_block_number    |-> fec_block.fec_block_number,
                    symbol_number       |-> 0,
                    fec_scheme_specific |-> seed,
                    data |-> combined(fec_block, coefs, length,
                                      fec_block.total_source_symbols)]
         IN  [ret |-> 0,
              fec_block |-> [fec_block EXCEPT !.repair_symbols = <<rs>>,
                                              !.total_repair_symbols = 1]]

----------------------------------------------------------------------------
(* The receiver's side, as a reference for the properties. *)

\* What is left of the repair payload `data' of the seed when a receiver
\* that holds every protected symbol but the one at position `missing'
\* (from 1) regenerates the coefficients and takes the symbols it holds out
\* of the sum.
Residual(data, seed, source_symbols, missing) ==
    LET n      == Len(source_symbols)
        held   == [source_symbols EXCEPT ![missing].data = <<>>]
        others == combined([source_symbols |-> held], get_coefs(seed, n),
                           Len(data), n)
    IN  [i \in 1 .. Len(data) |-> xor(data[i], others[i])]

\* The residual is the missing symbol times its coefficient, and the
\* coefficient can be divided by: the receiver has the symbol.
Restores(data, seed, source_symbols, missing) ==
    LET coef == get_coefs(seed, Len(source_symbols))[missing - 1]
        zero == [i \in 1 .. Len(data) |-> 0]
    IN  /\ coef # 0
        /\ Residual(data, seed, source_symbols, missing)
             = symbol_add_scaled(zero, coef,
                                 known(source_symbols[missing], Len(data)),
                                 Len(data))

=============================================================================
