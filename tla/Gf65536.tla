------------------------------ MODULE Gf65536 ------------------------------
(***************************************************************************)
(* The Galois field of 65536 elements of gf65536.h: the field of           *)
(* polynomials over GF(2) modulo x^16 + x^5 + x^3 + x^2 + 1, an element    *)
(* being the 16-bit word of its coefficients.  The code multiplies through *)
(* two tables, pow_table (the powers of the primitive element alpha = x)   *)
(* and log_table (its inverse); the model computes the same products and   *)
(* powers from the step that fills pow_table.                              *)
(***************************************************************************)
EXTENDS Integers, Sequences, FiniteSets, FiniteSetsExt, TLC

N == 65535
GF_FIELD_SIZE == 65536
GF_PRIMITIVE_POLY == 65581
CC_MAX_COSET_SIZE == 16
CosetSizes == {1, 2, 4, 8, 16}

----------------------------------------------------------------------------
(* Words as sets of bit positions. *)

bit(v, i) == (v \div 2^i) % 2
ones(v, width) == {i \in 0 .. width - 1 : bit(v, i) = 1}
word(S) ==
    LET b(i) == IF i \in S THEN 2^i ELSE 0
        nibble(n) == (b(4 * n) + b(4 * n + 1)) + (b(4 * n + 2) + b(4 * n + 3))
    IN  IF S = {} THEN 0
        ELSE ((nibble(0) + nibble(1)) + (nibble(2) + nibble(3))) + b(16)
odd(n) == n % 2 = 1

\* f itself.  TLC computes a value of a function every time the function
\* is applied; it computes all the values of evaluated(f) once.
evaluated(f) == f @@ <<>>

\* a ^ b of C, on words of up to 17 bits.
xor(a, b) ==
    IF a = b THEN 0
    ELSE LET A == ones(a, 17)
             B == ones(b, 17)
         IN  word((A \ B) \cup (B \ A))

\* The exclusive or of all the values of a function (or sequence) of words.
xor_all(f) ==
    word({t \in 0 .. 15 : odd(Cardinality({i \in DOMAIN f : bit(f[i], t) = 1}))})

----------------------------------------------------------------------------
(* gf_create: the table of powers. *)

\* One step of the loop that fills pow_table: cur_poly <<= 1, reduced by
\* the primitive polynomial when bit 16 is set.
times_alpha(cur_poly) ==
    IF bit(2 * cur_poly, 16) = 1 THEN xor(2 * cur_poly, GF_PRIMITIVE_POLY)
    ELSE 2 * cur_poly

\* The loop that fills pow_table, n more steps after the powers of `filled'.
RECURSIVE powers_from(_, _)
powers_from(filled, n) ==
    LET more == Append(filled, times_alpha(filled[Len(filled)]))
    IN  IF n = 0 THEN filled
        ELSE IF Len(more) = 0 THEN more ELSE powers_from(more, n - 1)

\* alpha^0 .. alpha^30, enough to reduce the product of two polynomials of
\* degree 15: alpha^i is x^i below 16, and the loop goes on from alpha^15.
high_powers == powers_from(<<2^15>>, 15)
low_powers == [i \in 0 .. 30 |-> IF i < 16 THEN 2^i ELSE high_powers[i - 14]]
LowPowerBits == evaluated([i \in 0 .. 30 |-> ones(low_powers[i], 16)])

\* The product of two field elements: the polynomials are multiplied over
\* GF(2) and x^n is replaced by alpha^n.
product(a, b) ==
    IF a = 0 \/ b = 0 THEN 0
    ELSE LET A == ones(a, 16)
             B == ones(b, 16)
             C == {n \in 0 .. 30 : odd(Cardinality({i \in A : n - i \in B}))}
         IN  word({t \in 0 .. 15 : odd(Cardinality({n \in C : t \in LowPowerBits[n]}))})

\* e^d by repeated squaring.  The test h = 0 is never true for e # 0: it
\* makes TLC evaluate h before it descends.
RECURSIVE power(_, _)
power(e, d) ==
    IF d = 0 THEN 1
    ELSE LET h == power(e, d \div 2)
         IN  IF h = 0 THEN 0
             ELSE LET s == product(h, h)
                  IN  IF odd(d) THEN product(s, e) ELSE s

\* alpha^(16^n * j): where the loop is after 16^n * j steps.
step_powers == evaluated([n \in 1 .. 3 |-> evaluated([j \in 0 .. 15 |-> power(2, 16^n * j)])])

\* alpha^(16 * c), c written with three digits to the base 16.
row_start(steps, c) ==
    product(product(steps[3][c \div 256], steps[2][(c \div 16) % 16]), steps[1][c % 16])

rows_from(steps) == evaluated([c \in 0 .. 4095 |-> powers_from(<<row_start(steps, c)>>, 15)])

\* The table in 4096 rows of 16 powers, row c from alpha^(16 * c) on.
PowRows == rows_from(step_powers)

\* gf->pow_table[i], 0 <= i <= 2 * N - 2: pow_table[i] = alpha^i for i < N
\* and pow_table[i] = pow_table[i - N] above.
pow_table(i) == PowRows[(i % N) \div 16][((i % N) % 16) + 1]

----------------------------------------------------------------------------
(* gf_create: the normal bases of the subfields and the table of the       *)
(* coefficients in them.                                                   *)

\* _gf_fill_normal_bases: the bases of GF(2), GF(4), GF(16), GF(256) and
\* GF(65536), one after the other; the basis of GF(2^m) starts at m - 1.
normal_bases ==
    <<1,
      44234, 44235,
      10800, 47860, 34555, 5694,
      16402, 53598, 44348, 63986, 22060, 64366, 6088, 32521,
      2048, 2880, 7129, 30616, 2643, 6897, 29685, 7378,
      30100, 2743, 20193, 36223, 24055, 41458, 41014, 61451>>

gf_get_normal_basis_element(m, i) == normal_bases[(m - 1) + i + 1]

\* The element gf_create builds for a representation: the sum of the basis
\* elements whose bit is set in repr.
normal_combination(m, repr) ==
    xor_all([j \in ones(repr, m) |-> gf_get_normal_basis_element(m, j)])

\* The highest bit of a word other than 0.
top(vec) == Max(ones(vec, 16))

\* The pair [vec, rep] after row has been added to it.
plus(p, row) == [vec |-> xor(p.vec, row.vec), rep |-> xor(p.rep, row.rep)]

\* The pair p reduced by rows, a function from a bit position to a pair
\* [vec, rep] whose vec has that bit as its highest and is the
\* combination of rep; rep follows the reduction.
RECURSIVE reduced(_, _)
reduced(p, rows) ==
    IF p.vec = 0 \/ top(p.vec) \notin DOMAIN rows THEN p
    ELSE reduced(plus(p, rows[top(p.vec)]), rows)

\* rows with the pair p, reduced by them, unless nothing of it is left.
with_row(rows, p) == IF p.vec = 0 THEN rows ELSE rows @@ (top(p.vec) :> p)

\* The first j elements of the normal basis of GF(2^m), in echelon form.
RECURSIVE echelon(_, _)
echelon(m, j) ==
    IF j = 0 THEN <<>>
    ELSE with_row(echelon(m, j - 1),
                  reduced([vec |-> gf_get_normal_basis_element(m, j - 1), rep |-> 2^(j - 1)],
                          echelon(m, j - 1)))

NormalRows == evaluated([m \in CosetSizes |-> echelon(m, m)])

\* The representation a reduction has found: the combination that leaves
\* nothing of the element, 0 when the element is outside the subfield.
solution(solved) == IF solved.vec = 0 THEN solved.rep ELSE 0

\* gf->normal_repr_by_subfield[m][d]: gf_create writes repr at the
\* logarithm of normal_combination(m, repr) for every repr of 1 .. 2^m - 1
\* and leaves 0 elsewhere.  The table is read here by solving
\* normal_combination(m, repr) = alpha^d for repr.
gf_get_normal_repr(m, d) == solution(reduced([vec |-> pow_table(d), rep |-> 0], NormalRows[m]))

----------------------------------------------------------------------------
(* Arithmetic on elements, and on symbols: a symbol of symbol_size bytes  *)
(* is a sequence of symbol_size / 2 elements.                              *)

\* pow_table[log_table[a] + log_table[b]]
gf_mul_ee(a, b) == IF a = 0 \/ b = 0 THEN 0 ELSE product(a, b)

\* b^(2^k): squaring is additive, so it is the sum of the (alpha^i)^(2^k)
\* over the bits i of b.
conjugate(b, k) == xor_all([i \in ones(b, 16) |-> pow_table((i * 2^k) % N)])

\* The product of f[lo] .. f[hi], halved until one factor is left.
RECURSIVE product_of(_, _, _)
product_of(f, lo, hi) ==
    IF lo = hi THEN f[lo]
    ELSE product(product_of(f, lo, (lo + hi) \div 2), product_of(f, (lo + hi) \div 2 + 1, hi))

\* alpha^(N - log_table[b]) = b^(N - 1), the product of b^2, b^4, ..., b^(2^15).
inverse(b) == product_of(evaluated([k \in 1 .. 15 |-> conjugate(b, k)]), 1, 15)

\* pow_table[(N + log_table[a] - log_table[b]) % N].  log_table[0] is 0,
\* the value my_memset left: with assert compiled out a / 0 is a.
gf_div_ee(a, b) ==
    IF a = 0 THEN 0
    ELSE IF b = 0 THEN a
    ELSE product(a, inverse(b))

\* gf_add: a ^= b, element by element (64 bits at a time, then the rest).
gf_add(a, b) == evaluated([e \in DOMAIN a |-> xor(a[e], b[e])])

\* gf_mul: a *= coef.  The branches for coef = 0 (my_memset) and coef = 1
\* (nothing to do) give what the product gives.
gf_mul(a, coef) == evaluated([e \in DOMAIN a |-> gf_mul_ee(a[e], coef)])

\* gf_madd: a += coef * b.
gf_madd(a, coef, b) == gf_add(a, gf_mul(b, coef))

\* The symbol a with the symbols of a table added to it.
with_terms(a, terms) ==
    IF DOMAIN terms = {} THEN a
    ELSE evaluated([e \in DOMAIN a |-> xor(a[e], xor_all([i \in DOMAIN terms |-> terms[i][e]]))])

\* The symbol a after gf_add(a, terms[i]) for every i, in any order.
gf_add_all(a, terms) == with_terms(a, evaluated(terms))
=============================================================================
