-------------------------- MODULE CyclotomicCoset --------------------------
(***************************************************************************)
(* The cyclotomic cosets over GF(2) modulo N = 65535 of cyclotomic_coset.h *)
(* and the choice of the positions of a code word among them: a set        *)
(* {s, 2s, 4s, ...} modulo N of 1, 2, 4, 8 or 16 positions, named by its   *)
(* smallest element, the leader.                                           *)
(***************************************************************************)
EXTENDS Gf65536, SequencesExt

CC_COSET_SIZES_CNT == 5
\* g_leaders_cnt and g_thresholds, indexed by i + 1 for the size 2^i.
g_leaders_cnt == <<1, 1, 3, 30, 4080>>
g_thresholds == <<0, 1, 3, 15, 255>>

NEXT_COSET_ELEMENT(s) == (2 * s) % N

\* The smaller of two numbers (MIN of util.h).
MIN(a, b) == IF a < b THEN a ELSE b

\* The elements cc_create marks as processed when it meets s.
coset_elements(s) == {(s * 2^j) % N : j \in 0 .. CC_MAX_COSET_SIZE - 1}

\* cc->leaders[i] after cc_create: s runs upwards, so a coset is entered
\* under its smallest element, in the array of its size.
leaders_of_size ==
    [i \in 0 .. CC_COSET_SIZES_CNT - 1 |->
        {s \in 0 .. N - 1 : /\ Cardinality(coset_elements(s)) = 2^i
                            /\ \A e \in coset_elements(s) : s <= e}]

\* cc->leaders[i][idx].  The five arrays lie one after the other in
\* _leaders_memory, so an index past the end of one reads the next.
RECURSIVE leaders(_, _)
leaders(i, idx) ==
    IF idx >= g_leaders_cnt[i + 1] /\ i + 1 < CC_COSET_SIZES_CNT
    THEN leaders(i + 1, idx - g_leaders_cnt[i + 1])
    ELSE CHOOSE s \in leaders_of_size[i] :
             Cardinality({e \in leaders_of_size[i] : e < s}) = idx

\* (uint16_t)(((uint32_t)leader << m) % N), without leaving 32 bits.
shifted(leader, m) == (leader * (2^m % N)) % N

RECURSIVE coset_size_from(_, _)
coset_size_from(leader, m) ==
    IF leader = shifted(leader, m) THEN m ELSE coset_size_from(leader, 2 * m)

cc_get_coset_size(leader) == coset_size_from(leader, 1)

----------------------------------------------------------------------------
(* The choice of the positions of a code word. *)

\* _cc_get_cosets_cnt, from the size 2^i downwards: the number of cosets
\* whose union has r elements.
RECURSIVE cosets_cnt_from(_, _, _)
cosets_cnt_from(i, r, cosets_cnt) ==
    LET cosets_cnt_inc == IF r > g_thresholds[i + 1]
                          THEN (r - g_thresholds[i + 1] + 2^i - 1) \div 2^i
                          ELSE 0
    IN  IF r = 0 THEN cosets_cnt
        ELSE IF i = 0 THEN cosets_cnt + cosets_cnt_inc
        ELSE cosets_cnt_from(i - 1, r - cosets_cnt_inc * 2^i, cosets_cnt + cosets_cnt_inc)

cc_get_cosets_cnt(r) == cosets_cnt_from(CC_COSET_SIZES_CNT - 1, r, 0)

cc_estimate_cosets_cnt(k, r) ==
    [inf_max_cnt |-> cc_get_cosets_cnt(k), rep_max_cnt |-> cc_get_cosets_cnt(r)]

\* One loop of cc_select_cosets, from the size 2^i downwards: while more
\* than thresholds[i] positions are wanted and the output has room, the
\* next unused coset of size 2^i is taken.  The loop for the repair
\* symbols subtracts 1 << i, which is MIN(wanted, 1 << i) there, since
\* its thresholds are 2^i - 1.
RECURSIVE take_cosets(_, _, _, _, _, _)
take_cosets(i, wanted, thresholds, max_cnt, idx, cosets) ==
    IF wanted = 0 THEN [idx |-> idx, cosets |-> cosets]
    ELSE IF wanted > thresholds[i + 1] /\ Len(cosets) < max_cnt
    THEN take_cosets(i, wanted - MIN(wanted, 2^i), thresholds, max_cnt,
                     [idx EXCEPT ![i] = @ + 1],
                     Append(cosets, [leader |-> leaders(i, idx[i]), size |-> 2^i]))
    ELSE IF i = 0 THEN [idx |-> idx, cosets |-> cosets]
    ELSE take_cosets(i - 1, wanted, thresholds, max_cnt, idx, cosets)

\* inf_thresholds of cc_select_cosets: the thresholds less the positions
\* of the smaller cosets the repair symbols have taken, one term for
\* every smaller size, in uint16_t.
inf_thresholds(idx) ==
    [j \in 1 .. CC_COSET_SIZES_CNT |->
        (g_thresholds[j]
            - MapThenSumSet(LAMBDA i : idx[i] * 2^i, 0 .. j - 2)) % 65536]

cc_select_cosets(k, r, inf_max_cnt, rep_max_cnt) ==
    LET first == CC_COSET_SIZES_CNT - 1
        rep == take_cosets(first, r, g_thresholds, rep_max_cnt,
                           [i \in 0 .. first |-> 0], <<>>)
        inf == take_cosets(first, k, inf_thresholds(rep.idx), inf_max_cnt, rep.idx, <<>>)
    IN  [inf_cosets |-> inf.cosets, rep_cosets |-> rep.cosets]

\* The elements of the coset of s in the order cc_cosets_to_positions
\* walks them: s, 2s, 4s, ... until s comes back.
coset_walk(s) == [j \in 1 .. Cardinality(coset_elements(s)) |-> shifted(s, j - 1)]

\* positions[0 .. positions_cnt - 1]: the elements of the cosets, one coset
\* after the other; what the cosets do not fill keeps the 0 of my_calloc.
cc_cosets_to_positions(cosets, positions_cnt) ==
    LET walk == FlattenSeq([c \in DOMAIN cosets |-> coset_walk(cosets[c].leader)])
    IN  evaluated([n \in 0 .. positions_cnt - 1 |-> IF n < Len(walk) THEN walk[n + 1] ELSE 0])
=============================================================================
