------------------------------ MODULE MultiAnd ------------------------------
(***************************************************************************)
(* The local computation of a multi-fan-in AND, the formulas inside        *)
(* MultiReplicated<T>::prepare_mul, randomize_comm_elem_* and finalize_mul.*)
(* x is the sequence of a party's operand shares, r[i][j] the j-th word    *)
(* that the party draws from shared_prngs[i] during the call.              *)
(*                                                                         *)
(* The code writes fan-ins 2, 3 and 4 out by hand and computes larger ones *)
(* in loops over bit masks; from fan-in 3 on it is one formula over the    *)
(* subsets of at least two operands ("monomials"), in an order that the    *)
(* three parties share.                                                    *)
(***************************************************************************)
EXTENDS Sharing, Sequences

(* The monomials of a set of operands. *)
Several(F) == {I \in SUBSET F : Cardinality(I) > 1}

(* Their number, com_count = (1 << fanin) - fanin - 1 in finalize_mul. *)
NumMonomials(f) == Cardinality(Several(1 .. f))

(***************************************************************************)
(* The bit mask i that selects I (indicator[] in the code) is larger than  *)
(* the one that selects J: where they differ last, I has its bit set.      *)
(***************************************************************************)
LargerMask(I, J) == \E i \in I \ J : \A j \in J \ I : j < i

MasksAbove(I, F) == {J \in Several(F) : LargerMask(J, I)}

(***************************************************************************)
(* The monomials of an AND of f operands in the order they are masked: the *)
(* general loops count the bit masks down.                                 *)
(***************************************************************************)
Monomials(f) ==
    CASE f = 2 -> <<{1, 2}>>
      [] f = 3 -> <<{1, 2, 3}, {1, 2}, {1, 3}, {2, 3}>>
      [] f = 4 -> <<{1, 2, 3, 4}, {1, 2, 3}, {1, 2, 4}, {1, 3, 4}, {2, 3, 4},
                    {1, 2}, {1, 3}, {1, 4}, {2, 3}, {2, 4}, {3, 4}>>
      [] OTHER -> [k \in 1 .. NumMonomials(f) |->
                     CHOOSE I \in Several(1 .. f) :
                         Cardinality(MasksAbove(I, 1 .. f)) = k - 1]

(***************************************************************************)
(* What a product starts from: the hand-written fan-ins multiply their     *)
(* factors only, the general loop starts from comm_elem = 1 or term = 1.   *)
(***************************************************************************)
EmptyProduct(f) == IF f > 4 THEN IntegerOne ELSE Lane

(* word v times component c of the operands in I. *)
Times(v, x, I, c) == {l \in v : \A i \in I : l \in x[i][c]}

(* Component c of operand i times the other component of all the others. *)
Cross(x, i, c) ==
    {l \in EmptyProduct(Len(x)) :
        /\ l \in x[i][c]
        /\ \A j \in 1 .. Len(x) \ {i} : l \in x[j][1 - c]}

CrossSum(x, c) == XorSum([i \in 1 .. Len(x) |-> Cross(x, i, c)])

(* Words w[k], each times component c of the operands monomial k leaves out. *)
ComplementSum(w, x, c) ==
    XorSum([k \in 1 .. NumMonomials(Len(x)) |->
              Times(w[k], x, (1 .. Len(x)) \ Monomials(Len(x))[k], c)])

(* Fault: party 2 draws the pad of party 0 also for fan-in 2, where party 0 *)
(* does not.                                                               *)
FaultyDraws(p, f) ==
    IF p = 0      THEN [i \in 0 .. 3 |-> IF i = 0 THEN NumMonomials(f)
                                         ELSE IF i = 3 /\ f # 2 THEN 1 ELSE 0]
    ELSE IF p = 1 THEN [i \in 0 .. 3 |-> IF i = 1 THEN NumMonomials(f)
                                         ELSE IF i = 2 THEN 1 ELSE 0]
    ELSE [i \in 0 .. 3 |-> IF i >= 2 THEN NumMonomials(f) ELSE 1]

(* The number of words party p draws from shared_prngs[i] for fan-in f. *)
Draws(p, f) ==
    IF p = 0      THEN [i \in 0 .. 3 |-> IF i = 0 THEN NumMonomials(f)
                                         ELSE IF i = 3 /\ f # 2 THEN 1 ELSE 0]
    ELSE IF p = 1 THEN [i \in 0 .. 3 |-> IF i = 1 THEN NumMonomials(f)
                                         ELSE IF i = 2 THEN 1 ELSE 0]
    ELSE [i \in 0 .. 3 |-> IF i >= 2 THEN NumMonomials(f)
                           ELSE IF i = 0 \/ f # 2 THEN 1 ELSE 0]

(***************************************************************************)
(* prepare_mul at each party: the words it appends to os[0] and os[1] for  *)
(* its peers and the ones it keeps for finalize_mul (add_shares for        *)
(* fan-ins above 2, add_shares_2 for fan-in 2).                            *)
(***************************************************************************)
Prepared0(x, r) ==
    LET f       == Len(x)
        elem(k) == Times(EmptyProduct(f), x, Monomials(f)[k], 0)
    IN  [os0  |-> [k \in 1 .. NumMonomials(f) |-> elem(k) (+) r[0][k]],
         os1  |-> <<>>,
         add  |-> IF f = 2 THEN <<>> ELSE <<r[3][1]>>,
         add2 |-> IF f = 2 THEN <<elem(1), r[0][1]>> ELSE <<>>]

(* Fault: the re-sharing word of party 1 is kept for every fan-in. *)
LeftoverPrepared1(x, r) ==
    LET f       == Len(x)
        elem(k) == IF f = 2 THEN CrossSum(x, 0)
                   ELSE Times(EmptyProduct(f), x, Monomials(f)[k], 0)
    IN  [os0  |-> [k \in 1 .. NumMonomials(f) |-> elem(k) (+) r[1][k]],
         os1  |-> <<>>,
         add  |-> <<r[2][1]>>,
         add2 |-> IF f = 2 THEN <<elem(1) (+) r[2][1], r[1][1] (+) r[2][1]>> ELSE <<>>]

Prepared1(x, r) ==
    LET f       == Len(x)
        elem(k) == IF f = 2 THEN CrossSum(x, 0)
                   ELSE Times(EmptyProduct(f), x, Monomials(f)[k], 0)
    IN  [os0  |-> [k \in 1 .. NumMonomials(f) |-> elem(k) (+) r[1][k]],
         os1  |-> <<>>,
         add  |-> IF f = 2 THEN <<>> ELSE <<r[2][1]>>,
         add2 |-> IF f = 2 THEN <<elem(1) (+) r[2][1], r[1][1] (+) r[2][1]>> ELSE <<>>]

(* Fault: party 2 sends its fan-in 2 word unmasked. *)
UnmaskedPrepared2(x, r) ==
    LET f     == Len(x)
        elem2 == CrossSum(x, 0) (+) Times(Lane, x, {1, 2}, 0)
        elem3 == ComplementSum(r[2], x, 0) (+) CrossSum(x, 1) (+) r[0][1]
        elem4 == ComplementSum(r[3], x, 1) (+) CrossSum(x, 0) (+) r[1][1]
    IN  IF f = 2
        THEN [os0 |-> <<elem2>>, os1 |-> <<>>, add |-> <<>>,
              add2 |-> <<r[0][1] (+) r[3][1], elem2 (+) r[2][1]>>]
        ELSE [os0 |-> <<elem3>>, os1 |-> <<elem4>>, add |-> <<elem3, elem4>>,
              add2 |-> <<>>]

Prepared2(x, r) ==
    LET f     == Len(x)
        elem2 == CrossSum(x, 0) (+) Times(Lane, x, {1, 2}, 0) (+) r[0][1]
        elem3 == ComplementSum(r[2], x, 0) (+) CrossSum(x, 1) (+) r[0][1]
        elem4 == ComplementSum(r[3], x, 1) (+) CrossSum(x, 0) (+) r[1][1]
    IN  IF f = 2
        THEN [os0 |-> <<elem2>>, os1 |-> <<>>, add |-> <<>>,
              add2 |-> <<r[0][1] (+) r[3][1], elem2 (+) r[2][1]>>]
        ELSE [os0 |-> <<elem3>>, os1 |-> <<elem4>>, add |-> <<elem3, elem4>>,
              add2 |-> <<>>]

Prepared(p, x, r) ==
    IF p = 0      THEN Prepared0(x, r)
    ELSE IF p = 1 THEN Prepared1(x, r)
    ELSE Prepared2(x, r)

(***************************************************************************)
(* finalize_mul: how many words it takes from each stream, and the share   *)
(* it makes of them.  c are the words unpacked from os[1], second the ones *)
(* from os[2], a and a2 the ones taken back from add_shares and            *)
(* add_shares_2.                                                           *)
(***************************************************************************)
Taken(p, f) ==
    [os1  |-> IF p = 2 THEN 0 ELSE NumMonomials(f),
     os2  |-> IF p = 0 \/ (p = 1 /\ f # 2) THEN 1 ELSE 0,
     add  |-> IF f = 2 THEN 0 ELSE IF p = 2 THEN 2 ELSE 1,
     add2 |-> IF f = 2 THEN 2 ELSE 0]

FinalizedPair(p, c, second, a2) ==
    IF p = 0      THEN Sh(a2[1] (+) c[1] (+) second[1], second[1] (+) a2[2])
    ELSE IF p = 1 THEN Sh(c[1] (+) a2[1], a2[2])
    ELSE Sh(a2[1], a2[2])

(* Fault: even fan-ins lack their last term. *)
OddFinalizedMany(p, x, c, second, a) ==
    IF p = 2
    THEN Sh(a[2], a[1])
    ELSE Sh(ComplementSum(c, x, 1) (+) CrossSum(x, 0) (+) a[1], second[1])

(* Fault: party 2 takes its two words back in the order they were pushed. *)
SwappedFinalizedMany(p, x, c, second, a) ==
    LET f    == Len(x)
        last == IF f % 2 = 0 THEN Times(EmptyProduct(f), x, 1 .. f, 1) ELSE {}
    IN  IF p = 2
        THEN Sh(a[1], a[2])
        ELSE Sh(ComplementSum(c, x, 1) (+) CrossSum(x, 0) (+) last (+) a[1], second[1])

FinalizedMany(p, x, c, second, a) ==
    LET f    == Len(x)
        last == IF f % 2 = 0 THEN Times(EmptyProduct(f), x, 1 .. f, 1) ELSE {}
    IN  IF p = 2
        THEN Sh(a[2], a[1])
        ELSE Sh(ComplementSum(c, x, 1) (+) CrossSum(x, 0) (+) last (+) a[1], second[1])

Finalized(p, x, c, second, a, a2) ==
    IF Len(x) = 2 THEN FinalizedPair(p, c, second, a2)
                  ELSE FinalizedMany(p, x, c, second, a)
=============================================================================
