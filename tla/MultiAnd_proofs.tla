--------------------------- MODULE MultiAnd_proofs ---------------------------
(***************************************************************************)
(* Facts about the words and formulas of MultiAnd, for every number of     *)
(* lanes and every fan-in: what they range over, how many words are drawn, *)
(* and that what prepare_mul and finalize_mul compute is the AND of the    *)
(* operands, first of two and then of any number of them.                  *)
(***************************************************************************)
EXTENDS MultiAnd, FiniteSetTheorems, FunctionTheorems, SequenceTheorems, TLAPS

(* Every operation on words yields a word.                                 *)
LEMMA VecClosed ==
    /\ \A x, y \in Vec : x (+) y \in Vec
    /\ \A x \in Vec : \A n : Mask(x, n) \in Vec /\ Packed(x, n) \in Vec
    /\ \A F : XorSum(F) \in Vec
    /\ \A v \in Vec : \A x, I, c : Times(v, x, I, c) \in Vec
    /\ IntegerOne \in Vec
<1>1. \A x, y \in Vec : x (+) y \in Vec
  BY DEF Vec, (+)
<1>2. \A x \in Vec : \A n : Mask(x, n) \in Vec
  BY DEF Vec, Mask
<1>3. \A x \in Vec : \A n : Packed(x, n) \in Vec
  BY <1>2 DEF Packed
<1>4. \A F : XorSum(F) \in Vec
  BY DEF Vec, XorSum
<1>5. \A v \in Vec : \A x, I, c : Times(v, x, I, c) \in Vec
  BY DEF Vec, Times
<1>6. IntegerOne \in Vec
  BY WAssumption DEF Vec, Lane, IntegerOne
<1> QED
  BY <1>1, <1>2, <1>3, <1>4, <1>5, <1>6

LEMMA ProductVec ==
    /\ {} \in Vec
    /\ \A f : EmptyProduct(f) \in Vec
    /\ \A x, i, c : Cross(x, i, c) \in Vec
<1>1. \A f : EmptyProduct(f) \in Vec
  BY VecClosed DEF EmptyProduct, Vec
<1>2. \A x, i, c : Cross(x, i, c) \in Vec
  BY <1>1 DEF Cross, Vec
<1> QED
  BY <1>1, <1>2 DEF Vec

(* The cardinalities that the AND of two operands comes down to.           *)
LEMMA SmallCardinalities ==
    /\ Cardinality({}) = 0 /\ Cardinality({1}) = 1 /\ Cardinality({2}) = 1
    /\ Cardinality({1, 2}) = 2
<1>1. IsFiniteSet({1}) /\ Cardinality({1}) = 1 /\ Cardinality({2}) = 1
  BY FS_Singleton
<1>2. Cardinality({1} \cup {2}) = 2
  BY <1>1, FS_AddElement
<1>3. {1, 2} = {1} \cup {2}
  OBVIOUS
<1> QED
  BY <1>1, <1>2, <1>3, FS_EmptySet

(* The number of monomials is a number, and at least one.                  *)
LEMMA NumMonomialsType ==
    ASSUME NEW f \in Nat
    PROVE  /\ NumMonomials(f) \in Nat
           /\ f >= 2 => NumMonomials(f) >= 1
<1> DEFINE M == {I \in SUBSET (1 .. f) : Cardinality(I) > 1}
<1>1. IsFiniteSet(M)
  <2>1. IsFiniteSet(1 .. f)
    BY FS_Interval
  <2>2. IsFiniteSet(SUBSET (1 .. f))
    BY <2>1, FS_SUBSET
  <2> QED
    BY <2>2, FS_Subset
<1>2. NumMonomials(f) \in Nat
  BY <1>1, FS_CardinalityType DEF NumMonomials, Several
<1>3. ASSUME f >= 2 PROVE NumMonomials(f) >= 1
  <2>1. Cardinality({1, 2}) = 2
    BY SmallCardinalities
  <2>2. {1, 2} \in M
    BY <1>3, <2>1
  <2>3. Cardinality(M) # 0
    BY <1>1, <2>2, FS_EmptySet
  <2> QED
    BY <1>2, <2>3 DEF NumMonomials, Several
<1> QED
  BY <1>2, <1>3

(* Two operands have one monomial, their product.                          *)
LEMMA NumMonomialsPair == NumMonomials(2) = 1
<1>1. /\ Cardinality({}) = 0 /\ Cardinality({1}) = 1 /\ Cardinality({2}) = 1
      /\ Cardinality({1, 2}) = 2
  BY SmallCardinalities
<1>3. {I \in SUBSET (1 .. 2) : Cardinality(I) > 1} = {{1, 2}}
  <2>1. ASSUME NEW I \in SUBSET (1 .. 2)
        PROVE  I = {} \/ I = {1} \/ I = {2} \/ I = {1, 2}
    <3>1. \A i \in I : i = 1 \/ i = 2
      OBVIOUS
    <3>2. CASE 1 \in I /\ 2 \in I
      BY <3>1, <3>2
    <3>3. CASE 1 \in I /\ 2 \notin I
      BY <3>1, <3>3
    <3>4. CASE 1 \notin I /\ 2 \in I
      BY <3>1, <3>4
    <3>5. CASE 1 \notin I /\ 2 \notin I
      BY <3>1, <3>5
    <3> QED
      BY <3>2, <3>3, <3>4, <3>5
  <2>2. {1, 2} \in SUBSET (1 .. 2)
    OBVIOUS
  <2> QED
    BY <1>1, <2>1, <2>2
<1> QED
  BY <1>3, FS_Singleton DEF NumMonomials, Several

LEMMA PartyNeighbours ==
    ASSUME NEW p \in Party
    PROVE  /\ Before(p) \in Party /\ After(p) \in Party
           /\ Before(After(p)) = p /\ After(Before(p)) = p
           /\ Before(p) # p /\ After(p) # p /\ Before(p) # After(p)
  BY DEF Party, Before, After

LEMMA DrawsType ==
    ASSUME NEW p \in Party, NEW f \in Nat
    PROVE  Draws(p, f) \in [0 .. 3 -> Nat]
<1>1. NumMonomials(f) \in Nat
  BY NumMonomialsType
<1>2. CASE p = 0
  BY <1>1, <1>2 DEF Draws
<1>3. CASE p = 1
  BY <1>1, <1>3 DEF Draws
<1>4. CASE p = 2
  BY <1>1, <1>4 DEF Draws
<1> QED
  BY <1>2, <1>3, <1>4 DEF Party

(***************************************************************************)
(* The two holders of a generator draw the same number of words from it,   *)
(* whatever the fan-in: shared_prngs[0] is the previous party's            *)
(* shared_prngs[2], and shared_prngs[1] is the next party's                *)
(* shared_prngs[3].                                                        *)
(***************************************************************************)
LEMMA DrawsPaired ==
    ASSUME NEW p \in Party, NEW f
    PROVE  /\ Draws(p, f)[0] = Draws(Before(p), f)[2]
           /\ Draws(p, f)[1] = Draws(After(p), f)[3]
<1>1. CASE p = 0
  BY <1>1 DEF Draws, Before, After
<1>2. CASE p = 1
  BY <1>2 DEF Draws, Before, After
<1>3. CASE p = 2
  BY <1>3 DEF Draws, Before, After
<1> QED
  BY <1>1, <1>2, <1>3 DEF Party

LEMMA FunctionSeq ==
    ASSUME NEW T, NEW n \in Nat, NEW s \in [1 .. n -> T]
    PROVE  s \in Seq(T) /\ Len(s) = n
  OBVIOUS

LEMMA PairSeq ==
    ASSUME NEW T, NEW a \in T, NEW b \in T
    PROVE  /\ <<>> \in Seq(T) /\ <<a>> \in Seq(T) /\ <<a, b>> \in Seq(T)
           /\ Len(<<>>) = 0 /\ Len(<<a>>) = 1 /\ Len(<<a, b>>) = 2
  OBVIOUS

(* prepare_mul makes words, as many as finalize_mul will take.             *)
PreparedWords == [os0 : Seq(Vec), os1 : Seq(Vec), add : Seq(Vec), add2 : Seq(Vec)]

LEMMA PreparedType ==
    ASSUME NEW p \in Party, NEW x, Len(x) \in Nat, Len(x) >= 2, NEW r,
           \A i \in 0 .. 3 : \A j \in 1 .. Draws(p, Len(x))[i] : r[i][j] \in Vec
    PROVE  Prepared(p, x, r) \in PreparedWords
<1> DEFINE n == NumMonomials(Len(x))
<1>1. n \in Nat /\ n >= 1
  BY NumMonomialsType
<1>2. CASE p = 0
  <2>1. Draws(p, Len(x))[0] = n /\ (Len(x) # 2 => Draws(p, Len(x))[3] = 1)
    BY <1>2 DEF Draws
  <2>2. \A k \in 1 .. n : r[0][k] \in Vec
    BY <2>1
  <2>3. Len(x) # 2 => r[3][1] \in Vec
    BY <2>1
  <2> DEFINE elem(k) == Times(EmptyProduct(Len(x)), x, Monomials(Len(x))[k], 0)
  <2>4. \A k : elem(k) \in Vec
    BY VecClosed, ProductVec
  <2>5. [k \in 1 .. n |-> elem(k) (+) r[0][k]] \in [1 .. n -> Vec]
    BY <2>2, <2>4, VecClosed
  <2>6. [k \in 1 .. n |-> elem(k) (+) r[0][k]] \in Seq(Vec)
    BY <1>1, <2>5, FunctionSeq
  <2>7. (IF Len(x) = 2 THEN <<>> ELSE <<r[3][1]>>) \in Seq(Vec)
    BY <2>3, PairSeq
  <2>8. (IF Len(x) = 2 THEN <<elem(1), r[0][1]>> ELSE <<>>) \in Seq(Vec)
    BY <1>1, <2>2, <2>4, PairSeq
  <2> HIDE DEF elem, n
  <2> QED
    BY <1>2, <2>6, <2>7, <2>8, PairSeq
    DEF Prepared, Prepared0, PreparedWords, elem, n
<1>3. CASE p = 1
  <2>1. Draws(p, Len(x))[1] = n /\ Draws(p, Len(x))[2] = 1
    BY <1>3 DEF Draws
  <2>2. \A k \in 1 .. n : r[1][k] \in Vec
    BY <2>1
  <2>3. r[2][1] \in Vec
    BY <2>1
  <2> DEFINE elem(k) == IF Len(x) = 2 THEN CrossSum(x, 0)
                        ELSE Times(EmptyProduct(Len(x)), x, Monomials(Len(x))[k], 0)
  <2>4. \A k : elem(k) \in Vec
    BY VecClosed, ProductVec DEF CrossSum
  <2>5. [k \in 1 .. n |-> elem(k) (+) r[1][k]] \in [1 .. n -> Vec]
    BY <2>2, <2>4, VecClosed
  <2>6. [k \in 1 .. n |-> elem(k) (+) r[1][k]] \in Seq(Vec)
    BY <1>1, <2>5, FunctionSeq
  <2>7. (IF Len(x) = 2 THEN <<>> ELSE <<r[2][1]>>) \in Seq(Vec)
    BY <2>3, PairSeq
  <2>8. elem(1) (+) r[2][1] \in Vec /\ r[1][1] (+) r[2][1] \in Vec
    BY <1>1, <2>2, <2>3, <2>4, VecClosed
  <2>9. (IF Len(x) = 2 THEN <<elem(1) (+) r[2][1], r[1][1] (+) r[2][1]>> ELSE <<>>)
            \in Seq(Vec)
    BY <2>8, PairSeq
  <2> HIDE DEF elem, n
  <2> QED
    BY <1>3, <2>6, <2>7, <2>9, PairSeq
    DEF Prepared, Prepared1, PreparedWords, elem, n
<1>4. CASE p = 2
  <2>1. /\ Draws(p, Len(x))[2] = n /\ Draws(p, Len(x))[3] = n
        /\ Draws(p, Len(x))[0] = 1 /\ (Len(x) # 2 => Draws(p, Len(x))[1] = 1)
    BY <1>4 DEF Draws
  <2>2. r[2][1] \in Vec /\ r[3][1] \in Vec /\ r[0][1] \in Vec
    BY <1>1, <2>1
  <2>3. Len(x) # 2 => r[1][1] \in Vec
    BY <2>1
  <2> DEFINE f     == Len(x)
             elem2 == CrossSum(x, 0) (+) Times(Lane, x, {1, 2}, 0) (+) r[0][1]
             elem3 == ComplementSum(r[2], x, 0) (+) CrossSum(x, 1) (+) r[0][1]
             elem4 == ComplementSum(r[3], x, 1) (+) CrossSum(x, 0) (+) r[1][1]
  <2>4. \A c : CrossSum(x, c) \in Vec /\ \A w : ComplementSum(w, x, c) \in Vec
    BY VecClosed DEF CrossSum, ComplementSum
  <2>5. Times(Lane, x, {1, 2}, 0) \in Vec
    BY VecClosed DEF Vec
  <2>6. elem2 \in Vec
    BY <2>2, <2>4, <2>5, VecClosed
  <2>7. elem3 \in Vec
    BY <2>2, <2>4, VecClosed
  <2>8. f # 2 => elem4 \in Vec
    BY <2>3, <2>4, VecClosed
  <2>9. r[0][1] (+) r[3][1] \in Vec /\ elem2 (+) r[2][1] \in Vec
    BY <2>2, <2>6, VecClosed
  <2> HIDE DEF f, elem2, elem3, elem4
  <2>10. Prepared2(x, r) =
            IF f = 2
            THEN [os0 |-> <<elem2>>, os1 |-> <<>>, add |-> <<>>,
                  add2 |-> <<r[0][1] (+) r[3][1], elem2 (+) r[2][1]>>]
            ELSE [os0 |-> <<elem3>>, os1 |-> <<elem4>>, add |-> <<elem3, elem4>>,
                  add2 |-> <<>>]
    BY DEF Prepared2, f, elem2, elem3, elem4
  <2> QED
    BY <1>4, <2>6, <2>7, <2>8, <2>9, <2>10, PairSeq
    DEF Prepared, PreparedWords
<1> QED
  BY <1>2, <1>3, <1>4 DEF Party

(* finalize_mul makes a share of the words it takes.                       *)
LEMMA FinalizedType ==
    ASSUME NEW p \in Party, NEW x, NEW c, NEW second, NEW a, NEW a2,
           (Len(x) = 2 /\ p = 0) => second[1] \in Vec,
           (Len(x) = 2 /\ p # 2) => c[1] \in Vec,
           Len(x) = 2 => a2[1] \in Vec /\ a2[2] \in Vec,
           (Len(x) # 2 /\ p # 2) => second[1] \in Vec /\ a[1] \in Vec,
           (Len(x) # 2 /\ p = 2) => a[1] \in Vec /\ a[2] \in Vec
    PROVE  Finalized(p, x, c, second, a, a2) \in Share
<1>1. \A u, v \in Vec : Sh(u, v) \in Share
  BY DEF Sh, Share
<1>2. CASE Len(x) = 2
  <2>1. FinalizedPair(p, c, second, a2) \in Share
    BY <1>1, <1>2, VecClosed DEF FinalizedPair, Party
  <2> QED
    BY <1>2, <2>1 DEF Finalized
<1>3. CASE Len(x) # 2
  <2>1. CASE p = 2
    BY <1>1, <1>3, <2>1 DEF Finalized, FinalizedMany
  <2>2. CASE p # 2
    <3> DEFINE last == IF Len(x) % 2 = 0
                       THEN Times(EmptyProduct(Len(x)), x, 1 .. Len(x), 1) ELSE {}
               word == ComplementSum(c, x, 1) (+) CrossSum(x, 0) (+) last (+) a[1]
    <3>1. last \in Vec
      BY VecClosed, ProductVec
    <3>2. ComplementSum(c, x, 1) \in Vec /\ CrossSum(x, 0) \in Vec
      BY VecClosed DEF ComplementSum, CrossSum
    <3> HIDE DEF last
    <3>3. word \in Vec
      BY <1>3, <2>2, <3>1, <3>2, VecClosed
    <3> HIDE DEF word
    <3>4. Finalized(p, x, c, second, a, a2) = Sh(word, second[1])
      BY <1>3, <2>2 DEF Finalized, FinalizedMany, word, last
    <3> QED
      BY <1>1, <1>3, <2>2, <3>3, <3>4
  <2> QED
    BY <2>1, <2>2
<1> QED
  BY <1>2, <1>3

-----------------------------------------------------------------------------
(* A repeated += of two words is their sum.                                *)
LEMMA XorSumPair ==
    ASSUME NEW F \in [1 .. 2 -> Vec]
    PROVE  XorSum(F) = F[1] (+) F[2]
<1>1. SUFFICES ASSUME NEW l \in Lane
               PROVE  l \in XorSum(F) <=> l \in F[1] (+) F[2]
  BY VecClosed DEF Vec, XorSum
<1> DEFINE K == {k \in DOMAIN F : l \in F[k]}
<1>2. l \in XorSum(F) <=> Cardinality(K) % 2 = 1
  BY DEF XorSum
<1>3. /\ Cardinality({}) = 0 /\ Cardinality({1}) = 1 /\ Cardinality({2}) = 1
      /\ Cardinality({1, 2}) = 2
  BY SmallCardinalities
<1>5. \A k : k \in K <=> (k = 1 \/ k = 2) /\ l \in F[k]
  OBVIOUS
<1> HIDE DEF K
<1>6. CASE l \in F[1] /\ l \in F[2]
  <2>1. K = {1, 2}
    BY <1>5, <1>6
  <2> QED
    BY <1>2, <1>3, <1>6, <2>1 DEF (+)
<1>7. CASE l \in F[1] /\ l \notin F[2]
  <2>1. K = {1}
    BY <1>5, <1>7
  <2> QED
    BY <1>2, <1>3, <1>7, <2>1 DEF (+)
<1>8. CASE l \notin F[1] /\ l \in F[2]
  <2>1. K = {2}
    BY <1>5, <1>8
  <2> QED
    BY <1>2, <1>3, <1>8, <2>1 DEF (+)
<1>9. CASE l \notin F[1] /\ l \notin F[2]
  <2>1. K = {}
    BY <1>5, <1>9
  <2> QED
    BY <1>2, <1>3, <1>9, <2>1 DEF (+)
<1> QED
  BY <1>6, <1>7, <1>8, <1>9

(* The cross terms of two operands.                                        *)
LEMMA CrossSumPair ==
    ASSUME NEW x, Len(x) = 2, NEW s \in Share, NEW t \in Share, x[1] = s, x[2] = t,
           NEW c \in {0, 1}
    PROVE  CrossSum(x, c) = (s[c] \cap t[1 - c]) (+) (t[c] \cap s[1 - c])
<1> DEFINE F == [i \in 1 .. Len(x) |-> Cross(x, i, c)]
<1>1. Len(x) = 2 /\ x[1] = s /\ x[2] = t
  OBVIOUS
<1>2. s[c] \in Vec /\ t[c] \in Vec /\ s[1 - c] \in Vec /\ t[1 - c] \in Vec
  BY DEF Share
<1>3. Cross(x, 1, c) = s[c] \cap t[1 - c]
  <2>1. 1 .. Len(x) \ {1} = {2}
    BY <1>1
  <2> QED
    BY <1>1, <1>2, <2>1 DEF Cross, EmptyProduct, Vec
<1>4. Cross(x, 2, c) = t[c] \cap s[1 - c]
  <2>1. 1 .. Len(x) \ {2} = {1}
    BY <1>1
  <2> QED
    BY <1>1, <1>2, <2>1 DEF Cross, EmptyProduct, Vec
<1>5. F \in [1 .. 2 -> Vec] /\ F[1] = s[c] \cap t[1 - c] /\ F[2] = t[c] \cap s[1 - c]
  BY <1>1, <1>3, <1>4, ProductVec
<1>6. XorSum(F) = (s[c] \cap t[1 - c]) (+) (t[c] \cap s[1 - c])
  BY <1>5, XorSumPair
<1> QED
  BY <1>6 DEF CrossSum

(***************************************************************************)
(* One AND run by all three parties: xs[p] are the operand shares of party *)
(* p and rs[p] its draws; the words travel as exchange sends them.         *)
(***************************************************************************)
AndOf(xs, rs) ==
    LET m == [p \in Party |-> Prepared(p, xs[p], rs[p])]
    IN  [p \in Party |->
           Finalized(p, xs[p], IF p = 0 THEN m[1].os0 ELSE m[0].os0,
                     IF p = 0 THEN m[2].os0 ELSE m[2].os1, m[p].add, m[p].add2)]

(* The draws of a fan-in 2 AND come in three pairs from shared generators. *)
PairedDraws(rs) ==
    /\ rs[0][0][1] \in Vec /\ rs[1][1][1] \in Vec /\ rs[2][0][1] \in Vec
    /\ rs[2][2][1] = rs[0][0][1]
    /\ rs[2][3][1] = rs[1][1][1]
    /\ rs[1][2][1] = rs[2][0][1]

(* The products of two operand shares: within component 0, and across.     *)
PairTerm(s, t)  == s[0] \cap t[0]
PairCross(s, t) == (s[0] \cap t[1]) (+) (t[0] \cap s[1])

(* What the parties prepare for two operands, written out.                 *)
PairPrepared(x, r) ==
    LET term  == PairTerm(x[1], x[2])
        cross == PairCross(x[1], x[2])
    IN  /\ Prepared(0, x, r).os0 = <<term (+) r[0][1]>>
        /\ Prepared(0, x, r).add2 = <<term, r[0][1]>>
        /\ Prepared(1, x, r).os0 = <<cross (+) r[1][1]>>
        /\ Prepared(1, x, r).add2 = <<cross (+) r[2][1], r[1][1] (+) r[2][1]>>
        /\ Prepared(2, x, r).os0 = <<cross (+) term (+) r[0][1]>>
        /\ Prepared(2, x, r).add2 =
             <<r[0][1] (+) r[3][1], cross (+) term (+) r[0][1] (+) r[2][1]>>

LEMMA PreparedPair ==
    ASSUME NEW x, Len(x) = 2, x[1] \in Share, x[2] \in Share, NEW r
    PROVE  PairPrepared(x, r)
<1> DEFINE cross == PairCross(x[1], x[2])
           term == PairTerm(x[1], x[2])
<1>1. Len(x) = 2 /\ x[1] \in Share /\ x[2] \in Share
  OBVIOUS
<1>2. CrossSum(x, 0) = cross
  BY CrossSumPair DEF PairCross
<1>3. \A v \in {Lane} : Times(v, x, {1, 2}, 0) = term
  BY <1>1 DEF Times, Share, Vec, PairTerm
<1>4. Monomials(2) = <<{1, 2}>>
  BY DEF Monomials
<1>5. EmptyProduct(2) = Lane
  BY DEF EmptyProduct
<1>6. \A k \in 1 .. 1 : Times(EmptyProduct(2), x, Monomials(2)[k], 0) = term
  BY <1>3, <1>4, <1>5
<1> HIDE DEF cross, term
<1>7. /\ Prepared(0, x, r).os0 = <<term (+) r[0][1]>>
      /\ Prepared(0, x, r).add2 = <<term, r[0][1]>>
  <2>1. Prepared(0, x, r).os0 =
           [k \in 1 .. 1 |-> Times(EmptyProduct(2), x, Monomials(2)[k], 0) (+) r[0][k]]
    BY <1>1, NumMonomialsPair DEF Prepared, Prepared0
  <2>2. [k \in 1 .. 1 |-> Times(EmptyProduct(2), x, Monomials(2)[k], 0) (+) r[0][k]]
           = <<term (+) r[0][1]>>
    BY <1>6
  <2>3. Prepared(0, x, r).add2 = <<term, r[0][1]>>
    BY <1>1, <1>6 DEF Prepared, Prepared0
  <2> QED
    BY <2>1, <2>2, <2>3
<1>8. /\ Prepared(1, x, r).os0 = <<cross (+) r[1][1]>>
      /\ Prepared(1, x, r).add2 = <<cross (+) r[2][1], r[1][1] (+) r[2][1]>>
  <2>1. Prepared(1, x, r).os0 = [k \in 1 .. 1 |-> cross (+) r[1][k]]
    BY <1>1, <1>2, NumMonomialsPair DEF Prepared, Prepared1
  <2>2. [k \in 1 .. 1 |-> cross (+) r[1][k]] = <<cross (+) r[1][1]>>
    OBVIOUS
  <2>3. Prepared(1, x, r).add2 = <<cross (+) r[2][1], r[1][1] (+) r[2][1]>>
    BY <1>1, <1>2 DEF Prepared, Prepared1
  <2> QED
    BY <2>1, <2>2, <2>3
<1>9. /\ Prepared(2, x, r).os0 = <<cross (+) term (+) r[0][1]>>
      /\ Prepared(2, x, r).add2 =
           <<r[0][1] (+) r[3][1], cross (+) term (+) r[0][1] (+) r[2][1]>>
  BY <1>1, <1>2, <1>3 DEF Prepared, Prepared2
<1> QED
  BY <1>7, <1>8, <1>9 DEF cross, term, PairPrepared

(***************************************************************************)
(* The AND of two operands is right for every word, every lane count and   *)
(* every outcome of the generators: from two proper sharings the formulas  *)
(* of prepare_mul and finalize_mul make a proper sharing of the bitwise    *)
(* AND.                                                                    *)
(***************************************************************************)
THEOREM PairAndCorrect ==
    ASSUME NEW s \in Sharings, NEW t \in Sharings, Consistent(s), Consistent(t),
           NEW rs, PairedDraws(rs)
    PROVE  LET z == AndOf([p \in Party |-> <<s[p], t[p]>>], rs)
           IN  Consistent(z) /\ Opened(z) = Opened(s) \cap Opened(t)
<1> DEFINE xs == [p \in Party |-> <<s[p], t[p]>>]
           z  == AndOf(xs, rs)
           A == rs[0][0][1]
           B == rs[1][1][1]
           C == rs[2][0][1]
           e0 == PairTerm(s[0], t[0])
           e1 == PairCross(s[1], t[1])
           e2 == PairCross(s[2], t[2]) (+) PairTerm(s[2], t[2])
<1>1. 0 \in Party /\ 1 \in Party /\ 2 \in Party
  BY DEF Party
<1>2. \A p \in Party : s[p] \in Share /\ t[p] \in Share
  BY DEF Sharings
<1>3. /\ s[0] \in Share /\ t[0] \in Share /\ s[1] \in Share /\ t[1] \in Share
      /\ s[2] \in Share /\ t[2] \in Share
  BY <1>1, <1>2
<1>4. /\ xs[0][1] = s[0] /\ xs[0][2] = t[0] /\ Len(xs[0]) = 2
      /\ xs[1][1] = s[1] /\ xs[1][2] = t[1] /\ Len(xs[1]) = 2
      /\ xs[2][1] = s[2] /\ xs[2][2] = t[2] /\ Len(xs[2]) = 2
  BY <1>1
<1> HIDE DEF xs
<1>5. PairPrepared(xs[0], rs[0]) /\ PairPrepared(xs[1], rs[1]) /\ PairPrepared(xs[2], rs[2])
  BY <1>3, <1>4, PreparedPair
<1>6. /\ Prepared(0, xs[0], rs[0]).os0 = <<e0 (+) A>>
      /\ Prepared(0, xs[0], rs[0]).add2 = <<e0, A>>
  BY <1>4, <1>5 DEF PairPrepared
<1>7. /\ Prepared(1, xs[1], rs[1]).os0 = <<e1 (+) B>>
      /\ Prepared(1, xs[1], rs[1]).add2 = <<e1 (+) C, B (+) C>>
  BY <1>4, <1>5 DEF PairPrepared, PairedDraws
<1>8. /\ Prepared(2, xs[2], rs[2]).os0 = <<e2 (+) C>>
      /\ Prepared(2, xs[2], rs[2]).add2 = <<C (+) B, e2 (+) C (+) A>>
  BY <1>4, <1>5 DEF PairPrepared, PairedDraws
<1> HIDE DEF e0, e1, e2, A, B, C
<1>9. z[0] = Sh(e0 (+) (e1 (+) B) (+) (e2 (+) C), (e2 (+) C) (+) A)
  BY <1>1, <1>4, <1>6, <1>7, <1>8 DEF AndOf, Finalized, FinalizedPair
<1>10. z[1] = Sh((e0 (+) A) (+) (e1 (+) C), B (+) C)
  BY <1>1, <1>4, <1>6, <1>7 DEF AndOf, Finalized, FinalizedPair
<1>11. z[2] = Sh(C (+) B, e2 (+) C (+) A)
  BY <1>1, <1>4, <1>8 DEF AndOf, Finalized, FinalizedPair
<1> HIDE DEF z
<1>12. /\ z[0][0] = e0 (+) (e1 (+) B) (+) (e2 (+) C) /\ z[0][1] = (e2 (+) C) (+) A
       /\ z[1][0] = (e0 (+) A) (+) (e1 (+) C) /\ z[1][1] = B (+) C
       /\ z[2][0] = C (+) B /\ z[2][1] = e2 (+) C (+) A
  BY <1>9, <1>10, <1>11 DEF Sh
<1>13. Consistent(z)
  <2>1. z[0][1] = z[2][1]
    BY <1>12
  <2>2. z[1][1] = z[2][0]
    BY <1>12 DEF (+)
  <2>3. z[0][0] (+) z[2][0] = z[1][0] (+) z[2][1]
    BY <1>12 DEF (+)
  <2> QED
    BY <2>1, <2>2, <2>3 DEF Consistent
<1>14. Opened(z) = e0 (+) e1 (+) e2
  <2>1. Opened(z) = z[0][0] (+) z[2][0]
    BY DEF Opened, OpenAt, OpenFrom, Before
  <2> QED
    BY <1>12, <2>1 DEF (+)
<1>15. e0 (+) e1 (+) e2 = Opened(s) \cap Opened(t)
  <2>1. /\ Opened(s) = s[0][0] (+) s[2][0] /\ Opened(t) = t[0][0] (+) t[2][0]
    BY DEF Opened, OpenAt, OpenFrom, Before
  <2>2. /\ s[1][1] = s[2][0] /\ t[1][1] = t[2][0]
        /\ s[1][0] (+) s[2][1] = s[0][0] (+) s[2][0]
        /\ t[1][0] (+) t[2][1] = t[0][0] (+) t[2][0]
    BY DEF Consistent
  <2> QED
    BY <2>1, <2>2 DEF (+), PairTerm, PairCross, e0, e1, e2
<1> QED
  BY <1>13, <1>14, <1>15 DEF xs, z

-----------------------------------------------------------------------------
(***************************************************************************)
(* The AND of any number of operands.  A sum of words counts in each lane  *)
(* the terms that hold 1, and only the parity of that number matters.  So  *)
(* the algebra of the formulas becomes statements on the parity of finite  *)
(* sets of operands and of monomials.                                      *)
(***************************************************************************)
Odd(A) == Cardinality(A) % 2 = 1

(* Adding words adds parities.                                             *)
LEMMA OddXor ==
    ASSUME NEW A, NEW B, IsFiniteSet(A), IsFiniteSet(B)
    PROVE  /\ IsFiniteSet(A (+) B)
           /\ Odd(A (+) B) <=> ~(Odd(A) <=> Odd(B))
<1> DEFINE C == A \cap B
           a == Cardinality(A)
           b == Cardinality(B)
           c == Cardinality(C)
<1>1. IsFiniteSet(C) /\ IsFiniteSet(A \ B) /\ IsFiniteSet(B \ A)
  BY FS_Intersection, FS_Difference
<1>2. Cardinality(A \ B) = a - c
  BY FS_Difference
<1>3. Cardinality(B \ A) = b - c
  <2>1. B \cap A = C
    OBVIOUS
  <2>2. Cardinality(B \ A) = Cardinality(B) - Cardinality(B \cap A)
    BY ONLY IsFiniteSet(B), FS_Difference
  <2> QED
    BY <2>1, <2>2
<1>4. (A \ B) \cap (B \ A) = {}
  OBVIOUS
<1>5. IsFiniteSet((A \ B) \cup (B \ A))
  BY <1>1, FS_Union
<1>6. Cardinality((A \ B) \cup (B \ A)) = (a - c) + (b - c)
  <2>1. Cardinality((A \ B) \cup (B \ A)) = (a - c) + (b - c) - Cardinality({})
    BY <1>1, <1>2, <1>3, <1>4, FS_Union
  <2>2. a \in Nat /\ b \in Nat /\ c \in Nat /\ Cardinality({}) = 0
    BY <1>1, FS_CardinalityType, FS_EmptySet
  <2> HIDE DEF a, b, c
  <2> QED
    BY <2>1, <2>2
<1>7. a \in Nat /\ b \in Nat /\ c \in Nat
  BY <1>1, FS_CardinalityType
<1> HIDE DEF a, b, c
<1>8. ((a - c) + (b - c)) % 2 = 1 <=> ~(a % 2 = 1 <=> b % 2 = 1)
  BY <1>7
<1> QED
  BY <1>5, <1>6, <1>8 DEF Odd, (+), a, b

(* Two sets that correspond one to one.                                    *)
LEMMA Corresponding ==
    ASSUME NEW A, NEW B, IsFiniteSet(A), NEW g \in [A -> B],
           \A x, y \in A : g[x] = g[y] => x = y,
           \A z \in B : \E x \in A : g[x] = z
    PROVE  IsFiniteSet(B) /\ Cardinality(B) = Cardinality(A) /\ (Odd(A) <=> Odd(B))
<1>1. g \in Bijection(A, B)
  BY Fun_IsBij
<1>2. ExistsBijection(A, B)
  BY <1>1 DEF ExistsBijection
<1> QED
  BY <1>2, FS_Bijection DEF Odd

LEMMA OddSmall ==
    /\ ~Odd({})
    /\ \A x : Odd({x})
<1>1. Cardinality({}) = 0 /\ \A x : Cardinality({x}) = 1
  BY FS_EmptySet, FS_Singleton
<1> QED
  BY <1>1 DEF Odd

(* Sets of more than one element.                                          *)
LEMMA SeveralElements ==
    ASSUME NEW I, IsFiniteSet(I)
    PROVE  Cardinality(I) > 1 <=> I # {} /\ \A x : I # {x}
<1>1. Cardinality(I) \in Nat
  BY FS_CardinalityType
<1>2. Cardinality(I) = 0 <=> I = {}
  BY FS_EmptySet
<1>3. Cardinality(I) = 1 <=> \E x : I = {x}
  BY FS_Singleton
<1>4. Cardinality(I) > 1 <=> ~(Cardinality(I) = 0) /\ ~(Cardinality(I) = 1)
  BY <1>1
<1>5. Cardinality(I) > 1 <=> I # {} /\ ~\E x : I = {x}
  BY <1>2, <1>3, <1>4
<1> QED
  BY <1>5

-----------------------------------------------------------------------------
(***************************************************************************)
(* The expansion of a product of sums.  F are the operands, V those that   *)
(* hold 1, P those whose mask is 1, so the sum of the two is 1 for V (+) P.*)
(* A monomial I contributes where all of I has the sum 1 and all the rest  *)
(* the mask 1.                                                             *)
(***************************************************************************)
Contributing(F, P, Q) == {I \in SUBSET F : I \subseteq Q /\ F \ I \subseteq P}

Terms(F, P, Q)  == {I \in Several(F) : I \subseteq Q /\ F \ I \subseteq P}
Single(F, P, Q) == {i \in Q : F \ {i} \subseteq P}

(* Over all monomials the masks cancel and the product of V is left: if an *)
(* operand is 0, then the monomials with it and without it are as many.    *)
LEMMA MasksCancel ==
    ASSUME NEW F, IsFiniteSet(F), NEW P \in SUBSET F, NEW V \in SUBSET F
    PROVE  /\ IsFiniteSet(Contributing(F, P, P (+) V))
           /\ Odd(Contributing(F, P, P (+) V)) <=> V = F
<1> DEFINE Q == P (+) V
           All == Contributing(F, P, Q)
<1>1. IsFiniteSet(All)
  <2>1. IsFiniteSet(SUBSET F)
    BY FS_SUBSET
  <2> QED
    BY <2>1, FS_Subset DEF Contributing
<1>2. CASE V = F
  <2>1. Q = F \ P
    BY <1>2 DEF (+)
  <2>2. All = {F \ P}
    BY <2>1 DEF Contributing
  <2> QED
    BY <1>1, <1>2, <2>2, OddSmall
<1>3. CASE V # F
  <2>1. PICK e \in F : e \notin V
    BY <1>3
  <2>2. CASE e \notin P
    <3>1. e \notin Q
      BY <2>1, <2>2 DEF (+)
    <3>2. All = {}
      BY <2>1, <2>2, <3>1 DEF Contributing
    <3> QED
      BY <1>1, <1>3, <3>2, OddSmall
  <2>3. CASE e \in P
    <3> DEFINE With    == {I \in All : e \in I}
               Without == {I \in All : e \notin I}
               g       == [I \in With |-> I \ {e}]
    <3>1. e \in Q
      BY <2>1, <2>3 DEF (+)
    <3>2. ASSUME NEW I \in With PROVE I \ {e} \in Without
      BY <2>3, <3>2 DEF Contributing
    <3>3. ASSUME NEW I \in Without PROVE I \cup {e} \in With /\ (I \cup {e}) \ {e} = I
      BY <2>1, <3>1, <3>3 DEF Contributing
    <3>4. ASSUME NEW I \in With, NEW J \in With, I \ {e} = J \ {e} PROVE I = J
      BY <3>4
    <3>5. IsFiniteSet(With) /\ IsFiniteSet(Without)
      BY <1>1, FS_Subset
    <3> HIDE DEF With, Without, All, Q
    <3>6. g \in [With -> Without] /\ \A I \in With : g[I] = I \ {e}
      BY <3>2
    <3>7. Odd(With) <=> Odd(Without)
      <4>1. \A I, J \in With : g[I] = g[J] => I = J
        BY <3>4, <3>6
      <4>2. \A J \in Without : \E I \in With : g[I] = J
        BY <3>3, <3>6
      <4> HIDE DEF g
      <4> QED
        BY <3>5, <3>6, <4>1, <4>2, Corresponding
    <3>8. All = With (+) Without
      BY DEF With, Without, (+)
    <3>9. ~Odd(All)
      BY <3>5, <3>7, <3>8, OddXor
    <3> QED
      BY <1>1, <1>3, <3>9 DEF All, Q
  <2> QED
    BY <2>2, <2>3
<1> QED
  BY <1>2, <1>3

(* Without the empty and the one-element monomials, which the protocol     *)
(* does not mask.                                                          *)
LEMMA TermsOdd ==
    ASSUME NEW F, IsFiniteSet(F), NEW P \in SUBSET F, NEW V \in SUBSET F
    PROVE  LET Q == P (+) V
           IN  /\ IsFiniteSet(Terms(F, P, Q)) /\ IsFiniteSet(Single(F, P, Q))
               /\ Odd(Terms(F, P, Q)) <=> ((V = F) <=> ((P = F) <=> Odd(Single(F, P, Q))))
<1> DEFINE Q == P (+) V
           All  == Contributing(F, P, Q)
           Null == {I \in All : I = {}}
           Ones == {I \in All : \E i : I = {i}}
           Many == Terms(F, P, Q)
           Lone == Single(F, P, Q)
           g    == [i \in Lone |-> {i}]
<1>1. IsFiniteSet(All) /\ (Odd(All) <=> V = F)
  BY MasksCancel
<1>2. Q \subseteq F
  BY DEF (+)
<1>3. IsFiniteSet(Lone)
  BY <1>2, FS_Subset DEF Single
<1>4. IsFiniteSet(Null) /\ IsFiniteSet(Ones)
  BY <1>1, FS_Subset
<1>5. Odd(Null) <=> P = F
  <2>1. CASE P = F
    <3>1. Null = {{}}
      BY <2>1 DEF Contributing
    <3> QED
      BY <2>1, <3>1, OddSmall
  <2>2. CASE P # F
    <3>1. Null = {}
      BY <2>2 DEF Contributing
    <3> QED
      BY <2>2, <3>1, OddSmall
  <2> QED
    BY <2>1, <2>2
<1>6. Odd(Ones) <=> Odd(Lone)
  <2>1. \A i \in Lone : {i} \in Ones
    BY <1>2 DEF Contributing, Single
  <2>2. g \in [Lone -> Ones]
    BY <2>1
  <2>3. \A I \in Ones : \E i \in Lone : g[i] = I
    <3> SUFFICES ASSUME NEW I \in Ones PROVE \E i \in Lone : {i} = I
      OBVIOUS
    <3>1. PICK i : I = {i}
      OBVIOUS
    <3>2. i \in Lone
      BY <3>1 DEF Contributing, Single
    <3> QED
      BY <3>1, <3>2
  <2>4. \A i, j \in Lone : g[i] = g[j] => i = j
    OBVIOUS
  <2> HIDE DEF Lone, Ones, g
  <2> QED
    BY <1>3, <2>2, <2>3, <2>4, Corresponding
<1>7. Many = All (+) (Null (+) Ones)
  <2>1. ASSUME NEW I \in SUBSET F
        PROVE  Cardinality(I) > 1 <=> I # {} /\ \A x : I # {x}
    <3>1. IsFiniteSet(I)
      BY FS_Subset
    <3> QED
      BY <3>1, SeveralElements
  <2>2. \A I : I \in Many <=> I \in All /\ Cardinality(I) > 1
    BY DEF Terms, Several, Contributing
  <2>3. \A I : I \in All => I \in SUBSET F
    BY DEF Contributing
  <2>4. \A I : I \in Many <=> I \in All /\ I # {} /\ \A x : I # {x}
    BY <2>1, <2>2, <2>3
  <2>5. \A I : I \in Null (+) Ones <=> I \in All /\ (I = {} \/ \E i : I = {i})
    <3>1. \A i : {i} # {}
      OBVIOUS
    <3> HIDE DEF All
    <3> QED
      BY <3>1 DEF (+)
  <2> HIDE DEF Many, All, Null, Ones
  <2>6. \A I : I \in Many <=> I \in All (+) (Null (+) Ones)
    BY <2>4, <2>5 DEF (+)
  <2> QED
    BY <2>6
<1> HIDE DEF All, Null, Ones, Many, Lone
<1>8. /\ IsFiniteSet(Null (+) Ones)
      /\ Odd(Null (+) Ones) <=> ~(Odd(Null) <=> Odd(Ones))
  BY <1>4, OddXor
<1>9. IsFiniteSet(Many) /\ (Odd(Many) <=> ~(Odd(All) <=> Odd(Null (+) Ones)))
  BY <1>1, <1>7, <1>8, OddXor
<1>10. Odd(Many) <=> ((V = F) <=> ((P = F) <=> Odd(Lone)))
  BY <1>1, <1>5, <1>6, <1>8, <1>9
<1> QED
  BY <1>3, <1>9, <1>10 DEF Many, Lone

(* With the cross terms of the two sides and the last term of even fan-ins *)
(* everything but the product of the operands is gone.                     *)
LEMMA OnlyProductLeft ==
    ASSUME NEW F, IsFiniteSet(F), NEW P \in SUBSET F, NEW V \in SUBSET F
    PROVE  /\ IsFiniteSet(Terms(F, P, P (+) V)) /\ IsFiniteSet(Single(F, P, V))
           /\ (V = F) <=> ( Odd(Terms(F, P, P (+) V))
                            <=> (Odd(Single(F, P, V)) <=> ~Odd(F) /\ P = F))
<1> DEFINE Q == P (+) V
           all == P = F
<1>1. Q \in SUBSET F
  BY DEF (+)
<1>2. \A S \in SUBSET F : IsFiniteSet(Single(F, P, S))
  <2> TAKE S \in SUBSET F
  <2> QED
    BY FS_Subset DEF Single
<1>3. Single(F, P, Q) (+) Single(F, P, V) = Single(F, P, P)
  BY DEF (+), Single
<1>4. Odd(Single(F, P, P)) <=> all /\ Odd(F)
  <2>1. CASE P = F
    <3>1. Single(F, P, P) = F
      BY <2>1 DEF Single
    <3> QED
      BY <2>1, <3>1
  <2>2. CASE P # F
    <3>1. Single(F, P, P) = {}
      BY <2>2 DEF Single
    <3> QED
      BY <2>2, <3>1, OddSmall
  <2> QED
    BY <2>1, <2>2
<1>5. Odd(Single(F, P, P)) <=> ~(Odd(Single(F, P, Q)) <=> Odd(Single(F, P, V)))
  BY <1>1, <1>2, <1>3, OddXor
<1>6. /\ IsFiniteSet(Terms(F, P, Q))
      /\ Odd(Terms(F, P, Q)) <=> ((V = F) <=> (all <=> Odd(Single(F, P, Q))))
  BY TermsOdd
<1> HIDE DEF all, Q
<1>7. (V = F) <=> ( Odd(Terms(F, P, Q)) <=> (Odd(Single(F, P, V)) <=> ~Odd(F) /\ all))
  BY <1>4, <1>5, <1>6
<1> QED
  BY <1>2, <1>6, <1>7 DEF all, Q

-----------------------------------------------------------------------------
(***************************************************************************)
(* The formulas, lane by lane.                                             *)
(***************************************************************************)
Ones(x, c, l) == {i \in 1 .. Len(x) : l \in x[i][c]}

(* Monomials(f) names each monomial once.                                  *)
Enumerated(f) ==
    /\ \A k \in 1 .. NumMonomials(f) : Monomials(f)[k] \in Several(1 .. f)
    /\ \A k, m \in 1 .. NumMonomials(f) : Monomials(f)[k] = Monomials(f)[m] => k = m
    /\ \A I \in Several(1 .. f) : \E k \in 1 .. NumMonomials(f) : Monomials(f)[k] = I

(***************************************************************************)
(* The general order of the monomials is a strict total order, and the     *)
(* position of a monomial is the number of monomials before it.            *)
(***************************************************************************)
LEMMA LargestElement ==
    ASSUME NEW D, IsFiniteSet(D), D \in SUBSET Nat, D # {}
    PROVE  \E m \in D : \A d \in D : d <= m
<1> DEFINE U(d) == {e \in D : e > d}
           T    == {U(d) : d \in D}
<1>1. IsWellFoundedOn(StrictSubsetOrdering(D), FiniteSubsetsOf(D))
  BY FS_StrictSubsetOrderingWellFounded
<1>2. T \subseteq FiniteSubsetsOf(D)
  <2>1. \A d \in D : U(d) \in SUBSET D
    OBVIOUS
  <2>2. \A d \in D : IsFiniteSet(U(d))
    BY <2>1, FS_Subset
  <2> QED
    BY <2>1, <2>2 DEF FiniteSubsetsOf
<1>3. T # {}
  OBVIOUS
<1>4. PICK X \in T : \A Y \in T : ~(<<Y, X>> \in StrictSubsetOrdering(D))
  <2> HIDE DEF T
  <2> QED
    BY <1>1, <1>2, <1>3, WFMin
<1>5. PICK m \in D : X = U(m)
  BY <1>4
<1>6. ASSUME NEW d \in D, d > m PROVE FALSE
  <2>1. U(d) \in T /\ U(d) \in SUBSET D /\ U(m) \in SUBSET D
    OBVIOUS
  <2>2. U(d) \subseteq U(m)
    <3>1. \A e \in D : e \in Nat
      OBVIOUS
    <3>2. \A e \in D : e > d => e > m
      BY <1>6, <3>1
    <3> QED
      BY <3>2
  <2>3. d \in U(m) /\ d \notin U(d)
    BY <1>6
  <2>4. <<U(d), U(m)>> \in StrictSubsetOrdering(D)
    <3> HIDE DEF U
    <3> QED
      BY <2>1, <2>2, <2>3 DEF StrictSubsetOrdering
  <2> QED
    BY <1>4, <1>5, <2>1, <2>4
<1> QED
  BY <1>6

LEMMA MasksOrdered ==
    ASSUME NEW f \in Nat
    PROVE  /\ \A I \in SUBSET (1 .. f) : ~LargerMask(I, I)
           /\ \A I, J, K \in SUBSET (1 .. f) :
                 LargerMask(I, J) /\ LargerMask(J, K) => LargerMask(I, K)
           /\ \A I, J \in SUBSET (1 .. f) :
                 I # J => LargerMask(I, J) \/ LargerMask(J, I)
<1>1. \A I \in SUBSET (1 .. f) : ~LargerMask(I, I)
  BY DEF LargerMask
<1>2. ASSUME NEW I \in SUBSET (1 .. f), NEW J \in SUBSET (1 .. f), NEW K \in SUBSET (1 .. f),
             LargerMask(I, J), LargerMask(J, K)
      PROVE  LargerMask(I, K)
  <2>1. PICK i \in I \ J : \A x \in J \ I : x < i
    BY <1>2 DEF LargerMask
  <2>2. PICK j \in J \ K : \A x \in K \ J : x < j
    BY <1>2 DEF LargerMask
  <2>3. i \in Nat /\ j \in Nat /\ i # j /\ \A x \in I \cup J \cup K : x \in Nat
    OBVIOUS
  <2>4. CASE i > j
    <3>1. i \in I \ K
      BY <2>1, <2>2, <2>3, <2>4
    <3>2. \A x \in K \ I : x < i
      BY <2>1, <2>2, <2>3, <2>4
    <3> QED
      BY <3>1, <3>2 DEF LargerMask
  <2>5. CASE i < j
    <3>1. j \in I \ K
      BY <2>1, <2>2, <2>3, <2>5
    <3>2. \A x \in K \ I : x < j
      BY <2>1, <2>2, <2>3, <2>5
    <3> QED
      BY <3>1, <3>2 DEF LargerMask
  <2> QED
    BY <2>3, <2>4, <2>5
<1>3. ASSUME NEW I \in SUBSET (1 .. f), NEW J \in SUBSET (1 .. f), I # J
      PROVE  LargerMask(I, J) \/ LargerMask(J, I)
  <2> DEFINE D == (I \ J) \cup (J \ I)
  <2>1. D # {} /\ D \in SUBSET Nat /\ D \in SUBSET (1 .. f)
    BY <1>3
  <2>2. IsFiniteSet(1 .. f)
    BY FS_Interval
  <2>3. IsFiniteSet(D)
    <3> HIDE DEF D
    <3> QED
      BY <2>1, <2>2, FS_Subset
  <2>4. PICK m \in D : \A d \in D : d <= m
    <3> HIDE DEF D
    <3> QED
      BY <2>1, <2>3, LargestElement
  <2>5. CASE m \in I \ J
    <3>1. \A j \in J \ I : j < m
      BY <2>1, <2>4, <2>5
    <3> QED
      BY <2>5, <3>1 DEF LargerMask
  <2>6. CASE m \in J \ I
    <3>1. \A j \in I \ J : j < m
      BY <2>1, <2>4, <2>6
    <3> QED
      BY <2>6, <3>1 DEF LargerMask
  <2> QED
    BY <2>4, <2>5, <2>6
<1> QED
  BY <1>1, <1>2, <1>3

LEMMA SeveralFinite ==
    ASSUME NEW f \in Nat
    PROVE  IsFiniteSet(Several(1 .. f))
<1>1. IsFiniteSet(1 .. f)
  BY FS_Interval
<1>2. IsFiniteSet(SUBSET (1 .. f))
  BY <1>1, FS_SUBSET
<1> QED
  BY <1>2, FS_Subset DEF Several

(* Each position belongs to one monomial.                                  *)
LEMMA Positions ==
    ASSUME NEW f \in Nat
    PROVE  LET M == Several(1 .. f)
               position(I) == Cardinality(MasksAbove(I, 1 .. f))
           IN  /\ \A I \in M : position(I) \in 0 .. NumMonomials(f) - 1
               /\ \A I, J \in M : position(I) = position(J) => I = J
               /\ \A k \in 0 .. NumMonomials(f) - 1 : \E I \in M : position(I) = k
<1> DEFINE F == 1 .. f
           M == Several(F)
           n == NumMonomials(f)
           R(I) == MasksAbove(I, F)
           position(I) == Cardinality(R(I))
           g == [I \in M |-> position(I) + 1]
<1>1. IsFiniteSet(M) /\ M \subseteq SUBSET F /\ n = Cardinality(M)
  BY SeveralFinite DEF NumMonomials, Several
<1>2. n \in Nat
  BY NumMonomialsType
<1>3. /\ \A I : R(I) \in SUBSET M
      /\ \A I, J : J \in R(I) <=> J \in M /\ LargerMask(J, I)
  BY DEF MasksAbove
<1>4. \A I : IsFiniteSet(R(I)) /\ position(I) \in Nat
  <2> HIDE DEF R, M
  <2> QED
    BY <1>1, <1>3, FS_Subset, FS_CardinalityType
<1>5. ASSUME NEW I \in M PROVE position(I) < n
  <2>1. I \notin R(I)
    BY <1>1, <1>3, MasksOrdered
  <2>2. R(I) # M
    BY <2>1
  <2> HIDE DEF R, M, n
  <2>3. Cardinality(R(I)) <= n /\ Cardinality(R(I)) # n
    BY <1>1, <1>3, <2>2, FS_Subset
  <2> QED
    BY <1>2, <1>4, <2>3
<1>6. ASSUME NEW I \in M, NEW J \in M, LargerMask(I, J) PROVE position(I) # position(J)
  <2>1. R(I) \in SUBSET R(J)
    <3> SUFFICES ASSUME NEW K \in R(I) PROVE K \in R(J)
      OBVIOUS
    <3>1. K \in M /\ LargerMask(K, I)
      BY <1>3
    <3>2. LargerMask(K, J)
      BY <1>1, <1>6, <3>1, MasksOrdered
    <3> QED
      BY <1>3, <3>1, <3>2
  <2>2. I \in R(J) /\ I \notin R(I)
    BY <1>1, <1>3, <1>6, MasksOrdered
  <2>3. R(I) # R(J)
    BY <2>2
  <2> HIDE DEF R
  <2> QED
    BY <1>4, <2>1, <2>3, FS_Subset
<1>7. ASSUME NEW I \in M, NEW J \in M, position(I) = position(J) PROVE I = J
  <2>1. ~LargerMask(I, J) /\ ~LargerMask(J, I)
    BY <1>6, <1>7
  <2> QED
    BY <1>1, <2>1, MasksOrdered
<1> HIDE DEF R, M, n
<1>8. g \in [M -> 1 .. n] /\ \A I \in M : g[I] = position(I) + 1
  BY <1>2, <1>4, <1>5
<1>9. \A I, J \in M : g[I] = g[J] => I = J
  BY <1>4, <1>7, <1>8
<1>10. g \in Injection(M, 1 .. n)
  <2> HIDE DEF g
  <2> QED
    BY <1>8, <1>9 DEF Injection, IsInjective
<1>11. IsFiniteSet(1 .. n) /\ Cardinality(1 .. n) = n
  BY <1>2, FS_Interval
<1>12. g \in Surjection(M, 1 .. n)
  <2> HIDE DEF g
  <2> QED
    BY <1>1, <1>10, <1>11, FS_Injection
<1>13. \A k \in 1 .. n : \E I \in M : g[I] = k
  <2> HIDE DEF g
  <2> QED
    BY <1>12 DEF Surjection
<1>14. \A k \in 0 .. n - 1 : \E I \in M : position(I) = k
  <2> TAKE k \in 0 .. n - 1
  <2>1. k + 1 \in 1 .. n
    BY <1>2
  <2>2. PICK I \in M : g[I] = k + 1
    BY <1>13, <2>1
  <2>3. position(I) = k
    BY <1>4, <1>8, <2>2
  <2> QED
    BY <2>3
<1>15. \A I \in M : position(I) \in 0 .. n - 1
  BY <1>2, <1>4, <1>5
<1> QED
  BY <1>7, <1>14, <1>15 DEF R, M, n

LEMMA GeneralEnumeration ==
    ASSUME NEW f \in Nat, f > 4
    PROVE  Enumerated(f)
<1> DEFINE M == Several(1 .. f)
           n == NumMonomials(f)
           position(I) == Cardinality(MasksAbove(I, 1 .. f))
           E == Monomials(f)
<1>1. n \in Nat
  BY NumMonomialsType
<1>2. E = [k \in 1 .. n |-> CHOOSE I \in M : position(I) = k - 1]
  <2>1. f # 2 /\ f # 3 /\ f # 4
    OBVIOUS
  <2> QED
    BY <2>1 DEF Monomials
<1>3. /\ \A I \in M : position(I) \in 0 .. n - 1
      /\ \A I, J \in M : position(I) = position(J) => I = J
      /\ \A k \in 0 .. n - 1 : \E I \in M : position(I) = k
  BY Positions
<1> HIDE DEF M, n, position, E
<1>4. ASSUME NEW k \in 1 .. n PROVE E[k] \in M /\ position(E[k]) = k - 1
  <2>1. k - 1 \in 0 .. n - 1
    BY <1>1
  <2>2. \E I \in M : position(I) = k - 1
    BY <1>3, <2>1
  <2>3. E[k] = CHOOSE I \in M : position(I) = k - 1
    BY <1>2
  <2> QED
    BY <2>2, <2>3
<1>5. \A k, m \in 1 .. n : E[k] = E[m] => k = m
  <2> SUFFICES ASSUME NEW k \in 1 .. n, NEW m \in 1 .. n, E[k] = E[m] PROVE k = m
    OBVIOUS
  <2>1. k - 1 = m - 1
    BY <1>4
  <2> QED
    BY <1>1, <2>1
<1>6. ASSUME NEW I \in M PROVE \E k \in 1 .. n : E[k] = I
  <2>1. position(I) \in 0 .. n - 1
    BY <1>3
  <2>2. PICK k \in 1 .. n : k - 1 = position(I)
    <3>1. position(I) + 1 \in 1 .. n /\ (position(I) + 1) - 1 = position(I)
      BY <1>1, <2>1
    <3> QED
      BY <3>1
  <2>3. E[k] = I
    BY <1>3, <1>4, <2>2
  <2> QED
    BY <2>3
<1> QED
  BY <1>4, <1>5, <1>6 DEF Enumerated, M, n, E

(* The written lists are complete as well.                                 *)
LEMMA ListEnumerates ==
    ASSUME NEW f \in Nat, NEW n \in Nat,
           \A k \in 1 .. n : Monomials(f)[k] \in Several(1 .. f),
           \A k, m \in 1 .. n : Monomials(f)[k] = Monomials(f)[m] => k = m,
           \A I \in Several(1 .. f) : \E k \in 1 .. n : Monomials(f)[k] = I
    PROVE  Enumerated(f) /\ NumMonomials(f) = n
<1> DEFINE g == [k \in 1 .. n |-> Monomials(f)[k]]
           M == Several(1 .. f)
<1>1. g \in [1 .. n -> M] /\ \A k \in 1 .. n : g[k] = Monomials(f)[k]
  OBVIOUS
<1>2. IsFiniteSet(1 .. n) /\ Cardinality(1 .. n) = n
  BY FS_Interval
<1>3. Cardinality(M) = n
  <2>1. \A k, m \in 1 .. n : g[k] = g[m] => k = m
    BY <1>1
  <2>2. \A I \in M : \E k \in 1 .. n : g[k] = I
    BY <1>1
  <2> HIDE DEF g, M
  <2> QED
    BY <1>1, <1>2, <2>1, <2>2, Corresponding
<1>4. NumMonomials(f) = n
  BY <1>3 DEF NumMonomials
<1> QED
  BY <1>4 DEF Enumerated

(* Sets with two elements, and subsets of small intervals.                 *)
LEMMA TwoElements ==
    ASSUME NEW f \in Nat, NEW I \in SUBSET (1 .. f)
    PROVE  I \in Several(1 .. f) <=> \E i, j \in I : i # j
<1>1. IsFiniteSet(I)
  <2>1. IsFiniteSet(1 .. f)
    BY FS_Interval
  <2> QED
    BY <2>1, FS_Subset
<1>2. I \in Several(1 .. f) <=> I # {} /\ \A x : I # {x}
  BY <1>1, SeveralElements DEF Several
<1>3. ASSUME NEW i \in I, NEW j \in I, i # j PROVE I # {} /\ \A x : I # {x}
  BY <1>3
<1>4. ASSUME I # {}, \A x : I # {x} PROVE \E i, j \in I : i # j
  <2>1. PICK i : i \in I
    BY <1>4
  <2>2. I # {i}
    BY <1>4
  <2> QED
    BY <2>1, <2>2
<1> QED
  BY <1>2, <1>3, <1>4

LEMMA EnumeratedTwo == Enumerated(2) /\ NumMonomials(2) = 1
<1> DEFINE E(k) == Monomials(2)[k]
<1>1. /\ E(1) = {1, 2}
  BY DEF Monomials
<1> HIDE DEF E
<1>2. ASSUME NEW k \in 1 .. 1
      PROVE  /\ E(k) \in SUBSET (1 .. 2)
             /\ 1 \in E(k) <=> k \in {1}
             /\ 2 \in E(k) <=> k \in {1}
  <2>1. CASE k = 1
    BY <1>1, <2>1
  <2> QED
    BY <2>1
<1>3. \A k \in 1 .. 1 : \E i, j \in E(k) : i # j
  BY <1>2
<1>4. \A k \in 1 .. 1 : E(k) \in Several(1 .. 2)
  BY <1>2, <1>3, TwoElements
<1>5. \A k, m \in 1 .. 1 : E(k) = E(m) => k = m
  BY <1>2
<1>6. ASSUME NEW I \in Several(1 .. 2) PROVE \E k \in 1 .. 1 : E(k) = I
  <2>1. I \in SUBSET (1 .. 2) /\ \E i, j \in I : i # j
    BY TwoElements DEF Several
  <2>2. PICK k \in 1 .. 1 : \A i \in 1 .. 2 : i \in E(k) <=> i \in I
    BY <1>2, <2>1
  <2>3. E(k) \in SUBSET (1 .. 2)
    BY <1>2
  <2>4. \A i : i \in E(k) <=> i \in I
    BY <2>1, <2>2, <2>3
  <2> QED
    BY <2>4
<1> QED
  BY <1>4, <1>5, <1>6, ListEnumerates DEF E

LEMMA EnumeratedThree == Enumerated(3) /\ NumMonomials(3) = 4
<1> DEFINE E(k) == Monomials(3)[k]
<1>1. /\ E(1) = {1, 2, 3}
      /\ E(2) = {1, 2}
      /\ E(3) = {1, 3}
      /\ E(4) = {2, 3}
  BY DEF Monomials
<1> HIDE DEF E
<1>2. ASSUME NEW k \in 1 .. 4
      PROVE  /\ E(k) \in SUBSET (1 .. 3)
             /\ 1 \in E(k) <=> k \in {1, 2, 3}
             /\ 2 \in E(k) <=> k \in {1, 2, 4}
             /\ 3 \in E(k) <=> k \in {1, 3, 4}
  <2>1. CASE k = 1
    BY <1>1, <2>1
  <2>2. CASE k = 2
    BY <1>1, <2>2
  <2>3. CASE k = 3
    BY <1>1, <2>3
  <2>4. CASE k = 4
    BY <1>1, <2>4
  <2> QED
    BY <2>1, <2>2, <2>3, <2>4
<1>3. \A k \in 1 .. 4 : \E i, j \in E(k) : i # j
  BY <1>2
<1>4. \A k \in 1 .. 4 : E(k) \in Several(1 .. 3)
  BY <1>2, <1>3, TwoElements
<1>5. \A k, m \in 1 .. 4 : E(k) = E(m) => k = m
  BY <1>2
<1>6. ASSUME NEW I \in Several(1 .. 3) PROVE \E k \in 1 .. 4 : E(k) = I
  <2>1. I \in SUBSET (1 .. 3) /\ \E i, j \in I : i # j
    BY TwoElements DEF Several
  <2>2. PICK k \in 1 .. 4 : \A i \in 1 .. 3 : i \in E(k) <=> i \in I
    BY <1>2, <2>1
  <2>3. E(k) \in SUBSET (1 .. 3)
    BY <1>2
  <2>4. \A i : i \in E(k) <=> i \in I
    BY <2>1, <2>2, <2>3
  <2> QED
    BY <2>4
<1> QED
  BY <1>4, <1>5, <1>6, ListEnumerates DEF E

LEMMA EnumeratedFour == Enumerated(4) /\ NumMonomials(4) = 11
<1> DEFINE E(k) == Monomials(4)[k]
<1>1. /\ E(1) = {1, 2, 3, 4}
      /\ E(2) = {1, 2, 3}
      /\ E(3) = {1, 2, 4}
      /\ E(4) = {1, 3, 4}
      /\ E(5) = {2, 3, 4}
      /\ E(6) = {1, 2}
      /\ E(7) = {1, 3}
      /\ E(8) = {1, 4}
      /\ E(9) = {2, 3}
      /\ E(10) = {2, 4}
      /\ E(11) = {3, 4}
  BY DEF Monomials
<1> HIDE DEF E
<1>2. ASSUME NEW k \in 1 .. 11
      PROVE  /\ E(k) \in SUBSET (1 .. 4)
             /\ 1 \in E(k) <=> k \in {1, 2, 3, 4, 6, 7, 8}
             /\ 2 \in E(k) <=> k \in {1, 2, 3, 5, 6, 9, 10}
             /\ 3 \in E(k) <=> k \in {1, 2, 4, 5, 7, 9, 11}
             /\ 4 \in E(k) <=> k \in {1, 3, 4, 5, 8, 10, 11}
  <2>1. CASE k = 1
    BY <1>1, <2>1
  <2>2. CASE k = 2
    BY <1>1, <2>2
  <2>3. CASE k = 3
    BY <1>1, <2>3
  <2>4. CASE k = 4
    BY <1>1, <2>4
  <2>5. CASE k = 5
    BY <1>1, <2>5
  <2>6. CASE k = 6
    BY <1>1, <2>6
  <2>7. CASE k = 7
    BY <1>1, <2>7
  <2>8. CASE k = 8
    BY <1>1, <2>8
  <2>9. CASE k = 9
    BY <1>1, <2>9
  <2>10. CASE k = 10
    BY <1>1, <2>10
  <2>11. CASE k = 11
    BY <1>1, <2>11
  <2> QED
    BY <2>1, <2>2, <2>3, <2>4, <2>5, <2>6, <2>7, <2>8, <2>9, <2>10, <2>11
<1>3. \A k \in 1 .. 11 : \E i, j \in E(k) : i # j
  BY <1>2
<1>4. \A k \in 1 .. 11 : E(k) \in Several(1 .. 4)
  BY <1>2, <1>3, TwoElements
<1>5. \A k, m \in 1 .. 11 : E(k) = E(m) => k = m
  BY <1>2
<1>6. ASSUME NEW I \in Several(1 .. 4) PROVE \E k \in 1 .. 11 : E(k) = I
  <2>1. I \in SUBSET (1 .. 4) /\ \E i, j \in I : i # j
    BY TwoElements DEF Several
  <2>2. PICK k \in 1 .. 11 : \A i \in 1 .. 4 : i \in E(k) <=> i \in I
    BY <1>2, <2>1
  <2>3. E(k) \in SUBSET (1 .. 4)
    BY <1>2
  <2>4. \A i : i \in E(k) <=> i \in I
    BY <2>1, <2>2, <2>3
  <2> QED
    BY <2>4
<1> QED
  BY <1>4, <1>5, <1>6, ListEnumerates DEF E

LEMMA MonomialsEnumerated ==
    ASSUME NEW f \in Nat, f >= 2
    PROVE  Enumerated(f)
<1>1. f = 2 \/ f = 3 \/ f = 4 \/ f > 4
  OBVIOUS
<1> QED
  BY <1>1, EnumeratedTwo, EnumeratedThree, EnumeratedFour, GeneralEnumeration

(* The masked monomials that count in lane l: the word is 1 there and so   *)
(* are the shares P of all operands that the monomial leaves out.          *)
Counted(f, w, l, P) ==
    {k \in 1 .. NumMonomials(f) : l \in w[k] /\ (1 .. f) \ Monomials(f)[k] \subseteq P}

LEMMA ComplementSumAt ==
    ASSUME NEW f \in Nat, NEW x, Len(x) = f, NEW w, NEW c, NEW l \in Lane
    PROVE  /\ IsFiniteSet(Counted(f, w, l, Ones(x, c, l)))
           /\ l \in ComplementSum(w, x, c) <=> Odd(Counted(f, w, l, Ones(x, c, l)))
<1> DEFINE n == NumMonomials(f)
           F == [k \in 1 .. n |-> Times(w[k], x, (1 .. f) \ Monomials(f)[k], c)]
           K == Counted(f, w, l, Ones(x, c, l))
<1>1. n \in Nat
  BY NumMonomialsType
<1>2. IsFiniteSet(1 .. n)
  BY <1>1, FS_Interval
<1>3. IsFiniteSet(K)
  BY <1>2, FS_Subset DEF Counted
<1>4. \A k \in 1 .. n : l \in F[k] <=> k \in K
  BY DEF Times, Ones, Counted
<1>5. {k \in DOMAIN F : l \in F[k]} = K
  <2>1. K \subseteq 1 .. n
    BY DEF Counted
  <2> HIDE DEF K
  <2> QED
    BY <1>4, <2>1
<1> HIDE DEF F, K, n
<1>6. l \in XorSum(F) <=> Odd(K)
  BY <1>5 DEF XorSum, Odd
<1> QED
  BY <1>3, <1>6 DEF ComplementSum, F, K, n

LEMMA CrossSumAt ==
    ASSUME NEW x, Len(x) \in Nat, NEW c, NEW l \in Lane
    PROVE  l \in CrossSum(x, c) <=>
               /\ l \in EmptyProduct(Len(x))
               /\ Odd(Single(1 .. Len(x), Ones(x, 1 - c, l), Ones(x, c, l)))
<1> DEFINE F == [i \in 1 .. Len(x) |-> Cross(x, i, c)]
           K == {i \in DOMAIN F : l \in F[i]}
<1>1. l \in CrossSum(x, c) <=> Odd(K)
  BY DEF CrossSum, XorSum, Odd
<1>2. CASE l \in EmptyProduct(Len(x))
  <2>1. \A i : i \in K <=> i \in Single(1 .. Len(x), Ones(x, 1 - c, l), Ones(x, c, l))
    BY <1>2 DEF Cross, Single, Ones
  <2>2. K = Single(1 .. Len(x), Ones(x, 1 - c, l), Ones(x, c, l))
    BY <2>1
  <2> QED
    BY <1>1, <1>2, <2>2
<1>3. CASE l \notin EmptyProduct(Len(x))
  <2>1. K = {}
    BY <1>3 DEF Cross
  <2> QED
    BY <1>1, <1>3, <2>1, OddSmall
<1> QED
  BY <1>2, <1>3

LEMMA ProductAt ==
    ASSUME NEW x, NEW c, NEW l, NEW v, NEW I \in SUBSET (1 .. Len(x))
    PROVE  l \in Times(v, x, I, c) <=> l \in v /\ I \subseteq Ones(x, c, l)
  BY DEF Times, Ones

(***************************************************************************)
(* The word that party 0 or 1 finalizes is the product of the operands,    *)
(* re-shared with the word that party 2 keeps.  x are its own operand      *)
(* shares, y those of the peer that masked the words w with the draws r,   *)
(* z those of party 2, whose component d is the mask that x holds.         *)
(***************************************************************************)
LastTerm(x) ==
    IF Len(x) % 2 = 0 THEN Times(EmptyProduct(Len(x)), x, 1 .. Len(x), 1) ELSE {}

LEMMA ReSharedWord ==
    ASSUME NEW f \in Nat, f >= 1, Enumerated(f), NEW x, NEW y, NEW z,
           Len(x) = f, Len(y) = f, Len(z) = f,
           NEW d \in {0, 1}, NEW l \in Lane, NEW V \in SUBSET (1 .. f),
           Ones(z, d, l) = Ones(x, 1, l),
           Ones(y, 0, l) = Ones(x, 1, l) (+) V,
           Ones(x, 0, l) = Ones(z, 1 - d, l) (+) V,
           NEW r, NEW w,
           \A k \in 1 .. NumMonomials(f) :
               w[k] = Times(EmptyProduct(f), y, Monomials(f)[k], 0) (+) r[k]
    PROVE  l \in ComplementSum(w, x, 1) (+) CrossSum(x, 0) (+) LastTerm(x) <=>
               ~( l \in EmptyProduct(f) /\ V = 1 .. f
                  <=> l \in ComplementSum(r, z, d) (+) CrossSum(z, 1 - d) )
<1> DEFINE F == 1 .. f
           P == Ones(x, 1, l)
           Q == Ones(y, 0, l)
           R == Ones(x, 0, l)
           A == Ones(z, 1 - d, l)
           n == NumMonomials(f)
           I(k) == Monomials(f)[k]
           Kw == Counted(f, w, l, P)
           Kr == Counted(f, r, l, P)
           Kt == {k \in 1 .. n : I(k) \subseteq Q /\ F \ I(k) \subseteq P}
           on == l \in EmptyProduct(f)
           g  == [k \in Kt |-> I(k)]
<1>1. /\ P \in SUBSET F /\ Q \in SUBSET F /\ R \in SUBSET F /\ A \in SUBSET F
      /\ IsFiniteSet(F) /\ Cardinality(F) = f
  BY FS_Interval DEF Ones
<1>2. IsFiniteSet(Kw) /\ (l \in ComplementSum(w, x, 1) <=> Odd(Kw))
  BY ComplementSumAt
<1>3. IsFiniteSet(Kr) /\ (l \in ComplementSum(r, z, d) <=> Odd(Kr))
  BY ComplementSumAt
<1>4. l \in CrossSum(x, 0) <=> on /\ Odd(Single(F, P, R))
  BY CrossSumAt
<1>5. l \in CrossSum(z, 1 - d) <=> on /\ Odd(Single(F, P, A))
  <2>1. 1 - (1 - d) = d
    OBVIOUS
  <2> QED
    BY <2>1, CrossSumAt
<1>6. l \in LastTerm(x) <=> on /\ ~Odd(F) /\ P = F
  <2>1. Odd(F) <=> ~(f % 2 = 0)
    BY <1>1 DEF Odd
  <2>2. F \subseteq P <=> P = F
    BY <1>1
  <2>3. l \in Times(EmptyProduct(f), x, 1 .. f, 1) <=> on /\ F \subseteq P
    BY ProductAt
  <2> HIDE DEF F, P, on
  <2> QED
    BY <2>1, <2>2, <2>3 DEF LastTerm
<1>7. IsFiniteSet(Kt) /\ (Odd(Kt) <=> Odd(Terms(F, P, Q)))
  <2>1. n \in Nat
    BY NumMonomialsType
  <2>2. IsFiniteSet(Kt)
    <3>1. IsFiniteSet(1 .. n)
      BY <2>1, FS_Interval
    <3> QED
      BY <3>1, FS_Subset
  <2>3. \A k \in Kt : I(k) \in Terms(F, P, Q)
    BY DEF Enumerated, Terms
  <2>4. g \in [Kt -> Terms(F, P, Q)] /\ \A k \in Kt : g[k] = I(k)
    BY <2>3
  <2>5. \A k, m \in Kt : g[k] = g[m] => k = m
    BY <2>4 DEF Enumerated
  <2>6. \A J \in Terms(F, P, Q) : \E k \in Kt : g[k] = J
    <3> SUFFICES ASSUME NEW J \in Terms(F, P, Q) PROVE \E k \in Kt : I(k) = J
      BY <2>4
    <3>1. J \in Several(F) /\ J \subseteq Q /\ F \ J \subseteq P
      BY DEF Terms
    <3>2. PICK k \in 1 .. n : I(k) = J
      BY <3>1 DEF Enumerated
    <3> QED
      BY <3>1, <3>2
  <2> HIDE DEF Kt, g, F, P, Q, I
  <2> QED
    BY <2>2, <2>4, <2>5, <2>6, Corresponding
<1>8. Odd(Kw) <=> ~(on /\ Odd(Kt) <=> Odd(Kr))
  <2>1. \A k \in 1 .. n : l \in w[k] <=> ~(on /\ I(k) \subseteq Q <=> l \in r[k])
    <3> TAKE k \in 1 .. n
    <3>1. I(k) \in SUBSET (1 .. Len(y))
      BY DEF Enumerated, Several
    <3>2. l \in Times(EmptyProduct(f), y, I(k), 0) <=> on /\ I(k) \subseteq Q
      BY <3>1, ProductAt
    <3>3. w[k] = Times(EmptyProduct(f), y, I(k), 0) (+) r[k]
      OBVIOUS
    <3> HIDE DEF on, I, Q
    <3> QED
      BY <3>2, <3>3 DEF (+)
  <2>2. CASE on
    <3>0. /\ \A k : k \in Kw <=> k \in 1 .. n /\ l \in w[k] /\ F \ I(k) \subseteq P
          /\ \A k : k \in Kr <=> k \in 1 .. n /\ l \in r[k] /\ F \ I(k) \subseteq P
      BY DEF Counted
    <3> HIDE DEF on, F, P, Q, I, n, Kw, Kr
    <3>1. \A k : k \in Kw <=> k \in Kt (+) Kr
      BY <2>1, <2>2, <3>0 DEF (+)
    <3>2. Kw = Kt (+) Kr
      BY <3>1
    <3> HIDE DEF Kw, Kt, Kr
    <3> QED
      BY <1>3, <1>7, <2>2, <3>2, OddXor
  <2>3. CASE ~on
    <3>0. /\ \A k : k \in Kw <=> k \in 1 .. n /\ l \in w[k] /\ F \ I(k) \subseteq P
          /\ \A k : k \in Kr <=> k \in 1 .. n /\ l \in r[k] /\ F \ I(k) \subseteq P
      BY DEF Counted
    <3> HIDE DEF on, F, P, Q, I, n, Kw, Kr
    <3>1. \A k : k \in Kw <=> k \in Kr
      BY <2>1, <2>3, <3>0
    <3>2. Kw = Kr
      BY <3>1
    <3> HIDE DEF Kw, Kt, Kr
    <3> QED
      BY <2>3, <3>2
  <2> QED
    BY <2>2, <2>3
<1>9. ~(Odd(Single(F, P, R)) <=> Odd(Single(F, P, A))) <=> Odd(Single(F, P, V))
  <2>1. Single(F, P, R) (+) Single(F, P, A) = Single(F, P, V)
    BY DEF (+), Single
  <2>2. IsFiniteSet(Single(F, P, R)) /\ IsFiniteSet(Single(F, P, A))
    <3>1. Single(F, P, R) \in SUBSET F /\ Single(F, P, A) \in SUBSET F
      BY <1>1 DEF Single
    <3> QED
      BY <1>1, <3>1, FS_Subset
  <2> DEFINE X == Single(F, P, R)
             Y == Single(F, P, A)
  <2>3. IsFiniteSet(X) /\ IsFiniteSet(Y) /\ X (+) Y = Single(F, P, V)
    BY <2>1, <2>2
  <2> HIDE DEF X, Y, F, P
  <2>4. Odd(X (+) Y) <=> ~(Odd(X) <=> Odd(Y))
    BY ONLY <2>3, OddXor
  <2>5. ~(Odd(X) <=> Odd(Y)) <=> Odd(Single(F, P, V))
    BY ONLY <2>3, <2>4
  <2> QED
    BY <2>5 DEF X, Y, F, P
<1>10. (V = F) <=> (Odd(Terms(F, P, Q)) <=> (Odd(Single(F, P, V)) <=> ~Odd(F) /\ P = F))
  <2>1. IsFiniteSet(F) /\ P \in SUBSET F /\ V \in SUBSET F
    BY <1>1
  <2>2. Q = P (+) V
    OBVIOUS
  <2> HIDE DEF F, P, Q
  <2>3. (V = F) <=> ( Odd(Terms(F, P, P (+) V))
                      <=> (Odd(Single(F, P, V)) <=> ~Odd(F) /\ P = F))
    BY ONLY <2>1, OnlyProductLeft
  <2> QED
    BY <2>2, <2>3
<1> DEFINE cw == l \in ComplementSum(w, x, 1)
           cx == l \in CrossSum(x, 0)
           lt == l \in LastTerm(x)
           cr == l \in ComplementSum(r, z, d)
           cz == l \in CrossSum(z, 1 - d)
<1>11. l \in ComplementSum(w, x, 1) (+) CrossSum(x, 0) (+) LastTerm(x) <=>
           (cw <=> (cx <=> lt))
  BY DEF (+)
<1>12. l \in ComplementSum(r, z, d) (+) CrossSum(z, 1 - d) <=> ~(cr <=> cz)
  BY DEF (+)
<1> DEFINE full == V = 1 .. f
           even == ~Odd(F) /\ P = F
<1>13. (cw <=> (cx <=> lt)) <=> ~(on /\ full <=> ~(cr <=> cz))
  <2>1. (cw <=> Odd(Kw)) /\ (cr <=> Odd(Kr))
    BY <1>2, <1>3
  <2>2. (cx <=> on /\ Odd(Single(F, P, R))) /\ (cz <=> on /\ Odd(Single(F, P, A)))
    BY <1>4, <1>5
  <2>3. lt <=> on /\ even
    BY <1>6
  <2>4. full <=> (Odd(Terms(F, P, Q)) <=> (Odd(Single(F, P, V)) <=> even))
    BY <1>10
  <2> HIDE DEF cw, cx, lt, cr, cz, on, full, even, Kw, Kr, Kt, F, P, Q, R, A
  <2> QED
    BY <1>7, <1>8, <1>9, <2>1, <2>2, <2>3, <2>4
<1> QED
  BY <1>11, <1>12, <1>13

-----------------------------------------------------------------------------
(* The i-th operand as the three parties share it, and the operands that   *)
(* are 1 in lane l.                                                        *)
OperandOf(xs, i)   == [p \in Party |-> xs[p][i]]
TrueOperands(xs, f, l) == {i \in 1 .. f : l \in Opened(OperandOf(xs, i))}

(* The draws of one AND as the shared generators give them to the parties. *)
SharedDraws(rs, f) ==
    /\ \A k \in 1 .. NumMonomials(f) :
          rs[2][2][k] = rs[0][0][k] /\ rs[2][3][k] = rs[1][1][k]
    /\ rs[2][0][1] = rs[1][2][1] /\ rs[2][0][1] \in Vec
    /\ f # 2 => rs[2][1][1] = rs[0][3][1] /\ rs[2][1][1] \in Vec
    /\ f = 2 => rs[0][0][1] \in Vec /\ rs[1][1][1] \in Vec

(* In each lane the operands are shared as MultiReplicatedInput deals them.*)
LEMMA OperandsAt ==
    ASSUME NEW f \in Nat, NEW xs, \A p \in Party : Len(xs[p]) = f,
           \A i \in 1 .. f : Consistent(OperandOf(xs, i)), NEW l
    PROVE  LET V == TrueOperands(xs, f, l)
           IN  /\ Ones(xs[2], 1, l) = Ones(xs[0], 1, l)
               /\ Ones(xs[2], 0, l) = Ones(xs[1], 1, l)
               /\ Ones(xs[0], 0, l) = Ones(xs[2], 0, l) (+) V
               /\ Ones(xs[1], 0, l) = Ones(xs[2], 1, l) (+) V
<1>1. Len(xs[0]) = f /\ Len(xs[1]) = f /\ Len(xs[2]) = f
  BY DEF Party
<1>2. ASSUME NEW i \in 1 .. f
      PROVE  /\ xs[0][i][1] = xs[2][i][1] /\ xs[1][i][1] = xs[2][i][0]
             /\ xs[0][i][0] (+) xs[2][i][0] = xs[1][i][0] (+) xs[2][i][1]
             /\ Opened(OperandOf(xs, i)) = xs[0][i][0] (+) xs[2][i][0]
  <2> DEFINE sh == OperandOf(xs, i)
  <2>1. sh[0] = xs[0][i] /\ sh[1] = xs[1][i] /\ sh[2] = xs[2][i]
    BY DEF OperandOf, Party
  <2>2. Consistent(sh)
    OBVIOUS
  <2>3. Before(0) = 2
    BY DEF Before
  <2> HIDE DEF sh
  <2> QED
    BY <2>1, <2>2, <2>3 DEF Consistent, Opened, OpenAt, OpenFrom, sh
<1>3. \A i \in 1 .. f :
        /\ l \in xs[0][i][1] <=> l \in xs[2][i][1]
        /\ l \in xs[1][i][1] <=> l \in xs[2][i][0]
        /\ l \in Opened(OperandOf(xs, i)) <=> ~(l \in xs[0][i][0] <=> l \in xs[2][i][0])
        /\ l \in Opened(OperandOf(xs, i)) <=> ~(l \in xs[1][i][0] <=> l \in xs[2][i][1])
  BY <1>2 DEF (+)
<1> DEFINE V == TrueOperands(xs, f, l)
<1>4. \A i : i \in V <=> i \in 1 .. f /\ l \in Opened(OperandOf(xs, i))
  BY DEF TrueOperands
<1>5. \A p \in {0, 1, 2} : \A c, i : i \in Ones(xs[p], c, l) <=> i \in 1 .. f /\ l \in xs[p][i][c]
  BY <1>1 DEF Ones
<1> HIDE DEF V
<1>6. Ones(xs[2], 1, l) = Ones(xs[0], 1, l)
  <2>1. \A i : i \in Ones(xs[2], 1, l) <=> i \in Ones(xs[0], 1, l)
    BY <1>3, <1>5
  <2> QED
    BY <2>1
<1>7. Ones(xs[2], 0, l) = Ones(xs[1], 1, l)
  <2>1. \A i : i \in Ones(xs[2], 0, l) <=> i \in Ones(xs[1], 1, l)
    BY <1>3, <1>5
  <2> QED
    BY <2>1
<1>8. Ones(xs[0], 0, l) = Ones(xs[2], 0, l) (+) V
  <2>1. \A i : i \in Ones(xs[0], 0, l) <=> i \in Ones(xs[2], 0, l) (+) V
    BY <1>3, <1>4, <1>5 DEF (+)
  <2> QED
    BY <2>1
<1>9. Ones(xs[1], 0, l) = Ones(xs[2], 1, l) (+) V
  <2>1. \A i : i \in Ones(xs[1], 0, l) <=> i \in Ones(xs[2], 1, l) (+) V
    BY <1>3, <1>4, <1>5 DEF (+)
  <2> QED
    BY <2>1
<1> QED
  BY <1>6, <1>7, <1>8, <1>9 DEF V

(* What the parties prepare and finalize for more than two operands: the   *)
(* masked monomials and the two words with which party 2 re-shares.        *)
MaskedWords(x, r) ==
    [k \in 1 .. NumMonomials(Len(x)) |->
        Times(EmptyProduct(Len(x)), x, Monomials(Len(x))[k], 0) (+) r[k]]

Elem3(x, r) == ComplementSum(r[2], x, 0) (+) CrossSum(x, 1) (+) r[0][1]
Elem4(x, r) == ComplementSum(r[3], x, 1) (+) CrossSum(x, 0) (+) r[1][1]

LEMMA ManyPrepared ==
    ASSUME NEW x, Len(x) # 2, NEW r
    PROVE  /\ Prepared(0, x, r).os0 = MaskedWords(x, r[0])
           /\ Prepared(0, x, r).add[1] = r[3][1]
           /\ Prepared(1, x, r).os0 = MaskedWords(x, r[1])
           /\ Prepared(1, x, r).add[1] = r[2][1]
           /\ Prepared(2, x, r).os0[1] = Elem3(x, r)
           /\ Prepared(2, x, r).os1[1] = Elem4(x, r)
           /\ Prepared(2, x, r).add[1] = Elem3(x, r)
           /\ Prepared(2, x, r).add[2] = Elem4(x, r)
<1>1. Len(x) # 2
  OBVIOUS
<1>2. /\ Prepared(0, x, r).os0 = MaskedWords(x, r[0])
      /\ Prepared(0, x, r).add = <<r[3][1]>>
  BY ONLY <1>1 DEF Prepared, Prepared0, MaskedWords
<1>3. /\ Prepared(1, x, r).os0 = MaskedWords(x, r[1])
      /\ Prepared(1, x, r).add = <<r[2][1]>>
  BY ONLY <1>1 DEF Prepared, Prepared1, MaskedWords
<1>4. Prepared(2, x, r) = [os0 |-> <<Elem3(x, r)>>, os1 |-> <<Elem4(x, r)>>,
                           add |-> <<Elem3(x, r), Elem4(x, r)>>, add2 |-> <<>>]
  BY ONLY <1>1 DEF Prepared, Prepared2, Elem3, Elem4
<1>5. /\ Prepared(2, x, r).os0[1] = Elem3(x, r)
      /\ Prepared(2, x, r).os1[1] = Elem4(x, r)
      /\ Prepared(2, x, r).add[1] = Elem3(x, r)
      /\ Prepared(2, x, r).add[2] = Elem4(x, r)
  BY ONLY <1>4
<1> QED
  BY <1>2, <1>3, <1>5

ManyWord(x, w, a) ==
    ComplementSum(w, x, 1) (+) CrossSum(x, 0) (+) LastTerm(x) (+) a

LEMMA ManyFinalized ==
    ASSUME NEW xs, \A p \in Party : Len(xs[p]) # 2, NEW rs
    PROVE  LET z     == AndOf(xs, rs)
               elem3 == Elem3(xs[2], rs[2])
               elem4 == Elem4(xs[2], rs[2])
           IN  /\ z[0] = Sh(ManyWord(xs[0], MaskedWords(xs[1], rs[1][1]), rs[0][3][1]), elem3)
               /\ z[1] = Sh(ManyWord(xs[1], MaskedWords(xs[0], rs[0][0]), rs[1][2][1]), elem4)
               /\ z[2] = Sh(elem4, elem3)
<1>1. PICK x0, x1, x2, r0, r1, r2 : /\ x0 = xs[0] /\ x1 = xs[1] /\ x2 = xs[2]
                                    /\ r0 = rs[0] /\ r1 = rs[1] /\ r2 = rs[2]
  OBVIOUS
<1>2. Len(x0) # 2 /\ Len(x1) # 2 /\ Len(x2) # 2
  BY <1>1 DEF Party
<1> DEFINE m == [p \in Party |-> Prepared(p, xs[p], rs[p])]
           z == AndOf(xs, rs)
<1>3. m[0] = Prepared(0, x0, r0) /\ m[1] = Prepared(1, x1, r1) /\ m[2] = Prepared(2, x2, r2)
  BY <1>1 DEF Party
<1>4. /\ z[0] = Finalized(0, x0, m[1].os0, m[2].os0, m[0].add, m[0].add2)
      /\ z[1] = Finalized(1, x1, m[0].os0, m[2].os1, m[1].add, m[1].add2)
      /\ z[2] = Finalized(2, x2, m[0].os0, m[2].os1, m[2].add, m[2].add2)
  BY <1>1 DEF AndOf, Party
<1> HIDE DEF m, z
<1>5. m[0].os0 = MaskedWords(x0, r0[0]) /\ m[0].add[1] = r0[3][1]
  <2>1. Prepared(0, x0, r0).os0 = MaskedWords(x0, r0[0])
    BY <1>2, ManyPrepared
  <2>2. Prepared(0, x0, r0).add[1] = r0[3][1]
    BY <1>2, ManyPrepared
  <2> QED
    BY <1>3, <2>1, <2>2
<1>6. m[1].os0 = MaskedWords(x1, r1[1]) /\ m[1].add[1] = r1[2][1]
  <2>1. Prepared(1, x1, r1).os0 = MaskedWords(x1, r1[1])
    BY <1>2, ManyPrepared
  <2>2. Prepared(1, x1, r1).add[1] = r1[2][1]
    BY <1>2, ManyPrepared
  <2> QED
    BY <1>3, <2>1, <2>2
<1> DEFINE elem3 == Elem3(x2, r2)
           elem4 == Elem4(x2, r2)
<1>7. /\ m[2].os0[1] = elem3 /\ m[2].os1[1] = elem4
      /\ m[2].add[1] = elem3 /\ m[2].add[2] = elem4
  <2>1. Prepared(2, x2, r2).os0[1] = elem3 /\ Prepared(2, x2, r2).os1[1] = elem4
    BY <1>2, ManyPrepared
  <2>2. Prepared(2, x2, r2).add[1] = elem3 /\ Prepared(2, x2, r2).add[2] = elem4
    BY <1>2, ManyPrepared
  <2> QED
    BY <1>3, <2>1, <2>2
<1> HIDE DEF elem3, elem4
<1>8. \A p, x, c, second, a, a2 :
         Len(x) # 2 => Finalized(p, x, c, second, a, a2) =
                          IF p = 2 THEN Sh(a[2], a[1])
                          ELSE Sh(ManyWord(x, c, a[1]), second[1])
  BY DEF Finalized, FinalizedMany, LastTerm, ManyWord
<1>9. z[0] = Sh(ManyWord(x0, MaskedWords(x1, r1[1]), r0[3][1]), elem3)
  BY <1>2, <1>4, <1>5, <1>6, <1>7, <1>8
<1>10. z[1] = Sh(ManyWord(x1, MaskedWords(x0, r0[0]), r1[2][1]), elem4)
  BY <1>2, <1>4, <1>5, <1>6, <1>7, <1>8
<1>11. z[2] = Sh(elem4, elem3)
  BY <1>2, <1>4, <1>7, <1>8
<1> QED
  BY <1>1, <1>9, <1>10, <1>11 DEF z, elem3, elem4

(* The product of the operands, in the lanes in which the code forms it.   *)
ProductOf(xs, f) == {l \in EmptyProduct(f) : TrueOperands(xs, f, l) = 1 .. f}

(* A word that party 0 or 1 computes is the product and a mask that party  *)
(* 2 holds.                                                                *)
LEMMA ManyWordMasked ==
    ASSUME NEW f \in Nat, f >= 1, Enumerated(f), NEW x, NEW y, NEW z,
           Len(x) = f, Len(y) = f, Len(z) = f, NEW d \in {0, 1}, NEW e, e = 1 - d, NEW xs,
           \A l \in Lane : /\ Ones(z, d, l) = Ones(x, 1, l)
                           /\ Ones(y, 0, l) = Ones(x, 1, l) (+) TrueOperands(xs, f, l)
                           /\ Ones(x, 0, l) = Ones(z, e, l) (+) TrueOperands(xs, f, l),
           NEW r, NEW s, \A k \in 1 .. NumMonomials(f) : r[k] = s[k],
           NEW a \in Vec
    PROVE  ManyWord(x, MaskedWords(y, r), a)
              = ProductOf(xs, f)
                   (+) (ComplementSum(s, z, d) (+) CrossSum(z, e) (+) a)
<1> DEFINE w == MaskedWords(y, r)
           left == ManyWord(x, w, a)
           full == ProductOf(xs, f)
           mask == ComplementSum(s, z, d) (+) CrossSum(z, e)
           sum  == ComplementSum(w, x, 1) (+) CrossSum(x, 0) (+) LastTerm(x)
<1>1. \A k \in 1 .. NumMonomials(f) :
         w[k] = Times(EmptyProduct(f), y, Monomials(f)[k], 0) (+) s[k]
  BY DEF MaskedWords
<1> HIDE DEF w
<1>2. ASSUME NEW l \in Lane
      PROVE  l \in sum <=> ~(l \in EmptyProduct(f) /\ TrueOperands(xs, f, l) = 1 .. f <=> l \in mask)
  <2>1. TrueOperands(xs, f, l) \in SUBSET (1 .. f)
    BY DEF TrueOperands
  <2> QED
    BY <1>1, <2>1, ReSharedWord
<1>3. sum \in Vec /\ mask \in Vec /\ full \in Vec
  <2>1. \A u, v, c : ComplementSum(u, v, c) \in Vec /\ CrossSum(v, c) \in Vec
    BY VecClosed DEF ComplementSum, CrossSum
  <2>2. LastTerm(x) \in Vec
    BY VecClosed, ProductVec DEF LastTerm
  <2>3. full \in Vec
    BY ProductVec DEF Vec, ProductOf
  <2> QED
    BY <2>1, <2>2, <2>3, VecClosed
<1>4. left = sum (+) a
  BY DEF ManyWord
<1>5. \A l : l \in full <=> l \in EmptyProduct(f) /\ TrueOperands(xs, f, l) = 1 .. f
  BY DEF ProductOf
<1> HIDE DEF left, full, mask, sum
<1>6. \A l \in Lane : l \in sum <=> l \in full (+) mask
  BY <1>2, <1>5 DEF (+)
<1>7. sum = full (+) mask
  BY <1>3, <1>6 DEF Vec, (+)
<1>8. left = full (+) (mask (+) a)
  BY <1>4, <1>7 DEF (+)
<1> QED
  BY <1>8 DEF left, full, mask, w

(***************************************************************************)
(* An AND of more than two operands, whatever their number: from proper    *)
(* sharings of the operands and draws that match, prepare_mul, exchange    *)
(* and finalize_mul make a proper sharing of the product.  From fan-in 5   *)
(* on the product is formed in lane 0 only, where EmptyProduct has its 1.  *)
(***************************************************************************)
THEOREM ManyAndCorrect ==
    ASSUME NEW f \in Nat, f >= 3,
           NEW xs, \A p \in Party : Len(xs[p]) = f,
           \A i \in 1 .. f : Consistent(OperandOf(xs, i)),
           NEW rs, SharedDraws(rs, f)
    PROVE  Consistent(AndOf(xs, rs)) /\ Opened(AndOf(xs, rs)) = ProductOf(xs, f)
<1> DEFINE z     == AndOf(xs, rs)
           elem3 == Elem3(xs[2], rs[2])
           elem4 == Elem4(xs[2], rs[2])
           full  == ProductOf(xs, f)
           word0 == ManyWord(xs[0], MaskedWords(xs[1], rs[1][1]), rs[0][3][1])
           word1 == ManyWord(xs[1], MaskedWords(xs[0], rs[0][0]), rs[1][2][1])
<1>1. Len(xs[0]) = f /\ Len(xs[1]) = f /\ Len(xs[2]) = f
  BY DEF Party
<1>2. z[0] = Sh(word0, elem3) /\ z[1] = Sh(word1, elem4) /\ z[2] = Sh(elem4, elem3)
  <2>0. f # 2
    OBVIOUS
  <2>1. \A p \in Party : Len(xs[p]) # 2
    BY <2>0
  <2> QED
    BY <2>1, ManyFinalized
<1>3. ASSUME NEW l \in Lane
      PROVE  /\ Ones(xs[2], 1, l) = Ones(xs[0], 1, l)
             /\ Ones(xs[2], 0, l) = Ones(xs[1], 1, l)
             /\ Ones(xs[0], 0, l) = Ones(xs[2], 0, l) (+) TrueOperands(xs, f, l)
             /\ Ones(xs[1], 0, l) = Ones(xs[2], 1, l) (+) TrueOperands(xs, f, l)
  BY OperandsAt
<1>4. word0 = full (+) elem4
  <2> DEFINE mask == ComplementSum(rs[2][3], xs[2], 1) (+) CrossSum(xs[2], 0)
  <2>1. \A l \in Lane : /\ Ones(xs[2], 1, l) = Ones(xs[0], 1, l)
                        /\ Ones(xs[1], 0, l) = Ones(xs[0], 1, l) (+) TrueOperands(xs, f, l)
                        /\ Ones(xs[0], 0, l) = Ones(xs[2], 0, l) (+) TrueOperands(xs, f, l)
    BY <1>3
  <2>2. \A k \in 1 .. NumMonomials(f) : rs[1][1][k] = rs[2][3][k]
    BY DEF SharedDraws
  <2>3. rs[0][3][1] = rs[2][1][1] /\ rs[0][3][1] \in Vec
    BY DEF SharedDraws
  <2>4. 1 \in {0, 1} /\ 0 = 1 - 1 /\ f >= 1
    OBVIOUS
  <2>5. word0 = full (+) (mask (+) rs[0][3][1])
    <3>1. PICK x, y, z2, r, s, a : /\ x = xs[0] /\ y = xs[1] /\ z2 = xs[2]
                                   /\ r = rs[1][1] /\ s = rs[2][3] /\ a = rs[0][3][1]
      OBVIOUS
    <3>2. /\ Len(x) = f /\ Len(y) = f /\ Len(z2) = f /\ a \in Vec
          /\ \A k \in 1 .. NumMonomials(f) : r[k] = s[k]
      BY <1>1, <2>2, <2>3, <3>1
    <3>3. \A l \in Lane : /\ Ones(z2, 1, l) = Ones(x, 1, l)
                          /\ Ones(y, 0, l) = Ones(x, 1, l) (+) TrueOperands(xs, f, l)
                          /\ Ones(x, 0, l) = Ones(z2, 0, l) (+) TrueOperands(xs, f, l)
      BY <2>1, <3>1
    <3>4. ManyWord(x, MaskedWords(y, r), a) =
            ProductOf(xs, f)
              (+) (ComplementSum(s, z2, 1) (+) CrossSum(z2, 0) (+) a)
      BY <2>4, <3>2, <3>3, MonomialsEnumerated, ManyWordMasked
    <3> QED
      BY <3>1, <3>4
  <2>6. mask (+) rs[0][3][1] = elem4
    BY <2>3 DEF Elem4
  <2> QED
    BY <2>5, <2>6
<1>5. word1 = full (+) elem3
  <2> DEFINE mask == ComplementSum(rs[2][2], xs[2], 0) (+) CrossSum(xs[2], 1)
  <2>1. \A l \in Lane : /\ Ones(xs[2], 0, l) = Ones(xs[1], 1, l)
                        /\ Ones(xs[0], 0, l) = Ones(xs[1], 1, l) (+) TrueOperands(xs, f, l)
                        /\ Ones(xs[1], 0, l) = Ones(xs[2], 1, l) (+) TrueOperands(xs, f, l)
    BY <1>3
  <2>2. \A k \in 1 .. NumMonomials(f) : rs[0][0][k] = rs[2][2][k]
    BY DEF SharedDraws
  <2>3. rs[1][2][1] = rs[2][0][1] /\ rs[1][2][1] \in Vec
    BY DEF SharedDraws
  <2>4. 0 \in {0, 1} /\ 1 = 1 - 0 /\ f >= 1
    OBVIOUS
  <2>5. word1 = full (+) (mask (+) rs[1][2][1])
    <3>1. PICK x, y, z2, r, s, a : /\ x = xs[1] /\ y = xs[0] /\ z2 = xs[2]
                                   /\ r = rs[0][0] /\ s = rs[2][2] /\ a = rs[1][2][1]
      OBVIOUS
    <3>2. /\ Len(x) = f /\ Len(y) = f /\ Len(z2) = f /\ a \in Vec
          /\ \A k \in 1 .. NumMonomials(f) : r[k] = s[k]
      BY <1>1, <2>2, <2>3, <3>1
    <3>3. \A l \in Lane : /\ Ones(z2, 0, l) = Ones(x, 1, l)
                          /\ Ones(y, 0, l) = Ones(x, 1, l) (+) TrueOperands(xs, f, l)
                          /\ Ones(x, 0, l) = Ones(z2, 1, l) (+) TrueOperands(xs, f, l)
      BY <2>1, <3>1
    <3>4. ManyWord(x, MaskedWords(y, r), a) =
            ProductOf(xs, f)
              (+) (ComplementSum(s, z2, 0) (+) CrossSum(z2, 1) (+) a)
      BY <2>4, <3>2, <3>3, MonomialsEnumerated, ManyWordMasked
    <3> QED
      BY <3>1, <3>4
  <2>6. mask (+) rs[1][2][1] = elem3
    BY <2>3 DEF Elem3
  <2> QED
    BY <2>5, <2>6
<1> HIDE DEF z, full, word0, word1, elem3, elem4
<1>7. \A u, v : Sh(u, v)[0] = u /\ Sh(u, v)[1] = v
  BY DEF Sh
<1>8. \A u, v : (u (+) v) (+) v = u
  BY DEF (+)
<1>9. Before(0) = 2
  BY DEF Before
<1>10. Consistent(z)
  BY <1>2, <1>4, <1>5, <1>7, <1>8 DEF Consistent
<1>11. Opened(z) = full
  BY <1>2, <1>4, <1>7, <1>8, <1>9 DEF Opened, OpenAt, OpenFrom
<1> QED
  BY <1>10, <1>11 DEF z, full

(***************************************************************************)
(* The same for any number of operands: prepare_mul and finalize_mul treat *)
(* two operands apart, with a masked cross sum and add_shares_2.           *)
(***************************************************************************)
THEOREM AndCorrect ==
    ASSUME NEW f \in Nat, f >= 2,
           NEW xs \in [Party -> Seq(Share)], \A p \in Party : Len(xs[p]) = f,
           \A i \in 1 .. f : Consistent(OperandOf(xs, i)),
           NEW rs, SharedDraws(rs, f)
    PROVE  Consistent(AndOf(xs, rs)) /\ Opened(AndOf(xs, rs)) = ProductOf(xs, f)
<1>1. CASE f >= 3
  BY <1>1, ManyAndCorrect
<1>2. CASE f = 2
  <2> DEFINE s == OperandOf(xs, 1)
             t == OperandOf(xs, 2)
  <2>1. \A p \in Party : xs[p][1] \in Share /\ xs[p][2] \in Share
    BY <1>2, ElementOfSeq
  <2>2. s \in Sharings /\ t \in Sharings
    BY <2>1 DEF OperandOf, Sharings
  <2>3. Consistent(s) /\ Consistent(t)
    BY <1>2
  <2>4. PairedDraws(rs)
    <3>1. 1 \in 1 .. NumMonomials(2)
      BY NumMonomialsPair
    <3> QED
      BY <1>2, <3>1 DEF SharedDraws, PairedDraws
  <2>5. [p \in Party |-> <<s[p], t[p]>>] = xs
    <3>1. \A p \in Party : s[p] = xs[p][1] /\ t[p] = xs[p][2]
      BY DEF OperandOf
    <3>2. ASSUME NEW p \in Party PROVE <<s[p], t[p]>> = xs[p]
      <4>1. xs[p] \in Seq(Share) /\ Len(xs[p]) = 2
        BY <1>2
      <4>2. xs[p] = <<xs[p][1], xs[p][2]>>
        BY <4>1
      <4> QED
        BY <3>1, <4>2
    <3> HIDE DEF s, t
    <3> QED
      BY <3>2
  <2>6. /\ Consistent(AndOf(xs, rs))
        /\ Opened(AndOf(xs, rs)) = Opened(s) \cap Opened(t)
    <3> HIDE DEF s, t
    <3> QED
      BY <2>2, <2>3, <2>4, <2>5, PairAndCorrect
  <2>7. Opened(s) \cap Opened(t) = ProductOf(xs, f)
    <3>1. Opened(s) \in Vec
      <4>1. s[0] \in Share /\ s[2] \in Share /\ Before(0) = 2
        BY <2>2 DEF Sharings, Party, Before
      <4>2. s[0][0] \in Vec /\ s[2][0] \in Vec
        BY <4>1 DEF Share
      <4> HIDE DEF s
      <4> QED
        BY <4>1, <4>2, VecClosed DEF Opened, OpenAt, OpenFrom
    <3>2. EmptyProduct(f) = Lane
      BY <1>2 DEF EmptyProduct
    <3>3. \A l : TrueOperands(xs, f, l) = 1 .. f <=> l \in Opened(s) /\ l \in Opened(t)
      <4> TAKE l
      <4>1. \A i : i \in TrueOperands(xs, f, l) <=>
                     (i = 1 /\ l \in Opened(s)) \/ (i = 2 /\ l \in Opened(t))
        BY <1>2 DEF TrueOperands
      <4>2. \A i : i \in 1 .. f <=> i = 1 \/ i = 2
        BY <1>2
      <4> DEFINE T == TrueOperands(xs, f, l)
      <4> HIDE DEF s, t, T
      <4>3. T = 1 .. f <=> \A i : i \in T <=> i \in 1 .. f
        OBVIOUS
      <4>4. (\A i : i \in T <=> i \in 1 .. f) <=> l \in Opened(s) /\ l \in Opened(t)
        <5>1. 1 # 2
          OBVIOUS
        <5> QED
          BY <4>1, <4>2, <5>1 DEF T
      <4> QED
        BY <4>3, <4>4 DEF T
    <3> HIDE DEF s, t
    <3> QED
      BY <3>1, <3>2, <3>3 DEF ProductOf, Vec
  <2> QED
    BY <2>6, <2>7
<1> QED
  BY <1>1, <1>2
=============================================================================
