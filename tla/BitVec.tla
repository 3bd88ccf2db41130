------------------------------- MODULE BitVec -------------------------------
(***************************************************************************)
(* The word type of the binary engine, Math/BitVec.h: a machine word whose *)
(* bits are independent lanes of one SIMD computation.  A word is modelled *)
(* as the set of the lanes that hold 1, so + and - (both XOR in the code)  *)
(* are the symmetric difference and * (AND in the code) is intersection.   *)
(***************************************************************************)
EXTENDS Integers, FiniteSets

CONSTANT W          \* T::default_length, the lanes of one word (64 in the code)

ASSUME WAssumption == W \in Nat \ {0}

Lane == 0 .. (W - 1)
Vec  == SUBSET Lane

(* operator+ and operator- of BitVec_. *)
x (+) y == (x \ y) \cup (y \ x)

(* BitVec_(1): the long constructor takes an integer, and 1 is lane 0 only. *)
IntegerOne == {0}

(* BitVec_::mask: keep the n lowest lanes. *)
Mask(x, n) == {l \in x : l < n}

(***************************************************************************)
(* pack(os, n) stores DIV_CEIL(n, 8) octets and unpack(os, n) reads as     *)
(* many back, so what survives the trip is whole octets, not n lanes.      *)
(***************************************************************************)
Packed(x, n) == Mask(x, 8 * ((n + 7) \div 8))

(***************************************************************************)
(* What n rounds of a loop make of base.  SequencesExt has folds that do   *)
(* this by recursion over sets of indices; a function of the number of     *)
(* rounds says what each round begins with, which proofs need to know.     *)
(***************************************************************************)
Loop(body(_, _), base, n) ==
    LET after[i \in 0 .. n] == IF i = 0 THEN base ELSE body(after[i - 1], i)
    IN  after[n]

(* Repeated += over a family of words. *)
XorSum(F) ==
    {l \in Lane : Cardinality({k \in DOMAIN F : l \in F[k]}) % 2 = 1}
=============================================================================
