--------------------------- MODULE MCGCProcessor ----------------------------
(***************************************************************************)
(* Instances of GCProcessor: straight-line programs with inputs from       *)
(* party 0, batches of ANDs, local instructions and openings.              *)
(***************************************************************************)
EXTENDS GCProcessor

LaneBit(l, k) == (l \div 2 ^ k) % 2 = 1
Bits(k)       == {l \in Lane : LaneBit(l, k)}

Gates2(ops, out, n) == [ops |-> ops, out |-> out, n |-> n]
AndsOf(gates)       == [op |-> "ands", gates |-> gates]
XorsOf(gates)       == [op |-> "xors", gates |-> gates]
NotOf(in, out, n)   == [op |-> "nots", n |-> n, out |-> out, in |-> in]
Load(out, v)        == [op |-> "ldbits", out |-> out, value |-> v]
AndMOf(in, c, out)  == [op |-> "andm", out |-> out, in |-> in, clear |-> c]
MoveOf(in, out)     == [op |-> "movsb", out |-> out, in |-> in]
DecOf(in, outs)     == [op |-> "bitdecs", in |-> in, outs |-> outs]
ComOf(ins, out)     == [op |-> "bitcoms", out |-> out, ins |-> ins]
TransOf(ins, outs)  == [op |-> "trans", outs |-> outs, ins |-> ins]
BitOf(out)          == [op |-> "bitb", out |-> out]
Deal(from, n, out)  == [from |-> from, n |-> n, out |-> out]
InputOf(items)      == [op |-> "inputb", items |-> items]
OpenItem(in, n, out) == [n |-> n, in |-> in, out |-> out]
RevealOf(items)     == [op |-> "reveal", items |-> items]

Registers == {"x", "y", "z"}

(* The registers before the first instruction are zero. *)
Blank == {[r \in Registers |-> [v |-> {}, alpha |-> {}, beta |-> {}]]}

MixedTape(t, s, i, l) ==
    (((s[1] * 7 + s[2] * 3 + i * 5 + t + 1) * (l + s[1] + i + 2)) \div 3) % 2 = 1

-----------------------------------------------------------------------------
(***************************************************************************)
(* Every kind of instruction, chained so that each reads what the previous *)
(* ones wrote; gates and bit lists that alias their targets; batches of    *)
(* ANDs in a row between the barriers, so that party 2 runs ahead; several *)
(* INPUTBs and REVEALs; random bits of two batches.  The third program has *)
(* the constants, wrong but a sharing that all parties agree on, the last  *)
(* one inputs of all parties.                                              *)
(***************************************************************************)
MachinePrograms ==
    {<<InputOf(<<Deal(0, W, "x"), Deal(0, 3, "y")>>),
       XorsOf(<<Gates2(<<"x", "y">>, "z", W), Gates2(<<"z", "x">>, "x", 1)>>),
       AndsOf(<<Gates2(<<"x", "z">>, "y", W), Gates2(<<"x", "y", "z">>, "x", 3)>>),
       AndsOf(<<Gates2(<<"z", "y">>, "z", 9)>>),
       RevealOf(<<OpenItem("z", W, "c"), OpenItem("y", 3, "d")>>),
       AndMOf("y", "c", "y"),
       TransOf(<<"y", "x", "z">>, <<"x", "y">>),
       RevealOf(<<OpenItem("y", W, "d")>>),
       BitOf("x"), BitOf("y"), BitOf("x")>>,
     <<InputOf(<<Deal(0, W, "x")>>),
       DecOf("x", <<"y", "x", "z">>),
       ComOf(<<"z", "y">>, "x"),
       AndsOf(<<Gates2(<<"x", "y">>, "z", W)>>),
       InputOf(<<Deal(0, 5, "y")>>),
       MoveOf("z", "x"),
       AndsOf(<<Gates2(<<"x", "y">>, "x", 4)>>),
       RevealOf(<<OpenItem("x", W, "d")>>)>>,
     <<InputOf(<<Deal(0, W, "x"), Deal(0, W, "y")>>),
       NotOf("x", "z", W),
       Load("y", {0, 2}),
       AndsOf(<<Gates2(<<"x", "z">>, "x", W)>>),
       RevealOf(<<OpenItem("y", W, "c"), OpenItem("x", W, "d")>>)>>,
     <<InputOf(<<Deal(1, W, "x"), Deal(2, W, "y")>>),
       InputOf(<<Deal(2, W, "x"), Deal(1, W, "y"), Deal(0, 5, "z")>>)>>}

(* 64 lanes: every combination of two input bits and their four masks. *)
SampledInputs ==
    {[p \in Party |-> <<Bits(0), Bits(3)>>]}

SampledTape(t, s, i, l) ==
    IF s[2] = 2 /\ i <= 4 THEN LaneBit(l, IF i <= 2 THEN i ELSE i + 1)
    ELSE MixedTape(t, s, i, l)

-----------------------------------------------------------------------------
(* The example of Compiler/circuit.py with a constant key and plaintext,   *)
(* cut down to one secret constant that is opened.                         *)
RevealedConstant == {<<Load("x", {0, 2}), RevealOf(<<OpenItem("x", W, "c")>>)>>}

NoInputs == {[p \in Party |-> <<>>]}

(* A random bit that is opened. *)
RevealedBit == {<<BitOf("x"), RevealOf(<<OpenItem("x", 1, "c")>>)>>}

(* The example of Compiler/circuit.py that adds inputs of parties 0 and 1, *)
(* cut down to the sum of single bits.                                     *)
AddedInputs ==
    {<<InputOf(<<Deal(0, W, "x"), Deal(1, W, "y")>>),
       XorsOf(<<Gates2(<<"x", "y">>, "z", W)>>),
       RevealOf(<<OpenItem("z", W, "c")>>)>>}

TwoInputs ==
    {[p \in Party |-> IF p = 0 THEN <<Bits(0)>> ELSE IF p = 1 THEN <<Bits(1)>> ELSE <<>>]}
=============================================================================
