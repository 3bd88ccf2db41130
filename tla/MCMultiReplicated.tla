------------------------- MODULE MCMultiReplicated --------------------------
(***************************************************************************)
(* Instances of MultiReplicated.  Lanes are samples: lane l gives bit k of *)
(* the number l to the k-th input bit, so that W = 2^k lanes run the ANDs  *)
(* on every combination of k bits at once.                                 *)
(***************************************************************************)
EXTENDS MultiReplicated

LaneBit(l, k) == (l \div 2 ^ k) % 2 = 1
Bits(k)       == {l \in Lane : LaneBit(l, k)}

And(ops, out, n) == [ops |-> ops, out |-> out, n |-> n]
Ands(gates)      == [op |-> "ands", gates |-> gates]

-----------------------------------------------------------------------------
(***************************************************************************)
(* One AND of two registers, one of three, and programs that mix fan-ins   *)
(* and widths in a batch, read what an earlier batch wrote, write a        *)
(* register that another gate of the batch reads, and end with a fan-in of *)
(* 5 on one lane.                                                          *)
(***************************************************************************)
BatchPrograms ==
    {<<Ands(<<And(<<"x", "y">>, "x", W)>>)>>,
     <<Ands(<<And(<<"x", "y", "z">>, "x", W)>>)>>,
     <<Ands(<<And(<<"x", "y">>, "z", W), And(<<"x", "y", "z">>, "x", 3)>>),
       Ands(<<And(<<"y", "z", "x", "y">>, "y", W), And(<<"x", "z">>, "y", W)>>)>>,
     <<Ands(<<And(<<"x", "y", "z", "x">>, "y", W)>>),
       Ands(<<And(<<"y", "z">>, "x", 9)>>),
       Ands(<<And(<<"x", "y", "z", "y", "x">>, "z", 1)>>)>>}

(* All combinations of the nine bits of three sharings. *)
NineBits ==
    {[r \in {"x", "y", "z"} |->
        LET k == IF r = "x" THEN 0 ELSE IF r = "y" THEN 3 ELSE 6
        IN  [v |-> Bits(k), alpha |-> Bits(k + 1), beta |-> Bits(k + 2)]]}

(* Words without structure, different for every seed and position. *)
MixedTape(t, s, i, l) ==
    (((s[1] * 7 + s[2] * 3 + i * 5 + t + 1) * (l + s[1] + i + 2)) \div 3) % 2 = 1

(***************************************************************************)
(* Tape 0: the three words that the AND of x and y draws first run through *)
(* all combinations with the sharings of x and y.                          *)
(***************************************************************************)
BatchTape(t, s, i, l) ==
    IF t = 0 /\ i = 1 /\ s \in {<<0, 0>>, <<1, 1>>, <<2, 0>>}
    THEN LaneBit(l, 6 + s[1]) ELSE MixedTape(t, s, i, l)

-----------------------------------------------------------------------------
(* One AND of five operands on a whole word of 64 lanes, lane 0 all ones. *)
FiveProgram == {<<Ands(<<And(<<"x", "x", "x", "x", "y">>, "y", W)>>)>>}

FiveInputs ==
    {[r \in {"x", "y"} |->
        LET k == IF r = "x" THEN 0 ELSE 3
        IN  [v |-> Lane \ Bits(k), alpha |-> Bits(k + 1), beta |-> Bits(k + 2)]]}
=============================================================================
