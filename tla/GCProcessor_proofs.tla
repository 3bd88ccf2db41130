------------------------- MODULE GCProcessor_proofs -------------------------
(***************************************************************************)
(* The virtual machines: for every program, every input and every outcome  *)
(* of the generators.                                                      *)
(***************************************************************************)
EXTENDS GCProcessor, Batches_proofs

Registers == [Reg -> Share]
ClearRegs == [CReg -> Vec]

-----------------------------------------------------------------------------
(* Whatever begins at 0 and is passed on is true up to n.                  *)
LEMMA Climb ==
    ASSUME NEW n \in Nat, NEW T, 0 \in T,
           \A i \in 1 .. n : i - 1 \in T => i \in T
    PROVE  \A i \in 0 .. n : i \in T
<1> DEFINE D == {i \in 0 .. n : \A j \in 0 .. i : j \in T}
<1>1. IsFiniteSet(D) /\ D \in SUBSET Nat /\ 0 \in D
  <2>1. IsFiniteSet(0 .. n)
    BY FS_Interval
  <2>2. D \in SUBSET (0 .. n)
    OBVIOUS
  <2>3. IsFiniteSet(D)
    BY <2>1, <2>2, FS_Subset
  <2> QED
    BY <2>2, <2>3
<1>2. PICK m \in D : \A d \in D : d <= m
  <2> HIDE DEF D
  <2> QED
    BY <1>1, LargestElement
<1>3. m \in 0 .. n /\ \A j \in 0 .. m : j \in T
  OBVIOUS
<1>4. CASE m = n
  BY <1>3, <1>4
<1>5. CASE m # n
  <2>1. m + 1 \in 1 .. n /\ m + 1 - 1 = m /\ m \in T
    BY <1>3, <1>5
  <2>2. m + 1 \in T
    BY <2>1
  <2>3. m + 1 \in D
    BY <1>3, <2>1, <2>2
  <2>4. m + 1 <= m
    BY <1>2, <2>3
  <2> QED
    BY <1>3, <2>4
<1> QED
  BY <1>4, <1>5

(***************************************************************************)
(* A loop whose body maps states to states passes through n + 1 of them.   *)
(* The function that Loop chooses is not known to exist before that.       *)
(***************************************************************************)
Rounds(f, n, T, base, step) ==
    /\ f \in [0 .. n -> T]
    /\ f[0] = base
    /\ \A i \in 1 .. n : f[i] = step[f[i - 1]][i]

LEMMA LoopExists ==
    ASSUME NEW n \in Nat, NEW T, NEW base \in T, NEW step \in [T -> [1 .. n -> T]]
    PROVE  \E f : Rounds(f, n, T, base, step)
<1> DEFINE Upto(m, f) == f[0] = base /\ \A i \in 1 .. m : f[i] = step[f[i - 1]][i]
           G == {m \in 0 .. n : \E f \in [0 .. n -> T] : Upto(m, f)}
<1>1. 0 \in G
  <2>1. [i \in 0 .. n |-> base] \in [0 .. n -> T] /\ 0 \in 0 .. n
    OBVIOUS
  <2>2. Upto(0, [i \in 0 .. n |-> base])
    BY <2>1
  <2> QED
    BY <2>1, <2>2
<1>2. ASSUME NEW m \in 1 .. n, m - 1 \in G PROVE m \in G
  <2>1. PICK f \in [0 .. n -> T] : Upto(m - 1, f)
    BY <1>2
  <2>2. f[m - 1] \in T /\ m \in 0 .. n
    BY <1>2
  <2>3. step[f[m - 1]][m] \in T
    BY <1>2, <2>2
  <2> DEFINE g == [f EXCEPT ![m] = step[f[m - 1]][m]]
  <2>4. g \in [0 .. n -> T]
    BY <2>3
  <2>5. g[m] = step[f[m - 1]][m] /\ \A i \in 0 .. n : i # m => g[i] = f[i]
    BY <2>2
  <2>6. \A i \in 1 .. m : i \in 0 .. n /\ i - 1 \in 0 .. n /\ i - 1 # m /\ (i # m => i \in 1 .. m - 1)
    BY <1>2
  <2>7. 0 # m /\ 0 \in 0 .. n
    BY <1>2
  <2>8. Upto(m, g)
    <3> HIDE DEF g
    <3> QED
      BY <2>1, <2>5, <2>6, <2>7
  <2> QED
    BY <2>2, <2>4, <2>8
<1>3. n \in G
  <2> HIDE DEF G, Upto
  <2>1. \A i \in 0 .. n : i \in G
    BY <1>1, <1>2, Climb
  <2> QED
    BY <2>1
<1>4. PICK f \in [0 .. n -> T] : Upto(n, f)
  BY <1>3
<1> QED
  BY <1>4 DEF Rounds

(* The loops of the instructions pass through register files.              *)
LEMMA ShareParts ==
    /\ \A s \in Share : s[0] \in Vec /\ s[1] \in Vec
    /\ \A s, t \in Share : XorShares(s, t) \in Share
    /\ \A v \in Vec : Scalar(v) \in Share
    /\ \A s \in Share, i \in Int : ShareBit(s, i) \in Share /\ ShiftShare(s, i) \in Share
<1>1. \A s \in Share : s[0] \in Vec /\ s[1] \in Vec
  BY DEF Share
<1>2. \A s, t \in Share : XorShares(s, t) \in Share
  BY <1>1, VecClosed DEF XorShares, Share
<1>3. \A v \in Vec : Scalar(v) \in Share
  BY DEF Scalar, Sh, Share
<1>4. {0} \in Vec /\ {} \in Vec
  BY WAssumption DEF Vec, Lane
<1>5. \A s \in Share, i \in Int : ShareBit(s, i) \in Share
  BY <1>4 DEF ShareBit, Share
<1>6. \A s \in Share, i \in Int : ShiftShare(s, i) \in Share
  BY DEF ShiftShare, Share, Vec
<1> QED
  BY <1>1, <1>2, <1>3, <1>5, <1>6

(* XORS.                                                                   *)
XorsRounds(f, regs, gates) ==
    /\ f \in [0 .. Len(gates) -> Registers]
    /\ f[0] = regs
    /\ \A i \in 1 .. Len(gates) : f[i] = XorGate(f[i - 1], gates[i])

LEMMA XorsLoop ==
    ASSUME NEW regs \in Registers, NEW gates \in Seq(Gate),
           \A g \in 1 .. Len(gates) : Len(gates[g].ops) = 2
    PROVE  \E f : XorsRounds(f, regs, gates) /\ Loop(LAMBDA r, i : XorGate(r, gates[i]), regs, Len(gates)) = f[Len(gates)]
<1> DEFINE Body(r, i) == XorGate(r, gates[i])
           Turns(f)   == [i \in 0 .. Len(gates) |-> IF i = 0 THEN regs ELSE Body(f[i - 1], i)]
           after      == CHOOSE f : f = Turns(f)
           step       == [r \in Registers |-> [i \in 1 .. Len(gates) |-> Body(r, i)]]
<1>1. Loop(LAMBDA r, i : XorGate(r, gates[i]), regs, Len(gates)) = after[Len(gates)]
  BY DEF Loop
<1>2. Len(gates) \in Nat /\ regs \in Registers
  BY LenProperties
<1>3. \A r \in Registers, i \in 1 .. Len(gates) : Body(r, i) \in Registers
  <2> TAKE r \in Registers, i \in 1 .. Len(gates)
  <2>1. gates[i] \in Gate /\ Len(gates[i].ops) = 2
    BY ElementOfSeq
  <2>2. gates[i].ops[1] \in Reg /\ gates[i].ops[2] \in Reg
    BY <2>1, ElementOfSeq DEF Gate
  <2>3. XorShares(r[gates[i].ops[1]], r[gates[i].ops[2]]) \in Share
    BY <2>2, ShareParts DEF Registers
  <2> QED
    BY <2>3 DEF XorGate, Registers
<1>4. after \in [0 .. Len(gates) -> Registers] /\ after = Turns(after)
  <2> HIDE DEF Body
  <2>1. step \in [Registers -> [1 .. Len(gates) -> Registers]]
    BY <1>3
  <2>2. \A r \in Registers, i \in 1 .. Len(gates) : step[r][i] = Body(r, i)
    OBVIOUS
  <2> HIDE DEF step
  <2>3. PICK f : Rounds(f, Len(gates), Registers, regs, step)
    BY <1>2, <2>1, LoopExists
  <2>4. \A i \in 1 .. Len(gates) : i - 1 \in 0 .. Len(gates) /\ f[i - 1] \in Registers
    BY <1>2, <2>3 DEF Rounds
  <2>5. \A i \in 1 .. Len(gates) : f[i] = Body(f[i - 1], i)
    BY <2>2, <2>3, <2>4 DEF Rounds
  <2>6. f = Turns(f)
    BY <1>2, <2>3, <2>5 DEF Rounds
  <2>7. after = Turns(after)
    <3> HIDE DEF Turns
    <3> QED
      BY <2>6
  <2> HIDE DEF after
  <2>8. after[0] = regs /\ \A i \in 1 .. Len(gates) : after[i] = Body(after[i - 1], i)
    BY <1>2, <2>7
  <2> DEFINE Good == {i \in 0 .. Len(gates) : after[i] \in Registers}
  <2>9. 0 \in Good /\ \A i \in 1 .. Len(gates) : i - 1 \in Good => i \in Good
    BY <1>2, <1>3, <2>8
  <2>10. \A i \in 0 .. Len(gates) : i \in Good
    <3> HIDE DEF Good
    <3> QED
      BY <1>2, <2>9, Climb
  <2> QED
    BY <2>7, <2>10
<1>5. after[0] = regs /\ \A i \in 1 .. Len(gates) : after[i] = Body(after[i - 1], i)
  <2> HIDE DEF after, Body
  <2> QED
    BY <1>2, <1>4
<1> HIDE DEF after
<1>6. XorsRounds(after, regs, gates)
  BY <1>4, <1>5 DEF XorsRounds
<1> QED
  BY <1>1, <1>6

(* BITDECS.                                                                *)
BitDecRounds(f, regs, in, outs) ==
    /\ f \in [0 .. Len(outs) -> Registers]
    /\ f[0] = regs
    /\ \A i \in 1 .. Len(outs) : f[i] = [f[i - 1] EXCEPT ![outs[i]] = ShareBit(f[i - 1][in], i - 1)]

LEMMA BitDecLoop ==
    ASSUME NEW regs \in Registers, NEW in \in Reg, NEW outs \in Seq(Reg)
    PROVE  \E f : BitDecRounds(f, regs, in, outs) /\ Loop(LAMBDA r, i : [r EXCEPT ![outs[i]] = ShareBit(r[in], i - 1)], regs, Len(outs)) = f[Len(outs)]
<1> DEFINE Body(r, i) == [r EXCEPT ![outs[i]] = ShareBit(r[in], i - 1)]
           Turns(f)   == [i \in 0 .. Len(outs) |-> IF i = 0 THEN regs ELSE Body(f[i - 1], i)]
           after      == CHOOSE f : f = Turns(f)
           step       == [r \in Registers |-> [i \in 1 .. Len(outs) |-> Body(r, i)]]
<1>1. Loop(LAMBDA r, i : [r EXCEPT ![outs[i]] = ShareBit(r[in], i - 1)], regs, Len(outs)) = after[Len(outs)]
  BY DEF Loop
<1>2. Len(outs) \in Nat /\ regs \in Registers
  BY LenProperties
<1>3. \A r \in Registers, i \in 1 .. Len(outs) : Body(r, i) \in Registers
  <2> TAKE r \in Registers, i \in 1 .. Len(outs)
  <2>1. ShareBit(r[in], i - 1) \in Share
    BY ShareParts DEF Registers
  <2> QED
    BY <2>1 DEF Registers
<1>4. after \in [0 .. Len(outs) -> Registers] /\ after = Turns(after)
  <2> HIDE DEF Body
  <2>1. step \in [Registers -> [1 .. Len(outs) -> Registers]]
    BY <1>3
  <2>2. \A r \in Registers, i \in 1 .. Len(outs) : step[r][i] = Body(r, i)
    OBVIOUS
  <2> HIDE DEF step
  <2>3. PICK f : Rounds(f, Len(outs), Registers, regs, step)
    BY <1>2, <2>1, LoopExists
  <2>4. \A i \in 1 .. Len(outs) : i - 1 \in 0 .. Len(outs) /\ f[i - 1] \in Registers
    BY <1>2, <2>3 DEF Rounds
  <2>5. \A i \in 1 .. Len(outs) : f[i] = Body(f[i - 1], i)
    BY <2>2, <2>3, <2>4 DEF Rounds
  <2>6. f = Turns(f)
    BY <1>2, <2>3, <2>5 DEF Rounds
  <2>7. after = Turns(after)
    <3> HIDE DEF Turns
    <3> QED
      BY <2>6
  <2> HIDE DEF after
  <2>8. after[0] = regs /\ \A i \in 1 .. Len(outs) : after[i] = Body(after[i - 1], i)
    BY <1>2, <2>7
  <2> DEFINE Good == {i \in 0 .. Len(outs) : after[i] \in Registers}
  <2>9. 0 \in Good /\ \A i \in 1 .. Len(outs) : i - 1 \in Good => i \in Good
    BY <1>2, <1>3, <2>8
  <2>10. \A i \in 0 .. Len(outs) : i \in Good
    <3> HIDE DEF Good
    <3> QED
      BY <1>2, <2>9, Climb
  <2> QED
    BY <2>7, <2>10
<1>5. after[0] = regs /\ \A i \in 1 .. Len(outs) : after[i] = Body(after[i - 1], i)
  <2> HIDE DEF after, Body
  <2> QED
    BY <1>2, <1>4
<1> HIDE DEF after
<1>6. BitDecRounds(after, regs, in, outs)
  BY <1>4, <1>5 DEF BitDecRounds
<1> QED
  BY <1>1, <1>6

(* BITCOMS.                                                                *)
BitComRounds(f, regs, out, ins) ==
    /\ f \in [0 .. Len(ins) -> Registers]
    /\ f[0] = regs
    /\ \A i \in 1 .. Len(ins) : f[i] = [f[i - 1] EXCEPT ![out] = XorShares(@, ShiftShare(f[i - 1][ins[i]], i - 1))]

LEMMA BitComLoop ==
    ASSUME NEW regs \in Registers, NEW out \in Reg, NEW ins \in Seq(Reg)
    PROVE  \E f : BitComRounds(f, regs, out, ins) /\ Loop(LAMBDA r, i : [r EXCEPT ![out] = XorShares(@, ShiftShare(r[ins[i]], i - 1))], regs, Len(ins)) = f[Len(ins)]
<1> DEFINE Body(r, i) == [r EXCEPT ![out] = XorShares(@, ShiftShare(r[ins[i]], i - 1))]
           Turns(f)   == [i \in 0 .. Len(ins) |-> IF i = 0 THEN regs ELSE Body(f[i - 1], i)]
           after      == CHOOSE f : f = Turns(f)
           step       == [r \in Registers |-> [i \in 1 .. Len(ins) |-> Body(r, i)]]
<1>1. Loop(LAMBDA r, i : [r EXCEPT ![out] = XorShares(@, ShiftShare(r[ins[i]], i - 1))], regs, Len(ins)) = after[Len(ins)]
  BY DEF Loop
<1>2. Len(ins) \in Nat /\ regs \in Registers
  BY LenProperties
<1>3. \A r \in Registers, i \in 1 .. Len(ins) : Body(r, i) \in Registers
  <2> TAKE r \in Registers, i \in 1 .. Len(ins)
  <2>1. ins[i] \in Reg
    BY ElementOfSeq
  <2>2. r[out] \in Share /\ r[ins[i]] \in Share /\ i - 1 \in Int
    BY <2>1 DEF Registers
  <2>3. XorShares(r[out], ShiftShare(r[ins[i]], i - 1)) \in Share
    BY <2>2, ShareParts
  <2> QED
    BY <2>3 DEF Registers
<1>4. after \in [0 .. Len(ins) -> Registers] /\ after = Turns(after)
  <2> HIDE DEF Body
  <2>1. step \in [Registers -> [1 .. Len(ins) -> Registers]]
    BY <1>3
  <2>2. \A r \in Registers, i \in 1 .. Len(ins) : step[r][i] = Body(r, i)
    OBVIOUS
  <2> HIDE DEF step
  <2>3. PICK f : Rounds(f, Len(ins), Registers, regs, step)
    BY <1>2, <2>1, LoopExists
  <2>4. \A i \in 1 .. Len(ins) : i - 1 \in 0 .. Len(ins) /\ f[i - 1] \in Registers
    BY <1>2, <2>3 DEF Rounds
  <2>5. \A i \in 1 .. Len(ins) : f[i] = Body(f[i - 1], i)
    BY <2>2, <2>3, <2>4 DEF Rounds
  <2>6. f = Turns(f)
    BY <1>2, <2>3, <2>5 DEF Rounds
  <2>7. after = Turns(after)
    <3> HIDE DEF Turns
    <3> QED
      BY <2>6
  <2> HIDE DEF after
  <2>8. after[0] = regs /\ \A i \in 1 .. Len(ins) : after[i] = Body(after[i - 1], i)
    BY <1>2, <2>7
  <2> DEFINE Good == {i \in 0 .. Len(ins) : after[i] \in Registers}
  <2>9. 0 \in Good /\ \A i \in 1 .. Len(ins) : i - 1 \in Good => i \in Good
    BY <1>2, <1>3, <2>8
  <2>10. \A i \in 0 .. Len(ins) : i \in Good
    <3> HIDE DEF Good
    <3> QED
      BY <1>2, <2>9, Climb
  <2> QED
    BY <2>7, <2>10
<1>5. after[0] = regs /\ \A i \in 1 .. Len(ins) : after[i] = Body(after[i - 1], i)
  <2> HIDE DEF after, Body
  <2> QED
    BY <1>2, <1>4
<1> HIDE DEF after
<1>6. BitComRounds(after, regs, out, ins)
  BY <1>4, <1>5 DEF BitComRounds
<1> QED
  BY <1>1, <1>6

LEMMA ColumnType ==
    ASSUME NEW ins \in Seq(Reg), Len(ins) <= W, NEW i, NEW regs
    PROVE  Column(ins, i, regs) \in Share
<1>1. DOMAIN ins = 1 .. Len(ins) /\ Len(ins) \in Nat
  BY LenProperties
<1>2. \A k \in DOMAIN ins : k - 1 \in Lane
  BY <1>1, WAssumption DEF Lane
<1> QED
  BY <1>2 DEF Column, Share, Vec

(* TRANS.                                                                  *)
TransRounds(f, regs, ins, outs) ==
    /\ f \in [0 .. Len(outs) -> Registers]
    /\ f[0] = regs
    /\ \A i \in 1 .. Len(outs) : f[i] = [f[i - 1] EXCEPT ![outs[i]] = Column(ins, i, regs)]

LEMMA TransLoop ==
    ASSUME NEW regs \in Registers, NEW ins \in Seq(Reg), NEW outs \in Seq(Reg),
           Len(ins) <= W
    PROVE  \E f : TransRounds(f, regs, ins, outs) /\ Loop(LAMBDA r, i : [r EXCEPT ![outs[i]] = Column(ins, i, regs)], regs, Len(outs)) = f[Len(outs)]
<1> DEFINE Body(r, i) == [r EXCEPT ![outs[i]] = Column(ins, i, regs)]
           Turns(f)   == [i \in 0 .. Len(outs) |-> IF i = 0 THEN regs ELSE Body(f[i - 1], i)]
           after      == CHOOSE f : f = Turns(f)
           step       == [r \in Registers |-> [i \in 1 .. Len(outs) |-> Body(r, i)]]
<1>1. Loop(LAMBDA r, i : [r EXCEPT ![outs[i]] = Column(ins, i, regs)], regs, Len(outs)) = after[Len(outs)]
  BY DEF Loop
<1>2. Len(outs) \in Nat /\ regs \in Registers
  BY LenProperties
<1>3. \A r \in Registers, i \in 1 .. Len(outs) : Body(r, i) \in Registers
  <2> TAKE r \in Registers, i \in 1 .. Len(outs)
  <2>1. Column(ins, i, regs) \in Share
    BY ColumnType
  <2> QED
    BY <2>1 DEF Registers
<1>4. after \in [0 .. Len(outs) -> Registers] /\ after = Turns(after)
  <2> HIDE DEF Body
  <2>1. step \in [Registers -> [1 .. Len(outs) -> Registers]]
    BY <1>3
  <2>2. \A r \in Registers, i \in 1 .. Len(outs) : step[r][i] = Body(r, i)
    OBVIOUS
  <2> HIDE DEF step
  <2>3. PICK f : Rounds(f, Len(outs), Registers, regs, step)
    BY <1>2, <2>1, LoopExists
  <2>4. \A i \in 1 .. Len(outs) : i - 1 \in 0 .. Len(outs) /\ f[i - 1] \in Registers
    BY <1>2, <2>3 DEF Rounds
  <2>5. \A i \in 1 .. Len(outs) : f[i] = Body(f[i - 1], i)
    BY <2>2, <2>3, <2>4 DEF Rounds
  <2>6. f = Turns(f)
    BY <1>2, <2>3, <2>5 DEF Rounds
  <2>7. after = Turns(after)
    <3> HIDE DEF Turns
    <3> QED
      BY <2>6
  <2> HIDE DEF after
  <2>8. after[0] = regs /\ \A i \in 1 .. Len(outs) : after[i] = Body(after[i - 1], i)
    BY <1>2, <2>7
  <2> DEFINE Good == {i \in 0 .. Len(outs) : after[i] \in Registers}
  <2>9. 0 \in Good /\ \A i \in 1 .. Len(outs) : i - 1 \in Good => i \in Good
    BY <1>2, <1>3, <2>8
  <2>10. \A i \in 0 .. Len(outs) : i \in Good
    <3> HIDE DEF Good
    <3> QED
      BY <1>2, <2>9, Climb
  <2> QED
    BY <2>7, <2>10
<1>5. after[0] = regs /\ \A i \in 1 .. Len(outs) : after[i] = Body(after[i - 1], i)
  <2> HIDE DEF after, Body
  <2> QED
    BY <1>2, <1>4
<1> HIDE DEF after
<1>6. TransRounds(after, regs, ins, outs)
  BY <1>4, <1>5 DEF TransRounds
<1> QED
  BY <1>1, <1>6

(* REVEAL.                                                                 *)
RevealOf(regs, p, s, items, words) ==
    Loop(LAMBDA r, i : [r EXCEPT ![items[i].out] =
                          Mask(OpenFrom(p, MaskShare(s[items[i].in], items[i].n), words[i]),
                               items[i].n)],
         regs, Len(items))

RevealRounds(f, regs, p, s, items, words) ==
    /\ f \in [0 .. Len(items) -> ClearRegs]
    /\ f[0] = regs
    /\ \A i \in 1 .. Len(items) : f[i] = [f[i - 1] EXCEPT ![items[i].out] = Mask(OpenFrom(p, MaskShare(s[items[i].in], items[i].n), words[i]), items[i].n)]

LEMMA RevealLoop ==
    ASSUME NEW regs \in ClearRegs, NEW p \in Party, NEW s \in Registers, NEW items \in Seq(Opening), NEW words,
           \A i \in 1 .. Len(items) : words[i] \in Vec
    PROVE  \E f : RevealRounds(f, regs, p, s, items, words) /\ RevealOf(regs, p, s, items, words) = f[Len(items)]
<1> DEFINE Body(r, i) == [r EXCEPT ![items[i].out] = Mask(OpenFrom(p, MaskShare(s[items[i].in], items[i].n), words[i]), items[i].n)]
           Turns(f)   == [i \in 0 .. Len(items) |-> IF i = 0 THEN regs ELSE Body(f[i - 1], i)]
           after      == CHOOSE f : f = Turns(f)
           step       == [r \in ClearRegs |-> [i \in 1 .. Len(items) |-> Body(r, i)]]
<1>1. RevealOf(regs, p, s, items, words) = after[Len(items)]
  BY DEF Loop, RevealOf
<1>2. Len(items) \in Nat /\ regs \in ClearRegs
  BY LenProperties
<1>3. \A r \in ClearRegs, i \in 1 .. Len(items) : Body(r, i) \in ClearRegs
  <2> TAKE r \in ClearRegs, i \in 1 .. Len(items)
  <2>1. items[i].in \in Reg
    <3>1. items[i] \in Opening
      BY ElementOfSeq
    <3> QED
      BY <3>1 DEF Opening
  <2>2. MaskShare(s[items[i].in], items[i].n) \in Share
    BY <2>1, MaskShareType DEF Registers
  <2>3. OpenFrom(p, MaskShare(s[items[i].in], items[i].n), words[i]) \in Vec
    BY <2>2, VecClosed, ShareParts DEF OpenFrom
  <2>4. Mask(OpenFrom(p, MaskShare(s[items[i].in], items[i].n), words[i]), items[i].n) \in Vec
    BY <2>3, VecClosed
  <2> QED
    BY <2>4 DEF ClearRegs
<1>4. after \in [0 .. Len(items) -> ClearRegs] /\ after = Turns(after)
  <2> HIDE DEF Body
  <2>1. step \in [ClearRegs -> [1 .. Len(items) -> ClearRegs]]
    BY <1>3
  <2>2. \A r \in ClearRegs, i \in 1 .. Len(items) : step[r][i] = Body(r, i)
    OBVIOUS
  <2> HIDE DEF step
  <2>3. PICK f : Rounds(f, Len(items), ClearRegs, regs, step)
    BY <1>2, <2>1, LoopExists
  <2>4. \A i \in 1 .. Len(items) : i - 1 \in 0 .. Len(items) /\ f[i - 1] \in ClearRegs
    BY <1>2, <2>3 DEF Rounds
  <2>5. \A i \in 1 .. Len(items) : f[i] = Body(f[i - 1], i)
    BY <2>2, <2>3, <2>4 DEF Rounds
  <2>6. f = Turns(f)
    BY <1>2, <2>3, <2>5 DEF Rounds
  <2>7. after = Turns(after)
    <3> HIDE DEF Turns
    <3> QED
      BY <2>6
  <2> HIDE DEF after
  <2>8. after[0] = regs /\ \A i \in 1 .. Len(items) : after[i] = Body(after[i - 1], i)
    BY <1>2, <2>7
  <2> DEFINE Good == {i \in 0 .. Len(items) : after[i] \in ClearRegs}
  <2>9. 0 \in Good /\ \A i \in 1 .. Len(items) : i - 1 \in Good => i \in Good
    BY <1>2, <1>3, <2>8
  <2>10. \A i \in 0 .. Len(items) : i \in Good
    <3> HIDE DEF Good
    <3> QED
      BY <1>2, <2>9, Climb
  <2> QED
    BY <2>7, <2>10
<1>5. after[0] = regs /\ \A i \in 1 .. Len(items) : after[i] = Body(after[i - 1], i)
  <2> HIDE DEF after, Body
  <2> QED
    BY <1>2, <1>4
<1> HIDE DEF after
<1>6. RevealRounds(after, regs, p, s, items, words)
  BY <1>4, <1>5 DEF RevealRounds
<1> QED
  BY <1>1, <1>6

(* INPUTB.                                                                 *)
InputOf(regs, p, items) ==
    Loop(LAMBDA r, i : [r EXCEPT ![items[i].out] = InputShare(p, i)], regs, Len(items))

InputRounds(f, regs, p, items) ==
    /\ f \in [0 .. Len(items) -> Registers]
    /\ f[0] = regs
    /\ \A i \in 1 .. Len(items) : f[i] = [f[i - 1] EXCEPT ![items[i].out] = InputShare(p, i)]

LEMMA InputLoop ==
    ASSUME NEW regs \in Registers, NEW p, NEW items \in Seq(Dealing),
           \A i \in 1 .. Len(items) : InputShare(p, i) \in Share
    PROVE  \E f : InputRounds(f, regs, p, items) /\ InputOf(regs, p, items) = f[Len(items)]
<1> DEFINE Body(r, i) == [r EXCEPT ![items[i].out] = InputShare(p, i)]
           Turns(f)   == [i \in 0 .. Len(items) |-> IF i = 0 THEN regs ELSE Body(f[i - 1], i)]
           after      == CHOOSE f : f = Turns(f)
           step       == [r \in Registers |-> [i \in 1 .. Len(items) |-> Body(r, i)]]
<1>1. InputOf(regs, p, items) = after[Len(items)]
  BY DEF Loop, InputOf
<1>2. Len(items) \in Nat /\ regs \in Registers
  BY LenProperties
<1>3. \A r \in Registers, i \in 1 .. Len(items) : Body(r, i) \in Registers
  BY DEF Registers
<1>4. after \in [0 .. Len(items) -> Registers] /\ after = Turns(after)
  <2> HIDE DEF Body
  <2>1. step \in [Registers -> [1 .. Len(items) -> Registers]]
    BY <1>3
  <2>2. \A r \in Registers, i \in 1 .. Len(items) : step[r][i] = Body(r, i)
    OBVIOUS
  <2> HIDE DEF step
  <2>3. PICK f : Rounds(f, Len(items), Registers, regs, step)
    BY <1>2, <2>1, LoopExists
  <2>4. \A i \in 1 .. Len(items) : i - 1 \in 0 .. Len(items) /\ f[i - 1] \in Registers
    BY <1>2, <2>3 DEF Rounds
  <2>5. \A i \in 1 .. Len(items) : f[i] = Body(f[i - 1], i)
    BY <2>2, <2>3, <2>4 DEF Rounds
  <2>6. f = Turns(f)
    BY <1>2, <2>3, <2>5 DEF Rounds
  <2>7. after = Turns(after)
    <3> HIDE DEF Turns
    <3> QED
      BY <2>6
  <2> HIDE DEF after
  <2>8. after[0] = regs /\ \A i \in 1 .. Len(items) : after[i] = Body(after[i - 1], i)
    BY <1>2, <2>7
  <2> DEFINE Good == {i \in 0 .. Len(items) : after[i] \in Registers}
  <2>9. 0 \in Good /\ \A i \in 1 .. Len(items) : i - 1 \in Good => i \in Good
    BY <1>2, <1>3, <2>8
  <2>10. \A i \in 0 .. Len(items) : i \in Good
    <3> HIDE DEF Good
    <3> QED
      BY <1>2, <2>9, Climb
  <2> QED
    BY <2>7, <2>10
<1>5. after[0] = regs /\ \A i \in 1 .. Len(items) : after[i] = Body(after[i - 1], i)
  <2> HIDE DEF after, Body
  <2> QED
    BY <1>2, <1>4
<1> HIDE DEF after
<1>6. InputRounds(after, regs, p, items)
  BY <1>4, <1>5 DEF InputRounds
<1> QED
  BY <1>1, <1>6

-----------------------------------------------------------------------------
(* What the assumption says of the instruction a party is at.              *)
LEMMA InstructionFacts ==
    ASSUME NEW prog \in Programs, NEW k \in 1 .. Len(prog)
    PROVE  LET ins == prog[k]
           IN  /\ ins \in AndsInstruction \cup OtherInstruction
               /\ ins.op = "xors" =>
                    /\ ins.gates \in Seq(Gate)
                    /\ \A g \in 1 .. Len(ins.gates) : Len(ins.gates[g].ops) = 2
               /\ ins.op = "nots" => ins.n \in 1 .. W /\ ins.out \in Reg /\ ins.in \in Reg
               /\ ins.op = "ldbits" => ins.out \in Reg /\ ins.value \in Vec
               /\ ins.op = "andm" => ins.out \in Reg /\ ins.in \in Reg /\ ins.clear \in CReg
               /\ ins.op = "movsb" => ins.out \in Reg /\ ins.in \in Reg
               /\ ins.op = "bitdecs" => ins.in \in Reg /\ ins.outs \in Seq(Reg)
               /\ ins.op = "bitcoms" => ins.out \in Reg /\ ins.ins \in Seq(Reg)
               /\ ins.op = "trans" =>
                    /\ ins.outs \in Seq(Reg) /\ ins.ins \in Seq(Reg)
                    /\ Len(ins.ins) <= W
               /\ ins.op = "bitb" => ins.out \in Reg
               /\ ins.op = "inputb" => ins.items \in Seq(Dealing)
               /\ ins.op = "reveal" => ins.items \in Seq(Opening)
<1> DEFINE ins == prog[k]
<1>1. prog \in Seq(AndsInstruction \cup OtherInstruction)
  BY MachineProgramsAssumption
<1>2. ins \in AndsInstruction \cup OtherInstruction /\ k \in DOMAIN prog
  BY <1>1, ElementOfSeq, LenProperties
<1>3. /\ ins.op = "xors" => \A g \in DOMAIN ins.gates : Len(ins.gates[g].ops) = 2
      /\ ins.op = "trans" => Len(ins.ins) <= W
  BY <1>2, MachineProgramsAssumption
<1> HIDE DEF ins
<1>4. ins.op = "xors" => ins.gates \in Seq(Gate)
  BY <1>2 DEF AndsInstruction, OtherInstruction
<1>5. ins.op = "nots" => ins.n \in 1 .. W /\ ins.out \in Reg /\ ins.in \in Reg
  BY <1>2 DEF AndsInstruction, OtherInstruction
<1>6. ins.op = "ldbits" => ins.out \in Reg /\ ins.value \in Vec
  BY <1>2 DEF AndsInstruction, OtherInstruction
<1>7. ins.op = "andm" => ins.out \in Reg /\ ins.in \in Reg /\ ins.clear \in CReg
  BY <1>2 DEF AndsInstruction, OtherInstruction
<1>8. ins.op = "movsb" => ins.out \in Reg /\ ins.in \in Reg
  BY <1>2 DEF AndsInstruction, OtherInstruction
<1>9. ins.op = "bitdecs" => ins.in \in Reg /\ ins.outs \in Seq(Reg)
  BY <1>2 DEF AndsInstruction, OtherInstruction
<1>10. ins.op = "bitcoms" => ins.out \in Reg /\ ins.ins \in Seq(Reg)
  BY <1>2 DEF AndsInstruction, OtherInstruction
<1>11. ins.op = "trans" => ins.outs \in Seq(Reg) /\ ins.ins \in Seq(Reg)
  BY <1>2 DEF AndsInstruction, OtherInstruction
<1>12. ins.op = "bitb" => ins.out \in Reg
  BY <1>2 DEF AndsInstruction, OtherInstruction
<1>13. ins.op = "inputb" => ins.items \in Seq(Dealing)
  BY <1>2 DEF AndsInstruction, OtherInstruction
<1>14. ins.op = "reveal" => ins.items \in Seq(Opening)
  BY <1>2 DEF AndsInstruction, OtherInstruction
<1>15. ins.op = "xors" => \A g \in 1 .. Len(ins.gates) : Len(ins.gates[g].ops) = 2
  BY <1>3, <1>4, LenProperties
<1> QED
  BY <1>2, <1>3, <1>4, <1>5, <1>6, <1>7, <1>8, <1>9, <1>10, <1>11, <1>12, <1>13, <1>14, <1>15
     DEF ins

(* The items of a dealer are numbered from 1 in their order.               *)
LEMMA ItemNumbers ==
    ASSUME NEW items \in Seq(Dealing), NEW q
    PROVE  /\ From(items, q) \subseteq 1 .. Len(items) /\ IsFiniteSet(From(items, q))
           /\ Cardinality(From(items, q)) \in Nat
           /\ Len(ItemsFrom(items, q)) = Cardinality(From(items, q))
           /\ \A i \in From(items, q) :
                /\ Nth(items, i) \in 1 .. Cardinality(From(items, q))
                /\ ItemsFrom(items, q)[Nth(items, i)] = items[i]
<1>1. DOMAIN items = 1 .. Len(items) /\ Len(items) \in Nat
  BY LenProperties
<1>2. From(items, q) \subseteq 1 .. Len(items)
  BY <1>1 DEF From
<1>3. IsFiniteSet(From(items, q)) /\ Cardinality(From(items, q)) \in Nat
  <2>1. IsFiniteSet(1 .. Len(items))
    BY <1>1, FS_Interval
  <2>2. IsFiniteSet(From(items, q))
    BY <1>2, <2>1, FS_Subset
  <2> QED
    BY <2>2, FS_CardinalityType
<1> DEFINE Up(i) == {h \in From(items, q) : h <= i}
<1>4. ASSUME NEW i \in From(items, q)
      PROVE  /\ Nth(items, i) = Cardinality(Up(i)) /\ IsFiniteSet(Up(i))
             /\ Nth(items, i) \in 1 .. Cardinality(From(items, q))
  <2>1. items[i].from = q
    BY DEF From
  <2>2. Nth(items, i) = Cardinality(Up(i))
    BY <2>1 DEF Nth
  <2>3. Up(i) \subseteq From(items, q) /\ i \in Up(i) /\ i \in 1 .. Len(items)
    BY <1>1, <1>2
  <2>4. /\ IsFiniteSet(Up(i)) /\ Cardinality(Up(i)) \in Nat
        /\ Cardinality(Up(i)) <= Cardinality(From(items, q))
    BY <1>3, <2>3, FS_Subset, FS_CardinalityType
  <2>5. Cardinality(Up(i)) # 0
    BY <2>3, <2>4, FS_EmptySet
  <2> QED
    BY <1>3, <2>2, <2>4, <2>5
<1>5. ASSUME NEW i \in From(items, q), NEW j \in From(items, q), i < j
      PROVE  Nth(items, i) < Nth(items, j)
  <2>1. Up(i) \subseteq Up(j) /\ j \in Up(j) /\ j \notin Up(i)
    BY <1>1, <1>2, <1>5
  <2>2. Cardinality(Up(i)) <= Cardinality(Up(j)) /\ Cardinality(Up(i)) # Cardinality(Up(j))
    BY <1>4, <2>1, FS_Subset
  <2>3. Cardinality(Up(i)) \in Nat /\ Cardinality(Up(j)) \in Nat
    BY <1>4, FS_CardinalityType
  <2> QED
    BY <1>4, <2>2, <2>3
<1>6. \A i, j \in From(items, q) : Nth(items, i) = Nth(items, j) => i = j
  <2>1. \A i \in From(items, q) : i \in Int /\ Nth(items, i) \in Int
    <3> TAKE i \in From(items, q)
    <3>1. i \in Int
      BY <1>1, <1>2
    <3>2. Nth(items, i) \in 1 .. Cardinality(From(items, q))
      BY <1>4
    <3>3. Nth(items, i) \in Int
      BY <1>3, <3>2
    <3> QED
      BY <3>1, <3>3
  <2> QED
    BY <1>5, <2>1
<1>7. ASSUME NEW i \in From(items, q)
      PROVE  ItemsFrom(items, q)[Nth(items, i)] = items[i]
  <2>1. (CHOOSE j \in From(items, q) : Nth(items, j) = Nth(items, i)) = i
    BY <1>6
  <2> QED
    BY <1>4, <2>1 DEF ItemsFrom
<1>8. Len(ItemsFrom(items, q)) = Cardinality(From(items, q))
  <2> DEFINE n == Cardinality(From(items, q))
             T == {ItemsFrom(items, q)[i] : i \in 1 .. n}
  <2>1. ItemsFrom(items, q) \in [1 .. n -> T]
    BY DEF ItemsFrom
  <2> HIDE DEF n, T
  <2> QED
    BY <1>3, <2>1, FunctionSeq DEF n
<1>9. \A i \in From(items, q) : Nth(items, i) \in 1 .. Cardinality(From(items, q))
  BY <1>4
<1> QED
  BY <1>2, <1>3, <1>7, <1>8, <1>9

-----------------------------------------------------------------------------
(***************************************************************************)
(* Connections.  What a program makes a party send on a connection is      *)
(* known beforehand, message by message; each is named by a number, in the *)
(* order in which they are sent.  A connection holds those that have been  *)
(* sent and not been received.                                             *)
(***************************************************************************)
Tagged(tags, ms, meant, out) ==
    /\ tags \in [1 .. Len(ms) -> out]
    /\ \A i, j \in 1 .. Len(ms) : i < j => tags[i] < tags[j]
    /\ \A t \in out : \E i \in 1 .. Len(ms) : tags[i] = t
    /\ \A i \in 1 .. Len(ms) : ms[i] \in meant[tags[i]]

Carries(meant, ms, got, gone) ==
    /\ got \subseteq gone
    /\ \E tags : Tagged(tags, ms, meant, gone \ got)

LEMMA CarriesNothing ==
    ASSUME NEW meant
    PROVE  Carries(meant, <<>>, {}, {})
<1>1. Tagged(<<>>, <<>>, meant, {})
  BY DEF Tagged
<1> QED
  BY <1>1 DEF Carries

(* One message more is sent. *)
LEMMA CarriesMore ==
    ASSUME NEW T, NEW ms \in Seq(T), NEW m \in T, NEW meant, NEW got, NEW gone \in SUBSET Nat,
           Carries(meant, ms, got, gone), NEW k \in Nat, \A t \in gone : t < k,
           m \in meant[k]
    PROVE  Carries(meant, Append(ms, m), got, gone \cup {k})
<1>1. PICK tags : Tagged(tags, ms, meant, gone \ got)
  BY DEF Carries
<1>2. PICK n : n = Len(ms)
  OBVIOUS
<1>3. n \in Nat /\ k \notin gone /\ got \subseteq gone
  BY <1>2, LenProperties DEF Carries
<1>4. PICK more : more = Append(ms, m)
  OBVIOUS
<1>5. /\ Len(more) = n + 1 /\ more[n + 1] = m
      /\ \A i \in 1 .. n : more[i] = ms[i]
  BY <1>2, <1>4, AppendProperties
<1>6. PICK out, all : out = gone \ got /\ all = (gone \cup {k}) \ got
  OBVIOUS
<1>7. /\ out \in SUBSET Nat /\ k \in all /\ \A t : t \in all <=> t \in out \/ t = k
      /\ \A t \in out : t < k
  BY <1>3, <1>6
<1>8. /\ tags \in [1 .. n -> out]
      /\ \A i, j \in 1 .. n : i < j => tags[i] < tags[j]
      /\ \A t \in out : \E i \in 1 .. n : tags[i] = t
      /\ \A i \in 1 .. n : ms[i] \in meant[tags[i]]
  BY <1>1, <1>2, <1>6 DEF Tagged
<1>9. PICK after : after = [i \in 1 .. n + 1 |-> IF i = n + 1 THEN k ELSE tags[i]]
  OBVIOUS
<1>10. /\ after[n + 1] = k
       /\ \A i \in 1 .. n : after[i] = tags[i] /\ tags[i] \in out
  <2>1. n + 1 \in 1 .. n + 1 /\ \A i \in 1 .. n : i \in 1 .. n + 1 /\ i # n + 1
    BY <1>3
  <2>2. \A i \in 1 .. n : tags[i] \in out
    BY <1>8
  <2> QED
    BY <1>9, <2>1, <2>2
<1>11. \A i \in 1 .. n + 1 : i \in 1 .. n \/ i = n + 1
  BY <1>3
<1>12. after \in [1 .. n + 1 -> all]
  BY <1>7, <1>9, <1>10, <1>11
<1>13. ASSUME NEW i \in 1 .. n + 1, NEW j \in 1 .. n + 1, i < j
       PROVE  after[i] < after[j]
  <2>1. i \in 1 .. n
    BY <1>3, <1>13
  <2>2. CASE j \in 1 .. n
    BY <1>8, <1>10, <1>13, <2>1, <2>2
  <2>3. CASE j = n + 1
    BY <1>7, <1>10, <2>1, <2>3
  <2> QED
    BY <1>11, <2>2, <2>3
<1>14. ASSUME NEW t \in all
       PROVE  \E i \in 1 .. n + 1 : after[i] = t
  <2>1. CASE t = k
    BY <1>3, <1>10, <2>1
  <2>2. CASE t \in out
    <3>1. PICK i \in 1 .. n : tags[i] = t
      BY <1>8, <2>2
    <3>2. i \in 1 .. n + 1 /\ after[i] = t
      BY <1>3, <1>10, <3>1
    <3> QED
      BY <3>2
  <2> QED
    BY <1>7, <2>1, <2>2
<1>15. ASSUME NEW i \in 1 .. n + 1
       PROVE  more[i] \in meant[after[i]]
  BY <1>5, <1>8, <1>10, <1>11
<1>16. Tagged(after, more, meant, all)
  BY <1>5, <1>12, <1>13, <1>14, <1>15 DEF Tagged
<1>17. got \subseteq gone \cup {k}
  BY <1>3
<1> QED
  BY <1>4, <1>6, <1>16, <1>17 DEF Carries

(* The first message is received. *)
Due(k, got, gone) == k \notin got /\ \A t \in gone \ got : k <= t /\ k \in gone

LEMMA CarriesFewer ==
    ASSUME NEW T, NEW ms \in Seq(T), ms # <<>>, NEW meant, NEW got, NEW gone \in SUBSET Nat,
           Carries(meant, ms, got, gone), NEW k \in Nat, Due(k, got, gone)
    PROVE  /\ k \in gone
           /\ Head(ms) \in meant[k]
           /\ Carries(meant, Tail(ms), got \cup {k}, gone)
<1>1. PICK tags : Tagged(tags, ms, meant, gone \ got)
  BY DEF Carries
<1>2. PICK n : n = Len(ms) - 1
  OBVIOUS
<1>3. n \in Nat /\ Len(ms) = n + 1 /\ got \subseteq gone
  BY <1>2, LenProperties, EmptySeq DEF Carries
<1>4. PICK left : left = Tail(ms)
  OBVIOUS
<1>5. Len(left) = n /\ \A i \in 1 .. n : left[i] = ms[i + 1]
  BY <1>3, <1>4, HeadTailProperties
<1>6. PICK out, rest : out = gone \ got /\ rest = gone \ (got \cup {k})
  OBVIOUS
<1>7. /\ tags \in [1 .. n + 1 -> out]
      /\ \A i, j \in 1 .. n + 1 : i < j => tags[i] < tags[j]
      /\ \A t \in out : \E i \in 1 .. n + 1 : tags[i] = t
      /\ \A i \in 1 .. n + 1 : ms[i] \in meant[tags[i]]
  BY <1>1, <1>3, <1>6 DEF Tagged
<1>8. 1 \in 1 .. n + 1 /\ tags[1] \in out /\ out \in SUBSET Nat
  BY <1>3, <1>6, <1>7
<1>9. k \in gone /\ k \in out /\ \A t \in out : k <= t
  BY <1>6, <1>8 DEF Due
<1>10. tags[1] = k
  <2>1. PICK i \in 1 .. n + 1 : tags[i] = k
    BY <1>7, <1>9
  <2>2. k <= tags[1] /\ tags[1] \in Nat
    BY <1>8, <1>9
  <2>3. CASE i = 1
    BY <2>1, <2>3
  <2>4. CASE i # 1
    <3>1. 1 < i
      BY <1>3, <2>4
    <3>2. tags[1] < tags[i]
      BY <1>7, <1>8, <3>1
    <3> QED
      BY <2>1, <2>2, <3>2
  <2> QED
    BY <2>3, <2>4
<1>11. Head(ms) = ms[1]
  BY HeadTailProperties
<1>12. \A t : t \in rest <=> t \in out /\ t # k
  BY <1>6
<1>13. PICK after : after = [i \in 1 .. n |-> tags[i + 1]]
  OBVIOUS
<1>14. ASSUME NEW i \in 1 .. n
       PROVE  i + 1 \in 1 .. n + 1 /\ after[i] = tags[i + 1] /\ after[i] \in rest
  <2>1. i + 1 \in 1 .. n + 1 /\ 1 < i + 1
    BY <1>3
  <2>2. tags[1] < tags[i + 1] /\ tags[i + 1] \in out
    BY <1>7, <1>8, <2>1
  <2>3. tags[i + 1] # k
    BY <1>8, <1>10, <2>2
  <2> QED
    BY <1>12, <1>13, <2>1, <2>2, <2>3
<1>15. after \in [1 .. n -> rest]
  BY <1>13, <1>14
<1>16. ASSUME NEW i \in 1 .. n, NEW j \in 1 .. n, i < j
       PROVE  after[i] < after[j]
  BY <1>3, <1>7, <1>14, <1>16
<1>17. ASSUME NEW t \in rest
       PROVE  \E i \in 1 .. n : after[i] = t
  <2>1. t \in out /\ t # k
    BY <1>12
  <2>2. PICK i \in 1 .. n + 1 : tags[i] = t
    BY <1>7, <2>1
  <2>3. i # 1
    BY <1>10, <2>1, <2>2
  <2>4. i - 1 \in 1 .. n /\ (i - 1) + 1 = i
    BY <1>3, <2>3
  <2>5. after[i - 1] = t
    BY <1>14, <2>2, <2>4
  <2> QED
    BY <2>4, <2>5
<1>18. ASSUME NEW i \in 1 .. n
       PROVE  left[i] \in meant[after[i]]
  BY <1>5, <1>7, <1>14
<1>19. Tagged(after, left, meant, rest)
  BY <1>5, <1>15, <1>16, <1>17, <1>18 DEF Tagged
<1>20. got \cup {k} \subseteq gone
  BY <1>3, <1>9
<1>21. Head(ms) \in meant[k]
  BY <1>7, <1>8, <1>10, <1>11
<1> QED
  BY <1>4, <1>6, <1>9, <1>19, <1>20, <1>21 DEF Carries

(* Messages keep their meaning. *)
LEMMA CarriesKept ==
    ASSUME NEW meant, NEW later, NEW ms, NEW got, NEW gone, Carries(meant, ms, got, gone),
           \A t \in gone : meant[t] \subseteq later[t]
    PROVE  Carries(later, ms, got, gone)
<1>1. PICK tags : Tagged(tags, ms, meant, gone \ got)
  BY DEF Carries
<1>2. \A i \in 1 .. Len(ms) : tags[i] \in gone /\ ms[i] \in meant[tags[i]]
  BY <1>1 DEF Tagged
<1>3. \A i \in 1 .. Len(ms) : ms[i] \in later[tags[i]]
  BY <1>2
<1>4. Tagged(tags, ms, later, gone \ got)
  BY <1>1, <1>3 DEF Tagged
<1> QED
  BY <1>4 DEF Carries

-----------------------------------------------------------------------------
(***************************************************************************)
(* The plan of a program.  Message 0 from p to q is the seed of the        *)
(* protocol object's constructor, 1 the one of RepPrep's; 2k and 2k + 1    *)
(* are the first and the second that instruction k may send.               *)
(***************************************************************************)
Inputting == {"input_seed_next", "input_seed_prev", "input_send",
              "input_next", "input_prev", "input_store"}
Exchanged == {"input_next", "input_prev", "input_store"}

(* The items of instruction k that p deals. *)
Mine(p, k) == ItemsFrom(program[k].items, p)

First(p, q, k) ==
    \/ program[k].op = "ands" /\ q # 2
    \/ program[k].op = "inputb"
    \/ program[k].op = "reveal" /\ q = After(p)

Second(p, k) == program[k].op = "inputb" /\ Mine(p, k) # <<>>

Planned(p, q) ==
    {t \in Nat :
        \/ t = 0
        \/ t = 1 /\ q = After(p)
        \/ \E k \in 1 .. Len(program) : \/ t = 2 * k /\ First(p, q, k)
                                        \/ t = 2 * k + 1 /\ Second(p, k)}

(* The messages before this one p has sent, wherever they are planned to go. *)
SentTo(p) ==
    IF pc[p] = "reseed" THEN 0
    ELSE IF pc[p] \in {"seed_next", "seed_prev"} \/ prep[p].at = "none" THEN 1
    ELSE IF pc[p] \in {"idle", "prepare", "send"} THEN 2 * ip[p]
    ELSE IF pc[p] \in Exchanged THEN 2 * ip[p] + 2
    ELSE 2 * ip[p] + 1

(* The messages before this one q has received, of those from p. *)
TakenFrom(q, p) ==
    IF pc[q] \in {"reseed", "seed_next"} THEN 0
    ELSE IF pc[q] = "seed_prev" THEN (IF p = After(q) THEN 1 ELSE 0)
    ELSE IF pc[q] = "idle" THEN (IF prep[q].at = "ready" THEN 2 * ip[q] ELSE 1)
    ELSE IF pc[q] \in {"prepare", "send", "receive_first", "open", "input_seed_next"}
         THEN 2 * ip[q]
    ELSE IF pc[q] = "receive_second" THEN (IF p = Before(q) THEN 2 * ip[q] + 1 ELSE 2 * ip[q])
    ELSE IF pc[q] = "input_seed_prev" THEN (IF p = After(q) THEN 2 * ip[q] + 1 ELSE 2 * ip[q])
    ELSE IF pc[q] = "input_prev" THEN (IF p = After(q) THEN 2 * ip[q] + 2 ELSE 2 * ip[q] + 1)
    ELSE IF pc[q] = "input_store" THEN 2 * ip[q] + 2
    ELSE 2 * ip[q] + 1

Below(tags, b) == {t \in tags : t < b}
Gone(p, q)     == Below(Planned(p, q), SentTo(p))
Got(q, p)      == Below(Planned(p, q), TakenFrom(q, p))

(***************************************************************************)
(* What a party deals is known beforehand as well: how many of its inputs  *)
(* an INPUTB follows depends on the program only.                          *)
(***************************************************************************)
ReadBy(prog, p, k) ==
    IF prog[k].op = "inputb" THEN Len(ItemsFrom(prog[k].items, p)) ELSE 0

Reads(f, prog, p) ==
    /\ f \in [0 .. Len(prog) -> Nat]
    /\ f[0] = 0
    /\ \A k \in 1 .. Len(prog) : f[k] = f[k - 1] + ReadBy(prog, p, k)

ReadsIn(prog, p) == CHOOSE f : Reads(f, prog, p)
ReadsOf(p)       == ReadsIn(program, p)

DealingFor(p, k, i) ==
    LET r == ReadsOf(p)[k - 1]
    IN  DealtBy(p, input[p][r + i], Fresh(p, 2 * r + 2 * i - 1, Mine(p, k)[i].n),
                Fresh(p, 2 * r + 2 * i, Mine(p, k)[i].n))

DealingsFor(p, k) == [i \in 1 .. Len(Mine(p, k)) |-> DealingFor(p, k, i)]

InputsFor(p, q, k) == PackedFor(q, DealingsFor(p, k), Mine(p, k))

(* What p shows of its registers in a REVEAL. *)
ShownBy(p, k) ==
    LET items == program[k].items
    IN  [i \in 1 .. Len(items) |-> Mask(log[p][k][items[i].in][0], items[i].n)]

Fits(p, q, t, m) ==
    /\ t = 0 => m = SeedMessage(SeedFor(p, q))
    /\ t = 1 => m = SeedMessage(<<p, 3>>)
    /\ \A k \in 1 .. Len(program) :
          /\ t = 2 * k /\ program[k].op = "ands" =>
                Joined(m.words, 1, Len(Plan(k)), SentFor(p, q, k))
          /\ t = 2 * k /\ program[k].op = "reveal" => m.words = ShownBy(p, k)
          /\ t = 2 * k + 1 => m.words = InputsFor(p, q, k)

Meant(p, q) == [t \in Planned(p, q) |-> {m \in Message : Fits(p, q, t, m)}]

Link(p, q) == Carries(Meant(p, q), chan[p][q], Got(q, p), Gone(p, q))

Traffic == \A p, q \in Party : p # q => Link(p, q)

-----------------------------------------------------------------------------
(* Where a party can be in the other instructions and in pre_run.          *)
Whereabouts(p) ==
    /\ pc[p] = "open" => At(p, "reveal")
    /\ pc[p] \in Inputting => At(p, "inputb")
    /\ p = 2 => pc[p] \notin {"receive_first", "receive_second"}
    /\ pc[p] \in Seeding => prep[p].at = "none"
    /\ prep[p].at # "ready" => ip[p] = 1 /\ pc[p] \in Seeding \cup {"idle"}

(* What a party has read, drawn, dealt and been dealt. *)
Reading(p) ==
    LET k == ip[p]
    IN  /\ read[p] = ReadsOf(p)[IF pc[p] \in Exchanged THEN k ELSE k - 1]
        /\ drawn[p] = 2 * read[p]
        /\ pc[p] \in Exchanged =>
              dealt[p] = [i \in 1 .. Len(Mine(p, k)) |-> DealingsFor(p, k)[i][p]]
        /\ pc[p] \in {"input_prev", "input_store"} /\ Mine(After(p), k) # <<>> =>
              received[p][After(p)] = InputsFor(After(p), p, k)
        /\ pc[p] = "input_store" /\ Mine(Before(p), k) # <<>> =>
              received[p][Before(p)] = InputsFor(Before(p), p, k)

(* The store of random bits is a stretch of the two generators. *)
Stocked(p) ==
    LET store == prep[p]
    IN  /\ store.at # "none" => store.seeds[0] = <<p, 3>>
        /\ store.at = "ready" => store.seeds[1] = <<Before(p), 3>>
        /\ store.at # "ready" => store.bits = <<>>
        /\ Len(store.bits) <= BatchSize
        /\ store.bits # <<>> => store.pos >= BatchSize
        /\ \A i \in 1 .. Len(store.bits) : \A j \in {0, 1} :
              store.bits[i][j] = GetBit(store.seeds[j], store.pos - BatchSize + i)

(* The history of the clear registers. *)
ClearLogged(p) == Len(clog[p]) = ip[p] /\ clog[p][ip[p]] = C[p]

Machine(p) ==
    /\ Own(p)
    /\ SeedsHeld(p)
    /\ Whereabouts(p)
    /\ Reading(p)
    /\ Stocked(p)
    /\ ClearLogged(p)

-----------------------------------------------------------------------------
LEMMA PlannedTags ==
    ASSUME Len(program) \in Nat, NEW p, NEW q
    PROVE  /\ Planned(p, q) \in SUBSET Nat
           /\ 0 \in Planned(p, q)
           /\ 1 \in Planned(p, q) <=> q = After(p)
           /\ \A k \in 1 .. Len(program) :
                /\ 2 * k \in Planned(p, q) <=> First(p, q, k)
                /\ 2 * k + 1 \in Planned(p, q) <=> Second(p, k)
<1>1. ASSUME NEW k \in 1 .. Len(program)
      PROVE  /\ 2 * k \in Planned(p, q) <=> First(p, q, k)
             /\ 2 * k + 1 \in Planned(p, q) <=> Second(p, k)
  <2>1. k \in Int /\ 2 * k \in Nat /\ 2 * k + 1 \in Nat /\ 2 * k > 1
    OBVIOUS
  <2>2. \A j \in 1 .. Len(program) : /\ 2 * k = 2 * j <=> j = k
                                     /\ 2 * k # 2 * j + 1
                                     /\ 2 * k + 1 # 2 * j
                                     /\ 2 * k + 1 = 2 * j + 1 <=> j = k
    OBVIOUS
  <2> QED
    BY <2>1, <2>2 DEF Planned
<1>2. \A k \in 1 .. Len(program) : 2 * k # 1 /\ 2 * k + 1 # 1
  OBVIOUS
<1> QED
  BY <1>1, <1>2 DEF Planned

LEMMA BelowNext ==
    ASSUME NEW tags \in SUBSET Nat, NEW b \in Nat
    PROVE  Below(tags, b + 1) = IF b \in tags THEN Below(tags, b) \cup {b} ELSE Below(tags, b)
<1>1. \A t \in tags : t < b + 1 <=> t < b \/ t = b
  OBVIOUS
<1> QED
  BY <1>1 DEF Below

LEMMA Frontiers ==
    ASSUME TypeOK, NEW p \in Party, NEW q
    PROVE  SentTo(p) \in Nat /\ TakenFrom(p, q) \in Nat
<1>1. ip[p] \in Nat
  BY DEF TypeOK
<1>2. PICK k \in Nat : k = ip[p]
  BY <1>1
<1>3. 2 * k \in Nat /\ 2 * k + 1 \in Nat /\ 2 * k + 2 \in Nat /\ 0 \in Nat /\ 1 \in Nat
  OBVIOUS
<1>4. SentTo(p) \in {0, 1, 2 * k, 2 * k + 1, 2 * k + 2}
  BY <1>2 DEF SentTo
<1>5. TakenFrom(p, q) \in {0, 1, 2 * k, 2 * k + 1, 2 * k + 2}
  BY <1>2 DEF TakenFrom
<1> QED
  BY <1>3, <1>4, <1>5

-----------------------------------------------------------------------------
(* How many inputs a party has read when it comes to an instruction is     *)
(* determined.                                                             *)
LEMMA ReadsExist ==
    ASSUME program \in Programs, NEW p
    PROVE  Reads(ReadsOf(p), program, p)
<1> DEFINE n == Len(program)
           step == [r \in Nat |-> [k \in 1 .. n |-> r + ReadBy(program, p, k)]]
<1>1. n \in Nat
  BY ProgramFacts
<1>2. \A k \in 1 .. n : ReadBy(program, p, k) \in Nat
  <2> TAKE k \in 1 .. n
  <2>1. CASE program[k].op = "inputb"
    <3>1. program[k].items \in Seq(Dealing)
      BY <2>1, InstructionFacts
    <3>2. Len(ItemsFrom(program[k].items, p)) \in Nat
      BY <3>1, ItemNumbers
    <3> QED
      BY <2>1, <3>2 DEF ReadBy
  <2> QED
    BY <2>1 DEF ReadBy
<1>3. step \in [Nat -> [1 .. n -> Nat]] /\ 0 \in Nat
  BY <1>2
<1>4. \A r \in Nat, k \in 1 .. n : step[r][k] = r + ReadBy(program, p, k)
  OBVIOUS
<1> HIDE DEF step
<1>5. PICK f : Rounds(f, n, Nat, 0, step)
  BY <1>1, <1>3, LoopExists
<1>6. \A k \in 1 .. n : f[k] = f[k - 1] + ReadBy(program, p, k)
  <2>1. \A k \in 1 .. n : k - 1 \in 0 .. n /\ f[k - 1] \in Nat
    BY <1>1, <1>5 DEF Rounds
  <2> QED
    BY <1>4, <1>5, <2>1 DEF Rounds
<1>7. Reads(f, program, p)
  BY <1>5, <1>6 DEF Reads, Rounds
<1> QED
  BY <1>7 DEF ReadsOf, ReadsIn

(* What follows for the instruction a party is at.                         *)
LEMMA ReadsHere ==
    ASSUME program \in Programs, NEW p, NEW k \in 1 .. Len(program)
    PROVE  /\ ReadsOf(p)[k - 1] \in Nat /\ ReadsOf(p)[k] \in Nat
           /\ ReadsOf(p)[k] = ReadsOf(p)[k - 1] + ReadBy(program, p, k)
           /\ ReadsOf(p)[0] = 0
<1>1. Reads(ReadsOf(p), program, p)
  BY ReadsExist
<1>2. Len(program) \in Nat
  BY ProgramFacts
<1>3. k - 1 \in 0 .. Len(program) /\ k \in 0 .. Len(program)
  BY <1>2
<1> QED
  BY <1>1, <1>3 DEF Reads

-----------------------------------------------------------------------------
(* What the instructions that send nothing make of the registers.          *)
XorsOf(regs, gates)       == Loop(LAMBDA r, i : XorGate(r, gates[i]), regs, Len(gates))
BitDecOf(regs, in, outs)  ==
    Loop(LAMBDA r, i : [r EXCEPT ![outs[i]] = ShareBit(r[in], i - 1)], regs, Len(outs))
BitComOf(regs, out, ins)  ==
    Loop(LAMBDA r, i : [r EXCEPT ![out] = XorShares(@, ShiftShare(r[ins[i]], i - 1))],
         [regs EXCEPT ![out] = Scalar({})], Len(ins))
TransOf(regs, ins, outs)  ==
    Loop(LAMBDA r, i : [r EXCEPT ![outs[i]] = Column(ins, i, regs)], regs, Len(outs))

LocalOps == {"xors", "nots", "ldbits", "andm", "movsb", "bitdecs", "bitcoms", "trans"}

AfterLocal(ins, regs, clears) ==
    IF ins.op = "xors" THEN XorsOf(regs, ins.gates)
    ELSE IF ins.op = "nots"
    THEN [regs EXCEPT ![ins.out] = MaskShare(XorShares(regs[ins.in], Scalar(Lane)), ins.n)]
    ELSE IF ins.op = "ldbits" THEN [regs EXCEPT ![ins.out] = Scalar(ins.value)]
    ELSE IF ins.op = "andm"
    THEN [regs EXCEPT ![ins.out] = [c \in {0, 1} |-> regs[ins.in][c] \cap clears[ins.clear]]]
    ELSE IF ins.op = "movsb" THEN [regs EXCEPT ![ins.out] = regs[ins.in]]
    ELSE IF ins.op = "bitdecs" THEN BitDecOf(regs, ins.in, ins.outs)
    ELSE IF ins.op = "bitcoms" THEN BitComOf(regs, ins.out, ins.ins)
    ELSE TransOf(regs, ins.ins, ins.outs)

LEMMA AfterLocalType ==
    ASSUME NEW prog \in Programs, NEW k \in 1 .. Len(prog), NEW ins, ins = prog[k],
           ins.op \in LocalOps, NEW regs \in Registers, NEW clears \in ClearRegs
    PROVE  AfterLocal(ins, regs, clears) \in Registers
<1>1. CASE ins.op = "xors"
  <2>1. ins.gates \in Seq(Gate) /\ \A g \in 1 .. Len(ins.gates) : Len(ins.gates[g].ops) = 2
    BY <1>1, InstructionFacts
  <2>2. PICK f : /\ XorsRounds(f, regs, ins.gates)
                 /\ XorsOf(regs, ins.gates) = f[Len(ins.gates)]
    BY <2>1, XorsLoop DEF XorsOf
  <2>3. Len(ins.gates) \in 0 .. Len(ins.gates)
    BY <2>1, LenProperties
  <2> QED
    BY <1>1, <2>2, <2>3 DEF XorsRounds, AfterLocal
<1>2. CASE ins.op = "nots"
  <2>1. ins.out \in Reg /\ ins.in \in Reg
    BY <1>2, InstructionFacts
  <2>2. Lane \in Vec
    BY DEF Vec
  <2>3. MaskShare(XorShares(regs[ins.in], Scalar(Lane)), ins.n) \in Share
    BY <2>1, <2>2, ShareParts, MaskShareType DEF Registers
  <2> QED
    BY <1>2, <2>3 DEF AfterLocal, Registers
<1>3. CASE ins.op = "ldbits"
  <2>1. ins.out \in Reg /\ Scalar(ins.value) \in Share
    BY <1>3, InstructionFacts, ShareParts
  <2> QED
    BY <1>3, <2>1 DEF AfterLocal, Registers
<1>4. CASE ins.op = "andm"
  <2>1. ins.out \in Reg /\ ins.in \in Reg
    BY <1>4, InstructionFacts
  <2>2. regs[ins.in] \in Share
    BY <2>1 DEF Registers
  <2>3. [c \in {0, 1} |-> regs[ins.in][c] \cap clears[ins.clear]] \in Share
    BY <2>2 DEF Share, Vec
  <2> QED
    BY <1>4, <2>3 DEF AfterLocal, Registers
<1>5. CASE ins.op = "movsb"
  <2>1. ins.out \in Reg /\ ins.in \in Reg
    BY <1>5, InstructionFacts
  <2> QED
    BY <1>5, <2>1 DEF AfterLocal, Registers
<1>6. CASE ins.op = "bitdecs"
  <2>1. ins.in \in Reg /\ ins.outs \in Seq(Reg)
    BY <1>6, InstructionFacts
  <2>2. PICK f : /\ BitDecRounds(f, regs, ins.in, ins.outs)
                 /\ BitDecOf(regs, ins.in, ins.outs) = f[Len(ins.outs)]
    BY <2>1, BitDecLoop DEF BitDecOf
  <2>3. Len(ins.outs) \in 0 .. Len(ins.outs)
    BY <2>1, LenProperties
  <2> QED
    BY <1>6, <2>2, <2>3 DEF BitDecRounds, AfterLocal
<1>7. CASE ins.op = "bitcoms"
  <2>1. ins.out \in Reg /\ ins.ins \in Seq(Reg) /\ {} \in Vec
    BY <1>7, InstructionFacts DEF Vec
  <2>2. PICK base : base = [regs EXCEPT ![ins.out] = Scalar({})]
    OBVIOUS
  <2>3. base \in Registers
    BY <2>1, <2>2, ShareParts DEF Registers
  <2>4. PICK f : /\ BitComRounds(f, base, ins.out, ins.ins)
                 /\ BitComOf(regs, ins.out, ins.ins) = f[Len(ins.ins)]
    BY <2>1, <2>2, <2>3, BitComLoop DEF BitComOf
  <2>5. Len(ins.ins) \in 0 .. Len(ins.ins)
    BY <2>1, LenProperties
  <2> QED
    BY <1>7, <2>4, <2>5 DEF BitComRounds, AfterLocal
<1>8. CASE ins.op = "trans"
  <2>1. ins.outs \in Seq(Reg) /\ ins.ins \in Seq(Reg) /\ Len(ins.ins) <= W
    BY <1>8, InstructionFacts
  <2>2. PICK f : /\ TransRounds(f, regs, ins.ins, ins.outs)
                 /\ TransOf(regs, ins.ins, ins.outs) = f[Len(ins.outs)]
    BY <2>1, TransLoop DEF TransOf
  <2>3. Len(ins.outs) \in 0 .. Len(ins.outs)
    BY <2>1, LenProperties
  <2> QED
    BY <1>8, <2>2, <2>3 DEF TransRounds, AfterLocal
<1> QED
  BY <1>1, <1>2, <1>3, <1>4, <1>5, <1>6, <1>7, <1>8 DEF LocalOps

(* The local instructions, as one.                                         *)
LocalStep(p) ==
    /\ program[ip[p]].op \in LocalOps
    /\ Local(p, program[ip[p]].op, AfterLocal(program[ip[p]], S[p], C[p]))

LEMMA LocalSteps ==
    ASSUME NEW p
    PROVE  /\ Xors(p) => LocalStep(p)
           /\ Nots(p) => LocalStep(p)
           /\ LoadClear(p) => LocalStep(p)
           /\ AndClear(p) => LocalStep(p)
           /\ Move(p) => LocalStep(p)
           /\ BitDec(p) => LocalStep(p)
           /\ BitCom(p) => LocalStep(p)
           /\ Transpose(p) => LocalStep(p)
<1>1. \A op, registers : Local(p, op, registers) => program[ip[p]].op = op
  BY DEF Local, Assign, At
<1>2. Xors(p) => LocalStep(p)
  BY <1>1 DEF Xors, LocalStep, LocalOps, AfterLocal, XorsOf, Instruction
<1>3. Nots(p) => LocalStep(p)
  BY <1>1 DEF Nots, LocalStep, LocalOps, AfterLocal, Instruction
<1>4. LoadClear(p) => LocalStep(p)
  BY <1>1 DEF LoadClear, LocalStep, LocalOps, AfterLocal, Instruction
<1>5. AndClear(p) => LocalStep(p)
  BY <1>1 DEF AndClear, LocalStep, LocalOps, AfterLocal, Instruction
<1>6. Move(p) => LocalStep(p)
  BY <1>1 DEF Move, LocalStep, LocalOps, AfterLocal, Instruction
<1>7. BitDec(p) => LocalStep(p)
  BY <1>1 DEF BitDec, LocalStep, LocalOps, AfterLocal, BitDecOf, Instruction
<1>8. BitCom(p) => LocalStep(p)
  BY <1>1 DEF BitCom, LocalStep, LocalOps, AfterLocal, BitComOf, Instruction
<1>9. Transpose(p) => LocalStep(p)
  BY <1>1 DEF Transpose, LocalStep, LocalOps, AfterLocal, TransOf, Instruction
<1> QED
  BY <1>2, <1>3, <1>4, <1>5, <1>6, <1>7, <1>8, <1>9

-----------------------------------------------------------------------------
(* What the plan says of a connection that is not empty.                   *)
LEMMA LinkHead ==
    ASSUME TypeOK, NEW p \in Party, NEW q \in Party, Link(p, q),
           NEW k \in Planned(p, q), TakenFrom(q, p) = k, chan[p][q] # <<>>
    PROVE  /\ k \in Nat /\ k < SentTo(p)
           /\ Head(chan[p][q]) \in Message
           /\ Fits(p, q, k, Head(chan[p][q]))
           /\ Carries(Meant(p, q), Tail(chan[p][q]), Got(q, p) \cup {k}, Gone(p, q))
<1>1. PICK ms, got, gone, meant : /\ ms = chan[p][q] /\ got = Got(q, p) /\ gone = Gone(p, q)
                                  /\ meant = Meant(p, q)
  OBVIOUS
<1>2. ms \in Seq(Message) /\ ms # <<>>
  BY <1>1, TypedParts
<1>3. Planned(p, q) \in SUBSET Nat
  BY DEF Planned
<1>4. k \in Nat /\ SentTo(p) \in Nat
  BY <1>3, Frontiers
<1>5. gone \in SUBSET Nat /\ k \notin got
  BY <1>1, <1>3, <1>4 DEF Gone, Got, Below
<1>6. \A t \in gone \ got : k <= t /\ k \in gone
  <2> TAKE t \in gone \ got
  <2>1. t \in Planned(p, q) /\ t < SentTo(p) /\ ~(t < k) /\ t \in Nat
    BY <1>1, <1>3 DEF Gone, Got, Below
  <2>2. k <= t /\ k < SentTo(p)
    BY <1>4, <2>1
  <2> QED
    BY <1>1, <2>2 DEF Gone, Below
<1>7. Carries(meant, ms, got, gone)
  BY <1>1 DEF Link
<1>8. k \in gone /\ Head(ms) \in meant[k] /\ Carries(meant, Tail(ms), got \cup {k}, gone)
  <2>1. Due(k, got, gone)
    BY <1>5, <1>6 DEF Due
  <2> QED
    BY <1>2, <1>4, <1>5, <1>7, <2>1, CarriesFewer
<1>9. Head(ms) \in Message /\ Fits(p, q, k, Head(ms))
  BY <1>1, <1>8 DEF Meant
<1> QED
  BY <1>1, <1>4, <1>8, <1>9 DEF Gone, Below

(* Nothing is received that has not been sent. *)
LEMMA GotGone ==
    ASSUME NEW p \in Party, NEW q \in Party, Link(p, q), NEW t \in Planned(p, q),
           t < TakenFrom(q, p)
    PROVE  t < SentTo(p)
  BY DEF Link, Carries, Got, Gone, Below

(* Where the sender of a first message has got to. *)
LEMMA SentFirst ==
    ASSUME TypeOK, Control, NEW p \in Party, Whereabouts(p), NEW k \in 1 .. Len(program),
           2 * k < SentTo(p)
    PROVE  /\ k <= ip[p]
           /\ k = ip[p] => pc[p] \notin Seeding \cup {"idle", "prepare", "send"}
           /\ k = ip[p] /\ program[k].op = "ands" => pc[p] \in Sent
<1>1. PICK i \in Nat : i = ip[p]
  BY DEF TypeOK
<1>2. k \in Nat /\ k >= 1 /\ ip[p] = i
  BY <1>1
<1>3. pc[p] \in Location
  BY DEF TypeOK
<1>4. CASE pc[p] \in Seeding
  BY <1>2, <1>4 DEF SentTo, Seeding
<1>5. CASE pc[p] \in {"idle", "prepare", "send"}
  <2>1. SentTo(p) = 2 * i \/ SentTo(p) = 1
    BY <1>1, <1>5 DEF SentTo
  <2>2. k < i
    BY <1>2, <2>1
  <2> QED
    BY <1>2, <2>2
<1>6. CASE pc[p] \notin Seeding \cup {"idle", "prepare", "send"}
  <2>1. SentTo(p) \in {1, 2 * i + 1, 2 * i + 2}
    BY <1>1, <1>6 DEF SentTo, Seeding
  <2>2. k <= i
    BY <1>2, <2>1
  <2>3. ASSUME k = ip[p], program[k].op = "ands" PROVE pc[p] \in Sent
    <3>1. pc[p] # "open" /\ pc[p] \notin Inputting
      BY <2>3 DEF Whereabouts, At
    <3> QED
      BY <1>3, <1>6, <3>1 DEF Location, Sent, Seeding, Inputting
  <2> QED
    BY <1>2, <1>6, <2>2, <2>3
<1> QED
  BY <1>4, <1>5, <1>6

(* What a party has finished it has received everything for. *)
LEMMA TakenEarlier ==
    ASSUME TypeOK, NEW p \in Party, Control, Whereabouts(p), NEW q, NEW k \in Nat, k < ip[p], k >= 1
    PROVE  2 * k < TakenFrom(p, q) /\ 2 * k + 1 < TakenFrom(p, q)
<1>1. PICK i \in Nat : i = ip[p]
  BY DEF TypeOK
<1>2. i >= 2 /\ pc[p] \notin Seeding /\ prep[p].at = "ready"
  <2>1. i >= 2
    BY <1>1
  <2>2. ip[p] # 1
    BY <1>1, <2>1
  <2> QED
    BY <2>1, <2>2 DEF Whereabouts, Control, InBatch, Seeding
<1>3. TakenFrom(p, q) \in {2 * i, 2 * i + 1, 2 * i + 2}
  BY <1>1, <1>2 DEF TakenFrom, Seeding
<1> QED
  BY <1>1, <1>3

LEMMA SentDoneHere ==
    ASSUME TypeOK, Control, NEW q \in Party, Own(q), Whereabouts(q),
           NEW b \in 1 .. Len(program), program[b].op = "ands", 2 * b < SentTo(q)
    PROVE  Done(q, b)
<1>1. b <= ip[q] /\ (b = ip[q] => pc[q] \in Sent)
  BY SentFirst
<1>2. b \in Nat \ {0} /\ ip[q] \in Nat
  BY DEF TypeOK
<1>3. CASE b < ip[q]
  BY <1>2, <1>3, EarlierDone
<1>4. CASE b = ip[q]
  BY <1>1, <1>4, SentDone
<1> QED
  BY <1>1, <1>2, <1>3, <1>4

(***************************************************************************)
(* What the AND engine relies on (see Batches_proofs) holds whatever else  *)
(* the connections carry.                                                  *)
(***************************************************************************)
LEMMA BackedHere ==
    ASSUME TypeOK, Control, Traffic,
           \A p \in Party : Own(p) /\ SeedsHeld(p) /\ Whereabouts(p)
    PROVE  Backed
<1>1. ASSUME NEW p \in Party, NEW q \in Party, p # q, p # 2
      PROVE  Relies(p, q)
  <2>1. Link(q, p) /\ program \in Programs /\ Len(program) \in Nat
    BY <1>1, ProgramFacts DEF Traffic, TypeOK
  <2>2. \A b \in 1 .. Len(program) : program[b].op = "ands" => 2 * b \in Planned(q, p)
    BY <1>1, <2>1, PlannedTags DEF First
  <2>3. ip[p] \in Nat \ {0} /\ ip[p] <= Len(program) + 1 /\ InBatch(p)
    BY DEF TypeOK, Control, InBatch
  <2>4. ASSUME NEW b \in 1 .. Len(program), program[b].op = "ands", 2 * b < TakenFrom(p, q)
        PROVE  Done(q, b)
    <3>1. 2 * b < SentTo(q)
      BY <2>1, <2>2, <2>4, GotGone
    <3> QED
      BY <2>4, <3>1, SentDoneHere
  <2>5. ASSUME NEW b \in 1 .. ip[p] - 1, program[b].op = "ands"
        PROVE  Done(q, b)
    <3>1. b \in Nat /\ b >= 1 /\ b < ip[p] /\ b \in 1 .. Len(program)
      BY <2>1, <2>3
    <3>2. 2 * b < TakenFrom(p, q)
      BY <3>1, TakenEarlier
    <3> QED
      BY <2>4, <2>5, <3>1, <3>2
  <2>6. pc[p] \in Batch => ip[p] \in 1 .. Len(program) /\ program[ip[p]].op = "ands"
    BY <2>1, <2>3 DEF InBatch
  <2>7. PICK i \in Nat : i = ip[p]
    BY <2>3
  <2>8. ASSUME HasWords(p, q)
        PROVE  Done(q, ip[p])
    <3>1. \/ pc[p] = "receive_second" /\ q = Before(p)
          \/ pc[p] = "finalize"
      BY <2>8 DEF HasWords
    <3>2. TakenFrom(p, q) = 2 * i + 1 /\ pc[p] \in Batch
      BY <2>7, <3>1 DEF TakenFrom, Batch
    <3>3. 2 * i < TakenFrom(p, q)
      BY <3>2
    <3> QED
      BY <2>4, <2>6, <2>7, <3>2, <3>3
  <2>9. ASSUME pc[p] \in Batch, ~HasWords(p, q), chan[q][p] # <<>>
        PROVE  /\ Done(q, ip[p])
               /\ Joined(Head(chan[q][p]).words, 1, Len(Plan(ip[p])), SentFor(q, p, ip[p]))
    <3>1. TakenFrom(p, q) = 2 * i
      BY <2>7, <2>9 DEF TakenFrom, Batch, HasWords
    <3>2. i \in 1 .. Len(program) /\ program[i].op = "ands" /\ 2 * i \in Planned(q, p)
      BY <2>2, <2>6, <2>7, <2>9
    <3>3. 2 * i < SentTo(q) /\ Fits(q, p, 2 * i, Head(chan[q][p]))
      BY <2>1, <2>9, <3>1, <3>2, LinkHead
    <3>4. Done(q, i)
      BY <3>2, <3>3, SentDoneHere
    <3>5. Joined(Head(chan[q][p]).words, 1, Len(Plan(i)), SentFor(q, p, i))
      BY <3>2, <3>3 DEF Fits
    <3> QED
      BY <2>7, <3>4, <3>5
  <2> QED
    BY <2>5, <2>8, <2>9 DEF Relies
<1>2. 2 \in Party /\ pc[2] \notin {"receive_first", "receive_second"}
  BY DEF Party, Whereabouts
<1> QED
  BY <1>1, <1>2 DEF Backed

-----------------------------------------------------------------------------
(***************************************************************************)
(* The steps outside the batches are of two kinds: a party moves on within *)
(* an instruction and changes its connections, or it ends an instruction.  *)
(***************************************************************************)
Between == {"idle", "open"} \cup Inputting

Connections == [Party -> [Party -> Seq(Message)]]

Aside(p) ==
    /\ pc[p] \in Between /\ pc'[p] \in Between
    /\ pc' = [pc EXCEPT ![p] = pc'[p]]
    /\ UNCHANGED <<program, tape, ip, gate, prng, S, os, kept, log, marks>>

Ahead(p) ==
    /\ pc[p] \in Between /\ Running(p) /\ program[ip[p]].op # "ands"
    /\ pc' = [pc EXCEPT ![p] = "idle"]
    /\ ip' = [ip EXCEPT ![p] = ip[p] + 1]
    /\ S'[p] \in Registers /\ S' = [S EXCEPT ![p] = S'[p]]
    /\ log' = [log EXCEPT ![p] = Append(log[p], S'[p])]
    /\ UNCHANGED <<program, tape, gate, prng, os, kept, marks>>

LEMMA BetweenWhere ==
    \A l \in Between : l \in Location /\ l \notin Batch /\ l \notin Seeding /\ l \notin Sent
  BY DEF Between, Inputting, Location, Batch, Seeding, Sent

LEMMA AsideOthers ==
    ASSUME TypeOK, NEW r \in Party, Aside(r), NEW p \in Party, p # r
    PROVE  pc'[p] = pc[p]
  BY DEF Aside, TypeOK

LEMMA AheadOthers ==
    ASSUME TypeOK, NEW r \in Party, Ahead(r), NEW p \in Party
    PROVE  /\ p # r => /\ pc'[p] = pc[p] /\ ip'[p] = ip[p] /\ S'[p] = S[p]
                       /\ log'[p] = log[p]
           /\ pc'[r] = "idle" /\ ip'[r] = ip[r] + 1
           /\ log'[r] = Append(log[r], S'[r]) /\ S'[r] \in Registers
<1>1. pc \in [Party -> Location] /\ ip \in [Party -> Nat \ {0}] /\ S \in [Party -> [Reg -> Share]]
      /\ log \in [Party -> Seq([Reg -> Share])]
  BY DEF TypeOK
<1>2. PICK regs : regs = S'[r]
  OBVIOUS
<1>3. S' = [S EXCEPT ![r] = regs] /\ log' = [log EXCEPT ![r] = Append(log[r], regs)]
  BY <1>2 DEF Ahead
<1> QED
  BY <1>1, <1>2, <1>3 DEF Ahead

LEMMA AsideType ==
    ASSUME TypeOK, Control, NEW r \in Party, Aside(r), chan' \in Connections
    PROVE  TypeOK' /\ Control'
<1>1. pc' \in [Party -> Location]
  BY BetweenWhere DEF Aside, TypeOK
<1>2. TypeOK'
  BY <1>1 DEF TypeOK, Aside, kept, Connections, Mark, Message
<1>3. ASSUME NEW p \in Party
      PROVE  InBatch(p)'
  <2>1. InBatch(p)
    BY DEF Control
  <2>2. program' = program /\ ip' = ip /\ gate' = gate /\ and_operands' = and_operands
    BY DEF Aside, kept
  <2>3. CASE p # r
    BY <2>1, <2>2, <2>3, AsideOthers DEF InBatch, Gates
  <2>4. CASE p = r
    <3>1. /\ pc[p] \notin Batch /\ pc[p] \notin Seeding
          /\ pc'[p] \notin Batch /\ pc'[p] \notin Seeding
      BY <2>4, BetweenWhere DEF Aside
    <3> QED
      BY <2>1, <2>2, <3>1 DEF InBatch, Batch, Seeding
  <2> QED
    BY <2>3, <2>4
<1> QED
  BY <1>2, <1>3 DEF Control

LEMMA AheadType ==
    ASSUME TypeOK, Control, NEW r \in Party, Ahead(r), chan' \in Connections
    PROVE  TypeOK' /\ Control'
<1>1. pc' \in [Party -> Location] /\ ip' \in [Party -> Nat \ {0}]
  <2>1. "idle" \in Location
    BY DEF Location
  <2>2. ip[r] + 1 \in Nat \ {0}
    BY DEF TypeOK
  <2> QED
    BY <2>1, <2>2 DEF Ahead, TypeOK
<1>2. S' \in [Party -> [Reg -> Share]] /\ log' \in [Party -> Seq([Reg -> Share])]
  <2>1. PICK regs \in Registers : regs = S'[r]
    BY DEF Ahead
  <2>2. S' = [S EXCEPT ![r] = regs] /\ log' = [log EXCEPT ![r] = Append(log[r], regs)]
    BY <2>1 DEF Ahead
  <2>3. log[r] \in Seq([Reg -> Share]) /\ regs \in [Reg -> Share]
    BY <2>1 DEF TypeOK, Registers
  <2>4. Append(log[r], regs) \in Seq([Reg -> Share])
    BY <2>3, AppendProperties
  <2> QED
    BY <2>2, <2>3, <2>4 DEF TypeOK
<1>3. TypeOK'
  BY <1>1, <1>2 DEF TypeOK, Ahead, kept, Connections, Mark, Message
<1>4. ASSUME NEW p \in Party
      PROVE  InBatch(p)'
  <2>1. InBatch(p)
    BY DEF Control
  <2>2. program' = program /\ gate' = gate /\ and_operands' = and_operands
    BY DEF Ahead, kept
  <2>3. CASE p # r
    BY <2>1, <2>2, <2>3, AheadOthers DEF InBatch, Gates
  <2>4. CASE p = r
    <3>1. /\ pc[p] \notin Batch /\ pc'[p] = "idle"
          /\ "idle" \notin Batch /\ "idle" \notin Seeding
      BY <2>4, BetweenWhere, AheadOthers DEF Ahead, Batch, Seeding
    <3>2. ip'[p] = ip[p] + 1 /\ ip[p] <= Len(program)
      BY <2>4, AheadOthers DEF Ahead, Running
    <3>3. ip[p] \in Nat /\ Len(program) \in Nat
      BY ProgramFacts DEF TypeOK
    <3>4. ip'[p] <= Len(program') + 1
      BY <2>2, <3>2, <3>3
    <3> QED
      BY <2>1, <2>2, <3>1, <3>4 DEF InBatch, Batch, Seeding
  <2> QED
    BY <2>3, <2>4
<1> QED
  BY <1>3, <1>4 DEF Control

-----------------------------------------------------------------------------
(* They prepare no AND, and leave the tracks as they are.                  *)
LEMMA AsideUnmoved ==
    ASSUME TypeOK, NEW r \in Party, Aside(r), NEW p \in Party, OnTrack(p)
    PROVE  Unmoved(p)
<1>1. /\ program' = program /\ marks'[p] = marks[p] /\ ip'[p] = ip[p]
      /\ gate'[p] = gate[p] /\ prng'[p] = prng[p]
  BY DEF Aside
<1>2. pc'[p] \in Sent <=> pc[p] \in Sent
  BY AsideOthers, BetweenWhere DEF Aside
<1>3. pc'[p] \in Seeding => pc[p] \in Seeding
  BY AsideOthers, BetweenWhere DEF Aside
<1> QED
  BY <1>1, <1>2, <1>3, PositionSame DEF Unmoved

LEMMA AheadUnmoved ==
    ASSUME TypeOK, Control, NEW r \in Party, Ahead(r), NEW p \in Party, OnTrack(p)
    PROVE  Unmoved(p)
<1>1. /\ program' = program /\ marks'[p] = marks[p]
      /\ gate'[p] = gate[p] /\ prng'[p] = prng[p]
  BY DEF Ahead
<1>2. CASE p # r
  <2>1. pc'[p] = pc[p] /\ ip'[p] = ip[p]
    BY <1>2, AheadOthers
  <2> QED
    BY <1>1, <2>1, PositionSame DEF Unmoved
<1>3. CASE p = r
  <2>1. /\ pc[p] \notin Sent /\ pc'[p] \notin Sent /\ pc'[p] \notin Seeding
        /\ ip'[p] = ip[p] + 1 /\ program[ip[p]].op # "ands" /\ Running(p)
    BY <1>3, AheadOthers, BetweenWhere DEF Ahead, Sent, Seeding
  <2>2. ip[p] \in 1 .. Len(program) /\ Len(program) \in Nat
    <3>1. ip[p] \in Nat \ {0} /\ Len(program) \in Nat
      BY ProgramFacts DEF TypeOK
    <3> QED
      BY <2>1, <3>1 DEF Running
  <2>3. Coming(program, ip[p]) = Coming(program, ip[p] + 1)
    BY <2>1, <2>2, ComingHere
  <2>4. PICK c, g, f, h : /\ c = Coming(program, ip[p]) /\ g = gate[p] /\ f = prng[p]
                          /\ h = [i \in 0 .. 3 |-> f[i].pos]
    OBVIOUS
  <2>5. Position(p) = [ip |-> c, gate |-> g, pos |-> h]
    BY <2>1, <2>4 DEF Position
  <2>6. Position(p)' = [ip |-> c, gate |-> g, pos |-> h]
    BY <1>1, <2>1, <2>3, <2>4 DEF Position
  <2> QED
    BY <1>1, <2>1, <2>5, <2>6, TrackKept DEF Unmoved
<1> QED
  BY <1>2, <1>3

LEMMA UnmovedTracks ==
    ASSUME TypeOK, TypeOK', Tracks, \A p \in Party : Unmoved(p)
    PROVE  Tracks'
<1>1. ASSUME NEW p \in Party PROVE Moved(p)
  BY <1>1 DEF Unmoved, Moved
<1> QED
  BY <1>1, TracksMoved

-----------------------------------------------------------------------------
(* Their histories grow, and what the AND engine has is kept.              *)
LEMMA AsideGrown ==
    ASSUME NEW r \in Party, Aside(r), NEW p \in Party, Marking(p)
    PROVE  Grown(p)
<1>1. /\ program' = program /\ tape' = tape /\ log'[p] = log[p] /\ marks'[p] = marks[p]
  BY DEF Aside
<1>2. Distinct(p)
  BY DEF Marking
<1>3. Distinct(p)' /\ \A m, b, g : Names(p, m, b, g) => Names(p, m, b, g)'
  BY <1>1, <1>2, DistinctSame
<1> QED
  BY <1>1, <1>3 DEF Grown

LEMMA AheadGrown ==
    ASSUME TypeOK, NEW r \in Party, Ahead(r), NEW p \in Party, Marking(p)
    PROVE  Grown(p)
<1>1. /\ program' = program /\ tape' = tape /\ marks'[p] = marks[p]
  BY DEF Ahead
<1>2. Distinct(p)
  BY DEF Marking
<1>3. Distinct(p)' /\ \A m, b, g : Names(p, m, b, g) => Names(p, m, b, g)'
  BY <1>1, <1>2, DistinctSame
<1>4. \A b \in 1 .. Len(log[p]) : b \in 1 .. Len(log'[p]) /\ log'[p][b] = log[p][b]
  <2>1. CASE p # r
    BY <2>1, AheadOthers
  <2>2. CASE p = r
    <3>1. PICK regs \in [Reg -> Share] : regs = S'[r]
      BY AheadOthers DEF Registers
    <3>2. log'[p] = Append(log[p], regs) /\ log[p] \in Seq([Reg -> Share])
      BY <2>2, <3>1, AheadOthers DEF TypeOK
    <3>3. Len(log'[p]) = Len(log[p]) + 1 /\ Len(log[p]) \in Nat
      BY <3>2, AppendProperties, LenProperties
    <3>4. \A b \in 1 .. Len(log[p]) : log'[p][b] = log[p][b]
      BY <3>2, AppendProperties
    <3> QED
      BY <3>3, <3>4
  <2> QED
    BY <2>1, <2>2
<1> QED
  BY <1>1, <1>3, <1>4 DEF Grown

LEMMA AsideOwn ==
    ASSUME TypeOK, Control, Backed, \A q \in Party : Own(q) /\ Grown(q),
           NEW r \in Party, Aside(r), NEW p \in Party
    PROVE  Own(p)'
<1>1. /\ program' = program /\ ip' = ip /\ gate' = gate /\ S' = S /\ os' = os
      /\ add_shares' = add_shares /\ add_shares_2' = add_shares_2
      /\ and_operands' = and_operands /\ log' = log /\ marks' = marks
  BY DEF Aside, kept
<1>2. CASE p # r
  <2>1. Alone(p)
    BY <1>1, <1>2, AsideOthers DEF Alone
  <2> QED
    BY <1>1, <2>1, AloneFramed, FramedOwn
<1>3. CASE p = r
  <2>1. /\ pc[p] \notin Batch /\ pc[p] \notin Sent /\ pc'[p] \notin Batch /\ pc'[p] \notin Sent
    BY <1>3, BetweenWhere DEF Aside
  <2>2. Made(p)' = Made(p) /\ Open(p)' = Open(p)
    BY <2>1 DEF Made, Open, Sent, Batch
  <2>3. Framed(p)
    BY <1>1, <2>1, <2>2 DEF Framed, Batch, HasWords
  <2> QED
    BY <2>3, FramedOwn
<1> QED
  BY <1>2, <1>3

(* The vectors of a party that is in no batch are empty.                   *)
LEMMA VectorsEmpty ==
    ASSUME TypeOK, NEW p \in Party, Keeping(p), Made(p) = 0, Open(p) = 1
    PROVE  /\ add_shares[p] = <<>> /\ add_shares_2[p] = <<>> /\ Len(and_operands[p]) = 0
<1>1. add_shares[p] \in Seq(Vec) /\ add_shares_2[p] \in Seq(Vec)
  BY DEF TypeOK
<1>2. PICK k \in Nat : k = 1 /\ k - 1 = 0
  OBVIOUS
<1>3. /\ Joined(add_shares[p], k, k - 1, AddFor(p, ip[p]))
      /\ Joined(add_shares_2[p], k, k - 1, Add2For(p, ip[p]))
      /\ Len(and_operands[p]) = 0
  BY <1>2 DEF Keeping
<1> QED
  BY <1>1, <1>3, JoinedNone

LEMMA AheadLogged ==
    ASSUME TypeOK, Control, Backed, \A q \in Party : Own(q) /\ Grown(q),
           NEW p \in Party, Ahead(p)
    PROVE  Logged(p)'
<1>1. PICK b, regs : b = ip[p] /\ regs = S'[p]
  OBVIOUS
<1>2. /\ ip'[p] = b + 1 /\ b \in Nat \ {0} /\ pc'[p] = "idle" /\ program' = program
      /\ program[b].op # "ands"
  BY <1>1, AheadOthers DEF Ahead, TypeOK
<1>3. /\ log[p] \in Seq([Reg -> Share]) /\ regs \in [Reg -> Share] /\ Len(log[p]) = b
      /\ log'[p] = Append(log[p], regs)
  BY <1>1, AheadOthers DEF Own, Logged, TypeOK, Registers
<1>4. Len(log'[p]) = b + 1 /\ log'[p][b + 1] = regs
  BY <1>3, AppendProperties
<1>5. ASSUME NEW c \in 1 .. b, program'[c].op = "ands"
      PROVE  Updated(Plan(c)', ResultsFor(p, c)', Len(Plan(c)'), log'[p][c], log'[p][c + 1])
  <2>1. c \in 1 .. ip[p] - 1
    BY <1>1, <1>2, <1>5
  <2> QED
    BY <1>5, <2>1, EarlierLogged
<1> QED
  BY <1>1, <1>2, <1>4, <1>5 DEF Logged

LEMMA AheadMarking ==
    ASSUME TypeOK, NEW p \in Party, Own(p), Grown(p), Ahead(p)
    PROVE  Marking(p)'
<1>1. PICK k : k = ip[p]
  OBVIOUS
<1>2. /\ ip'[p] = k + 1 /\ k \in Nat \ {0} /\ pc'[p] = "idle" /\ program' = program
      /\ program[k].op # "ands" /\ marks' = marks
  BY <1>1, AheadOthers DEF Ahead, TypeOK
<1>3. Made(p) = 0 /\ Made(p)' = 0
  BY <1>2, BetweenWhere DEF Made, Ahead, Sent, Between, Inputting
<1>4. Marking(p) /\ Distinct(p)'
  BY DEF Own, Grown
<1>5. \A m, b, g : Names(p, m, b, g) => Names(p, m, b, g)'
  BY DEF Grown
<1>6. ASSUME NEW b \in 1 .. k, program'[b].op = "ands", NEW g \in 1 .. Len(Plan(b)')
      PROVE  Marked(p, b, g)'
  <2>1. b \in 1 .. ip[p] - 1 /\ program[b].op = "ands"
    BY <1>1, <1>2, <1>6
  <2>2. g \in 1 .. Len(Plan(b))
    BY <1>2 DEF Plan
  <2>3. Marked(p, b, g)
    BY <1>4, <2>1, <2>2 DEF Marking
  <2> QED
    BY <1>5, <2>3 DEF Marked
<1>7. ASSUME NEW m \in DOMAIN marks'[p]
      PROVE  marks'[p][m].ip < k + 1
  <2>1. m \in DOMAIN marks[p] /\ marks[p][m].ip \in Nat
    <3>1. marks[p] \in Seq(Mark) /\ m \in DOMAIN marks[p]
      BY <1>2 DEF TypeOK
    <3>2. marks[p][m] \in Mark
      BY <3>1, ElementOfSeq, LenProperties
    <3> QED
      BY <3>1, <3>2 DEF Mark
  <2>2. marks[p][m].ip < k \/ marks[p][m].ip = k
    BY <1>1, <1>4, <2>1 DEF Marking
  <2> QED
    BY <1>2, <2>1, <2>2
<1>8. \A g \in 1 .. Made(p)' : Marked(p, ip[p], g)'
  BY <1>3
<1> QED
  BY <1>2, <1>4, <1>6, <1>7, <1>8 DEF Marking

LEMMA AheadOwn ==
    ASSUME TypeOK, Control, Backed, \A q \in Party : Own(q) /\ Grown(q),
           NEW r \in Party, Ahead(r), NEW p \in Party
    PROVE  Own(p)'
<1>1. /\ program' = program /\ gate' = gate /\ os' = os
      /\ add_shares' = add_shares /\ add_shares_2' = add_shares_2
      /\ and_operands' = and_operands /\ marks' = marks
  BY DEF Ahead, kept
<1>2. CASE p # r
  <2>1. Alone(p)
    BY <1>1, <1>2, AheadOthers DEF Alone
  <2> QED
    BY <1>1, <2>1, AloneFramed, FramedOwn
<1>3. CASE p = r
  <2>1. /\ pc[p] \notin Batch /\ pc[p] \notin Sent /\ pc'[p] = "idle"
    BY <1>3, AheadOthers, BetweenWhere DEF Ahead
  <2>2. Made(p) = 0 /\ Open(p) = 1 /\ Made(p)' = 0 /\ Open(p)' = 1
    BY <2>1 DEF Made, Open, Sent, Batch
  <2>3. Logged(p)' /\ Marking(p)'
    BY <1>3, AheadLogged, AheadMarking
  <2>4. Keeping(p)'
    <3>1. add_shares[p] = <<>> /\ add_shares_2[p] = <<>> /\ Len(and_operands[p]) = 0
      BY <2>2, VectorsEmpty DEF Own
    <3>2. \A g \in 1 .. 0 : FALSE
      OBVIOUS
    <3> QED
      BY <1>1, <2>2, <3>1, <3>2, NothingJoined DEF Keeping
  <2>5. Sending(p)'
    BY <2>1 DEF Sending
  <2>6. Received(p)'
    <3>1. Received(p)
      BY DEF Own
    <3>2. \A q : ~HasWords(p, q)'
      BY <2>1 DEF HasWords
    <3> QED
      BY <1>1, <2>1, <3>1, <3>2 DEF Received
  <2> QED
    BY <2>3, <2>4, <2>5, <2>6 DEF Own
<1> QED
  BY <1>2, <1>3

-----------------------------------------------------------------------------
(* What was planned to be sent, and has been, keeps its meaning.           *)
Lasting(p, q) == \A t \in Gone(p, q) : Meant(p, q)[t] \subseteq Meant(p, q)'[t]

LEMMA PlanSame ==
    ASSUME program' = program, tape' = tape, input' = input
    PROVE  \A p, q \in Party :
              /\ Planned(p, q)' = Planned(p, q)
              /\ \A k : /\ Mine(p, k)' = Mine(p, k)
                        /\ DealingsFor(p, k)' = DealingsFor(p, k)
                        /\ InputsFor(p, q, k)' = InputsFor(p, q, k)
              /\ ReadsOf(p)' = ReadsOf(p)
<1> SUFFICES ASSUME NEW p \in Party, NEW q \in Party
             PROVE  /\ Planned(p, q)' = Planned(p, q)
                    /\ \A k : /\ Mine(p, k)' = Mine(p, k)
                              /\ DealingsFor(p, k)' = DealingsFor(p, k)
                              /\ InputsFor(p, q, k)' = InputsFor(p, q, k)
                    /\ ReadsOf(p)' = ReadsOf(p)
  OBVIOUS
<1>1. \A k : Mine(p, k)' = Mine(p, k)
  BY DEF Mine
<1>2. ReadsOf(p)' = ReadsOf(p)
  BY DEF ReadsOf
<1>3. \A k : DealingsFor(p, k)' = DealingsFor(p, k)
  <2>1. \A k, i : DealingFor(p, k, i)' = DealingFor(p, k, i)
    <3>1. \A i, n : Fresh(p, i, n)' = Fresh(p, i, n)
      BY DEF Fresh, Private
    <3> QED
      BY <1>1, <1>2, <3>1 DEF DealingFor
  <2> QED
    BY <1>1, <2>1 DEF DealingsFor
<1>4. \A k : InputsFor(p, q, k)' = InputsFor(p, q, k)
  BY <1>1, <1>3 DEF InputsFor
<1>5. \A k : (First(p, q, k)' <=> First(p, q, k)) /\ (Second(p, k)' <=> Second(p, k))
  BY <1>1 DEF First, Second
<1>6. Planned(p, q)' = Planned(p, q)
  BY <1>5 DEF Planned
<1> QED
  BY <1>1, <1>2, <1>3, <1>4, <1>6

LEMMA MeantKept ==
    ASSUME TypeOK, Control, NEW p \in Party, NEW q \in Party, Own(p), Grown(p), Whereabouts(p),
           input' = input
    PROVE  Lasting(p, q)
<1>1. program' = program /\ tape' = tape
  BY DEF Grown
<1>2. Planned(p, q)' = Planned(p, q) /\ \A k : InputsFor(p, q, k)' = InputsFor(p, q, k)
  BY <1>1, PlanSame
<1>3. SUFFICES ASSUME NEW t \in Gone(p, q), NEW m \in Message, Fits(p, q, t, m)
               PROVE  Fits(p, q, t, m)'
  BY <1>2 DEF Lasting, Meant, Gone, Below
<1>4. t \in Planned(p, q) /\ t < SentTo(p)
  BY DEF Gone, Below
<1>5. (t = 0 => m = SeedMessage(SeedFor(p, q))) /\ (t = 1 => m = SeedMessage(<<p, 3>>))
  BY <1>3 DEF Fits
<1>6. ASSUME NEW k \in 1 .. Len(program)
      PROVE  /\ t = 2 * k /\ program[k].op = "ands" =>
                   Joined(m.words, 1, Len(Plan(k)'), SentFor(p, q, k)')
             /\ t = 2 * k /\ program[k].op = "reveal" => m.words = ShownBy(p, k)'
             /\ t = 2 * k + 1 => m.words = InputsFor(p, q, k)'
  <2>1. ASSUME t = 2 * k, program[k].op = "ands"
        PROVE  Joined(m.words, 1, Len(Plan(k)'), SentFor(p, q, k)')
    <3>1. Done(p, k)
      BY <1>4, <2>1, SentDoneHere
    <3>2. Joined(m.words, 1, Len(Plan(k)), SentFor(p, q, k))
      BY <1>3, <2>1 DEF Fits
    <3>3. \A g \in 1 .. Len(Plan(k)) : SentFor(p, q, k)'[g] = SentFor(p, q, k)[g]
      BY <3>1, SentSame DEF Own, Marking
    <3>4. Plan(k)' = Plan(k)
      BY <1>1 DEF Plan
    <3>5. PICK n, ws, c, d : /\ n = Len(Plan(k)) /\ ws = m.words
                             /\ c = SentFor(p, q, k) /\ d = SentFor(p, q, k)'
      OBVIOUS
    <3>6. Joined(ws, 1, n, d)
      BY <3>2, <3>3, <3>5, JoinedSame
    <3> QED
      BY <3>4, <3>5, <3>6
  <2>2. ASSUME t = 2 * k, program[k].op = "reveal"
        PROVE  m.words = ShownBy(p, k)'
    <3>1. k <= ip[p]
      BY <1>4, <2>2, SentFirst
    <3>2. k \in 1 .. Len(log[p])
      <4>1. Len(log[p]) = ip[p] /\ ip[p] \in Nat
        BY DEF Own, Logged, TypeOK
      <4> QED
        BY <3>1, <4>1
    <3>3. log'[p][k] = log[p][k]
      BY <3>2 DEF Grown
    <3>4. ShownBy(p, k)' = ShownBy(p, k)
      BY <1>1, <3>3 DEF ShownBy
    <3> QED
      BY <1>3, <2>2, <3>4 DEF Fits
  <2>3. t = 2 * k + 1 => m.words = InputsFor(p, q, k)'
    BY <1>2, <1>3 DEF Fits
  <2> QED
    BY <2>1, <2>2, <2>3
<1> QED
  BY <1>1, <1>5, <1>6 DEF Fits, SeedFor, SeedMessage

-----------------------------------------------------------------------------
(* What a step does to a connection, at the end of the sender and at the   *)
(* end of the receiver: nothing, or the next message if there is to be one.*)
Emits(p, q) ==
    \/ SentTo(p)' = SentTo(p) /\ chan'[p][q] = chan[p][q]
    \/ \E k : /\ k = SentTo(p) /\ SentTo(p)' = k + 1
              /\ IF k \in Planned(p, q)
                 THEN \E m \in Message : /\ chan'[p][q] = Append(chan[p][q], m)
                                         /\ Fits(p, q, k, m)'
                 ELSE chan'[p][q] = chan[p][q]
    \/ \E k : /\ k = SentTo(p) /\ SentTo(p)' = k + 2
              /\ k \notin Planned(p, q) /\ k + 1 \notin Planned(p, q)
              /\ chan'[p][q] = chan[p][q]

Absorbs(q, p) ==
    \/ TakenFrom(q, p)' = TakenFrom(q, p) /\ chan'[p][q] = chan[p][q]
    \/ \E k : /\ k = TakenFrom(q, p)
              /\ \/ TakenFrom(q, p)' = k + 1
                 \/ TakenFrom(q, p)' = k + 2 /\ k + 1 \notin Planned(p, q)
              /\ IF k \in Planned(p, q)
                 THEN chan[p][q] # <<>> /\ chan'[p][q] = Tail(chan[p][q])
                 ELSE chan'[p][q] = chan[p][q]

LEMMA BelowTwo ==
    ASSUME NEW tags \in SUBSET Nat, NEW b \in Nat, b \notin tags, b + 1 \notin tags
    PROVE  Below(tags, b + 2) = Below(tags, b)
<1>1. \A t \in tags : t < b + 2 <=> t < b
  <2> TAKE t \in tags
  <2>1. t \in Nat /\ t # b /\ t # b + 1
    OBVIOUS
  <2> QED
    BY <2>1
<1> QED
  BY <1>1 DEF Below

LEMMA LinkSent ==
    ASSUME TypeOK, NEW p \in Party, NEW q \in Party, Link(p, q), Lasting(p, q),
           Planned(p, q)' = Planned(p, q), Emits(p, q),
           TakenFrom(q, p)' = TakenFrom(q, p)
    PROVE  Link(p, q)'
<1>1. PICK ms, got, gone, meant, later, plan, s :
          /\ ms = chan[p][q] /\ got = Got(q, p) /\ gone = Gone(p, q)
          /\ meant = Meant(p, q) /\ later = Meant(p, q)' /\ plan = Planned(p, q)
          /\ s = SentTo(p)
  OBVIOUS
<1>2. plan \in SUBSET Nat /\ s \in Nat /\ ms \in Seq(Message)
  BY <1>1, Frontiers, TypedParts DEF Planned
<1>3. Got(q, p)' = got /\ gone = Below(plan, s)
  BY <1>1 DEF Got, Gone
<1>4. Carries(meant, ms, got, gone) /\ \A t \in gone : meant[t] \subseteq later[t]
  BY <1>1 DEF Link, Lasting
<1>5. Carries(later, ms, got, gone)
  BY <1>4, CarriesKept
<1>6. ASSUME Gone(p, q)' = gone, chan'[p][q] = ms
      PROVE  Link(p, q)'
  BY <1>1, <1>3, <1>5, <1>6 DEF Link
<1>7. CASE SentTo(p)' = SentTo(p) /\ chan'[p][q] = chan[p][q]
  BY <1>1, <1>3, <1>6, <1>7 DEF Gone
<1>8. CASE /\ SentTo(p)' = s + 1
           /\ IF s \in plan
              THEN \E m \in Message : chan'[p][q] = Append(ms, m) /\ Fits(p, q, s, m)'
              ELSE chan'[p][q] = ms
  <2>1. Gone(p, q)' = IF s \in plan THEN gone \cup {s} ELSE gone
    <3>1. Gone(p, q)' = Below(plan, s + 1)
      BY <1>1, <1>8 DEF Gone
    <3> QED
      BY <1>2, <1>3, <3>1, BelowNext
  <2>2. CASE s \notin plan
    BY <1>6, <1>8, <2>1, <2>2
  <2>3. CASE s \in plan
    <3>1. PICK m \in Message : chan'[p][q] = Append(ms, m) /\ Fits(p, q, s, m)'
      BY <1>8, <2>3
    <3>2. m \in later[s]
      BY <1>1, <2>3, <3>1 DEF Meant
    <3>3. \A t \in gone : t < s
      BY <1>3 DEF Below
    <3>4. gone \in SUBSET Nat
      BY <1>2, <1>3 DEF Below
    <3>5. Carries(later, Append(ms, m), got, gone \cup {s})
      BY <1>2, <1>5, <3>2, <3>3, <3>4, CarriesMore
    <3> QED
      BY <1>1, <1>3, <2>1, <2>3, <3>1, <3>5 DEF Link
  <2> QED
    BY <2>2, <2>3
<1>9. CASE /\ SentTo(p)' = s + 2 /\ s \notin plan /\ s + 1 \notin plan
           /\ chan'[p][q] = ms
  <2>1. Gone(p, q)' = gone
    BY <1>1, <1>2, <1>3, <1>9, BelowTwo DEF Gone
  <2> QED
    BY <1>6, <1>9, <2>1
<1> QED
  BY <1>1, <1>7, <1>8, <1>9 DEF Emits

LEMMA LinkTaken ==
    ASSUME TypeOK, NEW p \in Party, NEW q \in Party, Link(p, q), Lasting(p, q),
           Planned(p, q)' = Planned(p, q), Absorbs(q, p),
           SentTo(p)' = SentTo(p)
    PROVE  Link(p, q)'
<1>1. PICK ms, got, gone, meant, later, plan, s :
          /\ ms = chan[p][q] /\ got = Got(q, p) /\ gone = Gone(p, q)
          /\ meant = Meant(p, q) /\ later = Meant(p, q)' /\ plan = Planned(p, q)
          /\ s = TakenFrom(q, p)
  OBVIOUS
<1>2. plan \in SUBSET Nat /\ s \in Nat /\ ms \in Seq(Message)
  BY <1>1, Frontiers, TypedParts DEF Planned
<1>3. Gone(p, q)' = gone /\ got = Below(plan, s)
  BY <1>1 DEF Got, Gone
<1>4. \A t \in gone : meant[t] \subseteq later[t]
  BY <1>1 DEF Lasting
<1>5. ASSUME Got(q, p)' = got, chan'[p][q] = ms
      PROVE  Link(p, q)'
  <2>1. Carries(meant, ms, got, gone)
    BY <1>1 DEF Link
  <2>2. Carries(later, ms, got, gone)
    BY <1>4, <2>1, CarriesKept
  <2> QED
    BY <1>1, <1>3, <1>5, <2>2 DEF Link
<1>6. CASE TakenFrom(q, p)' = TakenFrom(q, p) /\ chan'[p][q] = chan[p][q]
  BY <1>1, <1>3, <1>5, <1>6 DEF Got
<1>7. CASE /\ \/ TakenFrom(q, p)' = s + 1
              \/ TakenFrom(q, p)' = s + 2 /\ s + 1 \notin plan
           /\ IF s \in plan THEN ms # <<>> /\ chan'[p][q] = Tail(ms) ELSE chan'[p][q] = ms
  <2>1. Got(q, p)' = IF s \in plan THEN got \cup {s} ELSE got
    <3>1. Below(plan, s + 1) = IF s \in plan THEN Below(plan, s) \cup {s} ELSE Below(plan, s)
      BY <1>2, BelowNext
    <3>2. s + 1 \notin plan => Below(plan, s + 2) = Below(plan, s + 1)
      <4>1. PICK b \in Nat : b = s + 1 /\ b + 1 = s + 2
        BY <1>2
      <4>2. Below(plan, b + 1) = IF b \in plan THEN Below(plan, b) \cup {b} ELSE Below(plan, b)
        BY <1>2, BelowNext
      <4> QED
        BY <4>1, <4>2
    <3>3. Got(q, p)' = Below(plan, s + 1)
      BY <1>1, <1>7, <3>2 DEF Got
    <3> QED
      BY <1>3, <3>1, <3>3
  <2>2. CASE s \notin plan
    BY <1>5, <1>7, <2>1, <2>2
  <2>3. CASE s \in plan
    <3>1. Carries(meant, Tail(ms), got \cup {s}, gone)
      BY <1>1, <1>7, <2>3, LinkHead
    <3>2. Carries(later, Tail(ms), got \cup {s}, gone)
      BY <1>4, <3>1, CarriesKept
    <3> QED
      BY <1>1, <1>3, <1>7, <2>1, <2>3, <3>2 DEF Link
  <2> QED
    BY <2>2, <2>3
<1> QED
  BY <1>1, <1>6, <1>7 DEF Absorbs

(* A step of r, seen from all connections.                                 *)
Quiet(p, r) ==
    /\ SentTo(p)' = SentTo(p)
    /\ \A q \in Party : TakenFrom(p, q)' = TakenFrom(p, q)
    /\ \A q \in Party : q # p /\ q # r => chan'[p][q] = chan[p][q]

LEMMA TrafficStep ==
    ASSUME TypeOK, Control, Traffic, program' = program, tape' = tape, input' = input,
           \A p \in Party : Own(p) /\ Grown(p) /\ Whereabouts(p),
           NEW r \in Party, \A p \in Party : p # r => Quiet(p, r),
           \A q \in Party : q # r => Emits(r, q) /\ Absorbs(r, q)
    PROVE  Traffic'
<1> SUFFICES ASSUME NEW p \in Party, NEW q \in Party, p # q
             PROVE  Link(p, q)'
  BY DEF Traffic
<1>1. Link(p, q) /\ Lasting(p, q) /\ Planned(p, q)' = Planned(p, q)
  BY PlanSame, MeantKept DEF Traffic
<1>2. CASE p = r
  <2>1. TakenFrom(q, p)' = TakenFrom(q, p)
    BY <1>2 DEF Quiet
  <2> QED
    BY <1>1, <1>2, <2>1, LinkSent
<1>3. CASE q = r
  <2>1. SentTo(p)' = SentTo(p)
    BY <1>3 DEF Quiet
  <2> QED
    BY <1>1, <1>3, <2>1, LinkTaken
<1>4. CASE p # r /\ q # r
  <2>1. SentTo(p)' = SentTo(p) /\ TakenFrom(q, p)' = TakenFrom(q, p)
        /\ chan'[p][q] = chan[p][q]
    BY <1>4 DEF Quiet
  <2>2. Emits(p, q)
    BY <2>1 DEF Emits
  <2> QED
    BY <1>1, <2>1, <2>2, LinkSent
<1> QED
  BY <1>2, <1>3, <1>4

-----------------------------------------------------------------------------
(***************************************************************************)
(* The invariant of the machines.                                          *)
(***************************************************************************)
MachineInv ==
    /\ MachineTypeOK /\ Control /\ Tracks /\ Dealt
    /\ \A p \in Party : Machine(p)
    /\ Traffic

(* What the steps of other parties leave alone.                            *)
Still(p) ==
    /\ pc'[p] = pc[p] /\ ip'[p] = ip[p] /\ prng'[p] = prng[p] /\ C'[p] = C[p]
    /\ read'[p] = read[p] /\ drawn'[p] = drawn[p] /\ dealt'[p] = dealt[p]
    /\ received'[p] = received[p] /\ prep'[p] = prep[p] /\ clog'[p] = clog[p]

Apart(r) ==
    /\ program' = program /\ tape' = tape /\ input' = input
    /\ \A p \in Party : p # r =>
          /\ Still(p)
          /\ \A q \in Party : q # p /\ q # r => chan'[p][q] = chan[p][q]

LEMMA Neighbours ==
    /\ 0 \in Party /\ 1 \in Party /\ 2 \in Party
    /\ \A p \in Party :
          /\ After(p) \in Party /\ Before(p) \in Party
          /\ After(p) # p /\ Before(p) # p /\ After(p) # Before(p)
          /\ After(Before(p)) = p /\ Before(After(p)) = p
          /\ \A q \in Party : q = p \/ q = After(p) \/ q = Before(p)
  BY DEF Party, After, Before

LEMMA ReadingSame ==
    ASSUME NEW p \in Party, program' = program, tape' = tape, input' = input, Reading(p),
           pc'[p] = pc[p], ip'[p] = ip[p], read'[p] = read[p], drawn'[p] = drawn[p],
           dealt'[p] = dealt[p], received'[p] = received[p]
    PROVE  Reading(p)'
<1>1. /\ \A k : /\ Mine(p, k)' = Mine(p, k) /\ DealingsFor(p, k)' = DealingsFor(p, k)
                /\ Mine(After(p), k)' = Mine(After(p), k)
                /\ Mine(Before(p), k)' = Mine(Before(p), k)
                /\ InputsFor(After(p), p, k)' = InputsFor(After(p), p, k)
                /\ InputsFor(Before(p), p, k)' = InputsFor(Before(p), p, k)
      /\ ReadsOf(p)' = ReadsOf(p)
  BY PlanSame, Neighbours
<1>2. PICK k : k = ip[p] /\ k = ip'[p]
  OBVIOUS
<1>3. /\ read[p] = ReadsOf(p)[IF pc[p] \in Exchanged THEN k ELSE k - 1]
      /\ drawn[p] = 2 * read[p]
  BY <1>2 DEF Reading
<1>4. pc[p] \in Exchanged =>
         dealt[p] = [i \in 1 .. Len(Mine(p, k)) |-> DealingsFor(p, k)[i][p]]
  BY <1>2 DEF Reading
<1>5. pc[p] \in {"input_prev", "input_store"} /\ Mine(After(p), k) # <<>> =>
         received[p][After(p)] = InputsFor(After(p), p, k)
  BY <1>2 DEF Reading
<1>6. pc[p] = "input_store" /\ Mine(Before(p), k) # <<>> =>
         received[p][Before(p)] = InputsFor(Before(p), p, k)
  BY <1>2 DEF Reading
<1> QED
  BY <1>1, <1>2, <1>3, <1>4, <1>5, <1>6 DEF Reading

LEMMA StillKept ==
    ASSUME NEW p \in Party, program' = program, tape' = tape, input' = input, Still(p),
           Machine(p)
    PROVE  /\ SeedsHeld(p)' /\ Whereabouts(p)' /\ Reading(p)' /\ Stocked(p)' /\ ClearLogged(p)'
           /\ SentTo(p)' = SentTo(p) /\ \A q \in Party : TakenFrom(p, q)' = TakenFrom(p, q)
<1>1. SeedsHeld(p)'
  BY DEF Still, Machine, SeedsHeld
<1>2. Whereabouts(p)'
  BY DEF Still, Machine, Whereabouts, At, Running
<1>3. Reading(p)'
  BY ReadingSame DEF Still, Machine
<1>4. Stocked(p)'
  <2>1. \A s, i : GetBit(s, i)' = GetBit(s, i)
    BY DEF GetBit
  <2> QED
    BY <2>1 DEF Still, Machine, Stocked
<1>5. ClearLogged(p)'
  BY DEF Still, Machine, ClearLogged
<1>6. SentTo(p)' = SentTo(p)
  BY DEF Still, SentTo
<1>7. \A q \in Party : TakenFrom(p, q)' = TakenFrom(p, q)
  BY DEF Still, TakenFrom
<1> QED
  BY <1>1, <1>2, <1>3, <1>4, <1>5, <1>6, <1>7

(* It is enough to look at the party that steps.                           *)
LEMMA MachineKept ==
    ASSUME MachineInv, NEW r \in Party, Apart(r), MachineTypeOK', Control',
           \A p \in Party : Moved(p) /\ Grown(p) /\ Own(p)',
           SeedsHeld(r)', Whereabouts(r)', Reading(r)', Stocked(r)', ClearLogged(r)',
           \A q \in Party : q # r => Emits(r, q) /\ Absorbs(r, q)
    PROVE  MachineInv'
<1>1. TypeOK /\ TypeOK' /\ Control /\ Tracks /\ Traffic /\ \A p \in Party : Machine(p)
  BY DEF MachineInv, MachineTypeOK
<1>2. Tracks'
  BY <1>1, TracksMoved
<1>3. program' = program /\ tape' = tape /\ input' = input
  BY DEF Apart
<1>4. ASSUME NEW p \in Party, p # r
      PROVE  Quiet(p, r)
  <2>1. Still(p) /\ Machine(p)
    BY <1>1, <1>4 DEF Apart
  <2>2. SentTo(p)' = SentTo(p) /\ \A q \in Party : TakenFrom(p, q)' = TakenFrom(p, q)
    BY <1>3, <2>1, StillKept
  <2> QED
    BY <1>4, <2>2 DEF Apart, Quiet
<1>5. Traffic'
  <2>1. \A p \in Party : Own(p) /\ Grown(p) /\ Whereabouts(p)
    BY <1>1 DEF Machine
  <2> QED
    BY <1>1, <1>3, <1>4, <2>1, TrafficStep
<1>6. ASSUME NEW p \in Party
      PROVE  Machine(p)'
  <2>1. CASE p = r
    BY <2>1 DEF Machine
  <2>2. CASE p # r
    <3>1. Still(p) /\ Machine(p)
      BY <1>1, <2>2 DEF Apart
    <3>2. SeedsHeld(p)' /\ Whereabouts(p)' /\ Reading(p)' /\ Stocked(p)' /\ ClearLogged(p)'
      BY <1>3, <3>1, StillKept
    <3> QED
      BY <3>2 DEF Machine
  <2> QED
    BY <2>1, <2>2
<1>7. Dealt'
  <2>1. ASSUME NEW p \in Party PROVE log'[p][1] = log[p][1]
    <3>1. Len(log[p]) = ip[p] /\ ip[p] \in Nat \ {0}
      BY <1>1 DEF Machine, Own, Logged, TypeOK
    <3>2. 1 \in 1 .. Len(log[p])
      BY <3>1
    <3> QED
      BY <3>2 DEF Grown
  <2> QED
    BY <2>1 DEF MachineInv, Dealt
<1> QED
  BY <1>2, <1>5, <1>6, <1>7 DEF MachineInv

LEMMA MachineBacked ==
    ASSUME MachineInv
    PROVE  /\ TypeOK /\ Control /\ Tracks /\ Traffic /\ Backed
           /\ \A p \in Party : /\ Machine(p) /\ Own(p) /\ Marking(p) /\ SeedsHeld(p)
                               /\ Whereabouts(p) /\ Reading(p) /\ Stocked(p) /\ ClearLogged(p)
                               /\ OnTrack(p)
<1>1. TypeOK /\ Control /\ Tracks /\ Traffic /\ \A p \in Party : Machine(p)
  BY DEF MachineInv, MachineTypeOK
<1>2. \A p \in Party : /\ Own(p) /\ Marking(p) /\ SeedsHeld(p) /\ Whereabouts(p)
                       /\ Reading(p) /\ Stocked(p) /\ ClearLogged(p)
  BY <1>1 DEF Machine, Own
<1>3. Backed
  BY <1>1, <1>2, BackedHere
<1> QED
  BY <1>1, <1>2, <1>3 DEF Tracks

LEMMA UnmovedMoved ==
    ASSUME TypeOK, NEW p \in Party, Unmoved(p)
    PROVE  Moved(p)
  BY DEF Unmoved, Moved

(* Likewise for the two kinds of steps outside the batches.                *)
LEMMA AsideKept ==
    ASSUME MachineInv, NEW r \in Party, Apart(r), Aside(r), MachineTypeOK',
           Whereabouts(r)', Reading(r)', Stocked(r)', ClearLogged(r)',
           \A q \in Party : q # r => Emits(r, q) /\ Absorbs(r, q)
    PROVE  MachineInv'
<1>1. TypeOK /\ Control /\ Backed /\ \A p \in Party : Own(p) /\ Marking(p) /\ OnTrack(p)
  BY MachineBacked
<1>2. chan' \in Connections /\ TypeOK'
  BY DEF MachineTypeOK, TypeOK, Connections, Message
<1>3. Control'
  BY <1>1, <1>2, AsideType
<1>4. \A p \in Party : Grown(p) /\ Moved(p)
  BY <1>1, AsideGrown, AsideUnmoved, UnmovedMoved
<1>5. \A p \in Party : Own(p)'
  BY <1>1, <1>4, AsideOwn
<1>6. SeedsHeld(r)'
  <2>1. SeedsHeld(r)
    BY MachineBacked
  <2>2. prng' = prng /\ pc[r] \notin Seeding /\ pc'[r] \notin Seeding
    BY BetweenWhere DEF Aside
  <2> QED
    BY <2>1, <2>2 DEF SeedsHeld, Seeding
<1> QED
  BY <1>3, <1>4, <1>5, <1>6, MachineKept

LEMMA AheadKept ==
    ASSUME MachineInv, NEW r \in Party, Apart(r), Ahead(r), MachineTypeOK',
           Whereabouts(r)', Reading(r)', Stocked(r)', ClearLogged(r)',
           \A q \in Party : q # r => Emits(r, q) /\ Absorbs(r, q)
    PROVE  MachineInv'
<1>1. TypeOK /\ Control /\ Backed /\ \A p \in Party : Own(p) /\ Marking(p) /\ OnTrack(p)
  BY MachineBacked
<1>2. chan' \in Connections /\ TypeOK'
  BY DEF MachineTypeOK, TypeOK, Connections, Message
<1>3. Control'
  BY <1>1, <1>2, AheadType
<1>4. \A p \in Party : Grown(p) /\ Moved(p)
  BY <1>1, AheadGrown, AheadUnmoved, UnmovedMoved
<1>5. \A p \in Party : Own(p)'
  BY <1>1, <1>4, AheadOwn
<1>6. SeedsHeld(r)'
  <2>1. SeedsHeld(r)
    BY MachineBacked
  <2>2. prng' = prng /\ pc[r] \notin Seeding /\ pc'[r] \notin Seeding
    BY <1>1, BetweenWhere, AheadOthers DEF Ahead, Seeding
  <2> QED
    BY <2>1, <2>2 DEF SeedsHeld, Seeding
<1> QED
  BY <1>3, <1>4, <1>5, <1>6, MachineKept

-----------------------------------------------------------------------------
(***************************************************************************)
(* Each step of a machine preserves the invariant.  First the instructions *)
(* that send nothing.                                                      *)
(***************************************************************************)
PrepStates == [at    : {"none", "seed", "ready"},
               seeds : [{0, 1} -> Seed \cup {Unseeded}],
               pos   : Nat,
               bits  : Seq(Share)]

LEMMA HereFacts ==
    ASSUME MachineInv, NEW r \in Party
    PROVE  /\ program \in Programs /\ Len(program) \in Nat /\ ip[r] \in Nat \ {0}
           /\ Running(r) => ip[r] \in 1 .. Len(program)
           /\ pc \in [Party -> Location] /\ ip \in [Party -> Nat \ {0}]
           /\ S \in [Party -> Registers] /\ C \in [Party -> ClearRegs]
           /\ log \in [Party -> Seq([Reg -> Share])]
           /\ clog \in [Party -> Seq(ClearRegs)]
           /\ prep \in [Party -> PrepStates]
           /\ chan \in Connections
<1>1. TypeOK /\ MachineTypeOK
  BY DEF MachineInv, MachineTypeOK
<1>2. program \in Programs /\ Len(program) \in Nat /\ ip[r] \in Nat \ {0}
  BY <1>1, ProgramFacts DEF TypeOK
<1>3. Running(r) => ip[r] \in 1 .. Len(program)
  BY <1>2 DEF Running
<1>4. /\ pc \in [Party -> Location] /\ ip \in [Party -> Nat \ {0}]
      /\ S \in [Party -> Registers] /\ log \in [Party -> Seq([Reg -> Share])]
      /\ chan \in Connections
  BY <1>1 DEF TypeOK, Registers, Connections, Message
<1>5. /\ C \in [Party -> ClearRegs] /\ clog \in [Party -> Seq(ClearRegs)]
      /\ prep \in [Party -> PrepStates]
  BY <1>1 DEF MachineTypeOK, ClearRegs, PrepStates
<1> QED
  BY <1>2, <1>3, <1>4, <1>5

LEMMA ClearAdvance ==
    ASSUME MachineInv, NEW r \in Party, Advance(r), C' \in [Party -> ClearRegs]
    PROVE  /\ clog' \in [Party -> Seq(ClearRegs)]
           /\ ClearLogged(r)'
           /\ \A p \in Party : p # r => clog'[p] = clog[p]
           /\ \A k \in 1 .. Len(clog[r]) : clog'[r][k] = clog[r][k]
<1>1. PICK regs \in ClearRegs : regs = C'[r]
  OBVIOUS
<1>2. clog \in [Party -> Seq(ClearRegs)] /\ ip \in [Party -> Nat \ {0}]
  BY HereFacts
<1>3. clog' = [clog EXCEPT ![r] = Append(clog[r], regs)] /\ ip' = [ip EXCEPT ![r] = ip[r] + 1]
  BY <1>1 DEF Advance
<1>4. clog[r] \in Seq(ClearRegs)
  BY <1>2
<1>5. /\ Append(clog[r], regs) \in Seq(ClearRegs)
      /\ Len(Append(clog[r], regs)) = Len(clog[r]) + 1
      /\ \A k \in 1 .. Len(clog[r]) : Append(clog[r], regs)[k] = clog[r][k]
      /\ Append(clog[r], regs)[Len(clog[r]) + 1] = regs
  BY <1>4, AppendProperties
<1>6. /\ clog' \in [Party -> Seq(ClearRegs)]
      /\ clog'[r] = Append(clog[r], regs) /\ ip'[r] = ip[r] + 1
      /\ \A p \in Party : p # r => clog'[p] = clog[p]
  BY <1>2, <1>3, <1>5
<1>7. Len(clog[r]) = ip[r]
  BY MachineBacked DEF ClearLogged
<1>8. ClearLogged(r)'
  BY <1>1, <1>5, <1>6, <1>7 DEF ClearLogged
<1> QED
  BY <1>5, <1>6, <1>8

(* A party that ends an instruction is its own affair.                     *)
LEMMA AdvanceAhead ==
    ASSUME MachineInv, NEW r \in Party, Advance(r), pc[r] \in Between, Running(r),
           program[ip[r]].op # "ands", NEW regs \in Registers, S' = [S EXCEPT ![r] = regs],
           NEW clears \in ClearRegs, C' = [C EXCEPT ![r] = clears],
           UNCHANGED <<input, read, drawn, dealt, received>>,
           NEW store \in PrepStates, prep' = [prep EXCEPT ![r] = store],
           chan' \in Connections,
           \A p, q \in Party : p # r /\ q # r /\ p # q => chan'[p][q] = chan[p][q]
    PROVE  /\ Ahead(r) /\ Apart(r) /\ MachineTypeOK' /\ ClearLogged(r)'
           /\ pc'[r] = "idle" /\ ip'[r] = ip[r] + 1 /\ prep'[r] = store
           /\ program' = program /\ tape' = tape
<1>1. /\ TypeOK /\ Control /\ MachineTypeOK
  BY DEF MachineInv, MachineTypeOK
<1>2. /\ S \in [Party -> Registers] /\ C \in [Party -> ClearRegs] /\ prep \in [Party -> PrepStates]
      /\ pc \in [Party -> Location] /\ ip \in [Party -> Nat \ {0}]
  BY HereFacts
<1>3. /\ S'[r] = regs /\ C' \in [Party -> ClearRegs] /\ prep' \in [Party -> PrepStates]
      /\ prep'[r] = store
      /\ \A p \in Party : p # r => C'[p] = C[p] /\ prep'[p] = prep[p]
  BY <1>2
<1>4. Ahead(r)
  BY <1>3 DEF Ahead, Advance
<1>5. /\ clog' \in [Party -> Seq(ClearRegs)] /\ ClearLogged(r)'
      /\ \A p \in Party : p # r => clog'[p] = clog[p]
  BY <1>3, ClearAdvance
<1>6. TypeOK'
  BY <1>1, <1>4, AheadType
<1>7. MachineTypeOK'
  BY <1>1, <1>3, <1>5, <1>6 DEF MachineTypeOK, PrepStates, ClearRegs
<1>8. program' = program /\ tape' = tape /\ prng' = prng
  BY DEF Advance
<1>9. Apart(r)
  <2>1. ASSUME NEW p \in Party, p # r PROVE Still(p)
    BY <1>1, <1>3, <1>4, <1>5, <1>8, <2>1, AheadOthers DEF Still
  <2> QED
    BY <1>8, <2>1 DEF Apart
<1> QED
  BY <1>1, <1>3, <1>4, <1>5, <1>7, <1>8, <1>9, AheadOthers

LEMMA ReadingAhead ==
    ASSUME MachineInv, NEW r \in Party, ip[r] \in 1 .. Len(program),
           pc[r] \notin Exchanged, program[ip[r]].op # "inputb",
           program' = program, tape' = tape, input' = input,
           pc'[r] = "idle", ip'[r] = ip[r] + 1, read'[r] = read[r], drawn'[r] = drawn[r]
    PROVE  Reading(r)'
<1>1. PICK k \in 1 .. Len(program) : k = ip[r]
  OBVIOUS
<1>2. program \in Programs /\ Len(program) \in Nat
  BY HereFacts
<1>3. read[r] = ReadsOf(r)[k - 1] /\ drawn[r] = 2 * read[r]
  BY <1>1, MachineBacked DEF Reading
<1>4. ReadsOf(r)[k] = ReadsOf(r)[k - 1]
  <2>1. ReadBy(program, r, k) = 0
    BY <1>1 DEF ReadBy
  <2>2. ReadsOf(r)[k] = ReadsOf(r)[k - 1] + 0 /\ ReadsOf(r)[k - 1] \in Nat
    BY <1>2, <2>1, ReadsHere
  <2> QED
    BY <2>2
<1>5. ReadsOf(r)' = ReadsOf(r) /\ (k + 1) - 1 = k
  BY <1>2, PlanSame
<1>6. pc'[r] \notin Exchanged /\ pc'[r] \notin {"input_prev", "input_store"}
  BY DEF Exchanged
<1> QED
  BY <1>1, <1>3, <1>4, <1>5, <1>6 DEF Reading

(* The store of random bits is kept.                                       *)
LEMMA StockedSame ==
    ASSUME NEW p, Stocked(p), prep'[p] = prep[p], tape' = tape
    PROVE  Stocked(p)'
<1>1. \A s, i : GetBit(s, i)' = GetBit(s, i)
  BY DEF GetBit
<1> QED
  BY <1>1 DEF Stocked

LEMMA AssignKept ==
    ASSUME MachineInv, NEW r \in Party, pc[r] = "idle" => prep[r].at = "ready",
           NEW op, op \notin {"ands", "inputb", "reveal"}, NEW regs \in Registers,
           Assign(r, op, regs), NEW store \in PrepStates, prep' = [prep EXCEPT ![r] = store],
           store.at = "ready", Stocked(r)'
    PROVE  MachineInv'
<1>1. PICK k : k = ip[r]
  OBVIOUS
<1>2. /\ pc[r] = "idle" /\ Running(r) /\ program[k].op = op /\ prep[r].at = "ready"
      /\ Advance(r) /\ S' = [S EXCEPT ![r] = regs]
      /\ UNCHANGED <<chan, input, C, read, drawn, dealt, received>>
  BY <1>1 DEF Assign, At
<1>3. /\ k \in 1 .. Len(program) /\ Len(program) \in Nat /\ k \in Nat /\ program \in Programs
      /\ chan \in Connections /\ C \in [Party -> ClearRegs]
  BY <1>1, <1>2, HereFacts
<1>4. pc[r] \in Between
  BY <1>2 DEF Between
<1>5. PICK clears \in ClearRegs : clears = C[r]
  BY <1>3
<1>6. C' = [C EXCEPT ![r] = clears]
  BY <1>2, <1>3, <1>5
<1>7. /\ Ahead(r) /\ Apart(r) /\ MachineTypeOK' /\ ClearLogged(r)'
      /\ pc'[r] = "idle" /\ ip'[r] = k + 1 /\ prep'[r] = store
      /\ program' = program /\ tape' = tape
  BY <1>1, <1>2, <1>3, <1>4, <1>6, AdvanceAhead
<1>8. Whereabouts(r)'
  BY <1>7 DEF Whereabouts, Inputting, Seeding
<1>9. Reading(r)'
  <2>1. read'[r] = read[r] /\ drawn'[r] = drawn[r] /\ input' = input
    BY <1>2
  <2>2. pc[r] \notin Exchanged /\ ip[r] \in 1 .. Len(program) /\ ip'[r] = ip[r] + 1
    BY <1>1, <1>2, <1>3, <1>7 DEF Exchanged
  <2> QED
    BY <1>1, <1>2, <1>3, <1>7, <2>1, <2>2, ReadingAhead
<1>10. ASSUME NEW q \in Party, q # r
       PROVE  Emits(r, q) /\ Absorbs(r, q)
  <2>1. SentTo(r) = 2 * k /\ TakenFrom(r, q) = 2 * k
    BY <1>1, <1>2 DEF SentTo, TakenFrom
  <2>2. SentTo(r)' = 2 * k + 2 /\ TakenFrom(r, q)' = 2 * k + 2
    <3>1. 2 * (k + 1) = 2 * k + 2
      BY <1>3
    <3> QED
      BY <1>7, <3>1 DEF SentTo, TakenFrom
  <2>3. \A p, s : ~First(p, s, k) /\ ~Second(p, k)
    BY <1>2 DEF First, Second
  <2>4. /\ 2 * k \notin Planned(r, q) /\ 2 * k + 1 \notin Planned(r, q)
        /\ 2 * k \notin Planned(q, r) /\ 2 * k + 1 \notin Planned(q, r)
    BY <1>3, <2>3, PlannedTags
  <2>5. chan'[r][q] = chan[r][q] /\ chan'[q][r] = chan[q][r]
    BY <1>2
  <2>6. Emits(r, q)
    BY <2>1, <2>2, <2>4, <2>5 DEF Emits
  <2>7. Absorbs(r, q)
    BY <2>1, <2>2, <2>4, <2>5 DEF Absorbs
  <2> QED
    BY <2>6, <2>7
<1> QED
  BY <1>7, <1>8, <1>9, <1>10, AheadKept

LEMMA LocalKept ==
    ASSUME MachineInv, NEW r \in Party, pc[r] = "idle" => prep[r].at = "ready", LocalStep(r)
    PROVE  MachineInv'
<1>1. PICK ins : ins = program[ip[r]]
  OBVIOUS
<1>2. PICK regs : regs = AfterLocal(ins, S[r], C[r])
  OBVIOUS
<1>3. ins.op \in LocalOps /\ Assign(r, ins.op, regs) /\ prep' = prep
  BY <1>1, <1>2 DEF LocalStep, Local
<1>4. Running(r) /\ pc[r] = "idle" /\ prep[r].at = "ready" /\ tape' = tape
  BY <1>3 DEF Assign, At, Advance
<1>5. /\ ip[r] \in 1 .. Len(program) /\ program \in Programs
      /\ S[r] \in Registers /\ C[r] \in ClearRegs /\ prep \in [Party -> PrepStates]
  BY <1>4, HereFacts
<1>6. regs \in Registers
  BY <1>1, <1>2, <1>3, <1>5, AfterLocalType
<1>7. PICK store \in PrepStates : store = prep[r]
  BY <1>5
<1>8. prep' = [prep EXCEPT ![r] = store]
  BY <1>3, <1>5, <1>7
<1>9. Stocked(r)'
  BY <1>3, <1>4, MachineBacked, StockedSame
<1>10. PICK op : op = ins.op
  OBVIOUS
<1>11. op \notin {"ands", "inputb", "reveal"} /\ Assign(r, op, regs)
  BY <1>3, <1>10 DEF LocalOps
<1> QED
  BY <1>4, <1>6, <1>7, <1>8, <1>9, <1>11, AssignKept

-----------------------------------------------------------------------------
(* BITB draws bits, or takes one from the store.                           *)
LEMMA NewBitsType ==
    ASSUME NEW p
    PROVE  /\ NewBits(p) \in Seq(Share) /\ Len(NewBits(p)) = BatchSize
           /\ BatchSize \in Nat \ {0}
           /\ \A i \in 1 .. BatchSize : \A j \in {0, 1} :
                 NewBits(p)[i][j] = GetBit(prep[p].seeds[j], prep[p].pos + i)
<1>1. BatchSize \in Nat \ {0}
  BY BatchSizeAssumption
<1>2. \A s, i : GetBit(s, i) \in Vec
  <2>1. 0 \in Lane
    BY WAssumption DEF Lane
  <2> QED
    BY <2>1 DEF GetBit, Vec
<1>3. NewBits(p) \in [1 .. BatchSize -> Share]
  BY <1>2 DEF NewBits, Share
<1>4. NewBits(p) \in Seq(Share) /\ Len(NewBits(p)) = BatchSize
  BY <1>1, <1>3, FunctionSeq
<1>5. \A i \in 1 .. BatchSize : \A j \in {0, 1} :
         NewBits(p)[i][j] = GetBit(prep[p].seeds[j], prep[p].pos + i)
  BY DEF NewBits
<1> QED
  BY <1>1, <1>4, <1>5

LEMMA BitBKept ==
    ASSUME MachineInv, NEW r \in Party, pc[r] = "idle" => prep[r].at = "ready", BitB(r)
    PROVE  MachineInv'
<1>1. PICK old \in PrepStates : old = prep[r]
  BY HereFacts
<1>2. PICK bits : bits = IF old.bits = <<>> THEN NewBits(r) ELSE old.bits
  OBVIOUS
<1>3. PICK new :
         new = [[old EXCEPT !.bits = FirstOf(bits, Len(bits) - 1)]
                  EXCEPT !.pos = IF old.bits = <<>> THEN old.pos + BatchSize ELSE old.pos]
  OBVIOUS
<1>4. PICK regs : regs = [S[r] EXCEPT ![Instruction(r).out] = bits[Len(bits)]]
  OBVIOUS
<1>5. Assign(r, "bitb", regs)
  BY <1>1, <1>2, <1>4 DEF BitB
<1>6. prep' = [prep EXCEPT ![r] = new]
  <2>1. prep' = [prep EXCEPT ![r].bits = FirstOf(bits, Len(bits) - 1),
                             ![r].pos = IF old.bits = <<>> THEN @ + BatchSize ELSE @]
    BY <1>1, <1>2 DEF BitB
  <2>2. PICK x, y : /\ x = FirstOf(bits, Len(bits) - 1)
                    /\ y = IF old.bits = <<>> THEN old.pos + BatchSize ELSE old.pos
    OBVIOUS
  <2>3. prep \in [Party -> PrepStates]
    BY HereFacts
  <2>4. new = [[old EXCEPT !.bits = x] EXCEPT !.pos = y]
    BY <1>3, <2>2
  <2>5. PICK mid : mid = [prep EXCEPT ![r].bits = x]
    OBVIOUS
  <2>6. prep' = [mid EXCEPT ![r].pos = IF old.bits = <<>> THEN @ + BatchSize ELSE @]
    BY <2>1, <2>2, <2>5
  <2>7. mid = [prep EXCEPT ![r] = [old EXCEPT !.bits = x]]
    BY <1>1, <2>5
  <2>8. mid[r] = [old EXCEPT !.bits = x] /\ mid[r].pos = old.pos
    BY <2>3, <2>7 DEF PrepStates
  <2>9. prep' = [mid EXCEPT ![r] = new]
    BY <2>2, <2>4, <2>6, <2>8
  <2> QED
    BY <2>3, <2>7, <2>9
<1>7. Running(r) /\ pc[r] = "idle" /\ old.at = "ready" /\ program[ip[r]].op = "bitb"
      /\ tape' = tape
  BY <1>1, <1>5 DEF Assign, At, Advance
<1>8. Stocked(r) /\ old.bits \in Seq(Share) /\ old.pos \in Nat
  BY <1>1, MachineBacked DEF PrepStates
<1>9. /\ bits \in Seq(Share) /\ bits # <<>> /\ Len(bits) \in Nat
      /\ Len(bits) <= BatchSize /\ BatchSize \in Nat /\ Len(bits) >= 1
  <2>1. CASE old.bits = <<>>
    BY <1>2, <2>1, NewBitsType, EmptySeq
  <2>2. CASE old.bits # <<>>
    BY <1>1, <1>2, <1>8, <2>2, EmptySeq, LenProperties, BatchSizeAssumption DEF Stocked
  <2> QED
    BY <2>1, <2>2
<1>10. bits[Len(bits)] \in Share
  BY <1>9, ElementOfSeq
<1>11. regs \in Registers
  <2>1. ip[r] \in 1 .. Len(program) /\ program \in Programs /\ S[r] \in Registers
    BY <1>7, HereFacts
  <2> QED
    BY <1>4, <1>10, <2>1 DEF Registers
<1>12. PICK n \in Nat : n = Len(bits) - 1
  BY <1>9
<1>13. PICK left : left = FirstOf(bits, n)
  OBVIOUS
<1>14. left \in Seq(Share) /\ Len(left) = n /\ \A i \in 1 .. n : left[i] = bits[i]
  <2>1. n <= Len(bits)
    BY <1>9, <1>12
  <2>2. Len(left) = n /\ \A i \in 1 .. n : left[i] = bits[i]
    BY <1>9, <1>12, <1>13, <2>1, SubSeqProperties DEF FirstOf
  <2>3. left \in Seq(Share)
    BY <1>9, <1>12, <1>13, <2>1, SubSeqProperties DEF FirstOf
  <2> QED
    BY <2>2, <2>3
<1>15. /\ new.at = "ready" /\ new.seeds = old.seeds /\ new.bits = left
       /\ new.pos = IF old.bits = <<>> THEN old.pos + BatchSize ELSE old.pos
  BY <1>3, <1>7, <1>12, <1>13 DEF PrepStates
<1>16. new.pos \in Nat /\ new.pos >= BatchSize
  BY <1>1, <1>8, <1>9, <1>15 DEF Stocked
<1>17. new \in PrepStates
  BY <1>1, <1>3, <1>12, <1>13, <1>14, <1>16 DEF PrepStates
<1>18. \A i \in 1 .. Len(bits) : \A j \in {0, 1} :
          bits[i][j] = GetBit(old.seeds[j], new.pos - BatchSize + i)
  <2>1. CASE old.bits = <<>>
    <3>1. \A i \in 1 .. BatchSize : new.pos - BatchSize + i = old.pos + i
      BY <1>8, <1>9, <1>15, <2>1
    <3> QED
      BY <1>1, <1>2, <2>1, <3>1, NewBitsType
  <2>2. CASE old.bits # <<>>
    BY <1>1, <1>2, <1>8, <1>15, <2>2 DEF Stocked
  <2> QED
    BY <2>1, <2>2
<1>19. Stocked(r)'
  <2>1. prep'[r] = new
    BY <1>6, HereFacts
  <2>2. \A s, i : GetBit(s, i)' = GetBit(s, i)
    BY <1>7 DEF GetBit
  <2>3. new.seeds[0] = <<r, 3>> /\ new.seeds[1] = <<Before(r), 3>>
    BY <1>1, <1>7, <1>8, <1>15 DEF Stocked
  <2>4. Len(new.bits) <= BatchSize
    BY <1>9, <1>12, <1>14, <1>15
  <2>5. \A i \in 1 .. Len(new.bits) : \A j \in {0, 1} :
           new.bits[i][j] = GetBit(new.seeds[j], new.pos - BatchSize + i)
    <3>1. \A i \in 1 .. n : i \in 1 .. Len(bits)
      BY <1>9, <1>12
    <3> QED
      BY <1>14, <1>15, <1>18, <3>1
  <2> QED
    BY <1>15, <1>16, <2>1, <2>2, <2>3, <2>4, <2>5 DEF Stocked
<1> QED
  BY <1>5, <1>6, <1>11, <1>15, <1>17, <1>19, AssignKept

-----------------------------------------------------------------------------
(* Putting a message on a connection and taking one off.                   *)
Put(f, p, q, m) == [f EXCEPT ![p][q] = Append(@, m)]
Take(f, p, q)   == [f EXCEPT ![p][q] = Tail(@)]

Elsewhere(g, f, p, q) == \A a, b \in Party : a # p \/ b # q => g[a][b] = f[a][b]

LEMMA ChanPut ==
    ASSUME NEW f \in Connections, NEW p \in Party, NEW q \in Party, NEW m \in Message
    PROVE  /\ Put(f, p, q, m) \in Connections /\ Put(f, p, q, m)[p][q] = Append(f[p][q], m)
           /\ Elsewhere(Put(f, p, q, m), f, p, q)
<1>1. f \in [Party -> [Party -> Seq(Message)]]
  BY DEF Connections
<1>2. Append(f[p][q], m) \in Seq(Message)
  BY <1>1, AppendProperties
<1>3. PICK g : g = [f EXCEPT ![p][q] = Append(f[p][q], m)]
  OBVIOUS
<1>4. Put(f, p, q, m) = g
  BY <1>3 DEF Put
<1>5. /\ g[p][q] = Append(f[p][q], m)
      /\ \A a, b \in Party : a # p \/ b # q => g[a][b] = f[a][b]
  BY <1>1, <1>3, EntryChanged
<1>6. g \in [Party -> [Party -> Seq(Message)]]
  BY <1>1, <1>2, <1>3
<1> QED
  BY <1>4, <1>5, <1>6 DEF Connections, Elsewhere

PutTwo(f, p, q, r, m, k) ==
    [f EXCEPT ![p][q] = Append(@, m), ![p][r] = Append(@, k)]

BothPut(g, f, p, q, r, m, k) ==
    /\ g \in Connections /\ g[p][q] = Append(f[p][q], m) /\ g[p][r] = Append(f[p][r], k)
    /\ \A a, b \in Party : a # p \/ (b # q /\ b # r) => g[a][b] = f[a][b]

LEMMA ChanPutTwo ==
    ASSUME NEW f \in Connections, NEW p \in Party, NEW q \in Party, NEW r \in Party, q # r,
           NEW m \in Message, NEW k \in Message
    PROVE  BothPut(PutTwo(f, p, q, r, m, k), f, p, q, r, m, k)
<1>1. f \in [Party -> [Party -> Seq(Message)]]
  BY DEF Connections
<1>2. Append(f[p][q], m) \in Seq(Message) /\ Append(f[p][r], k) \in Seq(Message)
  BY <1>1, AppendProperties
<1>3. \A a, b \in Party :
         PutTwo(f, p, q, r, m, k)[a][b] =
            IF a = p /\ b = q THEN Append(f[a][b], m)
            ELSE IF a = p /\ b = r THEN Append(f[a][b], k) ELSE f[a][b]
  BY <1>1 DEF PutTwo
<1>4. PutTwo(f, p, q, r, m, k) \in [Party -> [Party -> Seq(Message)]]
  BY <1>1, <1>2 DEF PutTwo
<1> QED
  BY <1>3, <1>4 DEF BothPut, Connections

LEMMA ChanTake ==
    ASSUME NEW f \in Connections, NEW p \in Party, NEW q \in Party, f[p][q] # <<>>
    PROVE  /\ Take(f, p, q) \in Connections /\ Take(f, p, q)[p][q] = Tail(f[p][q])
           /\ Elsewhere(Take(f, p, q), f, p, q)
<1>1. f \in [Party -> [Party -> Seq(Message)]]
  BY DEF Connections
<1>2. Tail(f[p][q]) \in Seq(Message)
  BY <1>1, HeadTailProperties
<1>3. PICK g : g = [f EXCEPT ![p][q] = Tail(f[p][q])]
  OBVIOUS
<1>4. Take(f, p, q) = g
  BY <1>3 DEF Take
<1>5. /\ g[p][q] = Tail(f[p][q])
      /\ \A a, b \in Party : a # p \/ b # q => g[a][b] = f[a][b]
  BY <1>1, <1>3, EntryChanged
<1>6. g \in [Party -> [Party -> Seq(Message)]]
  BY <1>1, <1>2, <1>3
<1> QED
  BY <1>4, <1>5, <1>6 DEF Connections, Elsewhere

(* A party that moves on within an instruction is its own affair.          *)
Afar(r) ==
    /\ chan' \in Connections
    /\ \A p, q \in Party : p # r /\ q # r /\ p # q => chan'[p][q] = chan[p][q]

Lists(r, rd, dr, de, re, store) ==
    /\ rd \in Nat /\ read' = [read EXCEPT ![r] = rd]
    /\ dr \in Nat /\ drawn' = [drawn EXCEPT ![r] = dr]
    /\ de \in Seq(Share) /\ dealt' = [dealt EXCEPT ![r] = de]
    /\ re \in [Party -> Seq(Vec)] /\ received' = [received EXCEPT ![r] = re]
    /\ store \in PrepStates /\ prep' = [prep EXCEPT ![r] = store]
    /\ UNCHANGED <<input, C, clog>>

LEMMA AsideFrame ==
    ASSUME MachineInv, NEW r \in Party, Aside(r), Afar(r),
           NEW rd, NEW dr, NEW de, NEW re, NEW store, Lists(r, rd, dr, de, re, store)
    PROVE  /\ Apart(r) /\ MachineTypeOK' /\ ClearLogged(r)'
           /\ read'[r] = rd /\ drawn'[r] = dr /\ dealt'[r] = de /\ received'[r] = re
           /\ prep'[r] = store /\ ip' = ip /\ program' = program /\ tape' = tape
<1>1. TypeOK /\ Control /\ MachineTypeOK
  BY DEF MachineInv, MachineTypeOK
<1>2. TypeOK'
  BY <1>1, AsideType DEF Afar
<1>3. /\ read \in [Party -> Nat] /\ drawn \in [Party -> Nat] /\ dealt \in [Party -> Seq(Share)]
      /\ received \in [Party -> [Party -> Seq(Vec)]] /\ prep \in [Party -> PrepStates]
  BY <1>1 DEF MachineTypeOK, PrepStates
<1>4. /\ read' \in [Party -> Nat] /\ drawn' \in [Party -> Nat] /\ dealt' \in [Party -> Seq(Share)]
      /\ received' \in [Party -> [Party -> Seq(Vec)]] /\ prep' \in [Party -> PrepStates]
      /\ read'[r] = rd /\ drawn'[r] = dr /\ dealt'[r] = de /\ received'[r] = re
      /\ prep'[r] = store
      /\ \A p \in Party : p # r =>
            /\ read'[p] = read[p] /\ drawn'[p] = drawn[p] /\ dealt'[p] = dealt[p]
            /\ received'[p] = received[p] /\ prep'[p] = prep[p]
  BY <1>3 DEF Lists
<1>5. MachineTypeOK'
  BY <1>1, <1>2, <1>4 DEF MachineTypeOK, PrepStates, Lists
<1>6. program' = program /\ tape' = tape /\ prng' = prng /\ ip' = ip
  BY DEF Aside
<1>7. Apart(r)
  <2>1. ASSUME NEW p \in Party, p # r PROVE Still(p)
    BY <1>1, <1>4, <1>6, <2>1, AsideOthers DEF Still, Lists
  <2> QED
    BY <1>6, <2>1 DEF Apart, Afar, Lists
<1>8. ClearLogged(r)'
  <2>1. ClearLogged(r)
    BY MachineBacked
  <2> QED
    BY <1>6, <2>1 DEF ClearLogged, Lists
<1> QED
  BY <1>4, <1>5, <1>6, <1>7, <1>8

(* In most of these steps only connections change.                         *)
LEMMA AsideMessage ==
    ASSUME MachineInv, NEW r \in Party, Aside(r), Afar(r), UNCHANGED machine
    PROVE  /\ Apart(r) /\ MachineTypeOK' /\ ClearLogged(r)' /\ Stocked(r)'
           /\ ip' = ip /\ program' = program /\ tape' = tape
<1>1. MachineTypeOK
  BY DEF MachineInv
<1>2. PICK rd, dr, de, re, store :
         /\ rd = read[r] /\ dr = drawn[r] /\ de = dealt[r] /\ re = received[r] /\ store = prep[r]
  OBVIOUS
<1>3. Lists(r, rd, dr, de, re, store)
  BY <1>1, <1>2 DEF MachineTypeOK, PrepStates, machine, Lists
<1>4. /\ Apart(r) /\ MachineTypeOK' /\ ClearLogged(r)'
      /\ prep'[r] = store /\ ip' = ip /\ program' = program /\ tape' = tape
  BY <1>3, AsideFrame
<1>5. Stocked(r)'
  <2>1. Stocked(r) /\ prep'[r] = prep[r] /\ tape' = tape
    BY <1>2, <1>4, MachineBacked
  <2> QED
    BY <2>1, StockedSame
<1> QED
  BY <1>4, <1>5

-----------------------------------------------------------------------------
(* The seed of the random bits, sent on.                                   *)
LEMMA SeedMessageFits ==
    ASSUME NEW s \in Seed
    PROVE  SeedMessage(s) \in Message
  BY DEF SeedMessage, Message

LEMMA SeedNames ==
    ASSUME NEW p \in Party
    PROVE  <<p, 0>> \in Seed /\ <<p, 1>> \in Seed /\ <<p, 3>> \in Seed
  BY DEF Seed

WithSeed(old, r, at, j, s) == [old EXCEPT ![r].at = at, ![r].seeds[j] = s]

Restored(store, was, at, j, s) ==
    /\ store.at = at /\ store.bits = was.bits /\ store.pos = was.pos
    /\ \A i \in {0, 1} : store.seeds[i] = IF i = j THEN s ELSE was.seeds[i]

LEMMA SeedStored ==
    ASSUME NEW old \in [Party -> PrepStates], NEW r \in Party,
           NEW at \in {"none", "seed", "ready"}, NEW j \in {0, 1}, NEW s \in Seed
    PROVE  \E store \in PrepStates :
              /\ WithSeed(old, r, at, j, s) = [old EXCEPT ![r] = store]
              /\ Restored(store, old[r], at, j, s)
<1>1. PICK was \in PrepStates : was = old[r]
  OBVIOUS
<1>2. PICK seeds : seeds = [was.seeds EXCEPT ![j] = s]
  OBVIOUS
<1>3. PICK new : new = [[was EXCEPT !.at = at] EXCEPT !.seeds = seeds]
  OBVIOUS
<1>4. /\ seeds \in [{0, 1} -> Seed \cup {Unseeded}] /\ \A i \in {0, 1} : seeds[i] = IF i = j THEN s ELSE was.seeds[i]
  <2>1. was.seeds \in [{0, 1} -> Seed \cup {Unseeded}]
    BY DEF PrepStates
  <2> QED
    BY <1>2, <2>1
<1>5. /\ new.at = at /\ new.seeds = seeds /\ new.bits = was.bits /\ new.pos = was.pos
      /\ new \in PrepStates
  BY <1>3, <1>4 DEF PrepStates
<1>6. WithSeed(old, r, at, j, s) = [old EXCEPT ![r] = new]
  <2>1. PICK mid : mid = [old EXCEPT ![r].at = at]
    OBVIOUS
  <2>2. WithSeed(old, r, at, j, s) = [mid EXCEPT ![r].seeds[j] = s]
    BY <2>1 DEF WithSeed
  <2>3. mid = [old EXCEPT ![r] = [was EXCEPT !.at = at]]
    BY <1>1, <2>1
  <2>4. mid[r] = [was EXCEPT !.at = at] /\ mid[r].seeds = was.seeds
    BY <2>3 DEF PrepStates
  <2>5. WithSeed(old, r, at, j, s) = [mid EXCEPT ![r] = new]
    BY <1>2, <1>3, <2>2, <2>4
  <2> QED
    BY <2>3, <2>5
<1> QED
  BY <1>1, <1>4, <1>5, <1>6 DEF Restored

LEMMA PrepSendKept ==
    ASSUME MachineInv, NEW r \in Party, PrepSend(r)
    PROVE  MachineInv'
<1>1. PICK store \in PrepStates :
         /\ prep' = [prep EXCEPT ![r] = store]
         /\ store.at = "seed" /\ store.seeds[0] = <<r, 3>> /\ store.bits = <<>>
  <2>1. /\ prep \in [Party -> PrepStates]
        /\ prep' = WithSeed(prep, r, "seed", 0, <<r, 3>>)
    BY HereFacts DEF PrepSend, WithSeed
  <2>2. prep[r].bits = <<>>
    BY MachineBacked DEF PrepSend, Stocked
  <2>3. PICK store \in PrepStates :
           /\ WithSeed(prep, r, "seed", 0, <<r, 3>>) = [prep EXCEPT ![r] = store]
           /\ Restored(store, prep[r], "seed", 0, <<r, 3>>)
    BY <2>1, SeedStored, SeedNames
  <2>4. prep' = [prep EXCEPT ![r] = store]
    BY <2>1, <2>3
  <2>5. store.at = "seed" /\ store.seeds[0] = <<r, 3>> /\ store.bits = <<>>
    BY <2>2, <2>3 DEF Restored
  <2> QED
    BY <2>4, <2>5
<1>2. /\ pc[r] = "idle" /\ prep[r].at = "none"
      /\ chan' = Put(chan, r, After(r), SeedMessage(<<r, 3>>))
      /\ UNCHANGED <<program, tape, pc, ip, gate, prng, S, os, kept, log, marks,
                     input, C, read, drawn, dealt, received, clog>>
  BY DEF PrepSend, Put
<1>3. SeedMessage(<<r, 3>>) \in Message
  BY SeedMessageFits, SeedNames
<1>4. After(r) \in Party /\ After(r) # r
  BY Neighbours
<1>5. MachineTypeOK /\ pc \in [Party -> Location] /\ chan \in Connections /\ Len(program) \in Nat
  BY HereFacts DEF MachineInv
<1>6. /\ chan' \in Connections
      /\ chan'[r][After(r)] = Append(chan[r][After(r)], SeedMessage(<<r, 3>>))
      /\ \A a, b \in Party : a # r \/ b # After(r) => chan'[a][b] = chan[a][b]
  <2>1. /\ chan' \in Connections
        /\ chan'[r][After(r)] = Append(chan[r][After(r)], SeedMessage(<<r, 3>>))
        /\ Elsewhere(chan', chan, r, After(r))
    BY <1>2, <1>3, <1>4, <1>5, ChanPut
  <2> QED
    BY <2>1 DEF Elsewhere
<1>7. Aside(r) /\ Afar(r)
  BY <1>2, <1>5, <1>6 DEF Aside, Between, Afar
<1>8. PICK rd, dr, de, re :
         /\ rd = read[r] /\ dr = drawn[r] /\ de = dealt[r] /\ re = received[r]
  OBVIOUS
<1>9. Lists(r, rd, dr, de, re, store)
  BY <1>1, <1>2, <1>5, <1>8 DEF MachineTypeOK, Lists
<1>10. Apart(r) /\ MachineTypeOK' /\ ClearLogged(r)' /\ prep'[r] = store
  BY <1>7, <1>9, AsideFrame
<1>11. Whereabouts(r) /\ Reading(r) /\ Stocked(r)
  BY MachineBacked
<1>12. ip[r] = 1 /\ Whereabouts(r)'
  BY <1>1, <1>2, <1>10, <1>11 DEF Whereabouts, Inputting, Seeding
<1>13. Reading(r)'
  BY <1>2, <1>11, ReadingSame
<1>14. Stocked(r)'
  <2>1. BatchSize \in Nat /\ Len(store.bits) = 0
    BY <1>1, BatchSizeAssumption, EmptySeq
  <2> QED
    BY <1>1, <1>10, <2>1 DEF Stocked
<1>15. ASSUME NEW q \in Party, q # r
       PROVE  Emits(r, q) /\ Absorbs(r, q)
  <2>1. SentTo(r) = 1 /\ SentTo(r)' = 2
    BY <1>1, <1>2, <1>10, <1>12 DEF SentTo
  <2>2. TakenFrom(r, q)' = TakenFrom(r, q)
    BY <1>1, <1>2, <1>10 DEF TakenFrom
  <2>3. 1 \in Planned(r, q) <=> q = After(r)
    BY <1>5, PlannedTags
  <2>4. Fits(r, After(r), 1, SeedMessage(<<r, 3>>))'
    <3>1. \A k \in 1 .. Len(program') : 1 # 2 * k /\ 1 # 2 * k + 1
      OBVIOUS
    <3> QED
      BY <3>1 DEF Fits, SeedMessage
  <2>5. Emits(r, q)
    BY <1>3, <1>6, <2>1, <2>3, <2>4 DEF Emits
  <2>6. chan'[q][r] = chan[q][r]
    BY <1>6, <1>15
  <2> QED
    BY <2>2, <2>5, <2>6 DEF Absorbs
<1> QED
  BY <1>7, <1>10, <1>12, <1>13, <1>14, <1>15, AsideKept

(* The seed of the previous party's.                                       *)
LEMMA PrepReceiveKept ==
    ASSUME MachineInv, NEW r \in Party, PrepReceive(r)
    PROVE  MachineInv'
<1>1. PICK b \in Party : b = Before(r) /\ b # r /\ After(b) = r
  BY Neighbours
<1>2. /\ prep[r].at = "seed" /\ chan[b][r] # <<>>
      /\ prep' = WithSeed(prep, r, "ready", 1, Head(chan[b][r]).seed)
      /\ chan' = Take(chan, b, r)
      /\ UNCHANGED <<program, tape, pc, ip, gate, prng, S, os, kept, log, marks,
                     input, C, read, drawn, dealt, received, clog>>
  BY <1>1 DEF PrepReceive, Take, WithSeed
<1>3. /\ TypeOK /\ Link(b, r) /\ Whereabouts(r) /\ Reading(r) /\ Stocked(r) /\ MachineTypeOK
  BY <1>1, MachineBacked DEF Traffic, MachineInv
<1>4. /\ pc \in [Party -> Location] /\ chan \in Connections /\ Len(program) \in Nat
      /\ prep \in [Party -> PrepStates]
  BY HereFacts
<1>5. ip[r] = 1 /\ pc[r] = "idle"
  BY <1>2, <1>3 DEF Whereabouts
<1>6. TakenFrom(r, b) = 1 /\ 1 \in Planned(b, r)
  BY <1>1, <1>2, <1>4, <1>5, PlannedTags DEF TakenFrom
<1>7. Head(chan[b][r]).seed = <<b, 3>>
  <2>1. Fits(b, r, 1, Head(chan[b][r]))
    BY <1>1, <1>2, <1>3, <1>6, LinkHead
  <2> QED
    BY <2>1 DEF Fits, SeedMessage
<1>8. PICK store \in PrepStates :
         /\ prep' = [prep EXCEPT ![r] = store]
         /\ store.at = "ready" /\ store.seeds[0] = <<r, 3>> /\ store.seeds[1] = <<b, 3>>
         /\ store.bits = <<>>
  <2>1. prep[r].bits = <<>> /\ prep[r].seeds[0] = <<r, 3>>
    BY <1>2, <1>3 DEF Stocked
  <2>2. prep' = WithSeed(prep, r, "ready", 1, <<b, 3>>) /\ <<b, 3>> \in Seed
    BY <1>2, <1>7, SeedNames
  <2>3. PICK store \in PrepStates :
           /\ WithSeed(prep, r, "ready", 1, <<b, 3>>) = [prep EXCEPT ![r] = store]
           /\ Restored(store, prep[r], "ready", 1, <<b, 3>>)
    BY <1>4, <2>2, SeedStored
  <2>4. prep' = [prep EXCEPT ![r] = store]
    BY <2>2, <2>3
  <2>5. /\ store.at = "ready" /\ store.seeds[0] = <<r, 3>> /\ store.seeds[1] = <<b, 3>>
        /\ store.bits = <<>>
    BY <2>1, <2>3 DEF Restored
  <2> QED
    BY <2>4, <2>5
<1>9. /\ chan' \in Connections /\ chan'[b][r] = Tail(chan[b][r])
      /\ \A x, y \in Party : x # b \/ y # r => chan'[x][y] = chan[x][y]
  <2>1. /\ chan' \in Connections /\ chan'[b][r] = Tail(chan[b][r])
        /\ Elsewhere(chan', chan, b, r)
    BY <1>2, <1>4, ChanTake
  <2> QED
    BY <2>1 DEF Elsewhere
<1>10. Aside(r) /\ Afar(r)
  BY <1>2, <1>4, <1>5, <1>9 DEF Aside, Between, Afar
<1>11. PICK rd, dr, de, re :
          /\ rd = read[r] /\ dr = drawn[r] /\ de = dealt[r] /\ re = received[r]
  OBVIOUS
<1>12. Lists(r, rd, dr, de, re, store)
  BY <1>2, <1>3, <1>8, <1>11 DEF MachineTypeOK, Lists
<1>13. Apart(r) /\ MachineTypeOK' /\ ClearLogged(r)' /\ prep'[r] = store
  BY <1>10, <1>12, AsideFrame
<1>14. Whereabouts(r)'
  BY <1>2, <1>5, <1>8, <1>13 DEF Whereabouts, Inputting, Seeding
<1>15. Reading(r)'
  BY <1>2, <1>3, ReadingSame
<1>16. Stocked(r)'
  <2>1. BatchSize \in Nat /\ Len(store.bits) = 0
    BY <1>8, BatchSizeAssumption, EmptySeq
  <2> QED
    BY <1>1, <1>8, <1>13, <2>1 DEF Stocked
<1>17. ASSUME NEW q \in Party, q # r
       PROVE  Emits(r, q) /\ Absorbs(r, q)
  <2>1. SentTo(r)' = SentTo(r)
    BY <1>2, <1>5, <1>8, <1>13 DEF SentTo
  <2>2. TakenFrom(r, q) = 1 /\ TakenFrom(r, q)' = 2
    BY <1>2, <1>5, <1>8, <1>13 DEF TakenFrom
  <2>3. 1 \in Planned(q, r) <=> q = b
    <3>1. 1 \in Planned(q, r) <=> r = After(q)
      BY <1>4, PlannedTags
    <3>2. r = After(q) <=> q = b
      BY <1>1, Neighbours
    <3> QED
      BY <3>1, <3>2
  <2>4. chan'[r][q] = chan[r][q] /\ (q # b => chan'[q][r] = chan[q][r])
    BY <1>1, <1>9, <1>17
  <2>5. Emits(r, q)
    BY <2>1, <2>4 DEF Emits
  <2>6. Absorbs(r, q)
    BY <1>2, <1>9, <2>2, <2>3, <2>4 DEF Absorbs
  <2> QED
    BY <2>5, <2>6
<1> QED
  BY <1>10, <1>13, <1>14, <1>15, <1>16, <1>17, AsideKept

-----------------------------------------------------------------------------
(* Steps that only exchange messages.                                      *)
LEMMA ReadingAside ==
    ASSUME NEW p \in Party, program' = program, tape' = tape, input' = input, Reading(p),
           pc[p] \notin Exchanged, pc'[p] \notin Exchanged, ip'[p] = ip[p],
           read'[p] = read[p], drawn'[p] = drawn[p]
    PROVE  Reading(p)'
<1>1. ReadsOf(p)' = ReadsOf(p)
  BY PlanSame
<1>2. PICK k : k = ip[p] /\ k = ip'[p]
  OBVIOUS
<1>3. read[p] = ReadsOf(p)[k - 1] /\ drawn[p] = 2 * read[p]
  BY <1>2 DEF Reading
<1>4. pc'[p] \notin {"input_prev", "input_store"}
  BY DEF Exchanged
<1> QED
  BY <1>1, <1>2, <1>3, <1>4 DEF Reading

LEMMA MessageKept ==
    ASSUME MachineInv, NEW r \in Party, Aside(r), Afar(r), UNCHANGED machine,
           pc[r] \notin Exchanged, pc'[r] \notin Exchanged, Whereabouts(r)',
           \A q \in Party : q # r => Emits(r, q) /\ Absorbs(r, q)
    PROVE  MachineInv'
<1>1. /\ Apart(r) /\ MachineTypeOK' /\ ClearLogged(r)' /\ Stocked(r)'
      /\ ip' = ip /\ program' = program /\ tape' = tape
  BY AsideMessage
<1>2. Reading(r)'
  <2>1. Reading(r)
    BY MachineBacked
  <2> QED
    BY <1>1, <2>1, ReadingAside DEF machine
<1> QED
  BY <1>1, <1>2, AsideKept

(* REVEAL: what a party shows.                                             *)
LEMMA ShownType ==
    ASSUME MachineInv, NEW p \in Party, NEW k \in 1 .. Len(program), k <= ip[p],
           program[k].op = "reveal"
    PROVE  /\ program[k].items \in Seq(Opening) /\ Len(program[k].items) \in Nat
           /\ ShownBy(p, k) \in Seq(Vec) /\ Len(ShownBy(p, k)) = Len(program[k].items)
<1>1. PICK items \in Seq(Opening) : items = program[k].items
  BY HereFacts, InstructionFacts
<1>2. Len(items) \in Nat /\ \A i \in 1 .. Len(items) : items[i].in \in Reg
  <2>1. Len(items) \in Nat /\ \A i \in 1 .. Len(items) : items[i] \in Opening
    BY LenProperties, ElementOfSeq
  <2> QED
    BY <2>1 DEF Opening
<1>3. log[p][k] \in Registers
  <2>1. Len(log[p]) = ip[p] /\ log[p] \in Seq([Reg -> Share]) /\ ip[p] \in Nat
    BY HereFacts, MachineBacked DEF Own, Logged
  <2>2. k \in 1 .. Len(log[p])
    BY <2>1
  <2> QED
    BY <2>1, <2>2, ElementOfSeq DEF Registers
<1>4. PICK regs \in Registers : regs = log[p][k]
  BY <1>3
<1>5. PICK ws : ws = [i \in 1 .. Len(items) |-> Mask(regs[items[i].in][0], items[i].n)]
  OBVIOUS
<1>6. \A i \in 1 .. Len(items) : Mask(regs[items[i].in][0], items[i].n) \in Vec
  BY <1>2, VecClosed, ShareParts DEF Registers
<1>7. ws \in [1 .. Len(items) -> Vec]
  BY <1>5, <1>6
<1>8. ws \in Seq(Vec) /\ Len(ws) = Len(items)
  BY <1>2, <1>7, FunctionSeq
<1>9. ShownBy(p, k) = ws
  BY <1>1, <1>4, <1>5 DEF ShownBy
<1> QED
  BY <1>1, <1>2, <1>8, <1>9

LEMMA OpenSendKept ==
    ASSUME MachineInv, NEW r \in Party, pc[r] = "idle" => prep[r].at = "ready", OpenSend(r)
    PROVE  MachineInv'
<1>1. PICK k : k = ip[r]
  OBVIOUS
<1>2. /\ pc[r] = "idle" /\ Running(r) /\ program[k].op = "reveal" /\ prep[r].at = "ready"
      /\ pc' = [pc EXCEPT ![r] = "open"]
      /\ UNCHANGED <<program, tape, ip, gate, prng, S, os, kept, log, marks, machine>>
  BY <1>1 DEF OpenSend, At
<1>3. /\ k \in 1 .. Len(program) /\ Len(program) \in Nat /\ k \in Nat
      /\ pc \in [Party -> Location] /\ chan \in Connections
  BY <1>1, <1>2, HereFacts
<1>4. S[r] = log[r][k]
  BY <1>1, <1>2, MachineBacked DEF Own, Logged
<1>5. PICK m : m = WordMessage(ShownBy(r, k))
  OBVIOUS
<1>6. m \in Message /\ m.words = ShownBy(r, k)
  <2>1. ShownBy(r, k) \in Seq(Vec)
    BY <1>1, <1>2, <1>3, ShownType
  <2> QED
    BY <1>5, <2>1, WordMessageType DEF WordMessage
<1>7. chan' = Put(chan, r, After(r), m)
  <2>1. PICK items : items = program[k].items
    OBVIOUS
  <2>2. ShownBy(r, k) = [i \in 1 .. Len(items) |-> Mask(S[r][items[i].in][0], items[i].n)]
    BY <1>4, <2>1 DEF ShownBy
  <2>3. chan' = [chan EXCEPT ![r][After(r)] = Append(@, WordMessage(
                   [i \in 1 .. Len(items) |-> Mask(S[r][items[i].in][0], items[i].n)]))]
    BY <1>1, <2>1 DEF OpenSend, Instruction
  <2>4. chan' = [chan EXCEPT ![r][After(r)] = Append(@, m)]
    BY <1>5, <2>2, <2>3
  <2> QED
    BY <2>4 DEF Put
<1>8. After(r) \in Party /\ After(r) # r
  BY Neighbours
<1>9. /\ chan' \in Connections /\ chan'[r][After(r)] = Append(chan[r][After(r)], m)
      /\ \A a, b \in Party : a # r \/ b # After(r) => chan'[a][b] = chan[a][b]
  <2>1. /\ chan' \in Connections /\ chan'[r][After(r)] = Append(chan[r][After(r)], m)
        /\ Elsewhere(chan', chan, r, After(r))
    BY <1>3, <1>6, <1>7, <1>8, ChanPut
  <2> QED
    BY <2>1 DEF Elsewhere
<1>10. pc'[r] = "open" /\ prep' = prep /\ ip' = ip
  BY <1>2, <1>3 DEF machine
<1>11. Aside(r) /\ Afar(r)
  BY <1>2, <1>3, <1>9, <1>10 DEF Aside, Between, Afar
<1>12. Whereabouts(r)'
  BY <1>1, <1>2, <1>10 DEF Whereabouts, Inputting, Seeding, At, Running
<1>13. ASSUME NEW q \in Party, q # r
       PROVE  Emits(r, q) /\ Absorbs(r, q)
  <2>1. SentTo(r) = 2 * k /\ SentTo(r)' = 2 * k + 1
    BY <1>1, <1>2, <1>10 DEF SentTo, Exchanged
  <2>2. TakenFrom(r, q)' = TakenFrom(r, q)
    BY <1>2, <1>10 DEF TakenFrom
  <2>3. 2 * k \in Planned(r, q) <=> q = After(r)
    BY <1>2, <1>3, PlannedTags DEF First
  <2>4. Fits(r, q, 2 * k, m)'
    <3>1. /\ 2 * k # 0 /\ 2 * k # 1
          /\ \A j \in 1 .. Len(program) : (2 * k = 2 * j => j = k) /\ 2 * k # 2 * j + 1
      BY <1>3
    <3>2. ShownBy(r, k)' = ShownBy(r, k)
      BY <1>2 DEF ShownBy
    <3> QED
      BY <1>2, <1>6, <3>1, <3>2 DEF Fits
  <2>5. Emits(r, q)
    BY <1>6, <1>9, <1>13, <2>1, <2>3, <2>4 DEF Emits
  <2>6. chan'[q][r] = chan[q][r]
    BY <1>9, <1>13
  <2> QED
    BY <2>2, <2>5, <2>6 DEF Absorbs
<1> QED
  BY <1>2, <1>10, <1>11, <1>12, <1>13, MessageKept DEF Exchanged


-----------------------------------------------------------------------------
(* REVEAL: what a party makes of what it is shown.                         *)
LEMMA RevealType ==
    ASSUME NEW regs \in ClearRegs, NEW p \in Party, NEW s \in Registers,
           NEW items \in Seq(Opening), NEW words \in Seq(Vec), Len(words) = Len(items)
    PROVE  RevealOf(regs, p, s, items, words) \in ClearRegs
<1>1. \A i \in 1 .. Len(items) : words[i] \in Vec
  BY ElementOfSeq
<1>2. PICK f : /\ RevealRounds(f, regs, p, s, items, words)
               /\ RevealOf(regs, p, s, items, words) = f[Len(items)]
  BY <1>1, RevealLoop
<1>3. Len(items) \in 0 .. Len(items)
  <2>1. Len(items) \in Nat
    BY LenProperties
  <2> QED
    BY <2>1
<1> QED
  BY <1>2, <1>3 DEF RevealRounds

(* What arrives at a party in a REVEAL.                                    *)
LEMMA RevealHead ==
    ASSUME MachineInv, NEW r \in Party, pc[r] = "open", NEW b, b = Before(r),
           chan[b][r] # <<>>
    PROVE  /\ At(r, "reveal") /\ prep[r].at = "ready"
           /\ ip[r] <= ip[b] /\ Head(chan[b][r]).words = ShownBy(b, ip[r])
           /\ Entered(b, ip[r])
<1>1. b \in Party /\ b # r /\ After(b) = r
  BY Neighbours
<1>2. /\ TypeOK /\ Control /\ Link(b, r) /\ Whereabouts(r) /\ Whereabouts(b)
  BY <1>1, MachineBacked DEF Traffic
<1>3. At(r, "reveal") /\ prep[r].at = "ready"
  <2>1. TypeOK /\ prep[r].at \in {"none", "seed", "ready"}
    BY HereFacts DEF PrepStates, MachineInv, MachineTypeOK
  <2> QED
    BY <1>2 DEF Whereabouts, Seeding
<1>4. PICK k \in 1 .. Len(program) : k = ip[r]
  BY <1>3, HereFacts DEF At
<1>5. Len(program) \in Nat /\ k \in Nat
  BY HereFacts
<1>6. TakenFrom(r, b) = 2 * k /\ 2 * k \in Planned(b, r)
  BY <1>1, <1>3, <1>4, <1>5, PlannedTags DEF TakenFrom, First, At
<1>7. 2 * k < SentTo(b) /\ Fits(b, r, 2 * k, Head(chan[b][r]))
  BY <1>1, <1>2, <1>6, LinkHead
<1>8. k <= ip[b] /\ (k = ip[b] => pc[b] # "idle")
  BY <1>1, <1>2, <1>7, SentFirst
<1>9. Head(chan[b][r]).words = ShownBy(b, k)
  BY <1>3, <1>4, <1>7 DEF Fits, At
<1>10. Entered(b, k)
  <2>1. ip[b] \in Nat
    BY <1>1, HereFacts
  <2> QED
    BY <1>5, <1>8, <2>1 DEF Entered
<1> QED
  BY <1>3, <1>4, <1>8, <1>9, <1>10

LEMMA OpenReceiveKept ==
    ASSUME MachineInv, NEW r \in Party, OpenReceive(r)
    PROVE  MachineInv'
<1>1. PICK b \in Party : b = Before(r) /\ b # r /\ After(b) = r
  BY Neighbours
<1>2. /\ pc[r] = "open" /\ chan[b][r] # <<>> /\ chan' = Take(chan, b, r)
      /\ UNCHANGED <<S, input, read, drawn, dealt, received, prep>> /\ Advance(r)
  BY <1>1 DEF OpenReceive, Take
<1>3. /\ At(r, "reveal") /\ prep[r].at = "ready"
      /\ ip[r] <= ip[b] /\ Head(chan[b][r]).words = ShownBy(b, ip[r])
  BY <1>1, <1>2, RevealHead
<1>4. PICK k : k = ip[r] /\ Running(r) /\ program[k].op = "reveal"
  BY <1>3 DEF At
<1>5. /\ k \in 1 .. Len(program) /\ Len(program) \in Nat /\ k \in Nat
      /\ chan \in Connections /\ C \in [Party -> ClearRegs] /\ S \in [Party -> Registers]
      /\ prep \in [Party -> PrepStates]
  BY <1>4, HereFacts
<1>6. PICK items, words, clears :
         /\ items = program[k].items /\ words = ShownBy(b, k)
         /\ clears = RevealOf(C[r], r, S[r], items, words)
  OBVIOUS
<1>7. clears \in ClearRegs
  <2>1. /\ items \in Seq(Opening) /\ words \in Seq(Vec) /\ Len(words) = Len(items)
    BY <1>3, <1>4, <1>5, <1>6, ShownType
  <2> QED
    BY <1>5, <1>6, <2>1, RevealType
<1>8. C' = [C EXCEPT ![r] = clears]
  <2>1. C' = [C EXCEPT ![r] = RevealOf(C[r], r, S[r], Instruction(r).items,
                                       Head(chan[Before(r)][r]).words)]
    BY DEF OpenReceive, RevealOf
  <2>2. items = Instruction(r).items /\ words = Head(chan[Before(r)][r]).words
    BY <1>1, <1>3, <1>4, <1>6 DEF Instruction
  <2> QED
    BY <1>6, <2>1, <2>2
<1>9. /\ chan' \in Connections /\ chan'[b][r] = Tail(chan[b][r])
      /\ \A x, y \in Party : x # b \/ y # r => chan'[x][y] = chan[x][y]
  <2>1. /\ chan' \in Connections /\ chan'[b][r] = Tail(chan[b][r])
        /\ Elsewhere(chan', chan, b, r)
    BY <1>2, <1>5, ChanTake
  <2> QED
    BY <2>1 DEF Elsewhere
<1>10. PICK regs \in Registers, store \in PrepStates : regs = S[r] /\ store = prep[r]
  BY <1>5
<1>11. S' = [S EXCEPT ![r] = regs] /\ prep' = [prep EXCEPT ![r] = store]
  BY <1>2, <1>5, <1>10
<1>12. /\ Ahead(r) /\ Apart(r) /\ MachineTypeOK' /\ ClearLogged(r)'
       /\ pc'[r] = "idle" /\ ip'[r] = ip[r] + 1 /\ prep'[r] = store
       /\ program' = program /\ tape' = tape
  <2>1. pc[r] \in Between /\ program[ip[r]].op # "ands"
    BY <1>2, <1>4 DEF Between
  <2>2. UNCHANGED <<input, read, drawn, dealt, received>>
    BY <1>2
  <2>3. \A p, q \in Party : p # r /\ q # r /\ p # q => chan'[p][q] = chan[p][q]
    BY <1>9
  <2> QED
    BY <1>2, <1>4, <1>7, <1>8, <1>9, <1>11, <2>1, <2>2, <2>3, AdvanceAhead
<1>13. Whereabouts(r)'
  BY <1>3, <1>10, <1>12 DEF Whereabouts, Inputting, Seeding
<1>14. Reading(r)'
  <2>1. read'[r] = read[r] /\ drawn'[r] = drawn[r] /\ input' = input
    BY <1>2
  <2>2. pc[r] \notin Exchanged /\ ip[r] \in 1 .. Len(program) /\ program[ip[r]].op # "inputb"
    BY <1>2, <1>4, <1>5 DEF Exchanged
  <2> QED
    BY <1>12, <2>1, <2>2, ReadingAhead
<1>15. Stocked(r)'
  BY <1>10, <1>12, MachineBacked, StockedSame
<1>16. ASSUME NEW q \in Party, q # r
       PROVE  Emits(r, q) /\ Absorbs(r, q)
  <2>1. SentTo(r) = 2 * k + 1 /\ TakenFrom(r, q) = 2 * k
    BY <1>2, <1>3, <1>4 DEF SentTo, TakenFrom, Exchanged
  <2>2. SentTo(r)' = 2 * k + 2 /\ TakenFrom(r, q)' = 2 * k + 2
    <3>1. 2 * (k + 1) = 2 * k + 2
      BY <1>5
    <3> QED
      BY <1>3, <1>4, <1>10, <1>12, <3>1 DEF SentTo, TakenFrom
  <2>3. \A p, s : ~Second(p, k) /\ (First(p, s, k) <=> s = After(p))
    BY <1>4 DEF First, Second
  <2>4. /\ 2 * k + 1 \notin Planned(r, q) /\ 2 * k + 1 \notin Planned(q, r)
        /\ 2 * k \in Planned(q, r) <=> q = b
    <3>1. After(q) = r <=> q = b
      BY <1>1, Neighbours
    <3> QED
      BY <1>5, <2>3, <3>1, PlannedTags
  <2>5. chan'[r][q] = chan[r][q] /\ (q # b => chan'[q][r] = chan[q][r])
    BY <1>1, <1>9, <1>16
  <2>6. Emits(r, q)
    <3>1. 2 * k + 2 = (2 * k + 1) + 1
      BY <1>5
    <3> QED
      BY <2>1, <2>2, <2>4, <2>5, <3>1 DEF Emits
  <2>7. Absorbs(r, q)
    BY <1>2, <1>9, <2>1, <2>2, <2>4, <2>5 DEF Absorbs
  <2> QED
    BY <2>6, <2>7
<1> QED
  BY <1>12, <1>13, <1>14, <1>15, <1>16, AheadKept


-----------------------------------------------------------------------------
(* INPUTB: the seeds that are sent and dropped.                            *)
LEMMA InputSetupKept ==
    ASSUME MachineInv, NEW r \in Party, pc[r] = "idle" => prep[r].at = "ready", InputSetup(r)
    PROVE  MachineInv'
<1>1. PICK k : k = ip[r]
  OBVIOUS
<1>2. /\ pc[r] = "idle" /\ Running(r) /\ program[k].op = "inputb" /\ prep[r].at = "ready"
      /\ pc' = [pc EXCEPT ![r] = "input_seed_next"]
      /\ UNCHANGED <<program, tape, ip, gate, prng, S, os, kept, log, marks, machine>>
  BY <1>1 DEF InputSetup, At
<1>3. /\ k \in 1 .. Len(program) /\ Len(program) \in Nat /\ k \in Nat
      /\ pc \in [Party -> Location] /\ chan \in Connections
  BY <1>1, <1>2, HereFacts
<1>4. PICK m0 \in Message, m1 \in Message : m0 = SeedMessage(<<r, 0>>) /\ m1 = SeedMessage(<<r, 1>>)
  BY SeedMessageFits, SeedNames
<1>5. PICK a \in Party, b \in Party :
         /\ a = After(r) /\ b = Before(r) /\ a # r /\ b # r /\ a # b
         /\ \A q \in Party : q = r \/ q = a \/ q = b
  BY Neighbours
<1>6. chan' = PutTwo(chan, r, b, a, m0, m1)
  BY <1>4, <1>5 DEF InputSetup, PutTwo
<1>7. /\ chan' \in Connections /\ chan'[r][b] = Append(chan[r][b], m0)
      /\ chan'[r][a] = Append(chan[r][a], m1)
      /\ \A x, y \in Party : x # r \/ (y # b /\ y # a) => chan'[x][y] = chan[x][y]
  <2>1. BothPut(chan', chan, r, b, a, m0, m1)
    BY <1>3, <1>5, <1>6, ChanPutTwo
  <2> QED
    BY <2>1 DEF BothPut
<1>8. pc'[r] = "input_seed_next" /\ prep' = prep /\ ip' = ip
  BY <1>2, <1>3 DEF machine
<1>9. Aside(r) /\ Afar(r)
  BY <1>2, <1>3, <1>7, <1>8 DEF Aside, Between, Inputting, Afar
<1>10. Whereabouts(r)'
  BY <1>1, <1>2, <1>8 DEF Whereabouts, Inputting, Seeding, At, Running
<1>11. ASSUME NEW q \in Party, q # r
       PROVE  Emits(r, q) /\ Absorbs(r, q)
  <2>1. SentTo(r) = 2 * k /\ SentTo(r)' = 2 * k + 1
    BY <1>1, <1>2, <1>8 DEF SentTo, Exchanged
  <2>2. TakenFrom(r, q)' = TakenFrom(r, q)
    BY <1>2, <1>8 DEF TakenFrom
  <2>3. 2 * k \in Planned(r, q)
    BY <1>2, <1>3, PlannedTags DEF First
  <2>4. \A m : Fits(r, q, 2 * k, m)'
    <3>1. /\ 2 * k # 0 /\ 2 * k # 1
          /\ \A j \in 1 .. Len(program) : (2 * k = 2 * j => j = k) /\ 2 * k # 2 * j + 1
      BY <1>3
    <3> QED
      BY <1>2, <3>1 DEF Fits
  <2>5. \E m \in Message : chan'[r][q] = Append(chan[r][q], m)
    BY <1>5, <1>7, <1>11
  <2>6. Emits(r, q)
    BY <2>1, <2>3, <2>4, <2>5 DEF Emits
  <2>7. chan'[q][r] = chan[q][r]
    BY <1>7, <1>11
  <2> QED
    BY <2>2, <2>6, <2>7 DEF Absorbs
<1> QED
  BY <1>2, <1>8, <1>9, <1>10, <1>11, MessageKept DEF Exchanged

(* Where a party is in an INPUTB.                                          *)
LEMMA InputHere ==
    ASSUME MachineInv, NEW r \in Party, pc[r] \in Inputting
    PROVE  /\ At(r, "inputb") /\ Running(r) /\ program[ip[r]].op = "inputb"
           /\ ip[r] \in 1 .. Len(program) /\ Len(program) \in Nat /\ ip[r] \in Nat
           /\ prep[r].at = "ready" /\ pc[r] \in Between
           /\ \A q \in Party : 2 * ip[r] \in Planned(q, r)
<1>1. At(r, "inputb") /\ prep[r].at = "ready"
  <2>1. prep[r].at \in {"none", "seed", "ready"}
    BY HereFacts DEF PrepStates
  <2>2. Whereabouts(r)
    BY MachineBacked
  <2> QED
    BY <2>1, <2>2 DEF Whereabouts, Seeding, Inputting
<1>2. Running(r) /\ program[ip[r]].op = "inputb" /\ pc[r] \in Between
  BY <1>1 DEF At, Between
<1>3. ip[r] \in 1 .. Len(program) /\ Len(program) \in Nat /\ ip[r] \in Nat
  BY <1>2, HereFacts
<1>4. \A q \in Party : 2 * ip[r] \in Planned(q, r)
  BY <1>2, <1>3, PlannedTags DEF First
<1> QED
  BY <1>1, <1>2, <1>3, <1>4

(* What a discarded seed does to the connections.                          *)
LEMMA DiscardKept ==
    ASSUME MachineInv, NEW r \in Party, NEW from \in Party, from # r,
           NEW at \in {"input_seed_next", "input_seed_prev"},
           NEW next \in {"input_seed_prev", "input_send"},
           DiscardSeed(r, from, at, next),
           \A q \in Party : q # r =>
              IF q = from
              THEN TakenFrom(r, q) = 2 * ip[r] /\ TakenFrom(r, q)' = 2 * ip[r] + 1
              ELSE TakenFrom(r, q)' = TakenFrom(r, q)
    PROVE  MachineInv'
<1>1. /\ pc[r] = at /\ chan[from][r] # <<>> /\ chan' = Take(chan, from, r)
      /\ pc' = [pc EXCEPT ![r] = next]
      /\ UNCHANGED <<program, tape, ip, gate, prng, S, os, kept, log, marks, machine>>
  BY DEF DiscardSeed, Take
<1>2. /\ At(r, "inputb") /\ Running(r) /\ prep[r].at = "ready"
      /\ pc[r] \in Between /\ \A q \in Party : 2 * ip[r] \in Planned(q, r)
  BY <1>1, InputHere DEF Inputting
<1>3. pc \in [Party -> Location] /\ chan \in Connections
  BY HereFacts
<1>4. /\ chan' \in Connections /\ chan'[from][r] = Tail(chan[from][r])
      /\ \A x, y \in Party : x # from \/ y # r => chan'[x][y] = chan[x][y]
  <2>1. /\ chan' \in Connections /\ chan'[from][r] = Tail(chan[from][r])
        /\ Elsewhere(chan', chan, from, r)
    BY <1>1, <1>3, ChanTake
  <2> QED
    BY <2>1 DEF Elsewhere
<1>5. pc'[r] = next /\ prep' = prep /\ ip' = ip
  BY <1>1, <1>3 DEF machine
<1>6. Aside(r) /\ Afar(r)
  BY <1>1, <1>2, <1>3, <1>4, <1>5 DEF Aside, Between, Inputting, Afar
<1>7. Whereabouts(r)'
  BY <1>1, <1>2, <1>5 DEF Whereabouts, Inputting, Seeding, At, Running
<1>8. ASSUME NEW q \in Party, q # r
      PROVE  Emits(r, q) /\ Absorbs(r, q)
  <2>1. SentTo(r)' = SentTo(r)
    BY <1>1, <1>2, <1>5 DEF SentTo, Exchanged
  <2>2. chan'[r][q] = chan[r][q] /\ (q # from => chan'[q][r] = chan[q][r])
    BY <1>4, <1>8
  <2>3. CASE q = from
    BY <1>1, <1>2, <1>4, <2>1, <2>2, <2>3 DEF Emits, Absorbs
  <2>4. CASE q # from
    BY <1>8, <2>1, <2>2, <2>4 DEF Emits, Absorbs
  <2> QED
    BY <2>3, <2>4
<1> QED
  BY <1>1, <1>5, <1>6, <1>7, <1>8, MessageKept DEF Exchanged

LEMMA DiscardSeedKept ==
    ASSUME MachineInv, NEW r \in Party, DiscardSeedNext(r) \/ DiscardSeedPrev(r)
    PROVE  MachineInv'
<1>1. pc \in [Party -> Location]
  BY HereFacts
<1>2. CASE DiscardSeedNext(r)
  <2>1. PICK a \in Party : a = After(r) /\ a # r
    BY Neighbours
  <2>2. DiscardSeed(r, a, "input_seed_next", "input_seed_prev")
    BY <1>2, <2>1 DEF DiscardSeedNext
  <2>3. pc[r] = "input_seed_next" /\ pc'[r] = "input_seed_prev" /\ ip'[r] = ip[r]
    BY <1>1, <2>2 DEF DiscardSeed
  <2>4. \A q \in Party : q # r =>
           IF q = a THEN TakenFrom(r, q) = 2 * ip[r] /\ TakenFrom(r, q)' = 2 * ip[r] + 1
           ELSE TakenFrom(r, q)' = TakenFrom(r, q)
    BY <2>1, <2>3 DEF TakenFrom
  <2> QED
    BY <2>1, <2>2, <2>4, DiscardKept
<1>3. CASE DiscardSeedPrev(r)
  <2>1. PICK b \in Party : b = Before(r) /\ b # r /\ b # After(r)
                           /\ \A q \in Party : q = r \/ q = After(r) \/ q = b
    BY Neighbours
  <2>2. DiscardSeed(r, b, "input_seed_prev", "input_send")
    BY <1>3, <2>1 DEF DiscardSeedPrev
  <2>3. pc[r] = "input_seed_prev" /\ pc'[r] = "input_send" /\ ip'[r] = ip[r]
    BY <1>1, <2>2 DEF DiscardSeed
  <2>4. \A q \in Party : q # r =>
           IF q = b THEN TakenFrom(r, q) = 2 * ip[r] /\ TakenFrom(r, q)' = 2 * ip[r] + 1
           ELSE TakenFrom(r, q)' = TakenFrom(r, q)
    BY <2>1, <2>3 DEF TakenFrom
  <2> QED
    BY <2>1, <2>2, <2>4, DiscardKept
<1> QED
  BY <1>2, <1>3


-----------------------------------------------------------------------------
(* INPUTB: what a party deals.                                             *)
LEMMA MineCount ==
    ASSUME MachineInv, NEW p, NEW k \in 1 .. Len(program), program[k].op = "inputb"
    PROVE  /\ program[k].items \in Seq(Dealing)
           /\ Len(Mine(p, k)) = Cardinality(From(program[k].items, p))
           /\ Len(Mine(p, k)) \in Nat
           /\ Mine(p, k) = <<>> <=> Len(Mine(p, k)) = 0
<1>1. PICK items \in Seq(Dealing) : items = program[k].items
  <2>1. program \in Programs
    BY DEF MachineInv, MachineTypeOK, TypeOK
  <2> QED
    BY <2>1, InstructionFacts
<1>2. /\ Len(Mine(p, k)) = Cardinality(From(program[k].items, p))
      /\ Len(Mine(p, k)) \in Nat
  BY <1>1, ItemNumbers DEF Mine
<1>3. Mine(p, k) = <<>> <=> Len(Mine(p, k)) = 0
  <2>1. PICK n, f : /\ n = Cardinality(From(items, p)) /\ n \in Nat
                    /\ f = [i \in 1 .. n |->
                              items[CHOOSE j \in From(items, p) : Nth(items, j) = i]]
    BY <1>1, <1>2
  <2>2. Mine(p, k) = f
    BY <1>1, <2>1 DEF Mine, ItemsFrom
  <2>3. n = 0 => f = <<>>
    BY <2>1
  <2>4. Mine(p, k) = <<>> => Len(Mine(p, k)) = 0
    BY EmptySeq
  <2> QED
    BY <1>1, <1>2, <2>1, <2>2, <2>3, <2>4
<1> QED
  BY <1>1, <1>2, <1>3

LEMMA DealingType ==
    ASSUME NEW p \in Party, NEW v \in Vec, NEW alpha \in Vec, NEW beta \in Vec
    PROVE  DealtBy(p, v, alpha, beta) \in [Party -> Share]
<1>1. v (+) alpha \in Vec /\ v (+) beta \in Vec
  BY VecClosed
<1>2. \A x, y \in Vec : Sh(x, y) \in Share
  BY DEF Sh, Share
<1>3. Sh(v (+) alpha, beta) \in Share /\ Sh(v (+) beta, alpha) \in Share /\ Sh(alpha, beta) \in Share
  BY <1>1, <1>2
<1> QED
  BY <1>3 DEF DealtBy

LEMMA FreshType ==
    ASSUME NEW p, NEW i, NEW n
    PROVE  Fresh(p, i, n) \in Vec
  BY DEF Fresh, Vec

LEMMA InputsType ==
    ASSUME NEW p, NEW k, NEW q \in Party, Len(Mine(p, k)) \in Nat,
           \A i \in 1 .. Len(Mine(p, k)) : DealingFor(p, k, i) \in [Party -> Share]
    PROVE  InputsFor(p, q, k) \in Seq(Vec)
<1>1. PICK mine, dealings, n :
         /\ mine = Mine(p, k) /\ dealings = DealingsFor(p, k) /\ n = Len(Mine(p, k))
  OBVIOUS
<1>2. n \in Nat /\ 2 * n \in Nat /\ \A i \in 1 .. n : dealings[i] \in [Party -> Share]
  BY <1>1 DEF DealingsFor
<1>3. ASSUME NEW j \in 1 .. 2 * n
      PROVE  Packed(dealings[(j + 1) \div 2][q][(j + 1) % 2], mine[(j + 1) \div 2].n) \in Vec
  <2>1. (j + 1) \div 2 \in 1 .. n /\ (j + 1) % 2 \in {0, 1}
    BY <1>2
  <2>2. dealings[(j + 1) \div 2][q] \in Share
    BY <1>2, <2>1
  <2>3. dealings[(j + 1) \div 2][q][(j + 1) % 2] \in Vec
    BY <2>1, <2>2 DEF Share
  <2> QED
    BY <2>3, VecClosed
<1>4. PICK ws : ws = [j \in 1 .. 2 * n |->
                        Packed(dealings[(j + 1) \div 2][q][(j + 1) % 2],
                               mine[(j + 1) \div 2].n)]
  OBVIOUS
<1>5. ws \in [1 .. 2 * n -> Vec]
  BY <1>3, <1>4
<1>6. InputsFor(p, q, k) = ws
  BY <1>1, <1>4 DEF InputsFor, PackedFor
<1> QED
  BY <1>2, <1>5, <1>6, FunctionSeq

(* What a party deals is what was planned.                                 *)
LEMMA InputSendEffect ==
    ASSUME MachineInv, NEW r \in Party, InputSend(r), NEW k, k = ip[r]
    PROVE  /\ \A i \in 1 .. Len(Mine(r, k)) : DealingFor(r, k, i) \in [Party -> Share]
           /\ dealt' = [dealt EXCEPT ![r] = [i \in 1 .. Len(Mine(r, k)) |-> DealingsFor(r, k)[i][r]]]
           /\ read' = [read EXCEPT ![r] = read[r] + Len(Mine(r, k))]
           /\ drawn' = [drawn EXCEPT ![r] = drawn[r] + 2 * Len(Mine(r, k))]
           /\ chan' = IF Mine(r, k) = <<>> THEN chan
                      ELSE PutTwo(chan, r, After(r), Before(r),
                                  WordMessage(InputsFor(r, After(r), k)),
                                  WordMessage(InputsFor(r, Before(r), k)))
<1>1. pc[r] = "input_send" /\ pc[r] \in Inputting /\ pc[r] \notin Exchanged
  BY DEF InputSend, Inputting, Exchanged
<1>2. /\ program[k].op = "inputb" /\ k \in 1 .. Len(program) /\ k \in Nat
      /\ program \in Programs /\ Len(program) \in Nat
  BY <1>1, InputHere, HereFacts
<1>3. PICK mine, ds :
         /\ mine = ItemsFrom(Instruction(r).items, r)
         /\ ds = [i \in 1 .. Len(mine) |-> DealingOf(r, mine[i], i)]
  OBVIOUS
<1>4. /\ read[r] + Len(mine) <= Len(input[r])
      /\ dealt' = [dealt EXCEPT ![r] = [i \in 1 .. Len(mine) |-> ds[i][r]]]
      /\ read' = [read EXCEPT ![r] = read[r] + Len(mine)]
      /\ drawn' = [drawn EXCEPT ![r] = drawn[r] + 2 * Len(mine)]
      /\ chan' = IF mine = <<>> THEN chan
                 ELSE PutTwo(chan, r, After(r), Before(r),
                             WordMessage(PackedFor(After(r), ds, mine)),
                             WordMessage(PackedFor(Before(r), ds, mine)))
  BY <1>3 DEF InputSend, PutTwo
<1>5. mine = Mine(r, k) /\ Len(mine) \in Nat
  BY <1>2, <1>3, MineCount DEF Mine, Instruction
<1>6. PICK rd \in Nat : rd = read[r] /\ rd = ReadsOf(r)[k - 1] /\ drawn[r] = 2 * rd
  <2>1. ReadsOf(r)[k - 1] \in Nat
    BY <1>2, ReadsHere
  <2>2. read[r] = ReadsOf(r)[k - 1] /\ drawn[r] = 2 * read[r]
    BY <1>1, MachineBacked DEF Reading
  <2> QED
    BY <2>1, <2>2
<1>7. \A i \in 1 .. Len(mine) : DealingOf(r, mine[i], i) = DealingFor(r, k, i)
  BY <1>5, <1>6 DEF DealingOf, DealingFor
<1>8. ds = DealingsFor(r, k)
  BY <1>3, <1>5, <1>7 DEF DealingsFor
<1>9. \A i \in 1 .. Len(mine) : DealingFor(r, k, i) \in [Party -> Share]
  <2>1. input[r] \in Seq(Vec)
    BY PrivateInputsAssumption DEF MachineInv, MachineTypeOK
  <2> TAKE i \in 1 .. Len(mine)
  <2>2. Len(input[r]) \in Nat
    BY <2>1, LenProperties
  <2>3. rd + i \in 1 .. Len(input[r])
    BY <1>4, <1>5, <1>6, <2>2
  <2>4. input[r][rd + i] \in Vec
    BY <2>1, <2>3, ElementOfSeq
  <2>5. PICK v, alpha, beta :
           /\ v = input[r][rd + i] /\ alpha = Fresh(r, 2 * rd + 2 * i - 1, Mine(r, k)[i].n)
           /\ beta = Fresh(r, 2 * rd + 2 * i, Mine(r, k)[i].n)
    OBVIOUS
  <2>6. v \in Vec /\ alpha \in Vec /\ beta \in Vec
    BY <2>4, <2>5, FreshType
  <2>7. DealingFor(r, k, i) = DealtBy(r, v, alpha, beta)
    BY <1>6, <2>5 DEF DealingFor
  <2> QED
    BY <2>6, <2>7, DealingType
<1> QED
  BY <1>4, <1>5, <1>8, <1>9 DEF InputsFor


-----------------------------------------------------------------------------
LEMMA InputSendKept ==
    ASSUME MachineInv, NEW r \in Party, InputSend(r)
    PROVE  MachineInv'
<1>1. PICK k : k = ip[r]
  OBVIOUS
<1>2. PICK n, mine : n = Len(Mine(r, k)) /\ mine = Mine(r, k)
  OBVIOUS
<1>3. /\ pc[r] = "input_send" /\ pc' = [pc EXCEPT ![r] = "input_next"]
      /\ received' = [received EXCEPT ![r] = [q \in Party |-> <<>>]]
      /\ UNCHANGED <<program, tape, ip, gate, prng, S, os, kept, log, marks,
                     input, C, prep, clog>>
  BY DEF InputSend
<1>4. /\ At(r, "inputb") /\ Running(r) /\ program[k].op = "inputb"
      /\ k \in 1 .. Len(program) /\ Len(program) \in Nat /\ k \in Nat
      /\ prep[r].at = "ready" /\ pc[r] \in Between
  BY <1>1, <1>3, InputHere DEF Inputting
<1>5. /\ MachineTypeOK /\ pc \in [Party -> Location] /\ chan \in Connections
      /\ prep \in [Party -> PrepStates] /\ program \in Programs
  BY HereFacts DEF MachineInv
<1>6. /\ \A i \in 1 .. n : DealingFor(r, k, i) \in [Party -> Share]
      /\ dealt' = [dealt EXCEPT ![r] = [i \in 1 .. n |-> DealingsFor(r, k)[i][r]]]
      /\ read' = [read EXCEPT ![r] = read[r] + n]
      /\ drawn' = [drawn EXCEPT ![r] = drawn[r] + 2 * n]
  <2>1. /\ \A i \in 1 .. Len(Mine(r, k)) : DealingFor(r, k, i) \in [Party -> Share]
        /\ dealt' = [dealt EXCEPT ![r] = [i \in 1 .. Len(Mine(r, k)) |-> DealingsFor(r, k)[i][r]]]
        /\ read' = [read EXCEPT ![r] = read[r] + Len(Mine(r, k))]
        /\ drawn' = [drawn EXCEPT ![r] = drawn[r] + 2 * Len(Mine(r, k))]
    BY <1>1, InputSendEffect
  <2> QED
    BY <1>2, <2>1
<1>7. n \in Nat
  BY <1>2, <1>4, MineCount
<1>8. PICK a \in Party, b \in Party :
         /\ a = After(r) /\ b = Before(r) /\ a # r /\ b # r /\ a # b
         /\ \A q \in Party : q = r \/ q = a \/ q = b
  BY Neighbours
<1>9. PICK ma \in Message, mb \in Message :
         /\ ma = WordMessage(InputsFor(r, a, k)) /\ mb = WordMessage(InputsFor(r, b, k))
         /\ ma.words = InputsFor(r, a, k) /\ mb.words = InputsFor(r, b, k)
  <2>1. InputsFor(r, a, k) \in Seq(Vec) /\ InputsFor(r, b, k) \in Seq(Vec)
    BY <1>2, <1>6, <1>7, InputsType
  <2> QED
    BY <2>1, WordMessageType DEF WordMessage
<1>10. chan' = IF mine = <<>> THEN chan ELSE PutTwo(chan, r, a, b, ma, mb)
  BY <1>1, <1>2, <1>8, <1>9, InputSendEffect
<1>11. /\ chan' \in Connections
       /\ mine = <<>> => chan' = chan
       /\ mine # <<>> => /\ chan'[r][a] = Append(chan[r][a], ma)
                         /\ chan'[r][b] = Append(chan[r][b], mb)
       /\ \A x, y \in Party : x # r => chan'[x][y] = chan[x][y]
  <2>1. CASE mine = <<>>
    BY <1>5, <1>10, <2>1
  <2>2. CASE mine # <<>>
    <3>1. BothPut(chan', chan, r, a, b, ma, mb)
      BY <1>5, <1>8, <1>10, <2>2, ChanPutTwo
    <3> QED
      BY <2>2, <3>1 DEF BothPut
  <2> QED
    BY <2>1, <2>2
<1>12. pc'[r] = "input_next" /\ prep' = prep /\ ip' = ip
  BY <1>3, <1>5
<1>13. Aside(r) /\ Afar(r)
  BY <1>3, <1>4, <1>5, <1>11, <1>12 DEF Aside, Between, Inputting, Afar
<1>14. PICK rd, dr, de, re, store :
          /\ rd = read[r] + n /\ dr = drawn[r] + 2 * n
          /\ de = [i \in 1 .. n |-> DealingsFor(r, k)[i][r]]
          /\ re = [q \in Party |-> <<>>] /\ store = prep[r]
  OBVIOUS
<1>15. Lists(r, rd, dr, de, re, store)
  <2>1. rd \in Nat /\ dr \in Nat
    <3>1. read[r] \in Nat /\ drawn[r] \in Nat
      BY <1>5 DEF MachineTypeOK
    <3> QED
      BY <1>7, <1>14, <3>1
  <2>2. de \in Seq(Share)
    <3>1. \A i \in 1 .. n : DealingsFor(r, k)[i][r] \in Share
      BY <1>2, <1>6 DEF DealingsFor
    <3>2. de \in [1 .. n -> Share]
      BY <1>14, <3>1
    <3> QED
      BY <1>7, <3>2, FunctionSeq
  <2>3. re \in [Party -> Seq(Vec)]
    BY <1>14
  <2>4. store \in PrepStates /\ prep' = [prep EXCEPT ![r] = store]
    BY <1>3, <1>5, <1>14
  <2> QED
    BY <1>3, <1>6, <1>14, <2>1, <2>2, <2>3, <2>4 DEF Lists
<1>16. /\ Apart(r) /\ MachineTypeOK' /\ ClearLogged(r)'
       /\ read'[r] = rd /\ drawn'[r] = dr /\ dealt'[r] = de
       /\ program' = program /\ tape' = tape
  BY <1>13, <1>15, AsideFrame
<1>17. Whereabouts(r)'
  BY <1>3, <1>4, <1>12 DEF Whereabouts, Inputting, Seeding, At, Running
<1>18. Reading(r)'
  <2>1. /\ Mine(r, k)' = Mine(r, k) /\ DealingsFor(r, k)' = DealingsFor(r, k)
        /\ ReadsOf(r)' = ReadsOf(r)
    BY <1>3, <1>16, PlanSame
  <2>2. read[r] = ReadsOf(r)[k - 1] /\ drawn[r] = 2 * read[r]
    BY <1>1, <1>3, MachineBacked DEF Reading, Exchanged
  <2>3. ReadsOf(r)[k] = ReadsOf(r)[k - 1] + n /\ ReadsOf(r)[k - 1] \in Nat
    <3>1. ReadBy(program, r, k) = n
      BY <1>2, <1>4 DEF ReadBy, Mine
    <3> QED
      BY <1>4, <1>5, <3>1, ReadsHere
  <2>4. rd = ReadsOf(r)[k] /\ dr = 2 * rd
    BY <1>7, <1>14, <2>2, <2>3
  <2>5. de = [i \in 1 .. Len(Mine(r, k)) |-> DealingsFor(r, k)[i][r]]
    BY <1>2, <1>14
  <2>6. pc'[r] \in Exchanged /\ pc'[r] \notin {"input_prev", "input_store"} /\ ip'[r] = k
    BY <1>1, <1>12 DEF Exchanged
  <2> QED
    BY <1>16, <2>1, <2>4, <2>5, <2>6 DEF Reading
<1>19. Stocked(r)'
  BY <1>12, <1>16, MachineBacked, StockedSame
<1>20. ASSUME NEW q \in Party, q # r
       PROVE  Emits(r, q) /\ Absorbs(r, q)
  <2>1. SentTo(r) = 2 * k + 1 /\ SentTo(r)' = 2 * k + 2
    BY <1>1, <1>3, <1>4, <1>12 DEF SentTo, Exchanged
  <2>2. TakenFrom(r, q)' = TakenFrom(r, q)
    BY <1>3, <1>12 DEF TakenFrom
  <2>3. 2 * k + 1 \in Planned(r, q) <=> mine # <<>>
    BY <1>2, <1>4, PlannedTags DEF Second
  <2>4. \A m : m.words = InputsFor(r, q, k) => Fits(r, q, 2 * k + 1, m)'
    <3>1. /\ 2 * k + 1 # 0 /\ 2 * k + 1 # 1
          /\ \A j \in 1 .. Len(program) : (2 * k + 1 = 2 * j + 1 => j = k) /\ 2 * k + 1 # 2 * j
      BY <1>4
    <3>2. InputsFor(r, q, k)' = InputsFor(r, q, k)
      BY <1>3, <1>16, PlanSame
    <3> QED
      BY <1>3, <3>1, <3>2 DEF Fits
  <2>5. mine # <<>> => \E m \in Message : /\ chan'[r][q] = Append(chan[r][q], m)
                                          /\ Fits(r, q, 2 * k + 1, m)'
    BY <1>8, <1>9, <1>11, <1>20, <2>4
  <2>6. 2 * k + 2 = (2 * k + 1) + 1
    BY <1>4
  <2>7. Emits(r, q)
    BY <1>11, <2>1, <2>3, <2>5, <2>6 DEF Emits
  <2>8. chan'[q][r] = chan[q][r]
    BY <1>11, <1>20
  <2> QED
    BY <2>2, <2>7, <2>8 DEF Absorbs
<1> QED
  BY <1>13, <1>16, <1>17, <1>18, <1>19, <1>20, AsideKept


-----------------------------------------------------------------------------
(* INPUTB: what a party is dealt.                                          *)
Collected(r, from, k, re) ==
    /\ re \in [Party -> Seq(Vec)]
    /\ received' = [received EXCEPT ![r] = re]
    /\ \A q \in Party : q # from => re[q] = received[r][q]
    /\ Mine(from, k) # <<>> => re[from] = InputsFor(from, r, k)

Passed(r, from, k) ==
    /\ chan' \in Connections
    /\ IF Mine(from, k) # <<>>
       THEN chan[from][r] # <<>> /\ chan'[from][r] = Tail(chan[from][r])
       ELSE chan'[from][r] = chan[from][r]
    /\ \A x, y \in Party : x # from \/ y # r => chan'[x][y] = chan[x][y]

LEMMA InputReceiveEffect ==
    ASSUME MachineInv, NEW r \in Party, NEW from \in Party, from # r,
           NEW at \in {"input_next", "input_prev"}, NEW next, InputReceive(r, from, at, next),
           NEW k, k = ip[r], TakenFrom(r, from) = 2 * k + 1
    PROVE  Passed(r, from, k) /\ \E re : Collected(r, from, k, re)
<1>1. /\ pc[r] = at /\ program[k].op = "inputb"
      /\ k \in 1 .. Len(program) /\ Len(program) \in Nat /\ k \in Nat
  BY InputHere DEF InputReceive, Inputting
<1>2. /\ TypeOK /\ Link(from, r) /\ chan \in Connections
      /\ received \in [Party -> [Party -> Seq(Vec)]]
  BY HereFacts DEF MachineInv, MachineTypeOK, Traffic
<1>3. Expects(r, from) <=> Mine(from, k) # <<>>
  BY DEF Expects, Mine, Instruction
<1>4. CASE Mine(from, k) # <<>>
  <2>1. /\ chan[from][r] # <<>> /\ chan' = Take(chan, from, r)
        /\ received' = [received EXCEPT ![r][from] = Head(chan[from][r]).words]
    BY <1>3, <1>4 DEF InputReceive, Take
  <2>2. 2 * k + 1 \in Planned(from, r)
    BY <1>1, <1>4, PlannedTags DEF Second
  <2>3. /\ Head(chan[from][r]) \in Message
        /\ Fits(from, r, 2 * k + 1, Head(chan[from][r]))
    BY <1>2, <2>1, <2>2, LinkHead
  <2>4. PICK ws \in Seq(Vec) : ws = Head(chan[from][r]).words /\ ws = InputsFor(from, r, k)
    <3>1. Head(chan[from][r]).words = InputsFor(from, r, k)
      BY <1>1, <2>3 DEF Fits
    <3>2. \A m \in Message : m.words \in Seq(Vec)
      BY EmptySeq DEF Message
    <3> QED
      BY <2>3, <3>1, <3>2
  <2>5. PICK old : old = received[r]
    OBVIOUS
  <2>6. PICK re : re = [old EXCEPT ![from] = ws]
    OBVIOUS
  <2>7. old \in [Party -> Seq(Vec)] /\ received' = [received EXCEPT ![r] = re]
    BY <1>2, <2>1, <2>4, <2>5, <2>6
  <2>8. Collected(r, from, k, re)
    BY <2>4, <2>5, <2>6, <2>7 DEF Collected
  <2>9. /\ chan' \in Connections /\ chan'[from][r] = Tail(chan[from][r])
        /\ Elsewhere(chan', chan, from, r)
    BY <1>2, <2>1, ChanTake
  <2>10. Passed(r, from, k)
    BY <1>4, <2>1, <2>9 DEF Passed, Elsewhere
  <2> QED
    BY <2>8, <2>10
<1>5. CASE Mine(from, k) = <<>>
  <2>1. received' = received /\ chan' = chan
    BY <1>3, <1>5 DEF InputReceive
  <2>2. PICK re : re = received[r]
    OBVIOUS
  <2>3. Collected(r, from, k, re)
    BY <1>2, <1>5, <2>1, <2>2 DEF Collected
  <2>4. Passed(r, from, k)
    BY <1>2, <1>5, <2>1 DEF Passed
  <2> QED
    BY <2>3, <2>4
<1> QED
  BY <1>4, <1>5

LEMMA InputReceiveKept ==
    ASSUME MachineInv, NEW r \in Party, NEW from \in Party, from # r,
           NEW at \in {"input_next", "input_prev"}, NEW next \in {"input_prev", "input_store"},
           InputReceive(r, from, at, next), NEW k, k = ip[r],
           \A q \in Party : q # r =>
              IF q = from
              THEN TakenFrom(r, q) = 2 * k + 1 /\ TakenFrom(r, q)' = 2 * k + 2
              ELSE TakenFrom(r, q)' = TakenFrom(r, q),
           Reading(r)'
    PROVE  MachineInv'
<1>1. /\ pc[r] = at /\ pc' = [pc EXCEPT ![r] = next]
      /\ UNCHANGED <<program, tape, ip, gate, prng, S, os, kept, log, marks,
                     input, C, read, drawn, dealt, prep, clog>>
  BY DEF InputReceive
<1>2. /\ At(r, "inputb") /\ program[k].op = "inputb" /\ prep[r].at = "ready"
      /\ k \in 1 .. Len(program) /\ Len(program) \in Nat /\ k \in Nat
      /\ pc[r] \in Between
  BY <1>1, InputHere DEF Inputting
<1>3. /\ MachineTypeOK /\ pc \in [Party -> Location] /\ prep \in [Party -> PrepStates]
  BY HereFacts DEF MachineInv
<1>4. TakenFrom(r, from) = 2 * k + 1
  OBVIOUS
<1>5. Passed(r, from, k) /\ \E re : Collected(r, from, k, re)
  BY <1>4, InputReceiveEffect
<1>6. PICK re : Collected(r, from, k, re)
  BY <1>5
<1>7. pc'[r] = next /\ prep' = prep /\ ip' = ip
  BY <1>1, <1>3
<1>8. Aside(r) /\ Afar(r)
  BY <1>1, <1>2, <1>3, <1>5, <1>7 DEF Aside, Between, Inputting, Afar, Passed
<1>9. PICK rd, dr, de, store :
          /\ rd = read[r] /\ dr = drawn[r] /\ de = dealt[r] /\ store = prep[r]
  OBVIOUS
<1>10. Lists(r, rd, dr, de, re, store)
  BY <1>1, <1>3, <1>6, <1>9 DEF MachineTypeOK, Lists, Collected
<1>11. Apart(r) /\ MachineTypeOK' /\ ClearLogged(r)' /\ tape' = tape
  BY <1>8, <1>10, AsideFrame
<1>12. Whereabouts(r)'
  BY <1>1, <1>2, <1>7 DEF Whereabouts, Inputting, Seeding, At, Running
<1>13. Stocked(r)'
  BY <1>7, <1>11, MachineBacked, StockedSame
<1>14. ASSUME NEW q \in Party, q # r
       PROVE  Emits(r, q) /\ Absorbs(r, q)
  <2>1. SentTo(r)' = SentTo(r)
    BY <1>1, <1>2, <1>7 DEF SentTo, Exchanged
  <2>2. chan'[r][q] = chan[r][q] /\ (q # from => chan'[q][r] = chan[q][r])
    BY <1>5, <1>14 DEF Passed
  <2>3. CASE q = from
    <3>1. 2 * k + 1 \in Planned(from, r) <=> Mine(from, k) # <<>>
      BY <1>2, PlannedTags DEF Second
    <3>2. 2 * k + 2 = (2 * k + 1) + 1
      BY <1>2
    <3> QED
      BY <1>5, <2>1, <2>2, <2>3, <3>1, <3>2 DEF Emits, Absorbs, Passed
  <2>4. CASE q # from
    BY <1>14, <2>1, <2>2, <2>4 DEF Emits, Absorbs
  <2> QED
    BY <2>3, <2>4
<1> QED
  BY <1>8, <1>11, <1>12, <1>13, <1>14, AsideKept


-----------------------------------------------------------------------------
(* INPUTB: from the next party, then from the previous one.                *)
LEMMA ReceivedHere ==
    ASSUME MachineInv, NEW r \in Party, NEW from \in Party, from # r,
           NEW at \in {"input_next", "input_prev"}, NEW next \in {"input_prev", "input_store"},
           InputReceive(r, from, at, next), NEW k, k = ip[r],
           TakenFrom(r, from) = 2 * k + 1
    PROVE  /\ pc'[r] = next /\ ip'[r] = k
           /\ read'[r] = ReadsOf(r)'[k] /\ drawn'[r] = 2 * read'[r]
           /\ dealt'[r] = [i \in 1 .. Len(Mine(r, k)') |-> DealingsFor(r, k)'[i][r]]
           /\ \A q \in Party : /\ Mine(q, k)' = Mine(q, k)
                               /\ InputsFor(q, r, k)' = InputsFor(q, r, k)
           /\ \A q \in Party : q # from => received'[r][q] = received[r][q]
           /\ Mine(from, k) # <<>> => received'[r][from] = InputsFor(from, r, k)
<1>1. /\ pc[r] = at /\ pc' = [pc EXCEPT ![r] = next]
      /\ UNCHANGED <<program, tape, ip, gate, prng, S, os, kept, log, marks,
                     input, C, read, drawn, dealt, prep, clog>>
  BY DEF InputReceive
<1>2. pc \in [Party -> Location] /\ received \in [Party -> [Party -> Seq(Vec)]]
  BY HereFacts DEF MachineInv, MachineTypeOK
<1>3. PICK re : Collected(r, from, k, re)
  BY InputReceiveEffect
<1>4. received'[r] = re
  BY <1>2, <1>3 DEF Collected
<1>5. /\ \A q \in Party : /\ Mine(q, k)' = Mine(q, k)
                          /\ InputsFor(q, r, k)' = InputsFor(q, r, k)
                          /\ DealingsFor(q, k)' = DealingsFor(q, k)
                          /\ ReadsOf(q)' = ReadsOf(q)
  BY <1>1, PlanSame
<1>6. pc[r] \in Exchanged
  BY <1>1 DEF Exchanged
<1>7. /\ read[r] = ReadsOf(r)[k] /\ drawn[r] = 2 * read[r]
      /\ dealt[r] = [i \in 1 .. Len(Mine(r, k)) |-> DealingsFor(r, k)[i][r]]
  BY <1>6, MachineBacked DEF Reading
<1>8. pc'[r] = next /\ ip'[r] = k
  BY <1>1, <1>2
<1>9. read'[r] = ReadsOf(r)'[k] /\ drawn'[r] = 2 * read'[r]
  BY <1>1, <1>5, <1>7
<1>10. dealt'[r] = [i \in 1 .. Len(Mine(r, k)') |-> DealingsFor(r, k)'[i][r]]
  BY <1>1, <1>5, <1>7
<1> QED
  BY <1>3, <1>4, <1>5, <1>8, <1>9, <1>10 DEF Collected

LEMMA InputReceiveNextKept ==
    ASSUME MachineInv, NEW r \in Party, InputReceiveNext(r)
    PROVE  MachineInv'
<1>1. PICK k : k = ip[r]
  OBVIOUS
<1>2. PICK a \in Party : a = After(r) /\ a # r /\ Before(r) # a /\ Before(r) # r
  BY Neighbours
<1>3. InputReceive(r, a, "input_next", "input_prev") /\ pc[r] = "input_next"
  BY <1>2 DEF InputReceiveNext, InputReceive
<1>4. TakenFrom(r, a) = 2 * k + 1
  BY <1>1, <1>3 DEF TakenFrom
<1>5. /\ pc'[r] = "input_prev" /\ ip'[r] = k
      /\ read'[r] = ReadsOf(r)'[k] /\ drawn'[r] = 2 * read'[r]
      /\ dealt'[r] = [i \in 1 .. Len(Mine(r, k)') |-> DealingsFor(r, k)'[i][r]]
      /\ Mine(a, k)' = Mine(a, k) /\ InputsFor(a, r, k)' = InputsFor(a, r, k)
      /\ Mine(a, k) # <<>> => received'[r][a] = InputsFor(a, r, k)
  BY <1>1, <1>2, <1>3, <1>4, ReceivedHere
<1>6. Reading(r)'
  BY <1>2, <1>5 DEF Reading, Exchanged
<1>7. \A q \in Party : q # r =>
        IF q = a
        THEN TakenFrom(r, q) = 2 * k + 1 /\ TakenFrom(r, q)' = 2 * k + 2
        ELSE TakenFrom(r, q)' = TakenFrom(r, q)
  BY <1>1, <1>2, <1>3, <1>5 DEF TakenFrom
<1> QED
  BY <1>1, <1>2, <1>3, <1>6, <1>7, InputReceiveKept

LEMMA InputReceivePrevKept ==
    ASSUME MachineInv, NEW r \in Party, InputReceivePrev(r)
    PROVE  MachineInv'
<1>1. PICK k : k = ip[r]
  OBVIOUS
<1>2. PICK a \in Party, b \in Party :
        /\ a = After(r) /\ b = Before(r) /\ a # r /\ b # r /\ a # b
        /\ \A q \in Party : q = r \/ q = a \/ q = b
  BY Neighbours
<1>3. InputReceive(r, b, "input_prev", "input_store") /\ pc[r] = "input_prev"
  BY <1>2 DEF InputReceivePrev, InputReceive
<1>4. TakenFrom(r, b) = 2 * k + 1
  BY <1>1, <1>2, <1>3 DEF TakenFrom
<1>5. /\ pc'[r] = "input_store" /\ ip'[r] = k
      /\ read'[r] = ReadsOf(r)'[k] /\ drawn'[r] = 2 * read'[r]
      /\ dealt'[r] = [i \in 1 .. Len(Mine(r, k)') |-> DealingsFor(r, k)'[i][r]]
      /\ Mine(a, k)' = Mine(a, k) /\ InputsFor(a, r, k)' = InputsFor(a, r, k)
      /\ Mine(b, k)' = Mine(b, k) /\ InputsFor(b, r, k)' = InputsFor(b, r, k)
      /\ received'[r][a] = received[r][a]
      /\ Mine(b, k) # <<>> => received'[r][b] = InputsFor(b, r, k)
  BY <1>1, <1>2, <1>3, <1>4, ReceivedHere
<1>6. Mine(a, k) # <<>> => received[r][a] = InputsFor(a, r, k)
  BY <1>1, <1>2, <1>3, MachineBacked DEF Reading
<1>7. Reading(r)'
  BY <1>2, <1>5, <1>6 DEF Reading, Exchanged
<1>8. \A q \in Party : q # r =>
        IF q = b
        THEN TakenFrom(r, q) = 2 * k + 1 /\ TakenFrom(r, q)' = 2 * k + 2
        ELSE TakenFrom(r, q)' = TakenFrom(r, q)
  <2>1. k \in Nat
    BY <1>1, HereFacts
  <2> QED
    BY <1>1, <1>2, <1>3, <1>5, <2>1 DEF TakenFrom
<1> QED
  BY <1>1, <1>2, <1>3, <1>7, <1>8, InputReceiveKept

-----------------------------------------------------------------------------
(* INPUTB: what a party has collected are shares.                          *)
LEMMA InputShareType ==
    ASSUME MachineInv, NEW r \in Party, pc[r] = "input_store",
           NEW k \in 1 .. Len(program), k = ip[r], program[k].op = "inputb",
           NEW i \in 1 .. Len(program[k].items)
    PROVE  InputShare(r, i) \in Share
<1>1. PICK items, from, nth : /\ items = program[k].items /\ from = items[i].from
                              /\ nth = Nth(items, i)
  OBVIOUS
<1>2. items \in Seq(Dealing) /\ i \in 1 .. Len(items) /\ items = Instruction(r).items
  BY <1>1, MineCount DEF Instruction
<1>3. from \in Party /\ i \in From(items, from)
  <2>1. items[i] \in Dealing /\ DOMAIN items = 1 .. Len(items)
    BY <1>2, ElementOfSeq, LenProperties
  <2> QED
    BY <1>1, <1>2, <2>1 DEF Dealing, From
<1>4. PICK n \in Nat : n = Len(Mine(from, k)) /\ nth \in 1 .. n
  <2>1. /\ Len(Mine(from, k)) = Cardinality(From(items, from))
        /\ Len(Mine(from, k)) \in Nat
    BY <1>1, MineCount
  <2>2. nth \in 1 .. Cardinality(From(items, from))
    BY <1>1, <1>2, <1>3, ItemNumbers
  <2> QED
    BY <2>1, <2>2
<1>5. Mine(from, k) # <<>>
  <2>1. Mine(from, k) = <<>> <=> n = 0
    BY <1>4, MineCount
  <2> QED
    BY <1>4, <2>1
<1>6. /\ dealt \in [Party -> Seq(Share)] /\ received \in [Party -> [Party -> Seq(Vec)]]
  BY DEF MachineInv, MachineTypeOK
<1>7. CASE from = r
  <2>1. dealt[r] = [j \in 1 .. n |-> DealingsFor(r, k)[j][r]]
    BY <1>4, <1>7, MachineBacked DEF Reading, Exchanged
  <2>2. dealt[r] \in Seq(Share)
    BY <1>6
  <2>3. DOMAIN dealt[r] = 1 .. n
    BY <2>1
  <2>4. dealt[r][nth] \in Share
    BY <1>4, <2>2, <2>3, ElementOfSeq, LenProperties
  <2> QED
    BY <1>1, <1>2, <1>7, <2>4, MaskShareType DEF InputShare
<1>8. CASE from # r
  <2>1. received[r][from] = InputsFor(from, r, k)
    <3>1. from = After(r) \/ from = Before(r)
      BY <1>3, <1>8, Neighbours
    <3> QED
      BY <1>5, <3>1, MachineBacked DEF Reading
  <2>2. received[r][from] \in Seq(Vec)
    BY <1>3, <1>6
  <2>3. DOMAIN received[r][from] = 1 .. 2 * n
    BY <1>4, <2>1 DEF InputsFor, PackedFor
  <2>4. 2 * nth - 1 \in 1 .. 2 * n /\ 2 * nth \in 1 .. 2 * n
    BY <1>4
  <2>5. PICK ws \in Seq(Vec) : ws = received[r][from]
    BY <2>2
  <2>6. ws[2 * nth - 1] \in Vec /\ ws[2 * nth] \in Vec
    <3>1. DOMAIN ws = 1 .. Len(ws)
      BY LenProperties
    <3>2. 2 * nth - 1 \in 1 .. Len(ws) /\ 2 * nth \in 1 .. Len(ws)
      BY <2>3, <2>4, <2>5, <3>1
    <3> QED
      BY <3>2, ElementOfSeq
  <2>7. Sh(ws[2 * nth - 1], ws[2 * nth]) \in Share
    BY <2>6 DEF Sh, Share
  <2> QED
    BY <1>1, <1>2, <1>8, <2>5, <2>7, MaskShareType DEF InputShare
<1> QED
  BY <1>7, <1>8

LEMMA InputType ==
    ASSUME NEW regs \in Registers, NEW p, NEW items \in Seq(Dealing),
           \A i \in 1 .. Len(items) : InputShare(p, i) \in Share
    PROVE  InputOf(regs, p, items) \in Registers
<1>1. PICK f : InputRounds(f, regs, p, items) /\ InputOf(regs, p, items) = f[Len(items)]
  BY InputLoop
<1>2. Len(items) \in 0 .. Len(items)
  <2>1. Len(items) \in Nat
    BY LenProperties
  <2> QED
    BY <2>1
<1> QED
  BY <1>1, <1>2 DEF InputRounds

LEMMA InputStoreKept ==
    ASSUME MachineInv, NEW r \in Party, InputStore(r)
    PROVE  MachineInv'
<1>1. PICK k : k = ip[r]
  OBVIOUS
<1>2. /\ pc[r] = "input_store"
      /\ UNCHANGED <<chan, input, C, read, drawn, dealt, received, prep>> /\ Advance(r)
  BY DEF InputStore
<1>3. /\ At(r, "inputb") /\ Running(r) /\ program[k].op = "inputb"
      /\ k \in 1 .. Len(program) /\ Len(program) \in Nat /\ k \in Nat
      /\ prep[r].at = "ready" /\ pc[r] \in Between
  BY <1>1, <1>2, InputHere DEF Inputting
<1>4. /\ program \in Programs /\ chan \in Connections /\ C \in [Party -> ClearRegs]
      /\ S \in [Party -> Registers] /\ prep \in [Party -> PrepStates]
  BY HereFacts
<1>5. PICK items, regs : items = program[k].items /\ regs = InputOf(S[r], r, items)
  OBVIOUS
<1>6. regs \in Registers
  <2>1. items \in Seq(Dealing)
    BY <1>3, <1>5, MineCount
  <2>2. \A i \in 1 .. Len(items) : InputShare(r, i) \in Share
    BY <1>1, <1>2, <1>3, <1>5, InputShareType
  <2> QED
    BY <1>4, <1>5, <2>1, <2>2, InputType
<1>7. S' = [S EXCEPT ![r] = regs]
  <2>1. S' = [S EXCEPT ![r] = InputOf(S[r], r, Instruction(r).items)]
    BY DEF InputStore, InputOf
  <2>2. items = Instruction(r).items
    BY <1>1, <1>5 DEF Instruction
  <2> QED
    BY <1>5, <2>1, <2>2
<1>8. PICK clears \in ClearRegs, store \in PrepStates : clears = C[r] /\ store = prep[r]
  BY <1>4
<1>9. C' = [C EXCEPT ![r] = clears] /\ prep' = [prep EXCEPT ![r] = store]
  BY <1>2, <1>4, <1>8
<1>10. /\ Ahead(r) /\ Apart(r) /\ MachineTypeOK' /\ ClearLogged(r)'
       /\ pc'[r] = "idle" /\ ip'[r] = ip[r] + 1 /\ prep'[r] = store
       /\ program' = program /\ tape' = tape
  <2>1. program[ip[r]].op # "ands"
    BY <1>1, <1>3
  <2>2. chan' \in Connections /\ \A p, q \in Party : p # r /\ q # r /\ p # q => chan'[p][q] = chan[p][q]
    BY <1>2, <1>4
  <2> QED
    BY <1>2, <1>3, <1>6, <1>7, <1>9, <2>1, <2>2, AdvanceAhead
<1>11. Whereabouts(r)'
  BY <1>3, <1>8, <1>10 DEF Whereabouts, Inputting, Seeding
<1>12. Reading(r)'
  <2>1. ReadsOf(r)' = ReadsOf(r)
    BY <1>2, <1>10, PlanSame
  <2>2. read[r] = ReadsOf(r)[k] /\ drawn[r] = 2 * read[r]
    BY <1>1, <1>2, MachineBacked DEF Reading, Exchanged
  <2>3. /\ pc'[r] \notin Exchanged /\ pc'[r] \notin {"input_prev", "input_store"}
        /\ ip'[r] - 1 = k
    BY <1>1, <1>3, <1>10 DEF Exchanged
  <2> QED
    BY <1>2, <2>1, <2>2, <2>3 DEF Reading
<1>13. Stocked(r)'
  BY <1>8, <1>10, MachineBacked, StockedSame
<1>14. ASSUME NEW q \in Party, q # r
       PROVE  Emits(r, q) /\ Absorbs(r, q)
  <2>1. SentTo(r) = 2 * k + 2 /\ TakenFrom(r, q) = 2 * k + 2
    BY <1>1, <1>2, <1>3 DEF SentTo, TakenFrom, Exchanged
  <2>2. SentTo(r)' = 2 * k + 2 /\ TakenFrom(r, q)' = 2 * k + 2
    <3>1. 2 * (k + 1) = 2 * k + 2
      BY <1>3
    <3> QED
      BY <1>1, <1>3, <1>8, <1>10, <3>1 DEF SentTo, TakenFrom
  <2> QED
    BY <1>2, <2>1, <2>2 DEF Emits, Absorbs
<1> QED
  BY <1>10, <1>11, <1>12, <1>13, <1>14, AheadKept

-----------------------------------------------------------------------------
(* ANDS: the batches of MultiReplicated.                                   *)
LEMMA StepElsewhere ==
    ASSUME TypeOK, NEW r \in Party, Step(r)
    PROVE  \A p \in Party : p # r =>
              /\ prng'[p] = prng[p]
              /\ \A q \in Party : q # p /\ q # r => chan'[p][q] = chan[p][q]
<1>1. ASSUME NEW p \in Party, p # r, NEW q \in Party, q # p, q # r
      PROVE  prng'[p] = prng[p] /\ chan'[p][q] = chan[p][q]
  <2>1. chan \in [Party -> [Party -> Seq(Message)]]
    BY DEF TypeOK
  <2>2. CASE Reseed(r)
    BY <1>1, <2>1, <2>2, Neighbours DEF Reseed, TypeOK
  <2>3. ASSUME NEW from \in Party, NEW slot, NEW at, NEW next, ReceiveSeed(r, from, slot, at, next)
        PROVE  prng'[p] = prng[p] /\ chan'[p][q] = chan[p][q]
    BY <1>1, <2>1, <2>3 DEF ReceiveSeed, TypeOK
  <2>4. CASE InitMul(r)
    BY <2>4 DEF InitMul
  <2>5. CASE PrepareMul(r)
    BY <1>1, <2>5 DEF PrepareMul, TypeOK
  <2>6. CASE Send(r)
    <3>1. chan'[p][q] = chan[p][q]
      BY <1>1, <2>6, SendEffect
    <3> QED
      BY <2>6, <3>1 DEF Send
  <2>7. ASSUME NEW from \in Party, NEW i, NEW at, NEW next, Receive(r, from, i, at, next)
        PROVE  prng'[p] = prng[p] /\ chan'[p][q] = chan[p][q]
    BY <1>1, <2>1, <2>7 DEF Receive
  <2>8. CASE FinalizeMul(r)
    BY <2>8 DEF FinalizeMul
  <2> QED
    BY <2>2, <2>3, <2>4, <2>5, <2>6, <2>7, <2>8, StepForms, Neighbours
<1>2. \A p \in Party : p # r => \E q \in Party : q # p /\ q # r
  BY DEF Party
<1> QED
  BY <1>1, <1>2

LEMMA StepProgress ==
    ASSUME TypeOK, NEW r \in Party, Step(r)
    PROVE  ip'[r] = ip[r] \/ ip'[r] = ip[r] + 1
<1>1. FinalizeMul(r) \/ ip' = ip
  BY StepHistory
<1>2. CASE FinalizeMul(r)
  BY <1>2 DEF FinalizeMul, TypeOK
<1> QED
  BY <1>1, <1>2

(* What such a step leaves of the rest of the machine.                     *)
LEMMA AndsFrame ==
    ASSUME MachineInv, NEW r \in Party, Ands(r)
    PROVE  /\ Apart(r) /\ MachineTypeOK' /\ Control' /\ ClearLogged(r)' /\ Stocked(r)'
           /\ \A p \in Party : Moved(p) /\ Grown(p) /\ Own(p)'
           /\ read' = read /\ drawn' = drawn /\ prep' = prep /\ C' = C
           /\ input' = input /\ program' = program /\ tape' = tape
<1>1. /\ Step(r) /\ UNCHANGED <<input, C, read, drawn, dealt, received, prep>>
      /\ clog' = [clog EXCEPT ![r] = IF ip'[r] = ip[r] THEN @ ELSE Append(@, C[r])]
  BY DEF Ands
<1>2. /\ TypeOK /\ Control /\ MachineTypeOK /\ Backed
      /\ \A p \in Party : Own(p) /\ Marking(p) /\ OnTrack(p)
      /\ Stocked(r) /\ ClearLogged(r)
  BY MachineBacked DEF MachineInv
<1>3. TypeOK' /\ Control'
  BY <1>1, <1>2, TypeStep
<1>4. \A p \in Party : Moved(p) /\ Grown(p)
  BY <1>1, <1>2, <1>3, TrackStep, StepGrown
<1>5. \A p \in Party : Own(p)'
  BY <1>1, <1>2, <1>3, <1>4, OwnStep
<1>6. program' = program /\ tape' = tape
  BY <1>1, StepHistory
<1>7. PICK regs \in ClearRegs : regs = C[r]
  BY HereFacts
<1>8. /\ clog \in [Party -> Seq(ClearRegs)] /\ clog[r] \in Seq(ClearRegs)
  BY HereFacts
<1>9. /\ clog' \in [Party -> Seq(ClearRegs)] /\ ClearLogged(r)'
      /\ \A p \in Party : p # r => clog'[p] = clog[p]
  <2>1. CASE ip'[r] = ip[r]
    <3>1. clog' = clog
      BY <1>1, <1>8, <2>1
    <3> QED
      BY <1>1, <1>2, <1>8, <2>1, <3>1 DEF ClearLogged
  <2>2. CASE ip'[r] # ip[r]
    <3>1. ip'[r] = ip[r] + 1
      BY <1>1, <1>2, <2>2, StepProgress
    <3>2. /\ Append(clog[r], regs) \in Seq(ClearRegs)
          /\ Len(Append(clog[r], regs)) = Len(clog[r]) + 1
          /\ Append(clog[r], regs)[Len(clog[r]) + 1] = regs
      BY <1>8, AppendProperties
    <3>3. clog' = [clog EXCEPT ![r] = Append(clog[r], regs)]
      BY <1>1, <1>7, <2>2
    <3>4. /\ clog' \in [Party -> Seq(ClearRegs)] /\ clog'[r] = Append(clog[r], regs)
          /\ \A p \in Party : p # r => clog'[p] = clog[p]
      BY <1>8, <3>2, <3>3
    <3> QED
      BY <1>1, <1>2, <1>7, <3>1, <3>2, <3>4 DEF ClearLogged
  <2> QED
    BY <2>1, <2>2
<1>10. MachineTypeOK'
  BY <1>1, <1>2, <1>3, <1>9 DEF MachineTypeOK, ClearRegs
<1>11. Stocked(r)'
  BY <1>1, <1>2, <1>6, StockedSame
<1>12. Apart(r)
  <2>1. ASSUME NEW p \in Party, p # r
        PROVE  Still(p) /\ \A q \in Party : q # p /\ q # r => chan'[p][q] = chan[p][q]
    <3>1. Alone(p)
      BY <1>1, <1>2, <2>1, OthersAlone
    <3>2. /\ prng'[p] = prng[p]
          /\ \A q \in Party : q # p /\ q # r => chan'[p][q] = chan[p][q]
      BY <1>1, <1>2, <2>1, StepElsewhere
    <3> QED
      BY <1>1, <1>9, <2>1, <3>1, <3>2 DEF Still, Alone
  <2> QED
    BY <1>1, <1>6, <2>1 DEF Apart
<1> QED
  BY <1>1, <1>3, <1>4, <1>5, <1>6, <1>9, <1>10, <1>11, <1>12

(* It remains to say what the step does to the connections.                *)
Onward(r) ==
    /\ pc[r] \notin Exchanged /\ pc'[r] \notin Exchanged
    /\ \/ ip'[r] = ip[r]
       \/ ip'[r] = ip[r] + 1 /\ pc'[r] = "idle" /\ pc[r] = "finalize"

LEMMA AndsKept ==
    ASSUME MachineInv, NEW r \in Party, Ands(r), SeedsHeld(r)', Whereabouts(r)',
           Onward(r), \A q \in Party : q # r => Emits(r, q) /\ Absorbs(r, q)
    PROVE  MachineInv'
<1>1. /\ Apart(r) /\ MachineTypeOK' /\ Control' /\ ClearLogged(r)' /\ Stocked(r)'
      /\ \A p \in Party : Moved(p) /\ Grown(p) /\ Own(p)'
      /\ read' = read /\ drawn' = drawn
      /\ input' = input /\ program' = program /\ tape' = tape
  BY AndsFrame
<1>2. /\ pc[r] \notin Exchanged /\ pc'[r] \notin Exchanged
      /\ \/ ip'[r] = ip[r]
         \/ ip'[r] = ip[r] + 1 /\ pc'[r] = "idle" /\ pc[r] = "finalize"
  BY DEF Onward
<1>3. Reading(r)'
  <2>1. CASE ip'[r] = ip[r]
    <3>1. Reading(r)
      BY MachineBacked
    <3> QED
      BY <1>1, <1>2, <2>1, <3>1, ReadingAside
  <2>2. CASE ip'[r] = ip[r] + 1 /\ pc'[r] = "idle" /\ pc[r] = "finalize"
    <3>1. ip[r] \in 1 .. Len(program) /\ program[ip[r]].op # "inputb"
      <4>1. Control
        BY DEF MachineInv
      <4>2. ip[r] <= Len(program) /\ program[ip[r]].op = "ands"
        BY <2>2, <4>1 DEF Control, InBatch, Batch
      <4>3. ip[r] \in Nat \ {0} /\ Len(program) \in Nat
        BY HereFacts
      <4> QED
        BY <4>2, <4>3
    <3> QED
      BY <1>1, <1>2, <2>2, <3>1, ReadingAhead
  <2> QED
    BY <1>2, <2>1, <2>2
<1> QED
  BY <1>1, <1>3, MachineKept

-----------------------------------------------------------------------------
(* The seeds of the constructor.                                           *)
LEMMA ReseedKept ==
    ASSUME MachineInv, NEW r \in Party, Ands(r), Reseed(r)
    PROVE  MachineInv'
<1>1. PICK a \in Party, b \in Party :
        /\ a = After(r) /\ b = Before(r) /\ a # r /\ b # r /\ a # b
        /\ \A q \in Party : q = r \/ q = a \/ q = b
  BY Neighbours
<1>2. PICK ma, mb : ma = SeedMessage(<<r, 1>>) /\ mb = SeedMessage(<<r, 0>>)
  OBVIOUS
<1>3. ma \in Message /\ mb \in Message
  BY <1>2, SeedNames, SeedMessageType
<1>4. /\ pc[r] = "reseed" /\ pc' = [pc EXCEPT ![r] = "seed_next"] /\ ip' = ip
      /\ prng' = [prng EXCEPT ![r][0] = Seeded(<<r, 0>>), ![r][1] = Seeded(<<r, 1>>)]
      /\ chan' = PutTwo(chan, r, b, a, mb, ma)
  BY <1>1, <1>2 DEF Reseed, PutTwo
<1>5. /\ TypeOK /\ pc \in [Party -> Location] /\ chan \in Connections /\ Whereabouts(r)
      /\ Len(program) \in Nat
  BY HereFacts, MachineBacked
<1>6. /\ prep' = prep /\ program' = program
  BY AndsFrame
<1>7. pc'[r] = "seed_next" /\ prep[r].at = "none"
  BY <1>4, <1>5 DEF Whereabouts, Seeding
<1>8. /\ chan'[r][a] = Append(chan[r][a], ma) /\ chan'[r][b] = Append(chan[r][b], mb)
      /\ \A x, y \in Party : x # r => chan'[x][y] = chan[x][y]
  <2>1. BothPut(chan', chan, r, b, a, mb, ma)
    BY <1>1, <1>3, <1>4, <1>5, ChanPutTwo
  <2> QED
    BY <2>1 DEF BothPut
<1>9. SeedsHeld(r)'
  <2>1. prng'[r][0] = Seeded(<<r, 0>>) /\ prng'[r][1] = Seeded(<<r, 1>>)
    <3>1. PICK f : f = [prng[r] EXCEPT ![0] = Seeded(<<r, 0>>), ![1] = Seeded(<<r, 1>>)]
      OBVIOUS
    <3>2. prng' = [prng EXCEPT ![r] = f]
      BY <1>4, <1>5, <3>1 DEF TypeOK
    <3>3. f[0] = Seeded(<<r, 0>>) /\ f[1] = Seeded(<<r, 1>>)
      <4>1. DOMAIN prng[r] = 0 .. 3 /\ 0 \in 0 .. 3 /\ 1 \in 0 .. 3
        <5>1. prng \in [Party -> [0 .. 3 -> [seed : Seed \cup {Unseeded}, pos : Nat]]]
          BY <1>5 DEF TypeOK
        <5>2. prng[r] \in [0 .. 3 -> [seed : Seed \cup {Unseeded}, pos : Nat]]
          BY <5>1
        <5> QED
          BY <5>2
      <4>2. PICK u, v : u = Seeded(<<r, 0>>) /\ v = Seeded(<<r, 1>>)
        OBVIOUS
      <4> QED
        BY <3>1, <4>1, <4>2
    <3> QED
      BY <1>5, <3>2, <3>3 DEF TypeOK
  <2> QED
    BY <1>7, <2>1 DEF SeedsHeld, Seeded
<1>10. Whereabouts(r)'
  BY <1>4, <1>5, <1>6, <1>7 DEF Whereabouts, Inputting, Seeding
<1>11. ASSUME NEW q \in Party, q # r
       PROVE  Emits(r, q) /\ Absorbs(r, q)
  <2>1. SentTo(r) = 0 /\ SentTo(r)' = 1
    BY <1>4, <1>7 DEF SentTo
  <2>2. TakenFrom(r, q)' = TakenFrom(r, q)
    BY <1>4, <1>7 DEF TakenFrom
  <2>3. 0 \in Planned(r, q)
    BY <1>5, PlannedTags
  <2>4. \E m \in Message : chan'[r][q] = Append(chan[r][q], m) /\ m = SeedMessage(SeedFor(r, q))
    <3>1. CASE q = a
      BY <1>1, <1>2, <1>3, <1>8, <3>1 DEF SeedFor
    <3>2. CASE q = b
      BY <1>1, <1>2, <1>3, <1>8, <3>2 DEF SeedFor
    <3> QED
      BY <1>1, <1>11, <3>1, <3>2
  <2>5. \A m : m = SeedMessage(SeedFor(r, q)) => Fits(r, q, 0, m)'
    <3>1. \A j \in 1 .. Len(program) : 0 # 2 * j /\ 0 # 2 * j + 1
      OBVIOUS
    <3> QED
      BY <1>6, <3>1 DEF Fits
  <2>6. Emits(r, q)
    BY <2>1, <2>3, <2>4, <2>5 DEF Emits
  <2>7. chan'[q][r] = chan[q][r]
    BY <1>8, <1>11
  <2> QED
    BY <2>2, <2>6, <2>7 DEF Absorbs
<1>12. Onward(r)
  BY <1>4, <1>7 DEF Exchanged, Onward
<1> QED
  BY <1>9, <1>10, <1>11, <1>12, AndsKept

LEMMA ReceiveSeedKept ==
    ASSUME MachineInv, NEW r \in Party, Ands(r), NEW from, NEW slot, NEW at, NEW next,
           \/ from = After(r) /\ slot = 2 /\ at = "seed_next" /\ next = "seed_prev"
           \/ from = Before(r) /\ slot = 3 /\ at = "seed_prev" /\ next = "idle",
           ReceiveSeed(r, from, slot, at, next)
    PROVE  MachineInv'
<1>1. PICK a \in Party, b \in Party :
        /\ a = After(r) /\ b = Before(r) /\ a # r /\ b # r /\ a # b
        /\ After(b) = r /\ Before(a) = r /\ Before(b) # r
        /\ \A q \in Party : q = r \/ q = a \/ q = b
  BY Neighbours
<1>2. from \in Party /\ from # r
  BY <1>1
<1>3. /\ pc[r] = at /\ pc' = [pc EXCEPT ![r] = next] /\ ip' = ip /\ chan[from][r] # <<>>
      /\ prng' = [prng EXCEPT ![r][slot] = Seeded(Head(chan[from][r]).seed)]
      /\ chan' = Take(chan, from, r)
  BY DEF ReceiveSeed, Take
<1>4. /\ TypeOK /\ pc \in [Party -> Location] /\ chan \in Connections /\ Whereabouts(r)
      /\ Len(program) \in Nat /\ Link(from, r) /\ SeedsHeld(r)
  BY <1>2, HereFacts, MachineBacked DEF Traffic
<1>5. /\ prep' = prep /\ program' = program
  BY AndsFrame
<1>6. pc'[r] = next /\ prep[r].at = "none"
  BY <1>3, <1>4 DEF Whereabouts, Seeding
<1>7. TakenFrom(r, from) = 0 /\ TakenFrom(r, from)' = 1
  BY <1>1, <1>3, <1>5, <1>6 DEF TakenFrom
<1>8. 0 \in Planned(from, r)
  BY <1>4, PlannedTags
<1>9. Head(chan[from][r]).seed = SeedFor(from, r)
  <2>1. Fits(from, r, 0, Head(chan[from][r]))
    BY <1>2, <1>3, <1>4, <1>7, <1>8, LinkHead
  <2> QED
    BY <2>1 DEF Fits, SeedMessage
<1>10. /\ chan'[from][r] = Tail(chan[from][r])
       /\ \A x, y \in Party : x # from \/ y # r => chan'[x][y] = chan[x][y]
  <2>1. chan'[from][r] = Tail(chan[from][r]) /\ Elsewhere(chan', chan, from, r)
    BY <1>2, <1>3, <1>4, ChanTake
  <2> QED
    BY <2>1 DEF Elsewhere
<1>11. SeedsHeld(r)'
  <2>1. PICK s : s = SeedFor(from, r)
    OBVIOUS
  <2>2. prng' = [prng EXCEPT ![r][slot] = Seeded(s)]
    BY <1>3, <1>9, <2>1
  <2>3. /\ prng'[r][slot] = Seeded(s)
        /\ \A i \in 0 .. 3 : i # slot => prng'[r][i] = prng[r][i]
    BY <1>4, <2>2 DEF TypeOK
  <2>4. CASE slot = 2 /\ from = a /\ at = "seed_next" /\ next = "seed_prev"
    <3>1. s = <<a, 0>>
      BY <1>1, <2>1, <2>4 DEF SeedFor
    <3> QED
      BY <1>1, <1>3, <1>4, <1>6, <2>3, <2>4, <3>1 DEF SeedsHeld, Seeded
  <2>5. CASE slot = 3 /\ from = b /\ at = "seed_prev" /\ next = "idle"
    <3>1. s = <<b, 1>>
      BY <1>1, <2>1, <2>5, Neighbours DEF SeedFor
    <3> QED
      BY <1>1, <1>3, <1>4, <1>6, <2>3, <2>5, <3>1 DEF SeedsHeld, Seeded
  <2> QED
    BY <1>1, <2>4, <2>5
<1>12. Whereabouts(r)'
  BY <1>3, <1>4, <1>5, <1>6 DEF Whereabouts, Inputting, Seeding
<1>13. ASSUME NEW q \in Party, q # r
       PROVE  Emits(r, q) /\ Absorbs(r, q)
  <2>1. SentTo(r)' = SentTo(r)
    BY <1>3, <1>5, <1>6 DEF SentTo
  <2>2. chan'[r][q] = chan[r][q]
    BY <1>2, <1>10, <1>13
  <2>3. CASE q = from
    BY <1>3, <1>7, <1>8, <1>10, <2>1, <2>2, <2>3 DEF Emits, Absorbs
  <2>4. CASE q # from
    <3>1. TakenFrom(r, q)' = TakenFrom(r, q)
      BY <1>1, <1>3, <1>5, <1>6, <1>13, <2>4 DEF TakenFrom
    <3>2. chan'[q][r] = chan[q][r]
      BY <1>10, <1>13, <2>4
    <3> QED
      BY <2>1, <2>2, <3>1, <3>2 DEF Emits, Absorbs
  <2> QED
    BY <2>3, <2>4
<1>14. Onward(r)
  BY <1>3, <1>6 DEF Exchanged, Onward
<1> QED
  BY <1>11, <1>12, <1>13, <1>14, AndsKept

-----------------------------------------------------------------------------
(* The steps of a batch.                                                   *)
LEMMA BatchHere ==
    ASSUME MachineInv, NEW r \in Party, Ands(r), pc[r] \in Batch
    PROVE  /\ prep[r].at = "ready" /\ prep' = prep /\ program' = program
           /\ program[ip[r]].op = "ands" /\ ip[r] \in 1 .. Len(program) /\ ip[r] \in Nat
           /\ SeedsHeld(r) /\ Own(r) /\ Marking(r) /\ Grown(r)
           /\ \A q \in Party : /\ 2 * ip[r] \in Planned(r, q) <=> q # 2
                               /\ 2 * ip[r] \in Planned(q, r) <=> r # 2
                               /\ 2 * ip[r] + 1 \notin Planned(r, q)
                               /\ 2 * ip[r] + 1 \notin Planned(q, r)
<1>1. /\ Control /\ Whereabouts(r) /\ SeedsHeld(r) /\ Own(r) /\ Marking(r)
  BY MachineBacked
<1>2. prep[r].at = "ready"
  BY <1>1 DEF Whereabouts, Batch, Seeding
<1>3. ip[r] <= Len(program) /\ program[ip[r]].op = "ands"
  BY <1>1 DEF Control, InBatch
<1>4. ip[r] \in Nat \ {0} /\ Len(program) \in Nat
  BY HereFacts
<1>5. PICK k \in 1 .. Len(program) : k = ip[r]
  BY <1>3, <1>4
<1>6. \A p, q : /\ First(p, q, k) <=> q # 2
                /\ ~Second(p, k)
  BY <1>3, <1>5 DEF First, Second
<1>7. \A p, q \in Party : /\ 2 * k \in Planned(p, q) <=> q # 2
                          /\ 2 * k + 1 \notin Planned(p, q)
  BY <1>4, <1>6, PlannedTags
<1> QED
  BY <1>1, <1>2, <1>3, <1>4, <1>5, <1>7, AndsFrame

LEMMA SeedsSame ==
    ASSUME NEW r, SeedsHeld(r), pc[r] \notin Seeding, pc'[r] \notin Seeding,
           \A i \in 0 .. 3 : prng'[r][i].seed = prng[r][i].seed
    PROVE  SeedsHeld(r)'
BY DEF SeedsHeld, Seeding

LEMMA InitMulKept ==
    ASSUME MachineInv, NEW r \in Party, pc[r] = "idle" => prep[r].at = "ready",
           Ands(r), InitMul(r)
    PROVE  MachineInv'
<1>1. /\ pc[r] = "idle" /\ pc' = [pc EXCEPT ![r] = "prepare"] /\ prep[r].at = "ready"
      /\ ip' = ip /\ chan' = chan /\ prng' = prng
  BY DEF InitMul
<1>2. pc \in [Party -> Location] /\ SeedsHeld(r)
  BY HereFacts, MachineBacked
<1>3. pc'[r] = "prepare" /\ prep' = prep
  BY <1>1, <1>2, AndsFrame
<1>4. SeedsHeld(r)'
  BY <1>1, <1>2, <1>3, SeedsSame DEF Seeding
<1>5. Whereabouts(r)'
  BY <1>1, <1>3 DEF Whereabouts, Inputting, Seeding
<1>6. \A q \in Party : SentTo(r)' = SentTo(r) /\ TakenFrom(r, q)' = TakenFrom(r, q)
  BY <1>1, <1>3 DEF SentTo, TakenFrom
<1>7. \A q \in Party : Emits(r, q) /\ Absorbs(r, q)
  BY <1>1, <1>6 DEF Emits, Absorbs
<1>8. Onward(r)
  BY <1>1, <1>3 DEF Onward, Exchanged
<1> QED
  BY <1>4, <1>5, <1>7, <1>8, AndsKept

LEMMA PrepareMulKept ==
    ASSUME MachineInv, NEW r \in Party, Ands(r), PrepareMul(r)
    PROVE  MachineInv'
<1>1. /\ pc[r] = "prepare" /\ pc[r] \in Batch /\ ip' = ip /\ chan' = chan
      /\ prng' = [prng EXCEPT ![r] = Advanced(r)]
      /\ pc' = pc \/ pc' = [pc EXCEPT ![r] = "send"]
  BY DEF PrepareMul, Batch
<1>2. TypeOK /\ pc \in [Party -> Location] /\ SeedsHeld(r) /\ prep[r].at = "ready" /\ prep' = prep
  BY <1>1, HereFacts, BatchHere, MachineBacked
<1>3. pc'[r] \in {"prepare", "send"}
  BY <1>1, <1>2
<1>4. SeedsHeld(r)'
  <2>1. \A i \in 0 .. 3 : prng'[r][i].seed = prng[r][i].seed
    BY <1>1, <1>2 DEF TypeOK, Advanced
  <2> QED
    BY <1>1, <1>2, <1>3, <2>1, SeedsSame DEF Seeding
<1>5. Whereabouts(r)'
  BY <1>1, <1>2, <1>3 DEF Whereabouts, Inputting, Seeding
<1>6. \A q \in Party : SentTo(r)' = SentTo(r) /\ TakenFrom(r, q)' = TakenFrom(r, q)
  BY <1>1, <1>2, <1>3 DEF SentTo, TakenFrom
<1>7. \A q \in Party : Emits(r, q) /\ Absorbs(r, q)
  BY <1>1, <1>6 DEF Emits, Absorbs
<1>8. Onward(r)
  BY <1>1, <1>3 DEF Onward, Exchanged
<1> QED
  BY <1>4, <1>5, <1>7, <1>8, AndsKept

(* exchange sends the words of the whole batch.                            *)
LEMMA SendKept ==
    ASSUME MachineInv, NEW r \in Party, Ands(r), Send(r)
    PROVE  MachineInv'
<1>1. /\ pc[r] = "send" /\ pc[r] \in Batch /\ pc[r] \in Sent /\ ip' = ip /\ prng' = prng
      /\ pc' = [pc EXCEPT ![r] = IF r = 2 THEN "finalize" ELSE "receive_first"]
  BY DEF Send, Batch, Sent
<1>2. /\ TypeOK /\ Control /\ pc \in [Party -> Location] /\ Len(program) \in Nat
  BY HereFacts, MachineBacked
<1>3. PICK k : k = ip[r]
  OBVIOUS
<1>4. /\ prep[r].at = "ready" /\ prep' = prep /\ program' = program
      /\ program[k].op = "ands" /\ k \in 1 .. Len(program) /\ k \in Nat
      /\ SeedsHeld(r) /\ Own(r) /\ Marking(r) /\ Grown(r)
      /\ \A q \in Party : /\ 2 * k \in Planned(r, q) <=> q # 2
                          /\ 2 * k \in Planned(q, r) <=> r # 2
  BY <1>1, <1>3, BatchHere
<1>5. pc'[r] = IF r = 2 THEN "finalize" ELSE "receive_first"
  BY <1>1, <1>2
<1>6. SeedsHeld(r)'
  BY <1>1, <1>4, <1>5, SeedsSame DEF Seeding
<1>7. Whereabouts(r)'
  BY <1>1, <1>4, <1>5 DEF Whereabouts, Inputting, Seeding
<1>8. /\ Joined(os[r][0], 1, Len(Plan(k)), Os0For(r, k))
      /\ Joined(os[r][1], 1, Len(Plan(k)), Os1For(r, k))
  BY <1>1, <1>3, <1>4 DEF Own, Sending, Made, Plan, Gates
<1>9. Done(r, k)
  BY <1>1, <1>2, <1>3, <1>4, SentDone
<1>10. ASSUME NEW q \in Party, q # r
       PROVE  Emits(r, q) /\ Absorbs(r, q)
  <2>1. SentTo(r) = 2 * k /\ SentTo(r)' = 2 * k + 1
    BY <1>1, <1>3, <1>4, <1>5 DEF SentTo, Exchanged
  <2>2. /\ TakenFrom(r, q) = 2 * k
        /\ TakenFrom(r, q)' = IF r = 2 THEN 2 * k + 1 ELSE 2 * k
    BY <1>1, <1>3, <1>4, <1>5 DEF TakenFrom
  <2>3. chan'[q][r] = chan[q][r] /\ (q = 2 => chan'[r][q] = chan[r][q])
    BY <1>2, <1>10, SendEffect
  <2>4. Absorbs(r, q)
    BY <1>4, <2>2, <2>3 DEF Absorbs
  <2>5. PICK t \in Nat : t = 2 * k
    BY <1>4
  <2>6. /\ SentTo(r) = t /\ SentTo(r)' = t + 1
        /\ t \in Planned(r, q) <=> q # 2
    BY <1>4, <2>1, <2>5
  <2>7. CASE q = 2
    <3>1. t \notin Planned(r, q) /\ chan'[r][q] = chan[r][q]
      BY <2>3, <2>7, <2>6
    <3>2. Emits(r, q)
      BY <2>5, <2>6, <3>1 DEF Emits
    <3> QED
      BY <2>4, <3>2
  <2>8. CASE q # 2
    <3>1. PICK i \in 0 .. 2 : /\ i = PartFor(r, q)
                              /\ chan'[r][q] = Append(chan[r][q], WordMessage(os[r][i]))
      BY <1>2, <1>10, <2>8, SendEffect
    <3>2. PICK m : m = WordMessage(os[r][i])
      OBVIOUS
    <3>10. m.words = os[r][i]
      BY <3>2 DEF WordMessage
    <3>3. m \in Message
      BY <1>2, <3>2, TypedParts, WordMessageType
    <3>4. Joined(m.words, 1, Len(Plan(k)), SentFor(r, q, k))
      BY <1>8, <3>1, <3>10 DEF PartFor, SentFor
    <3>5. \A g \in 1 .. Len(Plan(k)) : SentFor(r, q, k)'[g] = SentFor(r, q, k)[g]
      BY <1>4, <1>9, SentSame DEF Marking
    <3>6. PICK c, d : c = SentFor(r, q, k) /\ d = SentFor(r, q, k)'
      OBVIOUS
    <3>7. Joined(m.words, 1, Len(Plan(k)), d)
      BY <3>4, <3>5, <3>6, JoinedSame
    <3>8. Joined(m.words, 1, Len(Plan(k)'), SentFor(r, q, k)')
      BY <1>4, <3>6, <3>7 DEF Plan
    <3>9. Fits(r, q, 2 * k, m)'
      <4>1. /\ 2 * k # 0 /\ 2 * k # 1
            /\ \A j \in 1 .. Len(program) : (2 * k = 2 * j => j = k) /\ 2 * k # 2 * j + 1
        BY <1>4
      <4> QED
        BY <1>4, <3>8, <4>1 DEF Fits
    <3> QED
      BY <2>4, <2>8, <2>5, <2>6, <3>1, <3>2, <3>3, <3>9 DEF Emits
  <2> QED
    BY <2>4, <2>7, <2>8
<1>11. Onward(r)
  BY <1>1, <1>5 DEF Onward, Exchanged
<1> QED
  BY <1>6, <1>7, <1>10, <1>11, AndsKept

-----------------------------------------------------------------------------
LEMMA ReceiveKept ==
    ASSUME MachineInv, NEW r \in Party, Ands(r), NEW from, NEW i, NEW at, NEW next,
           \/ from = Before(r) /\ at = "receive_first" /\ next = "receive_second"
           \/ from = After(r) /\ at = "receive_second" /\ next = "finalize",
           Receive(r, from, i, at, next)
    PROVE  MachineInv'
<1>1. PICK a \in Party, b \in Party :
        /\ a = After(r) /\ b = Before(r) /\ a # r /\ b # r /\ a # b
        /\ \A q \in Party : q = r \/ q = a \/ q = b
  BY Neighbours
<1>2. from \in Party /\ from # r
  BY <1>1
<1>3. /\ pc[r] = at /\ pc' = [pc EXCEPT ![r] = next] /\ ip' = ip /\ prng' = prng
      /\ chan[from][r] # <<>> /\ chan' = Take(chan, from, r)
  BY DEF Receive, Take
<1>4. /\ pc[r] \in Batch /\ pc[r] \notin Seeding /\ next \notin Seeding
      /\ pc[r] \notin Exchanged /\ next \notin Exchanged
  BY <1>3 DEF Batch, Seeding, Exchanged
<1>5. PICK k : k = ip[r]
  OBVIOUS
<1>6. /\ prep[r].at = "ready" /\ prep' = prep /\ k \in Nat /\ SeedsHeld(r)
      /\ \A q \in Party : 2 * k \in Planned(q, r) <=> r # 2
  BY <1>4, <1>5, BatchHere
<1>7. pc \in [Party -> Location] /\ chan \in Connections /\ Whereabouts(r)
  BY HereFacts, MachineBacked
<1>8. r # 2 /\ pc'[r] = next
  BY <1>3, <1>7 DEF Whereabouts
<1>9. SeedsHeld(r)'
  BY <1>3, <1>4, <1>6, <1>8, SeedsSame
<1>10. Whereabouts(r)'
  BY <1>4, <1>6, <1>8 DEF Whereabouts, Inputting, Seeding
<1>11. /\ chan'[from][r] = Tail(chan[from][r])
       /\ \A x, y \in Party : x # from \/ y # r => chan'[x][y] = chan[x][y]
  <2>1. chan'[from][r] = Tail(chan[from][r]) /\ Elsewhere(chan', chan, from, r)
    BY <1>2, <1>3, <1>7, ChanTake
  <2> QED
    BY <2>1 DEF Elsewhere
<1>12. ASSUME NEW q \in Party, q # r
       PROVE  Emits(r, q) /\ Absorbs(r, q)
  <2>1. SentTo(r)' = SentTo(r)
    BY <1>3, <1>6, <1>8 DEF SentTo, Exchanged
  <2>2. chan'[r][q] = chan[r][q]
    BY <1>2, <1>11, <1>12
  <2>3. PICK t \in Nat : t = 2 * k
    BY <1>6
  <2>4. /\ q = from => TakenFrom(r, q) = t /\ TakenFrom(r, q)' = t + 1
        /\ q # from => TakenFrom(r, q)' = TakenFrom(r, q)
    BY <1>1, <1>3, <1>5, <1>6, <1>8, <1>12, <2>3 DEF TakenFrom
  <2>5. t \in Planned(q, r)
    BY <1>6, <1>8, <2>3
  <2>6. CASE q = from
    BY <1>3, <1>11, <2>1, <2>2, <2>4, <2>5, <2>6 DEF Emits, Absorbs
  <2>7. CASE q # from
    <3>1. chan'[q][r] = chan[q][r]
      BY <1>11, <1>12, <2>7
    <3> QED
      BY <2>1, <2>2, <2>4, <2>7, <3>1 DEF Emits, Absorbs
  <2> QED
    BY <2>6, <2>7
<1>13. Onward(r)
  BY <1>3, <1>4, <1>8 DEF Onward
<1> QED
  BY <1>9, <1>10, <1>12, <1>13, AndsKept

(* The last gate ends the instruction.                                     *)
LEMMA FinalizeMulKept ==
    ASSUME MachineInv, NEW r \in Party, Ands(r), FinalizeMul(r)
    PROVE  MachineInv'
<1>1. /\ pc[r] = "finalize" /\ pc[r] \in Batch /\ prng' = prng /\ chan' = chan
      /\ \/ pc' = pc /\ ip' = ip
         \/ pc' = [pc EXCEPT ![r] = "idle"] /\ ip' = [ip EXCEPT ![r] = ip[r] + 1]
  BY DEF FinalizeMul, Batch
<1>2. PICK k : k = ip[r]
  OBVIOUS
<1>3. /\ prep[r].at = "ready" /\ prep' = prep /\ k \in Nat /\ SeedsHeld(r)
      /\ \A q \in Party : 2 * k + 1 \notin Planned(q, r) /\ 2 * k + 1 \notin Planned(r, q)
  BY <1>1, <1>2, BatchHere
<1>4. pc \in [Party -> Location] /\ ip \in [Party -> Nat \ {0}]
  BY HereFacts
<1>5. \/ pc'[r] = "finalize" /\ ip'[r] = k
      \/ pc'[r] = "idle" /\ ip'[r] = k + 1
  BY <1>1, <1>2, <1>4
<1>6. SeedsHeld(r)'
  BY <1>1, <1>3, <1>5, SeedsSame DEF Seeding
<1>7. Whereabouts(r)'
  BY <1>3, <1>5 DEF Whereabouts, Inputting, Seeding
<1>8. ASSUME NEW q \in Party, q # r
      PROVE  Emits(r, q) /\ Absorbs(r, q)
  <2>1. PICK t \in Nat : t = 2 * k + 1
    BY <1>3
  <2>2. SentTo(r) = t /\ TakenFrom(r, q) = t
    BY <1>1, <1>2, <1>3, <2>1 DEF SentTo, TakenFrom, Exchanged
  <2>3. \/ SentTo(r)' = t /\ TakenFrom(r, q)' = t
        \/ SentTo(r)' = t + 1 /\ TakenFrom(r, q)' = t + 1
    <3>1. 2 * (k + 1) = t + 1
      BY <1>3, <2>1
    <3> QED
      BY <1>3, <1>5, <2>1, <3>1 DEF SentTo, TakenFrom, Exchanged
  <2>4. t \notin Planned(r, q) /\ t \notin Planned(q, r)
    BY <1>3, <2>1
  <2> QED
    BY <1>1, <2>1, <2>2, <2>3, <2>4 DEF Emits, Absorbs
<1>9. Onward(r)
  BY <1>1, <1>2, <1>5 DEF Onward, Exchanged
<1> QED
  BY <1>6, <1>7, <1>8, <1>9, AndsKept

LEMMA AndsStep ==
    ASSUME MachineInv, NEW r \in Party, pc[r] = "idle" => prep[r].at = "ready", Ands(r)
    PROVE  MachineInv'
<1>1. Step(r)
  BY DEF Ands
<1> QED
  BY <1>1, StepForms, ReseedKept, ReceiveSeedKept, InitMulKept, PrepareMulKept, SendKept,
     ReceiveKept, FinalizeMulKept

-----------------------------------------------------------------------------
(* Every step of a machine.                                                *)
LEMMA ExecuteKept ==
    ASSUME MachineInv, NEW r \in Party, pc[r] = "idle" => prep[r].at = "ready", Execute(r)
    PROVE  MachineInv'
<1>1. CASE Ands(r)
  BY <1>1, AndsStep
<1>2. CASE LocalStep(r)
  BY <1>2, LocalKept
<1>3. CASE BitB(r)
  BY <1>3, BitBKept
<1>4. CASE OpenSend(r) \/ OpenReceive(r)
  BY <1>4, OpenSendKept, OpenReceiveKept
<1>5. CASE InputSetup(r)
  BY <1>5, InputSetupKept
<1>6. CASE DiscardSeedNext(r) \/ DiscardSeedPrev(r)
  BY <1>6, DiscardSeedKept
<1>7. CASE InputSend(r) \/ InputReceiveNext(r) \/ InputReceivePrev(r) \/ InputStore(r)
  BY <1>7, InputSendKept, InputReceiveNextKept, InputReceivePrevKept, InputStoreKept
<1> QED
  BY <1>1, <1>2, <1>3, <1>4, <1>5, <1>6, <1>7, LocalSteps DEF Execute

LEMMA MachineStepKept ==
    ASSUME MachineInv, NEW r \in Party, MachineStep(r)
    PROVE  MachineInv'
BY ExecuteKept, PrepSendKept, PrepReceiveKept DEF MachineStep


-----------------------------------------------------------------------------
(***************************************************************************)
(* The invariant holds at first, and is kept by every step.                *)
(***************************************************************************)
LEMMA MachineTypeInit == MachineInit => MachineTypeOK
<1> SUFFICES ASSUME MachineInit PROVE MachineTypeOK
  OBVIOUS
<1>1. TypeOK
  BY TypeInit DEF MachineInit
<1>2. input \in PrivateInputs
  BY DEF MachineInit
<1>3. C \in [Party -> ClearRegs]
  <2>1. {} \in Vec
    BY DEF Vec
  <2>2. [c \in CReg |-> {}] \in ClearRegs
    BY <2>1 DEF ClearRegs
  <2> QED
    BY <2>2 DEF MachineInit
<1>4. read \in [Party -> Nat] /\ drawn \in [Party -> Nat]
  BY DEF MachineInit
<1>5. dealt \in [Party -> Seq(Share)]
  BY DEF MachineInit
<1>6. received \in [Party -> [Party -> Seq(Vec)]]
  <2>1. [q \in Party |-> <<>>] \in [Party -> Seq(Vec)]
    OBVIOUS
  <2> QED
    BY <2>1 DEF MachineInit
<1>7. prep \in [Party -> PrepStates]
  <2>1. PICK seeds : seeds = [j \in {0, 1} |-> Unseeded]
    OBVIOUS
  <2>2. seeds \in [{0, 1} -> Seed \cup {Unseeded}]
    BY <2>1
  <2>3. PICK bits : bits = <<>>
    OBVIOUS
  <2>4. bits \in Seq(Share)
    BY <2>3
  <2>5. [at |-> "none", seeds |-> seeds, pos |-> 0, bits |-> bits] \in PrepStates
    BY <2>2, <2>4 DEF PrepStates
  <2>6. prep = [p \in Party |-> [at |-> "none", seeds |-> seeds, pos |-> 0, bits |-> bits]]
    BY <2>1, <2>3 DEF MachineInit
  <2> QED
    BY <2>5, <2>6
<1>8. clog \in [Party -> Seq(ClearRegs)]
  <2>1. ASSUME NEW p \in Party PROVE <<C[p]>> \in Seq(ClearRegs)
    BY <1>3
  <2> QED
    BY <2>1 DEF MachineInit
<1> QED
  BY <1>1, <1>2, <1>3, <1>4, <1>5, <1>6, <1>7, <1>8 DEF MachineTypeOK, PrepStates, ClearRegs

LEMMA MachineInvInit == MachineInit => MachineInv
<1> SUFFICES ASSUME MachineInit PROVE MachineInv
  OBVIOUS
<1>1. Init /\ MachineTypeOK
  BY MachineTypeInit DEF MachineInit
<1>2. TypeOK /\ Control /\ Tracks /\ Batches
  BY <1>1, TypeInit, TracksInit, BatchesInit
<1>3. ASSUME NEW p \in Party
      PROVE  Machine(p)
  <2>1. pc[p] = "reseed" /\ ip[p] = 1
    BY <1>1 DEF Init
  <2>2. prep[p] = [at |-> "none", seeds |-> [j \in {0, 1} |-> Unseeded], pos |-> 0, bits |-> <<>>]
    BY DEF MachineInit
  <2>3. Own(p)
    BY <1>2 DEF Batches
  <2>4. SeedsHeld(p)
    BY <2>1 DEF SeedsHeld
  <2>5. Whereabouts(p)
    BY <2>1, <2>2 DEF Whereabouts, Inputting, Seeding
  <2>6. Reading(p)
    <3>1. Reads(ReadsOf(p), program, p)
      BY <1>2, ReadsExist DEF TypeOK
    <3>2. ReadsOf(p)[0] = 0
      BY <3>1 DEF Reads
    <3>3. read[p] = 0 /\ drawn[p] = 0
      BY DEF MachineInit
    <3>4. ip[p] - 1 = 0 /\ drawn[p] = 2 * read[p]
      BY <2>1, <3>3
    <3> QED
      BY <2>1, <3>2, <3>3, <3>4 DEF Reading, Exchanged
  <2>7. Stocked(p)
    <3>1. PICK bits : bits = <<>>
      OBVIOUS
    <3>2. Len(bits) = 0 /\ BatchSize \in Nat
      BY <3>1, BatchSizeAssumption
    <3>3. prep[p].at = "none" /\ prep[p].bits = bits
      BY <2>2, <3>1
    <3> QED
      BY <3>1, <3>2, <3>3 DEF Stocked
  <2>8. ClearLogged(p)
    <3>1. PICK regs : regs = C[p]
      OBVIOUS
    <3>2. Len(<<regs>>) = 1 /\ <<regs>>[1] = regs
      OBVIOUS
    <3>3. clog[p] = <<regs>>
      BY <3>1 DEF MachineInit
    <3> QED
      BY <2>1, <3>1, <3>2, <3>3 DEF ClearLogged
  <2> QED
    BY <2>3, <2>4, <2>5, <2>6, <2>7, <2>8 DEF Machine
<1>4. Traffic
  <2>1. SUFFICES ASSUME NEW p \in Party, NEW q \in Party, p # q
                 PROVE  Link(p, q)
    BY DEF Traffic
  <2>2. pc[p] = "reseed" /\ pc[q] = "reseed" /\ chan[p][q] = <<>>
    BY <1>1 DEF Init
  <2>3. SentTo(p) = 0 /\ TakenFrom(q, p) = 0
    BY <2>2 DEF SentTo, TakenFrom
  <2>4. Gone(p, q) = {} /\ Got(q, p) = {}
    BY <2>3 DEF Gone, Got, Below, Planned
  <2> QED
    BY <2>2, <2>4, CarriesNothing DEF Link
<1> QED
  BY <1>1, <1>2, <1>3, <1>4 DEF MachineInv, Batches

LEMMA MachineStutter ==
    ASSUME MachineInv, UNCHANGED machineVars
    PROVE  MachineInv'
<1>1. /\ UNCHANGED vars
      /\ UNCHANGED <<program, tape, pc, ip, gate, prng, S, os, add_shares, add_shares_2>>
      /\ UNCHANGED <<and_operands, chan, log, marks>>
      /\ UNCHANGED <<input, C, read, drawn, dealt, received, prep, clog>>
  BY DEF machineVars, machine, vars
<1>2. /\ TypeOK /\ Control /\ Backed
      /\ \A p \in Party : Machine(p) /\ Own(p) /\ Marking(p) /\ OnTrack(p)
  BY MachineBacked
<1>3. ASSUME NEW p \in Party PROVE Moved(p) /\ Grown(p) /\ Own(p)'
  <2>1. ASSUME NEW q \in Party PROVE Grown(q)
    <3>1. Distinct(q)
      BY <1>2 DEF Marking
    <3> QED
      BY <1>1, <3>1, DistinctSame DEF Grown
  <2>2. Framed(p)
    <3>1. Alone(p)
      BY <1>1 DEF Alone
    <3> QED
      BY <1>1, <3>1, AloneFramed
  <2>3. Own(p)'
    BY <1>2, <2>1, <2>2, FramedOwn
  <2> QED
    BY <1>1, <1>2, <2>1, <2>3, TrackStutter
<1>4. Apart(0)
  BY <1>1 DEF Apart, Still
<1>5. MachineTypeOK'
  BY <1>1 DEF MachineInv, MachineTypeOK, TypeOK
<1>6. Control'
  BY <1>1, <1>2 DEF Control, InBatch, Running, Gates
<1>7. PICK r \in Party : r = 0
  BY Neighbours
<1>8. Still(r) /\ Machine(r)
  BY <1>1, <1>2 DEF Still
<1>9. /\ SeedsHeld(r)' /\ Whereabouts(r)' /\ Reading(r)' /\ Stocked(r)' /\ ClearLogged(r)'
      /\ SentTo(r)' = SentTo(r) /\ \A q \in Party : TakenFrom(r, q)' = TakenFrom(r, q)
  BY <1>1, <1>8, StillKept
<1>10. \A q \in Party : q # r => Emits(r, q) /\ Absorbs(r, q)
  BY <1>1, <1>9 DEF Emits, Absorbs
<1> QED
  BY <1>3, <1>4, <1>5, <1>6, <1>7, <1>9, <1>10, MachineKept

LEMMA MachineInvNext == MachineInv /\ [MachineNext]_machineVars => MachineInv'
<1> SUFFICES ASSUME MachineInv, [MachineNext]_machineVars PROVE MachineInv'
  OBVIOUS
<1>1. ASSUME NEW p \in Party, MachineStep(p) PROVE MachineInv'
  BY <1>1, MachineStepKept
<1>2. CASE Terminated /\ UNCHANGED machine
  BY <1>2, MachineStutter DEF Terminated, machineVars
<1>3. CASE UNCHANGED machineVars
  BY <1>3, MachineStutter
<1> QED
  BY <1>1, <1>2, <1>3 DEF MachineNext

LEMMA MachineInvCorrect == MachineSpec => []MachineInv
BY MachineInvInit, MachineInvNext, PTL DEF MachineSpec

(***************************************************************************)
(* Every variable of a machine has its type, whatever the program: what is *)
(* received has as many words as is taken of it, a transposed column is no *)
(* longer than a register, and no connection delivers a message of another *)
(* kind than the one its receiver waits for.                               *)
(***************************************************************************)
THEOREM MachineTypeCorrect == MachineSpec => []MachineTypeOK
<1>1. MachineInv => MachineTypeOK
  BY DEF MachineInv
<1> QED
  BY <1>1, MachineInvCorrect, PTL


-----------------------------------------------------------------------------
(* A party that has finished an instruction in which another one sends it  *)
(* a message does so after the other has entered the instruction.          *)
LEMMA FinishedEntered ==
    ASSUME MachineInv, NEW p \in Party, NEW q \in Party, q # p,
           NEW k \in 1 .. Len(program), ip[p] > k, First(q, p, k)
    PROVE  Entered(q, k)
<1>1. /\ TypeOK /\ Control /\ Traffic /\ Len(program) \in Nat
      /\ Whereabouts(p) /\ Whereabouts(q) /\ ip[p] \in Nat /\ ip[q] \in Nat
  BY MachineBacked, HereFacts
<1>2. 2 * k \in Planned(q, p)
  BY <1>1, PlannedTags
<1>3. 2 * k < TakenFrom(p, q)
  BY <1>1, TakenEarlier
<1>4. 2 * k < SentTo(q)
  <2>1. PICK t : t = 2 * k
    OBVIOUS
  <2>2. Link(q, p)
    BY <1>1 DEF Traffic
  <2> QED
    BY <1>2, <1>3, <2>1, <2>2, GotGone
<1>5. k <= ip[q] /\ (k = ip[q] => pc[q] # "idle")
  BY <1>1, <1>4, SentFirst
<1> QED
  BY <1>1, <1>5 DEF Entered

LEMMA BarriersHeld ==
    ASSUME MachineInv
    PROVE  Barriers
<1> SUFFICES ASSUME NEW k \in 1 .. Len(program), NEW p \in Party, Left(p, k)
             PROVE  /\ program[k].op = "inputb" => \A q \in Party : Entered(q, k)
                    /\ program[k].op = "reveal" => Entered(Before(p), k)
  BY DEF Barriers
<1>1. ip[p] > k
  BY DEF Left
<1>2. ASSUME program[k].op = "inputb", NEW q \in Party
      PROVE  Entered(q, k)
  <2>1. CASE q = p
    BY <1>1, <2>1 DEF Entered
  <2>2. CASE q # p
    <3>1. First(q, p, k)
      BY <1>2 DEF First
    <3> QED
      BY <1>1, <2>2, <3>1, FinishedEntered
  <2> QED
    BY <2>1, <2>2
<1>3. ASSUME program[k].op = "reveal"
      PROVE  Entered(Before(p), k)
  <2>1. PICK q \in Party : q = Before(p) /\ q # p /\ p = After(q)
    BY Neighbours
  <2>2. First(q, p, k)
    BY <1>3, <2>1 DEF First
  <2> QED
    BY <1>1, <2>1, <2>2, FinishedEntered
<1> QED
  BY <1>2, <1>3

(***************************************************************************)
(* INPUTB and REVEAL hold the parties together, in every program: an       *)
(* INPUTB is left only when all have entered it, a REVEAL only when the    *)
(* previous party has, though ANDS makes nobody wait for party 2's peers.  *)
(***************************************************************************)
THEOREM BarriersCorrect == MachineSpec => []Barriers
BY MachineInvCorrect, BarriersHeld, PTL

(***************************************************************************)
(* The bits that RepPrep makes without a message have two holders for each *)
(* component, for every size of the batches, however far apart parties are *)
(* and however much of their stores they have used.                        *)
(***************************************************************************)
THEOREM RandomBitsReplicatedCorrect == MachineSpec => []RandomBitsReplicated
<1>1. ASSUME MachineInv PROVE RandomBitsReplicated
  <2> SUFFICES ASSUME NEW p \in Party, NEW q \in Party, q = After(p), p = Before(q),
                      NEW i \in DOMAIN prep[p].bits \cap DOMAIN prep[q].bits,
                      prep[p].pos = prep[q].pos
               PROVE  prep[p].bits[i][0] = prep[q].bits[i][1]
    BY Neighbours DEF RandomBitsReplicated
  <2>1. /\ Stocked(p) /\ Stocked(q)
        /\ prep[p].bits \in Seq(Share) /\ prep[q].bits \in Seq(Share)
        /\ prep[p].at \in {"none", "seed", "ready"}
        /\ prep[q].at \in {"none", "seed", "ready"}
    <3>1. prep \in [Party -> PrepStates]
      BY <1>1, HereFacts
    <3> QED
      BY <1>1, <3>1, MachineBacked DEF PrepStates
  <2>2. i \in 1 .. Len(prep[p].bits) /\ i \in 1 .. Len(prep[q].bits)
    BY <2>1
  <2>3. prep[p].bits # <<>> /\ prep[q].bits # <<>>
    BY <2>2
  <2>4. prep[p].seeds[0] = <<p, 3>> /\ prep[q].seeds[1] = <<p, 3>>
    BY <2>1, <2>3 DEF Stocked
  <2>5. /\ prep[p].bits[i][0] = GetBit(prep[p].seeds[0], prep[p].pos - BatchSize + i)
        /\ prep[q].bits[i][1] = GetBit(prep[q].seeds[1], prep[q].pos - BatchSize + i)
    BY <2>1, <2>2 DEF Stocked
  <2> QED
    BY <2>4, <2>5
<1> QED
  BY <1>1, MachineInvCorrect, PTL

=============================================================================
