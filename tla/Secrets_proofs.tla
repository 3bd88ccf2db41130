--------------------------- MODULE Secrets_proofs ---------------------------
(***************************************************************************)
(* What the virtual machines compute: the registers of the three parties   *)
(* hide words, each instruction makes of the words what the compiler       *)
(* promises, and the openings show them alike to everybody.                *)
(***************************************************************************)
EXTENDS GCProcessor_proofs

-----------------------------------------------------------------------------
(***************************************************************************)
(* Secrets.  The shares of parties 0, 1 and 2 hide a word if they belong   *)
(* together and open to it.                                                *)
(***************************************************************************)
Hide(s, t, u, v) ==
    /\ s[1] = u[1] /\ t[1] = u[0]
    /\ s[0] (+) u[0] = v
    /\ t[0] (+) u[1] = v

LEMMA HideConsistent ==
    ASSUME NEW s, NEW t, NEW u, NEW v, NEW sh, sh[0] = s, sh[1] = t, sh[2] = u
    PROVE  Hide(s, t, u, v) <=> Consistent(sh) /\ Opened(sh) = v
<1>1. Before(0) = 2
  BY DEF Before
<1>2. Opened(sh) = s[0] (+) u[0]
  BY <1>1 DEF Opened, OpenAt, OpenFrom
<1> QED
  BY <1>2 DEF Hide, Consistent

(* Whatever acts on each lane alone keeps shares together. *)
LEMMA HideXor ==
    ASSUME NEW s, NEW t, NEW u, NEW v, NEW s2, NEW t2, NEW u2, NEW v2,
           Hide(s, t, u, v), Hide(s2, t2, u2, v2)
    PROVE  Hide(XorShares(s, s2), XorShares(t, t2), XorShares(u, u2), v (+) v2)
<1>1. ASSUME NEW a, NEW b, NEW c, NEW d
      PROVE  (a (+) b) (+) (c (+) d) = (a (+) c) (+) (b (+) d)
  BY DEF (+)
<1>2. \A x, y : XorShares(x, y)[0] = x[0] (+) y[0] /\ XorShares(x, y)[1] = x[1] (+) y[1]
  BY DEF XorShares
<1>3. /\ XorShares(s, s2)[1] = XorShares(u, u2)[1]
      /\ XorShares(t, t2)[1] = XorShares(u, u2)[0]
  BY <1>2 DEF Hide
<1>4. (s[0] (+) s2[0]) (+) (u[0] (+) u2[0]) = v (+) v2
  BY <1>1 DEF Hide
<1>5. (t[0] (+) t2[0]) (+) (u[1] (+) u2[1]) = v (+) v2
  BY <1>1 DEF Hide
<1> QED
  BY <1>2, <1>3, <1>4, <1>5 DEF Hide

LEMMA HideScalar ==
    ASSUME NEW v
    PROVE  Hide(Scalar(v), Scalar(v), Scalar(v), {})
<1>1. Scalar(v)[0] = v /\ Scalar(v)[1] = v
  BY DEF Scalar, Sh
<1>2. v (+) v = {}
  BY DEF (+)
<1> QED
  BY <1>1, <1>2 DEF Hide

LEMMA HideMask ==
    ASSUME NEW s, NEW t, NEW u, NEW v, NEW n, Hide(s, t, u, v)
    PROVE  Hide(MaskShare(s, n), MaskShare(t, n), MaskShare(u, n), Mask(v, n))
<1>1. \A x : MaskShare(x, n)[0] = Mask(x[0], n) /\ MaskShare(x, n)[1] = Mask(x[1], n)
  BY DEF MaskShare
<1>2. ASSUME NEW a, NEW b
      PROVE  Mask(a, n) (+) Mask(b, n) = Mask(a (+) b, n)
  BY DEF Mask, (+)
<1> QED
  BY <1>1, <1>2 DEF Hide

ClearAnd(s, x) == [c \in {0, 1} |-> s[c] \cap x]

LEMMA HideAnd ==
    ASSUME NEW s, NEW t, NEW u, NEW v, NEW x, Hide(s, t, u, v)
    PROVE  Hide(ClearAnd(s, x), ClearAnd(t, x), ClearAnd(u, x), v \cap x)
<1>1. \A y : ClearAnd(y, x)[0] = y[0] \cap x /\ ClearAnd(y, x)[1] = y[1] \cap x
  BY DEF ClearAnd
<1>2. ASSUME NEW a, NEW b
      PROVE  (a \cap x) (+) (b \cap x) = (a (+) b) \cap x
  BY DEF (+)
<1>3. /\ (s[0] \cap x) (+) (u[0] \cap x) = v \cap x
      /\ (t[0] \cap x) (+) (u[1] \cap x) = v \cap x
  BY <1>2 DEF Hide
<1>4. s[1] \cap x = u[1] \cap x /\ t[1] \cap x = u[0] \cap x
  BY DEF Hide
<1>5. PICK s2, t2, u2 : s2 = ClearAnd(s, x) /\ t2 = ClearAnd(t, x) /\ u2 = ClearAnd(u, x)
  OBVIOUS
<1>6. /\ s2[0] = s[0] \cap x /\ s2[1] = s[1] \cap x
      /\ t2[0] = t[0] \cap x /\ t2[1] = t[1] \cap x
      /\ u2[0] = u[0] \cap x /\ u2[1] = u[1] \cap x
  BY <1>1, <1>5
<1>7. s2[1] = u2[1] /\ t2[1] = u2[0]
  BY <1>4, <1>6
<1>8. s2[0] (+) u2[0] = v \cap x
  BY <1>3, <1>6
<1>9. t2[0] (+) u2[1] = v \cap x
  BY <1>3, <1>6
<1> QED
  BY <1>5, <1>7, <1>8, <1>9 DEF Hide

LEMMA HideBit ==
    ASSUME NEW s, NEW t, NEW u, NEW v, NEW i, Hide(s, t, u, v)
    PROVE  Hide(ShareBit(s, i), ShareBit(t, i), ShareBit(u, i), Promise!Bit(v, i))
<1>1. \A y : /\ ShareBit(y, i)[0] = IF i \in y[0] THEN {0} ELSE {}
             /\ ShareBit(y, i)[1] = IF i \in y[1] THEN {0} ELSE {}
  BY DEF ShareBit
<1>2. ASSUME NEW a, NEW b
      PROVE  (IF i \in a THEN {0} ELSE {}) (+) (IF i \in b THEN {0} ELSE {})
                = IF i \in a (+) b THEN {0} ELSE {}
  BY DEF (+)
<1>3. Promise!Bit(v, i) = IF i \in v THEN {0} ELSE {}
  BY DEF Promise!Bit
<1> QED
  BY <1>1, <1>2, <1>3 DEF Hide

LEMMA HideShift ==
    ASSUME NEW s, NEW t, NEW u, NEW v, NEW i, Hide(s, t, u, v)
    PROVE  Hide(ShiftShare(s, i), ShiftShare(t, i), ShiftShare(u, i), Promise!Shift(v, i))
<1>1. \A y : /\ ShiftShare(y, i)[0] = {l \in Lane : l - i \in y[0]}
             /\ ShiftShare(y, i)[1] = {l \in Lane : l - i \in y[1]}
  BY DEF ShiftShare
<1>2. ASSUME NEW a, NEW b
      PROVE  {l \in Lane : l - i \in a} (+) {l \in Lane : l - i \in b}
                = {l \in Lane : l - i \in a (+) b}
  BY DEF (+)
<1>3. Promise!Shift(v, i) = {l \in Lane : l - i \in v}
  BY DEF Promise!Shift, Promise!Lane, Lane
<1>4. /\ {l \in Lane : l - i \in s[0]} (+) {l \in Lane : l - i \in u[0]}
              = {l \in Lane : l - i \in v}
      /\ {l \in Lane : l - i \in t[0]} (+) {l \in Lane : l - i \in u[1]}
              = {l \in Lane : l - i \in v}
  BY <1>2 DEF Hide
<1>5. /\ {l \in Lane : l - i \in s[1]} = {l \in Lane : l - i \in u[1]}
      /\ {l \in Lane : l - i \in t[1]} = {l \in Lane : l - i \in u[0]}
  BY DEF Hide
<1>6. PICK s2, t2, u2 : s2 = ShiftShare(s, i) /\ t2 = ShiftShare(t, i) /\ u2 = ShiftShare(u, i)
  OBVIOUS
<1>7. s2[1] = u2[1] /\ t2[1] = u2[0]
  BY <1>1, <1>5, <1>6
<1>8. s2[0] (+) u2[0] = Promise!Shift(v, i) /\ t2[0] (+) u2[1] = Promise!Shift(v, i)
  BY <1>1, <1>3, <1>4, <1>6
<1> QED
  BY <1>6, <1>7, <1>8 DEF Hide

-----------------------------------------------------------------------------
(* The ideal machine's words are the same as the parties'.                 *)
LEMMA SameXor ==
    ASSUME NEW x, NEW y
    PROVE  Promise!(+)(x, y) = x (+) y
BY DEF Promise!(+), (+)

LEMMA SameMask ==
    ASSUME NEW x, NEW n
    PROVE  Promise!Mask(x, n) = Mask(x, n)
BY DEF Promise!Mask, Mask

LEMMA SameLane == Promise!Lane = Lane
BY DEF Promise!Lane, Lane

LEMMA SameNth ==
    ASSUME NEW items, NEW j
    PROVE  Promise!Nth(items, j) = Nth(items, j)
BY Zenon DEF Promise!Nth, Nth, Promise!From, From, Promise!Cardinality, Cardinality

LEMMA SameItems ==
    ASSUME NEW items, NEW p
    PROVE  Promise!ItemsFrom(items, p) = ItemsFrom(items, p)
BY Zenon DEF Promise!ItemsFrom, ItemsFrom, Promise!Nth, Nth, Promise!From, From,
                Promise!Cardinality, Cardinality

(* A loop that is known to be a function of its rounds passes through them. *)
LEMMA Settled ==
    ASSUME NEW n \in Nat, NEW T, NEW base \in T, NEW step \in [T -> [1 .. n -> T]],
           NEW f, f = [i \in 0 .. n |-> f[i]], f[0] = base,
           \A i \in 1 .. n : f[i - 1] \in T => f[i] = step[f[i - 1]][i]
    PROVE  Rounds(f, n, T, base, step)
<1> DEFINE Good == {i \in 0 .. n : f[i] \in T}
<1>1. 0 \in Good
  OBVIOUS
<1>2. ASSUME NEW i \in 1 .. n, i - 1 \in Good
      PROVE  i \in Good
  <2>1. f[i - 1] \in T /\ i \in 0 .. n
    BY <1>2
  <2>2. step[f[i - 1]] \in [1 .. n -> T]
    BY <2>1
  <2> QED
    BY <2>1, <2>2
<1>3. \A i \in 0 .. n : i \in Good
  <2> HIDE DEF Good
  <2> QED
    BY <1>1, <1>2, Climb
<1>4. \A i \in 1 .. n : f[i] = step[f[i - 1]][i]
  <2> TAKE i \in 1 .. n
  <2>1. i - 1 \in 0 .. n
    OBVIOUS
  <2> QED
    BY <1>3, <2>1
<1> QED
  BY <1>3, <1>4 DEF Rounds

Words == [Reg -> Vec]

(***************************************************************************)
(* What the ideal machine's loops pass through.                            *)
(***************************************************************************)
IdealXors(val, gates) ==
    Promise!Loop(LAMBDA v, i : Promise!XorClear(v, gates[i]), val, Len(gates))

IdealXorsRounds(g, val, gates) ==
    /\ g \in [0 .. Len(gates) -> Words]
    /\ g[0] = val
    /\ \A i \in 1 .. Len(gates) :
          g[i] = [g[i - 1] EXCEPT ![gates[i].out] =
                    g[i - 1][gates[i].ops[1]] (+) g[i - 1][gates[i].ops[2]]]

LEMMA IdealXorsLoop ==
    ASSUME NEW val \in Words, NEW gates \in Seq(Gate),
           \A g \in 1 .. Len(gates) : Len(gates[g].ops) = 2
    PROVE  \E g : IdealXorsRounds(g, val, gates) /\ IdealXors(val, gates) = g[Len(gates)]
<1> DEFINE n          == Len(gates)
           Body(v, i) == Promise!XorClear(v, gates[i])
           Turns(f)   == [i \in 0 .. n |-> IF i = 0 THEN val ELSE Body(f[i - 1], i)]
           after      == CHOOSE f : f = Turns(f)
           step       == [v \in Words |-> [i \in 1 .. n |-> Body(v, i)]]
<1>1. IdealXors(val, gates) = after[n]
  BY Zenon DEF Promise!Loop, IdealXors
<1>2. n \in Nat
  BY LenProperties
<1>3. \A v \in Words, i \in 1 .. n :
        /\ Body(v, i) = [v EXCEPT ![gates[i].out] = v[gates[i].ops[1]] (+) v[gates[i].ops[2]]]
        /\ Body(v, i) \in Words
  <2> TAKE v \in Words, i \in 1 .. n
  <2>1. gates[i] \in Gate /\ Len(gates[i].ops) = 2
    BY ElementOfSeq
  <2>2. gates[i].ops[1] \in Reg /\ gates[i].ops[2] \in Reg
    BY <2>1, ElementOfSeq DEF Gate
  <2>3. v[gates[i].ops[1]] (+) v[gates[i].ops[2]] \in Vec
    BY <2>2, VecClosed DEF Words
  <2>4. Body(v, i) = [v EXCEPT ![gates[i].out] = v[gates[i].ops[1]] (+) v[gates[i].ops[2]]]
    BY SameXor DEF Promise!XorClear
  <2> QED
    BY <2>3, <2>4 DEF Words
<1>4. step \in [Words -> [1 .. n -> Words]]
  <2> HIDE DEF Body
  <2> QED
    BY <1>3
<1>5. \A v \in Words, i \in 1 .. n : step[v][i] = Body(v, i)
  <2> HIDE DEF Body
  <2> QED
    OBVIOUS
<1>6. after = Turns(after)
  <2> HIDE DEF Body, step, n
  <2>1. PICK f : Rounds(f, n, Words, val, step)
    BY <1>2, <1>4, LoopExists
  <2>2. \A i \in 1 .. n : i - 1 \in 0 .. n /\ f[i - 1] \in Words
    BY <1>2, <2>1 DEF Rounds
  <2>3. f = Turns(f)
    BY <1>2, <1>5, <2>1, <2>2 DEF Rounds
  <2> HIDE DEF Turns
  <2> QED
    BY <2>3
<1>7. Rounds(after, n, Words, val, step)
  <2> HIDE DEF Body, step, n, after
  <2>1. after = [i \in 0 .. n |-> after[i]] /\ after[0] = val
    BY <1>2, <1>6
  <2>2. \A i \in 1 .. n : after[i] = Body(after[i - 1], i)
    BY <1>2, <1>6
  <2>3. \A i \in 1 .. n : after[i - 1] \in Words => after[i] = step[after[i - 1]][i]
    BY <1>5, <2>2
  <2> QED
    BY <1>2, <1>4, <2>1, <2>3, Settled
<1>8. IdealXorsRounds(after, val, gates)
  <2> HIDE DEF Body, step, after
  <2>1. \A i \in 1 .. n : after[i - 1] \in Words /\ after[i] = Body(after[i - 1], i)
    BY <1>2, <1>5, <1>7 DEF Rounds
  <2> QED
    BY <1>3, <1>7, <2>1 DEF Rounds, IdealXorsRounds
<1> HIDE DEF after
<1> QED
  BY <1>1, <1>8

(* BITDECS. *)
IdealBitDec(val, in, outs) ==
    Promise!Loop(LAMBDA v, i : [v EXCEPT ![outs[i]] = Promise!Bit(v[in], i - 1)],
                 val, Len(outs))

IdealBitDecRounds(g, val, in, outs) ==
    /\ g \in [0 .. Len(outs) -> Words]
    /\ g[0] = val
    /\ \A i \in 1 .. Len(outs) :
          g[i] = [g[i - 1] EXCEPT ![outs[i]] = Promise!Bit(g[i - 1][in], i - 1)]

LEMMA IdealBitDecLoop ==
    ASSUME NEW val \in Words, NEW in \in Reg, NEW outs \in Seq(Reg)
    PROVE  \E g : /\ IdealBitDecRounds(g, val, in, outs)
                  /\ IdealBitDec(val, in, outs) = g[Len(outs)]
<1> DEFINE n          == Len(outs)
           base       == val
           Body(v, i) == [v EXCEPT ![outs[i]] = Promise!Bit(v[in], i - 1)]
           Turns(f)   == [i \in 0 .. n |-> IF i = 0 THEN base ELSE Body(f[i - 1], i)]
           after      == CHOOSE f : f = Turns(f)
           step       == [v \in Words |-> [i \in 1 .. n |-> Body(v, i)]]
<1>1. IdealBitDec(val, in, outs) = after[n]
  BY Zenon DEF Promise!Loop, IdealBitDec
<1>2. n \in Nat /\ base \in Words
  BY LenProperties
<1>3. \A v \in Words, i \in 1 .. n :
         /\ Body(v, i) = [v EXCEPT ![outs[i]] = Promise!Bit(v[in], i - 1)]
         /\ Body(v, i) \in Words
  <2> TAKE v \in Words, i \in 1 .. n
  <2>6. 0 \in Lane
    BY WAssumption DEF Lane
  <2>7. Promise!Bit(v[in], i - 1) \in Vec
    BY <2>6 DEF Promise!Bit, Vec
  <2>8. Body(v, i) = [v EXCEPT ![outs[i]] = Promise!Bit(v[in], i - 1)]
    OBVIOUS
  <2> QED
    BY <2>7, <2>8 DEF Words
<1> HIDE DEF base
<1>4. step \in [Words -> [1 .. n -> Words]]
  <2> HIDE DEF Body
  <2> QED
    BY <1>3
<1>5. \A v \in Words, i \in 1 .. n : step[v][i] = Body(v, i)
  <2> HIDE DEF Body
  <2> QED
    OBVIOUS
<1>6. after = Turns(after)
  <2> HIDE DEF Body, step, n
  <2>1. PICK f : Rounds(f, n, Words, base, step)
    BY <1>2, <1>4, LoopExists
  <2>2. \A i \in 1 .. n : i - 1 \in 0 .. n /\ f[i - 1] \in Words
    BY <1>2, <2>1 DEF Rounds
  <2>3. \A i \in 1 .. n : f[i] = Body(f[i - 1], i)
    BY <1>5, <2>1, <2>2 DEF Rounds
  <2>4. f = [i \in 0 .. n |-> f[i]] /\ f[0] = base
    BY <2>1 DEF Rounds
  <2>5. \A i \in 0 .. n : f[i] = IF i = 0 THEN base ELSE Body(f[i - 1], i)
    <3> TAKE i \in 0 .. n
    <3>1. CASE i = 0
      BY <2>4, <3>1
    <3>2. CASE i # 0
      <4>1. i \in 1 .. n
        BY <1>2, <3>2
      <4> QED
        BY <2>3, <3>2, <4>1
    <3> QED
      BY <3>1, <3>2
  <2>6. f = Turns(f)
    BY <2>4, <2>5
  <2> HIDE DEF Turns
  <2> QED
    BY <2>6
<1>7. Rounds(after, n, Words, base, step)
  <2> HIDE DEF Body, step, n, after
  <2>1. after = [i \in 0 .. n |-> after[i]] /\ after[0] = base
    BY <1>2, <1>6
  <2>2. \A i \in 1 .. n : after[i] = Body(after[i - 1], i)
    BY <1>2, <1>6
  <2>3. \A i \in 1 .. n : after[i - 1] \in Words => after[i] = step[after[i - 1]][i]
    BY <1>5, <2>2
  <2> QED
    BY <1>2, <1>4, <2>1, <2>3, Settled
<1>8. IdealBitDecRounds(after, val, in, outs)
  <2> HIDE DEF Body, step, after
  <2>1. \A i \in 1 .. n : after[i - 1] \in Words /\ after[i] = Body(after[i - 1], i)
    BY <1>2, <1>5, <1>7 DEF Rounds
  <2> QED
    BY <1>3, <1>7, <2>1 DEF Rounds, IdealBitDecRounds, base
<1> HIDE DEF after
<1> QED
  BY <1>1, <1>8

(* BITCOMS. *)
IdealBitCom(val, out, ins) ==
    Promise!Loop(LAMBDA v, i : [v EXCEPT ![out] = Promise!(+)(@, Promise!Shift(v[ins[i]], i - 1))],
                 [val EXCEPT ![out] = {}], Len(ins))

IdealBitComRounds(g, val, out, ins) ==
    /\ g \in [0 .. Len(ins) -> Words]
    /\ g[0] = [val EXCEPT ![out] = {}]
    /\ \A i \in 1 .. Len(ins) :
          g[i] = [g[i - 1] EXCEPT ![out] = @ (+) Promise!Shift(g[i - 1][ins[i]], i - 1)]

LEMMA IdealBitComLoop ==
    ASSUME NEW val \in Words, NEW out \in Reg, NEW ins \in Seq(Reg)
    PROVE  \E g : /\ IdealBitComRounds(g, val, out, ins)
                  /\ IdealBitCom(val, out, ins) = g[Len(ins)]
<1> DEFINE n          == Len(ins)
           base       == [val EXCEPT ![out] = {}]
           Body(v, i) == [v EXCEPT ![out] = Promise!(+)(@, Promise!Shift(v[ins[i]], i - 1))]
           Turns(f)   == [i \in 0 .. n |-> IF i = 0 THEN base ELSE Body(f[i - 1], i)]
           after      == CHOOSE f : f = Turns(f)
           step       == [v \in Words |-> [i \in 1 .. n |-> Body(v, i)]]
<1>1. IdealBitCom(val, out, ins) = after[n]
  BY Zenon DEF Promise!Loop, IdealBitCom
<1>2. n \in Nat /\ base \in Words
  <2>1. {} \in Vec
    BY DEF Vec
  <2> QED
    BY <2>1, LenProperties DEF Words
<1>3. \A v \in Words, i \in 1 .. n :
         /\ Body(v, i) = [v EXCEPT ![out] = @ (+) Promise!Shift(v[ins[i]], i - 1)]
         /\ Body(v, i) \in Words
  <2> TAKE v \in Words, i \in 1 .. n
  <2>6. Promise!Shift(v[ins[i]], i - 1) \in Vec /\ v[out] \in Vec
    BY SameLane DEF Promise!Shift, Vec, Words
  <2>7. v[out] (+) Promise!Shift(v[ins[i]], i - 1) \in Vec
    BY <2>6, VecClosed
  <2>8. Body(v, i) = [v EXCEPT ![out] = @ (+) Promise!Shift(v[ins[i]], i - 1)]
    BY SameXor
  <2> QED
    BY <2>7, <2>8 DEF Words
<1> HIDE DEF base
<1>4. step \in [Words -> [1 .. n -> Words]]
  <2> HIDE DEF Body
  <2> QED
    BY <1>3
<1>5. \A v \in Words, i \in 1 .. n : step[v][i] = Body(v, i)
  <2> HIDE DEF Body
  <2> QED
    OBVIOUS
<1>6. after = Turns(after)
  <2> HIDE DEF Body, step, n
  <2>1. PICK f : Rounds(f, n, Words, base, step)
    BY <1>2, <1>4, LoopExists
  <2>2. \A i \in 1 .. n : i - 1 \in 0 .. n /\ f[i - 1] \in Words
    BY <1>2, <2>1 DEF Rounds
  <2>3. \A i \in 1 .. n : f[i] = Body(f[i - 1], i)
    BY <1>5, <2>1, <2>2 DEF Rounds
  <2>4. f = [i \in 0 .. n |-> f[i]] /\ f[0] = base
    BY <2>1 DEF Rounds
  <2>5. \A i \in 0 .. n : f[i] = IF i = 0 THEN base ELSE Body(f[i - 1], i)
    <3> TAKE i \in 0 .. n
    <3>1. CASE i = 0
      BY <2>4, <3>1
    <3>2. CASE i # 0
      <4>1. i \in 1 .. n
        BY <1>2, <3>2
      <4> QED
        BY <2>3, <3>2, <4>1
    <3> QED
      BY <3>1, <3>2
  <2>6. f = Turns(f)
    BY <2>4, <2>5
  <2> HIDE DEF Turns
  <2> QED
    BY <2>6
<1>7. Rounds(after, n, Words, base, step)
  <2> HIDE DEF Body, step, n, after
  <2>1. after = [i \in 0 .. n |-> after[i]] /\ after[0] = base
    BY <1>2, <1>6
  <2>2. \A i \in 1 .. n : after[i] = Body(after[i - 1], i)
    BY <1>2, <1>6
  <2>3. \A i \in 1 .. n : after[i - 1] \in Words => after[i] = step[after[i - 1]][i]
    BY <1>5, <2>2
  <2> QED
    BY <1>2, <1>4, <2>1, <2>3, Settled
<1>8. IdealBitComRounds(after, val, out, ins)
  <2> HIDE DEF Body, step, after
  <2>1. \A i \in 1 .. n : after[i - 1] \in Words /\ after[i] = Body(after[i - 1], i)
    BY <1>2, <1>5, <1>7 DEF Rounds
  <2> QED
    BY <1>3, <1>7, <2>1 DEF Rounds, IdealBitComRounds, base
<1> HIDE DEF after
<1> QED
  BY <1>1, <1>8

(* TRANS. *)
IdealTrans(val, ins, outs) ==
    Promise!Loop(LAMBDA v, i : [v EXCEPT ![outs[i]] = Promise!Column(ins, i, val)],
                 val, Len(outs))

IdealTransRounds(g, val, ins, outs) ==
    /\ g \in [0 .. Len(outs) -> Words]
    /\ g[0] = val
    /\ \A i \in 1 .. Len(outs) :
          g[i] = [g[i - 1] EXCEPT ![outs[i]] = Promise!Column(ins, i, val)]

LEMMA IdealTransLoop ==
    ASSUME NEW val \in Words, NEW ins \in Seq(Reg), Len(ins) <= W, NEW outs \in Seq(Reg)
    PROVE  \E g : /\ IdealTransRounds(g, val, ins, outs)
                  /\ IdealTrans(val, ins, outs) = g[Len(outs)]
<1> DEFINE n          == Len(outs)
           base       == val
           Body(v, i) == [v EXCEPT ![outs[i]] = Promise!Column(ins, i, val)]
           Turns(f)   == [i \in 0 .. n |-> IF i = 0 THEN base ELSE Body(f[i - 1], i)]
           after      == CHOOSE f : f = Turns(f)
           step       == [v \in Words |-> [i \in 1 .. n |-> Body(v, i)]]
<1>1. IdealTrans(val, ins, outs) = after[n]
  BY Zenon DEF Promise!Loop, IdealTrans
<1>2. n \in Nat /\ base \in Words
  BY LenProperties
<1>3. \A v \in Words, i \in 1 .. n :
         /\ Body(v, i) = [v EXCEPT ![outs[i]] = Promise!Column(ins, i, val)]
         /\ Body(v, i) \in Words
  <2> TAKE v \in Words, i \in 1 .. n
  <2>6. DOMAIN ins = 1 .. Len(ins) /\ Len(ins) \in Nat
    BY LenProperties
  <2>7. Promise!Column(ins, i, val) \in Vec
    BY <2>6, WAssumption DEF Promise!Column, Vec, Lane
  <2>8. Body(v, i) = [v EXCEPT ![outs[i]] = Promise!Column(ins, i, val)]
    OBVIOUS
  <2> QED
    BY <2>7, <2>8 DEF Words
<1> HIDE DEF base
<1>4. step \in [Words -> [1 .. n -> Words]]
  <2> HIDE DEF Body
  <2> QED
    BY <1>3
<1>5. \A v \in Words, i \in 1 .. n : step[v][i] = Body(v, i)
  <2> HIDE DEF Body
  <2> QED
    OBVIOUS
<1>6. after = Turns(after)
  <2> HIDE DEF Body, step, n
  <2>1. PICK f : Rounds(f, n, Words, base, step)
    BY <1>2, <1>4, LoopExists
  <2>2. \A i \in 1 .. n : i - 1 \in 0 .. n /\ f[i - 1] \in Words
    BY <1>2, <2>1 DEF Rounds
  <2>3. \A i \in 1 .. n : f[i] = Body(f[i - 1], i)
    BY <1>5, <2>1, <2>2 DEF Rounds
  <2>4. f = [i \in 0 .. n |-> f[i]] /\ f[0] = base
    BY <2>1 DEF Rounds
  <2>5. \A i \in 0 .. n : f[i] = IF i = 0 THEN base ELSE Body(f[i - 1], i)
    <3> TAKE i \in 0 .. n
    <3>1. CASE i = 0
      BY <2>4, <3>1
    <3>2. CASE i # 0
      <4>1. i \in 1 .. n
        BY <1>2, <3>2
      <4> QED
        BY <2>3, <3>2, <4>1
    <3> QED
      BY <3>1, <3>2
  <2>6. f = Turns(f)
    BY <2>4, <2>5
  <2> HIDE DEF Turns
  <2> QED
    BY <2>6
<1>7. Rounds(after, n, Words, base, step)
  <2> HIDE DEF Body, step, n, after
  <2>1. after = [i \in 0 .. n |-> after[i]] /\ after[0] = base
    BY <1>2, <1>6
  <2>2. \A i \in 1 .. n : after[i] = Body(after[i - 1], i)
    BY <1>2, <1>6
  <2>3. \A i \in 1 .. n : after[i - 1] \in Words => after[i] = step[after[i - 1]][i]
    BY <1>5, <2>2
  <2> QED
    BY <1>2, <1>4, <2>1, <2>3, Settled
<1>8. IdealTransRounds(after, val, ins, outs)
  <2> HIDE DEF Body, step, after
  <2>1. \A i \in 1 .. n : after[i - 1] \in Words /\ after[i] = Body(after[i - 1], i)
    BY <1>2, <1>5, <1>7 DEF Rounds
  <2> QED
    BY <1>3, <1>7, <2>1 DEF Rounds, IdealTransRounds, base
<1> HIDE DEF after
<1> QED
  BY <1>1, <1>8

(* INPUTB. *)
IdealInput(k, val) ==
    Promise!Loop(LAMBDA v, i : [v EXCEPT ![program[k].items[i].out] = Promise!InputValue(k, i)],
                 val, Len(program[k].items))

IdealInputRounds(g, k, val) ==
    /\ g \in [0 .. Len(program[k].items) -> Words]
    /\ g[0] = val
    /\ \A i \in 1 .. Len(program[k].items) :
          g[i] = [g[i - 1] EXCEPT ![program[k].items[i].out] = Promise!InputValue(k, i)]

LEMMA IdealInputLoop ==
    ASSUME NEW k, program[k].items \in Seq(Dealing), NEW val \in Words,
           \A i \in 1 .. Len(program[k].items) : Promise!InputValue(k, i) \in Vec
    PROVE  \E g : /\ IdealInputRounds(g, k, val)
                  /\ IdealInput(k, val) = g[Len(program[k].items)]
<1> DEFINE n          == Len(program[k].items)
           base       == val
           Body(v, i) == [v EXCEPT ![program[k].items[i].out] = Promise!InputValue(k, i)]
           Turns(f)   == [i \in 0 .. n |-> IF i = 0 THEN base ELSE Body(f[i - 1], i)]
           after      == CHOOSE f : f = Turns(f)
           step       == [v \in Words |-> [i \in 1 .. n |-> Body(v, i)]]
<1>1. IdealInput(k, val) = after[n]
  BY Zenon DEF Promise!Loop, IdealInput
<1>2. n \in Nat /\ base \in Words
  BY LenProperties
<1>3. \A v \in Words, i \in 1 .. n :
         /\ Body(v, i) = [v EXCEPT ![program[k].items[i].out] = Promise!InputValue(k, i)]
         /\ Body(v, i) \in Words
  <2> TAKE v \in Words, i \in 1 .. n
  <2>7. Promise!InputValue(k, i) \in Vec
    OBVIOUS
  <2>8. Body(v, i) = [v EXCEPT ![program[k].items[i].out] = Promise!InputValue(k, i)]
    OBVIOUS
  <2> QED
    BY <2>7, <2>8 DEF Words
<1> HIDE DEF base
<1>4. step \in [Words -> [1 .. n -> Words]]
  <2> HIDE DEF Body
  <2> QED
    BY <1>3
<1>5. \A v \in Words, i \in 1 .. n : step[v][i] = Body(v, i)
  <2> HIDE DEF Body
  <2> QED
    OBVIOUS
<1>6. after = Turns(after)
  <2> HIDE DEF Body, step, n
  <2>1. PICK f : Rounds(f, n, Words, base, step)
    BY <1>2, <1>4, LoopExists
  <2>2. \A i \in 1 .. n : i - 1 \in 0 .. n /\ f[i - 1] \in Words
    BY <1>2, <2>1 DEF Rounds
  <2>3. \A i \in 1 .. n : f[i] = Body(f[i - 1], i)
    BY <1>5, <2>1, <2>2 DEF Rounds
  <2>4. f = [i \in 0 .. n |-> f[i]] /\ f[0] = base
    BY <2>1 DEF Rounds
  <2>5. \A i \in 0 .. n : f[i] = IF i = 0 THEN base ELSE Body(f[i - 1], i)
    <3> TAKE i \in 0 .. n
    <3>1. CASE i = 0
      BY <2>4, <3>1
    <3>2. CASE i # 0
      <4>1. i \in 1 .. n
        BY <1>2, <3>2
      <4> QED
        BY <2>3, <3>2, <4>1
    <3> QED
      BY <3>1, <3>2
  <2>6. f = Turns(f)
    BY <2>4, <2>5
  <2> HIDE DEF Turns
  <2> QED
    BY <2>6
<1>7. Rounds(after, n, Words, base, step)
  <2> HIDE DEF Body, step, n, after
  <2>1. after = [i \in 0 .. n |-> after[i]] /\ after[0] = base
    BY <1>2, <1>6
  <2>2. \A i \in 1 .. n : after[i] = Body(after[i - 1], i)
    BY <1>2, <1>6
  <2>3. \A i \in 1 .. n : after[i - 1] \in Words => after[i] = step[after[i - 1]][i]
    BY <1>5, <2>2
  <2> QED
    BY <1>2, <1>4, <2>1, <2>3, Settled
<1>8. IdealInputRounds(after, k, val)
  <2> HIDE DEF Body, step, after
  <2>1. \A i \in 1 .. n : after[i - 1] \in Words /\ after[i] = Body(after[i - 1], i)
    BY <1>2, <1>5, <1>7 DEF Rounds
  <2> QED
    BY <1>3, <1>7, <2>1 DEF Rounds, IdealInputRounds, base
<1> HIDE DEF after
<1> QED
  BY <1>1, <1>8

(* REVEAL. *)
IdealReveal(regs, val, items) ==
    Promise!Loop(LAMBDA v, i : [v EXCEPT ![items[i].out] = Promise!Mask(val[items[i].in], items[i].n)],
                 regs, Len(items))

IdealRevealRounds(g, regs, val, items) ==
    /\ g \in [0 .. Len(items) -> ClearRegs]
    /\ g[0] = regs
    /\ \A i \in 1 .. Len(items) :
          g[i] = [g[i - 1] EXCEPT ![items[i].out] = Mask(val[items[i].in], items[i].n)]

LEMMA IdealRevealLoop ==
    ASSUME NEW regs \in ClearRegs, NEW val \in Words, NEW items \in Seq(Opening)
    PROVE  \E g : /\ IdealRevealRounds(g, regs, val, items)
                  /\ IdealReveal(regs, val, items) = g[Len(items)]
<1> DEFINE n          == Len(items)
           base       == regs
           Body(v, i) == [v EXCEPT ![items[i].out] = Promise!Mask(val[items[i].in], items[i].n)]
           Turns(f)   == [i \in 0 .. n |-> IF i = 0 THEN base ELSE Body(f[i - 1], i)]
           after      == CHOOSE f : f = Turns(f)
           step       == [v \in ClearRegs |-> [i \in 1 .. n |-> Body(v, i)]]
<1>1. IdealReveal(regs, val, items) = after[n]
  BY Zenon DEF Promise!Loop, IdealReveal
<1>2. n \in Nat /\ base \in ClearRegs
  BY LenProperties
<1>3. \A v \in ClearRegs, i \in 1 .. n :
         /\ Body(v, i) = [v EXCEPT ![items[i].out] = Mask(val[items[i].in], items[i].n)]
         /\ Body(v, i) \in ClearRegs
  <2> TAKE v \in ClearRegs, i \in 1 .. n
  <2>5. items[i] \in Opening
    BY ElementOfSeq
  <2>6. val[items[i].in] \in Vec
    BY <2>5 DEF Opening, Words
  <2>7. Mask(val[items[i].in], items[i].n) \in Vec
    BY <2>6, VecClosed
  <2>8. Body(v, i) = [v EXCEPT ![items[i].out] = Mask(val[items[i].in], items[i].n)]
    BY SameMask
  <2> QED
    BY <2>7, <2>8 DEF ClearRegs
<1> HIDE DEF base
<1>4. step \in [ClearRegs -> [1 .. n -> ClearRegs]]
  <2> HIDE DEF Body
  <2> QED
    BY <1>3
<1>5. \A v \in ClearRegs, i \in 1 .. n : step[v][i] = Body(v, i)
  <2> HIDE DEF Body
  <2> QED
    OBVIOUS
<1>6. after = Turns(after)
  <2> HIDE DEF Body, step, n
  <2>1. PICK f : Rounds(f, n, ClearRegs, base, step)
    BY <1>2, <1>4, LoopExists
  <2>2. \A i \in 1 .. n : i - 1 \in 0 .. n /\ f[i - 1] \in ClearRegs
    BY <1>2, <2>1 DEF Rounds
  <2>3. \A i \in 1 .. n : f[i] = Body(f[i - 1], i)
    BY <1>5, <2>1, <2>2 DEF Rounds
  <2>4. f = [i \in 0 .. n |-> f[i]] /\ f[0] = base
    BY <2>1 DEF Rounds
  <2>5. \A i \in 0 .. n : f[i] = IF i = 0 THEN base ELSE Body(f[i - 1], i)
    <3> TAKE i \in 0 .. n
    <3>1. CASE i = 0
      BY <2>4, <3>1
    <3>2. CASE i # 0
      <4>1. i \in 1 .. n
        BY <1>2, <3>2
      <4> QED
        BY <2>3, <3>2, <4>1
    <3> QED
      BY <3>1, <3>2
  <2>6. f = Turns(f)
    BY <2>4, <2>5
  <2> HIDE DEF Turns
  <2> QED
    BY <2>6
<1>7. Rounds(after, n, ClearRegs, base, step)
  <2> HIDE DEF Body, step, n, after
  <2>1. after = [i \in 0 .. n |-> after[i]] /\ after[0] = base
    BY <1>2, <1>6
  <2>2. \A i \in 1 .. n : after[i] = Body(after[i - 1], i)
    BY <1>2, <1>6
  <2>3. \A i \in 1 .. n : after[i - 1] \in ClearRegs => after[i] = step[after[i - 1]][i]
    BY <1>5, <2>2
  <2> QED
    BY <1>2, <1>4, <2>1, <2>3, Settled
<1>8. IdealRevealRounds(after, regs, val, items)
  <2> HIDE DEF Body, step, after
  <2>1. \A i \in 1 .. n : after[i - 1] \in ClearRegs /\ after[i] = Body(after[i - 1], i)
    BY <1>2, <1>5, <1>7 DEF Rounds
  <2> QED
    BY <1>3, <1>7, <2>1 DEF Rounds, IdealRevealRounds, base
<1> HIDE DEF after
<1> QED
  BY <1>1, <1>8

-----------------------------------------------------------------------------
(* The three parties' registers hide the words val.                        *)
Hides(a, b, c, val) == \A r \in Reg : Hide(a[r], b[r], c[r], val[r])

LEMMA AlikeWrite ==
    ASSUME NEW a \in Registers, NEW b \in Registers, NEW c \in Registers, NEW val \in Words,
           Hides(a, b, c, val), NEW out \in Reg, NEW s, NEW t, NEW u, NEW v, Hide(s, t, u, v)
    PROVE  Hides([a EXCEPT ![out] = s], [b EXCEPT ![out] = t], [c EXCEPT ![out] = u],
                 [val EXCEPT ![out] = v])
<1> DEFINE a2 == [a EXCEPT ![out] = s]
           b2 == [b EXCEPT ![out] = t]
           c2 == [c EXCEPT ![out] = u]
           v2 == [val EXCEPT ![out] = v]
<1>1. a2[out] = s /\ b2[out] = t /\ c2[out] = u /\ v2[out] = v
  BY DEF Registers, Words
<1>2. \A r \in Reg : r # out => a2[r] = a[r] /\ b2[r] = b[r] /\ c2[r] = c[r] /\ v2[r] = val[r]
  BY DEF Registers, Words
<1> HIDE DEF a2, b2, c2, v2
<1>3. \A r \in Reg : Hide(a2[r], b2[r], c2[r], v2[r])
  <2> TAKE r \in Reg
  <2>1. CASE r = out
    BY <1>1, <2>1
  <2>2. CASE r # out
    BY <1>2, <2>2 DEF Hides
  <2> QED
    BY <2>1, <2>2
<1>4. Hides(a2, b2, c2, v2)
  BY <1>3 DEF Hides
<1> QED
  BY <1>4 DEF a2, b2, c2, v2

LEMMA AlikeLoop ==
    ASSUME NEW n \in Nat, NEW fa, NEW fb, NEW fc, NEW g, Hides(fa[0], fb[0], fc[0], g[0]),
           \A i \in 1 .. n : Hides(fa[i - 1], fb[i - 1], fc[i - 1], g[i - 1])
                                => Hides(fa[i], fb[i], fc[i], g[i])
    PROVE  Hides(fa[n], fb[n], fc[n], g[n])
<1> DEFINE Good == {i \in 0 .. n : Hides(fa[i], fb[i], fc[i], g[i])}
<1>1. 0 \in Good
  OBVIOUS
<1>2. \A i \in 1 .. n : i - 1 \in Good => i \in Good
  OBVIOUS
<1>3. \A i \in 0 .. n : i \in Good
  <2> HIDE DEF Good
  <2> QED
    BY <1>1, <1>2, Climb
<1> QED
  BY <1>3

(* XORS. *)
LEMMA XorsAlike ==
    ASSUME NEW a \in Registers, NEW b \in Registers, NEW c \in Registers, NEW val \in Words,
           Hides(a, b, c, val), NEW gates \in Seq(Gate),
           \A g \in 1 .. Len(gates) : Len(gates[g].ops) = 2
    PROVE  /\ IdealXors(val, gates) \in Words
           /\ Hides(XorsOf(a, gates), XorsOf(b, gates), XorsOf(c, gates),
                    IdealXors(val, gates))
<1> DEFINE n == Len(gates)
<1>1. n \in Nat
  BY LenProperties
<1>3. PICK fa : /\ XorsRounds(fa, a, gates)
                /\ XorsOf(a, gates) = fa[n]
  BY <1>1, XorsLoop DEF XorsOf
<1>4. PICK fb : /\ XorsRounds(fb, b, gates)
                /\ XorsOf(b, gates) = fb[n]
  BY <1>1, XorsLoop DEF XorsOf
<1>5. PICK fc : /\ XorsRounds(fc, c, gates)
                /\ XorsOf(c, gates) = fc[n]
  BY <1>1, XorsLoop DEF XorsOf
<1>6. PICK g : /\ IdealXorsRounds(g, val, gates)
               /\ IdealXors(val, gates) = g[n]
  BY <1>1, IdealXorsLoop
<1> HIDE DEF n
<1>7. ASSUME NEW i \in 1 .. n, Hides(fa[i - 1], fb[i - 1], fc[i - 1], g[i - 1])
      PROVE  Hides(fa[i], fb[i], fc[i], g[i])
  <2> DEFINE j == i - 1
  <2>1. /\ fa[j] \in Registers /\ fb[j] \in Registers /\ fc[j] \in Registers
        /\ g[j] \in Words /\ i - 1 = j
    <3>1. j \in 0 .. n
      BY <1>1
    <3>2. fa[j] \in Registers
      BY <1>3, <3>1 DEF XorsRounds, n
    <3>3. fb[j] \in Registers
      BY <1>4, <3>1 DEF XorsRounds, n
    <3>4. fc[j] \in Registers
      BY <1>5, <3>1 DEF XorsRounds, n
    <3>5. g[j] \in Words
      BY <1>6, <3>1 DEF IdealXorsRounds, n
    <3> QED
      BY <3>2, <3>3, <3>4, <3>5
  <2>2. gates[i].out \in Reg /\ gates[i].ops[1] \in Reg /\ gates[i].ops[2] \in Reg
    <3>1. gates[i] \in Gate /\ Len(gates[i].ops) = 2
      BY ElementOfSeq DEF n
    <3> QED
      BY <3>1, ElementOfSeq DEF Gate
  <2>3. Hide(XorShares(fa[j][gates[i].ops[1]], fa[j][gates[i].ops[2]]),
             XorShares(fb[j][gates[i].ops[1]], fb[j][gates[i].ops[2]]),
             XorShares(fc[j][gates[i].ops[1]], fc[j][gates[i].ops[2]]),
             g[j][gates[i].ops[1]] (+) g[j][gates[i].ops[2]])
    BY <1>7, <2>1, <2>2, HideXor DEF Hides
  <2>4. /\ fa[i] = [fa[j] EXCEPT ![gates[i].out] =
                      XorShares(fa[j][gates[i].ops[1]], fa[j][gates[i].ops[2]])]
        /\ fb[i] = [fb[j] EXCEPT ![gates[i].out] =
                      XorShares(fb[j][gates[i].ops[1]], fb[j][gates[i].ops[2]])]
        /\ fc[i] = [fc[j] EXCEPT ![gates[i].out] =
                      XorShares(fc[j][gates[i].ops[1]], fc[j][gates[i].ops[2]])]
        /\ g[i] = [g[j] EXCEPT ![gates[i].out] =
                     g[j][gates[i].ops[1]] (+) g[j][gates[i].ops[2]]]
    BY <1>3, <1>4, <1>5, <1>6, <2>1 DEF XorsRounds, IdealXorsRounds, n, XorGate
  <2>5. Hides([fa[j] EXCEPT ![gates[i].out] =
                 XorShares(fa[j][gates[i].ops[1]], fa[j][gates[i].ops[2]])],
              [fb[j] EXCEPT ![gates[i].out] =
                 XorShares(fb[j][gates[i].ops[1]], fb[j][gates[i].ops[2]])],
              [fc[j] EXCEPT ![gates[i].out] =
                 XorShares(fc[j][gates[i].ops[1]], fc[j][gates[i].ops[2]])],
              [g[j] EXCEPT ![gates[i].out] =
                 g[j][gates[i].ops[1]] (+) g[j][gates[i].ops[2]]])
    <3> HIDE DEF j
    <3>1. Hides(fa[j], fb[j], fc[j], g[j])
      BY <1>7, <2>1
    <3> QED
      BY <2>1, <2>2, <2>3, <3>1, AlikeWrite
  <2> QED
    BY <2>4, <2>5
<1>8. Hides(fa[0], fb[0], fc[0], g[0])
  BY <1>3, <1>4, <1>5, <1>6 DEF XorsRounds, IdealXorsRounds
<1>9. Hides(fa[n], fb[n], fc[n], g[n])
  BY <1>1, <1>7, <1>8, AlikeLoop
<1>10. g[n] \in Words
  BY <1>1, <1>6 DEF IdealXorsRounds, n
<1> QED
  BY <1>3, <1>4, <1>5, <1>6, <1>9, <1>10

(* BITDECS. *)
LEMMA BitDecAlike ==
    ASSUME NEW a \in Registers, NEW b \in Registers, NEW c \in Registers, NEW val \in Words,
           Hides(a, b, c, val), NEW in \in Reg, NEW outs \in Seq(Reg)
    PROVE  /\ IdealBitDec(val, in, outs) \in Words
           /\ Hides(BitDecOf(a, in, outs), BitDecOf(b, in, outs), BitDecOf(c, in, outs),
                    IdealBitDec(val, in, outs))
<1> DEFINE n == Len(outs)
<1>1. n \in Nat
  BY LenProperties
<1>3. PICK fa : /\ BitDecRounds(fa, a, in, outs)
                /\ BitDecOf(a, in, outs) = fa[n]
  BY <1>1, BitDecLoop DEF BitDecOf
<1>4. PICK fb : /\ BitDecRounds(fb, b, in, outs)
                /\ BitDecOf(b, in, outs) = fb[n]
  BY <1>1, BitDecLoop DEF BitDecOf
<1>5. PICK fc : /\ BitDecRounds(fc, c, in, outs)
                /\ BitDecOf(c, in, outs) = fc[n]
  BY <1>1, BitDecLoop DEF BitDecOf
<1>6. PICK g : /\ IdealBitDecRounds(g, val, in, outs)
               /\ IdealBitDec(val, in, outs) = g[n]
  BY <1>1, IdealBitDecLoop
<1> HIDE DEF n
<1>7. ASSUME NEW i \in 1 .. n, Hides(fa[i - 1], fb[i - 1], fc[i - 1], g[i - 1])
      PROVE  Hides(fa[i], fb[i], fc[i], g[i])
  <2> DEFINE j == i - 1
  <2>1. /\ fa[j] \in Registers /\ fb[j] \in Registers /\ fc[j] \in Registers
        /\ g[j] \in Words /\ i - 1 = j
    <3>1. j \in 0 .. n
      BY <1>1
    <3>2. fa[j] \in Registers
      BY <1>3, <3>1 DEF BitDecRounds, n
    <3>3. fb[j] \in Registers
      BY <1>4, <3>1 DEF BitDecRounds, n
    <3>4. fc[j] \in Registers
      BY <1>5, <3>1 DEF BitDecRounds, n
    <3>5. g[j] \in Words
      BY <1>6, <3>1 DEF IdealBitDecRounds, n
    <3> QED
      BY <3>2, <3>3, <3>4, <3>5
  <2>2. outs[i] \in Reg
    BY ElementOfSeq DEF n
  <2>3. Hide(ShareBit(fa[j][in], j),
             ShareBit(fb[j][in], j),
             ShareBit(fc[j][in], j),
             Promise!Bit(g[j][in], j))
    BY <1>7, <2>1, <2>2, HideBit DEF Hides
  <2>4. /\ fa[i] = [fa[j] EXCEPT ![outs[i]] = ShareBit(fa[j][in], j)]
        /\ fb[i] = [fb[j] EXCEPT ![outs[i]] = ShareBit(fb[j][in], j)]
        /\ fc[i] = [fc[j] EXCEPT ![outs[i]] = ShareBit(fc[j][in], j)]
        /\ g[i] = [g[j] EXCEPT ![outs[i]] = Promise!Bit(g[j][in], j)]
    BY <1>3, <1>4, <1>5, <1>6, <2>1 DEF BitDecRounds, IdealBitDecRounds, n
  <2>5. Hides([fa[j] EXCEPT ![outs[i]] = ShareBit(fa[j][in], j)],
              [fb[j] EXCEPT ![outs[i]] = ShareBit(fb[j][in], j)],
              [fc[j] EXCEPT ![outs[i]] = ShareBit(fc[j][in], j)],
              [g[j] EXCEPT ![outs[i]] = Promise!Bit(g[j][in], j)])
    <3> HIDE DEF j
    <3>1. Hides(fa[j], fb[j], fc[j], g[j])
      BY <1>7, <2>1
    <3> QED
      BY <2>1, <2>2, <2>3, <3>1, AlikeWrite
  <2> QED
    BY <2>4, <2>5
<1>8. Hides(fa[0], fb[0], fc[0], g[0])
  BY <1>3, <1>4, <1>5, <1>6 DEF BitDecRounds, IdealBitDecRounds
<1>9. Hides(fa[n], fb[n], fc[n], g[n])
  BY <1>1, <1>7, <1>8, AlikeLoop
<1>10. g[n] \in Words
  BY <1>1, <1>6 DEF IdealBitDecRounds, n
<1> QED
  BY <1>3, <1>4, <1>5, <1>6, <1>9, <1>10

(* BITCOMS. *)
LEMMA BitComAlike ==
    ASSUME NEW a \in Registers, NEW b \in Registers, NEW c \in Registers, NEW val \in Words,
           Hides(a, b, c, val), NEW out \in Reg, NEW ins \in Seq(Reg)
    PROVE  /\ IdealBitCom(val, out, ins) \in Words
           /\ Hides(BitComOf(a, out, ins), BitComOf(b, out, ins), BitComOf(c, out, ins),
                    IdealBitCom(val, out, ins))
<1> DEFINE n == Len(ins)
<1>1. n \in Nat
  BY LenProperties
<1> DEFINE a0 == [a EXCEPT ![out] = Scalar({})]
           b0 == [b EXCEPT ![out] = Scalar({})]
           c0 == [c EXCEPT ![out] = Scalar({})]
           v0 == [val EXCEPT ![out] = {}]
<1>2. /\ a0 \in Registers /\ b0 \in Registers /\ c0 \in Registers
      /\ Hides(a0, b0, c0, v0)
  <2>1. Scalar({}) \in Share /\ Hide(Scalar({}), Scalar({}), Scalar({}), {})
    BY ShareParts, HideScalar DEF Vec
  <2> QED
    BY <2>1, AlikeWrite DEF Registers
<1>3. PICK fa : /\ BitComRounds(fa, a0, out, ins)
                /\ BitComOf(a, out, ins) = fa[n]
  BY <1>1, <1>2, BitComLoop DEF BitComOf
<1>4. PICK fb : /\ BitComRounds(fb, b0, out, ins)
                /\ BitComOf(b, out, ins) = fb[n]
  BY <1>1, <1>2, BitComLoop DEF BitComOf
<1>5. PICK fc : /\ BitComRounds(fc, c0, out, ins)
                /\ BitComOf(c, out, ins) = fc[n]
  BY <1>1, <1>2, BitComLoop DEF BitComOf
<1>6. PICK g : /\ IdealBitComRounds(g, val, out, ins)
               /\ IdealBitCom(val, out, ins) = g[n]
  BY <1>1, IdealBitComLoop
<1> HIDE DEF n, a0, b0, c0, v0
<1>7. ASSUME NEW i \in 1 .. n, Hides(fa[i - 1], fb[i - 1], fc[i - 1], g[i - 1])
      PROVE  Hides(fa[i], fb[i], fc[i], g[i])
  <2> DEFINE j == i - 1
  <2>1. /\ fa[j] \in Registers /\ fb[j] \in Registers /\ fc[j] \in Registers
        /\ g[j] \in Words /\ i - 1 = j
    <3>1. j \in 0 .. n
      BY <1>1
    <3>2. fa[j] \in Registers
      BY <1>3, <3>1 DEF BitComRounds, n
    <3>3. fb[j] \in Registers
      BY <1>4, <3>1 DEF BitComRounds, n
    <3>4. fc[j] \in Registers
      BY <1>5, <3>1 DEF BitComRounds, n
    <3>5. g[j] \in Words
      BY <1>6, <3>1 DEF IdealBitComRounds, n
    <3> QED
      BY <3>2, <3>3, <3>4, <3>5
  <2>2. out \in Reg /\ ins[i] \in Reg
    BY ElementOfSeq DEF n
  <2>3. Hide(XorShares(fa[j][out], ShiftShare(fa[j][ins[i]], j)),
             XorShares(fb[j][out], ShiftShare(fb[j][ins[i]], j)),
             XorShares(fc[j][out], ShiftShare(fc[j][ins[i]], j)),
             g[j][out] (+) Promise!Shift(g[j][ins[i]], j))
    BY <1>7, <2>1, <2>2, HideXor, HideShift DEF Hides
  <2>4. /\ fa[i] = [fa[j] EXCEPT ![out] = XorShares(fa[j][out], ShiftShare(fa[j][ins[i]], j))]
        /\ fb[i] = [fb[j] EXCEPT ![out] = XorShares(fb[j][out], ShiftShare(fb[j][ins[i]], j))]
        /\ fc[i] = [fc[j] EXCEPT ![out] = XorShares(fc[j][out], ShiftShare(fc[j][ins[i]], j))]
        /\ g[i] = [g[j] EXCEPT ![out] = g[j][out] (+) Promise!Shift(g[j][ins[i]], j)]
    BY <1>3, <1>4, <1>5, <1>6, <2>1 DEF BitComRounds, IdealBitComRounds, n
  <2>5. Hides([fa[j] EXCEPT ![out] = XorShares(fa[j][out], ShiftShare(fa[j][ins[i]], j))],
              [fb[j] EXCEPT ![out] = XorShares(fb[j][out], ShiftShare(fb[j][ins[i]], j))],
              [fc[j] EXCEPT ![out] = XorShares(fc[j][out], ShiftShare(fc[j][ins[i]], j))],
              [g[j] EXCEPT ![out] = g[j][out] (+) Promise!Shift(g[j][ins[i]], j)])
    <3> HIDE DEF j
    <3>1. Hides(fa[j], fb[j], fc[j], g[j])
      BY <1>7, <2>1
    <3> QED
      BY <2>1, <2>2, <2>3, <3>1, AlikeWrite
  <2> QED
    BY <2>4, <2>5
<1>8. Hides(fa[0], fb[0], fc[0], g[0])
  BY <1>3, <1>4, <1>5, <1>6, <1>2 DEF BitComRounds, IdealBitComRounds, v0
<1>9. Hides(fa[n], fb[n], fc[n], g[n])
  BY <1>1, <1>7, <1>8, AlikeLoop
<1>10. g[n] \in Words
  BY <1>1, <1>6 DEF IdealBitComRounds, n
<1> QED
  BY <1>3, <1>4, <1>5, <1>6, <1>9, <1>10

(* TRANS. *)
LEMMA HideColumn ==
    ASSUME NEW a, NEW b, NEW c, NEW val, NEW ins \in Seq(Reg), NEW i, Hides(a, b, c, val)
    PROVE  Hide(Column(ins, i, a), Column(ins, i, b), Column(ins, i, c),
                Promise!Column(ins, i, val))
<1> DEFINE Col(T)     == {r - 1 : r \in T}
           Rows(x, d) == {k \in DOMAIN ins : i - 1 \in x[ins[k]][d]}
           Held       == {k \in DOMAIN ins : i - 1 \in val[ins[k]]}
<1>1. DOMAIN ins = 1 .. Len(ins) /\ \A k \in 1 .. Len(ins) : ins[k] \in Reg
  BY LenProperties, ElementOfSeq
<1>2. ASSUME NEW T \in SUBSET Int, NEW U \in SUBSET Int
      PROVE  Col(T) (+) Col(U) = Col(T (+) U)
  <2>1. \A X \in SUBSET Int :
           Col(X) \in SUBSET Int /\ \A e \in Int : e \in Col(X) <=> e + 1 \in X
    <3> TAKE X \in SUBSET Int
    <3>1. \A e \in Int : e \in Col(X) => e + 1 \in X
      OBVIOUS
    <3>2. ASSUME NEW e \in Int, e + 1 \in X
          PROVE  e \in Col(X)
      <4>1. e = (e + 1) - 1
        OBVIOUS
      <4> QED
        BY <3>2, <4>1
    <3> QED
      BY <3>1, <3>2
  <2>2. T (+) U \in SUBSET Int
    BY DEF (+)
  <2> HIDE DEF Col
  <2>3. \A e \in Int : e \in Col(T) (+) Col(U) <=> e \in Col(T (+) U)
    BY <2>1, <2>2 DEF (+)
  <2>4. Col(T) (+) Col(U) \in SUBSET Int
    BY <2>1 DEF (+)
  <2> QED
    BY <2>1, <2>2, <2>3, <2>4
<1>3. /\ Held \in SUBSET Int
      /\ \A x, d : Rows(x, d) \in SUBSET Int
  BY <1>1
<1>4. /\ Rows(a, 0) (+) Rows(c, 0) = Held /\ Rows(b, 0) (+) Rows(c, 1) = Held
      /\ Rows(a, 1) = Rows(c, 1) /\ Rows(b, 1) = Rows(c, 0)
  <2>1. \A k \in DOMAIN ins : Hide(a[ins[k]], b[ins[k]], c[ins[k]], val[ins[k]])
    BY <1>1 DEF Hides
  <2>2. Rows(a, 1) = Rows(c, 1) /\ Rows(b, 1) = Rows(c, 0)
    BY <2>1 DEF Hide
  <2>3. Rows(a, 0) (+) Rows(c, 0) = Held
    BY <2>1 DEF Hide, (+)
  <2>4. Rows(b, 0) (+) Rows(c, 1) = Held
    BY <2>1 DEF Hide, (+)
  <2> QED
    BY <2>2, <2>3, <2>4
<1>5. /\ \A x : Column(ins, i, x)[0] = Col(Rows(x, 0)) /\ Column(ins, i, x)[1] = Col(Rows(x, 1))
      /\ Promise!Column(ins, i, val) = Col(Held)
  BY DEF Column, Promise!Column
<1> HIDE DEF Col, Rows, Held
<1>6. /\ Col(Rows(a, 0)) (+) Col(Rows(c, 0)) = Col(Held)
      /\ Col(Rows(b, 0)) (+) Col(Rows(c, 1)) = Col(Held)
  BY <1>2, <1>3, <1>4
<1> QED
  BY <1>4, <1>5, <1>6 DEF Hide

LEMMA TransAlike ==
    ASSUME NEW a \in Registers, NEW b \in Registers, NEW c \in Registers, NEW val \in Words,
           Hides(a, b, c, val), NEW ins \in Seq(Reg), Len(ins) <= W,
           NEW outs \in Seq(Reg)
    PROVE  /\ IdealTrans(val, ins, outs) \in Words
           /\ Hides(TransOf(a, ins, outs), TransOf(b, ins, outs), TransOf(c, ins, outs),
                    IdealTrans(val, ins, outs))
<1> DEFINE n == Len(outs)
<1>1. n \in Nat
  BY LenProperties
<1>3. PICK fa : /\ TransRounds(fa, a, ins, outs)
                /\ TransOf(a, ins, outs) = fa[n]
  BY <1>1, TransLoop DEF TransOf
<1>4. PICK fb : /\ TransRounds(fb, b, ins, outs)
                /\ TransOf(b, ins, outs) = fb[n]
  BY <1>1, TransLoop DEF TransOf
<1>5. PICK fc : /\ TransRounds(fc, c, ins, outs)
                /\ TransOf(c, ins, outs) = fc[n]
  BY <1>1, TransLoop DEF TransOf
<1>6. PICK g : /\ IdealTransRounds(g, val, ins, outs)
               /\ IdealTrans(val, ins, outs) = g[n]
  BY <1>1, IdealTransLoop
<1> HIDE DEF n
<1>7. ASSUME NEW i \in 1 .. n, Hides(fa[i - 1], fb[i - 1], fc[i - 1], g[i - 1])
      PROVE  Hides(fa[i], fb[i], fc[i], g[i])
  <2> DEFINE j == i - 1
  <2>1. /\ fa[j] \in Registers /\ fb[j] \in Registers /\ fc[j] \in Registers
        /\ g[j] \in Words /\ i - 1 = j
    <3>1. j \in 0 .. n
      BY <1>1
    <3>2. fa[j] \in Registers
      BY <1>3, <3>1 DEF TransRounds, n
    <3>3. fb[j] \in Registers
      BY <1>4, <3>1 DEF TransRounds, n
    <3>4. fc[j] \in Registers
      BY <1>5, <3>1 DEF TransRounds, n
    <3>5. g[j] \in Words
      BY <1>6, <3>1 DEF IdealTransRounds, n
    <3> QED
      BY <3>2, <3>3, <3>4, <3>5
  <2>2. outs[i] \in Reg
    BY ElementOfSeq DEF n
  <2>3. Hide(Column(ins, i, a),
             Column(ins, i, b),
             Column(ins, i, c),
             Promise!Column(ins, i, val))
    BY HideColumn
  <2>4. /\ fa[i] = [fa[j] EXCEPT ![outs[i]] = Column(ins, i, a)]
        /\ fb[i] = [fb[j] EXCEPT ![outs[i]] = Column(ins, i, b)]
        /\ fc[i] = [fc[j] EXCEPT ![outs[i]] = Column(ins, i, c)]
        /\ g[i] = [g[j] EXCEPT ![outs[i]] = Promise!Column(ins, i, val)]
    BY <1>3, <1>4, <1>5, <1>6, <2>1 DEF TransRounds, IdealTransRounds, n
  <2>5. Hides([fa[j] EXCEPT ![outs[i]] = Column(ins, i, a)],
              [fb[j] EXCEPT ![outs[i]] = Column(ins, i, b)],
              [fc[j] EXCEPT ![outs[i]] = Column(ins, i, c)],
              [g[j] EXCEPT ![outs[i]] = Promise!Column(ins, i, val)])
    <3> HIDE DEF j
    <3>1. Hides(fa[j], fb[j], fc[j], g[j])
      BY <1>7, <2>1
    <3> QED
      BY <2>1, <2>2, <2>3, <3>1, AlikeWrite
  <2> QED
    BY <2>4, <2>5
<1>8. Hides(fa[0], fb[0], fc[0], g[0])
  BY <1>3, <1>4, <1>5, <1>6 DEF TransRounds, IdealTransRounds
<1>9. Hides(fa[n], fb[n], fc[n], g[n])
  BY <1>1, <1>7, <1>8, AlikeLoop
<1>10. g[n] \in Words
  BY <1>1, <1>6 DEF IdealTransRounds, n
<1> QED
  BY <1>3, <1>4, <1>5, <1>6, <1>9, <1>10

-----------------------------------------------------------------------------
(* What the instructions that send nothing make of the words that are      *)
(* hidden; constants are lost (see vm_constants).                          *)
LocalValue(ins, val, clears) ==
    IF ins.op = "xors" THEN IdealXors(val, ins.gates)
    ELSE IF ins.op = "nots" THEN [val EXCEPT ![ins.out] = Mask(val[ins.in], ins.n)]
    ELSE IF ins.op = "ldbits" THEN [val EXCEPT ![ins.out] = {}]
    ELSE IF ins.op = "andm"
    THEN [val EXCEPT ![ins.out] = val[ins.in] \cap clears[ins.clear]]
    ELSE IF ins.op = "movsb" THEN [val EXCEPT ![ins.out] = val[ins.in]]
    ELSE IF ins.op = "bitdecs" THEN IdealBitDec(val, ins.in, ins.outs)
    ELSE IF ins.op = "bitcoms" THEN IdealBitCom(val, ins.out, ins.ins)
    ELSE IdealTrans(val, ins.ins, ins.outs)

LEMMA LocalAlike ==
    ASSUME NEW prog \in Programs, NEW k \in 1 .. Len(prog), NEW ins, ins = prog[k],
           ins.op \in LocalOps, NEW clears,
           NEW a \in Registers, NEW b \in Registers, NEW c \in Registers,
           NEW val \in Words, Hides(a, b, c, val)
    PROVE  /\ LocalValue(ins, val, clears) \in Words
           /\ Hides(AfterLocal(ins, a, clears), AfterLocal(ins, b, clears),
                    AfterLocal(ins, c, clears), LocalValue(ins, val, clears))
<1>1. CASE ins.op = "xors"
  <2>1. ins.gates \in Seq(Gate) /\ \A g \in 1 .. Len(ins.gates) : Len(ins.gates[g].ops) = 2
    BY <1>1, InstructionFacts
  <2>2. /\ IdealXors(val, ins.gates) \in Words
        /\ Hides(XorsOf(a, ins.gates), XorsOf(b, ins.gates), XorsOf(c, ins.gates),
                 IdealXors(val, ins.gates))
    BY <2>1, XorsAlike
  <2> QED
    BY <1>1, <2>2 DEF AfterLocal, LocalValue
<1>2. CASE ins.op = "nots"
  <2>1. ins.out \in Reg /\ ins.in \in Reg
    BY <1>2, InstructionFacts
  <2> DEFINE i == ins.in
             N(s) == MaskShare(XorShares(s, Scalar(Lane)), ins.n)
  <2>2. Hide(a[i], b[i], c[i], val[i]) /\ val[i] \in Vec
    BY <2>1 DEF Hides, Words
  <2>3. val[i] (+) {} = val[i]
    BY DEF (+)
  <2>4. Hide(XorShares(a[i], Scalar(Lane)), XorShares(b[i], Scalar(Lane)),
             XorShares(c[i], Scalar(Lane)), val[i])
    BY <2>2, <2>3, HideScalar, HideXor
  <2>5. Hide(N(a[i]), N(b[i]), N(c[i]), Mask(val[i], ins.n)) /\ Mask(val[i], ins.n) \in Vec
    BY <2>2, <2>4, HideMask, VecClosed
  <2> HIDE DEF N
  <2>6. Hides([a EXCEPT ![ins.out] = N(a[i])], [b EXCEPT ![ins.out] = N(b[i])],
              [c EXCEPT ![ins.out] = N(c[i])], [val EXCEPT ![ins.out] = Mask(val[i], ins.n)])
    BY <2>1, <2>5, AlikeWrite
  <2> QED
    BY <1>2, <2>5, <2>6 DEF AfterLocal, LocalValue, N, Words
<1>3. CASE ins.op = "ldbits"
  <2>1. ins.out \in Reg /\ {} \in Vec
    BY <1>3, InstructionFacts DEF Vec
  <2> DEFINE s == Scalar(ins.value)
  <2>2. Hide(s, s, s, {})
    BY HideScalar
  <2> HIDE DEF s
  <2>3. Hides([a EXCEPT ![ins.out] = s], [b EXCEPT ![ins.out] = s],
              [c EXCEPT ![ins.out] = s], [val EXCEPT ![ins.out] = {}])
    BY <2>1, <2>2, AlikeWrite
  <2> QED
    BY <1>3, <2>1, <2>3 DEF AfterLocal, LocalValue, s, Words
<1>4. CASE ins.op = "andm"
  <2>1. ins.out \in Reg /\ ins.in \in Reg
    BY <1>4, InstructionFacts
  <2> DEFINE i == ins.in
             x == clears[ins.clear]
  <2>2. Hide(a[i], b[i], c[i], val[i]) /\ val[i] \in Vec
    BY <2>1 DEF Hides, Words
  <2>3. Hide(ClearAnd(a[i], x), ClearAnd(b[i], x), ClearAnd(c[i], x), val[i] \cap x)
    BY <2>2, HideAnd
  <2>4. val[i] \cap x \in Vec
    BY <2>2 DEF Vec
  <2>5. Hides([a EXCEPT ![ins.out] = ClearAnd(a[i], x)], [b EXCEPT ![ins.out] = ClearAnd(b[i], x)],
              [c EXCEPT ![ins.out] = ClearAnd(c[i], x)], [val EXCEPT ![ins.out] = val[i] \cap x])
    BY <2>1, <2>3, AlikeWrite
  <2> QED
    BY <1>4, <2>4, <2>5 DEF AfterLocal, LocalValue, ClearAnd, Words
<1>5. CASE ins.op = "movsb"
  <2>1. ins.out \in Reg /\ ins.in \in Reg
    BY <1>5, InstructionFacts
  <2> DEFINE i == ins.in
  <2>2. Hide(a[i], b[i], c[i], val[i]) /\ val[i] \in Vec
    BY <2>1 DEF Hides, Words
  <2>3. Hides([a EXCEPT ![ins.out] = a[i]], [b EXCEPT ![ins.out] = b[i]],
              [c EXCEPT ![ins.out] = c[i]], [val EXCEPT ![ins.out] = val[i]])
    BY <2>1, <2>2, AlikeWrite
  <2> QED
    BY <1>5, <2>2, <2>3 DEF AfterLocal, LocalValue, Words
<1>6. CASE ins.op = "bitdecs"
  <2>1. ins.in \in Reg /\ ins.outs \in Seq(Reg)
    BY <1>6, InstructionFacts
  <2> QED
    BY <1>6, <2>1, BitDecAlike DEF AfterLocal, LocalValue
<1>7. CASE ins.op = "bitcoms"
  <2>1. ins.out \in Reg /\ ins.ins \in Seq(Reg)
    BY <1>7, InstructionFacts
  <2> QED
    BY <1>7, <2>1, BitComAlike DEF AfterLocal, LocalValue
<1>8. CASE ins.op = "trans"
  <2>1. ins.outs \in Seq(Reg) /\ ins.ins \in Seq(Reg) /\ Len(ins.ins) <= W
    BY <1>8, InstructionFacts
  <2> QED
    BY <1>8, <2>1, TransAlike DEF AfterLocal, LocalValue
<1> QED
  BY <1>1, <1>2, <1>3, <1>4, <1>5, <1>6, <1>7, <1>8 DEF LocalOps

(* The compiler means the same, constants apart. *)
LEMMA LocalPromised ==
    ASSUME NEW k, program[k].op \in LocalOps, Kept(program[k]), NEW val \in Words,
           NEW clears, NEW bit
    PROVE  Promise!SecretsAfter(k, val, clears, bit) = LocalValue(program[k], val, clears)
<1> DEFINE ins == program[k]
<1>1. CASE ins.op = "xors"
  BY <1>1 DEF Promise!SecretsAfter, LocalValue, IdealXors
<1>2. CASE ins.op = "ldbits"
  BY <1>2 DEF Promise!SecretsAfter, LocalValue, Kept
<1>3. CASE ins.op = "andm"
  BY <1>3 DEF Promise!SecretsAfter, LocalValue
<1>4. CASE ins.op = "movsb"
  BY <1>4 DEF Promise!SecretsAfter, LocalValue
<1>5. CASE ins.op = "bitdecs"
  BY <1>5 DEF Promise!SecretsAfter, LocalValue, IdealBitDec
<1>6. CASE ins.op = "bitcoms"
  BY <1>6 DEF Promise!SecretsAfter, LocalValue, IdealBitCom
<1>7. CASE ins.op = "trans"
  BY <1>7 DEF Promise!SecretsAfter, LocalValue, IdealTrans
<1> QED
  BY <1>1, <1>2, <1>3, <1>4, <1>5, <1>6, <1>7 DEF LocalOps, Kept

-----------------------------------------------------------------------------
(***************************************************************************)
(* What each finished instruction has made of a party's registers can be   *)
(* read off the histories.                                                 *)
(***************************************************************************)

(* What an item of an INPUTB stores at party p. *)
PlannedShare(p, b, i) ==
    LET item  == program[b].items[i]
        share == DealingsFor(item.from, b)[Nth(program[b].items, i)][p]
    IN  MaskShare(IF item.from = p THEN share
                  ELSE Sh(Packed(share[0], item.n), Packed(share[1], item.n)), item.n)

PlannedRounds(f, regs, p, b) ==
    LET items == program[b].items
    IN  /\ f \in [0 .. Len(items) -> Registers]
        /\ f[0] = regs
        /\ \A i \in 1 .. Len(items) :
              f[i] = [f[i - 1] EXCEPT ![items[i].out] = PlannedShare(p, b, i)]

Stored(p, b, regs, new) ==
    \E f : PlannedRounds(f, regs, p, b) /\ new = f[Len(program[b].items)]

(* A random bit is one in either component. *)
Tossed(regs, out, new) == \E s : s[0] \in {{}, {0}} /\ new = [regs EXCEPT ![out] = s]

Outcome(p, b, regs, new, clears, others) ==
    LET ins == program[b]
    IN  /\ ins.op \in LocalOps => new = AfterLocal(ins, regs, clears)
        /\ ins.op = "bitb" => Tossed(regs, ins.out, new)
        /\ ins.op = "inputb" => Stored(p, b, regs, new)
        /\ ins.op = "reveal" =>
              /\ new = regs
              /\ others = RevealOf(clears, p, regs, ins.items, ShownBy(Before(p), b))
        /\ ins.op # "reveal" => others = clears

Effect(p, b) == Outcome(p, b, log[p][b], log[p][b + 1], clog[p][b], clog[p][b + 1])

Blank == [c \in CReg |-> {}]

Computed ==
    \A p \in Party : clog[p][1] = Blank /\ \A b \in 1 .. ip[p] - 1 : Effect(p, b)

(* A step adds nothing to the histories, or one instruction of one party.  *)
Waits == UNCHANGED <<program, tape, input, ip, log, clog>>

Finishes(r) ==
    /\ UNCHANGED <<program, tape, input>>
    /\ ip' = [ip EXCEPT ![r] = ip[r] + 1]
    /\ log' = [log EXCEPT ![r] = Append(log[r], S'[r])]
    /\ clog' = [clog EXCEPT ![r] = Append(clog[r], C'[r])]
    /\ Outcome(r, ip[r], S[r], S'[r], C[r], C'[r])
    /\ program[ip[r]].op # "ands" => S[r] = log[r][ip[r]]
    /\ program[ip[r]].op = "reveal" => ip[r] <= ip[Before(r)]

LEMMA Here ==
    ASSUME MachineInv, NEW r \in Party, pc[r] # "finalize"
    PROVE  S[r] = log[r][ip[r]]
BY MachineBacked DEF Own, Logged

LEMMA LocalFinishes ==
    ASSUME MachineInv, NEW r \in Party, LocalStep(r)
    PROVE  Finishes(r)
<1>1. PICK ins, regs : ins = program[ip[r]] /\ regs = AfterLocal(ins, S[r], C[r])
  OBVIOUS
<1>2. ins.op \in LocalOps /\ Assign(r, ins.op, regs)
  BY <1>1 DEF LocalStep, Local
<1>3. /\ pc[r] = "idle" /\ S' = [S EXCEPT ![r] = regs] /\ UNCHANGED <<input, C>> /\ Advance(r)
  BY <1>2 DEF Assign
<1>4. /\ UNCHANGED <<program, tape>> /\ ip' = [ip EXCEPT ![r] = ip[r] + 1]
      /\ log' = [log EXCEPT ![r] = Append(log[r], S'[r])]
      /\ clog' = [clog EXCEPT ![r] = Append(clog[r], C'[r])]
  BY <1>3 DEF Advance
<1>5. S'[r] = regs
  BY <1>3, HereFacts
<1>6. ins.op # "inputb" /\ ins.op # "reveal" /\ ins.op # "bitb"
  BY <1>2 DEF LocalOps
<1>7. Outcome(r, ip[r], S[r], S'[r], C[r], C'[r])
  BY <1>1, <1>2, <1>3, <1>5, <1>6 DEF Outcome
<1> QED
  BY <1>1, <1>3, <1>4, <1>6, <1>7, Here DEF Finishes

LEMMA BitBFinishes ==
    ASSUME MachineInv, NEW r \in Party, BitB(r)
    PROVE  Finishes(r)
<1>1. PICK store, out :
         /\ store = (IF prep[r].bits = <<>> THEN NewBits(r) ELSE prep[r].bits)
         /\ out = program[ip[r]].out
         /\ Assign(r, "bitb", [S[r] EXCEPT ![out] = store[Len(store)]])
  BY DEF BitB, Instruction
<1>2. /\ pc[r] = "idle" /\ UNCHANGED <<input, C>> /\ Advance(r) /\ program[ip[r]].op = "bitb"
      /\ S' = [S EXCEPT ![r] = [S[r] EXCEPT ![out] = store[Len(store)]]]
  BY <1>1 DEF Assign, At
<1>3. /\ UNCHANGED <<program, tape>> /\ ip' = [ip EXCEPT ![r] = ip[r] + 1]
      /\ log' = [log EXCEPT ![r] = Append(log[r], S'[r])]
      /\ clog' = [clog EXCEPT ![r] = Append(clog[r], C'[r])]
  BY <1>2 DEF Advance
<1>4. PICK bits : bits = prep[r].bits /\ bits \in Seq(Share)
  <2>1. prep[r] \in PrepStates
    BY HereFacts
  <2> QED
    BY <2>1 DEF PrepStates
<1>5. \E seed, i : store[Len(store)][0] = GetBit(seed, i)
  <2>1. CASE bits = <<>>
    <3>1. store = NewBits(r) /\ Len(store) = BatchSize /\ BatchSize \in 1 .. BatchSize
      BY <1>1, <1>4, <2>1, NewBitsType
    <3> QED
      BY <3>1, NewBitsType
  <2>2. CASE bits # <<>>
    <3>1. store = bits
      BY <1>1, <1>4, <2>2
    <3>2. Len(bits) \in 1 .. Len(bits)
      BY <1>4, <2>2
    <3> QED
      BY <1>4, <3>1, <3>2, MachineBacked DEF Stocked
  <2> QED
    BY <2>1, <2>2
<1>6. PICK s : s = store[Len(store)]
  OBVIOUS
<1>7. s[0] \in {{}, {0}} /\ S'[r] = [S[r] EXCEPT ![out] = s]
  <2>1. s[0] \in {{}, {0}}
    BY <1>5, <1>6 DEF GetBit
  <2> QED
    BY <2>1, <1>2, <1>6, HereFacts
<1>8. Tossed(S[r], program[ip[r]].out, S'[r])
  <2>1. PICK before, after : before = S[r] /\ after = S'[r]
    OBVIOUS
  <2>2. Tossed(before, out, after)
    BY <2>1, <1>7 DEF Tossed
  <2>3. out = program[ip[r]].out
    BY <1>1
  <2>4. Tossed(S[r], out, S'[r])
    BY <2>1, <2>2
  <2> QED
    BY <2>3, <2>4
<1>9. Outcome(r, ip[r], S[r], S'[r], C[r], C'[r])
  BY <1>2, <1>8 DEF Outcome, LocalOps
<1> QED
  BY <1>2, <1>3, <1>9, Here DEF Finishes

LEMMA OpenFinishes ==
    ASSUME MachineInv, NEW r \in Party, OpenReceive(r)
    PROVE  Finishes(r)
<1>1. PICK b \in Party : b = Before(r)
  BY Neighbours
<1>2. /\ pc[r] = "open" /\ chan[b][r] # <<>> /\ UNCHANGED <<S, input>> /\ Advance(r)
  BY <1>1 DEF OpenReceive
<1>3. At(r, "reveal") /\ Head(chan[b][r]).words = ShownBy(b, ip[r]) /\ ip[r] <= ip[b]
  BY <1>1, <1>2, RevealHead
<1>4. program[ip[r]].op = "reveal"
  BY <1>3 DEF At
<1>5. C' = [C EXCEPT ![r] = RevealOf(C[r], r, S[r], Instruction(r).items,
                                     Head(chan[Before(r)][r]).words)]
  BY DEF OpenReceive, RevealOf
<1>6. C'[r] = RevealOf(C[r], r, S[r], program[ip[r]].items, ShownBy(Before(r), ip[r]))
  BY <1>1, <1>3, <1>5, HereFacts DEF Instruction
<1>7. /\ UNCHANGED <<program, tape>> /\ ip' = [ip EXCEPT ![r] = ip[r] + 1]
      /\ log' = [log EXCEPT ![r] = Append(log[r], S'[r])]
      /\ clog' = [clog EXCEPT ![r] = Append(clog[r], C'[r])]
  BY <1>2 DEF Advance
<1>8. Outcome(r, ip[r], S[r], S'[r], C[r], C'[r])
  BY <1>2, <1>4, <1>6 DEF Outcome, LocalOps
<1> QED
  BY <1>1, <1>2, <1>3, <1>7, <1>8, Here DEF Finishes

(* What a party has collected for an item is what was planned for it. *)
LEMMA CollectedPlanned ==
    ASSUME MachineInv, NEW r \in Party, pc[r] = "input_store",
           NEW k \in 1 .. Len(program), k = ip[r], program[k].op = "inputb",
           NEW i \in 1 .. Len(program[k].items)
    PROVE  InputShare(r, i) = PlannedShare(r, k, i)
<1>1. PICK items, from, nth : /\ items = program[k].items /\ from = items[i].from
                              /\ nth = Nth(items, i)
  OBVIOUS
<1>2. items \in Seq(Dealing) /\ i \in 1 .. Len(items) /\ items = Instruction(r).items
  BY <1>1, MineCount DEF Instruction
<1>3. from \in Party /\ i \in From(items, from)
  <2>1. items[i] \in Dealing /\ DOMAIN items = 1 .. Len(items)
    BY <1>2, ElementOfSeq, LenProperties
  <2> QED
    BY <1>1, <1>2, <2>1 DEF Dealing, From
<1>4. PICK n \in Nat : n = Len(Mine(from, k)) /\ nth \in 1 .. n
  <2>1. /\ Len(Mine(from, k)) = Cardinality(From(items, from))
        /\ Len(Mine(from, k)) \in Nat
    BY <1>1, MineCount
  <2>2. nth \in 1 .. Cardinality(From(items, from))
    BY <1>1, <1>2, <1>3, ItemNumbers
  <2> QED
    BY <2>1, <2>2
<1>5. Mine(from, k) # <<>>
  <2>1. Mine(from, k) = <<>> <=> n = 0
    BY <1>4, MineCount
  <2> QED
    BY <1>4, <2>1
<1>6. PICK d : d = DealingsFor(from, k)[nth][r]
  OBVIOUS
<1>7. CASE from = r
  <2>1. dealt[r] = [j \in 1 .. n |-> DealingsFor(r, k)[j][r]]
    <3>1. Reading(r) /\ pc[r] \in Exchanged
      BY MachineBacked DEF Exchanged
    <3>2. dealt[r] = [j \in 1 .. Len(Mine(r, k)) |-> DealingsFor(r, k)[j][r]]
      BY <3>1 DEF Reading
    <3> QED
      BY <1>4, <1>7, <3>2
  <2>2. dealt[r][nth] = DealingsFor(r, k)[nth][r]
    BY <1>4, <2>1
  <2>3. InputShare(r, i) = MaskShare(dealt[r][nth], items[i].n)
    BY <1>1, <1>2, <1>7 DEF InputShare
  <2>4. PlannedShare(r, k, i) = MaskShare(d, items[i].n)
    BY <1>1, <1>6, <1>7 DEF PlannedShare
  <2> QED
    BY <1>6, <1>7, <2>2, <2>3, <2>4
<1>8. CASE from # r
  <2>1. received[r][from] = InputsFor(from, r, k)
    <3>1. from = After(r) \/ from = Before(r)
      BY <1>3, <1>8, Neighbours
    <3> QED
      BY <1>5, <3>1, MachineBacked DEF Reading
  <2>2. PICK ws : ws = received[r][from]
    OBVIOUS
  <2>3. PICK m : m = items[i].n /\ Mine(from, k)[nth].n = m
    BY <1>1, <1>2, <1>3, ItemNumbers DEF Mine
  <2>4. ws[2 * nth - 1] = Packed(d[0], m) /\ ws[2 * nth] = Packed(d[1], m)
    <3>1. ws = [h \in 1 .. 2 * n |->
                  Packed(DealingsFor(from, k)[(h + 1) \div 2][r][(h + 1) % 2],
                         Mine(from, k)[(h + 1) \div 2].n)]
      BY <1>4, <2>1, <2>2 DEF InputsFor, PackedFor
    <3>2. /\ 2 * nth - 1 \in 1 .. 2 * n /\ 2 * nth \in 1 .. 2 * n
          /\ (2 * nth - 1 + 1) \div 2 = nth /\ (2 * nth - 1 + 1) % 2 = 0
          /\ (2 * nth + 1) \div 2 = nth /\ (2 * nth + 1) % 2 = 1
      BY <1>4
    <3>3. PICK h1, h2 : h1 = 2 * nth - 1 /\ h2 = 2 * nth
      OBVIOUS
    <3>4. ws[h1] = Packed(d[0], m)
      BY <1>6, <2>3, <3>1, <3>2, <3>3
    <3>5. ws[h2] = Packed(d[1], m)
      BY <1>6, <2>3, <3>1, <3>2, <3>3
    <3> QED
      BY <3>3, <3>4, <3>5
  <2>5. InputShare(r, i) = MaskShare(Sh(ws[2 * nth - 1], ws[2 * nth]), m)
    BY <1>1, <1>2, <1>8, <2>2, <2>3 DEF InputShare
  <2>6. PlannedShare(r, k, i) = MaskShare(Sh(Packed(d[0], m), Packed(d[1], m)), m)
    BY <1>1, <1>6, <1>8, <2>3 DEF PlannedShare
  <2> QED
    BY <2>4, <2>5, <2>6
<1> QED
  BY <1>7, <1>8

LEMMA InputFinishes ==
    ASSUME MachineInv, NEW r \in Party, InputStore(r)
    PROVE  Finishes(r)
<1>1. PICK k, items : k = ip[r] /\ items = program[k].items
  OBVIOUS
<1>2. /\ pc[r] = "input_store" /\ UNCHANGED <<input, C>> /\ Advance(r)
      /\ S' = [S EXCEPT ![r] = InputOf(S[r], r, items)]
  <2>1. S' = [S EXCEPT ![r] = InputOf(S[r], r, Instruction(r).items)]
    BY DEF InputStore, InputOf
  <2> QED
    BY <1>1, <2>1 DEF InputStore, Instruction
<1>3. /\ program[k].op = "inputb" /\ k \in 1 .. Len(program)
  BY <1>1, <1>2, InputHere DEF Inputting
<1>4. S[r] \in Registers /\ S'[r] = InputOf(S[r], r, items)
  BY <1>2, HereFacts
<1>5. items \in Seq(Dealing)
  BY <1>1, <1>3, MineCount
<1>6. \A i \in 1 .. Len(items) : /\ InputShare(r, i) \in Share
                                /\ InputShare(r, i) = PlannedShare(r, k, i)
  BY <1>1, <1>2, <1>3, InputShareType, CollectedPlanned
<1>7. PICK f : InputRounds(f, S[r], r, items) /\ InputOf(S[r], r, items) = f[Len(items)]
  BY <1>4, <1>5, <1>6, InputLoop
<1>8. PlannedRounds(f, S[r], r, k)
  BY <1>1, <1>6, <1>7 DEF InputRounds, PlannedRounds
<1>9. Stored(r, k, S[r], S'[r])
  BY <1>1, <1>4, <1>7, <1>8 DEF Stored
<1>10. Outcome(r, ip[r], S[r], S'[r], C[r], C'[r])
  BY <1>1, <1>2, <1>3, <1>9 DEF Outcome, LocalOps
<1>11. /\ UNCHANGED <<program, tape>> /\ ip' = [ip EXCEPT ![r] = ip[r] + 1]
       /\ log' = [log EXCEPT ![r] = Append(log[r], S'[r])]
       /\ clog' = [clog EXCEPT ![r] = Append(clog[r], C'[r])]
  BY <1>2 DEF Advance
<1> QED
  BY <1>1, <1>2, <1>3, <1>10, <1>11, Here DEF Finishes

LEMMA AndsFinishes ==
    ASSUME MachineInv, NEW r \in Party, Ands(r)
    PROVE  Waits \/ Finishes(r)
<1>1. /\ Step(r) /\ UNCHANGED <<input, C>>
      /\ clog' = [clog EXCEPT ![r] = IF ip'[r] = ip[r] THEN @ ELSE Append(@, C[r])]
  BY DEF Ands
<1>2. /\ UNCHANGED <<program, tape>> /\ (FinalizeMul(r) \/ (log' = log /\ ip' = ip))
  BY <1>1, StepHistory
<1>3. clog \in [Party -> Seq(ClearRegs)] /\ ip \in [Party -> Nat \ {0}]
  BY HereFacts
<1>4. CASE ip' = ip /\ log' = log
  <2>1. clog' = clog
    BY <1>1, <1>3, <1>4
  <2> QED
    BY <1>1, <1>2, <1>4, <2>1 DEF Waits
<1>5. CASE FinalizeMul(r) /\ ~(ip' = ip /\ log' = log)
  <2>1. /\ ip' = [ip EXCEPT ![r] = ip[r] + 1]
        /\ log' = [log EXCEPT ![r] = Append(log[r], S'[r])]
        /\ pc[r] = "finalize"
    BY <1>5 DEF FinalizeMul
  <2>2. ip'[r] = ip[r] + 1 /\ ip'[r] # ip[r]
    BY <1>3, <2>1
  <2>3. clog' = [clog EXCEPT ![r] = Append(clog[r], C'[r])]
    BY <1>1, <2>2
  <2>4. program[ip[r]].op = "ands"
    BY <2>1, BatchHere DEF Batch
  <2>5. Outcome(r, ip[r], S[r], S'[r], C[r], C'[r])
    BY <1>1, <2>4 DEF Outcome, LocalOps
  <2> QED
    BY <1>1, <1>2, <2>1, <2>3, <2>4, <2>5 DEF Finishes
<1> QED
  BY <1>2, <1>4, <1>5

LEMMA MachineHistories ==
    ASSUME MachineInv, NEW r \in Party, MachineStep(r)
    PROVE  Waits \/ Finishes(r)
<1>1. CASE PrepSend(r) \/ PrepReceive(r)
  BY <1>1 DEF PrepSend, PrepReceive, Waits
<1>2. CASE Ands(r)
  BY <1>2, AndsFinishes
<1>3. CASE \/ Xors(r) \/ Nots(r) \/ LoadClear(r) \/ AndClear(r) \/ Move(r) \/ BitDec(r)
           \/ BitCom(r) \/ Transpose(r)
  BY <1>3, LocalSteps, LocalFinishes
<1>4. CASE BitB(r)
  BY <1>4, BitBFinishes
<1>5. CASE OpenSend(r) \/ InputSetup(r) \/ DiscardSeedNext(r) \/ DiscardSeedPrev(r)
  BY <1>5 DEF OpenSend, InputSetup, DiscardSeedNext, DiscardSeedPrev, DiscardSeed, Waits, machine
<1>6. CASE OpenReceive(r)
  BY <1>6, OpenFinishes
<1>7. CASE InputSend(r) \/ InputReceiveNext(r) \/ InputReceivePrev(r)
  BY <1>7 DEF InputSend, InputReceiveNext, InputReceivePrev, InputReceive, Waits
<1>8. CASE InputStore(r)
  BY <1>8, InputFinishes
<1> QED
  BY <1>1, <1>2, <1>3, <1>4, <1>5, <1>6, <1>7, <1>8 DEF MachineStep, Execute

(* The histories only grow, so that what they say stays true. *)
LEMMA OutcomeSame ==
    ASSUME MachineInv, NEW p \in Party, NEW b \in 1 .. Len(program),
           UNCHANGED <<program, tape, input>>,
           program[b].op = "reveal" => ShownBy(Before(p), b)' = ShownBy(Before(p), b),
           NEW regs, NEW new, NEW clears, NEW others, Outcome(p, b, regs, new, clears, others)
    PROVE  Outcome(p, b, regs, new, clears, others)'
<1>1. ASSUME program[b].op = "inputb", Stored(p, b, regs, new)
      PROVE  Stored(p, b, regs, new)'
  <2>1. PICK items : items = program[b].items /\ items \in Seq(Dealing)
    BY <1>1, MineCount
  <2>2. \A i \in 1 .. Len(items) : PlannedShare(p, b, i)' = PlannedShare(p, b, i)
    <3> TAKE i \in 1 .. Len(items)
    <3>1. PICK from \in Party : from = items[i].from
      <4>1. items[i] \in Dealing
        BY <2>1, ElementOfSeq
      <4> QED
        BY <4>1 DEF Dealing
    <3>2. DealingsFor(from, b)' = DealingsFor(from, b)
      BY PlanSame
    <3> QED
      BY <2>1, <3>1, <3>2 DEF PlannedShare
  <2>3. PICK f : PlannedRounds(f, regs, p, b) /\ new = f[Len(items)]
    BY <1>1, <2>1 DEF Stored
  <2>4. PlannedRounds(f, regs, p, b)'
    BY <2>1, <2>2, <2>3 DEF PlannedRounds
  <2> QED
    BY <2>1, <2>3, <2>4 DEF Stored
<1>2. program' = program
  OBVIOUS
<1> QED
  BY <1>1, <1>2 DEF Outcome

Longer ==
    \A q \in Party : /\ \A k \in 1 .. Len(log[q]) : log'[q][k] = log[q][k]
                     /\ \A k \in 1 .. Len(clog[q]) : clog'[q][k] = clog[q][k]

LEMMA ShownSame ==
    ASSUME MachineInv, UNCHANGED <<program, tape, input>>, Longer,
           NEW q \in Party, NEW b \in 1 .. Len(program), b <= ip[q], program[b].op = "reveal"
    PROVE  ShownBy(q, b)' = ShownBy(q, b)
<1>1. Len(log[q]) = ip[q] /\ ip[q] \in Nat
  BY MachineBacked, HereFacts DEF Own, Logged
<1>2. log'[q][b] = log[q][b]
  BY <1>1 DEF Longer
<1> QED
  BY <1>2 DEF ShownBy

(* An instruction that has been finished is one of the program's. *)
LEMMA FinishedHere ==
    ASSUME MachineInv, NEW p \in Party, NEW b \in 1 .. ip[p] - 1
    PROVE  /\ b \in 1 .. Len(program) /\ b < ip[p] /\ b \in Nat
           /\ Len(log[p]) = ip[p] /\ Len(clog[p]) = ip[p]
           /\ program[b].op = "reveal" => b <= ip[Before(p)]
<1>1. ip[p] \in Nat /\ Len(program) \in Nat
  BY HereFacts
<1>2. ip[p] <= Len(program) + 1
  BY MachineBacked DEF Control, InBatch
<1>3. Len(log[p]) = ip[p] /\ Len(clog[p]) = ip[p]
  BY MachineBacked DEF Own, Logged, ClearLogged
<1>4. b \in 1 .. Len(program) /\ b < ip[p] /\ b \in Nat
  BY <1>1, <1>2
<1>5. ASSUME program[b].op = "reveal" PROVE b <= ip[Before(p)]
  <2>1. PICK q \in Party : q = Before(p) /\ q # p /\ p = After(q)
    BY Neighbours
  <2>2. First(q, p, b)
    BY <1>5, <2>1 DEF First
  <2>3. Entered(q, b) /\ ip[q] \in Nat
    BY <1>1, <1>4, <2>1, <2>2, FinishedEntered, HereFacts
  <2> QED
    BY <1>4, <2>1, <2>3 DEF Entered
<1> QED
  BY <1>3, <1>4, <1>5

LEMMA EffectSame ==
    ASSUME MachineInv, Longer, UNCHANGED <<program, tape, input>>,
           NEW p \in Party, NEW b \in 1 .. ip[p] - 1, Effect(p, b)
    PROVE  Effect(p, b)'
<1>1. /\ b \in 1 .. Len(program) /\ b < ip[p] /\ b \in Nat /\ ip[p] \in Nat
      /\ Len(log[p]) = ip[p] /\ Len(clog[p]) = ip[p]
      /\ program[b].op = "reveal" => b <= ip[Before(p)]
  BY FinishedHere, HereFacts
<1>2. PICK regs, new, clears, others :
         /\ regs = log[p][b] /\ new = log[p][b + 1]
         /\ clears = clog[p][b] /\ others = clog[p][b + 1]
  OBVIOUS
<1>3. /\ regs = log'[p][b] /\ new = log'[p][b + 1]
      /\ clears = clog'[p][b] /\ others = clog'[p][b + 1]
  <2>1. b \in 1 .. ip[p] /\ b + 1 \in 1 .. ip[p]
    BY <1>1
  <2> QED
    BY <1>1, <1>2, <2>1 DEF Longer
<1>4. program[b].op = "reveal" => ShownBy(Before(p), b)' = ShownBy(Before(p), b)
  <2>1. Before(p) \in Party
    BY Neighbours
  <2> QED
    BY <1>1, <2>1, ShownSame
<1>5. Outcome(p, b, regs, new, clears, others)
  BY <1>2 DEF Effect
<1>6. Outcome(p, b, regs, new, clears, others)'
  BY <1>1, <1>4, <1>5, OutcomeSame
<1> QED
  BY <1>3, <1>6 DEF Effect

LEMMA HistoriesLonger ==
    ASSUME MachineInv, NEW r \in Party, Finishes(r)
    PROVE  Longer
<1>1. log \in [Party -> Seq([Reg -> Share])] /\ clog \in [Party -> Seq(ClearRegs)]
  BY HereFacts
<1>2. \A T, x : \A s \in Seq(T) : \A k \in 1 .. Len(s) : Append(s, x)[k] = s[k]
  BY AppendProperties
<1>3. ASSUME NEW q \in Party
      PROVE  /\ \A k \in 1 .. Len(log[q]) : log'[q][k] = log[q][k]
             /\ \A k \in 1 .. Len(clog[q]) : clog'[q][k] = clog[q][k]
  <2>1. CASE q = r
    <3>1. log'[r] = Append(log[r], S'[r]) /\ clog'[r] = Append(clog[r], C'[r])
      BY <1>1 DEF Finishes
    <3>2. log[r] \in Seq([Reg -> Share]) /\ clog[r] \in Seq(ClearRegs)
      BY <1>1
    <3> QED
      BY <2>1, <3>1, <3>2
  <2>2. CASE q # r
    BY <1>1, <2>2 DEF Finishes
  <2> QED
    BY <2>1, <2>2
<1> QED
  BY <1>3 DEF Longer

LEMMA EffectNew ==
    ASSUME MachineInv, NEW r \in Party, Finishes(r), NEW b \in 1 .. Len(program), b = ip[r]
    PROVE  Effect(r, b)'
<1>1. b = ip[r] /\ b \in 1 .. Len(program) /\ b \in Nat
  BY HereFacts
<1>2. /\ Len(log[r]) = b /\ Len(clog[r]) = b /\ clog[r][b] = C[r]
      /\ log[r] \in Seq([Reg -> Share]) /\ clog[r] \in Seq(ClearRegs)
  BY <1>1, MachineBacked, HereFacts DEF Own, Logged, ClearLogged
<1>3. /\ log'[r] = Append(log[r], S'[r]) /\ clog'[r] = Append(clog[r], C'[r])
      /\ UNCHANGED <<program, tape, input>> /\ ip'[r] = b + 1
  BY <1>1, HereFacts DEF Finishes
<1>4. PICK regs, new, clears, others :
         /\ regs = log[r][b] /\ new = S'[r] /\ clears = C[r] /\ others = C'[r]
  OBVIOUS
<1>5. /\ regs = log'[r][b] /\ new = log'[r][b + 1]
      /\ clears = clog'[r][b] /\ others = clog'[r][b + 1]
  <2>1. log'[r][b] = log[r][b] /\ clog'[r][b] = clog[r][b]
    BY <1>1, <1>2, HistoriesLonger DEF Longer
  <2>2. log'[r][b + 1] = S'[r] /\ clog'[r][b + 1] = C'[r]
    BY <1>1, <1>2, <1>3
  <2> QED
    BY <1>2, <1>4, <2>1, <2>2
<1>6. program[b].op = "reveal" => ShownBy(Before(r), b)' = ShownBy(Before(r), b)
  <2>1. Before(r) \in Party /\ (program[b].op = "reveal" => b <= ip[Before(r)])
    BY <1>1, Neighbours DEF Finishes
  <2> QED
    BY <1>1, <1>3, <2>1, HistoriesLonger, ShownSame
<1>7. Outcome(r, b, regs, new, clears, others)
  <2>1. /\ Outcome(r, b, S[r], new, clears, others)
        /\ program[b].op # "ands" => S[r] = regs
    BY <1>1, <1>4 DEF Finishes
  <2>2. CASE program[b].op = "ands"
    BY <2>1, <2>2 DEF Outcome, LocalOps
  <2>3. CASE program[b].op # "ands"
    BY <2>1, <2>3
  <2> QED
    BY <2>2, <2>3
<1>8. Outcome(r, b, regs, new, clears, others)'
  BY <1>1, <1>3, <1>6, <1>7, OutcomeSame
<1> QED
  BY <1>5, <1>8 DEF Effect

LEMMA ComputedInit == MachineInit => Computed
<1> SUFFICES ASSUME MachineInit PROVE Computed
  OBVIOUS
<1>1. \A p \in Party : clog[p] = <<C[p]>> /\ C[p] = Blank /\ ip[p] = 1
  BY DEF MachineInit, Init, Blank
<1> QED
  BY <1>1 DEF Computed

LEMMA ComputedWaits ==
    ASSUME MachineInv, Computed, Waits
    PROVE  Computed'
<1>1. Longer
  BY DEF Waits, Longer
<1>2. ASSUME NEW p \in Party, NEW b \in 1 .. ip[p] - 1
      PROVE  Effect(p, b)'
  BY <1>1, <1>2, EffectSame DEF Waits, Computed
<1> QED
  BY <1>2 DEF Waits, Computed

LEMMA ComputedStep ==
    ASSUME MachineInv, MachineInv', Computed, NEW r \in Party, MachineStep(r)
    PROVE  Computed'
<1>1. CASE Waits
  BY <1>1, ComputedWaits
<1>2. CASE Finishes(r)
  <2>1. Longer
    BY <1>2, HistoriesLonger
  <2>2. /\ UNCHANGED <<program, tape, input>> /\ ip'[r] = ip[r] + 1
        /\ \A p \in Party : p # r => ip'[p] = ip[p]
        /\ \A p \in Party : ip[p] \in Nat \ {0}
    BY <1>2, HereFacts DEF Finishes
  <2>3. ip[r] \in 1 .. Len(program)
    <3>1. ip'[r] <= Len(program') + 1 /\ Len(program') \in Nat
      <4>1. Control'
        BY MachineBacked, PTL
      <4> QED
        BY <4>1 DEF Control, InBatch
    <3> QED
      BY <2>2, <3>1
  <2>4. ASSUME NEW p \in Party, NEW b \in 1 .. ip'[p] - 1
        PROVE  Effect(p, b)'
    <3>1. CASE b \in 1 .. ip[p] - 1
      BY <2>1, <2>2, <3>1, EffectSame DEF Computed
    <3>2. CASE b \notin 1 .. ip[p] - 1
      <4>1. p = r /\ b = ip[r]
        BY <2>2, <3>2
      <4> QED
        BY <1>2, <2>3, <4>1, EffectNew
    <3> QED
      BY <3>1, <3>2
  <2>5. \A p \in Party : clog'[p][1] = clog[p][1]
    <3>1. \A p \in Party : Len(clog[p]) = ip[p]
      BY MachineBacked DEF ClearLogged
    <3> QED
      BY <2>1, <2>2, <3>1 DEF Longer
  <2> QED
    BY <2>4, <2>5 DEF Computed
<1> QED
  BY <1>1, <1>2, MachineHistories

LEMMA ComputedNext ==
    ASSUME MachineInv, MachineInv', Computed, [MachineNext]_machineVars
    PROVE  Computed'
<1>1. CASE \E r \in Party : MachineStep(r)
  BY <1>1, ComputedStep
<1>2. CASE Terminated /\ UNCHANGED machine
  BY <1>2, ComputedWaits DEF Terminated, vars, machine, Waits
<1>3. CASE UNCHANGED machineVars
  BY <1>3, ComputedWaits DEF machineVars, vars, machine, Waits
<1> QED
  BY <1>1, <1>2, <1>3 DEF MachineNext

LEMMA ComputedCorrect == MachineSpec => [](MachineInv /\ Computed)
BY MachineInvCorrect, ComputedInit, ComputedNext, PTL DEF MachineSpec

-----------------------------------------------------------------------------
(***************************************************************************)
(* What the parties' histories hide.  Entry b of a history is what there   *)
(* was after b - 1 instructions.                                           *)
(***************************************************************************)
Reached(b) == \A p \in Party : b <= ip[p]

Plain(ins) == ins.op # "bitb" /\ DealtByFirst(ins)

Level(b) ==
    /\ \A p, q \in Party : b <= ip[p] /\ b <= ip[q] => clog[p][b] = clog[q][b]
    /\ Reached(b) => Agreed(b)

LEMMA EntryTypes ==
    ASSUME MachineInv, NEW p \in Party, NEW b \in Nat \ {0}, b <= ip[p]
    PROVE  /\ log[p][b] \in Registers /\ clog[p][b] \in ClearRegs
           /\ Len(log[p]) = ip[p] /\ Len(clog[p]) = ip[p]
<1>1. /\ log[p] \in Seq(Registers) /\ clog[p] \in Seq(ClearRegs) /\ ip[p] \in Nat
      /\ Len(log[p]) = ip[p] /\ Len(clog[p]) = ip[p]
  BY HereFacts, MachineBacked DEF Own, Logged, ClearLogged, Registers
<1>2. b \in 1 .. ip[p]
  BY <1>1
<1> QED
  BY <1>1, <1>2, ElementOfSeq

LEMMA EntryAlike ==
    ASSUME MachineInv, NEW b \in Nat \ {0}, Reached(b), Agreed(b)
    PROVE  Clear(b) \in Words /\ Hides(log[0][b], log[1][b], log[2][b], Clear(b))
<1>1. 0 \in Party /\ 1 \in Party /\ 2 \in Party
  BY Neighbours
<1>2. /\ log[0][b] \in Registers /\ log[1][b] \in Registers /\ log[2][b] \in Registers
  BY <1>1, EntryTypes DEF Reached
<1>3. ASSUME NEW r \in Reg
      PROVE  /\ Hide(log[0][b][r], log[1][b][r], log[2][b][r], Clear(b)[r])
             /\ Clear(b)[r] \in Vec
  <2>1. PICK sh : sh = [p \in Party |-> log[p][b][r]]
    OBVIOUS
  <2>2. Consistent(sh) /\ Opened(sh) = Clear(b)[r]
    BY <2>1 DEF Agreed, Clear
  <2>3. sh[0] = log[0][b][r] /\ sh[1] = log[1][b][r] /\ sh[2] = log[2][b][r]
    BY <1>1, <2>1
  <2>4. Hide(log[0][b][r], log[1][b][r], log[2][b][r], Clear(b)[r])
    BY <2>2, <2>3, HideConsistent
  <2>5. log[0][b][r] \in Share /\ log[2][b][r] \in Share
    BY <1>2 DEF Registers
  <2>6. log[0][b][r][0] (+) log[2][b][r][0] \in Vec
    BY <2>5, ShareParts, VecClosed
  <2> QED
    BY <2>4, <2>6 DEF Hide
<1>4. Clear(b) = [r \in Reg |-> Clear(b)[r]]
  BY DEF Clear
<1> QED
  BY <1>3, <1>4 DEF Words, Hides

(* Conversely, whatever they hide is what they stand for. *)
LEMMA AlikeEntry ==
    ASSUME NEW b, NEW val \in Words, Hides(log[0][b], log[1][b], log[2][b], val)
    PROVE  Agreed(b) /\ Clear(b) = val
<1>1. ASSUME NEW r \in Reg
      PROVE  /\ Consistent([p \in Party |-> log[p][b][r]])
             /\ Clear(b)[r] = val[r]
  <2>1. PICK sh : sh = [p \in Party |-> log[p][b][r]]
    OBVIOUS
  <2>2. sh[0] = log[0][b][r] /\ sh[1] = log[1][b][r] /\ sh[2] = log[2][b][r]
    BY <2>1, Neighbours
  <2>3. Hide(log[0][b][r], log[1][b][r], log[2][b][r], val[r])
    BY DEF Hides
  <2>4. Consistent(sh) /\ Opened(sh) = val[r]
    BY <2>2, <2>3, HideConsistent
  <2> QED
    BY <2>1, <2>4 DEF Clear
<1>2. Clear(b) = [r \in Reg |-> Clear(b)[r]] /\ val = [r \in Reg |-> val[r]]
  BY DEF Clear, Words
<1> QED
  BY <1>1, <1>2 DEF Agreed

-----------------------------------------------------------------------------
(* Loops that begin alike and go on alike end alike.                       *)
LEMMA SameEnd ==
    ASSUME NEW n \in Nat, NEW f, NEW g, f[0] = g[0],
           \A i \in 1 .. n : f[i - 1] = g[i - 1] => f[i] = g[i]
    PROVE  f[n] = g[n]
<1> DEFINE Good == {i \in 0 .. n : f[i] = g[i]}
<1>1. 0 \in Good /\ \A i \in 1 .. n : i - 1 \in Good => i \in Good
  OBVIOUS
<1>2. \A i \in 0 .. n : i \in Good
  <2> HIDE DEF Good
  <2> QED
    BY <1>1, Climb
<1> QED
  BY <1>2

(* REVEAL.  Each party opens a word from other components than the others, *)
(* and gets the word.                                                      *)
OpenedBy(p, x, r, n) ==
    Mask(OpenFrom(p, MaskShare(x[p][r], n), Mask(x[Before(p)][r][0], n)), n)

LEMMA OpenedAlike ==
    ASSUME NEW x, NEW val, Hides(x[0], x[1], x[2], val), NEW r \in Reg, NEW n,
           NEW p \in Party
    PROVE  OpenedBy(p, x, r, n) = Mask(val[r], n)
<1>1. PICK s, t, u, v : /\ s = MaskShare(x[0][r], n) /\ t = MaskShare(x[1][r], n)
                        /\ u = MaskShare(x[2][r], n) /\ v = Mask(val[r], n)
  OBVIOUS
<1>2. Hide(s, t, u, v)
  BY <1>1, HideMask DEF Hides
<1>3. Mask(v, n) = v
  BY <1>1 DEF Mask
<1> USE DEF OpenedBy
<1>4. \A y : MaskShare(y, n)[0] = Mask(y[0], n)
  BY DEF MaskShare
<1>5. PICK z : z = OpenFrom(p, MaskShare(x[p][r], n), Mask(x[Before(p)][r][0], n))
  OBVIOUS
<1>6. CASE p = 0
  <2>1. Before(p) = 2
    BY <1>6 DEF Before
  <2>2. z = s[0] (+) u[0]
    BY <1>1, <1>4, <1>5, <1>6, <2>1 DEF OpenFrom
  <2> QED
    BY <1>1, <1>2, <1>3, <1>5, <2>2 DEF Hide
<1>7. CASE p = 1
  <2>1. Before(p) = 0
    BY <1>7 DEF Before
  <2>2. z = t[1] (+) s[0]
    BY <1>1, <1>4, <1>5, <1>7, <2>1 DEF OpenFrom
  <2>3. t[1] (+) s[0] = s[0] (+) t[1]
    BY DEF (+)
  <2> QED
    BY <1>1, <1>2, <1>3, <1>5, <2>2, <2>3 DEF Hide
<1>8. CASE p = 2
  <2>1. Before(p) = 1
    BY <1>8 DEF Before
  <2>2. z = u[1] (+) t[0]
    BY <1>1, <1>4, <1>5, <1>8, <2>1 DEF OpenFrom
  <2>3. u[1] (+) t[0] = t[0] (+) u[1]
    BY DEF (+)
  <2> QED
    BY <1>1, <1>2, <1>3, <1>5, <2>2, <2>3 DEF Hide
<1> QED
  BY <1>6, <1>7, <1>8 DEF Party

LEMMA RevealAlike ==
    ASSUME MachineInv, NEW k \in 1 .. Len(program), program[k].op = "reveal",
           Reached(k), Agreed(k), NEW p \in Party, NEW clears \in ClearRegs
    PROVE  RevealOf(clears, p, log[p][k], program[k].items, ShownBy(Before(p), k))
              = IdealReveal(clears, Clear(k), program[k].items)
<1>1. k \in Nat \ {0} /\ program \in Programs
  BY HereFacts
<1>2. PICK items \in Seq(Opening) : items = program[k].items
  BY <1>1, InstructionFacts
<1>3. PICK n \in Nat : n = Len(items)
  BY LenProperties
<1>4. PICK x, val : x = [q \in Party |-> log[q][k]] /\ val = Clear(k)
  OBVIOUS
<1>5. val \in Words /\ Hides(x[0], x[1], x[2], val)
  BY <1>1, <1>4, EntryAlike, Neighbours
<1>6. \A q \in Party : x[q] \in Registers /\ x[q] = log[q][k]
  BY <1>1, <1>4, EntryTypes DEF Reached
<1>7. PICK ws : ws = ShownBy(Before(p), k)
  OBVIOUS
<1>8. ASSUME NEW i \in 1 .. n
      PROVE  /\ items[i] \in Opening /\ items[i].in \in Reg
             /\ ws[i] = Mask(x[Before(p)][items[i].in][0], items[i].n) /\ ws[i] \in Vec
  <2>1. items[i] \in Opening
    BY <1>3, ElementOfSeq
  <2>2. items[i].in \in Reg
    BY <2>1 DEF Opening
  <2>3. Before(p) \in Party
    BY Neighbours
  <2>4. ws[i] = Mask(x[Before(p)][items[i].in][0], items[i].n)
    BY <1>2, <1>3, <1>6, <1>7, <2>3 DEF ShownBy
  <2>5. x[Before(p)][items[i].in] \in Share
    BY <1>6, <2>2, <2>3 DEF Registers
  <2>6. x[Before(p)][items[i].in][0] \in Vec
    BY <2>5, ShareParts
  <2> QED
    BY <2>1, <2>2, <2>4, <2>6, VecClosed
<1>9. PICK f : RevealRounds(f, clears, p, x[p], items, ws)
               /\ RevealOf(clears, p, x[p], items, ws) = f[n]
  <2>1. \A i \in 1 .. Len(items) : ws[i] \in Vec
    BY <1>3, <1>8
  <2> QED
    BY <1>3, <1>6, <2>1, RevealLoop
<1>10. PICK g : IdealRevealRounds(g, clears, val, items)
                /\ IdealReveal(clears, val, items) = g[n]
  BY <1>3, <1>5, IdealRevealLoop
<1>11. ASSUME NEW i \in 1 .. n, f[i - 1] = g[i - 1]
       PROVE  f[i] = g[i]
  <2>1. PICK m, r, old : m = items[i].n /\ r = items[i].in /\ old = f[i - 1]
    OBVIOUS
  <2>2. f[i] = [old EXCEPT ![items[i].out] =
                  Mask(OpenFrom(p, MaskShare(x[p][r], m), ws[i]), m)]
    BY <1>3, <1>9, <2>1 DEF RevealRounds
  <2>3. g[i] = [old EXCEPT ![items[i].out] = Mask(val[r], m)]
    BY <1>3, <1>10, <1>11, <2>1 DEF IdealRevealRounds
  <2>4. ws[i] = Mask(x[Before(p)][r][0], m) /\ r \in Reg
    BY <1>8, <2>1
  <2>5. OpenedBy(p, x, r, m) = Mask(val[r], m)
    BY <1>5, <2>4, OpenedAlike
  <2> QED
    BY <2>2, <2>3, <2>4, <2>5 DEF OpenedBy
<1>12. f[0] = g[0]
  BY <1>9, <1>10 DEF RevealRounds, IdealRevealRounds
<1>13. f[n] = g[n]
  BY <1>11, <1>12, SameEnd
<1> QED
  BY <1>2, <1>4, <1>6, <1>7, <1>9, <1>10, <1>13

-----------------------------------------------------------------------------
(* INPUTB.  What an item of party 0 hides.                                 *)
ItemWord(k, i) ==
    LET items == program[k].items
    IN  Mask(input[0][ReadsOf(0)[k - 1] + Nth(items, i)], items[i].n)

LEMMA PackedOf ==
    ASSUME NEW x \in Vec, NEW n \in Nat
    PROVE  Mask(Packed(x, n), n) = Mask(x, n)
<1>1. PICK c : c = 8 * ((n + 7) \div 8)
  OBVIOUS
<1>2. n <= c /\ c \in Int
  BY <1>1
<1>3. \A l \in x : l \in Int
  BY DEF Vec, Lane
<1>4. \A l \in x : l < n => l < c
  BY <1>2, <1>3
<1>5. Packed(x, n) = Mask(x, c)
  BY <1>1 DEF Packed
<1> QED
  BY <1>4, <1>5 DEF Mask

LEMMA ItemHidden ==
    ASSUME MachineInv, NEW k \in 1 .. Len(program), program[k].op = "inputb",
           DealtByFirst(program[k]), NEW i \in 1 .. Len(program[k].items),
           \A p \in Party : PlannedShare(p, k, i) \in Share
    PROVE  Hide(PlannedShare(0, k, i), PlannedShare(1, k, i), PlannedShare(2, k, i),
                ItemWord(k, i)) /\ ItemWord(k, i) \in Vec
<1>1. PICK items \in Seq(Dealing) : items = program[k].items
  BY MineCount
<1>2. PICK n \in 1 .. W : n = items[i].n
  <2>1. items[i] \in Dealing
    BY <1>1, ElementOfSeq
  <2> QED
    BY <2>1 DEF Dealing
<1>3. DOMAIN items = 1 .. Len(items) /\ items[i].from = 0
  BY <1>1, LenProperties DEF DealtByFirst
<1>4. i \in From(items, 0)
  BY <1>1, <1>3 DEF From
<1>5. PICK nth : nth = Nth(items, i) /\ nth \in 1 .. Len(Mine(0, k)) /\ Mine(0, k)[nth].n = n
  BY <1>1, <1>2, <1>4, ItemNumbers DEF Mine
<1>6. PICK v, alpha, beta :
         /\ v = input[0][ReadsOf(0)[k - 1] + nth]
         /\ alpha = Fresh(0, 2 * ReadsOf(0)[k - 1] + 2 * nth - 1, n)
         /\ beta = Fresh(0, 2 * ReadsOf(0)[k - 1] + 2 * nth, n)
  OBVIOUS
<1>7. alpha \in Vec /\ beta \in Vec
  BY <1>6, FreshType
<1>8. DealingsFor(0, k)[nth] = DealtBy(0, v, alpha, beta)
  BY <1>5, <1>6 DEF DealingsFor, DealingFor
<1>9. PICK d : d = DealtBy(0, v, alpha, beta)
  OBVIOUS
<1>10. d[0] = Sh(v (+) alpha, beta) /\ d[1] = Sh(v (+) beta, alpha) /\ d[2] = Sh(alpha, beta)
  BY <1>9, Neighbours DEF DealtBy, After
<1>11. \A x, y : Sh(x, y)[0] = x /\ Sh(x, y)[1] = y
  BY DEF Sh
<1>12. \A p \in Party :
          PlannedShare(p, k, i) =
            MaskShare(IF p = 0 THEN d[p] ELSE Sh(Packed(d[p][0], n), Packed(d[p][1], n)), n)
  BY <1>1, <1>2, <1>3, <1>5, <1>8, <1>9 DEF PlannedShare
<1>13. n \in Nat
  BY WAssumption
<1>14. \A x, y : MaskShare(Sh(x, y), n)[0] = Mask(x, n) /\ MaskShare(Sh(x, y), n)[1] = Mask(y, n)
  BY <1>11 DEF MaskShare
<1>15. PICK s, t, u : /\ s = PlannedShare(0, k, i) /\ t = PlannedShare(1, k, i)
                      /\ u = PlannedShare(2, k, i)
  OBVIOUS
<1>16. s[0] = Mask(v (+) alpha, n) /\ s[1] = Mask(beta, n) /\ s[0] \in Vec
  <2>1. s = MaskShare(Sh(v (+) alpha, beta), n) /\ s \in Share
    BY <1>10, <1>12, <1>15, Neighbours
  <2> QED
    BY <1>14, <2>1, ShareParts
(* A word that has been dealt has no lanes but lanes, as far as it goes. *)
<1>17. PICK w : w = Mask(v, n)
  OBVIOUS
<1>18. w \in Vec
  <2>1. \A l \in w : l \in alpha \/ l \in s[0]
    BY <1>16, <1>17 DEF Mask, (+)
  <2> QED
    BY <1>7, <1>16, <2>1 DEF Vec
<1>19. Mask(Packed(v (+) beta, n), n) = Mask(v (+) beta, n)
  <2>1. PICK c : c = 8 * ((n + 7) \div 8)
    OBVIOUS
  <2>2. n <= c /\ c \in Int
    BY <1>13, <2>1
  <2>3. \A l \in v (+) beta : l < n => l \in Int
    BY <1>7, <1>17, <1>18 DEF Mask, Vec, Lane, (+)
  <2> QED
    BY <1>13, <2>1, <2>2, <2>3 DEF Packed, Mask
<1>20. t[0] = Mask(v (+) beta, n) /\ t[1] = Mask(alpha, n)
  <2>1. t = MaskShare(Sh(Packed(v (+) beta, n), Packed(alpha, n)), n)
    BY <1>10, <1>11, <1>12, <1>15, Neighbours
  <2> QED
    BY <1>7, <1>13, <1>14, <1>19, <2>1, PackedOf
<1>21. u[0] = Mask(alpha, n) /\ u[1] = Mask(beta, n)
  <2>1. u = MaskShare(Sh(Packed(alpha, n), Packed(beta, n)), n)
    BY <1>10, <1>11, <1>12, <1>15, Neighbours
  <2> QED
    BY <1>7, <1>13, <1>14, <2>1, PackedOf
<1>22. \A x : Mask(v (+) x, n) (+) Mask(x, n) = w
  BY <1>17 DEF Mask, (+)
<1>23. Hide(s, t, u, w)
  BY <1>16, <1>20, <1>21, <1>22 DEF Hide
<1>24. ItemWord(k, i) = w
  BY <1>1, <1>2, <1>5, <1>6, <1>17 DEF ItemWord
<1> QED
  BY <1>15, <1>18, <1>23, <1>24

LEMMA ReadBefore ==
    ASSUME MachineInv, NEW k \in 1 .. Len(program)
    PROVE  Promise!InputsBefore(k, 0) = ReadsOf(0)[k - 1]
<1> DEFINE Body(v, i) == v + Promise!InputsIn(program[i], 0)
           Turns(f)   == [i \in 0 .. k - 1 |-> IF i = 0 THEN 0 ELSE Body(f[i - 1], i)]
           after      == CHOOSE f : f = Turns(f)
<1>1. Promise!InputsBefore(k, 0) = after[k - 1]
  BY Zenon DEF Promise!Loop, Promise!InputsBefore
<1>2. PICK n \in Nat : n = k - 1 /\ n < Len(program) /\ Len(program) \in Nat
  BY HereFacts, Neighbours
<1>3. PICK g : g = ReadsOf(0) /\ Reads(g, program, 0)
  BY ReadsExist, HereFacts, Neighbours
<1>4. \A i \in 1 .. n : i - 1 \in 0 .. n /\ i # 0 /\ g[i] = Body(g[i - 1], i)
  <2> TAKE i \in 1 .. n
  <2>1. Promise!InputsIn(program[i], 0) = ReadBy(program, 0, i)
    BY SameItems DEF Promise!InputsIn, ReadBy
  <2>2. i \in 1 .. Len(program) /\ i - 1 \in 0 .. n /\ i # 0
    BY <1>2
  <2>3. g[i] = g[i - 1] + ReadBy(program, 0, i)
    BY <1>3, <2>2 DEF Reads
  <2> QED
    BY <2>1, <2>2, <2>3
<1>5. g[0] = 0
  BY <1>3 DEF Reads
<1> HIDE DEF Body
<1>6. after = Turns(after)
  <2>1. PICK f : f = [i \in 0 .. n |-> g[i]]
    OBVIOUS
  <2>2. \A i \in 0 .. n : f[i] = IF i = 0 THEN 0 ELSE Body(f[i - 1], i)
    <3> TAKE i \in 0 .. n
    <3>1. CASE i = 0
      BY <1>5, <2>1, <3>1
    <3>2. CASE i # 0
      <4>1. i \in 1 .. n
        BY <3>2
      <4>2. f[i] = g[i] /\ f[i - 1] = g[i - 1]
        BY <1>4, <2>1, <4>1
      <4> QED
        BY <1>4, <3>2, <4>1, <4>2
    <3> QED
      BY <3>1, <3>2
  <2>3. f = [i \in 0 .. n |-> IF i = 0 THEN 0 ELSE Body(f[i - 1], i)]
    BY <2>1, <2>2
  <2>4. f = Turns(f)
    BY <1>2, <2>3
  <2> HIDE DEF Turns
  <2> QED
    BY <2>4
<1>7. after[0] = g[0] /\ \A i \in 1 .. n : after[i - 1] = g[i - 1] => after[i] = g[i]
  <2> HIDE DEF after
  <2>1. after = [i \in 0 .. n |-> IF i = 0 THEN 0 ELSE Body(after[i - 1], i)]
    BY <1>2, <1>6
  <2>2. after[0] = 0
    BY <1>2, <2>1
  <2>3. \A i \in 1 .. n : after[i] = Body(after[i - 1], i)
    BY <1>2, <2>1
  <2> QED
    BY <1>4, <1>5, <2>2, <2>3
<1>8. after[n] = g[n]
  <2> HIDE DEF after
  <2> QED
    BY <1>7, SameEnd
<1> HIDE DEF after
<1> QED
  BY <1>1, <1>2, <1>3, <1>8

LEMMA InputPromised ==
    ASSUME MachineInv, NEW k \in 1 .. Len(program), program[k].op = "inputb",
           DealtByFirst(program[k]), NEW i \in 1 .. Len(program[k].items)
    PROVE  Promise!InputValue(k, i) = ItemWord(k, i)
<1>1. PICK items \in Seq(Dealing) : items = program[k].items
  BY MineCount
<1>2. items[i].from = 0
  BY <1>1, LenProperties DEF DealtByFirst
<1>3. Promise!InputValue(k, i) =
        Promise!Mask(input[0][Promise!InputsBefore(k, 0) + Promise!Nth(items, i)], items[i].n)
  BY <1>1, <1>2 DEF Promise!InputValue
<1> QED
  BY <1>1, <1>3, ReadBefore, SameMask, SameNth DEF ItemWord

(* The words of an INPUTB of party 0, one after the other. *)
Handed(g, k, val) ==
    LET items == program[k].items
    IN  /\ g \in [0 .. Len(items) -> Words]
        /\ g[0] = val
        /\ \A i \in 1 .. Len(items) :
          g[i] = [g[i - 1] EXCEPT ![items[i].out] = ItemWord(k, i)]

(* What a plain instruction makes of what is hidden, and of the clear      *)
(* registers.                                                              *)
Fulfils(k, val, new, clears, others) ==
    LET ins == program[k]
    IN  /\ ins.op = "ands" /\ WideGatesNarrow => new = Ideal!Eval(ins, val)
        /\ ins.op \in LocalOps => new = LocalValue(ins, val, clears)
        /\ ins.op = "inputb" => \E g : Handed(g, k, val) /\ new = g[Len(ins.items)]
        /\ ins.op = "reveal" => new = val /\ others = IdealReveal(clears, val, ins.items)
        /\ ins.op # "reveal" => others = clears

Worked(k) == Fulfils(k, Clear(k), Clear(k + 1), clog[0][k], clog[0][k + 1])

LEMMA HandedNext ==
    ASSUME MachineInv, NEW k \in 1 .. Len(program), program[k].op = "inputb",
           DealtByFirst(program[k]), NEW n, n = Len(program[k].items), NEW val \in Words,
           NEW fa, NEW fb, NEW fc, Hides(fa[0], fb[0], fc[0], val),
           PlannedRounds(fa, fa[0], 0, k), PlannedRounds(fb, fb[0], 1, k),
           PlannedRounds(fc, fc[0], 2, k)
    PROVE  \E g : Handed(g, k, val) /\ Hides(fa[n], fb[n], fc[n], g[n]) /\ g[n] \in Words
<1>1. PICK items \in Seq(Dealing) : items = program[k].items /\ n = Len(items) /\ n \in Nat
  BY MineCount, LenProperties
<1>2. ASSUME NEW i \in 1 .. n
      PROVE  /\ i - 1 \in 0 .. n /\ i \in 0 .. n /\ items[i].out \in Reg
             /\ fa[i - 1] \in Registers /\ fb[i - 1] \in Registers /\ fc[i - 1] \in Registers
             /\ fa[i] = [fa[i - 1] EXCEPT ![items[i].out] = PlannedShare(0, k, i)]
             /\ fb[i] = [fb[i - 1] EXCEPT ![items[i].out] = PlannedShare(1, k, i)]
             /\ fc[i] = [fc[i - 1] EXCEPT ![items[i].out] = PlannedShare(2, k, i)]
             /\ fa[i] \in Registers /\ fb[i] \in Registers /\ fc[i] \in Registers
  <2>1. i - 1 \in 0 .. n /\ i \in 0 .. n
    BY <1>1
  <2>2. items[i] \in Dealing
    BY <1>1, ElementOfSeq
  <2>3. items[i].out \in Reg
    BY <2>2 DEF Dealing
  <2> QED
    BY <1>1, <2>1, <2>3 DEF PlannedRounds
<1>3. ASSUME NEW i \in 1 .. n
      PROVE  /\ Hide(PlannedShare(0, k, i), PlannedShare(1, k, i), PlannedShare(2, k, i),
                     ItemWord(k, i))
             /\ ItemWord(k, i) \in Vec
  <2>1. PICK out : out = items[i].out /\ out \in Reg
    BY <1>2
  <2>2. /\ fa[i][out] = PlannedShare(0, k, i) /\ fb[i][out] = PlannedShare(1, k, i)
        /\ fc[i][out] = PlannedShare(2, k, i)
    <3>1. PICK a, b, c : a = fa[i - 1] /\ b = fb[i - 1] /\ c = fc[i - 1]
      OBVIOUS
    <3>2. a \in Registers /\ b \in Registers /\ c \in Registers
      BY <1>2, <3>1
    <3>3. /\ fa[i] = [a EXCEPT ![out] = PlannedShare(0, k, i)]
          /\ fb[i] = [b EXCEPT ![out] = PlannedShare(1, k, i)]
          /\ fc[i] = [c EXCEPT ![out] = PlannedShare(2, k, i)]
      BY <1>2, <2>1, <3>1
    <3> QED
      BY <2>1, <3>2, <3>3 DEF Registers
  <2>3. fa[i][out] \in Share /\ fb[i][out] \in Share /\ fc[i][out] \in Share
    <3>1. \A x \in Registers : x[out] \in Share
      BY <2>1 DEF Registers
    <3> QED
      BY <1>2, <3>1
  <2>4. \A p \in Party : PlannedShare(p, k, i) \in Share
    BY <2>2, <2>3 DEF Party
  <2> QED
    BY <1>1, <2>4, ItemHidden
<1> DEFINE step == [v \in Words |-> [i \in 1 .. n |-> [v EXCEPT ![items[i].out] = ItemWord(k, i)]]]
<1>4. step \in [Words -> [1 .. n -> Words]]
  BY <1>2, <1>3 DEF Words
<1>5. \A v \in Words, i \in 1 .. n : step[v][i] = [v EXCEPT ![items[i].out] = ItemWord(k, i)]
  OBVIOUS
<1> HIDE DEF step
<1>6. PICK g : Rounds(g, n, Words, val, step)
  BY <1>1, <1>4, LoopExists
<1>7. /\ g \in [0 .. n -> Words] /\ g[0] = val
      /\ \A i \in 1 .. n : g[i] = [g[i - 1] EXCEPT ![items[i].out] = ItemWord(k, i)]
  <2>1. g \in [0 .. n -> Words] /\ g[0] = val
    BY <1>6 DEF Rounds
  <2>2. \A i \in 1 .. n : g[i - 1] \in Words
    BY <1>2, <2>1
  <2> QED
    BY <1>5, <1>6, <2>1, <2>2 DEF Rounds
<1>8. Handed(g, k, val)
  BY <1>1, <1>7 DEF Handed
<1>9. ASSUME NEW i \in 1 .. n, Hides(fa[i - 1], fb[i - 1], fc[i - 1], g[i - 1])
      PROVE  Hides(fa[i], fb[i], fc[i], g[i])
  <2>1. g[i - 1] \in Words
    BY <1>2, <1>7
  <2>2. PICK a, b, c, v, out :
           /\ a = fa[i - 1] /\ b = fb[i - 1] /\ c = fc[i - 1] /\ v = g[i - 1]
           /\ out = items[i].out
    OBVIOUS
  <2>3. /\ a \in Registers /\ b \in Registers /\ c \in Registers /\ v \in Words
        /\ Hides(a, b, c, v) /\ out \in Reg
    BY <1>2, <1>9, <2>1, <2>2
  <2>4. PICK s, t, u, w : /\ s = PlannedShare(0, k, i) /\ t = PlannedShare(1, k, i)
                          /\ u = PlannedShare(2, k, i) /\ w = ItemWord(k, i)
    OBVIOUS
  <2>5. Hide(s, t, u, w)
    BY <1>3, <2>4
  <2>6. Hides([a EXCEPT ![out] = s], [b EXCEPT ![out] = t], [c EXCEPT ![out] = u],
              [v EXCEPT ![out] = w])
    BY <2>3, <2>5, AlikeWrite
  <2> QED
    BY <1>2, <1>7, <2>2, <2>4, <2>6
<1>10. Hides(fa[0], fb[0], fc[0], g[0])
  BY <1>7
<1>11. Hides(fa[n], fb[n], fc[n], g[n])
  BY <1>1, <1>9, <1>10, AlikeLoop
<1>12. g[n] \in Words
  BY <1>1, <1>7
<1> QED
  BY <1>8, <1>11, <1>12

LEMMA InstructionKinds ==
    ASSUME NEW prog \in Programs, NEW k \in 1 .. Len(prog)
    PROVE  prog[k].op \in LocalOps \cup {"ands", "bitb", "inputb", "reveal"}
<1>1. prog[k] \in AndsInstruction \cup OtherInstruction
  BY InstructionFacts
<1> QED
  BY <1>1 DEF AndsInstruction, OtherInstruction, LocalOps

LEMMA WorkedNext ==
    ASSUME MachineInv, Computed, NEW k \in 1 .. Len(program), Plain(program[k]),
           Level(k), Reached(k + 1)
    PROVE  Agreed(k + 1) /\ Worked(k)
<1>1. /\ k \in Nat \ {0} /\ program \in Programs
      /\ \A p \in Party : k <= ip[p] /\ k + 1 <= ip[p] /\ k \in 1 .. ip[p] - 1
  <2>1. \A p \in Party : ip[p] \in Nat /\ k + 1 <= ip[p]
    BY HereFacts DEF Reached
  <2>2. program \in Programs /\ Len(program) \in Nat
    BY HereFacts, Neighbours
  <2>3. ASSUME NEW p \in Party PROVE k <= ip[p] /\ k + 1 <= ip[p] /\ k \in 1 .. ip[p] - 1
    BY <2>1, <2>2
  <2> QED
    BY <2>2, <2>3
<1>2. Agreed(k) /\ \A p \in Party : clog[p][k] = clog[0][k]
  BY <1>1, Neighbours DEF Level, Reached
<1>3. Clear(k) \in Words /\ Hides(log[0][k], log[1][k], log[2][k], Clear(k))
  BY <1>1, <1>2, EntryAlike DEF Reached
<1>4. PICK ins, val, clears : ins = program[k] /\ val = Clear(k) /\ clears = clog[0][k]
  OBVIOUS
<1>5. \A p \in Party : /\ log[p][k] \in Registers /\ clears \in ClearRegs
                       /\ Outcome(p, k, log[p][k], log[p][k + 1], clears, clog[p][k + 1])
  BY <1>1, <1>2, <1>4, EntryTypes, Neighbours DEF Computed, Effect
<1>6. ins.op # "reveal" => clog[0][k + 1] = clog[0][k]
  BY <1>4, <1>5, Neighbours DEF Outcome
<1>7. CASE ins.op \in LocalOps
  <2>1. \A p \in Party : log[p][k + 1] = AfterLocal(ins, log[p][k], clears)
    BY <1>4, <1>5, <1>7 DEF Outcome
  <2>2. PICK a, b, c : a = log[0][k] /\ b = log[1][k] /\ c = log[2][k]
    OBVIOUS
  <2>3. /\ a \in Registers /\ b \in Registers /\ c \in Registers
        /\ Hides(a, b, c, val) /\ val \in Words
    BY <1>3, <1>4, <1>5, <2>2, Neighbours
  <2>4. PICK new : new = LocalValue(ins, val, clears)
    OBVIOUS
  <2>5. /\ new \in Words
        /\ Hides(AfterLocal(ins, a, clears), AfterLocal(ins, b, clears),
                 AfterLocal(ins, c, clears), new)
    BY <1>1, <1>4, <1>7, <2>3, <2>4, LocalAlike
  <2>6. Hides(log[0][k + 1], log[1][k + 1], log[2][k + 1], new)
    BY <2>1, <2>2, <2>5, Neighbours
  <2>7. Agreed(k + 1) /\ Clear(k + 1) = new
    BY <2>5, <2>6, AlikeEntry
  <2> QED
    BY <1>4, <1>6, <1>7, <2>4, <2>7 DEF Worked, Fulfils, LocalOps
<1>8. CASE ins.op = "ands"
  <2>1. /\ TypeOK /\ Control /\ Tracks /\ \A p \in Party : Own(p) /\ k + 1 <= Len(log[p])
    BY <1>1, MachineBacked, EntryTypes
  <2>2. ASSUME NEW r \in Reg
        PROVE  /\ Consistent([p \in Party |-> log[p][k + 1][r]])
               /\ WideGatesNarrow => Clear(k + 1)[r] = Ideal!Eval(ins, Clear(k))[r]
    <3>1. PICK new : new = [p \in Party |-> log[p][k + 1][r]]
      OBVIOUS
    <3>2. /\ Consistent(new)
          /\ WideGatesNarrow => Opened(new) = Ideal!Eval(program[k], Clear(k))[r]
      BY <1>1, <1>2, <1>4, <1>8, <2>1, <3>1, RegisterNext
    <3> QED
      BY <1>4, <3>1, <3>2 DEF Clear
  <2>3. Agreed(k + 1)
    BY <2>2 DEF Agreed
  <2>4. ASSUME WideGatesNarrow PROVE Clear(k + 1) = Ideal!Eval(ins, Clear(k))
    <3>1. /\ Clear(k + 1) = [r \in Reg |-> Clear(k + 1)[r]]
          /\ Ideal!Eval(ins, Clear(k)) = [r \in Reg |-> Ideal!Eval(ins, Clear(k))[r]]
      BY DEF Clear, Ideal!Eval
    <3> QED
      BY <2>2, <2>4, <3>1
  <2> QED
    BY <1>4, <1>6, <1>8, <2>3, <2>4 DEF Worked, Fulfils, LocalOps
<1>9. CASE ins.op = "inputb"
  <2>1. PICK n : n = Len(ins.items)
    OBVIOUS
  <2>2. PICK fa : PlannedRounds(fa, log[0][k], 0, k) /\ log[0][k + 1] = fa[n]
    BY <1>4, <1>5, <1>9, <2>1, Neighbours DEF Outcome, Stored
  <2>3. PICK fb : PlannedRounds(fb, log[1][k], 1, k) /\ log[1][k + 1] = fb[n]
    BY <1>4, <1>5, <1>9, <2>1, Neighbours DEF Outcome, Stored
  <2>4. PICK fc : PlannedRounds(fc, log[2][k], 2, k) /\ log[2][k + 1] = fc[n]
    BY <1>4, <1>5, <1>9, <2>1, Neighbours DEF Outcome, Stored
  <2>5. fa[0] = log[0][k] /\ fb[0] = log[1][k] /\ fc[0] = log[2][k]
    BY <2>2, <2>3, <2>4 DEF PlannedRounds
  <2>6. /\ Hides(fa[0], fb[0], fc[0], val) /\ val \in Words
        /\ DealtByFirst(program[k]) /\ n = Len(program[k].items)
    BY <1>3, <1>4, <2>1, <2>5 DEF Plain
  <2>7. PICK g : Handed(g, k, val) /\ Hides(fa[n], fb[n], fc[n], g[n]) /\ g[n] \in Words
    BY <1>4, <1>9, <2>2, <2>3, <2>4, <2>5, <2>6, HandedNext
  <2>8. Agreed(k + 1) /\ Clear(k + 1) = g[n]
    BY <2>2, <2>3, <2>4, <2>7, AlikeEntry
  <2> QED
    BY <1>4, <1>6, <1>9, <2>1, <2>7, <2>8 DEF Worked, Fulfils, LocalOps
<1>10. CASE ins.op = "reveal"
  <2>1. /\ log[0][k + 1] = log[0][k] /\ log[1][k + 1] = log[1][k] /\ log[2][k + 1] = log[2][k]
        /\ clog[0][k + 1] = RevealOf(clears, 0, log[0][k], ins.items, ShownBy(Before(0), k))
    BY <1>4, <1>5, <1>10, Neighbours DEF Outcome
  <2>2. Hides(log[0][k + 1], log[1][k + 1], log[2][k + 1], val) /\ val \in Words
    BY <1>3, <1>4, <2>1
  <2>3. Agreed(k + 1) /\ Clear(k + 1) = val
    BY <2>2, AlikeEntry
  <2>4. RevealOf(clears, 0, log[0][k], ins.items, ShownBy(Before(0), k))
          = IdealReveal(clears, Clear(k), ins.items)
    BY <1>1, <1>2, <1>4, <1>5, <1>10, RevealAlike, Neighbours DEF Reached
  <2> QED
    BY <1>4, <1>10, <2>1, <2>3, <2>4 DEF Worked, Fulfils, LocalOps
<1> QED
  BY <1>1, <1>4, <1>7, <1>8, <1>9, <1>10, InstructionKinds DEF Plain

(* Whoever finishes the instruction has the same clear registers then.     *)
LEMMA ClearsNext ==
    ASSUME MachineInv, Computed, NEW k \in 1 .. Len(program),
           program[k].op = "reveal" /\ Reached(k) => Agreed(k),
           NEW p \in Party, NEW q \in Party, k + 1 <= ip[p], k + 1 <= ip[q],
           clog[p][k] = clog[q][k]
    PROVE  clog[p][k + 1] = clog[q][k + 1]
<1>1. /\ k \in Nat \ {0} /\ program \in Programs /\ k <= ip[p] /\ k <= ip[q]
      /\ k \in 1 .. ip[p] - 1 /\ k \in 1 .. ip[q] - 1
  <2>1. ip[p] \in Nat /\ ip[q] \in Nat
    BY HereFacts
  <2> QED
    BY <2>1, HereFacts
<1>2. PICK ins, clears : ins = program[k] /\ clears = clog[p][k] /\ clears = clog[q][k]
  OBVIOUS
<1>3. /\ Outcome(p, k, log[p][k], log[p][k + 1], clears, clog[p][k + 1])
      /\ Outcome(q, k, log[q][k], log[q][k + 1], clears, clog[q][k + 1])
      /\ clears \in ClearRegs
  BY <1>1, <1>2, EntryTypes DEF Computed, Effect
<1>4. CASE ins.op # "reveal"
  BY <1>2, <1>3, <1>4 DEF Outcome
<1>5. CASE ins.op = "reveal" /\ p # q
  <2>1. k <= ip[Before(p)] /\ k <= ip[Before(q)]
    BY <1>1, <1>2, <1>5, FinishedHere
  <2>2. Reached(k)
    <3>1. \A r \in Party : r \in {p, q, Before(p), Before(q)}
      BY <1>5 DEF Party, Before
    <3> QED
      BY <1>1, <2>1, <3>1 DEF Reached
  <2>3. Agreed(k)
    BY <1>2, <1>5, <2>2
  <2>4. /\ RevealOf(clears, p, log[p][k], ins.items, ShownBy(Before(p), k))
             = IdealReveal(clears, Clear(k), ins.items)
        /\ RevealOf(clears, q, log[q][k], ins.items, ShownBy(Before(q), k))
             = IdealReveal(clears, Clear(k), ins.items)
    BY <1>2, <1>3, <1>5, <2>2, <2>3, RevealAlike
  <2> QED
    BY <1>2, <1>3, <1>5, <2>4 DEF Outcome
<1> QED
  BY <1>4, <1>5

LEMMA LevelNext ==
    ASSUME MachineInv, Computed, NEW k \in 1 .. Len(program), Plain(program[k]), Level(k)
    PROVE  Level(k + 1)
<1>1. Reached(k + 1) => Agreed(k + 1)
  BY WorkedNext
<1>2. \A p, q \in Party : k + 1 <= ip[p] /\ k + 1 <= ip[q] => clog[p][k + 1] = clog[q][k + 1]
  <2> TAKE p, q \in Party
  <2> HAVE k + 1 <= ip[p] /\ k + 1 <= ip[q]
  <2>1. k <= ip[p] /\ k <= ip[q]
    BY HereFacts
  <2>2. clog[p][k] = clog[q][k] /\ (Reached(k) => Agreed(k))
    BY <2>1 DEF Level
  <2> QED
    BY <2>2, ClearsNext
<1> QED
  BY <1>1, <1>2 DEF Level

LEMMA LevelAll ==
    ASSUME MachineInv, Computed, NEW n \in 0 .. Len(program),
           \A k \in 1 .. n : Plain(program[k])
    PROVE  \A i \in 0 .. n : Level(i + 1)
<1> DEFINE Good == {i \in 0 .. n : Level(i + 1)}
<1>1. n \in Nat /\ Len(program) \in Nat
  BY HereFacts, Neighbours
<1>2. Level(1)
  <2>1. \A p \in Party : clog[p][1] = Blank
    BY DEF Computed
  <2>2. Agreed(1)
    BY DEF MachineInv, Dealt, Agreed
  <2> QED
    BY <2>1, <2>2 DEF Level
<1>3. 0 \in Good
  BY <1>1, <1>2
<1>4. ASSUME NEW i \in 1 .. n, i - 1 \in Good
      PROVE  i \in Good
  <2>1. i \in 1 .. Len(program) /\ (i - 1) + 1 = i /\ Plain(program[i])
    BY <1>1
  <2>2. Level(i)
    BY <1>4, <2>1
  <2>3. Level(i + 1)
    BY <2>1, <2>2, LevelNext
  <2> QED
    BY <1>1, <2>3
<1>5. \A i \in 0 .. n : i \in Good
  <2> HIDE DEF Good
  <2> QED
    BY <1>1, <1>3, <1>4, Climb
<1> QED
  BY <1>5

-----------------------------------------------------------------------------
(***************************************************************************)
(* What all three parties have finished.                                   *)
(***************************************************************************)
LEMMA CompletedHere ==
    ASSUME MachineInv, NEW c, c = Completed
    PROVE  /\ c \in 0 .. Len(program) /\ Len(program) \in Nat
           /\ \A b \in Nat : b <= c + 1 => Reached(b)
           /\ \E p \in Party : ip[p] = c + 1
<1>1. Slowest
  BY MachineBacked, CompletedByAll
<1>2. \A p \in Party : /\ Len(log[p]) = ip[p] /\ ip[p] \in Nat
                       /\ ip[p] <= Len(program) + 1 /\ Len(program) \in Nat
  BY MachineBacked, HereFacts DEF Own, Logged, Control, InBatch
<1>3. c \in Nat /\ \A p \in Party : c + 1 <= ip[p]
  BY <1>1, <1>2 DEF Slowest
<1>4. \E p \in Party : ip[p] = c + 1
  BY <1>1, <1>2 DEF Slowest
<1>5. \A b \in Nat : b <= c + 1 => Reached(b)
  BY <1>2, <1>3 DEF Reached
<1> QED
  BY <1>2, <1>3, <1>4, <1>5

(***************************************************************************)
(* As long as a program has used no random bit and no input of parties 1   *)
(* and 2, everything that the three machines have computed is properly     *)
(* shared: for every such beginning of every program, whatever its         *)
(* instructions, constants and openings included, every word length and    *)
(* every interleaving of the parties.                                      *)
(***************************************************************************)
THEOREM MachineSharesConsistentCorrect == MachineSpec => []MachineSharesConsistent
<1>1. ASSUME MachineInv, Computed PROVE MachineSharesConsistent
  <2> SUFFICES ASSUME NEW k \in 0 .. Completed, NEW r \in Reg,
                      \A j \in 1 .. k : program[j].op # "bitb" /\ DealtByFirst(program[j])
               PROVE  Consistent(SharingOf(r, k))
    BY DEF MachineSharesConsistent
  <2>1. PICK c : c = Completed
    OBVIOUS
  <2>2. /\ c \in 0 .. Len(program) /\ Len(program) \in Nat
        /\ Reached(k + 1) /\ k \in 0 .. Len(program)
    BY <1>1, <2>1, CompletedHere
  <2>3. \A j \in 1 .. k : Plain(program[j])
    BY DEF Plain
  <2>4. \A i \in 0 .. k : Level(i + 1)
    BY <1>1, <2>2, <2>3, LevelAll
  <2>5. Agreed(k + 1)
    BY <2>2, <2>4 DEF Level
  <2> QED
    BY <2>5 DEF Agreed, SharingOf
<1> QED
  BY <1>1, ComputedCorrect, PTL

(* Programs that open nothing after a random bit or an input of party 1    *)
(* or 2.                                                                   *)
PlainOpenings ==
    \A prog \in Programs : \A k \in 1 .. Len(prog) :
        prog[k].op = "reveal" => \A j \in 1 .. k - 1 : Plain(prog[j])

(***************************************************************************)
(* The parties open every secret of such a program to the same word,       *)
(* though each from two other components, and even if one of them is far   *)
(* behind: what their clear registers hold after an instruction is the     *)
(* same as soon as two of them have finished it.                           *)
(***************************************************************************)
THEOREM OpeningsAgreeCorrect == PlainOpenings => (MachineSpec => []OpeningsAgree)
<1> SUFFICES ASSUME PlainOpenings PROVE MachineSpec => []OpeningsAgree
  OBVIOUS
<1>1. ASSUME MachineInv, Computed PROVE OpeningsAgree
  <2> DEFINE Alikes(k) ==
               \A p, q \in Party : k <= ip[p] /\ k <= ip[q] => clog[p][k] = clog[q][k]
  <2>1. PICK n \in Nat : n = Len(program)
    BY <1>1, HereFacts, Neighbours
  <2>2. Alikes(1)
    BY <1>1 DEF Computed
  <2>3. ASSUME NEW k \in 1 .. n, Alikes(k)
        PROVE  Alikes(k + 1)
    <3> SUFFICES ASSUME NEW p \in Party, NEW q \in Party, k + 1 <= ip[p], k + 1 <= ip[q]
                 PROVE  clog[p][k + 1] = clog[q][k + 1]
      OBVIOUS
    <3>1. k <= ip[p] /\ k <= ip[q]
      BY <1>1, HereFacts
    <3>2. clog[p][k] = clog[q][k]
      BY <2>3, <3>1
    <3>3. ASSUME program[k].op = "reveal", Reached(k) PROVE Agreed(k)
      <4>1. \A j \in 1 .. k - 1 : Plain(program[j])
        BY <1>1, <2>1, <3>3, HereFacts, Neighbours DEF PlainOpenings
      <4>2. k - 1 \in 0 .. Len(program) /\ (k - 1) + 1 = k /\ k - 1 \in 0 .. k - 1
        BY <2>1
      <4>3. Level(k)
        BY <1>1, <4>1, <4>2, LevelAll
      <4> QED
        BY <3>3, <4>3 DEF Level
    <3> HIDE DEF Alikes
    <3> QED
      BY <1>1, <2>1, <3>2, <3>3, ClearsNext
  <2>4. \A i \in 0 .. n : Alikes(i + 1)
    <3> HIDE DEF Alikes
    <3> DEFINE Good == {i \in 0 .. n : Alikes(i + 1)}
    <3>1. 0 \in Good
      BY <2>2
    <3>2. ASSUME NEW i \in 1 .. n, i - 1 \in Good PROVE i \in Good
      <4>1. Alikes(i)
        BY <3>2
      <4> QED
        BY <2>3, <4>1
    <3>3. \A i \in 0 .. n : i \in Good
      <4> HIDE DEF Good
      <4> QED
        BY <3>1, <3>2, Climb
    <3> QED
      BY <3>3
  <2> SUFFICES ASSUME NEW p \in Party, NEW q \in Party,
                      NEW k \in DOMAIN clog[p] \cap DOMAIN clog[q]
               PROVE  clog[p][k] = clog[q][k]
    BY DEF OpeningsAgree
  <2>5. /\ ip[p] \in Nat /\ ip[q] \in Nat /\ ip[p] <= n + 1
        /\ Len(clog[p]) = ip[p] /\ Len(clog[q]) = ip[q]
        /\ clog[p] \in Seq(ClearRegs) /\ clog[q] \in Seq(ClearRegs)
    BY <1>1, <2>1, MachineBacked, HereFacts DEF ClearLogged, Control, InBatch
  <2>6. k \in 1 .. ip[p] /\ k \in 1 .. ip[q]
    BY <2>5, LenProperties
  <2>7. k - 1 \in 0 .. n /\ (k - 1) + 1 = k /\ k <= ip[p] /\ k <= ip[q]
    BY <2>1, <2>5, <2>6
  <2>8. Alikes(k)
    <3> HIDE DEF Alikes
    <3> QED
      BY <2>4, <2>7
  <2> QED
    BY <2>7, <2>8
<1> QED
  BY <1>1, ComputedCorrect, PTL

-----------------------------------------------------------------------------
(***************************************************************************)
(* What each instruction makes of the words is what the compiler promises. *)
(***************************************************************************)
(* A random bit is one, whatever it is. *)
Flipped(ins, val, new) ==
    \E bit : bit \in {{}, {0}} /\ new = [val EXCEPT ![ins.out] = bit]

Deed(k, val, new, clears, others) ==
    /\ Fulfils(k, val, new, clears, others)
    /\ program[k].op = "bitb" => Flipped(program[k], val, new)

LEMMA ItemSame ==
    ASSUME program' = program, tape' = tape, input' = input, NEW k, NEW i
    PROVE  ItemWord(k, i)' = ItemWord(k, i)
<1>1. ReadsOf(0)' = ReadsOf(0)
  BY PlanSame, Neighbours
<1> QED
  BY <1>1 DEF ItemWord

LEMMA DeedSame ==
    ASSUME UNCHANGED <<program, tape, input>>,
           NEW k, NEW val, NEW new, NEW clears, NEW others, Deed(k, val, new, clears, others)'
    PROVE  Deed(k, val, new, clears, others)
<1>1. program' = program /\ \A i : ItemWord(k, i)' = ItemWord(k, i)
  BY ItemSame
<1>2. \A g : Handed(g, k, val)' => Handed(g, k, val)
  BY <1>1 DEF Handed
<1>3. program'[k] = program[k]
  BY <1>1
<1>4. Fulfils(k, val, new, clears, others)
  BY <1>2, <1>3 DEF Deed, Fulfils
<1> QED
  BY <1>3, <1>4 DEF Deed

LEMMA FlippedHere ==
    ASSUME MachineInv, Computed, NEW k \in 1 .. Len(program), program[k].op = "bitb",
           Reached(k + 1)
    PROVE  Flipped(program[k], Clear(k), Clear(k + 1))
<1>1. /\ k \in Nat \ {0} /\ program \in Programs
      /\ \A p \in Party : k <= ip[p] /\ k + 1 <= ip[p] /\ k \in 1 .. ip[p] - 1
  <2>1. \A p \in Party : ip[p] \in Nat /\ k + 1 <= ip[p]
    BY HereFacts DEF Reached
  <2>2. program \in Programs /\ Len(program) \in Nat
    BY HereFacts, Neighbours
  <2>3. ASSUME NEW p \in Party PROVE k <= ip[p] /\ k + 1 <= ip[p] /\ k \in 1 .. ip[p] - 1
    BY <2>1, <2>2
  <2> QED
    BY <2>2, <2>3
<1>2. PICK ins : ins = program[k] /\ ins.out \in Reg
  BY <1>1, InstructionFacts
<1>3. \A p \in Party : Tossed(log[p][k], ins.out, log[p][k + 1])
  BY <1>1, <1>2 DEF Computed, Effect, Outcome
<1>4. \A p \in Party : log[p][k] \in Registers
  BY <1>1, EntryTypes
<1>5. PICK s : s[0] \in {{}, {0}} /\ log[0][k + 1] = [log[0][k] EXCEPT ![ins.out] = s]
  BY <1>3, Neighbours DEF Tossed
<1>6. PICK t : t[0] \in {{}, {0}} /\ log[2][k + 1] = [log[2][k] EXCEPT ![ins.out] = t]
  BY <1>3, Neighbours DEF Tossed
<1>7. PICK bit : bit = s[0] (+) t[0] /\ bit \in {{}, {0}}
  <2>1. \A x, y : x \in {{}, {0}} /\ y \in {{}, {0}} => x (+) y \in {{}, {0}}
    BY DEF (+)
  <2> QED
    BY <1>5, <1>6, <2>1
<1>8. \A b : Clear(b) = [r \in Reg |-> log[0][b][r][0] (+) log[2][b][r][0]]
  BY Neighbours DEF Clear, Opened, OpenAt, OpenFrom, Before
<1>9. \A r \in Reg : Clear(k + 1)[r] = IF r = ins.out THEN bit ELSE Clear(k)[r]
  <2> TAKE r \in Reg
  <2>1. PICK a, c, a2, c2 : /\ a = log[0][k] /\ a2 = log[0][k + 1]
                           /\ c = log[2][k] /\ c2 = log[2][k + 1]
    OBVIOUS
  <2>2. a \in [Reg -> Share] /\ c \in [Reg -> Share]
    BY <1>4, <2>1, Neighbours DEF Registers
  <2>3. a2[r] = (IF r = ins.out THEN s ELSE a[r]) /\ c2[r] = (IF r = ins.out THEN t ELSE c[r])
    BY <1>2, <1>5, <1>6, <2>1, <2>2
  <2>4. Clear(k)[r] = a[r][0] (+) c[r][0] /\ Clear(k + 1)[r] = a2[r][0] (+) c2[r][0]
    BY <1>8, <2>1
  <2> QED
    BY <1>7, <2>3, <2>4
<1>10. Clear(k + 1) = [Clear(k) EXCEPT ![ins.out] = bit]
  BY <1>8, <1>9
<1> QED
  BY <1>2, <1>7, <1>10 DEF Flipped

(***************************************************************************)
(* Programs that use random bits only at the end.  The compiler's programs *)
(* need not, but what random bits are shared like is another matter (see   *)
(* vm_bits).                                                               *)
(***************************************************************************)
BitsLast ==
    \A prog \in Programs : \A k \in 1 .. Len(prog) :
        prog[k].op # "bitb" => \A j \in 1 .. k - 1 : prog[j].op # "bitb"

LEMMA DeedHere ==
    ASSUME MachineInv, Computed, BitsLast, NEW k \in 1 .. Len(program), Reached(k + 1),
           \A j \in 1 .. k : Kept(program[j])
    PROVE  /\ Deed(k, Clear(k), Clear(k + 1), clog[0][k], clog[0][k + 1])
           /\ clog[0][k] \in ClearRegs
           /\ program[k].op # "bitb" => Clear(k) \in Words
<1>1. /\ k \in Nat \ {0} /\ program \in Programs
      /\ \A p \in Party : k <= ip[p] /\ k + 1 <= ip[p] /\ k \in 1 .. ip[p] - 1
  <2>1. \A p \in Party : ip[p] \in Nat /\ k + 1 <= ip[p]
    BY HereFacts DEF Reached
  <2>2. program \in Programs /\ Len(program) \in Nat
    BY HereFacts, Neighbours
  <2>3. ASSUME NEW p \in Party PROVE k <= ip[p] /\ k + 1 <= ip[p] /\ k \in 1 .. ip[p] - 1
    BY <2>1, <2>2
  <2> QED
    BY <2>2, <2>3
<1>2. clog[0][k] \in ClearRegs
  BY <1>1, EntryTypes, Neighbours
<1>3. CASE program[k].op = "bitb"
  <2>1. Outcome(0, k, log[0][k], log[0][k + 1], clog[0][k], clog[0][k + 1])
    BY <1>1, Neighbours DEF Computed, Effect
  <2>2. clog[0][k + 1] = clog[0][k]
    BY <1>3, <2>1 DEF Outcome
  <2>3. Fulfils(k, Clear(k), Clear(k + 1), clog[0][k], clog[0][k + 1])
    BY <1>3, <2>2 DEF Fulfils, LocalOps
  <2> QED
    BY <1>2, <1>3, <2>3, FlippedHere DEF Deed
<1>4. CASE program[k].op # "bitb"
  <2>1. \A j \in 1 .. k : Plain(program[j])
    <3>1. \A j \in 1 .. k : j = k \/ j \in 1 .. k - 1
      BY <1>1
    <3> QED
      BY <1>1, <1>4, <3>1 DEF BitsLast, Plain, Kept
  <2>2. PICK n : n = k - 1 /\ n \in 0 .. Len(program) /\ n + 1 = k /\ n \in 0 .. n
    BY <1>1, HereFacts, Neighbours
  <2>3. \A j \in 1 .. n : Plain(program[j])
    BY <1>1, <2>1, <2>2
  <2>4. Level(k)
    BY <2>2, <2>3, LevelAll
  <2>5. Agreed(k + 1) /\ Worked(k)
    BY <2>1, <2>4, WorkedNext
  <2>6. Reached(k) /\ Agreed(k)
    BY <1>1, <2>4 DEF Level, Reached
  <2>7. Clear(k) \in Words
    BY <1>1, <2>6, EntryAlike
  <2> QED
    BY <1>2, <1>4, <2>5, <2>7 DEF Deed, Worked
<1> QED
  BY <1>3, <1>4

LEMMA SameEval ==
    ASSUME NEW ins, NEW val
    PROVE  Promise!Eval(ins, val) = Ideal!Eval(ins, val)
BY Zenon DEF Promise!Eval, Ideal!Eval, Promise!WriterOf, Ideal!WriterOf,
             Promise!And, Ideal!And, Promise!Lane, Ideal!Lane

LEMMA InputBPromised ==
    ASSUME MachineInv, NEW k \in 1 .. Len(program), program[k].op = "inputb",
           DealtByFirst(program[k]), NEW val \in Words, NEW g, Handed(g, k, val)
    PROVE  IdealInput(k, val) = g[Len(program[k].items)]
<1>1. PICK items, n : items = program[k].items /\ n = Len(items)
  OBVIOUS
<1>2. items \in Seq(Dealing) /\ n \in Nat
  BY <1>1, InstructionFacts, HereFacts, Neighbours, LenProperties
<1>3. \A i \in 1 .. n : Promise!InputValue(k, i) = ItemWord(k, i)
  BY <1>1, InputPromised
<1>4. /\ g \in [0 .. n -> Words] /\ g[0] = val
      /\ \A i \in 1 .. n : g[i] = [g[i - 1] EXCEPT ![items[i].out] = ItemWord(k, i)]
  BY <1>1 DEF Handed
<1>5. \A i \in 1 .. n : ItemWord(k, i) \in Vec
  <2> TAKE i \in 1 .. n
  <2>1. items[i] \in Dealing
    BY <1>1, <1>2, ElementOfSeq
  <2>2. PICK out \in Reg : out = items[i].out
    BY <2>1 DEF Dealing
  <2>3. g[i] \in Words /\ g[i - 1] \in Words
    BY <1>2, <1>4
  <2>4. g[i][out] = ItemWord(k, i)
    BY <1>4, <2>2, <2>3 DEF Words
  <2> QED
    BY <2>2, <2>3, <2>4 DEF Words
<1>6. \A i \in 1 .. n : Promise!InputValue(k, i) \in Vec
  BY <1>3, <1>5
<1>7. PICK f : IdealInputRounds(f, k, val) /\ IdealInput(k, val) = f[n]
  BY <1>1, <1>2, <1>6, IdealInputLoop
<1>8. /\ f[0] = val
      /\ \A i \in 1 .. n : f[i] = [f[i - 1] EXCEPT ![items[i].out] = Promise!InputValue(k, i)]
  BY <1>1, <1>7 DEF IdealInputRounds
<1>9. f[0] = g[0] /\ \A i \in 1 .. n : f[i - 1] = g[i - 1] => f[i] = g[i]
  BY <1>3, <1>4, <1>8
<1>10. f[n] = g[n]
  BY <1>2, <1>9, SameEnd
<1> QED
  BY <1>1, <1>7, <1>10

(***************************************************************************)
(* Instruction k has been promised to do this.                             *)
(***************************************************************************)
AsPromised(k, val, new, clears, others) ==
    /\ \E bit \in {{}, {0}} : new = Promise!SecretsAfter(k, val, clears, bit)
    /\ others = Promise!ClearAfter(k, val, clears)

LEMMA DeedPromised ==
    ASSUME MachineInv, WideGatesNarrow, NEW k \in 1 .. Len(program), Kept(program[k]),
           NEW val, NEW new, NEW clears, NEW others, Deed(k, val, new, clears, others),
           program[k].op # "bitb" => val \in Words
    PROVE  AsPromised(k, val, new, clears, others)
<1>1. PICK ins, bit : ins = program[k] /\ bit = {}
  OBVIOUS
<1>2. ASSUME new = Promise!SecretsAfter(k, val, clears, bit)
      PROVE  \E b \in {{}, {0}} : new = Promise!SecretsAfter(k, val, clears, b)
  BY <1>1, <1>2
<1>3. CASE ins.op = "ands"
  <2>1. new = Promise!Eval(ins, val) /\ others = clears
    BY <1>1, <1>3, SameEval DEF Deed, Fulfils
  <2>2. new = Promise!SecretsAfter(k, val, clears, bit)
    BY <1>1, <1>3, <2>1 DEF Promise!SecretsAfter
  <2>3. others = Promise!ClearAfter(k, val, clears)
    BY <1>1, <1>3, <2>1 DEF Promise!ClearAfter
  <2> QED
    BY <1>2, <2>2, <2>3 DEF AsPromised
<1>4. CASE ins.op \in LocalOps
  <2>1. new = LocalValue(ins, val, clears) /\ others = clears /\ ins.op # "reveal"
        /\ ins.op # "bitb"
    BY <1>1, <1>4 DEF Deed, Fulfils, LocalOps
  <2>2. new = Promise!SecretsAfter(k, val, clears, bit)
    BY <1>1, <1>4, <2>1, LocalPromised
  <2>3. others = Promise!ClearAfter(k, val, clears)
    BY <1>1, <2>1 DEF Promise!ClearAfter
  <2> QED
    BY <1>2, <2>2, <2>3 DEF AsPromised
<1>5. CASE ins.op = "inputb"
  <2>1. PICK g : Handed(g, k, val) /\ new = g[Len(ins.items)] /\ others = clears
    BY <1>1, <1>5 DEF Deed, Fulfils
  <2>2. new = IdealInput(k, val)
    BY <1>1, <1>5, <2>1, InputBPromised DEF Kept
  <2>3. new = Promise!SecretsAfter(k, val, clears, bit)
    BY <1>1, <1>5, <2>2 DEF Promise!SecretsAfter, IdealInput
  <2>4. others = Promise!ClearAfter(k, val, clears)
    BY <1>1, <1>5, <2>1 DEF Promise!ClearAfter
  <2> QED
    BY <1>2, <2>3, <2>4 DEF AsPromised
<1>6. CASE ins.op = "reveal"
  <2>1. new = val /\ others = IdealReveal(clears, val, ins.items)
    BY <1>1, <1>6 DEF Deed, Fulfils
  <2>2. new = Promise!SecretsAfter(k, val, clears, bit)
    BY <1>1, <1>6, <2>1 DEF Promise!SecretsAfter
  <2>3. others = Promise!ClearAfter(k, val, clears)
    <3>1. program[k].op = "reveal"
      BY <1>1, <1>6
    <3>2. Promise!ClearAfter(k, val, clears) = IdealReveal(clears, val, program[k].items)
      BY <3>1, Zenon DEF Promise!ClearAfter, IdealReveal
    <3> QED
      BY <1>1, <2>1, <3>2
  <2> QED
    BY <1>2, <2>2, <2>3 DEF AsPromised
<1>7. CASE ins.op = "bitb"
  <2>1. others = clears /\ Flipped(ins, val, new)
    BY <1>1, <1>7 DEF Deed, Fulfils
  <2>2. PICK b \in {{}, {0}} : new = [val EXCEPT ![ins.out] = b]
    BY <2>1 DEF Flipped
  <2>3. new = Promise!SecretsAfter(k, val, clears, b)
    BY <1>1, <1>7, <2>2 DEF Promise!SecretsAfter
  <2>4. others = Promise!ClearAfter(k, val, clears)
    BY <1>1, <1>7, <2>1 DEF Promise!ClearAfter
  <2> QED
    BY <2>3, <2>4 DEF AsPromised
<1>8. ins.op \in LocalOps \cup {"ands", "bitb", "inputb", "reveal"}
  BY <1>1, InstructionKinds, HereFacts, Neighbours
<1> QED
  BY <1>3, <1>4, <1>5, <1>6, <1>7, <1>8

-----------------------------------------------------------------------------
(***************************************************************************)
(* How far the promise goes: k of c finished instructions.                 *)
(***************************************************************************)
GoesTo(prog, c, k) ==
    /\ k \in 0 .. c
    /\ \A j \in 1 .. k : Kept(prog[j])
    /\ k = c \/ ~Kept(prog[k + 1])

LEMMA GoesSomewhere ==
    ASSUME NEW prog, NEW c \in Nat
    PROVE  \E k : GoesTo(prog, c, k)
<1> SUFFICES ASSUME ~\E k : GoesTo(prog, c, k) PROVE FALSE
  OBVIOUS
<1>1. PICK T : T = {k \in 0 .. c : \A j \in 1 .. k : Kept(prog[j])}
  OBVIOUS
<1>2. 0 \in T
  BY <1>1
<1>3. ASSUME NEW i \in 1 .. c, i - 1 \in T PROVE i \in T
  <2>1. PICK k \in 0 .. c : k = i - 1 /\ k + 1 = i /\ k # c /\ \A j \in 1 .. k : Kept(prog[j])
    BY <1>1, <1>3
  <2>2. Kept(prog[i])
    BY <2>1 DEF GoesTo
  <2>3. \A j \in 1 .. i : j \in 1 .. k \/ j = i
    BY <2>1
  <2> QED
    BY <1>1, <2>1, <2>2, <2>3
<1>4. \A i \in 0 .. c : i \in T
  BY <1>2, <1>3, Climb
<1>5. \A j \in 1 .. c : Kept(prog[j])
  BY <1>1, <1>4
<1>6. GoesTo(prog, c, c)
  BY <1>5 DEF GoesTo
<1> QED
  BY <1>6

LEMMA GoesNoFurther ==
    ASSUME NEW prog, NEW c \in Nat, NEW k, NEW k2, NEW c2 \in {c, c + 1},
           GoesTo(prog, c, k), GoesTo(prog, c2, k2)
    PROVE  k2 = k \/ k2 = k + 1
<1>1. k \in 0 .. c /\ k2 \in 0 .. c2
  BY DEF GoesTo
<1>2. ASSUME k2 < k PROVE FALSE
  <2>1. k2 + 1 \in 1 .. k /\ k2 # c2
    BY <1>1, <1>2
  <2> QED
    BY <2>1 DEF GoesTo
<1>3. ASSUME k + 1 < k2 PROVE FALSE
  <2>1. k + 1 \in 1 .. k2 /\ k # c
    BY <1>1, <1>3
  <2> QED
    BY <2>1 DEF GoesTo
<1> QED
  BY <1>1, <1>2, <1>3

(* What has been finished by all, and how much of it was promised. *)
Paced ==
    /\ Len(program) \in Nat
    /\ Completed \in 0 .. Len(program)
    /\ ip \in [Party -> Nat \ {0}]
    /\ \A p \in Party : /\ ip[p] \in Nat /\ Completed + 1 <= ip[p]
                        /\ Len(log[p]) = ip[p] /\ Len(clog[p]) = ip[p]
    /\ \E p \in Party : ip[p] = Completed + 1
    /\ GoesTo(program, Completed, CompletedAsPromised)

Deeds ==
    \A k \in 1 .. Len(program) :
        Reached(k + 1) /\ (\A j \in 1 .. k : Kept(program[j])) =>
            /\ Deed(k, Clear(k), Clear(k + 1), clog[0][k], clog[0][k + 1])
            /\ program[k].op # "bitb" => Clear(k) \in Words

LEMMA PacedHere ==
    ASSUME MachineInv
    PROVE  Paced
<1>1. PICK c, k : c = Completed /\ k = CompletedAsPromised
  OBVIOUS
<1>2. /\ c \in 0 .. Len(program) /\ Len(program) \in Nat
      /\ \A b \in Nat : b <= c + 1 => Reached(b)
      /\ \E p \in Party : ip[p] = c + 1
  BY <1>1, CompletedHere
<1>3. \A p \in Party : ip[p] \in Nat /\ Len(log[p]) = ip[p] /\ Len(clog[p]) = ip[p]
  BY MachineBacked, HereFacts DEF Own, Logged, ClearLogged
<1>4. \A p \in Party : c + 1 <= ip[p]
  BY <1>2 DEF Reached
<1>5. k = CHOOSE i : GoesTo(program, c, i)
  BY <1>1 DEF CompletedAsPromised, GoesTo
<1>6. GoesTo(program, c, k)
  <2>1. PICK i : GoesTo(program, c, i)
    <3>1. c \in Nat
      BY <1>2
    <3> QED
      BY <3>1, GoesSomewhere, Zenon
  <2> QED
    BY <1>5, <2>1, Zenon
<1>7. ip \in [Party -> Nat \ {0}]
  BY HereFacts, Neighbours
<1> QED
  BY <1>1, <1>2, <1>3, <1>4, <1>6, <1>7 DEF Paced

LEMMA DeedsHere ==
    ASSUME MachineInv, Computed, BitsLast
    PROVE  Deeds
BY DeedHere DEF Deeds

LEMMA PaceStep ==
    ASSUME Paced, Paced', NEW r \in Party, Waits \/ Finishes(r)
    PROVE  Completed' \in {Completed, Completed + 1}
<1>1. PICK c, c2 : c = Completed /\ c2 = Completed'
  OBVIOUS
<1>2. /\ c \in Nat /\ \A p \in Party : ip[p] \in Nat /\ c + 1 <= ip[p]
      /\ \E p \in Party : ip[p] = c + 1
  BY <1>1 DEF Paced
<1>3. /\ c2 \in Nat /\ \A p \in Party : ip'[p] \in Nat /\ c2 + 1 <= ip'[p]
      /\ \E p \in Party : ip'[p] = c2 + 1
  BY <1>1 DEF Paced
<1>4. \A p \in Party : ip'[p] \in {ip[p], ip[p] + 1}
  <2>1. ip \in [Party -> Nat \ {0}]
    BY DEF Paced
  <2>2. ip' = ip \/ ip' = [ip EXCEPT ![r] = ip[r] + 1]
    BY DEF Waits, Finishes
  <2> QED
    BY <2>1, <2>2
<1> QED
  BY <1>1, <1>2, <1>3, <1>4

-----------------------------------------------------------------------------
(***************************************************************************)
(* The machines run the program.                                           *)
(***************************************************************************)
Hidden == [r \in Reg |-> Opened(SharingOf(r, CompletedAsPromised))]
Visible == clog[0][CompletedAsPromised + 1]

LEMMA HiddenClear ==
    ASSUME NEW k, k = CompletedAsPromised
    PROVE  Hidden = Clear(k + 1) /\ Visible = clog[0][k + 1]
BY DEF Hidden, Visible, Clear, SharingOf

LEMMA PromiseKept ==
    ASSUME UNCHANGED <<program, input>>, CompletedAsPromised' = CompletedAsPromised,
           Hidden' = Hidden, Visible' = Visible
    PROVE  [Promise!ExecuteAny]_(Promise!machineVars)
BY DEF Promise!machineVars, Promise!idealVars, Hidden, Visible

LEMMA PromiseDone ==
    ASSUME UNCHANGED <<program, input>>, NEW k, k = CompletedAsPromised,
           CompletedAsPromised' = k + 1, k < Len(program),
           AsPromised(k + 1, Hidden, Hidden', Visible, Visible')
    PROVE  Promise!ExecuteAny
<1>1. PICK bit \in {{}, {0}} : Hidden' = Promise!SecretsAfter(k + 1, Hidden, Visible, bit)
  BY DEF AsPromised
<1>2. Visible' = Promise!ClearAfter(k + 1, Hidden, Visible)
  BY DEF AsPromised
<1> QED
  BY <1>1, <1>2 DEF Promise!ExecuteAny, Hidden, Visible

LEMMA PromiseStep ==
    ASSUME WideGatesNarrow, MachineInv, Paced, Paced', Deeds', NEW r \in Party,
           Waits \/ Finishes(r)
    PROVE  [Promise!ExecuteAny]_(Promise!machineVars)
<1>1. PICK c, k, c2, k2 : /\ c = Completed /\ k = CompletedAsPromised
                          /\ c2 = Completed' /\ k2 = CompletedAsPromised'
  OBVIOUS
<1>2. UNCHANGED <<program, tape, input>>
  BY DEF Waits, Finishes
<1>3. Longer
  <2>1. CASE Waits
    BY <2>1 DEF Waits, Longer
  <2>2. CASE Finishes(r)
    BY <2>2, HistoriesLonger
  <2> QED
    BY <2>1, <2>2
<1>4. /\ c \in 0 .. Len(program) /\ Len(program) \in Nat /\ GoesTo(program, c, k)
      /\ \A p \in Party : /\ ip[p] \in Nat /\ c + 1 <= ip[p]
                          /\ Len(log[p]) = ip[p] /\ Len(clog[p]) = ip[p]
  BY <1>1 DEF Paced
<1>5. PICK prog : prog = program /\ prog = program'
  BY <1>2
<1>6. /\ c2 \in 0 .. Len(prog) /\ GoesTo(prog, c2, k2)
      /\ \A p \in Party : ip'[p] \in Nat /\ c2 + 1 <= ip'[p]
  <2>1. /\ Completed' \in 0 .. Len(program')
        /\ GoesTo(program', Completed', CompletedAsPromised')
        /\ \A p \in Party : ip'[p] \in Nat /\ Completed' + 1 <= ip'[p]
    BY DEF Paced
  <2> QED
    BY <1>1, <1>5, <2>1
<1>7. c2 \in {c, c + 1}
  BY <1>1, PaceStep
<1>8. k2 = k \/ k2 = k + 1
  <2>1. c \in Nat /\ GoesTo(prog, c, k) /\ GoesTo(prog, c2, k2) /\ c2 \in {c, c + 1}
    BY <1>4, <1>5, <1>6, <1>7
  <2> QED
    BY <2>1, GoesNoFurther, Zenon
<1>9. k \in 0 .. c /\ k2 \in 0 .. c2 /\ \A j \in 1 .. k2 : Kept(prog[j])
  BY <1>4, <1>5, <1>6 DEF GoesTo
<1>10. Clear(k + 1)' = Clear(k + 1) /\ clog'[0][k + 1] = clog[0][k + 1]
  <2>1. \A p \in Party : log'[p][k + 1] = log[p][k + 1] /\ clog'[p][k + 1] = clog[p][k + 1]
    <3> TAKE p \in Party
    <3>1. k + 1 \in 1 .. Len(log[p]) /\ k + 1 \in 1 .. Len(clog[p])
      BY <1>4, <1>9
    <3> QED
      BY <1>3, <3>1 DEF Longer
  <2> QED
    BY <2>1, Neighbours DEF Clear
<1>11. Hidden = Clear(k + 1) /\ Visible = clog[0][k + 1]
  BY <1>1, HiddenClear
<1>12. Hidden' = Clear(k2 + 1)' /\ Visible' = clog'[0][k2 + 1]
  BY <1>1 DEF Hidden, Visible, Clear, SharingOf
<1>13. CASE k2 = k
  <2>1. Clear(k2 + 1)' = Clear(k + 1)'
    BY <1>13
  <2>2. Hidden' = Hidden /\ Visible' = Visible
    BY <1>10, <1>11, <1>12, <1>13, <2>1
  <2> QED
    BY <1>1, <1>2, <1>13, <2>2, PromiseKept
<1>14. CASE k2 = k + 1
  <2>1. PICK val, new, cl, cl2 : /\ val = Clear(k2)' /\ new = Clear(k2 + 1)'
                                 /\ cl = clog'[0][k2] /\ cl2 = clog'[0][k2 + 1]
    OBVIOUS
  <2>2. k2 \in 1 .. Len(program) /\ k < Len(program)
    BY <1>4, <1>5, <1>6, <1>9, <1>14
  <2>3. Reached(k2 + 1)'
    BY <1>6, <1>9 DEF Reached
  <2>4. \A j \in 1 .. k2 : Kept(program'[j])
    BY <1>5, <1>9
  <2>5. k2 \in 1 .. Len(program')
    BY <1>5, <2>2
  <2>6. /\ Deed(k2, Clear(k2), Clear(k2 + 1), clog[0][k2], clog[0][k2 + 1])'
        /\ program'[k2].op # "bitb" => Clear(k2)' \in Words
    BY <2>3, <2>4, <2>5 DEF Deeds
  <2>7. Deed(k2, val, new, cl, cl2)'
    BY <2>1, <2>6
  <2>8. Deed(k2, val, new, cl, cl2)
    BY <1>2, <2>7, DeedSame
  <2>9. program[k2].op # "bitb" => val \in Words
    BY <1>5, <2>1, <2>6
  <2>10. Kept(program[k2])
    BY <1>5, <1>9, <2>2
  <2>11. AsPromised(k2, val, new, cl, cl2)
    BY <2>2, <2>8, <2>9, <2>10, DeedPromised
  <2>12. Clear(k2)' = Clear(k + 1)'
    BY <1>14
  <2>13. val = Hidden /\ new = Hidden' /\ cl = Visible /\ cl2 = Visible'
    BY <1>10, <1>11, <1>12, <1>14, <2>1, <2>12
  <2>14. AsPromised(k + 1, Hidden, Hidden', Visible, Visible')
    BY <1>14, <2>11, <2>13
  <2>15. Promise!ExecuteAny
    BY <1>1, <1>2, <1>14, <2>2, <2>14, PromiseDone
  <2> QED
    BY <2>15
<1> QED
  BY <1>8, <1>13, <1>14

LEMMA PromiseInit ==
    ASSUME MachineInit, Paced
    PROVE  Promise!MachineInit
<1>1. PICK k : k = CompletedAsPromised
  OBVIOUS
<1>2. Ideal!Init
  BY IdealInit DEF MachineInit
<1>3. /\ Completed = 0 /\ program \in Programs
      /\ [r \in Reg |-> Opened(SharingOf(r, 0))] \in [Reg -> Vec]
  BY <1>2 DEF Ideal!Init, Ideal!Vec, Ideal!Lane, Vec, Lane
<1>4. k = 0
  <2>1. GoesTo(program, 0, k)
    BY <1>1, <1>3 DEF Paced
  <2> QED
    BY <2>1 DEF GoesTo
<1>5. Hidden \in [Reg -> Vec]
  BY <1>1, <1>3, <1>4 DEF Hidden
<1>6. Promise!Init
  BY <1>1, <1>3, <1>4, <1>5 DEF Promise!Init, Promise!Vec, Promise!Lane, Vec, Lane, Hidden
<1>7. Visible = [c \in CReg |-> {}]
  <2>1. clog[0] = <<C[0]>> /\ C[0] = [c \in CReg |-> {}]
    BY Neighbours DEF MachineInit
  <2> QED
    BY <1>1, <1>4, <2>1 DEF Visible
<1>8. input \in [Party -> Seq(Vec)]
  BY PrivateInputsAssumption DEF MachineInit
<1>9. input \in [Promise!Party -> Seq(Promise!Vec)]
  BY <1>8 DEF Promise!Party, Party, Promise!Vec, Promise!Lane, Vec, Lane
<1> QED
  BY <1>6, <1>7, <1>9 DEF Promise!MachineInit, Visible

LEMMA PromiseNext ==
    ASSUME WideGatesNarrow, MachineInv, Paced, Paced', Deeds', [MachineNext]_machineVars
    PROVE  [Promise!ExecuteAny]_(Promise!machineVars)
<1>1. ASSUME NEW r \in Party, Waits \/ Finishes(r)
      PROVE  [Promise!ExecuteAny]_(Promise!machineVars)
  BY <1>1, PromiseStep
<1>2. CASE \E r \in Party : MachineStep(r)
  BY <1>1, <1>2, MachineHistories
<1>3. CASE Terminated /\ UNCHANGED machine
  BY <1>1, <1>3, Neighbours DEF Terminated, machine, vars, Waits
<1>4. CASE UNCHANGED machineVars
  BY <1>1, <1>4, Neighbours DEF machineVars, machine, vars, Waits
<1> QED
  BY <1>2, <1>3, <1>4 DEF MachineNext

(***************************************************************************)
(* The virtual machines implement IdealMachine: what the shares of the     *)
(* three parties open to, together with the clear registers, moves from    *)
(* instruction to instruction as the compiler promises, up to the first    *)
(* constant, complement or input of another party than 0 - for all such    *)
(* programs, with openings, inputs and batches of ANDs in any order and    *)
(* random bits at the end, whose ANDs of more than four operands are of    *)
(* one lane, for every word length, mask and interleaving of the parties.  *)
(***************************************************************************)
THEOREM ComputesProgramCorrect ==
    WideGatesNarrow /\ BitsLast => (MachineSpec => ComputesProgram)
<1> SUFFICES ASSUME WideGatesNarrow, BitsLast PROVE MachineSpec => ComputesProgram
  OBVIOUS
<1>1. MachineInv /\ Computed => Paced /\ Deeds
  BY PacedHere, DeedsHere
<1>2. MachineInit /\ Paced => Promise!MachineInit
  BY PromiseInit
<1>3. /\ MachineInv /\ Paced /\ Paced' /\ Deeds' /\ [MachineNext]_machineVars
      => [Promise!ExecuteAny]_(Promise!machineVars)
  BY PromiseNext
<1> QED
  BY <1>1, <1>2, <1>3, ComputedCorrect, PTL
     DEF MachineSpec, ComputesProgram, Promise!MachineSpec
=============================================================================
