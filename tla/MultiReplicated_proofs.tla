----------------------- MODULE MultiReplicated_proofs -----------------------
(***************************************************************************)
(* Invariants of MultiReplicated for every set of programs, every number   *)
(* of lanes and every outcome of the generators.                           *)
(***************************************************************************)
EXTENDS MultiReplicated, MultiAnd_proofs

Batch == {"prepare", "send", "receive_first", "receive_second", "finalize"}

(***************************************************************************)
(* Where a party can be: inside a batch there is an instruction, in the    *)
(* two loops over its gates there is a gate, and and_operands holds the    *)
(* gates that are prepared and not finalized.                              *)
(***************************************************************************)
InBatch(p) ==
    /\ ip[p] <= Len(program) + 1
    /\ pc[p] \in Batch => ip[p] <= Len(program) /\ program[ip[p]].op = "ands"
    /\ pc[p] \in {"reseed", "seed_next", "seed_prev"} => ip[p] = 1
    /\ pc[p] \in {"prepare", "finalize"} => gate[p] <= Len(Gates(p))
    /\ pc[p] \notin {"prepare", "finalize"} => gate[p] = 1
    /\ pc[p] = "prepare" => Len(and_operands[p]) = gate[p] - 1
    /\ pc[p] \in {"send", "receive_first", "receive_second"} =>
           Len(and_operands[p]) = Len(Gates(p))
    /\ pc[p] = "finalize" => Len(and_operands[p]) = Len(Gates(p)) + 1 - gate[p]

Control == \A p \in Party : InBatch(p)

-----------------------------------------------------------------------------
(* What the assumptions say of the instruction and gate a party is at.     *)
LEMMA ProgramFacts ==
    ASSUME NEW prog \in Programs
    PROVE  /\ Len(prog) \in Nat
           /\ \A k \in 1 .. Len(prog) :
                prog[k].op = "ands" =>
                /\ prog[k].gates \in Seq(Gate)
                /\ Len(prog[k].gates) \in Nat /\ Len(prog[k].gates) >= 1
                /\ \A g \in 1 .. Len(prog[k].gates) :
                     /\ prog[k].gates[g] \in Gate
                     /\ Len(prog[k].gates[g].ops) \in Nat
                     /\ Len(prog[k].gates[g].ops) >= 2
<1>1. Len(prog) \in Nat
  BY ProgramsAssumption
<1>2. ASSUME NEW k \in 1 .. Len(prog), prog[k].op = "ands"
      PROVE  /\ prog[k].gates \in Seq(Gate)
             /\ Len(prog[k].gates) \in Nat /\ Len(prog[k].gates) >= 1
  <2>1. prog[k] \in AndsInstruction
    BY <1>2, ProgramsAssumption
  <2>2. prog[k].gates \in Seq(Gate)
    BY <2>1 DEF AndsInstruction
  <2>3. prog[k].gates # <<>>
    BY <1>2, ProgramsAssumption
  <2> QED
    BY <2>2, <2>3, EmptySeq
<1>3. ASSUME NEW k \in 1 .. Len(prog), prog[k].op = "ands", NEW g \in 1 .. Len(prog[k].gates)
      PROVE  /\ prog[k].gates[g] \in Gate
             /\ Len(prog[k].gates[g].ops) \in Nat
             /\ Len(prog[k].gates[g].ops) >= 2
  <2>1. prog[k].gates[g] \in Gate
    BY <1>2, <1>3, ElementOfSeq
  <2>2. prog[k].gates[g].ops \in Seq(Reg)
    BY <2>1 DEF Gate
  <2>3. Len(prog[k].gates[g].ops) >= 2
    BY <1>3, ProgramsAssumption
  <2> QED
    BY <2>1, <2>2, <2>3, LenProperties
<1> QED
  BY <1>1, <1>2, <1>3

LEMMA GateFacts ==
    ASSUME TypeOK, Control, NEW p \in Party
    PROVE  /\ Len(program) \in Nat
           /\ At(p, "ands") => Len(Gates(p)) \in Nat /\ Len(Gates(p)) >= 1
           /\ pc[p] \in Batch =>
                Running(p) /\ Len(Gates(p)) \in Nat /\ Len(Gates(p)) >= 1
           /\ pc[p] \in {"prepare", "finalize"} =>
                /\ ThisGate(p) \in Gate
                /\ FanIn(p) \in Nat /\ FanIn(p) >= 2
<1>1. program \in Programs /\ ip[p] \in Nat \ {0} /\ gate[p] \in Nat \ {0}
  BY DEF TypeOK
<1>2. At(p, "ands") => ip[p] \in 1 .. Len(program) /\ program[ip[p]].op = "ands"
  BY <1>1, ProgramFacts DEF At, Running
<1>3. pc[p] \in Batch => At(p, "ands")
  BY DEF Control, InBatch, At, Running
<1>4. At(p, "ands") => Len(Gates(p)) \in Nat /\ Len(Gates(p)) >= 1
  BY <1>1, <1>2, ProgramFacts DEF Gates
<1>5. ASSUME pc[p] \in {"prepare", "finalize"}
      PROVE  At(p, "ands") /\ gate[p] \in 1 .. Len(Gates(p))
  <2>1. InBatch(p)
    BY DEF Control
  <2>2. At(p, "ands") /\ gate[p] <= Len(Gates(p))
    BY <1>3, <1>5, <2>1 DEF InBatch, Batch
  <2> QED
    BY <1>1, <1>4, <2>2
<1>6. pc[p] \in {"prepare", "finalize"} => /\ ThisGate(p) \in Gate
                                          /\ FanIn(p) \in Nat /\ FanIn(p) >= 2
  BY <1>1, <1>2, <1>5, ProgramFacts DEF Gates, ThisGate, FanIn
<1>7. Len(program) \in Nat
  BY <1>1, ProgramFacts
<1> QED
  BY <1>3, <1>4, <1>6, <1>7 DEF At

LEMMA FirstOfType ==
    ASSUME NEW T, NEW s \in Seq(T), NEW k \in Nat, k <= Len(s)
    PROVE  \A i \in 1 .. k : FirstOf(s, k)[i] \in T
<1>1. \A i \in 1 .. k : s[i] \in T
  BY ElementOfSeq
<1>2. \A i \in 1 .. k : FirstOf(s, k)[i] = s[i]
  BY <1>1, SubSeqProperties DEF FirstOf
<1> QED
  BY <1>1, <1>2

LEMMA RestType ==
    ASSUME NEW T, NEW s \in Seq(T), NEW k \in Nat
    PROVE  Rest(s, k) \in Seq(T)
<1>1. \A i \in (k + 1) .. Len(s) : s[i] \in T
  BY ElementOfSeq
<1>2. Len(s) \in Int /\ k + 1 \in Int
  BY LenProperties
<1> QED
  BY <1>1, <1>2, SubSeqProperties DEF Rest

-----------------------------------------------------------------------------
(* The pieces of prepare_mul and finalize_mul have their types.            *)
LEMMA MaskShareType ==
    ASSUME NEW s \in Share, NEW n
    PROVE  MaskShare(s, n) \in Share
  BY VecClosed DEF Share, MaskShare

LEMMA OperandsType ==
    ASSUME TypeOK, Control, NEW p \in Party, pc[p] = "prepare"
    PROVE  Operands(p) \in Seq(Share) /\ Len(Operands(p)) = FanIn(p)
<1>1. ThisGate(p) \in Gate /\ FanIn(p) \in Nat
  BY GateFacts
<1>2. \A i \in 1 .. FanIn(p) : ThisGate(p).ops[i] \in Reg
  BY <1>1, ElementOfSeq DEF Gate, FanIn
<1>3. S[p] \in [Reg -> Share]
  BY DEF TypeOK
<1>4. \A i \in 1 .. FanIn(p) : S[p][ThisGate(p).ops[i]] \in Share
  BY <1>2, <1>3
<1>5. Operands(p) \in [1 .. FanIn(p) -> Share]
  BY <1>4, MaskShareType DEF Operands
<1> QED
  BY <1>1, <1>5, FunctionSeq

LEMMA DrawType ==
    ASSUME NEW p \in Party, NEW i \in 0 .. 3, NEW j \in 1 .. Draws(p, FanIn(p))[i]
    PROVE  Draw(p)[i][j] \in Vec
  BY DEF Draw, Drawn, Vec

LEMMA PreparedHere ==
    ASSUME TypeOK, Control, NEW p \in Party, pc[p] = "prepare"
    PROVE  Prepared(p, Operands(p), Draw(p)) \in PreparedWords
<1>1. Len(Operands(p)) = FanIn(p) /\ FanIn(p) \in Nat /\ FanIn(p) >= 2
  BY OperandsType, GateFacts
<1>2. \A i \in 0 .. 3 : \A j \in 1 .. Draws(p, FanIn(p))[i] : Draw(p)[i][j] \in Vec
  BY DrawType
<1> QED
  BY <1>1, <1>2, PreparedType

LEMMA PackType ==
    ASSUME NEW ws \in Seq(Vec), NEW n
    PROVE  Pack(ws, n) \in Seq(Vec) /\ Len(Pack(ws, n)) = Len(ws)
<1>1. Len(ws) \in Nat /\ \A k \in 1 .. Len(ws) : ws[k] \in Vec
  BY LenProperties, ElementOfSeq
<1>2. Pack(ws, n) \in [1 .. Len(ws) -> Vec]
  BY <1>1, VecClosed DEF Pack
<1> QED
  BY <1>1, <1>2, FunctionSeq

LEMMA TakenType ==
    ASSUME NEW p \in Party, NEW f \in Nat
    PROVE  /\ Taken(p, f).os1 \in Nat /\ Taken(p, f).os2 \in Nat
           /\ Taken(p, f).add \in Nat /\ Taken(p, f).add2 \in Nat
  BY NumMonomialsType DEF Taken

(* What TypeOK says of one connection, one stream and one generator.       *)
LEMMA TypedParts ==
    ASSUME TypeOK, NEW p \in Party
    PROVE  /\ \A q \in Party : chan[p][q] \in Seq(Message)
           /\ \A i \in 0 .. 2 : os[p][i] \in Seq(Vec)
           /\ \A i \in 0 .. 3 : prng[p][i] \in [seed : Seed \cup {Unseeded}, pos : Nat]
<1>1. /\ chan \in [Party -> [Party -> Seq(Message)]]
      /\ os \in [Party -> [0 .. 2 -> Seq(Vec)]]
      /\ prng \in [Party -> [0 .. 3 -> [seed : Seed \cup {Unseeded}, pos : Nat]]]
  BY DEF TypeOK
<1>2. chan[p] \in [Party -> Seq(Message)]
  BY <1>1
<1>3. os[p] \in [0 .. 2 -> Seq(Vec)]
  BY <1>1
<1>4. prng[p] \in [0 .. 3 -> [seed : Seed \cup {Unseeded}, pos : Nat]]
  BY <1>1
<1> QED
  BY <1>2, <1>3, <1>4

LEMMA ResultType ==
    ASSUME TypeOK, Control, NEW p \in Party, pc[p] = "finalize", Supplied(p)
    PROVE  /\ and_operands[p] # <<>>
           /\ Head(and_operands[p]) \in Seq(Share)
           /\ Result(p) \in Share
<1> DEFINE x == Head(and_operands[p])
           t == Taken(p, Len(x))
<1>1. and_operands[p] # <<>>
  <2>1. InBatch(p) /\ Len(Gates(p)) \in Nat /\ gate[p] \in Nat
    BY GateFacts DEF Control, TypeOK
  <2>2. Len(and_operands[p]) >= 1
    BY <2>1 DEF InBatch
  <2> QED
    BY <2>2, EmptySeq
<1>2. x \in Seq(Share) /\ Len(x) \in Nat
  <2>1. and_operands[p] \in Seq(Seq(Share))
    BY DEF TypeOK
  <2> QED
    BY <1>1, <2>1, HeadTailProperties, LenProperties
<1>3. /\ os[p][1] \in Seq(Vec) /\ os[p][2] \in Seq(Vec)
      /\ add_shares[p] \in Seq(Vec) /\ add_shares_2[p] \in Seq(Vec)
  <2>1. os[p][1] \in Seq(Vec) /\ os[p][2] \in Seq(Vec)
    BY TypedParts
  <2>2. add_shares[p] \in Seq(Vec) /\ add_shares_2[p] \in Seq(Vec)
    BY DEF TypeOK
  <2> QED
    BY <2>1, <2>2
<1> HIDE DEF x
<1>4. /\ t.os1 \in Nat /\ t.os2 \in Nat /\ t.add \in Nat /\ t.add2 \in Nat
  BY <1>2, TakenType
<1>5. /\ t.os1 <= Len(os[p][1]) /\ t.os2 <= Len(os[p][2])
      /\ t.add <= Len(add_shares[p]) /\ t.add2 <= Len(add_shares_2[p])
  BY DEF Supplied, x
<1> DEFINE c == FirstOf(os[p][1], t.os1)
           second == FirstOf(os[p][2], t.os2)
           a == FirstOf(add_shares[p], t.add)
           a2 == FirstOf(add_shares_2[p], t.add2)
<1>6. /\ \A k \in 1 .. t.os1 : c[k] \in Vec
      /\ \A k \in 1 .. t.os2 : second[k] \in Vec
      /\ \A k \in 1 .. t.add : a[k] \in Vec
      /\ \A k \in 1 .. t.add2 : a2[k] \in Vec
  <2> HIDE DEF t
  <2> QED
    BY <1>3, <1>4, <1>5, FirstOfType
<1>7. /\ p # 2 => t.os1 = NumMonomials(Len(x))
      /\ p = 0 \/ (p = 1 /\ Len(x) # 2) => t.os2 = 1
      /\ Len(x) = 2 => t.add2 = 2
      /\ Len(x) # 2 => t.add = IF p = 2 THEN 2 ELSE 1
  BY DEF Taken
<1>8. /\ NumMonomials(2) >= 1
  BY NumMonomialsPair
<1>9. Result(p) = Finalized(p, x, c, second, a, a2)
  BY DEF Result, x
<1> HIDE DEF c, second, a, a2, t
<1>10. Finalized(p, x, c, second, a, a2) \in Share
  <2>1. (Len(x) = 2 /\ p = 0) => second[1] \in Vec
    BY <1>6, <1>7
  <2>2. (Len(x) = 2 /\ p # 2) => c[1] \in Vec
    BY <1>6, <1>7, <1>8
  <2>3. Len(x) = 2 => a2[1] \in Vec /\ a2[2] \in Vec
    BY <1>6, <1>7
  <2>4. (Len(x) # 2 /\ p # 2) => second[1] \in Vec /\ a[1] \in Vec
    BY <1>6, <1>7 DEF Party
  <2>5. (Len(x) # 2 /\ p = 2) => a[1] \in Vec /\ a[2] \in Vec
    BY <1>6, <1>7
  <2> QED
    BY <2>1, <2>2, <2>3, <2>4, <2>5, FinalizedType
<1> QED
  BY <1>1, <1>2, <1>9, <1>10 DEF x

-----------------------------------------------------------------------------
(* The first state.                                                        *)
LEMMA DealtType ==
    ASSUME NEW p \in Party, NEW v \in Vec, NEW alpha \in Vec, NEW beta \in Vec
    PROVE  DealtBy(0, v, alpha, beta)[p] \in Share
  BY VecClosed DEF DealtBy, Sh, Share

LEMMA TypeInit == Init => TypeOK /\ Control
<1> SUFFICES ASSUME Init PROVE TypeOK /\ Control
  OBVIOUS
<1>1. S \in [Party -> [Reg -> Share]]
  <2>1. PICK in \in Inputs :
          S = [p \in Party |->
                 [r \in Reg |-> DealtBy(0, in[r].v, in[r].alpha, in[r].beta)[p]]]
    BY DEF Init
  <2>2. in \in [Reg -> [v : Vec, alpha : Vec, beta : Vec]]
    BY InputsAssumption
  <2>3. \A p \in Party, r \in Reg : DealtBy(0, in[r].v, in[r].alpha, in[r].beta)[p] \in Share
    BY <2>2, DealtType
  <2> QED
    BY <2>1, <2>3
<1>2. log \in [Party -> Seq([Reg -> Share])]
  <2>1. \A p \in Party : <<S[p]>> \in Seq([Reg -> Share])
    BY <1>1, PairSeq
  <2> QED
    BY <2>1 DEF Init
<1>3. prng \in [Party -> [0 .. 3 -> [seed : Seed \cup {Unseeded}, pos : Nat]]]
  BY DEF Init
<1>4. os \in [Party -> [0 .. 2 -> Seq(Vec)]]
  BY PairSeq DEF Init
<1>5. chan \in [Party -> [Party -> Seq(Message)]] /\ marks \in [Party -> Seq(Mark)]
  BY PairSeq DEF Init
<1>6. TypeOK
  BY <1>1, <1>2, <1>3, <1>4, <1>5, PairSeq DEF Init, TypeOK, Location
<1>7. Control
  <2>1. Len(program) \in Nat
    BY <1>6, ProgramFacts DEF TypeOK
  <2> QED
    BY <2>1 DEF Init, Control, InBatch, Batch
<1> QED
  BY <1>6, <1>7

(* The seed exchange.                                                      *)
LEMMA SeedMessageType ==
    \A s \in Seed : SeedMessage(s) \in Message
  BY DEF SeedMessage, Message

LEMMA WordMessageType ==
    \A ws \in Seq(Vec) : WordMessage(ws) \in Message
  BY DEF WordMessage, Message

LEMMA TypeReseed ==
    ASSUME TypeOK, Control, NEW p \in Party, Reseed(p)
    PROVE  TypeOK' /\ Control'
<1>1. <<p, 0>> \in Seed /\ <<p, 1>> \in Seed
  BY DEF Seed
<1>2. prng' \in [Party -> [0 .. 3 -> [seed : Seed \cup {Unseeded}, pos : Nat]]]
  BY <1>1 DEF TypeOK, Reseed, Seeded
<1>3. chan' \in [Party -> [Party -> Seq(Message)]]
  <2>1. SeedMessage(<<p, 0>>) \in Message /\ SeedMessage(<<p, 1>>) \in Message
    BY <1>1, SeedMessageType
  <2>2. \A q \in Party : chan[p][q] \in Seq(Message)
    BY DEF TypeOK
  <2>3. Before(p) \in Party /\ After(p) \in Party /\ Before(p) # After(p)
    BY PartyNeighbours
  <2>4. /\ Append(chan[p][Before(p)], SeedMessage(<<p, 0>>)) \in Seq(Message)
        /\ Append(chan[p][After(p)], SeedMessage(<<p, 1>>)) \in Seq(Message)
    BY <2>1, <2>2, <2>3, AppendProperties
  <2> QED
    BY <2>3, <2>4 DEF TypeOK, Reseed
<1>4. pc' \in [Party -> Location]
  BY DEF TypeOK, Reseed, Location
<1>5. TypeOK'
  BY <1>2, <1>3, <1>4 DEF TypeOK, Reseed, kept
<1>6. Control'
  BY DEF Control, InBatch, Batch, Reseed, TypeOK, kept, Gates
<1> QED
  BY <1>5, <1>6

LEMMA TypeReceiveSeed ==
    ASSUME TypeOK, Control, NEW p \in Party, NEW from \in Party, NEW slot \in {2, 3},
           NEW at \in {"seed_next", "seed_prev"}, NEW next \in {"seed_prev", "idle"},
           ReceiveSeed(p, from, slot, at, next)
    PROVE  TypeOK' /\ Control'
<1>1. chan[from][p] \in Seq(Message) /\ chan[from][p] # <<>>
  BY DEF TypeOK, ReceiveSeed
<1>2. Tail(chan[from][p]) \in Seq(Message) /\ Head(chan[from][p]) \in Message
  BY <1>1, HeadTailProperties
<1>3. prng' \in [Party -> [0 .. 3 -> [seed : Seed \cup {Unseeded}, pos : Nat]]]
  <2>1. Head(chan[from][p]).seed \in Seed \cup {Unseeded}
    BY <1>2 DEF Message
  <2> QED
    BY <2>1 DEF TypeOK, ReceiveSeed, Seeded
<1>4. chan' \in [Party -> [Party -> Seq(Message)]]
  BY <1>2 DEF TypeOK, ReceiveSeed
<1>5. pc' \in [Party -> Location]
  BY DEF TypeOK, ReceiveSeed, Location
<1>6. TypeOK'
  BY <1>3, <1>4, <1>5 DEF TypeOK, ReceiveSeed, kept
<1>7. Control'
  BY DEF Control, InBatch, Batch, ReceiveSeed, TypeOK, kept, Gates
<1> QED
  BY <1>6, <1>7

(* A batch.                                                                *)
LEMMA TypeInitMul ==
    ASSUME TypeOK, Control, NEW p \in Party, InitMul(p)
    PROVE  TypeOK' /\ Control'
<1>1. Len(Gates(p)) >= 1 /\ Len(Gates(p)) \in Nat
  BY GateFacts DEF InitMul
<1>2. /\ os' \in [Party -> [0 .. 2 -> Seq(Vec)]]
      /\ add_shares' \in [Party -> Seq(Vec)]
      /\ add_shares_2' \in [Party -> Seq(Vec)]
  <2>1. os' \in [Party -> [0 .. 2 -> Seq(Vec)]]
    BY PairSeq DEF TypeOK, InitMul
  <2>2. add_shares' \in [Party -> Seq(Vec)]
    BY PairSeq DEF TypeOK, InitMul
  <2>3. add_shares_2' \in [Party -> Seq(Vec)]
    BY PairSeq DEF TypeOK, InitMul
  <2> QED
    BY <2>1, <2>2, <2>3
<1>3. and_operands' \in [Party -> Seq(Seq(Share))]
  BY PairSeq DEF TypeOK, InitMul
<1>4. pc' \in [Party -> Location] /\ gate' \in [Party -> Nat \ {0}]
  <2>1. pc' \in [Party -> Location]
    BY DEF TypeOK, InitMul, Location
  <2>2. gate' \in [Party -> Nat \ {0}]
    BY DEF TypeOK, InitMul
  <2> QED
    BY <2>1, <2>2
<1>5. TypeOK'
  BY <1>2, <1>3, <1>4 DEF TypeOK, InitMul
<1>6. ASSUME NEW q \in Party
      PROVE  InBatch(q)'
  <2>1. InBatch(q) /\ Gates(q)' = Gates(q) /\ ip' = ip /\ program' = program
    BY DEF Control, InitMul, Gates
  <2>2. CASE q = p
    <3>1. pc'[p] = "prepare" /\ gate'[p] = 1 /\ and_operands'[p] = <<>>
      BY DEF InitMul, TypeOK
    <3>2. ip[p] <= Len(program) /\ program[ip[p]].op = "ands"
      BY DEF InitMul, At, Running
    <3> QED
      BY <1>1, <2>1, <2>2, <3>1, <3>2, PairSeq DEF InBatch, Batch
  <2>3. CASE q # p
    <3>1. pc'[q] = pc[q] /\ gate'[q] = gate[q] /\ and_operands'[q] = and_operands[q]
      BY <2>3 DEF InitMul, TypeOK
    <3> QED
      BY <2>1, <3>1 DEF InBatch
  <2> QED
    BY <2>2, <2>3
<1> QED
  BY <1>5, <1>6 DEF Control

LEMMA TypePrepareMul ==
    ASSUME TypeOK, Control, NEW p \in Party, PrepareMul(p)
    PROVE  TypeOK' /\ Control'
<1> DEFINE done == Prepared(p, Operands(p), Draw(p))
           n    == ThisGate(p).n
<1>1. /\ pc[p] = "prepare" /\ FanIn(p) \in Nat
      /\ Len(Gates(p)) \in Nat /\ Len(Gates(p)) >= 1 /\ Running(p)
  BY GateFacts DEF PrepareMul, Batch
<1>2. /\ done.os0 \in Seq(Vec) /\ done.os1 \in Seq(Vec)
      /\ done.add \in Seq(Vec) /\ done.add2 \in Seq(Vec)
  BY <1>1, PreparedHere DEF PreparedWords
<1>3. /\ os[p][0] \in Seq(Vec) /\ os[p][1] \in Seq(Vec)
      /\ add_shares[p] \in Seq(Vec) /\ add_shares_2[p] \in Seq(Vec)
      /\ and_operands[p] \in Seq(Seq(Share)) /\ marks[p] \in Seq(Mark)
  <2>1. os[p][0] \in Seq(Vec) /\ os[p][1] \in Seq(Vec)
    BY TypedParts
  <2>2. /\ add_shares[p] \in Seq(Vec) /\ add_shares_2[p] \in Seq(Vec)
        /\ and_operands[p] \in Seq(Seq(Share)) /\ marks[p] \in Seq(Mark)
    BY DEF TypeOK
  <2> QED
    BY <2>1, <2>2
<1>4. os' \in [Party -> [0 .. 2 -> Seq(Vec)]]
  <2> HIDE DEF done, n
  <2>1. Pack(done.os0, n) \in Seq(Vec) /\ Pack(done.os1, n) \in Seq(Vec)
    BY <1>2, PackType
  <2>2. /\ os[p][0] \o Pack(done.os0, n) \in Seq(Vec)
        /\ os[p][1] \o Pack(done.os1, n) \in Seq(Vec)
    BY <1>3, <2>1, ConcatProperties
  <2>3. os' = [os EXCEPT ![p][0] = @ \o Pack(done.os0, n),
                         ![p][1] = @ \o Pack(done.os1, n)]
    BY DEF PrepareMul, done, n
  <2>4. os \in [Party -> [0 .. 2 -> Seq(Vec)]]
    BY DEF TypeOK
  <2> QED
    BY <2>2, <2>3, <2>4
<1>5. /\ add_shares' \in [Party -> Seq(Vec)]
      /\ add_shares_2' \in [Party -> Seq(Vec)]
  <2> HIDE DEF done
  <2>1. add_shares[p] \o done.add \in Seq(Vec) /\ add_shares_2[p] \o done.add2 \in Seq(Vec)
    BY <1>2, <1>3, ConcatProperties
  <2>2. /\ add_shares' = [add_shares EXCEPT ![p] = @ \o done.add]
        /\ add_shares_2' = [add_shares_2 EXCEPT ![p] = @ \o done.add2]
    BY DEF PrepareMul, done
  <2> QED
    BY <2>1, <2>2 DEF TypeOK
<1>6. /\ and_operands' \in [Party -> Seq(Seq(Share))]
      /\ Len(and_operands'[p]) = Len(and_operands[p]) + 1
  <2>1. Operands(p) \in Seq(Share)
    BY <1>1, OperandsType
  <2>2. /\ Append(and_operands[p], Operands(p)) \in Seq(Seq(Share))
        /\ Len(Append(and_operands[p], Operands(p))) = Len(and_operands[p]) + 1
    BY <1>3, <2>1, AppendProperties
  <2>3. and_operands' = [and_operands EXCEPT ![p] = Append(and_operands[p], Operands(p))]
    BY DEF PrepareMul
  <2>4. and_operands \in [Party -> Seq(Seq(Share))]
    BY DEF TypeOK
  <2> HIDE DEF done, n
  <2> QED
    BY <2>2, <2>3, <2>4
<1>7. prng' \in [Party -> [0 .. 3 -> [seed : Seed \cup {Unseeded}, pos : Nat]]]
  <2>1. Draws(p, FanIn(p)) \in [0 .. 3 -> Nat]
    BY <1>1, DrawsType
  <2>2. \A i \in 0 .. 3 : prng[p][i] \in [seed : Seed \cup {Unseeded}, pos : Nat]
    BY TypedParts
  <2>3. \A i \in 0 .. 3 : prng[p][i].pos + Draws(p, FanIn(p))[i] \in Nat
    BY <2>1, <2>2
  <2>4. Advanced(p) \in [0 .. 3 -> [seed : Seed \cup {Unseeded}, pos : Nat]]
    BY <2>2, <2>3 DEF Advanced
  <2> QED
    BY <2>4 DEF TypeOK, PrepareMul
<1>8. marks' \in [Party -> Seq(Mark)]
  <2>1. [ip |-> ip[p], gate |-> gate[p], pos |-> [i \in 0 .. 3 |-> prng[p][i].pos]] \in Mark
    <3>1. ip[p] \in Nat \ {0} /\ gate[p] \in Nat \ {0}
      BY DEF TypeOK
    <3>2. \A i \in 0 .. 3 : prng[p][i].pos \in Nat
      BY DEF TypeOK
    <3> QED
      BY <3>1, <3>2 DEF Mark
  <2> QED
    BY <1>3, <2>1, AppendProperties DEF PrepareMul, TypeOK
<1>9. /\ pc' \in [Party -> Location] /\ gate' \in [Party -> Nat \ {0}]
  <2> HIDE DEF done, n
  <2>0. pc \in [Party -> Location] /\ gate \in [Party -> Nat \ {0}]
    BY DEF TypeOK
  <2>1. CASE gate[p] < Len(Gates(p))
    <3>1. gate' = [gate EXCEPT ![p] = gate[p] + 1] /\ pc' = pc
      BY <2>1 DEF PrepareMul
    <3> QED
      BY <2>0, <3>1
  <2>2. CASE ~(gate[p] < Len(Gates(p)))
    <3>1. gate' = [gate EXCEPT ![p] = 1] /\ pc' = [pc EXCEPT ![p] = "send"]
      BY <2>2 DEF PrepareMul
    <3>2. "send" \in Location /\ 1 \in Nat \ {0}
      BY DEF Location
    <3> QED
      BY <2>0, <3>1, <3>2
  <2> QED
    BY <2>1, <2>2
<1>10. TypeOK'
  <2>1. UNCHANGED <<program, tape, ip, S, chan, log>>
    BY DEF PrepareMul
  <2> QED
    BY <1>4, <1>5, <1>6, <1>7, <1>8, <1>9, <2>1 DEF TypeOK
<1>11. Control'
  <2>1. ASSUME NEW q \in Party, q # p
        PROVE  InBatch(q)'
    BY <2>1 DEF Control, InBatch, PrepareMul, TypeOK, Gates
  <2>2. InBatch(p)'
    <3>1. InBatch(p) /\ gate[p] \in Nat \ {0}
      BY DEF Control, TypeOK
    <3>2. Gates(p)' = Gates(p) /\ ip' = ip /\ program' = program
      BY DEF PrepareMul, Gates
    <3>3. CASE gate[p] < Len(Gates(p))
      <4>1. gate'[p] = gate[p] + 1 /\ pc'[p] = "prepare"
        BY <1>1, <3>3 DEF PrepareMul, TypeOK
      <4> QED
        BY <1>1, <1>6, <3>1, <3>2, <3>3, <4>1 DEF InBatch, Batch
    <3>4. CASE ~(gate[p] < Len(Gates(p)))
      <4>1. gate'[p] = 1 /\ pc'[p] = "send"
        BY <3>4 DEF PrepareMul, TypeOK
      <4> QED
        BY <1>1, <1>6, <3>1, <3>2, <3>4, <4>1 DEF InBatch, Batch
    <3> QED
      BY <3>3, <3>4
  <2> QED
    BY <2>1, <2>2 DEF Control
<1> QED
  BY <1>10, <1>11

LEMMA TypeSend ==
    ASSUME TypeOK, Control, NEW p \in Party, Send(p)
    PROVE  TypeOK' /\ Control'
<1>1. \A q \in Party, i \in 0 .. 2 :
         /\ chan[p][q] \in Seq(Message)
         /\ Append(chan[p][q], WordMessage(os[p][i])) \in Seq(Message)
  <2> SUFFICES ASSUME NEW q \in Party, NEW i \in 0 .. 2
               PROVE  /\ chan[p][q] \in Seq(Message)
                      /\ Append(chan[p][q], WordMessage(os[p][i])) \in Seq(Message)
    OBVIOUS
  <2>1. chan[p][q] \in Seq(Message) /\ os[p][i] \in Seq(Vec)
    BY TypedParts
  <2>2. WordMessage(os[p][i]) \in Message
    BY <2>1, WordMessageType
  <2> QED
    BY <2>1, <2>2, AppendProperties
<1>2. chan' \in [Party -> [Party -> Seq(Message)]]
  <2>1. chan \in [Party -> [Party -> Seq(Message)]]
    BY DEF TypeOK
  <2>2. CASE p = 0
    BY <1>1, <2>1, <2>2 DEF Send, Party
  <2>3. CASE p = 1
    BY <1>1, <2>1, <2>3 DEF Send, Party
  <2>4. CASE p = 2
    <3>1. chan' = [chan EXCEPT ![2][0] = Append(chan[2][0], WordMessage(os[2][0])),
                              ![2][1] = Append(chan[2][1], WordMessage(os[2][1]))]
      BY <2>4 DEF Send
    <3>2. /\ Append(chan[2][0], WordMessage(os[2][0])) \in Seq(Message)
          /\ Append(chan[2][1], WordMessage(os[2][1])) \in Seq(Message)
      BY <1>1, <2>4 DEF Party
    <3> QED
      BY <2>1, <3>1, <3>2 DEF Party
  <2> QED
    BY <2>2, <2>3, <2>4 DEF Party
<1>3. pc' \in [Party -> Location]
  BY DEF TypeOK, Send, Location
<1>4. UNCHANGED <<program, tape, ip, gate, prng, S, os, kept, log, marks>>
  BY DEF Send
<1>5. TypeOK'
  BY <1>2, <1>3, <1>4 DEF TypeOK, kept
<1>6. ASSUME NEW q \in Party
      PROVE  InBatch(q)'
  <2>1. InBatch(q) /\ Gates(q)' = Gates(q)
    BY <1>4 DEF Control, Gates
  <2>2. pc'[q] = pc[q] \/ (pc[q] = "send" /\ pc'[q] \in {"receive_first"})
                       \/ (pc[q] = "send" /\ pc'[q] = "finalize")
    BY DEF Send, TypeOK
  <2>3. pc[q] \in Batch => Len(Gates(q)) \in Nat /\ Len(Gates(q)) >= 1
    BY GateFacts
  <2> QED
    BY <1>4, <2>1, <2>2, <2>3 DEF InBatch, Batch, kept, Running
<1> QED
  BY <1>5, <1>6 DEF Control

LEMMA TypeReceive ==
    ASSUME TypeOK, Control, NEW p \in Party, NEW from \in Party, NEW i \in 0 .. 2,
           NEW at, NEW next,
           \/ at = "receive_first" /\ next = "receive_second"
           \/ at = "receive_second" /\ next = "finalize",
           Receive(p, from, i, at, next)
    PROVE  TypeOK' /\ Control'
<1>1. chan[from][p] \in Seq(Message) /\ chan[from][p] # <<>>
  BY DEF TypeOK, Receive
<1>2. Tail(chan[from][p]) \in Seq(Message) /\ Head(chan[from][p]) \in Message
  BY <1>1, HeadTailProperties
<1>3. os' \in [Party -> [0 .. 2 -> Seq(Vec)]]
  <2> DEFINE m == Head(chan[from][p])
  <2>1. <<>> \in Seq(Vec)
    BY PairSeq
  <2>2. m.words \in {<<>>} \/ m.words \in Seq(Vec)
    BY <1>2 DEF Message
  <2>3. Head(chan[from][p]).words \in Seq(Vec)
    BY <2>1, <2>2
  <2> QED
    BY <2>3 DEF TypeOK, Receive
<1>4. chan' \in [Party -> [Party -> Seq(Message)]]
  BY <1>2 DEF TypeOK, Receive
<1>5. pc' \in [Party -> Location]
  BY DEF TypeOK, Receive, Location
<1>6. UNCHANGED <<program, tape, ip, gate, prng, S, kept, log, marks>>
  BY DEF Receive
<1>7. TypeOK'
  BY <1>3, <1>4, <1>5, <1>6 DEF TypeOK, kept
<1>8. ASSUME NEW q \in Party
      PROVE  InBatch(q)'
  <2>1. InBatch(q) /\ Gates(q)' = Gates(q)
    BY <1>6 DEF Control, Gates
  <2>2. pc'[q] = pc[q] \/ (pc[q] = at /\ pc'[q] = next)
    BY DEF Receive, TypeOK
  <2>3. pc[q] \in Batch => Len(Gates(q)) \in Nat /\ Len(Gates(q)) >= 1
    BY GateFacts
  <2> QED
    BY <1>6, <2>1, <2>2, <2>3 DEF InBatch, Batch, kept, Running
<1> QED
  BY <1>7, <1>8 DEF Control

LEMMA TypeFinalizeMul ==
    ASSUME TypeOK, Control, NEW p \in Party, FinalizeMul(p)
    PROVE  TypeOK' /\ Control'
<1> DEFINE t == Taken(p, Len(Head(and_operands[p])))
<1>1. /\ pc[p] = "finalize" /\ Supplied(p) /\ Running(p)
      /\ ThisGate(p) \in Gate
      /\ Len(Gates(p)) \in Nat /\ Len(Gates(p)) >= 1
  <2>1. pc[p] = "finalize" /\ Supplied(p)
    BY DEF FinalizeMul
  <2>2. pc[p] \in Batch
    BY <2>1 DEF Batch
  <2> HIDE DEF Batch, FinalizeMul
  <2> QED
    BY <2>1, <2>2, GateFacts
<1>2. /\ and_operands[p] # <<>> /\ Head(and_operands[p]) \in Seq(Share)
      /\ Result(p) \in Share
  BY <1>1, ResultType
<1>3. /\ and_operands[p] \in Seq(Seq(Share)) /\ log[p] \in Seq([Reg -> Share])
      /\ os[p][1] \in Seq(Vec) /\ os[p][2] \in Seq(Vec)
      /\ add_shares[p] \in Seq(Vec) /\ add_shares_2[p] \in Seq(Vec)
      /\ InBatch(p) /\ gate[p] \in Nat \ {0} /\ ip[p] \in Nat \ {0}
  <2>1. and_operands[p] \in Seq(Seq(Share)) /\ log[p] \in Seq([Reg -> Share])
    BY DEF TypeOK
  <2>2. os[p][1] \in Seq(Vec) /\ os[p][2] \in Seq(Vec)
    BY TypedParts
  <2>3. add_shares[p] \in Seq(Vec) /\ add_shares_2[p] \in Seq(Vec)
    BY DEF TypeOK
  <2>4. InBatch(p) /\ gate[p] \in Nat \ {0} /\ ip[p] \in Nat \ {0}
    BY DEF TypeOK, Control
  <2> QED
    BY <2>1, <2>2, <2>3, <2>4
<1>4. /\ Tail(and_operands[p]) \in Seq(Seq(Share))
      /\ Len(Tail(and_operands[p])) = Len(and_operands[p]) - 1
  BY <1>2, <1>3, HeadTailProperties
<1>5. S' \in [Party -> [Reg -> Share]]
  <2>1. MaskShare(Result(p), ThisGate(p).n) \in Share
    BY <1>2, MaskShareType
  <2> QED
    BY <2>1 DEF TypeOK, FinalizeMul
<1>6. /\ Rest(os[p][1], t.os1) \in Seq(Vec) /\ Rest(os[p][2], t.os2) \in Seq(Vec)
      /\ Rest(add_shares[p], t.add) \in Seq(Vec)
      /\ Rest(add_shares_2[p], t.add2) \in Seq(Vec)
  <2>1. Len(Head(and_operands[p])) \in Nat
    BY <1>2, LenProperties
  <2>2. t.os1 \in Nat /\ t.os2 \in Nat /\ t.add \in Nat /\ t.add2 \in Nat
    BY <2>1, TakenType
  <2> QED
    BY <1>3, <2>2, RestType
<1>7. os' \in [Party -> [0 .. 2 -> Seq(Vec)]]
  <2>1. os' = [os EXCEPT ![p][1] = Rest(os[p][1], t.os1), ![p][2] = Rest(os[p][2], t.os2)]
    BY DEF FinalizeMul
  <2> HIDE DEF t
  <2> QED
    BY <1>6, <2>1 DEF TypeOK
<1>8. /\ add_shares' \in [Party -> Seq(Vec)]
      /\ add_shares_2' \in [Party -> Seq(Vec)]
  <2>1. /\ add_shares' = [add_shares EXCEPT ![p] = Rest(add_shares[p], t.add)]
        /\ add_shares_2' = [add_shares_2 EXCEPT ![p] = Rest(add_shares_2[p], t.add2)]
    BY DEF FinalizeMul
  <2> HIDE DEF t
  <2>2. add_shares \in [Party -> Seq(Vec)] /\ add_shares_2 \in [Party -> Seq(Vec)]
    BY DEF TypeOK
  <2> QED
    BY <1>6, <2>1, <2>2
<1>9. /\ and_operands' = [and_operands EXCEPT ![p] = Tail(and_operands[p])]
      /\ and_operands' \in [Party -> Seq(Seq(Share))]
  BY <1>4 DEF FinalizeMul, TypeOK
<1>10. UNCHANGED <<program, tape, prng, chan, marks>>
  BY DEF FinalizeMul
<1>11. CASE gate[p] < Len(Gates(p))
  <2>1. gate' = [gate EXCEPT ![p] = gate[p] + 1] /\ UNCHANGED <<pc, ip, log>>
    BY <1>11 DEF FinalizeMul
  <2>2. TypeOK'
    <3>1. gate' \in [Party -> Nat \ {0}]
      <4>1. gate \in [Party -> Nat \ {0}]
        BY DEF TypeOK
      <4> QED
        BY <1>3, <2>1, <4>1
    <3> QED
      BY <1>5, <1>7, <1>8, <1>9, <1>10, <2>1, <3>1 DEF TypeOK
  <2>3. ASSUME NEW q \in Party
        PROVE  InBatch(q)'
    <3>1. InBatch(q) /\ Gates(q)' = Gates(q)
      BY <1>10, <2>1 DEF Control, Gates
    <3>2. CASE q = p
      <4>1. /\ gate'[p] = gate[p] + 1 /\ pc'[p] = "finalize" /\ ip'[p] = ip[p]
            /\ Len(and_operands'[p]) = Len(and_operands[p]) - 1
        BY <1>1, <1>4, <1>9, <2>1 DEF TypeOK
      <4>2. Len(and_operands[p]) = Len(Gates(p)) + 1 - gate[p]
        BY <1>1, <1>3 DEF InBatch
      <4>3. /\ gate'[p] <= Len(Gates(p)')
            /\ Len(and_operands'[p]) = Len(Gates(p)') + 1 - gate'[p]
        <5>1. gate[p] + 1 <= Len(Gates(p)) /\ Len(Gates(p)') = Len(Gates(p))
          BY <1>3, <1>11, <3>1, <3>2
        <5> QED
          BY <1>3, <4>1, <4>2, <5>1
      <4>4. /\ ip'[p] <= Len(program') /\ program'[ip'[p]].op = "ands"
            /\ ip'[p] <= Len(program') + 1
        BY <1>1, <1>3, <1>10, <4>1 DEF Running, InBatch, Batch
      <4> QED
        BY <3>2, <4>1, <4>3, <4>4 DEF InBatch, Batch
    <3>3. CASE q # p
      <4>1. gate'[q] = gate[q] /\ and_operands'[q] = and_operands[q]
        BY <1>9, <2>1, <3>3 DEF TypeOK
      <4> QED
        BY <1>10, <2>1, <3>1, <4>1 DEF InBatch
    <3> QED
      BY <3>2, <3>3
  <2> QED
    BY <2>2, <2>3 DEF Control
<1>12. CASE ~(gate[p] < Len(Gates(p)))
  <2>1. /\ gate' = [gate EXCEPT ![p] = 1]
        /\ ip' = [ip EXCEPT ![p] = ip[p] + 1]
        /\ pc' = [pc EXCEPT ![p] = "idle"]
        /\ log' = [log EXCEPT ![p] = Append(log[p], S'[p])]
    BY <1>12 DEF FinalizeMul
  <2>2. log' \in [Party -> Seq([Reg -> Share])]
    <3>1. Append(log[p], S'[p]) \in Seq([Reg -> Share])
      BY <1>3, <1>5, AppendProperties
    <3> QED
      BY <2>1, <3>1 DEF TypeOK
  <2>3. /\ gate' \in [Party -> Nat \ {0}] /\ ip' \in [Party -> Nat \ {0}]
        /\ pc' \in [Party -> Location]
    <3>1. gate' \in [Party -> Nat \ {0}]
      BY <2>1 DEF TypeOK
    <3>2. ip' \in [Party -> Nat \ {0}]
      <4>1. ip \in [Party -> Nat \ {0}] /\ ip' = [ip EXCEPT ![p] = ip[p] + 1]
        BY <2>1 DEF TypeOK
      <4>2. ip[p] + 1 \in Nat \ {0}
        BY <1>3
      <4> QED
        BY <4>1, <4>2
    <3>3. pc' \in [Party -> Location]
      BY <2>1 DEF TypeOK, Location
    <3> QED
      BY <3>1, <3>2, <3>3
  <2>4. TypeOK'
    BY <1>5, <1>7, <1>8, <1>9, <1>10, <2>2, <2>3 DEF TypeOK
  <2>5. ASSUME NEW q \in Party
        PROVE  InBatch(q)'
    <3>1. InBatch(q)
      BY DEF Control
    <3>2. CASE q = p
      <4>1. gate'[p] = 1 /\ pc'[p] = "idle" /\ ip'[p] = ip[p] + 1
        BY <2>1 DEF TypeOK
      <4>2. ip[p] <= Len(program) /\ Len(program) \in Nat
        BY <1>1, GateFacts DEF Running, Batch
      <4> QED
        BY <1>3, <1>10, <3>2, <4>1, <4>2 DEF InBatch, Batch
    <3>3. CASE q # p
      <4>1. /\ gate'[q] = gate[q] /\ and_operands'[q] = and_operands[q]
            /\ ip'[q] = ip[q] /\ pc'[q] = pc[q]
        BY <1>9, <2>1, <3>3 DEF TypeOK
      <4>2. Gates(q)' = Gates(q)
        BY <1>10, <4>1 DEF Gates
      <4> QED
        BY <1>10, <3>1, <4>1, <4>2 DEF InBatch
    <3> QED
      BY <3>2, <3>3
  <2> QED
    BY <2>4, <2>5 DEF Control
<1> QED
  BY <1>11, <1>12

(* The receives of a party, as the general actions they are.               *)
LEMMA StepForms ==
    ASSUME NEW p \in Party, Step(p)
    PROVE  \/ Reseed(p)
           \/ ReceiveSeed(p, After(p), 2, "seed_next", "seed_prev")
           \/ ReceiveSeed(p, Before(p), 3, "seed_prev", "idle")
           \/ InitMul(p)
           \/ PrepareMul(p)
           \/ Send(p)
           \/ Receive(p, Before(p), IF p = 0 THEN 2 ELSE 1, "receive_first", "receive_second")
           \/ Receive(p, After(p), IF p = 0 THEN 1 ELSE 2, "receive_second", "finalize")
           \/ FinalizeMul(p)
  BY DEF Step, ReceiveSeedNext, ReceiveSeedPrev, ReceiveFirst, ReceiveSecond

LEMMA TypeStep ==
    ASSUME TypeOK, Control, NEW p \in Party, Step(p)
    PROVE  TypeOK' /\ Control'
<1>1. After(p) \in Party /\ Before(p) \in Party
  BY PartyNeighbours
<1>2. CASE ReceiveSeed(p, After(p), 2, "seed_next", "seed_prev")
  BY <1>1, <1>2, TypeReceiveSeed
<1>3. CASE ReceiveSeed(p, Before(p), 3, "seed_prev", "idle")
  BY <1>1, <1>3, TypeReceiveSeed
<1>4. CASE Receive(p, Before(p), IF p = 0 THEN 2 ELSE 1, "receive_first", "receive_second")
  BY <1>1, <1>4, TypeReceive
<1>5. CASE Receive(p, After(p), IF p = 0 THEN 1 ELSE 2, "receive_second", "finalize")
  BY <1>1, <1>5, TypeReceive
<1> QED
  BY <1>2, <1>3, <1>4, <1>5, StepForms, TypeReseed, TypeInitMul, TypePrepareMul,
     TypeSend, TypeFinalizeMul

LEMMA TypeStutter ==
    ASSUME TypeOK, Control, UNCHANGED vars
    PROVE  TypeOK' /\ Control'
<1>1. TypeOK'
  BY DEF TypeOK, vars
<1>2. ASSUME NEW p \in Party PROVE InBatch(p)'
  BY DEF Control, InBatch, Gates, vars
<1> QED
  BY <1>1, <1>2 DEF Control

LEMMA TypeNext == TypeOK /\ Control /\ [Next]_vars => TypeOK' /\ Control'
  BY TypeStep, TypeStutter DEF Next, Terminated

(***************************************************************************)
(* Type correctness: whatever the programs, fan-ins and lane counts, every *)
(* variable keeps its type, and in particular every word that              *)
(* finalize_mul unpacks or takes back from a pointer vector is a word.     *)
(***************************************************************************)
LEMMA ControlCorrect == Spec => [](TypeOK /\ Control)
<1>1. Init => TypeOK /\ Control
  BY TypeInit
<1>2. TypeOK /\ Control /\ [Next]_vars => (TypeOK /\ Control)'
  BY TypeNext
<1> QED
  BY <1>1, <1>2, PTL DEF Spec

THEOREM TypeCorrect == Spec => []TypeOK
  BY ControlCorrect, PTL

-----------------------------------------------------------------------------
(***************************************************************************)
(* Who has sent what to whom.  Every connection carries one seed and then, *)
(* towards parties 0 and 1, one message per batch, so the messages in      *)
(* flight are the ones sent less the ones received.                        *)
(***************************************************************************)
OneIf(b) == IF b THEN 1 ELSE 0

HasSeedFrom(q, p) ==
    IF p = After(q) THEN pc[q] \notin {"reseed", "seed_next"}
                    ELSE pc[q] \notin {"reseed", "seed_next", "seed_prev"}

WordsSent(p, q) ==
    IF q = 2 THEN 0
    ELSE ip[p] - 1 + OneIf(pc[p] \in {"receive_first", "receive_second", "finalize"})

WordsReceived(q, p) ==
    IF q = 2 THEN 0
    ELSE ip[q] - 1 + OneIf(IF p = Before(q) THEN pc[q] \in {"receive_second", "finalize"}
                                            ELSE pc[q] = "finalize")

SeedFor(p, q) == <<p, IF q = Before(p) THEN 0 ELSE 1>>

Connection(p, q) ==
    /\ Len(chan[p][q]) = OneIf(pc[p] # "reseed") - OneIf(HasSeedFrom(q, p))
                         + WordsSent(p, q) - WordsReceived(q, p)
    /\ pc[p] # "reseed" /\ ~HasSeedFrom(q, p) =>
           Head(chan[p][q]) = SeedMessage(SeedFor(p, q))

SeedsHeld(p) ==
    /\ pc[p] # "reseed" => prng[p][0].seed = <<p, 0>> /\ prng[p][1].seed = <<p, 1>>
    /\ pc[p] \notin {"reseed", "seed_next"} => prng[p][2].seed = <<After(p), 0>>
    /\ pc[p] \notin {"reseed", "seed_next", "seed_prev"} =>
           prng[p][3].seed = <<Before(p), 1>>

Flow ==
    /\ \A p, q \in Party : p # q => Connection(p, q)
    /\ \A p \in Party : SeedsHeld(p)
    /\ pc[2] \notin {"receive_first", "receive_second"}

-----------------------------------------------------------------------------
LEMMA FlowInit == Init => Flow
<1> SUFFICES ASSUME Init PROVE Flow
  OBVIOUS
<1>1. \A p, q \in Party : chan[p][q] = <<>> /\ pc[p] = "reseed" /\ ip[p] = 1
  BY DEF Init
<1>2. ASSUME NEW p \in Party, NEW q \in Party, p # q
      PROVE  Connection(p, q)
  <2>1. Len(chan[p][q]) = 0
    BY <1>1, PairSeq
  <2> QED
    BY <1>1, <2>1 DEF Connection, OneIf, HasSeedFrom, WordsSent, WordsReceived
<1>3. \A p \in Party : SeedsHeld(p)
  BY <1>1 DEF SeedsHeld
<1>4. pc[2] \notin {"receive_first", "receive_second"}
  BY DEF Init, Party
<1> QED
  BY <1>2, <1>3, <1>4 DEF Flow

LEMMA WordCounts ==
    ASSUME TypeOK, NEW p \in Party, NEW q \in Party
    PROVE  WordsSent(p, q) \in Nat /\ WordsReceived(q, p) \in Nat
<1>1. ip[p] \in Nat \ {0} /\ ip[q] \in Nat \ {0}
  BY DEF TypeOK
<1>2. \A b \in BOOLEAN : OneIf(b) \in {0, 1}
  BY DEF OneIf
<1> QED
  BY <1>1, <1>2 DEF WordsSent, WordsReceived, OneIf

(* A connection that a step leaves alone, its ends included.               *)
LEMMA ConnectionKept ==
    ASSUME NEW p \in Party, NEW q \in Party, Connection(p, q),
           chan'[p][q] = chan[p][q], ip'[p] = ip[p], ip'[q] = ip[q],
           pc'[p] = pc[p], pc'[q] = pc[q]
    PROVE  Connection(p, q)'
  BY DEF Connection, OneIf, HasSeedFrom, WordsSent, WordsReceived

LEMMA FlowReseed ==
    ASSUME TypeOK, Control, Flow, NEW p \in Party, Reseed(p)
    PROVE  Flow'
<1>1. /\ Before(p) \in Party /\ After(p) \in Party /\ Before(p) # After(p)
      /\ Before(p) # p /\ After(p) # p
      /\ After(Before(p)) = p /\ Before(After(p)) = p
  BY PartyNeighbours
<1>2. pc[p] = "reseed" /\ pc' = [pc EXCEPT ![p] = "seed_next"] /\ ip' = ip
      /\ ip[p] = 1
  BY DEF Reseed, Control, InBatch
<1>3. \A a, b \in Party :
         chan'[a][b] = IF a = p /\ b = Before(p)
                       THEN Append(chan[a][b], SeedMessage(<<p, 0>>))
                       ELSE IF a = p /\ b = After(p)
                       THEN Append(chan[a][b], SeedMessage(<<p, 1>>))
                       ELSE chan[a][b]
  BY <1>1 DEF Reseed, TypeOK
<1>4. ASSUME NEW a \in Party, NEW b \in Party, a # b
      PROVE  Connection(a, b)'
  <2>1. Connection(a, b)
    BY <1>4 DEF Flow
  <2>2. chan[a][b] \in Seq(Message) /\ Len(chan[a][b]) \in Nat
    BY LenProperties DEF TypeOK
  <2>3. CASE a = p
    <3>1. b = Before(p) \/ b = After(p)
      BY <1>4, <2>3 DEF Party, Before, After
    <3>2. SeedMessage(SeedFor(a, b)) \in Message
      BY <2>3, SeedMessageType DEF Seed, SeedFor
    <3>3. chan'[a][b] = Append(chan[a][b], SeedMessage(SeedFor(a, b)))
      BY <1>1, <1>3, <2>3, <3>1 DEF SeedFor
    <3>4. WordsReceived(b, a) \in Nat
      BY WordCounts
    <3>5. /\ Len(chan[a][b]) = 0 /\ ~HasSeedFrom(b, a) /\ WordsReceived(b, a) = 0
      <4>1. WordsSent(a, b) = 0
        BY <1>2, <2>3 DEF WordsSent, OneIf
      <4>2. Len(chan[a][b]) = 0 - OneIf(HasSeedFrom(b, a)) + 0 - WordsReceived(b, a)
        BY <1>2, <2>1, <2>3, <4>1 DEF Connection, OneIf
      <4> QED
        BY <2>2, <3>4, <4>2 DEF OneIf
    <3>6. chan[a][b] = <<>>
      BY <2>2, <3>5, EmptySeq
    <3>7. Len(chan'[a][b]) = 1 /\ Head(chan'[a][b]) = SeedMessage(SeedFor(a, b))
      BY <2>2, <3>2, <3>3, <3>5, <3>6, AppendProperties, HeadTailAppend
    <3>8. pc'[a] = "seed_next" /\ pc'[b] = pc[b] /\ ip'[a] = ip[a] /\ ip'[b] = ip[b]
      BY <1>2, <1>4, <2>3 DEF TypeOK
    <3>9. HasSeedFrom(b, a)' = HasSeedFrom(b, a) /\ WordsReceived(b, a)' = WordsReceived(b, a)
      BY <3>8 DEF HasSeedFrom, WordsReceived, OneIf
    <3>10. WordsSent(a, b)' = 0
      BY <1>2, <2>3, <3>8 DEF WordsSent, OneIf
    <3> QED
      BY <3>5, <3>7, <3>8, <3>9, <3>10 DEF Connection, OneIf, SeedFor
  <2>4. CASE a # p
    <3>1. chan'[a][b] = chan[a][b] /\ pc'[a] = pc[a] /\ ip'[a] = ip[a] /\ ip'[b] = ip[b]
      BY <1>2, <1>3, <2>4 DEF TypeOK
    <3>2. CASE b = p
      <4>1. pc'[b] = "seed_next"
        BY <1>2, <3>2 DEF TypeOK
      <4>2. HasSeedFrom(b, a)' = FALSE /\ HasSeedFrom(b, a) = FALSE
        BY <1>2, <3>2, <4>1 DEF HasSeedFrom
      <4>3. WordsReceived(b, a)' = WordsReceived(b, a)
        BY <1>2, <3>1, <3>2, <4>1 DEF WordsReceived, OneIf
      <4>4. WordsSent(a, b)' = WordsSent(a, b)
        BY <3>1 DEF WordsSent, OneIf
      <4> QED
        BY <2>1, <3>1, <4>2, <4>3, <4>4 DEF Connection, OneIf, SeedFor
    <3>3. CASE b # p
      <4>1. pc'[b] = pc[b]
        BY <1>2, <3>3 DEF TypeOK
      <4> QED
        BY <2>1, <3>1, <4>1, ConnectionKept
    <3> QED
      BY <3>2, <3>3
  <2> QED
    BY <2>3, <2>4
<1>5. ASSUME NEW a \in Party
      PROVE  SeedsHeld(a)'
  <2>1. SeedsHeld(a)
    BY DEF Flow
  <2>2. CASE a = p
    <3>1. pc'[a] = "seed_next"
      BY <1>2, <2>2 DEF TypeOK
    <3>2. prng'[a][0].seed = <<a, 0>> /\ prng'[a][1].seed = <<a, 1>>
      <4>1. prng \in [Party -> [0 .. 3 -> [seed : Seed \cup {Unseeded}, pos : Nat]]]
        BY DEF TypeOK
      <4>2. prng'[a] = [prng[a] EXCEPT ![0] = Seeded(<<a, 0>>), ![1] = Seeded(<<a, 1>>)]
        BY <2>2, <4>1 DEF Reseed
      <4>3. prng'[a][0] = Seeded(<<a, 0>>) /\ prng'[a][1] = Seeded(<<a, 1>>)
        BY <4>1, <4>2
      <4> QED
        BY <4>3 DEF Seeded
    <3> QED
      BY <3>1, <3>2 DEF SeedsHeld
  <2>3. CASE a # p
    <3>1. pc'[a] = pc[a] /\ prng'[a] = prng[a]
      BY <1>2, <2>3 DEF Reseed, TypeOK
    <3> QED
      BY <2>1, <3>1 DEF SeedsHeld
  <2> QED
    BY <2>2, <2>3
<1>6. pc'[2] \notin {"receive_first", "receive_second"}
  BY <1>2 DEF Flow, TypeOK, Party
<1> QED
  BY <1>4, <1>5, <1>6 DEF Flow

(* A connection on which nothing moves keeps its counts.                   *)
LEMMA ConnectionSame ==
    ASSUME NEW p \in Party, NEW q \in Party, Connection(p, q),
           chan'[p][q] = chan[p][q], (pc'[p] = "reseed") <=> (pc[p] = "reseed"),
           HasSeedFrom(q, p)' <=> HasSeedFrom(q, p),
           WordsSent(p, q)' = WordsSent(p, q),
           WordsReceived(q, p)' = WordsReceived(q, p)
    PROVE  Connection(p, q)'
  BY DEF Connection, OneIf, SeedFor

LEMMA CountsSame ==
    ASSUME NEW p \in Party, NEW q \in Party, ip'[p] = ip[p], pc'[p] = pc[p]
    PROVE  /\ WordsSent(p, q)' = WordsSent(p, q)
           /\ WordsReceived(p, q)' = WordsReceived(p, q)
           /\ HasSeedFrom(p, q)' <=> HasSeedFrom(p, q)
  BY DEF WordsSent, WordsReceived, HasSeedFrom, OneIf

LEMMA FlowReceiveSeed ==
    ASSUME TypeOK, Control, Flow, NEW p \in Party,
           NEW from, NEW slot, NEW at, NEW next,
           \/ from = After(p) /\ slot = 2 /\ at = "seed_next" /\ next = "seed_prev"
           \/ from = Before(p) /\ slot = 3 /\ at = "seed_prev" /\ next = "idle",
           ReceiveSeed(p, from, slot, at, next)
    PROVE  Flow'
<1>1. /\ Before(p) \in Party /\ After(p) \in Party /\ Before(p) # After(p)
      /\ Before(p) # p /\ After(p) # p
      /\ After(Before(p)) = p /\ Before(After(p)) = p
      /\ \A q \in Party : q # p => q = Before(p) \/ q = After(p)
  BY PartyNeighbours DEF Party, Before, After
<1>2. /\ pc[p] = at /\ chan[from][p] # <<>> /\ pc' = [pc EXCEPT ![p] = next] /\ ip' = ip
      /\ prng' = [prng EXCEPT ![p][slot] = Seeded(Head(chan[from][p]).seed)]
      /\ chan' = [chan EXCEPT ![from][p] = Tail(chan[from][p])]
  BY DEF ReceiveSeed
<1>3. ip[p] = 1
  BY <1>2 DEF Control, InBatch
<1>4. /\ \A q \in Party : q # p => pc'[q] = pc[q] /\ prng'[q] = prng[q]
      /\ pc'[p] = next
      /\ \A a, b \in Party : a # from \/ b # p => chan'[a][b] = chan[a][b]
      /\ chan'[from][p] = Tail(chan[from][p])
  BY <1>1, <1>2 DEF TypeOK
<1>5. from \in Party /\ from # p
  BY <1>1
<1>6. \A q \in Party : WordsReceived(p, q) = 0 /\ WordsReceived(p, q)' = 0
                       /\ WordsSent(p, q) = 0 /\ WordsSent(p, q)' = 0
  BY <1>2, <1>3, <1>4 DEF WordsReceived, WordsSent, OneIf
<1>7. /\ ~HasSeedFrom(p, from) /\ HasSeedFrom(p, from)'
      /\ \A q \in Party : q # p /\ q # from => (HasSeedFrom(p, q)' <=> HasSeedFrom(p, q))
  BY <1>1, <1>2, <1>4 DEF HasSeedFrom
<1>8. Connection(from, p) /\ chan[from][p] \in Seq(Message) /\ Len(chan[from][p]) \in Nat \ {0}
  BY <1>2, <1>5, EmptySeq DEF Flow, TypeOK
<1>9. pc[from] # "reseed"
  <2> SUFFICES ASSUME pc[from] = "reseed" PROVE FALSE
    OBVIOUS
  <2>1. WordsSent(from, p) = 0
    BY <1>5 DEF Control, InBatch, WordsSent, OneIf
  <2>2. Len(chan[from][p]) = OneIf(pc[from] # "reseed") - OneIf(HasSeedFrom(p, from))
                             + WordsSent(from, p) - WordsReceived(p, from)
    BY <1>8 DEF Connection
  <2>3. Len(chan[from][p]) = 0
    BY <1>5, <1>6, <1>7, <2>1, <2>2 DEF OneIf
  <2> QED
    BY <1>8, <2>3
<1>10. Head(chan[from][p]) = SeedMessage(SeedFor(from, p))
  BY <1>7, <1>8, <1>9 DEF Connection
<1>11. Connection(from, p)'
  <2>1. Len(chan'[from][p]) = Len(chan[from][p]) - 1
    BY <1>2, <1>4, <1>8, HeadTailProperties
  <2>2. WordsSent(from, p)' = WordsSent(from, p)
    BY <1>2, <1>4, <1>5, CountsSame
  <2>3. WordsSent(from, p) \in Nat
    BY <1>5, WordCounts
  <2> QED
    BY <1>4, <1>5, <1>6, <1>7, <1>8, <1>9, <2>1, <2>2, <2>3 DEF Connection, OneIf
<1>12. ASSUME NEW a \in Party, NEW b \in Party, a # b, a # from \/ b # p
       PROVE  Connection(a, b)'
  <2>1. Connection(a, b) /\ chan'[a][b] = chan[a][b]
    BY <1>4, <1>12 DEF Flow
  <2>2. (pc'[a] = "reseed") <=> (pc[a] = "reseed")
    BY <1>2, <1>4
  <2>3. WordsSent(a, b)' = WordsSent(a, b)
    BY <1>2, <1>4, <1>6, CountsSame
  <2>4. WordsReceived(b, a)' = WordsReceived(b, a) /\ (HasSeedFrom(b, a)' <=> HasSeedFrom(b, a))
    BY <1>2, <1>4, <1>6, <1>7, <1>12, CountsSame
  <2> QED
    BY <2>1, <2>2, <2>3, <2>4, ConnectionSame
<1>13. ASSUME NEW a \in Party
       PROVE  SeedsHeld(a)'
  <2>1. SeedsHeld(a)
    BY DEF Flow
  <2>2. CASE a # p
    <3>1. pc'[a] = pc[a] /\ prng'[a] = prng[a]
      BY <1>4, <2>2
    <3> QED
      BY <2>1, <3>1 DEF SeedsHeld
  <2>3. CASE a = p
    <3>1. /\ prng'[p][slot].seed = SeedFor(from, p)
          /\ \A i \in 0 .. 3 : i # slot => prng'[p][i] = prng[p][i]
      <4>1. Head(chan[from][p]).seed = SeedFor(from, p)
        BY <1>10 DEF SeedMessage
      <4>2. prng[p] \in [0 .. 3 -> [seed : Seed \cup {Unseeded}, pos : Nat]] /\ slot \in 0 .. 3
        BY DEF TypeOK
      <4>3. prng'[p] = [prng[p] EXCEPT ![slot] = Seeded(Head(chan[from][p]).seed)]
        BY <1>2 DEF TypeOK
      <4> QED
        BY <4>1, <4>2, <4>3 DEF Seeded
    <3>2. SeedFor(After(p), p) = <<After(p), 0>> /\ SeedFor(Before(p), p) = <<Before(p), 1>>
      BY <1>1 DEF SeedFor, Party, Before
    <3>3. CASE from = After(p) /\ slot = 2 /\ at = "seed_next" /\ next = "seed_prev"
      <4>1. /\ prng'[p][2].seed = <<After(p), 0>>
            /\ prng'[p][0].seed = <<p, 0>> /\ prng'[p][1].seed = <<p, 1>>
        BY <1>2, <2>1, <2>3, <3>1, <3>2, <3>3 DEF SeedsHeld
      <4> QED
        BY <1>4, <2>3, <3>3, <4>1 DEF SeedsHeld
    <3>4. CASE from = Before(p) /\ slot = 3 /\ at = "seed_prev" /\ next = "idle"
      <4>1. /\ prng'[p][3].seed = <<Before(p), 1>>
            /\ prng'[p][0].seed = <<p, 0>> /\ prng'[p][1].seed = <<p, 1>>
            /\ prng'[p][2].seed = <<After(p), 0>>
        BY <1>2, <2>1, <2>3, <3>1, <3>2, <3>4 DEF SeedsHeld
      <4> QED
        BY <1>4, <2>3, <3>4, <4>1 DEF SeedsHeld
    <3> QED
      BY <3>3, <3>4
  <2> QED
    BY <2>2, <2>3
<1>14. pc'[2] \notin {"receive_first", "receive_second"}
  <2>1. 2 \in Party /\ pc[2] \notin {"receive_first", "receive_second"}
    BY DEF Flow, Party
  <2> QED
    BY <1>4, <2>1
<1> QED
  BY <1>11, <1>12, <1>13, <1>14 DEF Flow

(* What a change of one entry of a table leaves alone.                     *)
LEMMA EntryChanged ==
    ASSUME NEW D, NEW T, NEW f \in [D -> [D -> T]], NEW x \in D, NEW y \in D, NEW v,
           NEW g, g = [f EXCEPT ![x][y] = v]
    PROVE  /\ g[x][y] = v
           /\ \A a, b \in D : a # x \/ b # y => g[a][b] = f[a][b]
<1>1. /\ g[x] = [f[x] EXCEPT ![y] = v]
      /\ \A a \in D : a # x => g[a] = f[a]
  OBVIOUS
<1>2. f[x] \in [D -> T]
  OBVIOUS
<1>3. g[x][y] = v /\ \A b \in D : b # y => g[x][b] = f[x][b]
  BY <1>1, <1>2
<1> QED
  BY <1>1, <1>3

(* exchange's sends: party 0 to 1, party 1 to 0, party 2 to both.          *)
PartFor(p, q) == IF p = 2 /\ q = 1 THEN 1 ELSE 0

LEMMA SendEffect ==
    ASSUME TypeOK, NEW p \in Party, Send(p)
    PROVE  /\ \A a, b \in Party : a # p \/ b = 2 \/ b = p => chan'[a][b] = chan[a][b]
           /\ \A b \in Party : b # p /\ b # 2 =>
                 \E i \in 0 .. 2 : /\ i = PartFor(p, b)
                                   /\ chan'[p][b] = Append(chan[p][b], WordMessage(os[p][i]))
<1>1. chan \in [Party -> [Party -> Seq(Message)]]
  BY DEF TypeOK
<1>2. \A q : q \in Party <=> q = 0 \/ q = 1 \/ q = 2
  BY DEF Party
<1>3. CASE p = 0
  <2>1. chan' = [chan EXCEPT ![0][1] = Append(chan[0][1], WordMessage(os[0][0]))]
    BY <1>3 DEF Send
  <2>2. chan'[0][1] = Append(chan[0][1], WordMessage(os[0][0]))
    BY <1>1, <1>2, <2>1, EntryChanged
  <2>3. \A a, b \in Party : a # 0 \/ b # 1 => chan'[a][b] = chan[a][b]
    BY <1>1, <1>2, <2>1, EntryChanged
  <2>4. ASSUME NEW d \in Party, d # p, d # 2
        PROVE  PartFor(p, d) = 0 /\ chan'[p][d] = Append(chan[p][d], WordMessage(os[p][0]))
    <3>1. d = 1
      BY <1>2, <1>3, <2>4
    <3> QED
      BY <1>3, <2>2, <3>1 DEF PartFor
  <2>5. ASSUME NEW c \in Party, NEW d \in Party, c # p \/ d = 2 \/ d = p
        PROVE  chan'[c][d] = chan[c][d]
    <3>1. c # 0 \/ d # 1
      BY <1>3, <2>5
    <3> QED
      BY <2>3, <3>1
  <2> QED
    BY <2>4, <2>5
<1>4. CASE p = 1
  <2>1. chan' = [chan EXCEPT ![1][0] = Append(chan[1][0], WordMessage(os[1][0]))]
    BY <1>4 DEF Send
  <2>2. chan'[1][0] = Append(chan[1][0], WordMessage(os[1][0]))
    BY <1>1, <1>2, <2>1, EntryChanged
  <2>3. \A a, b \in Party : a # 1 \/ b # 0 => chan'[a][b] = chan[a][b]
    BY <1>1, <1>2, <2>1, EntryChanged
  <2>4. ASSUME NEW d \in Party, d # p, d # 2
        PROVE  PartFor(p, d) = 0 /\ chan'[p][d] = Append(chan[p][d], WordMessage(os[p][0]))
    <3>1. d = 0
      BY <1>2, <1>4, <2>4
    <3> QED
      BY <1>4, <2>2, <3>1 DEF PartFor
  <2>5. ASSUME NEW c \in Party, NEW d \in Party, c # p \/ d = 2 \/ d = p
        PROVE  chan'[c][d] = chan[c][d]
    <3>1. c # 1 \/ d # 0
      BY <1>4, <2>5
    <3> QED
      BY <2>3, <3>1
  <2> QED
    BY <2>4, <2>5
<1>5. CASE p = 2
  <2>1. chan' = [chan EXCEPT ![2][0] = Append(chan[2][0], WordMessage(os[2][0])),
                            ![2][1] = Append(chan[2][1], WordMessage(os[2][1]))]
    BY <1>5 DEF Send
  <2>2. /\ chan'[2][0] = Append(chan[2][0], WordMessage(os[2][0]))
        /\ chan'[2][1] = Append(chan[2][1], WordMessage(os[2][1]))
    BY <1>1, <1>2, <2>1
  <2>3. \A a, b \in Party : a # 2 \/ b = 2 => chan'[a][b] = chan[a][b]
    BY <1>1, <1>2, <2>1
  <2>4. ASSUME NEW d \in Party, d # p, d # 2
        PROVE  /\ PartFor(p, d) \in 0 .. 2
               /\ chan'[p][d] = Append(chan[p][d], WordMessage(os[p][PartFor(p, d)]))
    <3>1. d = 0 \/ d = 1
      BY <1>2, <2>4
    <3>2. PartFor(p, d) = d
      BY <1>5, <3>1 DEF PartFor
    <3>3. chan'[p][d] = Append(chan[p][d], WordMessage(os[p][d]))
      BY <1>5, <2>2, <3>1
    <3> QED
      BY <3>1, <3>2, <3>3
  <2>5. \A c, d \in Party : c # p \/ d = 2 \/ d = p => chan'[c][d] = chan[c][d]
    BY <1>5, <2>3
  <2> QED
    BY <2>4, <2>5
<1>6. p = 0 \/ p = 1 \/ p = 2
  BY <1>2
<1> QED
  BY <1>3, <1>4, <1>5, <1>6

LEMMA FlowSend ==
    ASSUME TypeOK, Control, Flow, NEW p \in Party, Send(p)
    PROVE  Flow'
<1>1. /\ pc[p] = "send" /\ ip' = ip /\ prng' = prng
      /\ pc' = [pc EXCEPT ![p] = IF p = 2 THEN "finalize" ELSE "receive_first"]
  BY DEF Send
<1>2. /\ \A q \in Party : q # p => pc'[q] = pc[q]
      /\ pc'[p] = IF p = 2 THEN "finalize" ELSE "receive_first"
  BY <1>1 DEF TypeOK
<1>3. ASSUME NEW a \in Party, NEW b \in Party, a # b, a # p \/ b = 2
      PROVE  chan'[a][b] = chan[a][b]
  BY <1>3, SendEffect
<1>4. ASSUME NEW b \in Party, b # p, b # 2
      PROVE  \E i \in 0 .. 2 :
                chan'[p][b] = Append(chan[p][b], WordMessage(os[p][i]))
  BY <1>4, SendEffect
<1>5. \A q \in Party : /\ WordsReceived(p, q)' = WordsReceived(p, q)
                       /\ HasSeedFrom(p, q)' <=> HasSeedFrom(p, q)
  BY <1>1, <1>2 DEF WordsReceived, HasSeedFrom, OneIf
<1>6. ASSUME NEW a \in Party, NEW b \in Party, a # b, a # p \/ b = 2
      PROVE  Connection(a, b)'
  <2>1. Connection(a, b) /\ chan'[a][b] = chan[a][b]
    BY <1>3, <1>6 DEF Flow
  <2>2. (pc'[a] = "reseed") <=> (pc[a] = "reseed")
    BY <1>1, <1>2
  <2>3. WordsSent(a, b)' = WordsSent(a, b)
    BY <1>1, <1>2, <1>6, CountsSame DEF WordsSent
  <2>4. WordsReceived(b, a)' = WordsReceived(b, a) /\ (HasSeedFrom(b, a)' <=> HasSeedFrom(b, a))
    BY <1>1, <1>2, <1>5, CountsSame
  <2> QED
    BY <2>1, <2>2, <2>3, <2>4, ConnectionSame
<1>7. ASSUME NEW b \in Party, b # p, b # 2
      PROVE  Connection(p, b)'
  <2>1. PICK i \in 0 .. 2 : chan'[p][b] = Append(chan[p][b], WordMessage(os[p][i]))
    BY <1>4, <1>7
  <2>2. /\ chan[p][b] \in Seq(Message) /\ Len(chan[p][b]) \in Nat
        /\ WordMessage(os[p][i]) \in Message
    <3>1. chan[p][b] \in Seq(Message) /\ os[p][i] \in Seq(Vec)
      BY TypedParts
    <3> QED
      BY <3>1, LenProperties, WordMessageType
  <2>3. Len(chan'[p][b]) = Len(chan[p][b]) + 1
    BY <2>1, <2>2, AppendProperties
  <2>4. WordsReceived(b, p)' = WordsReceived(b, p) /\ (HasSeedFrom(b, p)' <=> HasSeedFrom(b, p))
    BY <1>1, <1>2, <1>7, CountsSame
  <2>5. WordsSent(p, b)' = WordsSent(p, b) + 1
    <3>1. ip[p] \in Nat \ {0}
      BY DEF TypeOK
    <3> QED
      BY <1>1, <1>2, <1>7, <3>1 DEF WordsSent, OneIf
  <2>6. Connection(p, b) /\ pc[p] # "reseed" /\ pc'[p] # "reseed"
    BY <1>1, <1>2, <1>7 DEF Flow
  <2>7. WordsSent(p, b) \in Nat /\ WordsReceived(b, p) \in Nat
    BY WordCounts
  <2>8. ASSUME ~HasSeedFrom(b, p)
        PROVE  Head(chan'[p][b]) = SeedMessage(SeedFor(p, b))
    <3>1. ip[b] = 1 /\ pc[b] \in {"reseed", "seed_next", "seed_prev"}
      BY <2>8 DEF HasSeedFrom, Control, InBatch
    <3>2. WordsReceived(b, p) = 0
      BY <3>1 DEF WordsReceived, OneIf
    <3>3. Len(chan[p][b]) # 0
      BY <2>6, <2>7, <2>8, <3>2 DEF Connection, OneIf
    <3>4. Head(chan[p][b]) = SeedMessage(SeedFor(p, b))
      BY <2>6, <2>8 DEF Connection
    <3>5. chan[p][b] # <<>>
      BY <3>3, PairSeq
    <3> QED
      BY <2>1, <2>2, <3>4, <3>5, HeadTailAppend
  <2>9. Len(chan'[p][b]) = OneIf(pc'[p] # "reseed") - OneIf(HasSeedFrom(b, p)')
                           + WordsSent(p, b)' - WordsReceived(b, p)'
    BY <2>2, <2>3, <2>4, <2>5, <2>6, <2>7 DEF Connection, OneIf
  <2> QED
    BY <2>4, <2>8, <2>9 DEF Connection, SeedFor, OneIf
<1>8. \A a \in Party : SeedsHeld(a)'
  BY <1>1, <1>2 DEF Flow, SeedsHeld
<1>9. pc'[2] \notin {"receive_first", "receive_second"}
  <2>1. 2 \in Party /\ pc[2] \notin {"receive_first", "receive_second"}
    BY DEF Flow, Party
  <2> QED
    BY <1>2, <2>1
<1> QED
  BY <1>6, <1>7, <1>8, <1>9 DEF Flow

LEMMA FlowReceive ==
    ASSUME TypeOK, Control, Flow, NEW p \in Party,
           NEW from, NEW i \in 0 .. 2, NEW at, NEW next,
           \/ from = Before(p) /\ at = "receive_first" /\ next = "receive_second"
           \/ from = After(p) /\ at = "receive_second" /\ next = "finalize",
           Receive(p, from, i, at, next)
    PROVE  Flow'
<1>1. /\ Before(p) \in Party /\ After(p) \in Party /\ Before(p) # After(p)
      /\ Before(p) # p /\ After(p) # p
      /\ After(Before(p)) = p /\ Before(After(p)) = p
      /\ \A q \in Party : q # p => q = Before(p) \/ q = After(p)
  BY PartyNeighbours DEF Party, Before, After
<1>2. /\ pc[p] = at /\ chan[from][p] # <<>> /\ pc' = [pc EXCEPT ![p] = next] /\ ip' = ip
      /\ prng' = prng
      /\ chan' = [chan EXCEPT ![from][p] = Tail(chan[from][p])]
  BY DEF Receive
<1>3. p # 2 /\ ip[p] \in Nat \ {0}
  BY <1>2 DEF Flow, TypeOK
<1>4. /\ \A q \in Party : q # p => pc'[q] = pc[q]
      /\ pc'[p] = next
      /\ \A a, b \in Party : a # from \/ b # p => chan'[a][b] = chan[a][b]
      /\ chan'[from][p] = Tail(chan[from][p])
  BY <1>1, <1>2 DEF TypeOK
<1>5. from \in Party /\ from # p
  BY <1>1
<1>6. \A q \in Party : /\ HasSeedFrom(p, q)' <=> HasSeedFrom(p, q)
                       /\ WordsSent(p, q)' = WordsSent(p, q)
  BY <1>2, <1>4 DEF HasSeedFrom, WordsSent, OneIf
<1>7. /\ WordsReceived(p, from)' = WordsReceived(p, from) + 1
      /\ \A q \in Party : q # p /\ q # from => WordsReceived(p, q)' = WordsReceived(p, q)
  BY <1>1, <1>2, <1>3, <1>4 DEF WordsReceived, OneIf
<1>8. Connection(from, p)'
  <2>1. /\ Connection(from, p) /\ chan[from][p] \in Seq(Message)
        /\ Len(chan[from][p]) \in Nat \ {0}
    BY <1>2, <1>5, EmptySeq DEF Flow, TypeOK
  <2>2. Len(chan'[from][p]) = Len(chan[from][p]) - 1
    BY <1>2, <1>4, <2>1, HeadTailProperties
  <2>3. WordsSent(from, p)' = WordsSent(from, p)
    BY <1>2, <1>4, <1>5, CountsSame
  <2>4. WordsSent(from, p) \in Nat /\ WordsReceived(p, from) \in Nat
    BY <1>5, WordCounts
  <2>5. HasSeedFrom(p, from) /\ HasSeedFrom(p, from)'
    BY <1>2, <1>4 DEF HasSeedFrom
  <2>6. pc'[from] = pc[from]
    BY <1>4, <1>5
  <2> QED
    BY <1>7, <2>1, <2>2, <2>3, <2>4, <2>5, <2>6 DEF Connection, OneIf
<1>9. ASSUME NEW a \in Party, NEW b \in Party, a # b, a # from \/ b # p
      PROVE  Connection(a, b)'
  <2>1. Connection(a, b) /\ chan'[a][b] = chan[a][b]
    BY <1>4, <1>9 DEF Flow
  <2>2. (pc'[a] = "reseed") <=> (pc[a] = "reseed")
    BY <1>2, <1>4
  <2>3. WordsSent(a, b)' = WordsSent(a, b)
    BY <1>2, <1>4, <1>6, CountsSame
  <2>4. WordsReceived(b, a)' = WordsReceived(b, a) /\ (HasSeedFrom(b, a)' <=> HasSeedFrom(b, a))
    BY <1>2, <1>4, <1>6, <1>7, <1>9, CountsSame
  <2> QED
    BY <2>1, <2>2, <2>3, <2>4, ConnectionSame
<1>10. \A a \in Party : SeedsHeld(a)'
  BY <1>2, <1>4 DEF Flow, SeedsHeld
<1>11. pc'[2] \notin {"receive_first", "receive_second"}
  <2>1. 2 \in Party /\ pc[2] \notin {"receive_first", "receive_second"}
    BY DEF Flow, Party
  <2> QED
    BY <1>3, <1>4, <2>1
<1> QED
  BY <1>8, <1>9, <1>10, <1>11 DEF Flow

(* A step inside a batch, or between two, that moves no message.           *)
LEMMA FlowLocal ==
    ASSUME Flow, NEW p \in Party, chan' = chan,
           \A q \in Party : q # p => pc'[q] = pc[q] /\ ip'[q] = ip[q],
           pc[p] \notin {"reseed", "seed_next", "seed_prev"},
           pc'[p] \notin {"reseed", "seed_next", "seed_prev"},
           p = 2 => pc'[p] \notin {"receive_first", "receive_second"},
           \A a \in Party, j \in 0 .. 3 : prng'[a][j].seed = prng[a][j].seed,
           \A q \in Party : /\ WordsSent(p, q)' = WordsSent(p, q)
                            /\ WordsReceived(p, q)' = WordsReceived(p, q)
    PROVE  Flow'
<1>1. \A q \in Party : HasSeedFrom(p, q)' <=> HasSeedFrom(p, q)
  BY DEF HasSeedFrom
<1>2. ASSUME NEW a \in Party, NEW b \in Party, a # b
      PROVE  Connection(a, b)'
  <2>1. Connection(a, b) /\ chan'[a][b] = chan[a][b]
    BY <1>2 DEF Flow
  <2>2. (pc'[a] = "reseed") <=> (pc[a] = "reseed")
    OBVIOUS
  <2>3. WordsSent(a, b)' = WordsSent(a, b)
    BY CountsSame
  <2>4. WordsReceived(b, a)' = WordsReceived(b, a) /\ (HasSeedFrom(b, a)' <=> HasSeedFrom(b, a))
    BY <1>1, CountsSame
  <2> QED
    BY <2>1, <2>2, <2>3, <2>4, ConnectionSame
<1>3. ASSUME NEW a \in Party
      PROVE  SeedsHeld(a)'
  <2>1. SeedsHeld(a) /\ \A j \in 0 .. 3 : prng'[a][j].seed = prng[a][j].seed
    BY DEF Flow
  <2> QED
    BY <2>1 DEF SeedsHeld
<1>4. pc'[2] \notin {"receive_first", "receive_second"}
  <2>1. 2 \in Party /\ pc[2] \notin {"receive_first", "receive_second"}
    BY DEF Flow, Party
  <2> QED
    BY <2>1
<1> QED
  BY <1>2, <1>3, <1>4 DEF Flow

LEMMA FlowInitMul ==
    ASSUME TypeOK, Control, Flow, NEW p \in Party, InitMul(p)
    PROVE  Flow'
<1>1. /\ pc[p] = "idle" /\ pc' = [pc EXCEPT ![p] = "prepare"]
      /\ ip' = ip /\ chan' = chan /\ prng' = prng
  BY DEF InitMul
<1>2. pc'[p] = "prepare" /\ \A q \in Party : q # p => pc'[q] = pc[q]
  BY <1>1 DEF TypeOK
<1>3. \A q \in Party : /\ WordsSent(p, q)' = WordsSent(p, q)
                       /\ WordsReceived(p, q)' = WordsReceived(p, q)
  BY <1>1, <1>2 DEF WordsSent, WordsReceived, OneIf
<1> QED
  BY <1>1, <1>2, <1>3, FlowLocal

LEMMA FlowPrepareMul ==
    ASSUME TypeOK, Control, Flow, NEW p \in Party, PrepareMul(p)
    PROVE  Flow'
<1>1. /\ pc[p] = "prepare" /\ ip' = ip /\ chan' = chan
      /\ prng' = [prng EXCEPT ![p] = Advanced(p)]
  BY DEF PrepareMul
<1>2. pc' = pc \/ pc' = [pc EXCEPT ![p] = "send"]
  BY DEF PrepareMul
<1>3. pc'[p] \in {"prepare", "send"} /\ \A q \in Party : q # p => pc'[q] = pc[q]
  BY <1>1, <1>2 DEF TypeOK
<1>4. \A q \in Party : /\ WordsSent(p, q)' = WordsSent(p, q)
                       /\ WordsReceived(p, q)' = WordsReceived(p, q)
  BY <1>1, <1>3 DEF WordsSent, WordsReceived, OneIf
<1>5. \A a \in Party, j \in 0 .. 3 : prng'[a][j].seed = prng[a][j].seed
  <2>1. \A j \in 0 .. 3 : Advanced(p)[j].seed = prng[p][j].seed
    BY DEF Advanced
  <2> QED
    BY <1>1, <2>1 DEF TypeOK
<1> QED
  BY <1>1, <1>3, <1>4, <1>5, FlowLocal

LEMMA FlowFinalizeMul ==
    ASSUME TypeOK, Control, Flow, NEW p \in Party, FinalizeMul(p)
    PROVE  Flow'
<1>1. pc[p] = "finalize" /\ chan' = chan /\ prng' = prng /\ ip[p] \in Nat \ {0}
  BY DEF FinalizeMul, TypeOK
<1>2. CASE gate[p] < Len(Gates(p))
  <2>1. pc' = pc /\ ip' = ip
    BY <1>2 DEF FinalizeMul
  <2>2. \A q \in Party : /\ WordsSent(p, q)' = WordsSent(p, q)
                         /\ WordsReceived(p, q)' = WordsReceived(p, q)
    BY <2>1, CountsSame
  <2> QED
    BY <1>1, <2>1, <2>2, FlowLocal
<1>3. CASE ~(gate[p] < Len(Gates(p)))
  <2>1. /\ ip' = [ip EXCEPT ![p] = ip[p] + 1]
        /\ pc' = [pc EXCEPT ![p] = "idle"]
    BY <1>3 DEF FinalizeMul
  <2>2. /\ ip'[p] = ip[p] + 1 /\ pc'[p] = "idle"
        /\ \A q \in Party : q # p => pc'[q] = pc[q] /\ ip'[q] = ip[q]
    BY <2>1 DEF TypeOK
  <2>3. \A q \in Party : /\ WordsSent(p, q)' = WordsSent(p, q)
                         /\ WordsReceived(p, q)' = WordsReceived(p, q)
    BY <1>1, <2>2 DEF WordsSent, WordsReceived, OneIf
  <2> QED
    BY <1>1, <2>2, <2>3, FlowLocal
<1> QED
  BY <1>2, <1>3

LEMMA FlowStep ==
    ASSUME TypeOK, Control, Flow, NEW p \in Party, Step(p)
    PROVE  Flow'
<1>1. CASE ReceiveSeed(p, After(p), 2, "seed_next", "seed_prev")
  BY <1>1, FlowReceiveSeed
<1>2. CASE ReceiveSeed(p, Before(p), 3, "seed_prev", "idle")
  BY <1>2, FlowReceiveSeed
<1>3. CASE Receive(p, Before(p), IF p = 0 THEN 2 ELSE 1, "receive_first", "receive_second")
  BY <1>3, FlowReceive
<1>4. CASE Receive(p, After(p), IF p = 0 THEN 1 ELSE 2, "receive_second", "finalize")
  BY <1>4, FlowReceive
<1> QED
  BY <1>1, <1>2, <1>3, <1>4, StepForms, FlowReseed, FlowInitMul, FlowPrepareMul,
     FlowSend, FlowFinalizeMul

LEMMA FlowStutter ==
    ASSUME Flow, UNCHANGED vars
    PROVE  Flow'
<1>1. UNCHANGED <<pc, ip, prng, chan>>
  BY DEF vars
<1>2. ASSUME NEW a \in Party, NEW b \in Party, a # b
      PROVE  Connection(a, b)'
  BY <1>1, <1>2, ConnectionKept DEF Flow
<1>3. \A a \in Party : SeedsHeld(a)'
  BY <1>1 DEF Flow, SeedsHeld
<1> QED
  BY <1>1, <1>2, <1>3 DEF Flow

LEMMA FlowNext == TypeOK /\ Control /\ Flow /\ [Next]_vars => Flow'
  BY FlowStep, FlowStutter DEF Next, Terminated

LEMMA FlowCorrect == Spec => []Flow
<1>1. Init => Flow
  BY FlowInit
<1> QED
  BY <1>1, FlowNext, ControlCorrect, PTL DEF Spec

(***************************************************************************)
(* The seeds reach the generators they are for: no party leaves the        *)
(* constructor with another pair of shared generators than the AND         *)
(* formulas assume, in any order of sends and receives.                    *)
(***************************************************************************)
THEOREM SeedsPairedCorrect == Spec => []SeedsPaired
<1>1. Flow => SeedsPaired
  BY DEF Flow, SeedsHeld, SeedsPaired
<1> QED
  BY <1>1, FlowCorrect, PTL

(***************************************************************************)
(* The distance between the parties: parties 0 and 1 stay within one       *)
(* instruction of each other and behind what party 2 has sent, for         *)
(* programs of every length.                                               *)
(***************************************************************************)
THEOREM LockstepCorrect == Spec => []Lockstep
<1>1. TypeOK /\ Control /\ Flow => Lockstep
  <2> SUFFICES ASSUME TypeOK, Control, Flow PROVE Lockstep
    OBVIOUS
  <2>1. 0 \in Party /\ 1 \in Party /\ 2 \in Party
    BY DEF Party
  <2>2. ip[0] \in Nat \ {0} /\ ip[1] \in Nat \ {0} /\ ip[2] \in Nat \ {0}
    BY <2>1 DEF TypeOK
  <2>3. /\ Connection(0, 1) /\ Connection(1, 0) /\ Connection(2, 0) /\ Connection(2, 1)
    BY <2>1 DEF Flow
  <2>4. \A p, q \in Party : Len(chan[p][q]) \in Nat
    BY LenProperties DEF TypeOK
  <2>5. \A p \in Party : pc[p] \in {"reseed", "seed_next", "seed_prev"} => ip[p] = 1
    BY DEF Control, InBatch
  <2>6. ASSUME NEW p \in Party, NEW q \in {0, 1}, p # q, Connection(p, q)
        PROVE  WordsReceived(q, p) <= WordsSent(p, q)
    <3>1. q \in Party /\ q # 2
      BY <2>1
    <3>2. WordsSent(p, q) \in Nat /\ WordsReceived(q, p) \in Nat
      BY <3>1, WordCounts
    <3>3. CASE HasSeedFrom(q, p)
      BY <2>4, <2>6, <3>1, <3>2, <3>3 DEF Connection, OneIf
    <3>4. CASE ~HasSeedFrom(q, p)
      <4>1. pc[q] \in {"reseed", "seed_next", "seed_prev"}
        BY <3>4 DEF HasSeedFrom
      <4>2. WordsReceived(q, p) = 0
        BY <2>2, <2>5, <3>1, <4>1 DEF WordsReceived, OneIf
      <4> QED
        BY <3>2, <4>2
    <3> QED
      BY <3>3, <3>4
  <2>7. /\ WordsReceived(0, 1) <= WordsSent(1, 0) /\ WordsReceived(1, 0) <= WordsSent(0, 1)
        /\ WordsReceived(0, 2) <= WordsSent(2, 0) /\ WordsReceived(1, 2) <= WordsSent(2, 1)
    BY <2>1, <2>3, <2>6
  <2>8. /\ WordsSent(1, 0) <= ip[1] /\ WordsSent(0, 1) <= ip[0]
        /\ WordsSent(2, 0) = ip[2] - 1 + OneIf(pc[2] = "finalize")
        /\ WordsSent(2, 1) = ip[2] - 1 + OneIf(pc[2] = "finalize")
    BY <2>2 DEF WordsSent, OneIf, Flow
  <2>9. /\ ip[0] - 1 <= WordsReceived(0, 1) /\ ip[1] - 1 <= WordsReceived(1, 0)
        /\ ip[0] - 1 + OneIf(pc[0] = "finalize") <= WordsReceived(0, 2)
        /\ ip[1] - 1 + OneIf(pc[1] = "finalize") <= WordsReceived(1, 2)
    BY <2>2 DEF WordsReceived, OneIf
  <2>10. \A p \in {0, 1} : ip[p] - 1 + OneIf(pc[p] = "finalize")
                            <= ip[2] - 1 + OneIf(pc[2] = "finalize")
    BY <2>2, <2>7, <2>8, <2>9 DEF OneIf, WordsReceived
  <2>11. ip[0] <= ip[1] + 1 /\ ip[1] <= ip[0] + 1
    <3>1. WordsSent(1, 0) \in Nat /\ WordsSent(0, 1) \in Nat
          /\ WordsReceived(0, 1) \in Nat /\ WordsReceived(1, 0) \in Nat
      BY <2>1, WordCounts
    <3> QED
      BY <2>2, <2>7, <2>8, <2>9, <3>1
  <2> QED
    BY <2>2, <2>10, <2>11 DEF Lockstep, OneIf
<1> QED
  BY <1>1, FlowCorrect, ControlCorrect, PTL
=============================================================================
