---------------------------- MODULE GCProcessor -----------------------------
(***************************************************************************)
(* The virtual machine GC::Processor<SemiHonestMultiRepSecret> of each     *)
(* party, running a straight-line program.  ANDS instructions are the      *)
(* batches of MultiReplicated; the others are here: local ones, BITB       *)
(* (RepPrep), INPUTB (MultiReplicatedInput) and REVEAL (MultiReplicatedMC),*)
(* the last two on the same connections.  Memory cells are registers:      *)
(* LDMSB and STMSB copy as MOVSB does.                                     *)
(***************************************************************************)
EXTENDS MultiReplicated

CONSTANTS
    CReg,               \* clear registers, processor.C
    PrivateInputs,      \* the input files: functions from parties to sequences of words
    BatchSize           \* random bits that are made at once

Dealing == [from : Party, n : 1 .. W, out : Reg]
Opening == [n : 1 .. W, in : Reg, out : CReg]

OtherInstruction ==
    [op : {"xors"}, gates : Seq(Gate)]
        \cup [op : {"nots"}, n : 1 .. W, out : Reg, in : Reg]
        \cup [op : {"ldbits"}, out : Reg, value : Vec]
        \cup [op : {"andm"}, out : Reg, in : Reg, clear : CReg]
        \cup [op : {"movsb"}, out : Reg, in : Reg]
        \cup [op : {"bitdecs"}, in : Reg, outs : Seq(Reg)]
        \cup [op : {"bitcoms"}, out : Reg, ins : Seq(Reg)]
        \cup [op : {"trans"}, outs : Seq(Reg), ins : Seq(Reg)]
        \cup [op : {"bitb"}, out : Reg]
        \cup [op : {"inputb"}, items : Seq(Dealing)]
        \cup [op : {"reveal"}, items : Seq(Opening)]

(* XORS has two operands; TRANS transposes a square, so that there are no  *)
(* more rows than lanes.                                                   *)
ASSUME MachineProgramsAssumption ==
    \A prog \in Programs :
        /\ prog \in Seq(AndsInstruction \cup OtherInstruction)
        /\ \A k \in DOMAIN prog :
              /\ prog[k].op = "xors" =>
                    \A g \in DOMAIN prog[k].gates : Len(prog[k].gates[g].ops) = 2
              /\ prog[k].op = "trans" => Len(prog[k].ins) <= W

ASSUME PrivateInputsAssumption == PrivateInputs \subseteq [Party -> Seq(Vec)]

ASSUME BatchSizeAssumption == BatchSize \in Nat \ {0}

VARIABLES
    input,          \* what each party has been given to input
    C,              \* processor.C
    read,           \* inputs read so far
    drawn,          \* words drawn from secure_prng so far
    dealt,          \* InputBase::shares, the dealer's own shares
    received,       \* received[p][q]: InputBase::os[q]
    prep,           \* the RepPrep of each party
    clog            \* history: C before the first and after each finished instruction

machine     == <<input, C, read, drawn, dealt, received, prep, clog>>
machineVars == <<vars, machine>>

MachineInit ==
    /\ Init
    /\ input \in PrivateInputs
    /\ C = [p \in Party |-> [c \in CReg |-> {}]]
    /\ read = [p \in Party |-> 0]
    /\ drawn = [p \in Party |-> 0]
    /\ dealt = [p \in Party |-> <<>>]
    /\ received = [p \in Party |-> [q \in Party |-> <<>>]]
    /\ prep = [p \in Party |-> [at    |-> "none",        \* or "seed", "ready"
                                seeds |-> [j \in {0, 1} |-> Unseeded],
                                pos   |-> 0,             \* bits drawn so far
                                bits  |-> <<>>]]
    /\ clog = [p \in Party |-> <<C[p]>>]

Instruction(p) == program[ip[p]]

(* A batch of ANDs; it never touches the clear registers.                  *)
Ands(p) ==
    /\ Step(p)
    /\ clog' = [clog EXCEPT ![p] = IF ip'[p] = ip[p] THEN @ ELSE Append(@, C[p])]
    /\ UNCHANGED <<input, C, read, drawn, dealt, received, prep>>

(* The end of any other instruction: the program counter moves on. *)
Advance(p) ==
    /\ pc' = [pc EXCEPT ![p] = "idle"]
    /\ ip' = [ip EXCEPT ![p] = @ + 1]
    /\ log' = [log EXCEPT ![p] = Append(@, S'[p])]
    /\ clog' = [clog EXCEPT ![p] = Append(@, C'[p])]
    /\ UNCHANGED <<program, tape, gate, prng, os, kept, marks>>

-----------------------------------------------------------------------------
(***************************************************************************)
(* Local instructions, on both components of the party's own share.        *)
(***************************************************************************)
XorShares(s, t) == [c \in {0, 1} |-> s[c] (+) t[c]]

(* FixedVec's scalar constructor: the same word in both components. *)
Scalar(v) == Sh(v, v)

Assign(p, op, registers) ==
    /\ pc[p] = "idle"
    /\ At(p, op)
    /\ S' = [S EXCEPT ![p] = registers]
    /\ UNCHANGED <<chan, input, C, read, drawn, dealt, received>>
    /\ Advance(p)

Local(p, op, registers) == Assign(p, op, registers) /\ UNCHANGED prep

(* Gate by gate, so that a later gate reads what an earlier one wrote; the *)
(* number of bits is not looked at.                                        *)
XorGate(regs, g) == [regs EXCEPT ![g.out] = XorShares(regs[g.ops[1]], regs[g.ops[2]])]

(* Fault: the operands are all read before any result is written. *)
SimultaneousXors(p) ==
    Local(p, "xors",
          LET gates == Instruction(p).gates
          IN  Loop(LAMBDA regs, i :
                     [regs EXCEPT ![gates[i].out] =
                        XorShares(S[p][gates[i].ops[1]], S[p][gates[i].ops[2]])],
                   S[p], Len(gates)))

Xors(p) ==
    LET gates == Instruction(p).gates
    IN  Local(p, "xors", Loop(LAMBDA regs, i : XorGate(regs, gates[i]), S[p], Len(gates)))

Nots(p) ==
    LET ins == Instruction(p)
    IN  Local(p, "nots", [S[p] EXCEPT ![ins.out] =
                            MaskShare(XorShares(S[p][ins.in], Scalar(Lane)), ins.n)])

LoadClear(p) ==
    LET ins == Instruction(p)
    IN  Local(p, "ldbits", [S[p] EXCEPT ![ins.out] = Scalar(ins.value)])

AndClear(p) ==
    LET ins == Instruction(p)
    IN  Local(p, "andm", [S[p] EXCEPT ![ins.out] =
                            [c \in {0, 1} |-> S[p][ins.in][c] \cap C[p][ins.clear]]])

Move(p) ==
    Local(p, "movsb", [S[p] EXCEPT ![Instruction(p).out] = S[p][Instruction(p).in]])

(* bitdec writes register by register and keeps reading its source. *)
ShareBit(s, i) == [c \in {0, 1} |-> IF i \in s[c] THEN {0} ELSE {}]

BitDec(p) ==
    LET ins == Instruction(p)
    IN  Local(p, "bitdecs",
              Loop(LAMBDA regs, i :
                     [regs EXCEPT ![ins.outs[i]] = ShareBit(regs[ins.in], i - 1)],
                   S[p], Len(ins.outs)))

(* bitcom clears its target before it reads the first source. *)
ShiftShare(s, i) == [c \in {0, 1} |-> {l \in Lane : l - i \in s[c]}]

BitCom(p) ==
    LET ins == Instruction(p)
    IN  Local(p, "bitcoms",
              Loop(LAMBDA regs, i :
                     [regs EXCEPT ![ins.out] =
                        XorShares(@, ShiftShare(regs[ins.ins[i]], i - 1))],
                   [S[p] EXCEPT ![ins.out] = Scalar({})], Len(ins.ins)))

(* All rows of a square are read before any column is written. *)
Column(ins, i, regs) ==
    [c \in {0, 1} |-> {r - 1 : r \in {k \in DOMAIN ins : i - 1 \in regs[ins[k]][c]}}]

Transpose(p) ==
    LET ins == Instruction(p)
    IN  Local(p, "trans",
              Loop(LAMBDA regs, i :
                     [regs EXCEPT ![ins.outs[i]] = Column(ins.ins, i, S[p])],
                   S[p], Len(ins.outs)))

-----------------------------------------------------------------------------
(***************************************************************************)
(* RepPrep holds a ReplicatedBase, which pre_run builds after the protocol *)
(* object: one seed goes on to the next party, one comes from the previous *)
(* one.  BITB takes the last bit of its store, and if that is empty makes  *)
(* a batch: component j is the next bit of generator j.                    *)
(***************************************************************************)
PrepSend(p) ==
    /\ pc[p] = "idle"
    /\ prep[p].at = "none"
    /\ prep' = [prep EXCEPT ![p].at = "seed", ![p].seeds[0] = <<p, 3>>]
    /\ chan' = [chan EXCEPT ![p][After(p)] = Append(@, SeedMessage(<<p, 3>>))]
    /\ UNCHANGED <<program, tape, pc, ip, gate, prng, S, os, kept, log, marks,
                   input, C, read, drawn, dealt, received, clog>>

PrepReceive(p) ==
    /\ prep[p].at = "seed"
    /\ chan[Before(p)][p] # <<>>
    /\ prep' = [prep EXCEPT ![p].at = "ready",
                            ![p].seeds[1] = Head(chan[Before(p)][p]).seed]
    /\ chan' = [chan EXCEPT ![Before(p)][p] = Tail(@)]
    /\ UNCHANGED <<program, tape, pc, ip, gate, prng, S, os, kept, log, marks,
                   input, C, read, drawn, dealt, received, clog>>

(* PRNG::get_bit shifts a word of 64 bits before it looks at it, so that   *)
(* every 64th bit is the 0 shifted in.                                     *)
GetBit(seed, i) == IF i % 64 # 0 /\ RandomBit(tape, seed, i, 0) THEN {0} ELSE {}

(* Fault: both components come from the party's own generator. *)
OwnNewBits(p) ==
    [i \in 1 .. BatchSize |->
        [j \in {0, 1} |-> GetBit(prep[p].seeds[0], prep[p].pos + 2 * i - j)]]

NewBits(p) ==
    [i \in 1 .. BatchSize |-> [j \in {0, 1} |-> GetBit(prep[p].seeds[j], prep[p].pos + i)]]

BitB(p) ==
    LET empty == prep[p].bits = <<>>
        store == IF empty THEN NewBits(p) ELSE prep[p].bits
    IN  /\ Assign(p, "bitb", [S[p] EXCEPT ![Instruction(p).out] = store[Len(store)]])
        /\ prep' = [prep EXCEPT ![p].bits = FirstOf(store, Len(store) - 1),
                                ![p].pos = IF empty THEN @ + BatchSize ELSE @]

-----------------------------------------------------------------------------
(***************************************************************************)
(* REVEAL: POpen packs component 0 of the masked shares whole, passes it   *)
(* to the next party while it receives from the previous one, and adds     *)
(* what arrives to its own component.                                      *)
(***************************************************************************)
OpenSend(p) ==
    /\ pc[p] = "idle"
    /\ At(p, "reveal")
    /\ LET items == Instruction(p).items
       IN  chan' = [chan EXCEPT ![p][After(p)] = Append(@, WordMessage(
                      [i \in 1 .. Len(items) |-> Mask(S[p][items[i].in][0], items[i].n)]))]
    /\ pc' = [pc EXCEPT ![p] = "open"]
    /\ UNCHANGED <<program, tape, ip, gate, prng, S, os, kept, log, marks, machine>>

OpenReceive(p) ==
    /\ pc[p] = "open"
    /\ chan[Before(p)][p] # <<>>
    /\ LET items == Instruction(p).items
           words == Head(chan[Before(p)][p]).words
           value(i) == OpenFrom(p, MaskShare(S[p][items[i].in], items[i].n), words[i])
       IN  C' = [C EXCEPT ![p] =
                   Loop(LAMBDA regs, i : [regs EXCEPT ![items[i].out] = Mask(value(i), items[i].n)],
                        @, Len(items))]
    /\ chan' = [chan EXCEPT ![Before(p)][p] = Tail(@)]
    /\ UNCHANGED <<S, input, read, drawn, dealt, received, prep>>
    /\ Advance(p)

-----------------------------------------------------------------------------
(***************************************************************************)
(* INPUTB.  The input object holds a MultiReplicatedBase of its own, so    *)
(* every INPUTB repeats the seed exchange, with seeds nobody draws from.   *)
(***************************************************************************)
InputSetup(p) ==
    /\ pc[p] = "idle"
    /\ At(p, "inputb")
    /\ chan' = [chan EXCEPT ![p][Before(p)] = Append(@, SeedMessage(<<p, 0>>)),
                            ![p][After(p)]  = Append(@, SeedMessage(<<p, 1>>))]
    /\ pc' = [pc EXCEPT ![p] = "input_seed_next"]
    /\ UNCHANGED <<program, tape, ip, gate, prng, S, os, kept, log, marks, machine>>

(* Fault: the constructor goes on without waiting for the peers' seeds. *)
SkippedDiscardSeed(p, from, at, next) ==
    /\ pc[p] = at
    /\ pc' = [pc EXCEPT ![p] = next]
    /\ UNCHANGED <<program, tape, ip, gate, prng, S, os, kept, chan, log, marks, machine>>

DiscardSeed(p, from, at, next) ==
    /\ pc[p] = at
    /\ chan[from][p] # <<>>
    /\ chan' = [chan EXCEPT ![from][p] = Tail(@)]
    /\ pc' = [pc EXCEPT ![p] = next]
    /\ UNCHANGED <<program, tape, ip, gate, prng, S, os, kept, log, marks, machine>>

DiscardSeedNext(p) == DiscardSeed(p, After(p), "input_seed_next", "input_seed_prev")
DiscardSeedPrev(p) == DiscardSeed(p, Before(p), "input_seed_prev", "input_send")

Expects(p, q) == ItemsFrom(Instruction(p).items, q) # <<>>

Private(p) == <<p, 2>>      \* secure_prng

(***************************************************************************)
(* add_mine for the party's own items, in their order: two fresh masks per *)
(* item, the own share kept, the others packed for the next and the        *)
(* previous party; then the sending half of exchange.                      *)
(***************************************************************************)

(* Fault: one lane too many. *)
WideFresh(p, i, n) == {l \in 0 .. W : l <= n}

Fresh(p, i, n) == {l \in Lane : l < n /\ RandomBit(tape, Private(p), i, l)}

(* Fault: one mask for both components. *)
ReusedMaskDealingOf(p, item, i) ==
    LET mask == Fresh(p, drawn[p] + 2 * i - 1, item.n)
    IN  DealtBy(p, input[p][read[p] + i], mask, mask)

DealingOf(p, item, i) ==
    DealtBy(p, input[p][read[p] + i],
            Fresh(p, drawn[p] + 2 * i - 1, item.n), Fresh(p, drawn[p] + 2 * i, item.n))

PackedFor(q, dealings, mine) ==
    [k \in 1 .. 2 * Len(mine) |->
        LET i == (k + 1) \div 2
        IN  Packed(dealings[i][q][(k + 1) % 2], mine[i].n)]

InputSend(p) ==
    /\ pc[p] = "input_send"
    /\ LET mine     == ItemsFrom(Instruction(p).items, p)
           dealings == [i \in 1 .. Len(mine) |-> DealingOf(p, mine[i], i)]
       IN  /\ read[p] + Len(mine) <= Len(input[p])     \* or "not enough inputs"
           /\ dealt' = [dealt EXCEPT ![p] = [i \in 1 .. Len(mine) |-> dealings[i][p]]]
           /\ read' = [read EXCEPT ![p] = @ + Len(mine)]
           /\ drawn' = [drawn EXCEPT ![p] = @ + 2 * Len(mine)]
           /\ chan' = IF mine = <<>> THEN chan
                      ELSE [chan EXCEPT
                              ![p][After(p)]  = Append(@, WordMessage(
                                                  PackedFor(After(p), dealings, mine))),
                              ![p][Before(p)] = Append(@, WordMessage(
                                                  PackedFor(Before(p), dealings, mine)))]
    /\ received' = [received EXCEPT ![p] = [q \in Party |-> <<>>]]
    /\ pc' = [pc EXCEPT ![p] = "input_next"]
    /\ UNCHANGED <<program, tape, ip, gate, prng, S, os, kept, log, marks,
                   input, C, prep, clog>>

(* The receiving half of exchange: only from parties that have an item. *)
InputReceive(p, from, at, next) ==
    /\ pc[p] = at
    /\ IF Expects(p, from)
       THEN /\ chan[from][p] # <<>>
            /\ received' = [received EXCEPT ![p][from] = Head(chan[from][p]).words]
            /\ chan' = [chan EXCEPT ![from][p] = Tail(@)]
       ELSE UNCHANGED <<received, chan>>
    /\ pc' = [pc EXCEPT ![p] = next]
    /\ UNCHANGED <<program, tape, ip, gate, prng, S, os, kept, log, marks,
                   input, C, read, drawn, dealt, prep, clog>>

InputReceiveNext(p) == InputReceive(p, After(p), "input_next", "input_prev")
InputReceivePrev(p) == InputReceive(p, Before(p), "input_prev", "input_store")

(* finalize_mine or finalize_other for every item in order, masked. *)

(* Fault: the two words of a dealing are stored in the opposite order. *)
CrossedInputShare(p, i) ==
    LET items == Instruction(p).items
        from  == items[i].from
        nth   == Nth(items, i)
        words == received[p][from]
    IN  MaskShare(IF from = p THEN dealt[p][nth] ELSE Sh(words[2 * nth], words[2 * nth - 1]),
                  items[i].n)

InputShare(p, i) ==
    LET items == Instruction(p).items
        from  == items[i].from
        nth   == Nth(items, i)
        words == received[p][from]
    IN  MaskShare(IF from = p THEN dealt[p][nth] ELSE Sh(words[2 * nth - 1], words[2 * nth]),
                  items[i].n)

InputStore(p) ==
    /\ pc[p] = "input_store"
    /\ LET items == Instruction(p).items
       IN  S' = [S EXCEPT ![p] =
                   Loop(LAMBDA regs, i : [regs EXCEPT ![items[i].out] = InputShare(p, i)],
                        @, Len(items))]
    /\ UNCHANGED <<chan, input, C, read, drawn, dealt, received, prep>>
    /\ Advance(p)

-----------------------------------------------------------------------------
(* A thread executes tapes when pre_run is over.                           *)
Execute(p) ==
    \/ Ands(p)
    \/ Xors(p)
    \/ Nots(p)
    \/ LoadClear(p)
    \/ AndClear(p)
    \/ Move(p)
    \/ BitDec(p)
    \/ BitCom(p)
    \/ Transpose(p)
    \/ BitB(p)
    \/ OpenSend(p)
    \/ OpenReceive(p)
    \/ InputSetup(p)
    \/ DiscardSeedNext(p)
    \/ DiscardSeedPrev(p)
    \/ InputSend(p)
    \/ InputReceiveNext(p)
    \/ InputReceivePrev(p)
    \/ InputStore(p)

MachineStep(p) ==
    \/ PrepSend(p)
    \/ PrepReceive(p)
    \/ (pc[p] = "idle" => prep[p].at = "ready") /\ Execute(p)

MachineNext == (\E p \in Party : MachineStep(p)) \/ (Terminated /\ UNCHANGED machine)

MachineSpec == MachineInit /\ [][MachineNext]_machineVars

-----------------------------------------------------------------------------
(* Every variable ranges over what the code can put there. *)
MachineTypeOK ==
    /\ TypeOK
    /\ input \in PrivateInputs
    /\ C \in [Party -> [CReg -> Vec]]
    /\ read \in [Party -> Nat]
    /\ drawn \in [Party -> Nat]
    /\ dealt \in [Party -> Seq(Share)]
    /\ received \in [Party -> [Party -> Seq(Vec)]]
    /\ prep \in [Party -> [at    : {"none", "seed", "ready"},
                           seeds : [{0, 1} -> Seed \cup {Unseeded}],
                           pos   : Nat,
                           bits  : Seq(Share)]]
    /\ clog \in [Party -> Seq([CReg -> Vec])]

(***************************************************************************)
(* The virtual machines run the program: what the parties' shares open to, *)
(* together with the clear registers, moves from instruction to            *)
(* instruction as IdealMachine says, however far apart the parties are     *)
(* and whatever mixture of batches, inputs and openings is in flight.      *)
(* It says so up to the first constant or complement or input of another   *)
(* party than 0, for the code does not keep that promise (RevealsResult).  *)
(***************************************************************************)
DealtByFirst(ins) ==
    ins.op = "inputb" => \A i \in DOMAIN ins.items : ins.items[i].from = 0

Kept(ins) ==
    /\ ins.op # "nots"
    /\ ins.op = "ldbits" => ins.value = {}
    /\ DealtByFirst(ins)

CompletedAsPromised ==
    CHOOSE k \in 0 .. Completed :
        /\ \A j \in 1 .. k : Kept(program[j])
        /\ k = Completed \/ ~Kept(program[k + 1])

Promise == INSTANCE IdealMachine
              WITH step  <- CompletedAsPromised,
                   value <- [r \in Reg |-> Opened(SharingOf(r, CompletedAsPromised))],
                   clear <- clog[0][CompletedAsPromised + 1]

ComputesProgram == Promise!MachineSpec

(***************************************************************************)
(* As SharesConsistent for whatever the machine has computed, constants    *)
(* included, until it has a random bit or an input of parties 1 and 2.     *)
(***************************************************************************)
MachineSharesConsistent ==
    \A k \in 0 .. Completed, r \in Reg :
        (\A j \in 1 .. k : program[j].op # "bitb" /\ DealtByFirst(program[j]))
            => Consistent(SharingOf(r, k))

(***************************************************************************)
(* Random bits are made without a message.  Still each component has two   *)
(* holders, as in a replicated sharing, however far apart the parties are  *)
(* and however their stores are used up: what party p has left as its      *)
(* first component the next party has as its second.                       *)
(***************************************************************************)
RandomBitsReplicated ==
    \A p \in Party :
        LET mine == prep[p]
            next == prep[After(p)]
        IN  \A i \in DOMAIN mine.bits \cap DOMAIN next.bits :
                mine.pos = next.pos => mine.bits[i][0] = next.bits[i][1]

(***************************************************************************)
(* What a user sees: at every party the clear registers after each         *)
(* instruction are the ones of the ideal execution of the program.         *)
(***************************************************************************)
Promised[k \in 0 .. Len(program)] ==
    IF k = 0
    THEN [value |-> [r \in Reg |-> Opened(SharingOf(r, 0))],
          clear |-> [c \in CReg |-> {}]]
    ELSE LET before == Promised[k - 1]
         IN  [value |-> Promise!SecretsAfter(k, before.value, before.clear, {}),
              clear |-> Promise!ClearAfter(k, before.value, before.clear)]

RevealsResult ==
    \A p \in Party : \A k \in DOMAIN clog[p] : clog[p][k] = Promised[k - 1].clear

(***************************************************************************)
(* The three parties open each secret from different components and all    *)
(* get the same word, so that programs branch and index memory alike.      *)
(***************************************************************************)
OpeningsAgree ==
    \A p, q \in Party : \A k \in DOMAIN clog[p] \cap DOMAIN clog[q] :
        clog[p][k] = clog[q][k]

(***************************************************************************)
(* INPUTB and REVEAL hold the parties together, ANDS does not: no party    *)
(* leaves an INPUTB that another has not entered, none leaves a REVEAL     *)
(* that its previous party has not entered.  This is what bounds how far   *)
(* party 2, which ANDS never stops, runs ahead.                            *)
(***************************************************************************)
Left(p, k)    == ip[p] > k
Entered(p, k) == ip[p] > k \/ (ip[p] = k /\ pc[p] # "idle")

Barriers ==
    \A k \in 1 .. Len(program), p \in Party :
        Left(p, k) =>
            /\ program[k].op = "inputb" => \A q \in Party : Entered(q, k)
            /\ program[k].op = "reveal" => Entered(Before(p), k)

(***************************************************************************)
(* Perfect privacy of inputs, with lanes as samples (see AndIsPrivate):    *)
(* if a dealer's lanes run through all combinations of inputs and masks,   *)
(* what a receiver has got from it occurs as often with every input.       *)
(***************************************************************************)
InputsSampled(p, q) ==
    LET bits      == Len(input[q]) + drawn[q]
        chance(l) == << {i \in DOMAIN input[q] : l \in input[q][i]},
                        {i \in 1 .. drawn[q] : RandomBit(tape, Private(q), i, l)} >>
        items     == ItemsFrom(Instruction(p).items, q)
    IN  /\ bits < 31 /\ W = 2 ^ bits /\ Cardinality({chance(l) : l \in Lane}) = W
        /\ \A i \in DOMAIN items : items[i].n = W

InputsPrivate ==
    \A p, q \in Party :
        pc[p] = "input_store" /\ p # q /\ InputsSampled(p, q) =>
            LET view(l)    == {i \in DOMAIN received[p][q] : l \in received[p][q][i]}
                secret(l)  == {i \in DOMAIN input[q] : l \in input[q][i]}
                count(u, s) == Cardinality({l \in Lane : view(l) = u /\ secret(l) = s})
            IN  \A u \in {view(l) : l \in Lane}, s, t \in {secret(l) : l \in Lane} :
                    count(u, s) = count(u, t)
=============================================================================
