-------------------------- MODULE MultiReplicated ---------------------------
(***************************************************************************)
(* The protocol object MultiReplicated<T> at the three parties, driven by  *)
(* ShareThread<T>::and_: the seed exchange of the constructor, then one    *)
(* batch of multi-fan-in ANDs per ANDS instruction, each batch going       *)
(* through init_mul, prepare_mul per gate, exchange and finalize_mul per   *)
(* gate.  The parties run on their own and meet only in the messages of    *)
(* the exchange, over FIFO connections.                                    *)
(***************************************************************************)
EXTENDS MultiAnd

CONSTANTS
    Reg,                      \* secret registers, processor.S
    Programs,                 \* the programs to run
    Inputs,                   \* initial contents of the registers
    Tapes,                    \* outcomes of the random generators
    RandomBit(_, _, _, _)     \* RandomBit(tape, seed, i, l): lane l of the i-th
                              \* word drawn from the generator with that seed

Gate            == [ops : Seq(Reg), out : Reg, n : 1 .. W]
AndsInstruction == [op : {"ands"}, gates : Seq(Gate)]

(* Other instructions than ANDS are the business of GCProcessor. *)
ASSUME ProgramsAssumption ==
    \A prog \in Programs :
        /\ Len(prog) \in Nat
        /\ \A k \in 1 .. Len(prog) :
              prog[k].op = "ands" =>
                /\ prog[k] \in AndsInstruction
                /\ prog[k].gates # <<>>
                /\ \A g \in 1 .. Len(prog[k].gates) : Len(prog[k].gates[g].ops) >= 2

ASSUME InputsAssumption ==
    Inputs \subseteq [Reg -> [v : Vec, alpha : Vec, beta : Vec]]

(* A seed is named by the party that drew it and the generator it is for;  *)
(* 3 is the one of the random bits, see GCProcessor.                       *)
Seed     == Party \X {0, 1, 3}
Unseeded == <<>>

VARIABLES
    program,        \* the compiled program, the same at every party
    tape,           \* the outcome of all the random generators
    pc,             \* where each party is
    ip,             \* its current instruction
    gate,           \* the gate of that instruction it handles next
    prng,           \* shared_prngs
    S,              \* processor.S
    os,             \* the octet streams os[0], os[1], os[2]
    add_shares, add_shares_2, and_operands,
    chan,           \* chan[p][q]: messages from p to q in flight
    log,            \* history: the registers before the first and after each
                    \* finished instruction
    marks           \* history: for each gate prepared, which one it was and
                    \* the positions of the generators before it

vars == <<program, tape, pc, ip, gate, prng, S, os, add_shares, add_shares_2,
          and_operands, chan, log, marks>>

kept == <<add_shares, add_shares_2, and_operands>>

SeedMessage(s)  == [kind |-> "seed", seed |-> s, words |-> <<>>]
WordMessage(ws) == [kind |-> "words", seed |-> Unseeded, words |-> ws]

Gates(p)    == program[ip[p]].gates
ThisGate(p) == Gates(p)[gate[p]]
FanIn(p)    == Len(ThisGate(p).ops)
Running(p)  == ip[p] <= Len(program)
At(p, op)   == Running(p) /\ program[ip[p]].op = op

Init ==
    /\ program \in Programs
    /\ tape \in Tapes
    /\ pc = [p \in Party |-> "reseed"]
    /\ ip = [p \in Party |-> 1]
    /\ gate = [p \in Party |-> 1]
    /\ prng = [p \in Party |-> [i \in 0 .. 3 |-> [seed |-> Unseeded, pos |-> 0]]]
    /\ \E in \in Inputs :
          S = [p \in Party |->
                 [r \in Reg |-> DealtBy(0, in[r].v, in[r].alpha, in[r].beta)[p]]]
    /\ os = [p \in Party |-> [i \in 0 .. 2 |-> <<>>]]
    /\ add_shares = [p \in Party |-> <<>>]
    /\ add_shares_2 = [p \in Party |-> <<>>]
    /\ and_operands = [p \in Party |-> <<>>]
    /\ chan = [p \in Party |-> [q \in Party |-> <<>>]]
    /\ log = [p \in Party |-> <<S[p]>>]
    /\ marks = [p \in Party |-> <<>>]

(***************************************************************************)
(* The constructor MultiReplicatedBase(Player&): seed the own generators,  *)
(* send seed 0 back and seed 1 on, take shared_prngs[2] from the next and  *)
(* shared_prngs[3] from the previous party.                                *)
(***************************************************************************)
Seeded(s) == [seed |-> s, pos |-> 0]

(* Fault: the two seeds go out in the wrong directions. *)
CrossedReseed(p) ==
    /\ pc[p] = "reseed"
    /\ prng' = [prng EXCEPT ![p][0] = Seeded(<<p, 0>>), ![p][1] = Seeded(<<p, 1>>)]
    /\ chan' = [chan EXCEPT ![p][Before(p)] = Append(@, SeedMessage(<<p, 1>>)),
                            ![p][After(p)]  = Append(@, SeedMessage(<<p, 0>>))]
    /\ pc' = [pc EXCEPT ![p] = "seed_next"]
    /\ UNCHANGED <<program, tape, ip, gate, S, os, kept, log, marks>>

Reseed(p) ==
    /\ pc[p] = "reseed"
    /\ prng' = [prng EXCEPT ![p][0] = Seeded(<<p, 0>>), ![p][1] = Seeded(<<p, 1>>)]
    /\ chan' = [chan EXCEPT ![p][Before(p)] = Append(@, SeedMessage(<<p, 0>>)),
                            ![p][After(p)]  = Append(@, SeedMessage(<<p, 1>>))]
    /\ pc' = [pc EXCEPT ![p] = "seed_next"]
    /\ UNCHANGED <<program, tape, ip, gate, S, os, kept, log, marks>>

ReceiveSeed(p, from, slot, at, next) ==
    /\ pc[p] = at
    /\ chan[from][p] # <<>>
    /\ prng' = [prng EXCEPT ![p][slot] = Seeded(Head(chan[from][p]).seed)]
    /\ chan' = [chan EXCEPT ![from][p] = Tail(@)]
    /\ pc' = [pc EXCEPT ![p] = next]
    /\ UNCHANGED <<program, tape, ip, gate, S, os, kept, log, marks>>

ReceiveSeedNext(p) == ReceiveSeed(p, After(p), 2, "seed_next", "seed_prev")
ReceiveSeedPrev(p) == ReceiveSeed(p, Before(p), 3, "seed_prev", "idle")

(* init_mul: forget whatever the last batch left behind. *)
InitMul(p) ==
    /\ pc[p] = "idle"
    /\ At(p, "ands")
    /\ os' = [os EXCEPT ![p] = [i \in 0 .. 2 |-> <<>>]]
    /\ add_shares' = [add_shares EXCEPT ![p] = <<>>]
    /\ add_shares_2' = [add_shares_2 EXCEPT ![p] = <<>>]
    /\ and_operands' = [and_operands EXCEPT ![p] = <<>>]
    /\ gate' = [gate EXCEPT ![p] = 1]
    /\ pc' = [pc EXCEPT ![p] = "prepare"]
    /\ UNCHANGED <<program, tape, ip, prng, S, chan, log, marks>>

(***************************************************************************)
(* prepare_mul for one gate.  The operands are copied masked to the lanes  *)
(* of the gate; randomize(prng, n) draws a whole word and masks it.        *)
(***************************************************************************)
Operands(p) ==
    [i \in 1 .. FanIn(p) |-> MaskShare(S[p][ThisGate(p).ops[i]], ThisGate(p).n)]

(* Fault: one lane too many survives the mask. *)
WideDrawn(p, i, j) ==
    {l \in 0 .. W : /\ l <= ThisGate(p).n
                    /\ RandomBit(tape, prng[p][i].seed, prng[p][i].pos + j, l)}

Drawn(p, i, j) ==
    {l \in Lane : /\ l < ThisGate(p).n
                  /\ RandomBit(tape, prng[p][i].seed, prng[p][i].pos + j, l)}

Draw(p) ==
    [i \in 0 .. 3 |-> [j \in 1 .. Draws(p, FanIn(p))[i] |-> Drawn(p, i, j)]]

Advanced(p) ==
    [i \in 0 .. 3 |-> [seed |-> prng[p][i].seed,
                       pos  |-> prng[p][i].pos + Draws(p, FanIn(p))[i]]]

Pack(ws, n) == [k \in 1 .. Len(ws) |-> Packed(ws[k], n)]

PrepareMul(p) ==
    /\ pc[p] = "prepare"
    /\ LET done == Prepared(p, Operands(p), Draw(p))
           n    == ThisGate(p).n
       IN  /\ os' = [os EXCEPT ![p][0] = @ \o Pack(done.os0, n),
                               ![p][1] = @ \o Pack(done.os1, n)]
           /\ add_shares' = [add_shares EXCEPT ![p] = @ \o done.add]
           /\ add_shares_2' = [add_shares_2 EXCEPT ![p] = @ \o done.add2]
    /\ and_operands' = [and_operands EXCEPT ![p] = Append(@, Operands(p))]
    /\ prng' = [prng EXCEPT ![p] = Advanced(p)]
    /\ marks' = [marks EXCEPT ![p] =
                   Append(@, [ip   |-> ip[p],
                              gate |-> gate[p],
                              pos  |-> [i \in 0 .. 3 |-> prng[p][i].pos]])]
    /\ IF gate[p] < Len(Gates(p))
       THEN gate' = [gate EXCEPT ![p] = @ + 1] /\ UNCHANGED pc
       ELSE gate' = [gate EXCEPT ![p] = 1] /\ pc' = [pc EXCEPT ![p] = "send"]
    /\ UNCHANGED <<program, tape, ip, S, chan, log>>

(***************************************************************************)
(* exchange: party 0 sends to party 1 and party 1 to party 0, party 2      *)
(* sends to both and receives nothing.  A receive blocks and replaces the  *)
(* contents of the stream it fills.                                        *)
(***************************************************************************)
Send(p) ==
    /\ pc[p] = "send"
    /\ chan' =
         IF p = 0      THEN [chan EXCEPT ![0][1] = Append(@, WordMessage(os[0][0]))]
         ELSE IF p = 1 THEN [chan EXCEPT ![1][0] = Append(@, WordMessage(os[1][0]))]
         ELSE [chan EXCEPT ![2][0] = Append(@, WordMessage(os[2][0])),
                           ![2][1] = Append(@, WordMessage(os[2][1]))]
    /\ pc' = [pc EXCEPT ![p] = IF p = 2 THEN "finalize" ELSE "receive_first"]
    /\ UNCHANGED <<program, tape, ip, gate, prng, S, os, kept, log, marks>>

Receive(p, from, i, at, next) ==
    /\ pc[p] = at
    /\ chan[from][p] # <<>>
    /\ os' = [os EXCEPT ![p][i] = Head(chan[from][p]).words]
    /\ chan' = [chan EXCEPT ![from][p] = Tail(@)]
    /\ pc' = [pc EXCEPT ![p] = next]
    /\ UNCHANGED <<program, tape, ip, gate, prng, S, kept, log, marks>>

(* Fault: a party receives from its next party and does not wait for the   *)
(* previous one.                                                           *)
HastyReceiveFirst(p) ==
    Receive(p, IF p = 0 THEN After(p) ELSE Before(p), 1, "receive_first",
            IF p = 0 THEN "finalize" ELSE "receive_second")

(* Both receive from the previous party first: party 0 from party 2 into   *)
(* os[2], party 1 from party 0 into os[1].                                 *)
ReceiveFirst(p) ==
    Receive(p, Before(p), IF p = 0 THEN 2 ELSE 1, "receive_first", "receive_second")

ReceiveSecond(p) ==
    Receive(p, After(p), IF p = 0 THEN 1 ELSE 2, "receive_second", "finalize")

(***************************************************************************)
(* finalize_mul for one gate, its result masked and stored by and_.  The   *)
(* streams and pointer vectors are read from the front.                    *)
(***************************************************************************)
FirstOf(s, k) == SubSeq(s, 1, k)
Rest(s, k)    == SubSeq(s, k + 1, Len(s))

(* The words the gate is about to take are there. *)
Supplied(p) ==
    LET t == Taken(p, Len(Head(and_operands[p])))
    IN  /\ t.os1 <= Len(os[p][1])
        /\ t.os2 <= Len(os[p][2])
        /\ t.add <= Len(add_shares[p])
        /\ t.add2 <= Len(add_shares_2[p])

Result(p) ==
    LET x == Head(and_operands[p])
        t == Taken(p, Len(x))
    IN  Finalized(p, x, FirstOf(os[p][1], t.os1), FirstOf(os[p][2], t.os2),
                  FirstOf(add_shares[p], t.add), FirstOf(add_shares_2[p], t.add2))

FinalizeMul(p) ==
    /\ pc[p] = "finalize"
    /\ Supplied(p)
    /\ S' = [S EXCEPT ![p][ThisGate(p).out] = MaskShare(Result(p), ThisGate(p).n)]
    /\ LET t == Taken(p, Len(Head(and_operands[p])))
       IN  /\ os' = [os EXCEPT ![p][1] = Rest(@, t.os1),
                               ![p][2] = Rest(@, t.os2)]
           /\ add_shares' = [add_shares EXCEPT ![p] = Rest(@, t.add)]
           /\ add_shares_2' = [add_shares_2 EXCEPT ![p] = Rest(@, t.add2)]
    /\ and_operands' = [and_operands EXCEPT ![p] = Tail(@)]
    /\ IF gate[p] < Len(Gates(p))
       THEN /\ gate' = [gate EXCEPT ![p] = @ + 1]
            /\ UNCHANGED <<pc, ip, log>>
       ELSE /\ gate' = [gate EXCEPT ![p] = 1]
            /\ ip' = [ip EXCEPT ![p] = @ + 1]
            /\ pc' = [pc EXCEPT ![p] = "idle"]
            /\ log' = [log EXCEPT ![p] = Append(@, S'[p])]
    /\ UNCHANGED <<program, tape, prng, chan, marks>>

(* The virtual machines have run the whole program. *)
Finished(p) == pc[p] = "idle" /\ ~Running(p)

Terminated ==
    /\ \A p \in Party : Finished(p)
    /\ UNCHANGED vars

Step(p) ==
    \/ Reseed(p)
    \/ ReceiveSeedNext(p)
    \/ ReceiveSeedPrev(p)
    \/ InitMul(p)
    \/ PrepareMul(p)
    \/ Send(p)
    \/ ReceiveFirst(p)
    \/ ReceiveSecond(p)
    \/ FinalizeMul(p)

Next == (\E p \in Party : Step(p)) \/ Terminated

Spec == Init /\ [][Next]_vars

-----------------------------------------------------------------------------
(* Every variable ranges over what the code can put there. *)
Message == [kind : {"seed"}, seed : Seed, words : {<<>>}]
           \cup [kind : {"words"}, seed : {Unseeded}, words : Seq(Vec)]

Mark == [ip : Nat \ {0}, gate : Nat \ {0}, pos : [0 .. 3 -> Nat]]

Location == {"reseed", "seed_next", "seed_prev", "idle", "prepare", "send",
             "receive_first", "receive_second", "finalize",
             \* within the other instructions, see GCProcessor
             "open", "input_seed_next", "input_seed_prev", "input_send",
             "input_next", "input_prev", "input_store"}

TypeOK ==
    /\ program \in Programs
    /\ tape \in Tapes
    /\ pc \in [Party -> Location]
    /\ ip \in [Party -> Nat \ {0}]
    /\ gate \in [Party -> Nat \ {0}]
    /\ prng \in [Party -> [0 .. 3 -> [seed : Seed \cup {Unseeded}, pos : Nat]]]
    /\ S \in [Party -> [Reg -> Share]]
    /\ os \in [Party -> [0 .. 2 -> Seq(Vec)]]
    /\ add_shares \in [Party -> Seq(Vec)]
    /\ add_shares_2 \in [Party -> Seq(Vec)]
    /\ and_operands \in [Party -> Seq(Seq(Share))]
    /\ chan \in [Party -> [Party -> Seq(Message)]]
    /\ log \in [Party -> Seq([Reg -> Share])]
    /\ marks \in [Party -> Seq(Mark)]

(***************************************************************************)
(* The seed exchange wires the generators as the AND formulas need them:   *)
(* once a party has left the constructor, shared_prngs[2] is the generator *)
(* 0 of its next and shared_prngs[3] the generator 1 of its previous party.*)
(***************************************************************************)
SeedsPaired ==
    \A p \in Party :
        pc[p] \notin {"reseed", "seed_next", "seed_prev"} =>
            /\ prng[p][0].seed = <<p, 0>> /\ prng[p][2].seed = <<After(p), 0>>
            /\ prng[p][1].seed = <<p, 1>> /\ prng[p][3].seed = <<Before(p), 1>>

(***************************************************************************)
(* The two copies of a shared generator are drawn from alike: whenever two *)
(* parties have both prepared the m-th AND of the program, in whatever     *)
(* order and however far apart, it was the same AND and each generator     *)
(* that they share stood at the same word for both.  An AND whose masks    *)
(* differ between the parties reconstructs to noise without any error.     *)
(***************************************************************************)
Agree(p, i, q, j) ==
    \A m \in DOMAIN marks[p] \cap DOMAIN marks[q] :
        /\ marks[p][m].ip = marks[q][m].ip
        /\ marks[p][m].gate = marks[q][m].gate
        /\ marks[p][m].pos[i] = marks[q][m].pos[j]

PrngsPaired ==
    \A p \in Party : Agree(p, 0, Before(p), 2) /\ Agree(p, 1, After(p), 3)

(* Instructions that all three parties have finished. *)
Completed == CHOOSE k \in {Len(log[p]) - 1 : p \in Party} :
                 \A p \in Party : k <= Len(log[p]) - 1

(* The sharing of register r after k finished instructions. *)
SharingOf(r, k) == [p \in Party |-> log[p][k + 1][r]]

(***************************************************************************)
(* Whatever the three parties have all finished is a proper sharing: the   *)
(* masks at party 2 are the ones at parties 0 and 1 and both of those hide *)
(* the same word.  The value being right at one opening is not enough, the *)
(* next AND needs all of it.                                               *)
(***************************************************************************)
SharesConsistent ==
    \A k \in 0 .. Completed, r \in Reg : Consistent(SharingOf(r, k))

(***************************************************************************)
(* The engine computes the circuit: what the parties' shares open to moves *)
(* from instruction to instruction as the clear registers of IdealCircuit, *)
(* for every interleaving of the parties.                                  *)
(***************************************************************************)
Ideal == INSTANCE IdealCircuit
            WITH step  <- Completed,
                 value <- [r \in Reg |-> Opened(SharingOf(r, Completed))]

ComputesCircuit == Ideal!Spec

(***************************************************************************)
(* A batch consumes exactly the words it was sent and the words it kept:   *)
(* when a party leaves finalize_mul for the last gate, its receive streams *)
(* and pointer vectors are empty.  One word too few makes unpack throw, one*)
(* too many shifts every later result of a batch that mixes fan-ins.       *)
(***************************************************************************)
BatchConsumed ==
    \A p \in Party :
        pc[p] = "idle" =>
            /\ add_shares[p] = <<>> /\ add_shares_2[p] = <<>>
            /\ and_operands[p] = <<>>
            /\ os[p][2] = <<>>
            /\ p # 2 => os[p][1] = <<>>

(***************************************************************************)
(* exchange synchronises parties 0 and 1 only: neither gets more than one  *)
(* instruction ahead of the other, neither finishes an instruction before  *)
(* party 2 has sent its words for it, and party 2 waits for nobody.        *)
(***************************************************************************)
Lockstep ==
    /\ ip[0] <= ip[1] + 1 /\ ip[1] <= ip[0] + 1
    /\ \A p \in {0, 1} :
          /\ ip[p] <= ip[2] + 1
          /\ ip[p] > ip[2] \/ (ip[p] = ip[2] /\ pc[p] = "finalize")
                => pc[2] = "finalize"

(***************************************************************************)
(* Perfect privacy of an AND against a single party.  Lanes are used as    *)
(* samples: if the inputs and the tape give every combination of secrets,  *)
(* sharing masks and drawn words exactly one lane, then what a party sees  *)
(* (its shares, its draws, the words it receives) must occur equally often *)
(* with every value of the secrets.  Views do not depend on the schedule,  *)
(* so they are compared where all three parties are about to finalize.     *)
(***************************************************************************)
Used ==
    UNION {LET ops == program[1].gates[i].ops IN {ops[j] : j \in DOMAIN ops} :
           i \in DOMAIN program[1].gates}

OwnDraws(p) == UNION {{<<p, i>>} \X (1 .. prng[p][i].pos) : i \in {0, 1}}

(* What chance decides in a lane; 2 ^ 31 and more are too large for TLC. *)
Chance(l) ==
    << [p \in Party |-> {rc \in Used \X {0, 1} : l \in SharingOf(rc[1], 0)[p][rc[2]]}],
       {d \in UNION {OwnDraws(p) : p \in Party} : RandomBit(tape, d[1], d[2], l)} >>

Sampled ==
    LET bits == 3 * Cardinality(Used) + Cardinality(UNION {OwnDraws(p) : p \in Party})
    IN  bits < 31 /\ W = 2 ^ bits /\ Cardinality({Chance(l) : l \in Lane}) = W

View(p, l) ==
    << {rc \in Used \X {0, 1} : l \in SharingOf(rc[1], 0)[p][rc[2]]},
       {ij \in UNION {{i} \X (1 .. prng[p][i].pos) : i \in 0 .. 3} :
            RandomBit(tape, prng[p][ij[1]].seed, ij[2], l)},
       {ik \in UNION {{i} \X DOMAIN os[p][i] : i \in 0 .. 2} :
            l \in os[p][ik[1]][ik[2]]} >>

Secrets(l) == {r \in Used : l \in Opened(SharingOf(r, 0))}

PrivateAgainst(p) ==
    LET view   == [l \in Lane |-> View(p, l)]
        secret == [l \in Lane |-> Secrets(l)]
    IN  \A u \in {view[l] : l \in Lane} :
            LET seen == {l \in Lane : view[l] = u}
                count(s) == Cardinality({l \in seen : secret[l] = s})
            IN  \A s, t \in {secret[l] : l \in Lane} : count(s) = count(t)

AndIsPrivate ==
    (\A p \in Party : pc[p] = "finalize" /\ ip[p] = 1 /\ gate[p] = 1) /\ Sampled
        => \A p \in Party : PrivateAgainst(p)

(***************************************************************************)
(* The claim of the circuit library that lanes are independent runs of the *)
(* same circuit ("Circuits can also be executed in parallel",              *)
(* Compiler/circuit.py): two lanes that start with the same bits in every  *)
(* register hold the same bits after every instruction on whole words.     *)
(***************************************************************************)
SameBits(k, l, m) ==
    \A r \in Reg : l \in Opened(SharingOf(r, k)) <=> m \in Opened(SharingOf(r, k))

ExecutesInParallel ==
    \A k \in 0 .. Completed, l, m \in Lane : SameBits(0, l, m) => SameBits(k, l, m)
=============================================================================
