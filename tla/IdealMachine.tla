---------------------------- MODULE IdealMachine ----------------------------
(***************************************************************************)
(* What a compiled program promises: a straight-line program over clear    *)
(* copies of the secret registers, one instruction at a time, with the     *)
(* meaning that the compiler and its documentation give the instructions.  *)
(* ANDS is the one of IdealCircuit; the other instructions are here.       *)
(***************************************************************************)
EXTENDS IdealCircuit, Sharing

CONSTANT CReg           \* clear registers

VARIABLES input,        \* the private inputs of each party
          clear         \* contents of the clear registers

machineVars == <<idealVars, input, clear>>

Shift(x, i) == {l \in Lane : l - i \in x}
Bit(x, i)   == IF i \in x THEN {0} ELSE {}

(* Column i of the matrix whose rows are these registers. *)
Column(ins, i, val) == {r - 1 : r \in {k \in DOMAIN ins : i - 1 \in val[ins[k]]}}

(* The value an item of instruction k takes: the next input of its party.  *)
InputsIn(instruction, p) ==
    IF instruction.op = "inputb" THEN Len(ItemsFrom(instruction.items, p)) ELSE 0

InputsBefore(k, p) == Loop(LAMBDA n, j : n + InputsIn(program[j], p), 0, k - 1)

InputValue(k, i) ==
    LET items == program[k].items
        from  == items[i].from
    IN  Mask(input[from][InputsBefore(k, from) + Nth(items, i)], items[i].n)

XorClear(v, g) == [v EXCEPT ![g.out] = v[g.ops[1]] (+) v[g.ops[2]]]

(* The secret registers after instruction k; bit is the outcome of BITB. *)
SecretsAfter(k, val, cl, bit) ==
    LET ins == program[k]
    IN  CASE ins.op = "ands"    -> Eval(ins, val)
          [] ins.op = "xors"    -> Loop(LAMBDA v, i : XorClear(v, ins.gates[i]),
                                      val, Len(ins.gates))
          [] ins.op = "nots"    -> [val EXCEPT ![ins.out] = Mask(Lane \ val[ins.in], ins.n)]
          [] ins.op = "ldbits"  -> [val EXCEPT ![ins.out] = ins.value]
          [] ins.op = "andm"    -> [val EXCEPT ![ins.out] = val[ins.in] \cap cl[ins.clear]]
          [] ins.op = "movsb"   -> [val EXCEPT ![ins.out] = val[ins.in]]
          [] ins.op = "bitdecs" -> Loop(LAMBDA v, i :
                                     [v EXCEPT ![ins.outs[i]] = Bit(v[ins.in], i - 1)],
                                     val, Len(ins.outs))
          [] ins.op = "bitcoms" -> Loop(LAMBDA v, i :
                                     [v EXCEPT ![ins.out] = @ (+) Shift(v[ins.ins[i]], i - 1)],
                                     [val EXCEPT ![ins.out] = {}], Len(ins.ins))
          [] ins.op = "trans"   -> Loop(LAMBDA v, i :
                                     [v EXCEPT ![ins.outs[i]] = Column(ins.ins, i, val)],
                                     val, Len(ins.outs))
          [] ins.op = "bitb"    -> [val EXCEPT ![ins.out] = bit]
          [] ins.op = "inputb"  -> Loop(LAMBDA v, i :
                                     [v EXCEPT ![ins.items[i].out] = InputValue(k, i)],
                                     val, Len(ins.items))
          [] ins.op = "reveal"  -> val

(* The clear registers after instruction k. *)
ClearAfter(k, val, cl) ==
    LET items == program[k].items
    IN  IF program[k].op # "reveal" THEN cl
        ELSE Loop(LAMBDA c, i : [c EXCEPT ![items[i].out] = Mask(val[items[i].in], items[i].n)],
                  cl, Len(items))

MachineInit ==
    /\ Init
    /\ input \in [Party -> Seq(Vec)]
    /\ clear = [c \in CReg |-> {}]

ExecuteAny ==
    /\ step < Len(program)
    /\ step' = step + 1
    /\ \E bit \in {{}, {0}} : value' = SecretsAfter(step + 1, value, clear, bit)
    /\ clear' = ClearAfter(step + 1, value, clear)
    /\ UNCHANGED <<program, input>>

MachineSpec == MachineInit /\ [][ExecuteAny]_machineVars
=============================================================================
