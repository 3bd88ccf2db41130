---------------------------- MODULE IdealCircuit ----------------------------
(***************************************************************************)
(* What the AND engine promises: a program is a sequence of ANDS           *)
(* instructions over clear registers, each executed in one step.  The      *)
(* gates of one instruction read their operands before any of them writes  *)
(* its output, as ShareThread<T>::and_ does (it copies every operand in    *)
(* its first loop and stores every result in its second).                  *)
(***************************************************************************)
EXTENDS BitVec, Sequences

CONSTANTS Reg, Programs

VARIABLES program,  \* the sequence of instructions
          step,     \* instructions executed
          value     \* clear contents of the registers

idealVars == <<program, step, value>>

(* The last gate of an instruction to write register r, 0 if there is none. *)
WriterOf(gates, r) ==
    LET writers == {g \in 1 .. Len(gates) : gates[g].out = r}
    IN  IF writers = {} THEN 0
        ELSE CHOOSE g \in writers : \A h \in writers : h <= g

And(gate, val) ==
    {l \in Lane : l < gate.n /\ \A i \in 1 .. Len(gate.ops) : l \in val[gate.ops[i]]}

Eval(instruction, val) ==
    [r \in Reg |-> LET w == WriterOf(instruction.gates, r)
                   IN  IF w = 0 THEN val[r] ELSE And(instruction.gates[w], val)]

Init ==
    /\ program \in Programs
    /\ step = 0
    /\ value \in [Reg -> Vec]

Execute ==
    /\ step < Len(program)
    /\ step' = step + 1
    /\ value' = Eval(program[step + 1], value)
    /\ UNCHANGED program

Spec == Init /\ [][Execute]_idealVars
=============================================================================
