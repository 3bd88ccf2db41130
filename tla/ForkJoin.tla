------------------------------ MODULE ForkJoin ------------------------------
(***************************************************************************)
(* What a compiled program may expect of run_tape and join_tape: tapes     *)
(* given to a thread are executed one after the other in that order, and   *)
(* joining a thread is only possible when it has nothing left to execute.  *)
(***************************************************************************)
EXTENDS Naturals, Sequences

CONSTANTS Thread,       \* the threads that the main tape gives tapes to
          Schedules     \* main tapes

VARIABLES program,      \* the calls that the main tape makes
          calls,        \* how many of them have returned
          pending       \* tapes each thread has been given and not finished

forkJoinVars == <<program, calls, pending>>

Init ==
    /\ program \in Schedules
    /\ calls = 0
    /\ pending = [t \in Thread |-> <<>>]

Fork ==
    /\ calls < Len(program)
    /\ LET call == program[calls + 1]
       IN  /\ call.op = "run"
           /\ pending' = [pending EXCEPT ![call.thread] = Append(@, call.tape)]
    /\ calls' = calls + 1
    /\ UNCHANGED program

Join ==
    /\ calls < Len(program)
    /\ program[calls + 1].op = "join"
    /\ pending[program[calls + 1].thread] = <<>>
    /\ calls' = calls + 1
    /\ UNCHANGED <<program, pending>>

Finish(t) ==
    /\ pending[t] # <<>>
    /\ pending' = [pending EXCEPT ![t] = Tail(@)]
    /\ UNCHANGED <<program, calls>>

Next == Fork \/ Join \/ \E t \in Thread : Finish(t)

Spec == Init /\ [][Next]_forkJoinVars
=============================================================================
