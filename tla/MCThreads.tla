----------------------------- MODULE MCThreads ------------------------------
(***************************************************************************)
(* Instances of Threads: main tapes as Compiler/library.py makes them,     *)
(* which hand out threads, join them, hand them out again, and may end     *)
(* without joining a thread.                                               *)
(***************************************************************************)
EXTENDS Threads

RunOf(t, tape) == [op |-> "run", thread |-> t, tape |-> tape]
JoinOf(t)      == [op |-> "join", thread |-> t, tape |-> 1]

MainTapes ==
    {<<RunOf(1, 1), RunOf(2, 1), RunOf(3, 2), JoinOf(1), JoinOf(2), JoinOf(3),
       RunOf(1, 3), RunOf(2, 4), JoinOf(1), JoinOf(2)>>,
     <<RunOf(1, 1), RunOf(2, 2), JoinOf(1), RunOf(1, 3), RunOf(3, 1)>>}

ShortTapes == {<<RunOf(1, 1), JoinOf(1)>>}
=============================================================================
