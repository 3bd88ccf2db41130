----------------------------- MODULE MCPlayers ------------------------------
(***************************************************************************)
(* Instances of Players.                                                   *)
(***************************************************************************)
EXTENDS Players

Run(n, threads, ot, encrypted, rounds, late, failures) ==
    [n |-> n, threads |-> threads, ot |-> ot, encrypted |-> encrypted,
     rounds |-> rounds, late |-> late, failures |-> failures]

(* Threads with late ids, a set-up for OT, three parties; with one failure *)
(* two parties, encrypted or not, and three parties.                       *)
RunScenarios ==
    {Run(2, 2, FALSE, TRUE, 1, TRUE, 0),
     Run(2, 1, TRUE, TRUE, 0, TRUE, 0),
     Run(2, 1, FALSE, FALSE, 1, TRUE, 1),
     Run(2, 1, FALSE, TRUE, 2, TRUE, 1),
     Run(3, 1, FALSE, TRUE, 1, FALSE, 1)}

(* The set-up for OT and two threads. *)
OTScenario == {Run(2, 2, TRUE, TRUE, 1, TRUE, 0)}
=============================================================================
