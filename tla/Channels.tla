------------------------------ MODULE Channels ------------------------------
(***************************************************************************)
(* What the protocols take connections to be: from each player to each     *)
(* other one a queue of whole streams, unbounded, without loss, that is    *)
(* put to and taken from in one step.  MultiReplicated and GCProcessor     *)
(* communicate over such queues.                                           *)
(***************************************************************************)
EXTENDS Sequences

CONSTANTS Link,         \* pairs of players
          Stream        \* the streams that may be sent

VARIABLES chan,         \* the streams on their way
          got           \* the streams that have been taken, in order

channelVars == <<chan, got>>

Init ==
    /\ chan = [l \in Link |-> <<>>]
    /\ got = [l \in Link |-> <<>>]

Put(l) ==
    /\ \E s \in Stream : chan' = [chan EXCEPT ![l] = Append(@, s)]
    /\ UNCHANGED got

Take(l) ==
    /\ chan[l] # <<>>
    /\ got' = [got EXCEPT ![l] = Append(@, Head(chan[l]))]
    /\ chan' = [chan EXCEPT ![l] = Tail(@)]

Next == \E l \in Link : Put(l) \/ Take(l)

Spec == Init /\ [][Next]_channelVars
=============================================================================
