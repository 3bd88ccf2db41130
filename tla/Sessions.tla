------------------------------ MODULE Sessions ------------------------------
(***************************************************************************)
(* The calls that the protocols of three parties make on their players, to *)
(* be run by Links: n is the length of the streams.                        *)
(***************************************************************************)
EXTENDS Links

(* Parties are numbered, and neighbours in a ring. *)
Next3(p) == (p + 1) % 3
Prev3(p) == (p + 2) % 3

SendTo(q, n)      == <<[op |-> "send", to |-> q, len |-> n]>>
ReceiveFrom(q)    == <<[op |-> "receive", from |-> q]>>
Exchange(q, r, n) == <<[op |-> "exchange", to |-> q, from |-> r, len |-> n,
                        in_place |-> FALSE]>>
Pass(q, r, n, ip) == <<[op |-> "pass", to |-> q, from |-> r, len |-> n, in_place |-> ip]>>

(* The constructors of MultiReplicatedBase and, in RepPrep, ReplicatedBase. *)
Seeds(p, n) ==
    SendTo(Prev3(p), n) \o SendTo(Next3(p), n)
        \o ReceiveFrom(Next3(p)) \o ReceiveFrom(Prev3(p))

PrepSeed(p, n) == SendTo(Next3(p), n) \o ReceiveFrom(Prev3(p))

(* MultiReplicated::exchange, for one batch of ANDs. *)
AndBatch(p, n) ==
    IF p = 0      THEN SendTo(1, n) \o ReceiveFrom(2) \o ReceiveFrom(1)
    ELSE IF p = 1 THEN SendTo(0, n) \o ReceiveFrom(0) \o ReceiveFrom(2)
    ELSE SendTo(0, n) \o SendTo(1, n)

(* MultiReplicatedMC::POpen. *)
Opening(p, n) == Pass(Next3(p), Prev3(p), n, FALSE)

(* MultiReplicatedInput::exchange with these dealers. *)
Inputs(p, dealers, n) ==
    (IF p \in dealers THEN SendTo(Next3(p), n) \o SendTo(Prev3(p), n) ELSE <<>>)
        \o (IF Next3(p) \in dealers THEN ReceiveFrom(Next3(p)) ELSE <<>>)
        \o (IF Prev3(p) \in dealers THEN ReceiveFrom(Prev3(p)) ELSE <<>>)

(* Broadcast_Receive, by which the main threads synchronize. *)
Broadcast(p, n) == Exchange(Next3(p), Prev3(p), n) \o Exchange(Prev3(p), Next3(p), n)
=============================================================================
