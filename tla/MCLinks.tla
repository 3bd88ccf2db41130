------------------------------ MODULE MCLinks -------------------------------
(***************************************************************************)
(* Instances of Links: what three parties do, with streams that are        *)
(* smaller and larger than the buffers, on plain and on TLS connections.   *)
(***************************************************************************)
EXTENDS Sessions

Plain(calls) == [calls |-> calls, encrypted |-> {}]
Tls(calls)   == [calls |-> calls, encrypted |-> Node]

All(f(_)) == [p \in Node |-> f(p)]

(* The two parties 0 and 1 alone. *)
Pair(n0, n1) == [p \in Node |-> IF p = 0 THEN Pass(1, 1, n0, FALSE)
                                ELSE IF p = 1 THEN Pass(0, 0, n1, FALSE) ELSE <<>>]

InPlacePass(sizes) == [p \in Node |-> Pass(Next3(p), Prev3(p), sizes[p + 1], TRUE)]

ProtocolScripts ==
    {Plain(All(LAMBDA p : Seeds(p, 1) \o PrepSeed(p, 1) \o AndBatch(p, 2))),
     Plain(All(LAMBDA p : Opening(p, 3))),
     Tls(All(LAMBDA p : AndBatch(p, 2) \o Opening(p, 3))),
     Tls(All(LAMBDA p : Opening(p, 4) \o Opening(p, 1))),
     Plain(All(LAMBDA p : AndBatch(p, 4))),
     Tls(All(LAMBDA p : AndBatch(p, 4))),
     Tls(All(LAMBDA p : Inputs(p, {0, 1}, 2) \o Opening(p, p))),
     Plain(All(LAMBDA p : Inputs(p, {0, 1, 2}, 1))),
     Plain(All(LAMBDA p : Inputs(p, {0, 1, 2}, 3))),
     Plain(All(LAMBDA p : Broadcast(p, 0))),
     Tls(All(LAMBDA p : Broadcast(p, p + 1))),
     Plain(InPlacePass(<<3, 0, 3>>)),
     Tls(InPlacePass(<<4, 2, 3>>)),
     Tls(Pair(4, 1)),
     Plain(Pair(4, 2))}
=============================================================================
