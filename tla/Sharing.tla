------------------------------ MODULE Sharing -------------------------------
(***************************************************************************)
(* The three-party sharing of Protocols/MultiReplicated: a share is a      *)
(* FixedVec<BitVec, 2>, and a secret v with masks alpha and beta is held as*)
(*     party 0: (v + alpha, beta)                                          *)
(*     party 1: (v + beta, alpha)                                          *)
(*     party 2: (alpha, beta)                                              *)
(* which is the layout MultiReplicatedInput deals when party 0 is the      *)
(* dealer and the one every formula of MultiReplicated relies on.          *)
(***************************************************************************)
EXTENDS BitVec

Party == 0 .. 2
After(p)  == (p + 1) % 3        \* Player::get_player(1)
Before(p) == (p + 2) % 3        \* Player::get_player(-1)

Share     == [{0, 1} -> Vec]
Sh(a, b)  == [c \in {0, 1} |-> IF c = 0 THEN a ELSE b]
Sharings  == [Party -> Share]

(* A share with every component restricted to n lanes, FixedVec::mask. *)
MaskShare(s, n) == [c \in {0, 1} |-> Mask(s[c], n)]

(***************************************************************************)
(* The shares MultiReplicatedInput<T>::add_mine makes of v: the dealer,    *)
(* then the next and the previous party.                                   *)
(***************************************************************************)
DealtBy(dealer, v, alpha, beta) ==
    [p \in Party |-> IF p = dealer       THEN Sh(v (+) alpha, beta)
                     ELSE IF p = After(dealer) THEN Sh(v (+) beta, alpha)
                     ELSE Sh(alpha, beta)]

(* The items of an INPUTB that party p deals, in their order, and which of *)
(* its dealer's items the j-th item is.                                    *)
From(items, p) == {j \in DOMAIN items : items[j].from = p}
Nth(items, j)  == Cardinality({h \in From(items, items[j].from) : h <= j})

ItemsFrom(items, p) ==
    [i \in 1 .. Cardinality(From(items, p)) |->
        items[CHOOSE j \in From(items, p) : Nth(items, j) = i]]

(* Fault: every party adds to its first component. *)
FaultyOpenFrom(p, own, received) == own[0] (+) received

(***************************************************************************)
(* What party p computes from its own share and the component that the     *)
(* previous party sent it, MultiReplicatedMC<T>::finalize.                 *)
(***************************************************************************)
OpenFrom(p, own, received) ==
    IF p = 0 THEN own[0] (+) received ELSE own[1] (+) received

OpenAt(sh, p) == OpenFrom(p, sh[p], sh[Before(p)][0])

(* The secret a sharing stands for, as party 0 opens it. *)
Opened(sh) == OpenAt(sh, 0)

(***************************************************************************)
(* The three shares belong together: party 2 holds the two masks, parties  *)
(* 0 and 1 hold one each, and both hide the same value.                    *)
(***************************************************************************)
Consistent(sh) ==
    /\ sh[0][1] = sh[2][1]
    /\ sh[1][1] = sh[2][0]
    /\ sh[0][0] (+) sh[2][0] = sh[1][0] (+) sh[2][1]
=============================================================================
