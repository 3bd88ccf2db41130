--------------------------- MODULE Batches_proofs ---------------------------
(***************************************************************************)
(* What parties do that do not wait for each other, for programs of any    *)
(* length: the generators that they share are drawn from in step, and the  *)
(* words in their streams are those of the ANDs that are open.             *)
(***************************************************************************)
EXTENDS MultiReplicated_proofs

-----------------------------------------------------------------------------
(***************************************************************************)
(* PrngsPaired for programs of any length: the parties that share a        *)
(* generator draw from it in step, though no message tells them how far    *)
(* the other one is.                                                       *)
(*                                                                         *)
(* The marks of a party and the AND that it is to prepare next, with the   *)
(* positions its generators are at, form its track.  A track begins at the *)
(* first AND with generators at the start, and each entry determines the   *)
(* next one: that is what makes two tracks comparable, however far apart   *)
(* their parties are.                                                      *)
(***************************************************************************)

Seeding == {"reseed", "seed_next", "seed_prev"}
Sent    == {"send", "receive_first", "receive_second", "finalize"}

(* The batch that comes at or after instruction k; a program may hold other *)
(* instructions between its batches, see GCProcessor.                      *)
NoAnds(prog, k, j) == \A i \in k .. j : prog[i].op # "ands"

Coming(prog, k) ==
    CHOOSE j : \/ j \in k .. Len(prog) /\ prog[j].op = "ands" /\ NoAnds(prog, k, j - 1)
               \/ j = Len(prog) + 1 /\ NoAnds(prog, k, Len(prog))

Position(p) ==
    [ip   |-> Coming(program, IF pc[p] \in Sent THEN ip[p] + 1 ELSE ip[p]),
     gate |-> IF pc[p] \in Sent THEN 1 ELSE gate[p],
     pos  |-> [i \in 0 .. 3 |-> prng[p][i].pos]]

Track(p, m) == IF m <= Len(marks[p]) THEN marks[p][m] ELSE Position(p)

Origin(prog) == [ip |-> Coming(prog, 1), gate |-> 1, pos |-> [i \in 0 .. 3 |-> 0]]

(* After this AND of the program comes that one. *)
Following(prog, p, a, b) ==
    LET gates == prog[a.ip].gates
    IN  /\ b.ip = (IF a.gate < Len(gates) THEN a.ip ELSE Coming(prog, a.ip + 1))
        /\ b.gate = (IF a.gate < Len(gates) THEN a.gate + 1 ELSE 1)
        /\ \A i \in 0 .. 3 : b.pos[i] = a.pos[i] + Draws(p, Len(gates[a.gate].ops))[i]

OnTrack(p) ==
    /\ pc[p] \in Seeding => marks[p] = <<>>
    /\ Track(p, 1) = Origin(program)
    /\ \A m \in 1 .. Len(marks[p]) : Following(program, p, Track(p, m), Track(p, m + 1))

Alike(a, i, b, j) == a.ip = b.ip /\ a.gate = b.gate /\ a.pos[i] = b.pos[j]

Parallel(p, i, q, j) ==
    \A m \in 1 .. Len(marks[p]) + 1 :
        m <= Len(marks[q]) + 1 => Alike(Track(p, m), i, Track(q, m), j)

Tracks ==
    \A p \in Party :
        /\ OnTrack(p)
        /\ Parallel(p, 0, Before(p), 2)
        /\ Parallel(p, 1, After(p), 3)

-----------------------------------------------------------------------------
(* The batch that comes is the one that is here, or the one that comes after*)
(* what is here.                                                           *)
LEMMA ComingHere ==
    ASSUME NEW prog, Len(prog) \in Nat, NEW k \in 1 .. Len(prog)
    PROVE  /\ prog[k].op = "ands" => Coming(prog, k) = k
           /\ prog[k].op # "ands" => Coming(prog, k) = Coming(prog, k + 1)
<1> DEFINE P(h, j) == \/ j \in h .. Len(prog) /\ prog[j].op = "ands" /\ NoAnds(prog, h, j - 1)
                      \/ j = Len(prog) + 1 /\ NoAnds(prog, h, Len(prog))
<1>1. ASSUME prog[k].op = "ands" PROVE Coming(prog, k) = k
  <2>1. NoAnds(prog, k, k - 1) /\ ~NoAnds(prog, k, Len(prog))
    BY <1>1 DEF NoAnds
  <2>2. P(k, k)
    BY <1>1, <2>1
  <2>3. \A j : P(k, j) => j = k
    <3> TAKE j
    <3>1. CASE j \in k .. Len(prog) /\ NoAnds(prog, k, j - 1)
      BY <1>1, <3>1 DEF NoAnds
    <3> QED
      BY <2>1, <3>1
  <2> HIDE DEF P
  <2>4. (CHOOSE j : P(k, j)) = k
    BY <2>2, <2>3
  <2> QED
    BY <2>4 DEF P, Coming
<1>2. ASSUME prog[k].op # "ands" PROVE Coming(prog, k) = Coming(prog, k + 1)
  <2>1. \A j \in Int : NoAnds(prog, k, j) <=> NoAnds(prog, k + 1, j)
    BY <1>2 DEF NoAnds
  <2>2. \A j : P(k, j) <=> P(k + 1, j)
    <3> TAKE j
    <3>1. CASE j \in k .. Len(prog)
      <4>1. j - 1 \in Int /\ j # Len(prog) + 1
        BY <3>1
      <4>2. NoAnds(prog, k, j - 1) <=> NoAnds(prog, k + 1, j - 1)
        BY <2>1, <4>1
      <4>3. prog[j].op = "ands" => j \in k + 1 .. Len(prog)
        BY <1>2, <3>1
      <4> QED
        BY <3>1, <4>1, <4>2, <4>3
    <3>2. CASE j \notin k .. Len(prog)
      <4>1. j \notin k + 1 .. Len(prog) /\ Len(prog) \in Int
        BY <3>2
      <4> QED
        BY <2>1, <3>2, <4>1
    <3> QED
      BY <3>1, <3>2
  <2> HIDE DEF P
  <2>3. (CHOOSE j : P(k, j)) = (CHOOSE j : P(k + 1, j))
    BY <2>2
  <2> QED
    BY <2>3 DEF P, Coming
<1> QED
  BY <1>1, <1>2

(* The types of what a track is made of.                                   *)
LEMMA MarksType ==
    ASSUME TypeOK, NEW p \in Party
    PROVE  /\ Len(marks[p]) \in Nat
           /\ marks[p] = <<>> => Len(marks[p]) = 0
           /\ \A i \in 0 .. 3 : prng[p][i].pos \in Nat
           /\ ip[p] \in Nat /\ gate[p] \in Nat
<1>1. marks[p] \in Seq(Mark) /\ ip[p] \in Nat \ {0} /\ gate[p] \in Nat \ {0}
  BY DEF TypeOK
<1>2. \A i \in 0 .. 3 : prng[p][i].pos \in Nat
  BY TypedParts
<1> QED
  BY <1>1, <1>2, LenProperties, EmptySeq

LEMMA TracksInit == Init => Tracks
<1> SUFFICES ASSUME Init PROVE Tracks
  OBVIOUS
<1>1. ASSUME NEW p \in Party
      PROVE  /\ marks[p] = <<>> /\ Len(marks[p]) = 0
             /\ Position(p) = Origin(program)
  <2>1. pc[p] = "reseed" /\ ip[p] = 1 /\ gate[p] = 1 /\ marks[p] = <<>>
    BY DEF Init
  <2>2. [i \in 0 .. 3 |-> prng[p][i].pos] = [i \in 0 .. 3 |-> 0]
    BY DEF Init
  <2>3. Position(p) = Origin(program)
    BY <2>1, <2>2 DEF Position, Sent, Origin
  <2> QED
    BY <2>1, <2>3, EmptySeq
<1>2. ASSUME NEW p \in Party PROVE OnTrack(p)
  BY <1>1 DEF OnTrack, Track
<1>3. ASSUME NEW p \in Party, NEW q \in Party, NEW i \in 0 .. 3, NEW j \in 0 .. 3
      PROVE  Parallel(p, i, q, j)
  <2>1. Alike(Origin(program), i, Origin(program), j)
    BY DEF Alike, Origin
  <2>2. \A m \in 1 .. 1 : Track(p, m) = Origin(program) /\ Track(q, m) = Origin(program)
    BY <1>1 DEF Track
  <2> QED
    BY <1>1, <2>1, <2>2 DEF Parallel
<1> QED
  BY <1>2, <1>3, PartyNeighbours DEF Tracks

-----------------------------------------------------------------------------
(* Steps that prepare no AND leave a track as it is.                       *)
LEMMA TrackKept ==
    ASSUME NEW p \in Party, OnTrack(p), program' = program, marks'[p] = marks[p],
           Position(p)' = Position(p), pc'[p] \in Seeding => pc[p] \in Seeding
    PROVE  /\ OnTrack(p)'
           /\ Len(marks'[p]) = Len(marks[p])
           /\ \A m : Track(p, m)' = Track(p, m)
<1>1. \A m : Track(p, m)' = Track(p, m)
  BY DEF Track
<1> HIDE DEF Track, Following
<1> QED
  BY <1>1 DEF OnTrack, Origin

(* PrepareMul adds to the track what it was at. *)
LEMMA TrackGrows ==
    ASSUME TypeOK, Control, NEW p \in Party, OnTrack(p), PrepareMul(p)
    PROVE  /\ OnTrack(p)'
           /\ Len(marks'[p]) = Len(marks[p]) + 1
           /\ \A m \in 1 .. Len(marks[p]) + 1 : Track(p, m)' = Track(p, m)
<1>1. /\ pc[p] = "prepare" /\ program' = program /\ ip'[p] = ip[p]
      /\ FanIn(p) \in Nat /\ Len(Gates(p)) \in Nat /\ gate[p] \in Nat
      /\ gate[p] <= Len(Gates(p)) /\ ip[p] \in Nat
      /\ program[ip[p]].op = "ands" /\ ip[p] \in 1 .. Len(program)
      /\ Len(program) \in Nat
  <2>1. pc[p] = "prepare" /\ program' = program /\ ip'[p] = ip[p]
    BY DEF PrepareMul
  <2>2. InBatch(p) /\ ip[p] \in Nat \ {0} /\ gate[p] \in Nat
    BY MarksType DEF Control, TypeOK
  <2>3. /\ FanIn(p) \in Nat /\ Len(Gates(p)) \in Nat /\ Len(program) \in Nat
    BY <2>1, GateFacts DEF Batch
  <2> QED
    BY <2>1, <2>2, <2>3 DEF Batch, InBatch
<1>2. Position(p) = [ip |-> ip[p], gate |-> gate[p],
                     pos |-> [i \in 0 .. 3 |-> prng[p][i].pos]]
  <2>1. Coming(program, ip[p]) = ip[p]
    BY <1>1, ComingHere
  <2>2. pc[p] \notin Sent
    BY <1>1 DEF Sent
  <2> QED
    BY <2>1, <2>2 DEF Position
<1>3. marks'[p] = Append(marks[p], Position(p))
  <2>1. marks' = [marks EXCEPT ![p] =
                   Append(@, [ip   |-> ip[p],
                              gate |-> gate[p],
                              pos  |-> [i \in 0 .. 3 |-> prng[p][i].pos]])]
    BY DEF PrepareMul
  <2>2. marks \in [Party -> Seq(Mark)]
    BY DEF TypeOK
  <2> QED
    BY <1>2, <2>1, <2>2
<1>4. Position(p) \in Mark
  <2>1. [i \in 0 .. 3 |-> prng[p][i].pos] \in [0 .. 3 -> Nat]
    BY MarksType
  <2>2. ip[p] \in Nat \ {0} /\ gate[p] \in Nat \ {0}
    BY DEF TypeOK
  <2> QED
    BY <1>2, <2>1, <2>2 DEF Mark
<1>5. /\ Len(marks[p]) \in Nat
      /\ Len(marks'[p]) = Len(marks[p]) + 1
      /\ \A m \in 1 .. Len(marks[p]) : marks'[p][m] = marks[p][m]
      /\ marks'[p][Len(marks[p]) + 1] = Position(p)
  <2>1. marks[p] \in Seq(Mark)
    BY DEF TypeOK
  <2> HIDE DEF Position, Mark
  <2> QED
    BY <1>3, <1>4, <2>1, LenProperties, AppendProperties
<1>6. \A m \in 1 .. Len(marks[p]) + 1 : Track(p, m)' = Track(p, m)
  BY <1>5 DEF Track
<1>7. \A m : m = Len(marks[p]) + 2 => Track(p, m)' = Position(p)'
  BY <1>5 DEF Track
<1>8. Track(p, Len(marks[p]) + 1) = Position(p)
  BY <1>5 DEF Track
<1>9. Following(program, p, Position(p), Position(p)')
  <2>1. \A i \in 0 .. 3 : prng'[p][i].pos = prng[p][i].pos + Draws(p, FanIn(p))[i]
    <3>1. prng' = [prng EXCEPT ![p] = Advanced(p)]
      BY DEF PrepareMul
    <3>2. prng'[p] = Advanced(p)
      BY <3>1 DEF TypeOK
    <3> QED
      BY <3>2 DEF Advanced
  <2>2. \A i \in 0 .. 3 : Position(p)'.pos[i] = Position(p).pos[i] + Draws(p, FanIn(p))[i]
    BY <1>2, <2>1 DEF Position
  <2>3. Position(p).ip = ip[p] /\ Position(p).gate = gate[p]
    BY <1>2
  <2>4. /\ program[Position(p).ip].gates = Gates(p)
        /\ Len(Gates(p)[Position(p).gate].ops) = FanIn(p)
    BY <2>3 DEF Gates, FanIn, ThisGate
  <2>5. /\ Position(p)'.ip = (IF gate[p] < Len(Gates(p)) THEN ip[p]
                               ELSE Coming(program, ip[p] + 1))
        /\ Position(p)'.gate = (IF gate[p] < Len(Gates(p)) THEN gate[p] + 1 ELSE 1)
    <3>1. CASE gate[p] < Len(Gates(p))
      <4>1. pc'[p] = "prepare" /\ gate'[p] = gate[p] + 1
        BY <1>1, <3>1 DEF PrepareMul, TypeOK
      <4>2. Coming(program, ip[p]) = ip[p]
        BY <1>1, ComingHere
      <4> QED
        BY <1>1, <3>1, <4>1, <4>2 DEF Position, Sent
    <3>2. CASE ~(gate[p] < Len(Gates(p)))
      <4>1. pc'[p] = "send" /\ gate'[p] = 1
        BY <1>1, <3>2 DEF PrepareMul, TypeOK
      <4> QED
        BY <1>1, <3>2, <4>1 DEF Position, Sent
    <3> QED
      BY <3>1, <3>2
  <2> HIDE DEF Position
  <2> QED
    BY <2>2, <2>3, <2>4, <2>5 DEF Following
<1>10. program' = program
  BY <1>1
<1>11. ASSUME NEW m \in 1 .. Len(marks'[p])
       PROVE  Following(program, p, Track(p, m)', Track(p, m + 1)')
  <2>1. CASE m <= Len(marks[p])
    <3>1. m \in 1 .. Len(marks[p]) /\ m \in 1 .. Len(marks[p]) + 1
          /\ m + 1 \in 1 .. Len(marks[p]) + 1
      BY <1>5, <2>1
    <3>2. Track(p, m)' = Track(p, m) /\ Track(p, m + 1)' = Track(p, m + 1)
      BY <1>6, <3>1
    <3> QED
      BY <3>1, <3>2 DEF OnTrack
  <2>2. CASE m = Len(marks[p]) + 1
    <3>1. m \in 1 .. Len(marks[p]) + 1 /\ m + 1 = Len(marks[p]) + 2
      BY <1>5, <2>2
    <3>2. Track(p, m)' = Track(p, m)
      BY <1>6, <3>1
    <3>3. Track(p, m) = Position(p)
      BY <1>8, <2>2
    <3>4. Track(p, m + 1)' = Position(p)'
      BY <1>7, <3>1
    <3> QED
      BY <1>9, <3>2, <3>3, <3>4
  <2> QED
    BY <1>5, <2>1, <2>2
<1>12. Track(p, 1)' = Origin(program')
  <2>1. Track(p, 1)' = Track(p, 1)
    BY <1>5, <1>6
  <2>2. Track(p, 1) = Origin(program) /\ Origin(program') = Origin(program)
    BY <1>1 DEF OnTrack, Origin
  <2> HIDE DEF Track
  <2> QED
    BY <2>1, <2>2
<1>13. pc'[p] \notin Seeding
  BY <1>1 DEF PrepareMul, TypeOK, Seeding
<1> HIDE DEF Track, Following
<1>14. OnTrack(p)'
  BY <1>10, <1>11, <1>12, <1>13 DEF OnTrack, Origin
<1> QED
  BY <1>5, <1>6, <1>14

(* What the other steps leave of a party is where it is on its track.      *)
LEMMA PositionSame ==
    ASSUME NEW p \in Party, program' = program, marks'[p] = marks[p],
           ip'[p] = ip[p], gate'[p] = gate[p], prng'[p] = prng[p],
           pc'[p] \in Sent <=> pc[p] \in Sent,
           pc'[p] \in Seeding => pc[p] \in Seeding,
           OnTrack(p)
    PROVE  /\ OnTrack(p)'
           /\ Len(marks'[p]) = Len(marks[p])
           /\ \A m : Track(p, m)' = Track(p, m)
<1>1. Position(p)' = Position(p)
  BY DEF Position
<1> HIDE DEF Position, OnTrack, Track
<1> QED
  BY <1>1, TrackKept

(* A generator that is seeded in the constructor has not been drawn from.  *)
LEMMA SeedingPosition ==
    ASSUME TypeOK, Control, NEW p \in Party, OnTrack(p), pc[p] \in Seeding,
           NEW f, prng'[p] = f,
           \A i \in 0 .. 3 : f[i] = prng[p][i] \/ f[i].pos = 0,
           program' = program, marks'[p] = marks[p], ip'[p] = ip[p], gate'[p] = gate[p],
           pc'[p] \notin Sent
    PROVE  /\ OnTrack(p)'
           /\ Len(marks'[p]) = Len(marks[p])
           /\ \A m : Track(p, m)' = Track(p, m)
<1>1. Len(marks[p]) = 0
  BY MarksType DEF OnTrack
<1>2. Position(p) = Origin(program)
  BY <1>1 DEF OnTrack, Track
<1>3. pc[p] \notin Sent
  BY DEF Seeding, Sent
<1>4. \A i \in 0 .. 3 : prng[p][i].pos = 0
  <2>1. Position(p).pos = [i \in 0 .. 3 |-> prng[p][i].pos]
    BY DEF Position
  <2>2. Origin(program).pos = [i \in 0 .. 3 |-> 0]
    BY DEF Origin
  <2>3. [i \in 0 .. 3 |-> prng[p][i].pos] = [i \in 0 .. 3 |-> 0]
    BY <1>2, <2>1, <2>2
  <2> QED
    BY <2>3
<1>5. \A i \in 0 .. 3 : prng'[p][i].pos = prng[p][i].pos
  BY <1>4
<1>6. [i \in 0 .. 3 |-> prng'[p][i].pos] = [i \in 0 .. 3 |-> prng[p][i].pos]
  BY <1>5
<1>7. Position(p)' = Position(p)
  BY <1>3, <1>6 DEF Position
<1> HIDE DEF Position, OnTrack, Track
<1> QED
  BY <1>7, TrackKept

(* Every step moves every party along its track, or not at all.            *)
Moved(p) ==
    /\ OnTrack(p)'
    /\ Len(marks'[p]) \in {Len(marks[p]), Len(marks[p]) + 1}
    /\ \A m \in 1 .. Len(marks[p]) + 1 : Track(p, m)' = Track(p, m)

Unmoved(p) ==
    /\ OnTrack(p)'
    /\ Len(marks'[p]) = Len(marks[p])
    /\ \A m : Track(p, m)' = Track(p, m)

Untouched(p) ==
    /\ program' = program /\ marks'[p] = marks[p] /\ ip'[p] = ip[p]
    /\ gate'[p] = gate[p] /\ prng'[p] = prng[p] /\ pc'[p] = pc[p]

LEMMA OthersUnmoved ==
    ASSUME TypeOK, Control, NEW r \in Party, Step(r), NEW p \in Party, p # r, OnTrack(p)
    PROVE  Unmoved(p)
<1>1. Untouched(p)
  <2>1. CASE Reseed(r)
    BY <2>1 DEF Reseed, TypeOK, Untouched
  <2>2. ASSUME NEW from, NEW slot, NEW at, NEW next, ReceiveSeed(r, from, slot, at, next)
        PROVE  Untouched(p)
    BY <2>2 DEF ReceiveSeed, TypeOK, Untouched
  <2>3. CASE InitMul(r)
    BY <2>3 DEF InitMul, TypeOK, Untouched
  <2>4. CASE PrepareMul(r)
    <3>1. /\ program' = program /\ ip' = ip
          /\ \E f : prng' = [prng EXCEPT ![r] = f]
          /\ \E f : marks' = [marks EXCEPT ![r] = f]
          /\ gate' = [gate EXCEPT ![r] = gate[r] + 1] \/ gate' = [gate EXCEPT ![r] = 1]
          /\ pc' = pc \/ pc' = [pc EXCEPT ![r] = "send"]
      BY <2>4 DEF PrepareMul
    <3> QED
      BY <3>1 DEF TypeOK, Untouched
  <2>5. CASE Send(r)
    BY <2>5 DEF Send, TypeOK, Untouched
  <2>6. ASSUME NEW from, NEW i, NEW at, NEW next, Receive(r, from, i, at, next)
        PROVE  Untouched(p)
    BY <2>6 DEF Receive, TypeOK, Untouched
  <2>7. CASE FinalizeMul(r)
    <3>1. /\ program' = program /\ prng' = prng /\ marks' = marks
          /\ ip' = ip \/ ip' = [ip EXCEPT ![r] = ip[r] + 1]
          /\ gate' = [gate EXCEPT ![r] = gate[r] + 1] \/ gate' = [gate EXCEPT ![r] = 1]
          /\ pc' = pc \/ pc' = [pc EXCEPT ![r] = "idle"]
      BY <2>7 DEF FinalizeMul
    <3> QED
      BY <3>1 DEF TypeOK, Untouched
  <2> QED
    BY <2>1, <2>2, <2>3, <2>4, <2>5, <2>6, <2>7, StepForms
<1> HIDE DEF OnTrack, Track
<1> QED
  BY <1>1, PositionSame DEF Unmoved, Untouched

(* The party that steps, other than in prepare_mul.                        *)
LEMMA SeedingUnmoved ==
    ASSUME TypeOK, Control, NEW p \in Party, OnTrack(p), pc[p] \in Seeding,
           NEW f, prng' = [prng EXCEPT ![p] = f],
           \A i \in 0 .. 3 : f[i] = prng[p][i] \/ f[i].pos = 0,
           NEW next, pc' = [pc EXCEPT ![p] = next], next \notin Sent,
           UNCHANGED <<program, marks, ip, gate>>
    PROVE  Unmoved(p)
<1>1. prng'[p] = f /\ pc'[p] \notin Sent
  BY DEF TypeOK
<1> HIDE DEF OnTrack, Track, Seeding, Sent
<1> QED
  BY <1>1, SeedingPosition DEF Unmoved

LEMMA ReseedUnmoved ==
    ASSUME TypeOK, Control, NEW p \in Party, OnTrack(p), Reseed(p)
    PROVE  Unmoved(p)
<1> DEFINE f == [prng[p] EXCEPT ![0] = Seeded(<<p, 0>>), ![1] = Seeded(<<p, 1>>)]
<1>1. /\ pc[p] = "reseed" /\ pc' = [pc EXCEPT ![p] = "seed_next"]
      /\ UNCHANGED <<program, marks, ip, gate>>
  BY DEF Reseed
<1>2. prng' = [prng EXCEPT ![p][0] = Seeded(<<p, 0>>), ![p][1] = Seeded(<<p, 1>>)]
  BY DEF Reseed
<1>3. prng' = [prng EXCEPT ![p] = f]
  BY <1>2 DEF TypeOK
<1>4. \A i \in 0 .. 3 : f[i] = prng[p][i] \/ f[i].pos = 0
  BY DEF TypeOK, Seeded
<1>5. pc[p] \in Seeding /\ "seed_next" \notin Sent
  BY <1>1 DEF Seeding, Sent
<1> HIDE DEF f, Unmoved, OnTrack
<1> QED
  BY <1>1, <1>3, <1>4, <1>5, SeedingUnmoved

LEMMA ReceiveSeedUnmoved ==
    ASSUME TypeOK, Control, NEW p \in Party, OnTrack(p),
           NEW from, NEW slot \in 0 .. 3, NEW at \in Seeding, NEW next, next \notin Sent,
           ReceiveSeed(p, from, slot, at, next)
    PROVE  Unmoved(p)
<1> DEFINE f == [prng[p] EXCEPT ![slot] = Seeded(Head(chan[from][p]).seed)]
<1>1. /\ pc[p] = at /\ pc' = [pc EXCEPT ![p] = next]
      /\ UNCHANGED <<program, marks, ip, gate>>
  BY DEF ReceiveSeed
<1>2. prng' = [prng EXCEPT ![p][slot] = Seeded(Head(chan[from][p]).seed)]
  BY DEF ReceiveSeed
<1>3. prng' = [prng EXCEPT ![p] = f]
  BY <1>2 DEF TypeOK
<1>4. \A i \in 0 .. 3 : f[i] = prng[p][i] \/ f[i].pos = 0
  BY DEF TypeOK, Seeded
<1> HIDE DEF f, Unmoved, OnTrack, Seeding, Sent
<1> QED
  BY <1>1, <1>3, <1>4, SeedingUnmoved

LEMMA FinalizeUnmoved ==
    ASSUME TypeOK, Control, NEW p \in Party, OnTrack(p), FinalizeMul(p)
    PROVE  Unmoved(p)
<1>1. /\ pc[p] = "finalize" /\ program' = program /\ prng' = prng /\ marks' = marks
      /\ IF gate[p] < Len(Gates(p))
         THEN pc' = pc /\ ip' = ip
         ELSE /\ gate' = [gate EXCEPT ![p] = 1]
              /\ ip' = [ip EXCEPT ![p] = ip[p] + 1]
              /\ pc' = [pc EXCEPT ![p] = "idle"]
  BY DEF FinalizeMul
<1>2. \/ pc'[p] = pc[p] /\ ip'[p] = ip[p]
      \/ pc'[p] = "idle" /\ ip'[p] = ip[p] + 1 /\ gate'[p] = 1
  BY <1>1 DEF TypeOK
<1>3. Position(p)' = Position(p)
  BY <1>1, <1>2 DEF Position, Sent
<1>4. pc'[p] \notin Seeding
  BY <1>1, <1>2 DEF Seeding
<1> HIDE DEF OnTrack, Track, Position
<1> QED
  BY <1>1, <1>3, <1>4, TrackKept DEF Unmoved

LEMMA OwnUnmoved ==
    ASSUME TypeOK, Control, NEW p \in Party, OnTrack(p), Step(p), ~PrepareMul(p)
    PROVE  Unmoved(p)
<1>1. CASE ReceiveSeed(p, After(p), 2, "seed_next", "seed_prev")
  BY <1>1, ReceiveSeedUnmoved DEF Seeding, Sent
<1>2. CASE ReceiveSeed(p, Before(p), 3, "seed_prev", "idle")
  BY <1>2, ReceiveSeedUnmoved DEF Seeding, Sent
<1>3. CASE InitMul(p)
  <2>1. /\ pc[p] = "idle" /\ pc'[p] = "prepare" /\ gate'[p] = 1
        /\ program' = program /\ marks' = marks /\ ip' = ip /\ prng' = prng
    BY <1>3 DEF InitMul, TypeOK
  <2>2. gate[p] = 1
    BY <2>1 DEF Control, InBatch
  <2>3. (pc'[p] \in Sent <=> pc[p] \in Sent) /\ pc'[p] \notin Seeding
    BY <2>1 DEF Sent, Seeding
  <2> HIDE DEF OnTrack, Track, Sent, Seeding
  <2> QED
    BY <2>1, <2>2, <2>3, PositionSame DEF Unmoved
<1>4. CASE Send(p)
  <2>1. /\ pc[p] = "send" /\ pc'[p] \in {"finalize", "receive_first"}
        /\ UNCHANGED <<program, marks, ip, gate, prng>>
    BY <1>4 DEF Send, TypeOK
  <2>2. (pc'[p] \in Sent <=> pc[p] \in Sent) /\ pc'[p] \notin Seeding
    BY <2>1 DEF Sent, Seeding
  <2> HIDE DEF OnTrack, Track, Sent, Seeding
  <2> QED
    BY <2>1, <2>2, PositionSame DEF Unmoved
<1>5. ASSUME NEW from, NEW i,
             \/ Receive(p, from, i, "receive_first", "receive_second")
             \/ Receive(p, from, i, "receive_second", "finalize")
      PROVE  Unmoved(p)
  <2>1. /\ pc[p] \in {"receive_first", "receive_second"}
        /\ pc'[p] \in {"finalize", "receive_second"}
        /\ UNCHANGED <<program, marks, ip, gate, prng>>
    BY <1>5 DEF Receive, TypeOK
  <2>2. (pc'[p] \in Sent <=> pc[p] \in Sent) /\ pc'[p] \notin Seeding
    BY <2>1 DEF Sent, Seeding
  <2> HIDE DEF OnTrack, Track, Sent, Seeding
  <2> QED
    BY <2>1, <2>2, PositionSame DEF Unmoved
<1> HIDE DEF Unmoved, OnTrack
<1> QED
  BY <1>1, <1>2, <1>3, <1>4, <1>5, StepForms, ReseedUnmoved, FinalizeUnmoved

LEMMA TrackStep ==
    ASSUME TypeOK, Control, NEW r \in Party, Step(r), NEW p \in Party, OnTrack(p)
    PROVE  Moved(p)
<1>1. ASSUME Unmoved(p) PROVE Moved(p)
  BY <1>1 DEF Unmoved, Moved
<1>2. ASSUME PrepareMul(p) PROVE Moved(p)
  <2> HIDE DEF OnTrack, Track
  <2> QED
    BY <1>2, TrackGrows DEF Moved
<1> HIDE DEF Moved, Unmoved, OnTrack
<1> QED
  BY <1>1, <1>2, OthersUnmoved, OwnUnmoved

LEMMA TrackStutter ==
    ASSUME UNCHANGED vars, NEW p \in Party, OnTrack(p)
    PROVE  Moved(p)
<1>1. /\ program' = program /\ marks'[p] = marks[p] /\ ip'[p] = ip[p]
      /\ gate'[p] = gate[p] /\ prng'[p] = prng[p] /\ pc'[p] = pc[p]
  BY DEF vars
<1> HIDE DEF OnTrack, Track
<1> QED
  BY <1>1, PositionSame DEF Moved

-----------------------------------------------------------------------------
(* Two tracks that are alike go on alike.                                  *)
LEMMA FollowingAlike ==
    ASSUME NEW prog, NEW p, NEW q, NEW i \in 0 .. 3, NEW j \in 0 .. 3,
           \A f : Draws(p, f)[i] = Draws(q, f)[j],
           NEW a, NEW b, NEW c, NEW d,
           Following(prog, p, a, c), Following(prog, q, b, d), Alike(a, i, b, j)
    PROVE  Alike(c, i, d, j)
<1>1. a.ip = b.ip /\ a.gate = b.gate /\ a.pos[i] = b.pos[j]
  BY DEF Alike
<1>2. c.ip = d.ip /\ c.gate = d.gate
  <2> DEFINE more(m) == m.gate < Len(prog[m.ip].gates)
  <2>1. /\ c.ip = (IF more(a) THEN a.ip ELSE Coming(prog, a.ip + 1))
        /\ c.gate = (IF more(a) THEN a.gate + 1 ELSE 1)
    BY DEF Following
  <2>2. /\ d.ip = (IF more(b) THEN b.ip ELSE Coming(prog, b.ip + 1))
        /\ d.gate = (IF more(b) THEN b.gate + 1 ELSE 1)
    BY DEF Following
  <2>3. more(a) <=> more(b)
    BY <1>1
  <2> HIDE DEF more
  <2> QED
    BY <1>1, <2>1, <2>2, <2>3
<1> DEFINE fan == Len(prog[a.ip].gates[a.gate].ops)
<1>3. c.pos[i] = a.pos[i] + Draws(p, fan)[i]
  BY DEF Following
<1>4. d.pos[j] = b.pos[j] + Draws(q, fan)[j]
  BY <1>1 DEF Following
<1>5. Draws(p, fan)[i] = Draws(q, fan)[j]
  OBVIOUS
<1> HIDE DEF fan
<1> QED
  BY <1>1, <1>2, <1>3, <1>4, <1>5 DEF Alike

LEMMA ParallelKept ==
    ASSUME TypeOK, TypeOK', NEW p \in Party, NEW q \in Party,
           NEW i \in 0 .. 3, NEW j \in 0 .. 3,
           \A f : Draws(p, f)[i] = Draws(q, f)[j],
           Moved(p), Moved(q), Parallel(p, i, q, j)
    PROVE  Parallel(p, i, q, j)'
<1>1. ASSUME NEW r \in Party
      PROVE  Len(marks[r]) \in Nat /\ Len(marks'[r]) \in Nat
  <2>1. marks[r] \in Seq(Mark) /\ marks'[r] \in Seq(Mark)
    BY DEF TypeOK
  <2> HIDE DEF Mark
  <2> QED
    BY <2>1, LenProperties
<1>2. ASSUME NEW m \in 1 .. Len(marks'[p]) + 1, m <= Len(marks'[q]) + 1
      PROVE  Alike(Track(p, m)', i, Track(q, m)', j)
  <2>1. CASE m = 1
    <3>1. Track(p, m)' = Origin(program') /\ Track(q, m)' = Origin(program')
      BY <2>1 DEF Moved, OnTrack, Origin
    <3>2. Alike(Origin(program'), i, Origin(program'), j)
      BY DEF Alike, Origin
    <3> QED
      BY <3>1, <3>2
  <2>2. CASE m # 1
    <3> DEFINE k == m - 1
    <3>1. /\ k + 1 = m
          /\ k \in 1 .. Len(marks'[p]) /\ k \in 1 .. Len(marks'[q])
          /\ k \in 1 .. Len(marks[p]) + 1 /\ k \in 1 .. Len(marks[q]) + 1
          /\ k <= Len(marks[q]) + 1
      <4> DEFINE lp == Len(marks[p])
                 lq == Len(marks[q])
                 mp == Len(marks'[p])
                 mq == Len(marks'[q])
      <4>1. /\ lp \in Nat /\ mp \in {lp, lp + 1}
            /\ lq \in Nat /\ mq \in {lq, lq + 1}
        BY <1>1 DEF Moved
      <4>2. m \in 1 .. mp + 1 /\ m <= mq + 1
        BY <1>2
      <4> HIDE DEF lp, lq, mp, mq
      <4>3. /\ k + 1 = m /\ k \in 1 .. mp /\ k \in 1 .. mq
            /\ k \in 1 .. lp + 1 /\ k \in 1 .. lq + 1 /\ k <= lq + 1
        BY <2>2, <4>1, <4>2
      <4> QED
        BY <4>3 DEF lp, lq, mp, mq
    <3> HIDE DEF k
    <3>2. Alike(Track(p, k), i, Track(q, k), j)
      BY <3>1 DEF Parallel
    <3>3. Track(p, k)' = Track(p, k) /\ Track(q, k)' = Track(q, k)
      BY <3>1 DEF Moved
    <3>4. /\ Following(program', p, Track(p, k)', Track(p, k + 1)')
          /\ Following(program', q, Track(q, k)', Track(q, k + 1)')
      BY <3>1 DEF Moved, OnTrack
    <3> QED
      BY <3>1, <3>2, <3>3, <3>4, FollowingAlike
  <2> QED
    BY <2>1, <2>2
<1> QED
  BY <1>2 DEF Parallel

LEMMA TracksMoved ==
    ASSUME TypeOK, TypeOK', Tracks, \A p \in Party : Moved(p)
    PROVE  Tracks'
<1>1. ASSUME NEW p \in Party PROVE OnTrack(p)'
  BY DEF Moved
<1>2. ASSUME NEW p \in Party
      PROVE  Parallel(p, 0, Before(p), 2)' /\ Parallel(p, 1, After(p), 3)'
  <2>1. Parallel(p, 0, Before(p), 2) /\ Parallel(p, 1, After(p), 3)
    BY DEF Tracks
  <2>2. Before(p) \in Party /\ After(p) \in Party
    BY PartyNeighbours
  <2>3. \A f : /\ Draws(p, f)[0] = Draws(Before(p), f)[2]
               /\ Draws(p, f)[1] = Draws(After(p), f)[3]
    BY DrawsPaired
  <2> HIDE DEF Moved, Parallel
  <2> QED
    BY <2>1, <2>2, <2>3, ParallelKept
<1> HIDE DEF OnTrack, Parallel
<1> QED
  BY <1>1, <1>2 DEF Tracks

LEMMA TracksNext == TypeOK /\ Control /\ Tracks /\ [Next]_vars => Tracks'
<1> SUFFICES ASSUME TypeOK, Control, Tracks, [Next]_vars PROVE Tracks'
  OBVIOUS
<1>1. TypeOK'
  BY TypeNext
<1>2. \A p \in Party : OnTrack(p)
  BY DEF Tracks
<1>3. ASSUME NEW p \in Party PROVE Moved(p)
  <2>1. ASSUME NEW r \in Party, Step(r) PROVE Moved(p)
    BY <1>2, <2>1, TrackStep
  <2>2. ASSUME UNCHANGED vars PROVE Moved(p)
    BY <1>2, <2>2, TrackStutter
  <2> QED
    BY <2>1, <2>2 DEF Next, Terminated
<1> QED
  BY <1>1, <1>3, TracksMoved

LEMMA TracksCorrect == Spec => []Tracks
<1>1. TypeOK /\ Control /\ Tracks /\ [Next]_vars => Tracks'
  BY TracksNext
<1> QED
  BY <1>1, TracksInit, ControlCorrect, PTL DEF Spec

(* The marks that two parties have both made are on their tracks.          *)
LEMMA ParallelAgrees ==
    ASSUME TypeOK, NEW p \in Party, NEW q \in Party, NEW i, NEW j, Parallel(p, i, q, j)
    PROVE  Agree(p, i, q, j)
<1>1. ASSUME NEW r \in Party
      PROVE  Len(marks[r]) \in Nat /\ DOMAIN marks[r] = 1 .. Len(marks[r])
  <2>1. marks[r] \in Seq(Mark)
    BY DEF TypeOK
  <2> HIDE DEF Mark
  <2> QED
    BY <2>1, LenProperties
<1>2. ASSUME NEW m \in DOMAIN marks[p] \cap DOMAIN marks[q]
      PROVE  Alike(marks[p][m], i, marks[q][m], j)
  <2>1. /\ m \in 1 .. Len(marks[p]) + 1 /\ m <= Len(marks[q]) + 1
        /\ m <= Len(marks[p]) /\ m <= Len(marks[q])
    BY <1>1
  <2>2. Track(p, m) = marks[p][m] /\ Track(q, m) = marks[q][m]
    BY <2>1 DEF Track
  <2>3. Alike(Track(p, m), i, Track(q, m), j)
    BY <2>1 DEF Parallel
  <2> QED
    BY <2>2, <2>3
<1> QED
  BY <1>2 DEF Agree, Alike

(***************************************************************************)
(* Shared generators are drawn from in step, for programs, batches and     *)
(* fan-ins of any size: the m-th prepare_mul is for the same AND at every  *)
(* party, and each generator then stands at the same word for both of its  *)
(* holders, although they may be any number of ANDs apart at the time.     *)
(***************************************************************************)
THEOREM PrngsPairedCorrect == Spec => []PrngsPaired
<1>1. TypeOK /\ Tracks => PrngsPaired
  <2> SUFFICES ASSUME TypeOK, Tracks PROVE PrngsPaired
    OBVIOUS
  <2>1. ASSUME NEW p \in Party
        PROVE  Agree(p, 0, Before(p), 2) /\ Agree(p, 1, After(p), 3)
    <3>1. Parallel(p, 0, Before(p), 2) /\ Parallel(p, 1, After(p), 3)
      BY DEF Tracks
    <3>2. Before(p) \in Party /\ After(p) \in Party
      BY PartyNeighbours
    <3> HIDE DEF Parallel, Agree
    <3> QED
      BY <3>1, <3>2, ParallelAgrees
  <2> QED
    BY <2>1 DEF PrngsPaired
<1> QED
  BY <1>1, TypeCorrect, TracksCorrect, PTL

-----------------------------------------------------------------------------
(***************************************************************************)
(* What is in the streams, and what comes of it.                           *)
(***************************************************************************)

(***************************************************************************)
(* ws is c[k] \o c[k + 1] \o ... \o c[n]: there are places at which the    *)
(* pieces begin, one after the other.                                      *)
(***************************************************************************)
Rising(at, k, n) == \A g, h \in k .. n : g <= h => at[g] <= at[h]

Piece(ws, a, b, w) == b = a + Len(w) /\ \A j \in 1 .. Len(w) : ws[a + j] = w[j]

Joined(ws, k, n, c) ==
    \E at \in [k .. n + 1 -> 0 .. Len(ws)] :
        /\ at[k] = 0 /\ at[n + 1] = Len(ws)
        /\ Rising(at, k, n + 1)
        /\ \A g \in k .. n : Piece(ws, at[g], at[g + 1], c[g])

LEMMA JoinedNone ==
    ASSUME NEW T, NEW ws \in Seq(T), NEW k \in Nat, NEW c
    PROVE  Joined(ws, k, k - 1, c) <=> ws = <<>>
<1>1. Len(ws) \in Nat /\ (ws # <<>> => Len(ws) # 0) /\ (ws = <<>> => Len(ws) = 0)
  BY EmptySeq, LenProperties
<1>2. ASSUME Joined(ws, k, k - 1, c) PROVE Len(ws) = 0
  <2>1. PICK at \in [k .. (k - 1) + 1 -> 0 .. Len(ws)] : at[k] = 0 /\ at[(k - 1) + 1] = Len(ws)
    BY <1>2 DEF Joined
  <2>2. (k - 1) + 1 = k
    OBVIOUS
  <2> QED
    BY <2>1, <2>2
<1>3. ASSUME Len(ws) = 0 PROVE Joined(ws, k, k - 1, c)
  <2> DEFINE at == [g \in k .. (k - 1) + 1 |-> 0]
  <2>1. at \in [k .. (k - 1) + 1 -> 0 .. Len(ws)]
    BY <1>3
  <2>2. at[k] = 0 /\ at[(k - 1) + 1] = 0
    OBVIOUS
  <2>3. \A g \in k .. k - 1 : FALSE
    OBVIOUS
  <2>4. Rising(at, k, (k - 1) + 1)
    BY DEF Rising
  <2> HIDE DEF at
  <2> QED
    BY <1>3, <2>1, <2>2, <2>3, <2>4 DEF Joined
<1> QED
  BY <1>1, <1>2, <1>3

(* A piece more at the end.                                                *)
LEMMA JoinedAppend ==
    ASSUME NEW T, NEW ws \in Seq(T), NEW w \in Seq(T), NEW k \in Nat, NEW n \in Nat,
           k <= n + 1, NEW c, \A g \in k .. n : c[g] \in Seq(T), w = c[n + 1],
           Joined(ws, k, n, c)
    PROVE  Joined(ws \o w, k, n + 1, c)
<1>1. /\ Len(ws) \in Nat /\ Len(w) \in Nat
      /\ Len(ws \o w) = Len(ws) + Len(w)
      /\ \A i \in 1 .. Len(ws) : (ws \o w)[i] = ws[i]
      /\ \A j \in 1 .. Len(w) : (ws \o w)[Len(ws) + j] = w[j]
  BY LenProperties, ConcatProperties
<1>2. PICK at \in [k .. n + 1 -> 0 .. Len(ws)] :
        /\ at[k] = 0 /\ at[n + 1] = Len(ws)
        /\ Rising(at, k, n + 1)
        /\ \A g \in k .. n : Piece(ws, at[g], at[g + 1], c[g])
  BY DEF Joined
<1>3. PICK all : /\ all = ws \o w
                 /\ Len(all) = Len(ws) + Len(w) /\ Len(all) \in Nat
                 /\ \A i \in 1 .. Len(ws) : all[i] = ws[i]
                 /\ \A j \in 1 .. Len(w) : all[Len(ws) + j] = w[j]
  <2>1. Len(ws \o w) \in Nat
    BY <1>1
  <2> QED
    BY <1>1, <2>1
<1> DEFINE to == [g \in k .. (n + 1) + 1 |-> IF g <= n + 1 THEN at[g] ELSE Len(all)]
<1>4. /\ \A g \in k .. n + 1 : to[g] = at[g] /\ to[g] \in 0 .. Len(ws)
      /\ to[(n + 1) + 1] = Len(all)
  BY <1>2
<1>5. to \in [k .. (n + 1) + 1 -> 0 .. Len(all)]
  <2>1. ASSUME NEW g \in k .. (n + 1) + 1 PROVE to[g] \in 0 .. Len(all)
    <3>1. CASE g <= n + 1
      <4>1. to[g] \in 0 .. Len(ws)
        BY <1>4, <3>1
      <4> QED
        BY <1>1, <1>3, <4>1
    <3>2. CASE ~(g <= n + 1)
      BY <1>3, <3>2
    <3> QED
      BY <3>1, <3>2
  <2> QED
    BY <2>1
<1> HIDE DEF to
<1>6. to[k] = 0
  BY <1>2, <1>4
<1>7. \A g \in k .. n + 1 : g <= n \/ g = n + 1
  OBVIOUS
<1>8. ASSUME NEW g \in k .. n + 1
      PROVE  Piece(all, to[g], to[g + 1], c[g])
  <2>1. CASE g <= n
    <3>1. g \in k .. n /\ g + 1 \in k .. n + 1
      BY <2>1
    <3>2. Piece(ws, at[g], at[g + 1], c[g])
      BY <1>2, <3>1
    <3>3. to[g] = at[g] /\ to[g + 1] = at[g + 1]
      BY <1>4, <3>1
    <3>4. at[g + 1] = at[g] + Len(c[g])
      BY <3>2 DEF Piece
    <3>5. ASSUME NEW j \in 1 .. Len(c[g]) PROVE all[at[g] + j] = c[g][j]
      <4>1. ws[at[g] + j] = c[g][j]
        BY <3>2 DEF Piece
      <4>2. at[g] \in 0 .. Len(ws) /\ at[g + 1] \in 0 .. Len(ws)
        BY <1>2, <3>1
      <4>3. PICK a, d : a = at[g] /\ d = Len(c[g])
        OBVIOUS
      <4>4. /\ a \in Nat /\ a + d <= Len(ws) /\ j \in 1 .. d /\ d \in Nat
        BY <1>1, <3>1, <3>4, <4>2, <4>3, LenProperties
      <4>5. a + j \in 1 .. Len(ws)
        BY ONLY <1>1, <4>4
      <4> QED
        BY <1>3, <4>1, <4>3, <4>5
    <3> QED
      BY <3>3, <3>4, <3>5 DEF Piece
  <2>2. CASE g = n + 1
    <3>1. c[g] = w /\ to[g] = Len(ws) /\ to[g + 1] = Len(all)
      BY <1>2, <1>4, <2>2
    <3> QED
      BY <1>3, <3>1 DEF Piece
  <2> QED
    BY <1>7, <2>1, <2>2
<1>9. Rising(to, k, (n + 1) + 1)
  <2> SUFFICES ASSUME NEW g \in k .. (n + 1) + 1, NEW h \in k .. (n + 1) + 1, g <= h
               PROVE  to[g] <= to[h]
    BY DEF Rising
  <2>1. CASE h <= n + 1
    <3>1. g \in k .. n + 1 /\ h \in k .. n + 1
      BY <2>1
    <3>2. at[g] <= at[h]
      BY <1>2, <3>1 DEF Rising
    <3> QED
      BY <1>4, <3>1, <3>2
  <2>2. CASE ~(h <= n + 1)
    <3>1. h = (n + 1) + 1
      BY <2>2
    <3>2. to[h] = Len(all) /\ to[g] \in 0 .. Len(all)
      BY <1>4, <1>5, <3>1
    <3> QED
      BY <1>3, <3>2
  <2> QED
    BY <2>1, <2>2
<1>10. to[(n + 1) + 1] = Len(all)
  BY <1>4
<1>11. Joined(all, k, n + 1, c)
  BY <1>5, <1>6, <1>8, <1>9, <1>10 DEF Joined
<1> QED
  BY <1>3, <1>11

(* The first piece can be taken off.                                       *)
LEMMA JoinedFirst ==
    ASSUME NEW T, NEW ws \in Seq(T), NEW k \in Nat, NEW n \in Nat, k <= n,
           NEW c, \A g \in k .. n : c[g] \in Seq(T), Joined(ws, k, n, c)
    PROVE  /\ Len(c[k]) <= Len(ws)
           /\ FirstOf(ws, Len(c[k])) = c[k]
           /\ Rest(ws, Len(c[k])) \in Seq(T)
           /\ Joined(Rest(ws, Len(c[k])), k + 1, n, c)
<1>1. PICK at \in [k .. n + 1 -> 0 .. Len(ws)] :
        /\ at[k] = 0 /\ at[n + 1] = Len(ws)
        /\ Rising(at, k, n + 1)
        /\ \A g \in k .. n : Piece(ws, at[g], at[g + 1], c[g])
  BY DEF Joined
<1> DEFINE d    == Len(c[k])
           rest == Rest(ws, d)
<1>2. d \in Nat /\ Len(ws) \in Nat /\ c[k] \in Seq(T)
  BY LenProperties
<1>3. k \in k .. n /\ k + 1 \in k .. n + 1
  OBVIOUS
<1>4. at[k + 1] = d /\ d <= Len(ws)
  <2>1. at[k + 1] = 0 + Len(c[k])
    BY <1>1, <1>3 DEF Piece
  <2>2. at[k + 1] \in 0 .. Len(ws)
    BY <1>3
  <2> HIDE DEF rest
  <2> QED
    BY <1>2, <2>1, <2>2
<1>5. \A i \in 1 .. Len(ws) : ws[i] \in T
  BY ElementOfSeq
<1>6. FirstOf(ws, d) = c[k]
  <2> DEFINE first == FirstOf(ws, d)
  <2>1. \A i \in 1 .. d : ws[i] \in T
    BY <1>2, <1>4, <1>5
  <2>2. first \in Seq(T) /\ Len(first) = d
    <3> HIDE DEF d
    <3> QED
      BY <1>2, <2>1, SubSeqProperties DEF FirstOf
  <2>3. \A i \in 1 .. d : first[i] = ws[i]
    <3> HIDE DEF d
    <3> QED
      BY <1>2, <2>1, SubSeqProperties DEF FirstOf
  <2>4. \A i \in 1 .. d : ws[i] = c[k][i]
    <3>1. \A i \in 1 .. d : ws[0 + i] = c[k][i]
      BY <1>1, <1>3 DEF Piece
    <3> QED
      BY <3>1
  <2>5. Len(c[k]) = d
    OBVIOUS
  <2>6. \A i \in 1 .. d : first[i] = c[k][i]
    BY <2>3, <2>4
  <2> HIDE DEF first
  <2>7. first \in Seq(T) /\ c[k] \in Seq(T) /\ Len(first) = Len(c[k])
        /\ \A i \in 1 .. Len(first) : first[i] = c[k][i]
    BY <1>2, <2>2, <2>6
  <2>8. first = c[k]
    BY ONLY <2>7, SeqEqual
  <2> QED
    BY <2>8 DEF first
<1>7. /\ rest \in Seq(T) /\ Len(rest) = Len(ws) - d
      /\ \A i \in 1 .. Len(ws) - d : rest[i] = ws[d + i]
  <2> HIDE DEF d
  <2>1. \A i \in (d + 1) .. Len(ws) : ws[i] \in T
    BY <1>2, <1>5
  <2>2. /\ rest \in Seq(T)
        /\ Len(rest) = IF d + 1 <= Len(ws) THEN Len(ws) - (d + 1) + 1 ELSE 0
        /\ \A i \in 1 .. Len(ws) - (d + 1) + 1 : rest[i] = ws[(d + 1) + i - 1]
    BY <1>2, <2>1, SubSeqProperties DEF Rest
  <2>3. ASSUME NEW i \in 1 .. Len(ws) - d PROVE rest[i] = ws[d + i]
    <3>1. i \in 1 .. Len(ws) - (d + 1) + 1 /\ (d + 1) + i - 1 = d + i
      BY <1>2
    <3> QED
      BY <2>2, <3>1
  <2> QED
    <3>1. Len(rest) = Len(ws) - d
      BY <1>2, <1>4, <2>2
    <3> QED
      BY <2>2, <2>3, <3>1
<1> HIDE DEF d, rest
<1> DEFINE to == [g \in k + 1 .. n + 1 |-> at[g] - d]
<1>8. ASSUME NEW g \in k + 1 .. n + 1
      PROVE  /\ g \in k .. n + 1 /\ at[g] \in Nat /\ at[g] >= d /\ at[g] <= Len(ws)
             /\ to[g] = at[g] - d /\ to[g] \in 0 .. Len(rest)
  <2>1. g \in k .. n + 1 /\ k + 1 <= g
    OBVIOUS
  <2>2. at[g] \in 0 .. Len(ws) /\ at[k + 1] <= at[g]
    BY <1>1, <1>3, <2>1 DEF Rising
  <2>3. to[g] = at[g] - d
    OBVIOUS
  <2> HIDE DEF to
  <2> QED
    <3>1. at[g] \in Nat /\ at[g] >= d /\ at[g] <= Len(ws)
      BY <1>2, <1>4, <2>2
    <3>2. at[g] - d \in 0 .. Len(rest)
      BY <1>2, <1>7, <3>1
    <3> QED
      BY <2>1, <2>3, <3>1, <3>2
<1>9. to \in [k + 1 .. n + 1 -> 0 .. Len(rest)]
  BY <1>8
<1> HIDE DEF to
<1>10. to[k + 1] = 0 /\ to[n + 1] = Len(rest)
  <2>1. k + 1 \in k + 1 .. n + 1 /\ n + 1 \in k + 1 .. n + 1
    OBVIOUS
  <2>2. to[k + 1] = at[k + 1] - d /\ to[n + 1] = at[n + 1] - d
    BY <1>8, <2>1
  <2> QED
    BY <1>1, <1>2, <1>4, <1>7, <2>2
<1>11. ASSUME NEW g \in k + 1 .. n
       PROVE  Piece(rest, to[g], to[g + 1], c[g])
  <2>1. g \in k .. n /\ g \in k + 1 .. n + 1 /\ g + 1 \in k + 1 .. n + 1
    OBVIOUS
  <2>2. Piece(ws, at[g], at[g + 1], c[g])
    BY <1>1, <2>1
  <2>3. PICK a, b, z : a = at[g] /\ b = at[g + 1] /\ z = Len(c[g])
    OBVIOUS
  <2>4. /\ a \in Nat /\ a >= d /\ a <= Len(ws) /\ to[g] = a - d
        /\ b \in Nat /\ b >= d /\ b <= Len(ws) /\ to[g + 1] = b - d
    BY <1>8, <2>1, <2>3
  <2>5. b = a + z
    BY <2>2, <2>3 DEF Piece
  <2>6. to[g + 1] = to[g] + Len(c[g])
    <3>1. a + z \in Nat
      BY <2>4, <2>5
    <3>2. to[g + 1] = (a + z) - d /\ to[g] + Len(c[g]) = (a - d) + z
      BY <2>3, <2>4, <2>5
    <3>3. z \in Int
      BY <2>1, <2>3, LenProperties
    <3> QED
      <4>1. (a + z) - d = (a - d) + z
        BY <1>2, <2>4, <3>3
      <4> QED
        BY <3>2, <4>1
  <2>7. ASSUME NEW j \in 1 .. Len(c[g]) PROVE rest[to[g] + j] = c[g][j]
    <3>1. ws[a + j] = c[g][j]
      BY <2>2, <2>3 DEF Piece
    <3>2. (a - d) + j \in 1 .. Len(ws) - d /\ d + ((a - d) + j) = a + j
      <4>1. z \in Nat /\ j \in 1 .. z
        BY <2>1, <2>3, LenProperties
      <4>2. a + z <= Len(ws) /\ a \in Nat /\ a >= d
        BY <2>4, <2>5
      <4> QED
        BY ONLY <1>2, <4>1, <4>2
    <3>3. rest[(a - d) + j] = ws[a + j]
      BY <1>7, <3>2
    <3> QED
      BY <2>4, <3>1, <3>3
  <2> QED
    BY <2>6, <2>7 DEF Piece
<1>12. Rising(to, k + 1, n + 1)
  <2> SUFFICES ASSUME NEW g \in k + 1 .. n + 1, NEW h \in k + 1 .. n + 1, g <= h
               PROVE  to[g] <= to[h]
    BY DEF Rising
  <2>1. g \in k .. n + 1 /\ h \in k .. n + 1
    BY <1>8
  <2>2. at[g] <= at[h]
    BY <1>1, <2>1 DEF Rising
  <2> QED
    BY <1>2, <1>8, <2>2
<1>13. Joined(rest, k + 1, n, c)
  BY <1>9, <1>10, <1>11, <1>12 DEF Joined
<1> QED
  BY <1>4, <1>6, <1>7, <1>13 DEF d, rest

(* Only the pieces from k to n count.                                      *)
LEMMA JoinedSame ==
    ASSUME NEW ws, NEW k, NEW n, NEW c, NEW d, \A g \in k .. n : c[g] = d[g],
           Joined(ws, k, n, c)
    PROVE  Joined(ws, k, n, d)
<1>1. PICK at \in [k .. n + 1 -> 0 .. Len(ws)] :
        /\ at[k] = 0 /\ at[n + 1] = Len(ws)
        /\ Rising(at, k, n + 1)
        /\ \A g \in k .. n : Piece(ws, at[g], at[g + 1], c[g])
  BY DEF Joined
<1>2. \A g \in k .. n : Piece(ws, at[g], at[g + 1], d[g])
  BY <1>1
<1> QED
  BY <1>1, <1>2 DEF Joined

-----------------------------------------------------------------------------
(***************************************************************************)
(* The words of a gate of n lanes stay within them, so that packing them   *)
(* to whole octets loses nothing.                                          *)
(***************************************************************************)
Within(v, n) == \A l \in v : l < n

LEMMA WithinClosed ==
    ASSUME NEW n
    PROVE  /\ Within({}, n)
           /\ \A u, v : Within(u, n) /\ Within(v, n) => Within(u (+) v, n)
           /\ \A F : (\A k \in DOMAIN F : Within(F[k], n)) => Within(XorSum(F), n)
<1>1. \A u, v : Within(u, n) /\ Within(v, n) => Within(u (+) v, n)
  BY DEF Within, (+)
<1>2. ASSUME NEW F, \A k \in DOMAIN F : Within(F[k], n), NEW l \in XorSum(F)
      PROVE  l < n
  <2>1. Cardinality({k \in DOMAIN F : l \in F[k]}) % 2 = 1
    BY DEF XorSum
  <2>2. {k \in DOMAIN F : l \in F[k]} # {}
    <3> SUFFICES ASSUME {k \in DOMAIN F : l \in F[k]} = {} PROVE FALSE
      OBVIOUS
    <3>1. Cardinality({k \in DOMAIN F : l \in F[k]}) = 0
      BY SmallCardinalities
    <3> QED
      BY <2>1, <3>1
  <2>3. PICK k \in DOMAIN F : l \in F[k]
    BY <2>2
  <2> QED
    BY <1>2, <2>3 DEF Within
<1> QED
  BY <1>1, <1>2 DEF Within

(* Operand shares and draws of a gate of n lanes. *)
Narrow(x, n) == \A i \in 1 .. Len(x) : Within(x[i][0], n) /\ Within(x[i][1], n)

LEMMA FormulasWithin ==
    ASSUME NEW f \in Nat, f >= 2, NEW x, Len(x) = f, NEW n, Narrow(x, n), NEW c \in {0, 1}
    PROVE  /\ \A v : \A I \in SUBSET (1 .. f) : I # {} => Within(Times(v, x, I, c), n)
           /\ Within(CrossSum(x, c), n)
           /\ \A w : (\A k \in 1 .. NumMonomials(f) : Within(w[k], n))
                        => Within(ComplementSum(w, x, c), n)
<1>1. \A i \in 1 .. f : Within(x[i][c], n)
  BY DEF Narrow
<1>2. ASSUME NEW v, NEW I \in SUBSET (1 .. f), I # {}
      PROVE  Within(Times(v, x, I, c), n)
  <2>1. PICK i \in I : TRUE
    BY <1>2
  <2> QED
    BY <1>1, <2>1 DEF Times, Within
<1>3. Within(CrossSum(x, c), n)
  <2> DEFINE F == [i \in 1 .. Len(x) |-> Cross(x, i, c)]
  <2>1. \A i \in 1 .. f : Within(Cross(x, i, c), n)
    BY <1>1 DEF Cross, Within
  <2>2. \A i \in DOMAIN F : Within(F[i], n)
    BY <2>1
  <2> HIDE DEF F
  <2>3. Within(XorSum(F), n)
    BY <2>2, WithinClosed
  <2> QED
    BY <2>3 DEF CrossSum, F
<1>4. ASSUME NEW w, \A k \in 1 .. NumMonomials(f) : Within(w[k], n)
      PROVE  Within(ComplementSum(w, x, c), n)
  <2> DEFINE F == [k \in 1 .. NumMonomials(Len(x)) |->
                     Times(w[k], x, (1 .. Len(x)) \ Monomials(Len(x))[k], c)]
  <2>1. \A k \in 1 .. NumMonomials(f) : \A I : Within(Times(w[k], x, I, c), n)
    BY <1>4 DEF Times, Within
  <2>2. \A k \in DOMAIN F : Within(F[k], n)
    BY <2>1
  <2> HIDE DEF F
  <2>3. Within(XorSum(F), n)
    BY <2>2, WithinClosed
  <2> QED
    BY <2>3 DEF ComplementSum, F
<1> QED
  BY <1>2, <1>3, <1>4

AllWithin(ws, n) == \A k \in 1 .. Len(ws) : Within(ws[k], n)

LEMMA AllWithinShort ==
    ASSUME NEW n, NEW a
    PROVE  AllWithin(<<>>, n) /\ (Within(a, n) => AllWithin(<<a>>, n))
  BY DEF AllWithin

LEMMA PreparedWithin ==
    ASSUME NEW p \in Party, NEW f \in Nat, f >= 2, NEW x, Len(x) = f, NEW n, Narrow(x, n),
           NEW r, \A i \in 0 .. 3 : \A j \in 1 .. Draws(p, f)[i] : Within(r[i][j], n)
    PROVE  AllWithin(Prepared(p, x, r).os0, n) /\ AllWithin(Prepared(p, x, r).os1, n)
<1> DEFINE N == NumMonomials(f)
<1>1. N \in Nat /\ N >= 1 /\ 1 \in 1 .. N
  BY NumMonomialsType
<1>2. \A k \in 1 .. N : \A v :
         Monomials(f)[k] # {} /\ Monomials(f)[k] \subseteq 1 .. f
         /\ Within(Times(v, x, Monomials(f)[k], 0), n)
  <2>1. ASSUME NEW k \in 1 .. N
        PROVE  Monomials(f)[k] # {} /\ Monomials(f)[k] \subseteq 1 .. f
    <3>1. PICK I \in Several(1 .. f) : I = Monomials(f)[k]
      BY MonomialsEnumerated DEF Enumerated
    <3>2. Cardinality({}) = 0
      BY SmallCardinalities
    <3>3. I \subseteq 1 .. f /\ Cardinality(I) > 1
      BY DEF Several
    <3>4. I # {}
      <4> SUFFICES ASSUME I = {} PROVE FALSE
        OBVIOUS
      <4> QED
        BY <3>2, <3>3
    <3> QED
      BY <3>1, <3>3, <3>4
  <2> HIDE DEF N
  <2> QED
    BY <2>1, FormulasWithin
<1>3. \A c \in {0, 1} : Within(CrossSum(x, c), n)
  BY FormulasWithin
<1>4. \A c \in {0, 1} : \A w : (\A k \in 1 .. N : Within(w[k], n))
                                  => Within(ComplementSum(w, x, c), n)
  BY FormulasWithin
<1>5. \A u, v : Within(u, n) /\ Within(v, n) => Within(u (+) v, n)
  BY WithinClosed
<1>6. AllWithin(<<>>, n) /\ \A a : Within(a, n) => AllWithin(<<a>>, n)
  BY AllWithinShort
<1>7. ASSUME NEW elem, NEW w, \A k \in 1 .. N : Within(elem[k], n) /\ Within(w[k], n)
      PROVE  AllWithin([k \in 1 .. N |-> elem[k] (+) w[k]], n)
  <2> DEFINE s == [k \in 1 .. N |-> elem[k] (+) w[k]]
  <2>1. Len(s) = N
    BY <1>1
  <2>2. \A k \in 1 .. N : s[k] = elem[k] (+) w[k]
    OBVIOUS
  <2>3. \A k \in 1 .. N : Within(s[k], n)
    BY <1>5, <1>7, <2>2
  <2> HIDE DEF s
  <2>4. AllWithin(s, n)
    BY <2>1, <2>3 DEF AllWithin
  <2> QED
    BY <2>4 DEF s
<1> DEFINE many == [k \in 1 .. N |-> Times(EmptyProduct(f), x, Monomials(f)[k], 0)]
<1>8. \A k \in 1 .. N : Within(many[k], n)
  BY <1>2
<1>9. CASE p = 0
  <2>1. \A k \in 1 .. N : Within(r[0][k], n)
    <3>1. Draws(p, f)[0] = N
      BY <1>9 DEF Draws
    <3> QED
      BY <3>1
  <2>2. Prepared(p, x, r).os0 = [k \in 1 .. N |-> many[k] (+) r[0][k]]
    BY <1>9 DEF Prepared, Prepared0
  <2>3. Prepared(p, x, r).os1 = <<>>
    BY <1>9 DEF Prepared, Prepared0
  <2> HIDE DEF many, N
  <2>4. AllWithin([k \in 1 .. N |-> many[k] (+) r[0][k]], n)
    <3>1. PICK w : w = r[0]
      OBVIOUS
    <3> QED
      BY <1>7, <1>8, <2>1, <3>1
  <2> QED
    BY <1>6, <2>2, <2>3, <2>4
<1>10. CASE p = 1
  <2> DEFINE elem == [k \in 1 .. N |-> IF f = 2 THEN CrossSum(x, 0) ELSE many[k]]
  <2>1. \A k \in 1 .. N : Within(r[1][k], n)
    <3>1. Draws(p, f)[1] = N
      BY <1>10 DEF Draws
    <3> QED
      BY <3>1
  <2>2. Prepared(p, x, r).os0 = [k \in 1 .. N |-> elem[k] (+) r[1][k]]
    BY <1>10 DEF Prepared, Prepared1
  <2>3. Prepared(p, x, r).os1 = <<>>
    BY <1>10 DEF Prepared, Prepared1
  <2>4. \A k \in 1 .. N : Within(elem[k], n)
    BY <1>3, <1>8
  <2> HIDE DEF many, N, elem
  <2>5. AllWithin([k \in 1 .. N |-> elem[k] (+) r[1][k]], n)
    <3>1. PICK w : w = r[1]
      OBVIOUS
    <3> QED
      BY <1>7, <2>1, <2>4, <3>1
  <2> QED
    BY <1>6, <2>2, <2>3, <2>5
<1>11. CASE p = 2
  <2> DEFINE elem2 == CrossSum(x, 0) (+) Times(Lane, x, {1, 2}, 0) (+) r[0][1]
             elem3 == ComplementSum(r[2], x, 0) (+) CrossSum(x, 1) (+) r[0][1]
             elem4 == ComplementSum(r[3], x, 1) (+) CrossSum(x, 0) (+) r[1][1]
  <2>1. /\ \A k \in 1 .. N : Within(r[2][k], n) /\ Within(r[3][k], n)
        /\ Within(r[0][1], n) /\ (f # 2 => Within(r[1][1], n))
    <3>1. /\ Draws(p, f)[2] = N /\ Draws(p, f)[3] = N /\ Draws(p, f)[0] = 1
          /\ f # 2 => Draws(p, f)[1] = 1
      BY <1>11 DEF Draws
    <3>2. 1 \in 1 .. 1
      OBVIOUS
    <3>3. Within(r[0][1], n)
      BY <3>1, <3>2
    <3>4. f # 2 => Within(r[1][1], n)
      BY <3>1, <3>2
    <3> HIDE DEF N
    <3>5. \A k \in 1 .. N : Within(r[2][k], n)
      BY <3>1
    <3>6. \A k \in 1 .. N : Within(r[3][k], n)
      BY <3>1
    <3> QED
      BY <3>3, <3>4, <3>5, <3>6
  <2>2. Within(ComplementSum(r[2], x, 0), n) /\ Within(ComplementSum(r[3], x, 1), n)
    <3>1. PICK a, b : a = r[2] /\ b = r[3]
      OBVIOUS
    <3> QED
      BY <1>4, <2>1, <3>1
  <2>3. Within(Times(Lane, x, {1, 2}, 0), n)
    <3>1. {1, 2} \in SUBSET (1 .. f) /\ {1, 2} # {}
      OBVIOUS
    <3> QED
      BY <3>1, FormulasWithin
  <2>4. Within(elem2, n)
    BY <1>3, <1>5, <2>1, <2>3
  <2>5. Within(elem3, n)
    BY <1>3, <1>5, <2>1, <2>2
  <2>6. f # 2 => Within(elem4, n)
    BY <1>3, <1>5, <2>1, <2>2
  <2>7. /\ Prepared(p, x, r).os0 = IF f = 2 THEN <<elem2>> ELSE <<elem3>>
        /\ Prepared(p, x, r).os1 = IF f = 2 THEN <<>> ELSE <<elem4>>
    BY <1>11 DEF Prepared, Prepared2
  <2> HIDE DEF elem2, elem3, elem4, N
  <2> QED
    BY <1>6, <2>4, <2>5, <2>6, <2>7
<1> QED
  BY <1>9, <1>10, <1>11 DEF Party

LEMMA PackNothingLost ==
    ASSUME NEW ws \in Seq(Vec), NEW n \in Nat, AllWithin(ws, n)
    PROVE  Pack(ws, n) = ws
<1>1. n <= 8 * ((n + 7) \div 8) /\ 8 * ((n + 7) \div 8) \in Nat
  OBVIOUS
<1>2. ASSUME NEW k \in 1 .. Len(ws) PROVE Packed(ws[k], n) = ws[k]
  <2>1. ws[k] \in SUBSET Lane /\ Lane \subseteq Int
    BY ElementOfSeq, WAssumption DEF Vec, Lane
  <2>2. PICK m \in Nat : n <= m /\ m = 8 * ((n + 7) \div 8)
    BY <1>1
  <2>3. \A l \in ws[k] : l < n
    BY DEF AllWithin, Within
  <2>4. ASSUME NEW l \in ws[k] PROVE l < m
    <3>1. l \in Int /\ l < n
      BY <2>1, <2>3
    <3> QED
      BY ONLY <2>2, <3>1, n \in Nat
  <2> QED
    BY <2>2, <2>4 DEF Packed, Mask
<1>3. ws \in [1 .. Len(ws) -> Vec]
  BY LenProperties
<1>4. \A k \in 1 .. Len(ws) : Pack(ws, n)[k] = ws[k]
  BY <1>2 DEF Pack
<1> QED
  BY <1>3, <1>4 DEF Pack

-----------------------------------------------------------------------------
(***************************************************************************)
(* What one AND of the program is, wherever the parties are: gate g of     *)
(* instruction b works on the registers that the party had before b, and   *)
(* draws from the positions that its mark records.  From that follow the   *)
(* words that the party makes, and the share that it ends with.            *)
(***************************************************************************)
Plan(b)    == program[b].gates
Cell(b, g) == Plan(b)[g]
Fan(b, g)  == Len(Cell(b, g).ops)

Names(p, m, b, g)  == m \in DOMAIN marks[p] /\ marks[p][m].ip = b /\ marks[p][m].gate = g
Marked(p, b, g)    == \E m : Names(p, m, b, g)
Distinct(p)        ==
    \A b, g, m, k : Names(p, m, b, g) /\ Names(p, k, b, g) => m = k
Place(p, b, g)     == marks[p][CHOOSE m : Names(p, m, b, g)].pos

RightSeed(p, i) ==
    IF i = 0 THEN <<p, 0>> ELSE IF i = 1 THEN <<p, 1>>
    ELSE IF i = 2 THEN <<After(p), 0>> ELSE <<Before(p), 1>>

OperandsFor(p, b, g) ==
    [k \in 1 .. Fan(b, g) |-> MaskShare(log[p][b][Cell(b, g).ops[k]], Cell(b, g).n)]

DrawsFor(p, b, g) ==
    [i \in 0 .. 3 |-> [j \in 1 .. Draws(p, Fan(b, g))[i] |->
        {l \in Lane : /\ l < Cell(b, g).n
                      /\ RandomBit(tape, RightSeed(p, i), Place(p, b, g)[i] + j, l)}]]

WordsFor(p, b, g) == Prepared(p, OperandsFor(p, b, g), DrawsFor(p, b, g))

(* What p makes of them and of the words of its peers in finalize_mul. *)
ResultFor(p, b, g) ==
    Finalized(p, OperandsFor(p, b, g),
              IF p = 0 THEN WordsFor(1, b, g).os0 ELSE WordsFor(0, b, g).os0,
              IF p = 0 THEN WordsFor(2, b, g).os0 ELSE WordsFor(2, b, g).os1,
              WordsFor(p, b, g).add, WordsFor(p, b, g).add2)

(* The words of the gates of an instruction, gate by gate. *)
Os0For(p, b)  == [g \in 1 .. Len(Plan(b)) |-> WordsFor(p, b, g).os0]
Os1For(p, b)  == [g \in 1 .. Len(Plan(b)) |-> WordsFor(p, b, g).os1]
AddFor(p, b)  == [g \in 1 .. Len(Plan(b)) |-> WordsFor(p, b, g).add]
Add2For(p, b) == [g \in 1 .. Len(Plan(b)) |-> WordsFor(p, b, g).add2]

(* What p sends to q for instruction b. *)
SentFor(p, q, b) == IF p = 2 /\ q = 1 THEN Os1For(p, b) ELSE Os0For(p, b)

(* The results of the gates of an instruction. *)
ResultsFor(p, b) == [g \in 1 .. Len(Plan(b)) |-> ResultFor(p, b, g)]

(***************************************************************************)
(* The registers were old before an instruction and are regs when the      *)
(* first k of its gates have been finalized: a register holds the result   *)
(* of the last of them that wrote it, or what it held before.              *)
(***************************************************************************)
LastWriter(gates, k, h) == \A j \in h + 1 .. k : gates[j].out # gates[h].out

Updated(gates, res, k, old, regs) ==
    /\ \A r \in Reg : (\A h \in 1 .. k : gates[h].out # r) => regs[r] = old[r]
    /\ \A h \in 1 .. k : LastWriter(gates, k, h) =>
           regs[gates[h].out] = MaskShare(res[h], gates[h].n)

-----------------------------------------------------------------------------
(* How far a party is within its instruction: the gates that it has        *)
(* prepared, and the first of them that is not yet finalized.              *)
Made(p) == IF pc[p] = "prepare" THEN gate[p] - 1
           ELSE IF pc[p] \in Sent THEN Len(Gates(p)) ELSE 0

Open(p) == IF pc[p] = "finalize" THEN gate[p] ELSE 1

(* The registers and their history. *)
Logged(p) ==
    /\ Len(log[p]) = ip[p]
    /\ \A b \in 1 .. ip[p] - 1 : program[b].op = "ands" =>
           Updated(Plan(b), ResultsFor(p, b), Len(Plan(b)), log[p][b], log[p][b + 1])
    /\ IF pc[p] = "finalize"
       THEN Updated(Gates(p), ResultsFor(p, ip[p]), gate[p] - 1, log[p][ip[p]], S[p])
       ELSE S[p] = log[p][ip[p]]

(* Every AND that has been prepared has one mark. *)
Marking(p) ==
    /\ \A b \in 1 .. ip[p] - 1 : program[b].op = "ands" =>
           \A g \in 1 .. Len(Plan(b)) : Marked(p, b, g)
    /\ \A g \in 1 .. Made(p) : Marked(p, ip[p], g)
    /\ \A m \in DOMAIN marks[p] :
           \/ marks[p][m].ip < ip[p]
           \/ marks[p][m].ip = ip[p] /\ marks[p][m].gate <= Made(p)
    /\ Distinct(p)

(* What a party keeps for itself, of the gates that are open. *)
Keeping(p) ==
    /\ Joined(add_shares[p], Open(p), Made(p), AddFor(p, ip[p]))
    /\ Joined(add_shares_2[p], Open(p), Made(p), Add2For(p, ip[p]))
    /\ Len(and_operands[p]) = Made(p) + 1 - Open(p)
    /\ \A g \in Open(p) .. Made(p) :
           and_operands[p][g - Open(p) + 1] = OperandsFor(p, ip[p], g)

(* What it is about to send. *)
Sending(p) ==
    pc[p] \in {"prepare", "send"} =>
        /\ Joined(os[p][0], 1, Made(p), Os0For(p, ip[p]))
        /\ Joined(os[p][1], 1, Made(p), Os1For(p, ip[p]))

(* What it has received, of the gates that are open. *)
HasWords(p, q) ==
    IF q = Before(p) THEN pc[p] \in {"receive_second", "finalize"} ELSE pc[p] = "finalize"

Slot(q) == IF q = 2 THEN 2 ELSE 1

Received(p) ==
    /\ p # 2 => \A q \in Party \ {p} :
           /\ HasWords(p, q) =>
                Joined(os[p][Slot(q)], Open(p), Made(p), SentFor(q, p, ip[p]))
           /\ pc[p] \notin Batch => os[p][Slot(q)] = <<>>
    /\ p = 2 => os[p][2] = <<>>

(***************************************************************************)
(* What is on its way: the last message is of the last instruction that    *)
(* the sender has sent for, the one before it of the one before, and those *)
(* numbered 0 are seeds.                                                   *)
(***************************************************************************)
InFlight(p, q) ==
    \A i \in 1 .. Len(chan[p][q]) :
        LET b == WordsSent(p, q) - Len(chan[p][q]) + i
        IN  b >= 1 => Joined(chan[p][q][i].words, 1, Len(Plan(b)), SentFor(p, q, b))

(* The registers are shared properly to begin with. *)
Dealt == \A r \in Reg : Consistent([p \in Party |-> log[p][1][r]])

Own(p) == Logged(p) /\ Marking(p) /\ Keeping(p) /\ Sending(p) /\ Received(p)

(* No party has met another instruction than ANDS, which MultiReplicated    *)
(* does not execute.                                                       *)
Uniform(p) == \A b \in 1 .. ip[p] - 1 : program[b].op = "ands"

Batches ==
    /\ \A p \in Party : Own(p) /\ Uniform(p)
    /\ \A p, q \in Party : p # q => InFlight(p, q)
    /\ Dealt

-----------------------------------------------------------------------------
(***************************************************************************)
(* The gates of the program.                                               *)
(***************************************************************************)

(* One gate of the program. *)
LEMMA CellFacts ==
    ASSUME TypeOK, NEW b \in 1 .. Len(program), program[b].op = "ands"
    PROVE  /\ Len(Plan(b)) \in Nat /\ Len(Plan(b)) >= 1
           /\ \A g \in 1 .. Len(Plan(b)) :
                /\ Cell(b, g) \in Gate
                /\ Fan(b, g) \in Nat /\ Fan(b, g) >= 2
                /\ Cell(b, g).n \in Nat /\ Cell(b, g).out \in Reg
                /\ \A k \in 1 .. Fan(b, g) : Cell(b, g).ops[k] \in Reg
<1>1. program \in Programs
  BY DEF TypeOK
<1>2. Len(Plan(b)) \in Nat /\ Len(Plan(b)) >= 1
  BY <1>1, ProgramFacts DEF Plan
<1>3. ASSUME NEW g \in 1 .. Len(Plan(b))
      PROVE  /\ Cell(b, g) \in Gate
             /\ Fan(b, g) \in Nat /\ Fan(b, g) >= 2
  BY <1>1, ProgramFacts DEF Plan, Cell, Fan
<1>4. ASSUME NEW g \in 1 .. Len(Plan(b))
      PROVE  /\ Cell(b, g).n \in Nat /\ Cell(b, g).out \in Reg
             /\ Cell(b, g).ops \in Seq(Reg)
  BY <1>3, WAssumption DEF Gate
<1>5. ASSUME NEW g \in 1 .. Len(Plan(b)), NEW k \in 1 .. Fan(b, g)
      PROVE  Cell(b, g).ops[k] \in Reg
  BY <1>4, ElementOfSeq DEF Fan
<1> QED
  BY <1>2, <1>3, <1>4, <1>5

LEMMA OperandsForType ==
    ASSUME TypeOK, NEW b \in 1 .. Len(program), program[b].op = "ands",
           NEW g \in 1 .. Len(Plan(b)), NEW p \in Party, b \in 1 .. Len(log[p])
    PROVE  /\ OperandsFor(p, b, g) \in Seq(Share)
           /\ Len(OperandsFor(p, b, g)) = Fan(b, g)
           /\ Narrow(OperandsFor(p, b, g), Cell(b, g).n)
<1> DEFINE x == OperandsFor(p, b, g)
<1>1. Fan(b, g) \in Nat /\ \A k \in 1 .. Fan(b, g) : Cell(b, g).ops[k] \in Reg
  BY CellFacts
<1>2. log[p][b] \in [Reg -> Share]
  <2>1. log[p] \in Seq([Reg -> Share])
    BY DEF TypeOK
  <2> QED
    BY <2>1, ElementOfSeq
<1>3. \A k \in 1 .. Fan(b, g) :
        MaskShare(log[p][b][Cell(b, g).ops[k]], Cell(b, g).n) \in Share
  BY <1>1, <1>2, MaskShareType
<1>4. x \in [1 .. Fan(b, g) -> Share]
  BY <1>3 DEF OperandsFor
<1>5. x \in Seq(Share) /\ Len(x) = Fan(b, g)
  <2> HIDE DEF x
  <2> QED
    BY <1>1, <1>4, FunctionSeq
<1>6. ASSUME NEW k \in 1 .. Fan(b, g)
      PROVE  Within(x[k][0], Cell(b, g).n) /\ Within(x[k][1], Cell(b, g).n)
  <2>1. x[k] = MaskShare(log[p][b][Cell(b, g).ops[k]], Cell(b, g).n)
    BY DEF OperandsFor
  <2> HIDE DEF x
  <2> QED
    BY <2>1 DEF MaskShare, Mask, Within
<1>7. Narrow(x, Cell(b, g).n)
  <2> HIDE DEF x
  <2> QED
    BY <1>5, <1>6 DEF Narrow
<1> QED
  BY <1>5, <1>7

LEMMA DrawsForType ==
    ASSUME NEW b, NEW g, NEW p \in Party, NEW i \in 0 .. 3,
           NEW j \in 1 .. Draws(p, Fan(b, g))[i]
    PROVE  /\ DrawsFor(p, b, g)[i][j] \in Vec
           /\ Within(DrawsFor(p, b, g)[i][j], Cell(b, g).n)
  BY DEF DrawsFor, Vec, Within

LEMMA WordsForType ==
    ASSUME TypeOK, NEW b \in 1 .. Len(program), program[b].op = "ands",
           NEW g \in 1 .. Len(Plan(b)), NEW p \in Party, b \in 1 .. Len(log[p])
    PROVE  /\ WordsFor(p, b, g) \in PreparedWords
           /\ AllWithin(WordsFor(p, b, g).os0, Cell(b, g).n)
           /\ AllWithin(WordsFor(p, b, g).os1, Cell(b, g).n)
<1> DEFINE x == OperandsFor(p, b, g)
           r == DrawsFor(p, b, g)
           f == Fan(b, g)
           n == Cell(b, g).n
<1>1. Len(x) = f /\ Narrow(x, n)
  BY OperandsForType
<1>2. f \in Nat /\ f >= 2
  BY CellFacts
<1>3. \A i \in 0 .. 3 : \A j \in 1 .. Draws(p, f)[i] : r[i][j] \in Vec /\ Within(r[i][j], n)
  BY DrawsForType
<1> HIDE DEF x, r, f, n
<1>4. Prepared(p, x, r) \in PreparedWords
  BY <1>1, <1>2, <1>3, PreparedType
<1>5. AllWithin(Prepared(p, x, r).os0, n) /\ AllWithin(Prepared(p, x, r).os1, n)
  BY <1>1, <1>2, <1>3, PreparedWithin
<1> QED
  BY <1>4, <1>5 DEF WordsFor, x, r, f, n

(* prepare_mul makes as many words as finalize_mul takes.                  *)
LEMMA PreparedLengths ==
    ASSUME NEW p \in Party, NEW x, NEW f, Len(x) = f, f \in Nat, f >= 2, NEW r
    PROVE  /\ Len(Prepared(p, x, r).os0) = IF p = 2 THEN 1 ELSE NumMonomials(f)
           /\ Len(Prepared(p, x, r).os1) = IF p = 2 /\ f # 2 THEN 1 ELSE 0
           /\ Len(Prepared(p, x, r).add) = Taken(p, f).add
           /\ Len(Prepared(p, x, r).add2) = Taken(p, f).add2
<1>1. NumMonomials(f) \in Nat
  BY NumMonomialsType
<1>2. CASE p = 0
  BY <1>1, <1>2 DEF Prepared, Prepared0, Taken
<1>3. CASE p = 1
  BY <1>1, <1>3 DEF Prepared, Prepared1, Taken
<1>4. CASE p = 2
  BY <1>1, <1>4 DEF Prepared, Prepared2, Taken
<1> QED
  BY <1>2, <1>3, <1>4 DEF Party

-----------------------------------------------------------------------------
(***************************************************************************)
(* The history only grows, and what follows from it stays as it is.        *)
(***************************************************************************)
Grown(p) ==
    /\ program' = program /\ tape' = tape
    /\ \A b \in 1 .. Len(log[p]) : b \in 1 .. Len(log'[p]) /\ log'[p][b] = log[p][b]
    /\ \A m, b, g : Names(p, m, b, g) => Names(p, m, b, g)' /\ marks'[p][m] = marks[p][m]
    /\ Distinct(p)'

LEMMA StepHistory ==
    ASSUME NEW r \in Party, Step(r)
    PROVE  /\ program' = program /\ tape' = tape
           /\ PrepareMul(r) \/ marks' = marks
           /\ FinalizeMul(r) \/ (log' = log /\ S' = S /\ ip' = ip)
<1>1. CASE Reseed(r)
  BY <1>1 DEF Reseed
<1>2. ASSUME NEW from, NEW slot, NEW at, NEW next, ReceiveSeed(r, from, slot, at, next)
      PROVE  program' = program /\ tape' = tape /\ marks' = marks
             /\ log' = log /\ S' = S /\ ip' = ip
  BY <1>2 DEF ReceiveSeed
<1>3. CASE InitMul(r)
  BY <1>3 DEF InitMul
<1>4. CASE PrepareMul(r)
  BY <1>4 DEF PrepareMul
<1>5. CASE Send(r)
  BY <1>5 DEF Send
<1>6. ASSUME NEW from, NEW slot, NEW at, NEW next, Receive(r, from, slot, at, next)
      PROVE  program' = program /\ tape' = tape /\ marks' = marks
             /\ log' = log /\ S' = S /\ ip' = ip
  BY <1>6 DEF Receive
<1>7. CASE FinalizeMul(r)
  BY <1>7 DEF FinalizeMul
<1> QED
  BY <1>1, <1>2, <1>3, <1>4, <1>5, <1>6, <1>7, StepForms

LEMMA DistinctSame ==
    ASSUME NEW p, marks'[p] = marks[p], Distinct(p)
    PROVE  Distinct(p)' /\ \A m, b, g : Names(p, m, b, g) => Names(p, m, b, g)'
  BY DEF Distinct, Names

(* The mark of a gate that is being prepared is a new one.                 *)
LEMMA NewMark ==
    ASSUME TypeOK, NEW p \in Party, PrepareMul(p)
    PROVE  /\ \A m \in DOMAIN marks[p] : m \in DOMAIN marks'[p] /\ marks'[p][m] = marks[p][m]
           /\ \E m : /\ m \in DOMAIN marks'[p]
                     /\ marks'[p][m].ip = ip[p] /\ marks'[p][m].gate = gate[p]
                     /\ marks'[p][m].pos = [i \in 0 .. 3 |-> prng[p][i].pos]
                     /\ \A k \in DOMAIN marks'[p] : k \in DOMAIN marks[p] \/ k = m
<1>1. PICK mark : mark = [ip   |-> ip[p], gate |-> gate[p],
                          pos  |-> [i \in 0 .. 3 |-> prng[p][i].pos]]
  OBVIOUS
<1>2. marks \in [Party -> Seq(Mark)] /\ marks[p] \in Seq(Mark) /\ mark \in Mark
  <2>1. mark \in Mark
    <3>1. ip[p] \in Nat \ {0} /\ gate[p] \in Nat \ {0}
      BY DEF TypeOK
    <3>2. \A i \in 0 .. 3 : prng[p][i].pos \in Nat
      BY TypedParts
    <3> QED
      BY <1>1, <3>1, <3>2 DEF Mark
  <2>2. marks \in [Party -> Seq(Mark)]
    BY DEF TypeOK
  <2> QED
    BY <2>1, <2>2
<1>3. marks'[p] = Append(marks[p], mark)
  BY <1>1, <1>2 DEF PrepareMul
<1>4. PICK L : L = Len(marks[p])
  OBVIOUS
<1>5. /\ L \in Nat /\ DOMAIN marks[p] = 1 .. L /\ DOMAIN marks'[p] = 1 .. L + 1
      /\ marks'[p][L + 1] = mark
      /\ \A m \in 1 .. L : marks'[p][m] = marks[p][m]
  <2>1. L \in Nat /\ DOMAIN marks[p] = 1 .. L
    BY <1>2, <1>4, LenProperties
  <2>2. /\ Append(marks[p], mark) \in Seq(Mark)
        /\ Len(Append(marks[p], mark)) = L + 1
        /\ Append(marks[p], mark)[L + 1] = mark
        /\ \A m \in 1 .. L : Append(marks[p], mark)[m] = marks[p][m]
    BY <1>2, <1>4, AppendProperties
  <2>3. DOMAIN marks'[p] = 1 .. L + 1
    BY <1>3, <2>2, LenProperties
  <2> QED
    BY <1>3, <2>1, <2>2, <2>3
<1>6. /\ L + 1 \in 1 .. L + 1
      /\ \A m \in 1 .. L : m \in 1 .. L + 1
      /\ \A m \in 1 .. L + 1 : m \in 1 .. L \/ m = L + 1
  BY <1>5
<1>7. mark.ip = ip[p] /\ mark.gate = gate[p] /\ mark.pos = [i \in 0 .. 3 |-> prng[p][i].pos]
  BY <1>1
<1> QED
  BY <1>5, <1>6, <1>7

LEMMA MarksGrow ==
    ASSUME TypeOK, NEW p \in Party, PrepareMul(p), Marking(p)
    PROVE  /\ \A m, b, g : Names(p, m, b, g) => Names(p, m, b, g)' /\ marks'[p][m] = marks[p][m]
           /\ Distinct(p)'
<1>1. PICK new : /\ new \in DOMAIN marks'[p]
                 /\ marks'[p][new].ip = ip[p] /\ marks'[p][new].gate = gate[p]
                 /\ \A k \in DOMAIN marks'[p] : k \in DOMAIN marks[p] \/ k = new
  BY NewMark
<1>2. \A m \in DOMAIN marks[p] : m \in DOMAIN marks'[p] /\ marks'[p][m] = marks[p][m]
  BY NewMark
<1>3. \A m, b, g : Names(p, m, b, g) => Names(p, m, b, g)' /\ marks'[p][m] = marks[p][m]
  BY <1>2 DEF Names
<1>4. pc[p] = "prepare" /\ gate[p] \in Nat /\ ip[p] \in Nat
  BY DEF PrepareMul, TypeOK
<1>5. \A m \in DOMAIN marks[p] : ~(marks[p][m].ip = ip[p] /\ marks[p][m].gate = gate[p])
  <2>1. \A m \in DOMAIN marks[p] :
           \/ marks[p][m].ip < ip[p]
           \/ marks[p][m].ip = ip[p] /\ marks[p][m].gate <= gate[p] - 1
    BY <1>4 DEF Marking, Made
  <2> QED
    BY <1>4, <2>1
<1>6. Distinct(p)
  BY DEF Marking
<1>7. ASSUME NEW b, NEW g, NEW m, NEW k, Names(p, m, b, g)', Names(p, k, b, g)'
      PROVE  m = k
  <2>1. /\ m \in DOMAIN marks'[p] /\ marks'[p][m].ip = b /\ marks'[p][m].gate = g
        /\ k \in DOMAIN marks'[p] /\ marks'[p][k].ip = b /\ marks'[p][k].gate = g
    BY <1>7 DEF Names
  <2>2. CASE m \in DOMAIN marks[p] /\ k \in DOMAIN marks[p]
    <3>1. Names(p, m, b, g) /\ Names(p, k, b, g)
      BY <1>2, <2>1, <2>2 DEF Names
    <3> QED
      BY <1>6, <3>1 DEF Distinct
  <2>3. CASE m = new /\ k \in DOMAIN marks[p]
    BY <1>1, <1>2, <1>5, <2>1, <2>3
  <2>4. CASE m \in DOMAIN marks[p] /\ k = new
    BY <1>1, <1>2, <1>5, <2>1, <2>4
  <2> QED
    BY <1>1, <2>1, <2>2, <2>3, <2>4
<1>8. Distinct(p)'
  BY <1>7 DEF Distinct
<1> QED
  BY <1>3, <1>8

LEMMA LogGrows ==
    ASSUME TypeOK, TypeOK', NEW r \in Party, Step(r), NEW p \in Party
    PROVE  \A b \in 1 .. Len(log[p]) : b \in 1 .. Len(log'[p]) /\ log'[p][b] = log[p][b]
<1>1. log[p] \in Seq([Reg -> Share]) /\ S'[p] \in [Reg -> Share]
  BY DEF TypeOK
<1>2. log'[p] = log[p] \/ log'[p] = Append(log[p], S'[p])
  <2>1. CASE FinalizeMul(r)
    <3>1. \/ log' = log
          \/ log' = [log EXCEPT ![r] = Append(log[r], S'[r])]
      BY <2>1 DEF FinalizeMul
    <3> QED
      BY <3>1 DEF TypeOK
  <2>2. CASE log' = log
    BY <2>2
  <2> QED
    BY <2>1, <2>2, StepHistory
<1>3. PICK new : new = S'[p]
  OBVIOUS
<1>4. /\ Len(log[p]) \in Nat /\ Len(Append(log[p], new)) = Len(log[p]) + 1
      /\ \A b \in 1 .. Len(log[p]) : Append(log[p], new)[b] = log[p][b]
  BY <1>1, <1>3, AppendProperties, LenProperties
<1> QED
  BY <1>2, <1>3, <1>4

LEMMA StepGrown ==
    ASSUME TypeOK, TypeOK', NEW r \in Party, Step(r), NEW p \in Party, Marking(p)
    PROVE  Grown(p)
<1>1. Distinct(p)
  BY DEF Marking
<1>2. CASE marks'[p] = marks[p]
  BY <1>1, <1>2, DistinctSame, LogGrows, StepHistory DEF Grown
<1>3. CASE PrepareMul(r) /\ r = p
  BY <1>3, MarksGrow, LogGrows, StepHistory DEF Grown
<1>4. CASE PrepareMul(r) /\ r # p
  <2>1. marks'[p] = marks[p]
    BY <1>4 DEF PrepareMul, TypeOK
  <2> QED
    BY <1>2, <2>1
<1> QED
  BY <1>2, <1>3, <1>4, StepHistory

(* A gate that a party has prepared makes the same words ever after.       *)
LEMMA DataSame ==
    ASSUME NEW p \in Party, Grown(p), Distinct(p), NEW b, b \in 1 .. Len(log[p]), NEW g,
           Marked(p, b, g)
    PROVE  /\ Marked(p, b, g)' /\ (b \in 1 .. Len(log[p]))'
           /\ OperandsFor(p, b, g)' = OperandsFor(p, b, g)
           /\ DrawsFor(p, b, g)' = DrawsFor(p, b, g)
           /\ WordsFor(p, b, g)' = WordsFor(p, b, g)
<1>1. PICK m : Names(p, m, b, g)
  BY DEF Marked
<1>2. Names(p, m, b, g)' /\ marks'[p][m] = marks[p][m]
  BY <1>1 DEF Grown
<1>3. Marked(p, b, g)'
  BY <1>2 DEF Marked
<1>4. (CHOOSE k : Names(p, k, b, g)) = m
  BY <1>1 DEF Distinct
<1>5. (CHOOSE k : Names(p, k, b, g)') = m
  BY <1>2 DEF Distinct, Grown
<1>6. Place(p, b, g)' = Place(p, b, g)
  BY <1>2, <1>4, <1>5 DEF Place
<1>7. /\ Plan(b)' = Plan(b) /\ Cell(b, g)' = Cell(b, g) /\ Fan(b, g)' = Fan(b, g)
      /\ tape' = tape /\ log'[p][b] = log[p][b] /\ (b \in 1 .. Len(log[p]))'
  BY DEF Grown, Plan, Cell, Fan
<1>8. OperandsFor(p, b, g)' = OperandsFor(p, b, g)
  BY <1>7 DEF OperandsFor
<1>9. DrawsFor(p, b, g)' = DrawsFor(p, b, g)
  BY <1>6, <1>7 DEF DrawsFor, RightSeed
<1>10. WordsFor(p, b, g)' = WordsFor(p, b, g)
  BY <1>8, <1>9 DEF WordsFor
<1> QED
  BY <1>3, <1>7, <1>8, <1>9, <1>10

-----------------------------------------------------------------------------
(* What is received has been sent, and what is sent has been prepared.     *)
LEMMA ReceivedSent ==
    ASSUME TypeOK, Control, Flow, NEW p \in Party, NEW q \in Party, p # q, q # 2
    PROVE  WordsReceived(q, p) <= WordsSent(p, q)
<1>1. WordsSent(p, q) \in Nat /\ WordsReceived(q, p) \in Nat
  BY WordCounts
<1>2. Connection(p, q) /\ Len(chan[p][q]) \in Nat
  BY TypedParts, LenProperties DEF Flow
<1>3. CASE HasSeedFrom(q, p)
  BY <1>1, <1>2, <1>3 DEF Connection, OneIf
<1>4. CASE ~HasSeedFrom(q, p)
  <2>1. pc[q] \in {"reseed", "seed_next", "seed_prev"}
    BY <1>4 DEF HasSeedFrom
  <2>2. ip[q] = 1
    BY <2>1 DEF Control, InBatch
  <2>3. WordsReceived(q, p) = 0
    BY <2>1, <2>2 DEF WordsReceived, OneIf
  <2> QED
    BY <1>1, <2>3
<1> QED
  BY <1>3, <1>4

(* All that can be said of the ANDs of instruction b at party q once q has *)
(* prepared them.                                                          *)
Done(q, b) ==
    /\ b \in 1 .. Len(log[q]) /\ b \in 1 .. Len(program) /\ program[b].op = "ands"
    /\ \A g \in 1 .. Len(Plan(b)) : Marked(q, b, g)

LEMMA EarlierDone ==
    ASSUME TypeOK, Control, NEW q \in Party, Own(q), NEW b \in Nat \ {0}, b < ip[q],
           program[b].op = "ands"
    PROVE  Done(q, b)
<1>1. Len(log[q]) = ip[q] /\ ip[q] \in Nat
  BY DEF Own, Logged, TypeOK
<1>2. ip[q] <= Len(program) + 1 /\ Len(program) \in Nat
  BY GateFacts DEF Control, InBatch
<1>3. \A c \in 1 .. ip[q] - 1 : program[c].op = "ands" =>
         \A g \in 1 .. Len(Plan(c)) : Marked(q, c, g)
  BY DEF Own, Marking
<1>4. b \in 1 .. ip[q] - 1 /\ b \in 1 .. Len(program) /\ b \in 1 .. ip[q]
  BY <1>1, <1>2
<1> QED
  BY <1>1, <1>3, <1>4 DEF Done

LEMMA SentDone ==
    ASSUME TypeOK, Control, NEW q \in Party, Own(q), pc[q] \in Sent
    PROVE  Done(q, ip[q])
<1>1. Len(log[q]) = ip[q] /\ ip[q] \in Nat \ {0} /\ Len(program) \in Nat
  BY GateFacts DEF Own, Logged, TypeOK
<1>2. ip[q] <= Len(program) /\ program[ip[q]].op = "ands"
  BY DEF Control, InBatch, Batch, Sent
<1>3. Made(q) = Len(Plan(ip[q]))
  BY DEF Made, Sent, Gates, Plan
<1>4. \A g \in 1 .. Len(Plan(ip[q])) : Marked(q, ip[q], g)
  BY <1>3 DEF Own, Marking
<1> QED
  BY <1>1, <1>2, <1>4 DEF Done

LEMMA SenderDone ==
    ASSUME TypeOK, Control, NEW q \in Party, Own(q), Uniform(q), NEW p \in Party,
           NEW b \in Nat \ {0}, b <= WordsSent(q, p)
    PROVE  Done(q, b)
<1>1. ip[q] \in Nat
  BY DEF TypeOK
<1>2. b < ip[q] \/ (b = ip[q] /\ pc[q] \in {"receive_first", "receive_second", "finalize"})
  BY <1>1 DEF WordsSent, OneIf
<1>3. CASE b < ip[q]
  <2>1. program[b].op = "ands"
    BY <1>1, <1>3 DEF Uniform
  <2> QED
    BY <1>3, <2>1, EarlierDone
<1>4. CASE b = ip[q] /\ pc[q] \in {"receive_first", "receive_second", "finalize"}
  BY <1>4, SentDone DEF Sent
<1> QED
  BY <1>2, <1>3, <1>4

(* The next message that a party receives in the exchange is of its own    *)
(* instruction.                                                            *)
LEMMA HeadBatch ==
    ASSUME TypeOK, Control, Flow, NEW p \in Party, NEW q \in Party, p # q, p # 2,
           InFlight(q, p), chan[q][p] # <<>>, pc[p] \in Batch, ~HasWords(p, q)
    PROVE  /\ ip[p] <= WordsSent(q, p)
           /\ Joined(Head(chan[q][p]).words, 1, Len(Plan(ip[p])), SentFor(q, p, ip[p]))
<1>1. chan[q][p] \in Seq(Message) /\ Len(chan[q][p]) \in Nat
  BY TypedParts, LenProperties
<1>2. /\ Len(chan[q][p]) >= 1 /\ Head(chan[q][p]) = chan[q][p][1]
  BY <1>1, EmptySeq, HeadTailProperties
<1>3. ip[p] \in Nat \ {0} /\ ip[q] \in Nat \ {0}
  BY DEF TypeOK
<1>4. WordsReceived(p, q) = ip[p] - 1
  BY <1>3 DEF HasWords, WordsReceived, OneIf
<1>5. HasSeedFrom(p, q)
  BY DEF HasSeedFrom, Batch
<1>6. Connection(q, p) /\ WordsSent(q, p) \in Nat
  BY WordCounts DEF Flow
<1>7. Len(chan[q][p]) = OneIf(pc[q] # "reseed") - OneIf(TRUE)
                         + WordsSent(q, p) - (ip[p] - 1)
  BY <1>4, <1>5, <1>6 DEF Connection
<1>8. pc[q] # "reseed"
  <2> SUFFICES ASSUME pc[q] = "reseed" PROVE FALSE
    OBVIOUS
  <2>1. ip[q] = 1
    BY DEF Control, InBatch
  <2>2. WordsSent(q, p) = 0
    BY <2>1 DEF WordsSent, OneIf
  <2> QED
    BY <1>2, <1>3, <1>7, <2>2 DEF OneIf
<1>9. WordsSent(q, p) - Len(chan[q][p]) + 1 = ip[p]
  BY <1>1, <1>3, <1>6, <1>7, <1>8 DEF OneIf
<1>10. 1 \in 1 .. Len(chan[q][p]) /\ ip[p] >= 1
  BY <1>1, <1>2, <1>3
<1>11. ip[p] <= WordsSent(q, p)
  BY <1>1, <1>2, <1>3, <1>6, <1>9
<1> QED
  BY <1>2, <1>9, <1>10, <1>11 DEF InFlight

(* The data that the result of a gate at party p comes from is there.      *)
Ready(p, b) == \A q \in Party : p # 2 \/ q = p => Done(q, b)

(***************************************************************************)
(* What a party may rely on, whatever makes it so: the generators are      *)
(* seeded as they should be, what it has received has been prepared by its *)
(* peers, and the next message from one of them is the one for its batch.  *)
(***************************************************************************)
Relies(p, q) ==
    /\ \A b \in 1 .. ip[p] - 1 : program[b].op = "ands" => Done(q, b)
    /\ HasWords(p, q) => Done(q, ip[p])
    /\ pc[p] \in Batch /\ ~HasWords(p, q) /\ chan[q][p] # <<>> =>
           /\ Done(q, ip[p])
           /\ Joined(Head(chan[q][p]).words, 1, Len(Plan(ip[p])), SentFor(q, p, ip[p]))

Backed ==
    /\ \A p \in Party : SeedsHeld(p)
    /\ pc[2] \notin {"receive_first", "receive_second"}
    /\ \A p, q \in Party : p # q /\ p # 2 => Relies(p, q)

LEMMA BackedByFlow ==
    ASSUME TypeOK, Control, Flow, \A q \in Party : Own(q) /\ Uniform(q),
           \A q, r \in Party : q # r => InFlight(q, r)
    PROVE  Backed
<1>1. ASSUME NEW p \in Party, NEW q \in Party, p # q, p # 2
      PROVE  Relies(p, q)
  <2>1. ip[p] \in Nat \ {0}
    BY DEF TypeOK
  <2>2. /\ WordsReceived(p, q) \in Nat /\ WordsSent(q, p) \in Nat
        /\ ip[p] - 1 <= WordsReceived(p, q)
        /\ WordsReceived(p, q) <= WordsSent(q, p)
    BY <1>1, <2>1, WordCounts, ReceivedSent DEF WordsReceived, OneIf
  <2>3. ASSUME NEW b \in 1 .. ip[p] - 1 PROVE Done(q, b)
    <3>1. b \in Nat \ {0} /\ b <= WordsSent(q, p)
      BY <2>1, <2>2
    <3> QED
      BY <3>1, SenderDone
  <2>4. ASSUME HasWords(p, q) PROVE Done(q, ip[p])
    <3>1. WordsReceived(p, q) = ip[p]
      BY <1>1, <2>1, <2>4 DEF HasWords, WordsReceived, OneIf
    <3> QED
      BY <2>1, <2>2, <3>1, SenderDone
  <2>5. ASSUME pc[p] \in Batch, ~HasWords(p, q), chan[q][p] # <<>>
        PROVE  /\ Done(q, ip[p])
               /\ Joined(Head(chan[q][p]).words, 1, Len(Plan(ip[p])), SentFor(q, p, ip[p]))
    <3>1. /\ ip[p] <= WordsSent(q, p)
          /\ Joined(Head(chan[q][p]).words, 1, Len(Plan(ip[p])), SentFor(q, p, ip[p]))
      BY <1>1, <2>5, HeadBatch
    <3> QED
      BY <2>1, <3>1, SenderDone
  <2> QED
    BY <2>3, <2>4, <2>5 DEF Relies
<1> QED
  BY <1>1 DEF Backed, Flow

(* When a party has words of a peer, the peer has prepared them.           *)
LEMMA PeerDone ==
    ASSUME Backed, NEW q \in Party, NEW p \in Party, p # q, p # 2, HasWords(p, q)
    PROVE  Done(q, ip[p])
  BY DEF Backed, Relies

LEMMA EarlierReady ==
    ASSUME TypeOK, Control, Backed, \A q \in Party : Own(q), NEW p \in Party,
           NEW b \in Nat \ {0}, b < ip[p], program[b].op = "ands"
    PROVE  Ready(p, b)
<1>1. Done(p, b)
  BY EarlierDone
<1>2. ip[p] \in Nat
  BY DEF TypeOK
<1>3. \A q \in Party : p # 2 /\ q # p => Done(q, b)
  BY <1>2 DEF Backed, Relies
<1> QED
  BY <1>1, <1>3 DEF Ready

LEMMA FinalizeReady ==
    ASSUME TypeOK, Control, Backed, \A q \in Party : Own(q), NEW p \in Party,
           pc[p] = "finalize"
    PROVE  Ready(p, ip[p])
<1>1. Done(p, ip[p])
  BY SentDone DEF Sent
<1>2. ASSUME p # 2, NEW q \in Party, q # p PROVE Done(q, ip[p])
  <2>1. HasWords(p, q)
    BY DEF HasWords
  <2> QED
    BY <1>2, <2>1, PeerDone
<1> QED
  BY <1>1, <1>2 DEF Ready

(* Party 2 computes its results alone. *)
LEMMA TwoAlone ==
    ASSUME NEW x, NEW c, NEW d, NEW a, NEW a2, NEW c1, NEW d1
    PROVE  Finalized(2, x, c, d, a, a2) = Finalized(2, x, c1, d1, a, a2)
  BY DEF Finalized, FinalizedPair, FinalizedMany

LEMMA DoneSame ==
    ASSUME NEW q \in Party, Grown(q), Distinct(q), NEW b, Done(q, b)
    PROVE  /\ Done(q, b)'
           /\ \A g \in 1 .. Len(Plan(b)) :
                /\ WordsFor(q, b, g)' = WordsFor(q, b, g)
                /\ OperandsFor(q, b, g)' = OperandsFor(q, b, g)
                /\ DrawsFor(q, b, g)' = DrawsFor(q, b, g)
<1>1. Plan(b)' = Plan(b) /\ program' = program
  BY DEF Grown, Plan
<1>2. ASSUME NEW g \in 1 .. Len(Plan(b))
      PROVE  /\ Marked(q, b, g)' /\ (b \in 1 .. Len(log[q]))'
             /\ WordsFor(q, b, g)' = WordsFor(q, b, g)
             /\ OperandsFor(q, b, g)' = OperandsFor(q, b, g)
             /\ DrawsFor(q, b, g)' = DrawsFor(q, b, g)
  BY DataSame DEF Done
<1>3. (b \in 1 .. Len(log[q]))'
  BY DEF Done, Grown
<1> QED
  BY <1>1, <1>2, <1>3 DEF Done

LEMMA ResultSame ==
    ASSUME \A q \in Party : Grown(q) /\ Distinct(q), NEW p \in Party, NEW b, Ready(p, b)
    PROVE  /\ \A g \in 1 .. Len(Plan(b)) : ResultFor(p, b, g)' = ResultFor(p, b, g)
           /\ ResultsFor(p, b)' = ResultsFor(p, b)
<1>1. Plan(b)' = Plan(b)
  BY DEF Grown, Plan
<1>2. ASSUME NEW g \in 1 .. Len(Plan(b)) PROVE ResultFor(p, b, g)' = ResultFor(p, b, g)
  <2>1. WordsFor(p, b, g)' = WordsFor(p, b, g) /\ OperandsFor(p, b, g)' = OperandsFor(p, b, g)
    BY DoneSame DEF Ready
  <2>2. CASE p = 2
    BY <2>1, <2>2, TwoAlone DEF ResultFor
  <2>3. CASE p # 2
    <3>1. \A q \in Party : WordsFor(q, b, g)' = WordsFor(q, b, g)
      BY <2>3, DoneSame DEF Ready
    <3>2. /\ WordsFor(0, b, g)' = WordsFor(0, b, g)
          /\ WordsFor(1, b, g)' = WordsFor(1, b, g)
          /\ WordsFor(2, b, g)' = WordsFor(2, b, g)
      BY <3>1 DEF Party
    <3> QED
      BY <2>1, <3>2 DEF ResultFor
  <2> QED
    BY <2>2, <2>3
<1>3. ResultsFor(p, b)' = ResultsFor(p, b)
  BY <1>1, <1>2 DEF ResultsFor
<1> QED
  BY <1>2, <1>3

-----------------------------------------------------------------------------
(* Where a party stands within its instruction. *)
LEMMA OpenMade ==
    ASSUME TypeOK, Control, NEW p \in Party
    PROVE  /\ Open(p) \in Nat /\ Open(p) >= 1 /\ Made(p) \in Nat /\ Open(p) <= Made(p) + 1
           /\ \A g \in 1 .. Made(p) :
                /\ ip[p] \in 1 .. Len(program) /\ program[ip[p]].op = "ands"
                /\ g \in 1 .. Len(Plan(ip[p]))
<1>1. /\ gate[p] \in Nat \ {0} /\ ip[p] \in Nat \ {0} /\ Len(program) \in Nat
      /\ InBatch(p)
  BY GateFacts DEF TypeOK, Control
<1>2. CASE pc[p] \in Batch
  <2>1. /\ Len(Gates(p)) \in Nat /\ Len(Gates(p)) >= 1
        /\ ip[p] <= Len(program) /\ program[ip[p]].op = "ands"
    BY <1>2, <1>1, GateFacts DEF InBatch
  <2>2. pc[p] \in {"prepare", "finalize"} => gate[p] <= Len(Gates(p))
    BY <1>1 DEF InBatch
  <2>3. CASE pc[p] = "prepare"
    <3>1. Open(p) = 1 /\ Made(p) = gate[p] - 1
      BY <2>3 DEF Open, Made
    <3> QED
      BY <1>1, <2>1, <2>2, <2>3, <3>1 DEF Plan, Gates
  <2>4. CASE pc[p] = "finalize"
    <3>1. Open(p) = gate[p] /\ Made(p) = Len(Gates(p))
      BY <2>4 DEF Open, Made, Sent
    <3> QED
      BY <1>1, <2>1, <2>2, <2>4, <3>1 DEF Plan, Gates
  <2>5. CASE pc[p] \in {"send", "receive_first", "receive_second"}
    <3>1. Open(p) = 1 /\ Made(p) = Len(Gates(p))
      BY <2>5 DEF Open, Made, Sent
    <3> QED
      BY <1>1, <2>1, <3>1 DEF Plan, Gates
  <2> QED
    BY <1>2, <2>3, <2>4, <2>5 DEF Batch
<1>3. CASE pc[p] \notin Batch
  <2>1. Open(p) = 1 /\ Made(p) = 0
    BY <1>3 DEF Open, Made, Batch, Sent
  <2> QED
    BY <2>1
<1> QED
  BY <1>2, <1>3

(* The words of prepared gates do not change. *)
SameWords(p, b, n) ==
    \A g \in 1 .. n :
        /\ Os0For(p, b)'[g] = Os0For(p, b)[g] /\ Os1For(p, b)'[g] = Os1For(p, b)[g]
        /\ AddFor(p, b)'[g] = AddFor(p, b)[g] /\ Add2For(p, b)'[g] = Add2For(p, b)[g]
        /\ OperandsFor(p, b, g)' = OperandsFor(p, b, g)

LEMMA PiecesSame ==
    ASSUME NEW p \in Party, Grown(p), Distinct(p), NEW b, b \in 1 .. Len(log[p]), NEW n,
           \A g \in 1 .. n : g \in 1 .. Len(Plan(b)) /\ Marked(p, b, g)
    PROVE  SameWords(p, b, n)
<1> SUFFICES ASSUME NEW g \in 1 .. n
             PROVE  /\ Os0For(p, b)'[g] = Os0For(p, b)[g] /\ Os1For(p, b)'[g] = Os1For(p, b)[g]
                    /\ AddFor(p, b)'[g] = AddFor(p, b)[g] /\ Add2For(p, b)'[g] = Add2For(p, b)[g]
                    /\ OperandsFor(p, b, g)' = OperandsFor(p, b, g)
  BY DEF SameWords
<1>1. /\ WordsFor(p, b, g)' = WordsFor(p, b, g)
      /\ OperandsFor(p, b, g)' = OperandsFor(p, b, g)
  BY DataSame
<1>2. Plan(b)' = Plan(b) /\ g \in 1 .. Len(Plan(b))
  BY DEF Grown, Plan
<1> QED
  BY <1>1, <1>2 DEF Os0For, Os1For, AddFor, Add2For

LEMMA OwnWordsSame ==
    ASSUME TypeOK, Control, NEW p \in Party, Own(p), Grown(p), NEW b, b = ip[p]
    PROVE  SameWords(p, b, Made(p))
<1>1. \A g \in 1 .. Made(p) : Marked(p, b, g) /\ g \in 1 .. Len(Plan(b))
  BY OpenMade DEF Own, Marking
<1>2. b \in 1 .. Len(log[p]) /\ Distinct(p)
  <2>1. ip[p] \in Nat /\ ip[p] >= 1
    BY DEF TypeOK
  <2>2. Len(log[p]) = ip[p] /\ Distinct(p)
    BY DEF Own, Logged, Marking
  <2> QED
    BY <2>1, <2>2
<1>3. PICK n : n = Made(p)
  OBVIOUS
<1>4. SameWords(p, b, n)
  BY <1>1, <1>2, <1>3, PiecesSame
<1> QED
  BY <1>3, <1>4 DEF SameWords

LEMMA PeerWordsSame ==
    ASSUME NEW q \in Party, Grown(q), Distinct(q), NEW b, Done(q, b)
    PROVE  SameWords(q, b, Len(Plan(b)))
<1>1. PICK n : n = Len(Plan(b))
  OBVIOUS
<1>2. SameWords(q, b, n)
  BY <1>1, PiecesSame DEF Done
<1> QED
  BY <1>1, <1>2 DEF SameWords

(***************************************************************************)
(* What a step leaves alone when it is one of another party, or one that   *)
(* only moves on.                                                          *)
(***************************************************************************)
Framed(p) ==
    /\ S'[p] = S[p] /\ os'[p] = os[p] /\ add_shares'[p] = add_shares[p]
    /\ add_shares_2'[p] = add_shares_2[p] /\ and_operands'[p] = and_operands[p]
    /\ log'[p] = log[p] /\ marks'[p] = marks[p] /\ ip'[p] = ip[p]
    /\ Made(p)' = Made(p) /\ Open(p)' = Open(p)
    /\ pc[p] = "finalize" => pc'[p] = "finalize" /\ gate'[p] = gate[p]
    /\ pc'[p] = "finalize" /\ pc[p] # "finalize" => gate'[p] = 1
    /\ pc'[p] \in {"prepare", "send"} => pc[p] \in {"prepare", "send"}
    /\ p # 2 => \A q : HasWords(p, q)' => HasWords(p, q)
    /\ pc'[p] \notin Batch => pc[p] \notin Batch

LEMMA UpdatedNone ==
    ASSUME NEW gates, NEW res, NEW old, NEW regs, regs = old
    PROVE  Updated(gates, res, 0, old, regs)
  BY DEF Updated

(* What has been logged stays explained by the results.                    *)
LEMMA EarlierLogged ==
    ASSUME TypeOK, Control, Backed, \A q \in Party : Own(q) /\ Grown(q), NEW p \in Party
    PROVE  \A b \in 1 .. ip[p] - 1 : program'[b].op = "ands" =>
              Updated(Plan(b)', ResultsFor(p, b)', Len(Plan(b)'), log'[p][b], log'[p][b + 1])
<1>1. Logged(p) /\ ip[p] \in Nat \ {0} /\ program' = program /\ Grown(p)
  BY DEF Own, Grown, TypeOK
<1>2. \A q \in Party : Grown(q) /\ Distinct(q)
  BY DEF Own, Marking
<1>3. \A b : Plan(b)' = Plan(b)
  BY <1>1 DEF Plan
<1>4. ASSUME NEW b \in 1 .. ip[p] - 1, program'[b].op = "ands"
      PROVE  Updated(Plan(b)', ResultsFor(p, b)', Len(Plan(b)'), log'[p][b], log'[p][b + 1])
  <2>1. b \in Nat \ {0} /\ b < ip[p] /\ b \in 1 .. ip[p] /\ b + 1 \in 1 .. ip[p]
    BY <1>1
  <2>2. ResultsFor(p, b)' = ResultsFor(p, b)
    BY <1>1, <1>2, <1>4, <2>1, EarlierReady, ResultSame
  <2>3. Updated(Plan(b), ResultsFor(p, b), Len(Plan(b)), log[p][b], log[p][b + 1])
        /\ Len(log[p]) = ip[p]
    BY <1>1, <1>4 DEF Logged
  <2>4. log'[p][b] = log[p][b] /\ log'[p][b + 1] = log[p][b + 1]
    BY <1>1, <2>1, <2>3 DEF Grown
  <2> QED
    BY <1>1, <1>3, <2>2, <2>3, <2>4
<1> QED
  BY <1>4

LEMMA LoggedSame ==
    ASSUME TypeOK, Control, Backed, \A q \in Party : Own(q) /\ Grown(q), NEW p \in Party,
           S'[p] = S[p], log'[p] = log[p], ip'[p] = ip[p],
           pc[p] = "finalize" => pc'[p] = "finalize" /\ gate'[p] = gate[p],
           pc'[p] = "finalize" /\ pc[p] # "finalize" => gate'[p] = 1
    PROVE  Logged(p)'
<1>1. Logged(p) /\ ip[p] \in Nat \ {0} /\ program' = program
  BY DEF Own, Grown, TypeOK
<1>2. \A q \in Party : Grown(q) /\ Distinct(q)
  BY DEF Own, Marking
<1>3. \A b : Plan(b)' = Plan(b)
  BY <1>1 DEF Plan
<1>4. \A b \in 1 .. ip[p] - 1 : program'[b].op = "ands" =>
         Updated(Plan(b)', ResultsFor(p, b)', Len(Plan(b)'), log'[p][b], log'[p][b + 1])
  BY EarlierLogged
<1>5. CASE pc[p] = "finalize"
  <2>1. pc'[p] = "finalize" /\ gate'[p] = gate[p]
    BY <1>5
  <2>2. PICK b : b = ip[p]
    OBVIOUS
  <2>3. ResultsFor(p, b)' = ResultsFor(p, b)
    BY <1>2, <1>5, <2>2, FinalizeReady, ResultSame
  <2>4. Updated(Gates(p), ResultsFor(p, b), gate[p] - 1, log[p][b], S[p])
    BY <1>1, <1>5, <2>2 DEF Logged
  <2>5. Gates(p)' = Gates(p)
    BY <1>1 DEF Gates
  <2>6. Updated(Gates(p), ResultsFor(p, ip[p]), gate[p] - 1, log[p][ip[p]], S[p])'
    BY <1>1, <2>1, <2>2, <2>3, <2>4, <2>5
  <2> QED
    BY <1>1, <1>4, <2>1, <2>6 DEF Logged
<1>6. CASE pc[p] # "finalize"
  <2>1. S[p] = log[p][ip[p]]
    BY <1>1, <1>6 DEF Logged
  <2>2. CASE pc'[p] # "finalize"
    BY <1>1, <1>4, <2>1, <2>2 DEF Logged
  <2>3. CASE pc'[p] = "finalize"
    <3>1. gate'[p] - 1 = 0
      BY <1>6, <2>3
    <3>2. Updated(Gates(p), ResultsFor(p, ip[p]), gate[p] - 1, log[p][ip[p]], S[p])'
      BY <1>1, <2>1, <3>1, UpdatedNone
    <3> QED
      BY <1>1, <1>4, <2>3, <3>2 DEF Logged
  <2> QED
    BY <2>2, <2>3
<1> QED
  BY <1>5, <1>6

LEMMA MarkingSame ==
    ASSUME NEW p \in Party, Marking(p), Grown(p),
           marks'[p] = marks[p], ip'[p] = ip[p], Made(p)' = Made(p)
    PROVE  Marking(p)'
<1>1. /\ \A b, g : Marked(p, b, g) => Marked(p, b, g)'
      /\ marks'[p] = marks[p] /\ ip'[p] = ip[p] /\ Made(p)' = Made(p)
      /\ \A b : Plan(b)' = Plan(b)
      /\ program' = program
  BY DEF Grown, Marked, Plan
<1>2. Distinct(p)'
  BY DEF Grown
<1> QED
  BY <1>1, <1>2 DEF Marking

LEMMA KeepingSame ==
    ASSUME TypeOK, Control, NEW p \in Party, Own(p), Grown(p),
           add_shares'[p] = add_shares[p], add_shares_2'[p] = add_shares_2[p],
           and_operands'[p] = and_operands[p], ip'[p] = ip[p],
           Open(p)' = Open(p), Made(p)' = Made(p)
    PROVE  Keeping(p)'
<1>1. PICK b, k, n : b = ip[p] /\ k = Open(p) /\ n = Made(p)
  OBVIOUS
<1>2. /\ add_shares'[p] = add_shares[p] /\ add_shares_2'[p] = add_shares_2[p]
      /\ and_operands'[p] = and_operands[p]
      /\ ip'[p] = b /\ Open(p)' = k /\ Made(p)' = n
  BY <1>1
<1>3. SameWords(p, b, n)
  BY <1>1, OwnWordsSame DEF SameWords
<1>4. k \in Nat /\ k >= 1 /\ n \in Nat
  BY <1>1, OpenMade
<1>5. \A g \in k .. n : g \in 1 .. n
  BY <1>4
<1>6. /\ Joined(add_shares[p], k, n, AddFor(p, b))
      /\ Joined(add_shares_2[p], k, n, Add2For(p, b))
      /\ Len(and_operands[p]) = n + 1 - k
      /\ \A g \in k .. n : and_operands[p][g - k + 1] = OperandsFor(p, b, g)
  BY <1>1 DEF Own, Keeping
<1>7. Joined(add_shares'[p], k, n, AddFor(p, b)')
  BY <1>2, <1>3, <1>5, <1>6, JoinedSame DEF SameWords
<1>8. Joined(add_shares_2'[p], k, n, Add2For(p, b)')
  BY <1>2, <1>3, <1>5, <1>6, JoinedSame DEF SameWords
<1>9. \A g \in k .. n : and_operands'[p][g - k + 1] = OperandsFor(p, b, g)'
  BY <1>2, <1>3, <1>5, <1>6 DEF SameWords
<1> QED
  BY <1>2, <1>6, <1>7, <1>8, <1>9 DEF Keeping

LEMMA FramedSending ==
    ASSUME TypeOK, Control, NEW p \in Party, Own(p), Grown(p), Framed(p)
    PROVE  Sending(p)'
<1> SUFFICES ASSUME pc'[p] \in {"prepare", "send"}
             PROVE  /\ Joined(os[p][0], 1, Made(p), Os0For(p, ip[p]))'
                    /\ Joined(os[p][1], 1, Made(p), Os1For(p, ip[p]))'
  BY DEF Sending
<1>1. PICK b, n : b = ip[p] /\ n = Made(p)
  OBVIOUS
<1>2. os'[p] = os[p] /\ ip'[p] = b /\ Made(p)' = n /\ pc[p] \in {"prepare", "send"}
  BY <1>1 DEF Framed
<1>3. SameWords(p, b, n)
  BY <1>1, OwnWordsSame DEF SameWords
<1>4. Joined(os[p][0], 1, n, Os0For(p, b)) /\ Joined(os[p][1], 1, n, Os1For(p, b))
  BY <1>1, <1>2 DEF Own, Sending
<1>5. Joined(os'[p][0], 1, n, Os0For(p, b)')
  BY <1>2, <1>3, <1>4, JoinedSame DEF SameWords
<1>6. Joined(os'[p][1], 1, n, Os1For(p, b)')
  BY <1>2, <1>3, <1>4, JoinedSame DEF SameWords
<1> QED
  BY <1>2, <1>5, <1>6

LEMMA SentSame ==
    ASSUME NEW q \in Party, Grown(q), Distinct(q), NEW b, Done(q, b), NEW p
    PROVE  \A g \in 1 .. Len(Plan(b)) : SentFor(q, p, b)'[g] = SentFor(q, p, b)[g]
<1>1. SameWords(q, b, Len(Plan(b)))
  BY PeerWordsSame
<1> QED
  BY <1>1 DEF SameWords, SentFor

LEMMA FramedReceived ==
    ASSUME TypeOK, Control, Backed, \A q \in Party : Own(q) /\ Grown(q),
           NEW p \in Party, Framed(p)
    PROVE  Received(p)'
<1>1. PICK b, k, n : b = ip[p] /\ k = Open(p) /\ n = Made(p)
  OBVIOUS
<1>2. /\ os'[p] = os[p] /\ ip'[p] = b /\ Open(p)' = k /\ Made(p)' = n
      /\ pc'[p] \notin Batch => pc[p] \notin Batch
      /\ Received(p)
  BY <1>1 DEF Framed, Own
<1>3. ASSUME p # 2, NEW q \in Party \ {p}, HasWords(p, q)'
      PROVE  Joined(os'[p][Slot(q)], k, n, SentFor(q, p, b)')
  <2>1. HasWords(p, q)
    BY <1>3 DEF Framed
  <2>2. Joined(os[p][Slot(q)], k, n, SentFor(q, p, b))
    BY <1>1, <1>2, <1>3, <2>1 DEF Received
  <2>3. Done(q, b)
    BY <1>1, <1>3, <2>1, PeerDone
  <2>4. \A g \in 1 .. Len(Plan(b)) : SentFor(q, p, b)'[g] = SentFor(q, p, b)[g]
    BY <2>3, SentSame DEF Own, Marking
  <2>5. \A g \in k .. n : g \in 1 .. Len(Plan(b))
    <3>1. \A g \in 1 .. n : g \in 1 .. Len(Plan(b))
      BY <1>1, OpenMade
    <3>2. k \in Nat /\ k >= 1 /\ n \in Nat
      BY <1>1, OpenMade
    <3>3. \A g \in k .. n : g \in 1 .. n
      BY <3>2
    <3> QED
      BY <3>1, <3>3
  <2>6. \A g \in k .. n : SentFor(q, p, b)[g] = SentFor(q, p, b)'[g]
    BY <2>4, <2>5
  <2> QED
    BY <1>2, <2>2, <2>6, JoinedSame
<1>4. ASSUME p # 2, NEW q \in Party \ {p}, pc'[p] \notin Batch
      PROVE  os'[p][Slot(q)] = <<>>
  BY <1>2, <1>4 DEF Received
<1>5. p = 2 => os'[p][2] = <<>>
  BY <1>2 DEF Received
<1> QED
  BY <1>2, <1>3, <1>4, <1>5 DEF Received, Slot

LEMMA FramedOwn ==
    ASSUME TypeOK, Control, Backed, \A q \in Party : Own(q) /\ Grown(q),
           NEW p \in Party, Framed(p)
    PROVE  Own(p)'
<1>1. Own(p) /\ Grown(p)
  OBVIOUS
<1>2. Logged(p)'
  BY LoggedSame DEF Framed
<1>3. Marking(p)'
  BY <1>1, MarkingSame DEF Framed, Own
<1>4. Keeping(p)'
  BY <1>1, KeepingSame DEF Framed
<1> QED
  BY <1>1, <1>2, <1>3, <1>4, FramedSending, FramedReceived DEF Own

-----------------------------------------------------------------------------
(* The variables of a party that its own steps change only. *)
Alone(p) ==
    /\ S'[p] = S[p] /\ os'[p] = os[p] /\ add_shares'[p] = add_shares[p]
    /\ add_shares_2'[p] = add_shares_2[p] /\ and_operands'[p] = and_operands[p]
    /\ log'[p] = log[p] /\ marks'[p] = marks[p] /\ ip'[p] = ip[p]
    /\ gate'[p] = gate[p] /\ pc'[p] = pc[p]

LEMMA OthersAlone ==
    ASSUME TypeOK, NEW r \in Party, Step(r), NEW p \in Party, p # r
    PROVE  Alone(p)
<1>1. CASE Reseed(r)
  BY <1>1 DEF Reseed, TypeOK, Alone, kept
<1>2. ASSUME NEW from, NEW slot, NEW at, NEW next, ReceiveSeed(r, from, slot, at, next)
      PROVE  Alone(p)
  BY <1>2 DEF ReceiveSeed, TypeOK, Alone, kept
<1>3. CASE InitMul(r)
  BY <1>3 DEF InitMul, TypeOK, Alone
<1>4. CASE PrepareMul(r)
  <2>1. gate'[p] = gate[p] /\ pc'[p] = pc[p]
    BY <1>4 DEF PrepareMul, TypeOK
  <2>2. /\ os'[p] = os[p] /\ add_shares'[p] = add_shares[p]
        /\ add_shares_2'[p] = add_shares_2[p]
    BY <1>4 DEF PrepareMul, TypeOK
  <2>3. /\ S'[p] = S[p] /\ and_operands'[p] = and_operands[p] /\ log'[p] = log[p]
        /\ marks'[p] = marks[p] /\ ip'[p] = ip[p]
    BY <1>4 DEF PrepareMul, TypeOK
  <2> QED
    BY <2>1, <2>2, <2>3 DEF Alone
<1>5. CASE Send(r)
  BY <1>5 DEF Send, TypeOK, Alone, kept
<1>6. ASSUME NEW from, NEW slot, NEW at, NEW next, Receive(r, from, slot, at, next)
      PROVE  Alone(p)
  BY <1>6 DEF Receive, TypeOK, Alone, kept
<1>7. CASE FinalizeMul(r)
  <2>1. gate'[p] = gate[p] /\ pc'[p] = pc[p] /\ ip'[p] = ip[p] /\ log'[p] = log[p]
    <3>1. CASE gate[r] < Len(Gates(r))
      BY <1>7, <3>1 DEF FinalizeMul, TypeOK
    <3>2. CASE ~(gate[r] < Len(Gates(r)))
      BY <1>7, <3>2 DEF FinalizeMul, TypeOK
    <3> QED
      BY <3>1, <3>2
  <2>2. /\ os'[p] = os[p] /\ add_shares'[p] = add_shares[p]
        /\ add_shares_2'[p] = add_shares_2[p]
    BY <1>7 DEF FinalizeMul, TypeOK
  <2>3. S'[p] = S[p] /\ and_operands'[p] = and_operands[p] /\ marks'[p] = marks[p]
    BY <1>7 DEF FinalizeMul, TypeOK
  <2> QED
    BY <2>1, <2>2, <2>3 DEF Alone
<1> QED
  BY <1>1, <1>2, <1>3, <1>4, <1>5, <1>6, <1>7, StepForms

LEMMA AloneFramed ==
    ASSUME NEW p \in Party, Alone(p), program' = program
    PROVE  Framed(p)
<1>1. Gates(p)' = Gates(p)
  BY DEF Gates, Alone
<1>2. Made(p)' = Made(p) /\ Open(p)' = Open(p)
  BY <1>1 DEF Made, Open, Alone
<1>3. \A q : HasWords(p, q)' => HasWords(p, q)
  BY DEF HasWords, Alone
<1> QED
  BY <1>2, <1>3 DEF Framed, Alone

(* The constructor does not touch the registers and streams.               *)
LEMMA SeedingFramed ==
    ASSUME TypeOK, NEW p \in Party, NEW next, next \in {"seed_next", "seed_prev", "idle"},
           pc[p] \in {"reseed", "seed_next", "seed_prev"}, pc' = [pc EXCEPT ![p] = next],
           UNCHANGED <<program, ip, gate, S, os, kept, log, marks>>
    PROVE  Framed(p)
<1>1. pc'[p] = next
  BY DEF TypeOK
<1>2. Made(p)' = Made(p) /\ Open(p)' = Open(p)
  BY <1>1 DEF Made, Open, Sent
<1>3. \A q : ~HasWords(p, q)'
  BY <1>1 DEF HasWords
<1>4. pc[p] \notin Batch /\ pc[p] # "finalize"
      /\ pc'[p] # "finalize" /\ pc'[p] \notin {"prepare", "send"}
  BY <1>1 DEF Batch
<1> QED
  BY <1>2, <1>3, <1>4 DEF Framed, kept

LEMMA SendFramed ==
    ASSUME TypeOK, Control, NEW p \in Party, Send(p)
    PROVE  Framed(p)
<1>1. pc[p] = "send" /\ pc'[p] = (IF p = 2 THEN "finalize" ELSE "receive_first")
      /\ UNCHANGED <<program, tape, ip, gate, prng, S, os, kept, log, marks>>
  BY DEF Send, TypeOK
<1>2. gate[p] = 1
  BY <1>1 DEF Control, InBatch
<1>3. Made(p)' = Made(p) /\ Open(p)' = Open(p)
  BY <1>1, <1>2 DEF Made, Open, Sent, Gates
<1>4. p # 2 => \A q : ~HasWords(p, q)'
  BY <1>1 DEF HasWords
<1>5. pc[p] # "finalize" /\ pc'[p] \notin {"prepare", "send"} /\ pc'[p] \in Batch
  BY <1>1 DEF Batch
<1> QED
  BY <1>1, <1>2, <1>3, <1>4, <1>5 DEF Framed, kept

-----------------------------------------------------------------------------
(***************************************************************************)
(* init_mul starts a batch with every vector empty.                        *)
(***************************************************************************)

LEMMA NothingJoined ==
    \A c : Joined(<<>>, 1, 0, c)
<1>1. <<>> \in Seq(Vec) /\ 1 \in Nat /\ 1 - 1 = 0
  BY PairSeq
<1> QED
  BY <1>1, JoinedNone

LEMMA InitMulOwn ==
    ASSUME TypeOK, Control, Backed, \A q \in Party : Own(q) /\ Grown(q),
           NEW p \in Party, InitMul(p)
    PROVE  Own(p)'
<1>1. /\ pc[p] = "idle" /\ pc'[p] = "prepare" /\ gate'[p] = 1
      /\ \A i \in 0 .. 2 : os'[p][i] = <<>>
      /\ add_shares'[p] = <<>> /\ add_shares_2'[p] = <<>> /\ and_operands'[p] = <<>>
      /\ S' = S /\ log' = log /\ ip' = ip /\ marks' = marks
  BY DEF InitMul, TypeOK
<1>2. Made(p) = 0 /\ Made(p)' = 0 /\ Open(p)' = 1
  BY <1>1 DEF Made, Open, Sent
<1>3. Own(p) /\ Grown(p)
  OBVIOUS
<1>4. Logged(p)'
  BY <1>1, LoggedSame
<1>5. Marking(p)'
  BY <1>1, <1>2, <1>3, MarkingSame DEF Own
<1>6. Keeping(p)'
  <2>1. Len(<<>>) = 0
    BY PairSeq
  <2>2. \A g \in 1 .. 0 : FALSE
    OBVIOUS
  <2>3. Len(and_operands'[p]) = 0 + 1 - 1
    BY <1>1, <2>1
  <2> QED
    BY <1>1, <1>2, <2>2, <2>3, NothingJoined DEF Keeping
<1>7. Sending(p)'
  BY <1>1, <1>2, NothingJoined DEF Sending
<1>8. Received(p)'
  BY <1>1 DEF Received, HasWords, Batch
<1> QED
  BY <1>4, <1>5, <1>6, <1>7, <1>8 DEF Own

(* prepare_mul makes the words that the mark of the gate stands for.       *)
LEMMA PreparedAsPlanned ==
    ASSUME TypeOK, Control, Backed, NEW p \in Party, Own(p), Grown(p), PrepareMul(p),
           NEW b, b = ip[p], NEW g, g = gate[p]
    PROVE  /\ Marked(p, b, g)'
           /\ OperandsFor(p, b, g)' = Operands(p)
           /\ WordsFor(p, b, g)' = Prepared(p, Operands(p), Draw(p))
<1>1. PICK m : /\ m \in DOMAIN marks'[p]
               /\ marks'[p][m].ip = b /\ marks'[p][m].gate = g
               /\ marks'[p][m].pos = [i \in 0 .. 3 |-> prng[p][i].pos]
  BY NewMark
<1>2. Names(p, m, b, g)'
  BY <1>1 DEF Names
<1>3. (CHOOSE k : Names(p, k, b, g)') = m
  BY <1>2 DEF Grown, Distinct
<1>4. \A i \in 0 .. 3 : Place(p, b, g)'[i] = prng[p][i].pos
  BY <1>1, <1>3 DEF Place
<1>5. /\ pc[p] = "prepare" /\ program' = program /\ tape' = tape /\ log' = log
  BY DEF PrepareMul
<1>6. /\ Cell(b, g)' = ThisGate(p) /\ Fan(b, g)' = FanIn(p)
  BY <1>5 DEF Cell, Fan, Plan, ThisGate, FanIn, Gates
<1>7. log'[p][b] = S[p]
  BY <1>5 DEF Own, Logged
<1>8. OperandsFor(p, b, g)' = Operands(p)
  BY <1>6, <1>7 DEF OperandsFor, Operands, Cell, Fan
<1>9. \A i \in 0 .. 3 : RightSeed(p, i) = prng[p][i].seed
  <2>1. SeedsHeld(p)
    BY DEF Backed
  <2>2. \A i \in 0 .. 3 : i = 0 \/ i = 1 \/ i = 2 \/ i = 3
    OBVIOUS
  <2> QED
    BY <1>5, <2>1, <2>2 DEF SeedsHeld, RightSeed
<1>10. DrawsFor(p, b, g)' = Draw(p)
  <2>1. ASSUME NEW i \in 0 .. 3, NEW j \in 1 .. Draws(p, FanIn(p))[i]
        PROVE  {l \in Lane : /\ l < ThisGate(p).n
                             /\ RandomBit(tape, RightSeed(p, i), Place(p, b, g)'[i] + j, l)}
               = Drawn(p, i, j)
    <3>1. Place(p, b, g)'[i] = prng[p][i].pos /\ RightSeed(p, i) = prng[p][i].seed
      BY <1>4, <1>9
    <3> QED
      BY <3>1 DEF Drawn
  <2>2. DrawsFor(p, b, g)' =
          [i \in 0 .. 3 |-> [j \in 1 .. Draws(p, FanIn(p))[i] |->
             {l \in Lane : /\ l < ThisGate(p).n
                           /\ RandomBit(tape, RightSeed(p, i), Place(p, b, g)'[i] + j, l)}]]
    BY <1>5, <1>6 DEF DrawsFor
  <2> QED
    BY <2>1, <2>2 DEF Draw
<1>11. WordsFor(p, b, g)' = Prepared(p, Operands(p), Draw(p))
  BY <1>8, <1>10 DEF WordsFor
<1> QED
  BY <1>2, <1>8, <1>11 DEF Marked

-----------------------------------------------------------------------------
(***************************************************************************)
(* prepare_mul adds the words of one gate to every vector.                 *)
(***************************************************************************)

(* Nothing that prepare_mul computes is lost when it is packed. *)
LEMMA PreparedPacked ==
    ASSUME TypeOK, Control, NEW p \in Party, pc[p] = "prepare", NEW done,
           done = Prepared(p, Operands(p), Draw(p))
    PROVE  /\ done.os0 \in Seq(Vec) /\ done.os1 \in Seq(Vec)
           /\ done.add \in Seq(Vec) /\ done.add2 \in Seq(Vec)
           /\ Pack(done.os0, ThisGate(p).n) = done.os0
           /\ Pack(done.os1, ThisGate(p).n) = done.os1
<1>1. PICK x, r, f, n : x = Operands(p) /\ r = Draw(p) /\ f = FanIn(p) /\ n = ThisGate(p).n
  OBVIOUS
<1>2. f \in Nat /\ f >= 2 /\ n \in Nat
  BY <1>1, GateFacts, WAssumption DEF Gate
<1>3. Len(x) = f
  BY <1>1, OperandsType
<1>4. Narrow(x, n)
  <2>1. \A i \in 1 .. f : Within(Operands(p)[i][0], n) /\ Within(Operands(p)[i][1], n)
    BY <1>1 DEF Operands, MaskShare, Mask, Within
  <2> QED
    BY <1>1, <1>3, <2>1 DEF Narrow
<1>5. \A i \in 0 .. 3 : \A j \in 1 .. Draws(p, f)[i] : Within(r[i][j], n)
  BY <1>1 DEF Draw, Drawn, Within
<1>6. done = Prepared(p, x, r)
  BY <1>1
<1>7. AllWithin(done.os0, n) /\ AllWithin(done.os1, n)
  BY <1>2, <1>3, <1>4, <1>5, <1>6, PreparedWithin
<1>8. /\ done.os0 \in Seq(Vec) /\ done.os1 \in Seq(Vec)
      /\ done.add \in Seq(Vec) /\ done.add2 \in Seq(Vec)
  BY PreparedHere DEF PreparedWords
<1> QED
  BY <1>1, <1>2, <1>7, <1>8, PackNothingLost

LEMMA PrepareAppends ==
    ASSUME TypeOK, NEW p \in Party, PrepareMul(p), NEW done,
           done = Prepared(p, Operands(p), Draw(p)),
           Pack(done.os0, ThisGate(p).n) = done.os0, Pack(done.os1, ThisGate(p).n) = done.os1
    PROVE  /\ os'[p][0] = os[p][0] \o done.os0 /\ os'[p][1] = os[p][1] \o done.os1
           /\ os'[p][2] = os[p][2]
           /\ add_shares'[p] = add_shares[p] \o done.add
           /\ add_shares_2'[p] = add_shares_2[p] \o done.add2
           /\ and_operands'[p] = Append(and_operands[p], Operands(p))
<1>2. os' = [os EXCEPT ![p][0] = @ \o Pack(done.os0, ThisGate(p).n),
                       ![p][1] = @ \o Pack(done.os1, ThisGate(p).n)]
  BY DEF PrepareMul
<1>3. /\ add_shares' = [add_shares EXCEPT ![p] = @ \o done.add]
      /\ add_shares_2' = [add_shares_2 EXCEPT ![p] = @ \o done.add2]
      /\ and_operands' = [and_operands EXCEPT ![p] = Append(@, Operands(p))]
  BY DEF PrepareMul
<1>5. /\ os'[p][0] = os[p][0] \o done.os0 /\ os'[p][1] = os[p][1] \o done.os1
      /\ os'[p][2] = os[p][2]
  <2>1. os \in [Party -> [0 .. 2 -> Seq(Vec)]]
    BY DEF TypeOK
  <2>2. PICK w0, w1 : w0 = Pack(done.os0, ThisGate(p).n) /\ w1 = Pack(done.os1, ThisGate(p).n)
    OBVIOUS
  <2>3. os' = [os EXCEPT ![p][0] = os[p][0] \o w0, ![p][1] = os[p][1] \o w1]
    BY <1>2, <2>2
  <2>4. PICK v0, v1 : v0 = os[p][0] \o w0 /\ v1 = os[p][1] \o w1
    OBVIOUS
  <2>5. os' = [os EXCEPT ![p][0] = v0, ![p][1] = v1]
    BY <2>3, <2>4
  <2>6. os'[p][0] = v0 /\ os'[p][1] = v1 /\ os'[p][2] = os[p][2]
    BY <2>1, <2>5
  <2> QED
    BY <2>2, <2>4, <2>6
<1>6. /\ add_shares'[p] = add_shares[p] \o done.add
      /\ add_shares_2'[p] = add_shares_2[p] \o done.add2
      /\ and_operands'[p] = Append(and_operands[p], Operands(p))
  BY <1>3 DEF TypeOK
<1> QED
  BY <1>5, <1>6

LEMMA PrepareEffect ==
    ASSUME TypeOK, Control, NEW p \in Party, PrepareMul(p), NEW done,
           done = Prepared(p, Operands(p), Draw(p))
    PROVE  /\ os'[p][0] = os[p][0] \o done.os0 /\ os'[p][1] = os[p][1] \o done.os1
           /\ os'[p][2] = os[p][2]
           /\ add_shares'[p] = add_shares[p] \o done.add
           /\ add_shares_2'[p] = add_shares_2[p] \o done.add2
           /\ and_operands'[p] = Append(and_operands[p], Operands(p))
           /\ S' = S /\ log' = log /\ ip' = ip
           /\ Made(p) = gate[p] - 1 /\ Made(p)' = gate[p]
           /\ Open(p) = 1 /\ Open(p)' = 1
           /\ pc[p] = "prepare" /\ pc'[p] \in {"prepare", "send"}
<1>1. pc[p] = "prepare"
  BY DEF PrepareMul
<1>3. /\ S' = S /\ log' = log /\ ip' = ip /\ program' = program
  BY DEF PrepareMul
<1>4. /\ Pack(done.os0, ThisGate(p).n) = done.os0 /\ Pack(done.os1, ThisGate(p).n) = done.os1
  BY <1>1, PreparedPacked
<1>5. /\ os'[p][0] = os[p][0] \o done.os0 /\ os'[p][1] = os[p][1] \o done.os1
      /\ os'[p][2] = os[p][2]
      /\ add_shares'[p] = add_shares[p] \o done.add
      /\ add_shares_2'[p] = add_shares_2[p] \o done.add2
      /\ and_operands'[p] = Append(and_operands[p], Operands(p))
  BY <1>4, PrepareAppends
<1>7. /\ Made(p) = gate[p] - 1 /\ Open(p) = 1
  BY <1>1 DEF Made, Open
<1>8. /\ gate[p] \in Nat /\ gate[p] <= Len(Gates(p)) /\ Len(Gates(p)) \in Nat
  <2>1. InBatch(p)
    BY DEF Control
  <2>2. Len(Gates(p)) \in Nat
    BY <1>1, GateFacts DEF Batch
  <2> QED
    BY <1>1, <2>1, <2>2 DEF InBatch, TypeOK
<1>9. Gates(p)' = Gates(p)
  BY <1>3 DEF Gates
<1>10. CASE gate[p] < Len(Gates(p))
  <2>1. pc'[p] = "prepare" /\ gate'[p] = gate[p] + 1
    BY <1>1, <1>10 DEF PrepareMul, TypeOK
  <2>2. Made(p)' = gate[p] /\ Open(p)' = 1
    BY <1>8, <2>1 DEF Made, Open
  <2> QED
    BY <1>1, <1>3, <1>5, <1>7, <2>1, <2>2
<1>11. CASE ~(gate[p] < Len(Gates(p)))
  <2>1. pc'[p] = "send"
    BY <1>11 DEF PrepareMul, TypeOK
  <2>2. Made(p)' = gate[p] /\ Open(p)' = 1
    <3>1. Len(Gates(p)) = gate[p]
      BY <1>8, <1>11
    <3> QED
      BY <1>9, <2>1, <3>1 DEF Made, Open, Sent
  <2> QED
    BY <1>1, <1>3, <1>5, <1>7, <2>1, <2>2
<1> QED
  BY <1>10, <1>11

(* The words of a gate more, at the end of what was there. *)
LEMMA PrepareJoins ==
    ASSUME NEW ws \in Seq(Vec), NEW w \in Seq(Vec), NEW g \in Nat, g >= 1, NEW c, NEW d,
           Joined(ws, 1, g - 1, c), \A h \in 1 .. g - 1 : c[h] \in Seq(Vec) /\ d[h] = c[h],
           d[g] = w
    PROVE  Joined(ws \o w, 1, g, d)
<1>1. PICK n \in Nat : n = g - 1 /\ n + 1 = g
  OBVIOUS
<1>2. Joined(ws, 1, n, d)
  BY <1>1, JoinedSame
<1>3. Joined(ws \o w, 1, n + 1, d)
  BY <1>1, <1>2, JoinedAppend
<1> QED
  BY <1>1, <1>3

LEMMA PrepareMulMarking ==
    ASSUME TypeOK, Control, Backed, NEW p \in Party, Own(p), Grown(p), PrepareMul(p)
    PROVE  Marking(p)'
<1>1. PICK b, g : b = ip[p] /\ g = gate[p]
  OBVIOUS
<1>2. /\ ip'[p] = b /\ Made(p) = g - 1 /\ Made(p)' = g
  BY <1>1, PrepareEffect
<1>3. g \in Nat /\ b \in Nat /\ Marking(p)
  BY <1>1 DEF TypeOK, Own
<1>4. \A c, h : Marked(p, c, h) => Marked(p, c, h)'
  BY DEF Grown, Marked
<1>5. program' = program /\ \A c : Plan(c)' = Plan(c)
  BY DEF Grown, Plan
<1>6. Marked(p, b, g)'
  BY <1>1, PreparedAsPlanned
<1>7. \A h \in 1 .. g : Marked(p, b, h)'
  <2>1. \A h \in 1 .. g - 1 : Marked(p, b, h)
    BY <1>1, <1>2, <1>3 DEF Marking
  <2>2. \A h \in 1 .. g : h = g \/ h \in 1 .. g - 1
    BY <1>3
  <2> QED
    BY <1>4, <1>6, <2>1, <2>2
<1>8. \A c \in 1 .. b - 1 : program'[c].op = "ands" =>
         \A h \in 1 .. Len(Plan(c)') : Marked(p, c, h)'
  BY <1>1, <1>3, <1>4, <1>5 DEF Marking
<1>9. \A m \in DOMAIN marks'[p] :
         \/ marks'[p][m].ip < b
         \/ marks'[p][m].ip = b /\ marks'[p][m].gate <= g
  <2>1. PICK new : /\ marks'[p][new].ip = b /\ marks'[p][new].gate = g
                   /\ \A k \in DOMAIN marks'[p] : k \in DOMAIN marks[p] \/ k = new
    BY <1>1, NewMark
  <2>2. \A m \in DOMAIN marks[p] : marks'[p][m] = marks[p][m] /\ marks[p][m].gate \in Nat
    <3>1. \A m \in DOMAIN marks[p] : marks[p][m] \in Mark
      <4>1. marks[p] \in Seq(Mark)
        BY DEF TypeOK
      <4> QED
        BY <4>1, ElementOfSeq, LenProperties
    <3> QED
      BY <3>1, NewMark DEF Mark
  <2>3. \A m \in DOMAIN marks[p] :
           \/ marks[p][m].ip < b
           \/ marks[p][m].ip = b /\ marks[p][m].gate <= g - 1
    BY <1>1, <1>2, <1>3 DEF Marking
  <2>4. \A m \in DOMAIN marks[p] :
           \/ marks'[p][m].ip < b
           \/ marks'[p][m].ip = b /\ marks'[p][m].gate <= g
    BY <1>3, <2>2, <2>3
  <2> QED
    BY <1>3, <2>1, <2>4
<1>10. Distinct(p)'
  BY DEF Grown
<1> QED
  BY <1>2, <1>7, <1>8, <1>9, <1>10 DEF Marking

LEMMA PrepareMulKeeping ==
    ASSUME TypeOK, Control, Backed, NEW p \in Party, Own(p), Grown(p), PrepareMul(p)
    PROVE  Keeping(p)' /\ Sending(p)'
<1>1. PICK b, g, done : b = ip[p] /\ g = gate[p] /\ done = Prepared(p, Operands(p), Draw(p))
  OBVIOUS
<1>2. /\ os'[p][0] = os[p][0] \o done.os0 /\ os'[p][1] = os[p][1] \o done.os1
      /\ add_shares'[p] = add_shares[p] \o done.add
      /\ add_shares_2'[p] = add_shares_2[p] \o done.add2
      /\ and_operands'[p] = Append(and_operands[p], Operands(p))
      /\ ip'[p] = b /\ Made(p) = g - 1 /\ Made(p)' = g /\ Open(p) = 1 /\ Open(p)' = 1
      /\ pc[p] = "prepare"
  <2>1. /\ os'[p][0] = os[p][0] \o done.os0 /\ os'[p][1] = os[p][1] \o done.os1
        /\ add_shares'[p] = add_shares[p] \o done.add
        /\ add_shares_2'[p] = add_shares_2[p] \o done.add2
    <3>1. Pack(done.os0, ThisGate(p).n) = done.os0 /\ Pack(done.os1, ThisGate(p).n) = done.os1
      <4>1. pc[p] = "prepare"
        BY DEF PrepareMul
      <4> QED
        BY <1>1, <4>1, PreparedPacked
    <3> QED
      BY <1>1, <3>1, PrepareAppends
  <2>2. /\ and_operands'[p] = Append(and_operands[p], Operands(p))
        /\ ip' = ip /\ Made(p) = gate[p] - 1 /\ Made(p)' = gate[p]
        /\ Open(p) = 1 /\ Open(p)' = 1 /\ pc[p] = "prepare"
    BY <1>1, PrepareEffect
  <2> QED
    BY <1>1, <2>1, <2>2
<1>3. /\ g \in Nat /\ g >= 1 /\ b \in 1 .. Len(log[p])
      /\ os[p][0] \in Seq(Vec) /\ os[p][1] \in Seq(Vec)
      /\ add_shares[p] \in Seq(Vec) /\ add_shares_2[p] \in Seq(Vec)
  <2>1. g \in Nat /\ g >= 1 /\ ip[p] \in Nat /\ ip[p] >= 1
    <3>1. gate \in [Party -> Nat \ {0}] /\ ip \in [Party -> Nat \ {0}]
      BY DEF TypeOK
    <3>2. gate[p] \in Nat \ {0} /\ ip[p] \in Nat \ {0}
      BY <3>1
    <3> QED
      BY <1>1, <3>2
  <2>2. os[p] \in [0 .. 2 -> Seq(Vec)]
    BY DEF TypeOK
  <2>3. add_shares[p] \in Seq(Vec) /\ add_shares_2[p] \in Seq(Vec)
    BY DEF TypeOK
  <2>4. Len(log[p]) = ip[p]
    BY DEF Own, Logged
  <2> QED
    BY <1>1, <2>1, <2>2, <2>3, <2>4
<1>4. /\ done.os0 \in Seq(Vec) /\ done.os1 \in Seq(Vec)
      /\ done.add \in Seq(Vec) /\ done.add2 \in Seq(Vec)
  BY <1>1, <1>2, PreparedPacked
<1>5. SameWords(p, b, g - 1)
  <2>1. SameWords(p, b, Made(p))
    BY <1>1, OwnWordsSame
  <2> QED
    BY <1>2, <2>1
<1>6. \A h \in 1 .. g - 1 : /\ Os0For(p, b)[h] \in Seq(Vec) /\ Os1For(p, b)[h] \in Seq(Vec)
                            /\ AddFor(p, b)[h] \in Seq(Vec) /\ Add2For(p, b)[h] \in Seq(Vec)
  <2> SUFFICES ASSUME NEW h \in 1 .. g - 1
               PROVE  /\ Os0For(p, b)[h] \in Seq(Vec) /\ Os1For(p, b)[h] \in Seq(Vec)
                      /\ AddFor(p, b)[h] \in Seq(Vec) /\ Add2For(p, b)[h] \in Seq(Vec)
    OBVIOUS
  <2>1. /\ b \in 1 .. Len(program) /\ program[b].op = "ands" /\ h \in 1 .. Len(Plan(b))
    BY <1>1, <1>2, OpenMade
  <2>2. WordsFor(p, b, h) \in PreparedWords
    BY <1>3, <2>1, WordsForType
  <2> QED
    BY <2>1, <2>2 DEF Os0For, Os1For, AddFor, Add2For, PreparedWords
<1>7. /\ Os0For(p, b)'[g] = done.os0 /\ Os1For(p, b)'[g] = done.os1
      /\ AddFor(p, b)'[g] = done.add /\ Add2For(p, b)'[g] = done.add2
      /\ OperandsFor(p, b, g)' = Operands(p)
  <2>1. WordsFor(p, b, g)' = done /\ OperandsFor(p, b, g)' = Operands(p)
    BY <1>1, PreparedAsPlanned
  <2>2. g \in 1 .. Len(Plan(b)')
    <3>1. Plan(b)' = Gates(p)
      BY <1>1 DEF Grown, Plan, Gates
    <3>2. g <= Len(Gates(p)) /\ Len(Gates(p)) \in Nat
      BY <1>1, <1>2, GateFacts DEF Control, InBatch, Batch
    <3> QED
      BY <1>3, <3>1, <3>2
  <2> QED
    BY <2>1, <2>2 DEF Os0For, Os1For, AddFor, Add2For
<1>8. /\ Joined(add_shares[p], 1, g - 1, AddFor(p, b))
      /\ Joined(add_shares_2[p], 1, g - 1, Add2For(p, b))
      /\ Len(and_operands[p]) = (g - 1) + 1 - 1
      /\ \A h \in 1 .. g - 1 : and_operands[p][h - 1 + 1] = OperandsFor(p, b, h)
      /\ Joined(os[p][0], 1, g - 1, Os0For(p, b))
      /\ Joined(os[p][1], 1, g - 1, Os1For(p, b))
  BY <1>1, <1>2 DEF Own, Keeping, Sending
<1>9. Joined(add_shares'[p], 1, g, AddFor(p, b)')
  <2>1. PICK c, d, w : c = AddFor(p, b) /\ d = AddFor(p, b)' /\ w = done.add
    OBVIOUS
  <2>2. \A h \in 1 .. g - 1 : c[h] \in Seq(Vec) /\ d[h] = c[h]
    BY <1>5, <1>6, <2>1 DEF SameWords
  <2>3. d[g] = w /\ w \in Seq(Vec) /\ Joined(add_shares[p], 1, g - 1, c)
    BY <1>4, <1>7, <1>8, <2>1
  <2>4. Joined(add_shares[p] \o w, 1, g, d)
    BY <1>3, <2>2, <2>3, PrepareJoins
  <2> QED
    BY <1>2, <2>1, <2>4
<1>10. Joined(add_shares_2'[p], 1, g, Add2For(p, b)')
  <2>1. PICK c, d, w : c = Add2For(p, b) /\ d = Add2For(p, b)' /\ w = done.add2
    OBVIOUS
  <2>2. \A h \in 1 .. g - 1 : c[h] \in Seq(Vec) /\ d[h] = c[h]
    BY <1>5, <1>6, <2>1 DEF SameWords
  <2>3. d[g] = w /\ w \in Seq(Vec) /\ Joined(add_shares_2[p], 1, g - 1, c)
    BY <1>4, <1>7, <1>8, <2>1
  <2>4. Joined(add_shares_2[p] \o w, 1, g, d)
    BY <1>3, <2>2, <2>3, PrepareJoins
  <2> QED
    BY <1>2, <2>1, <2>4
<1>11. Joined(os'[p][0], 1, g, Os0For(p, b)')
  <2>1. PICK c, d, w : c = Os0For(p, b) /\ d = Os0For(p, b)' /\ w = done.os0
    OBVIOUS
  <2>2. \A h \in 1 .. g - 1 : c[h] \in Seq(Vec) /\ d[h] = c[h]
    BY <1>5, <1>6, <2>1 DEF SameWords
  <2>3. d[g] = w /\ w \in Seq(Vec) /\ Joined(os[p][0], 1, g - 1, c)
    BY <1>4, <1>7, <1>8, <2>1
  <2>4. Joined(os[p][0] \o w, 1, g, d)
    BY <1>3, <2>2, <2>3, PrepareJoins
  <2> QED
    BY <1>2, <2>1, <2>4
<1>12. Joined(os'[p][1], 1, g, Os1For(p, b)')
  <2>1. PICK c, d, w : c = Os1For(p, b) /\ d = Os1For(p, b)' /\ w = done.os1
    OBVIOUS
  <2>2. \A h \in 1 .. g - 1 : c[h] \in Seq(Vec) /\ d[h] = c[h]
    BY <1>5, <1>6, <2>1 DEF SameWords
  <2>3. d[g] = w /\ w \in Seq(Vec) /\ Joined(os[p][1], 1, g - 1, c)
    BY <1>4, <1>7, <1>8, <2>1
  <2>4. Joined(os[p][1] \o w, 1, g, d)
    BY <1>3, <2>2, <2>3, PrepareJoins
  <2> QED
    BY <1>2, <2>1, <2>4
<1>13. /\ Len(and_operands'[p]) = g
       /\ \A h \in 1 .. g : and_operands'[p][h] = OperandsFor(p, b, h)'
  <2>1. and_operands[p] \in Seq(Seq(Share)) /\ Operands(p) \in Seq(Share)
        /\ Len(and_operands[p]) = g - 1
    <3>1. and_operands[p] \in Seq(Seq(Share))
      BY DEF TypeOK
    <3>2. Operands(p) \in Seq(Share)
      BY <1>2, OperandsType
    <3>3. Len(and_operands[p]) = g - 1
      BY <1>3, <1>8
    <3> QED
      BY <3>1, <3>2, <3>3
  <2>2. /\ Len(and_operands'[p]) = (g - 1) + 1
        /\ and_operands'[p][(g - 1) + 1] = Operands(p)
        /\ \A h \in 1 .. g - 1 : and_operands'[p][h] = and_operands[p][h]
    BY <1>2, <2>1, AppendProperties
  <2>3. (g - 1) + 1 = g /\ \A h \in 1 .. g : h = g \/ h \in 1 .. g - 1
    BY <1>3
  <2>4. \A h \in 1 .. g - 1 : h - 1 + 1 = h
    OBVIOUS
  <2>5. \A h \in 1 .. g - 1 : and_operands'[p][h] = OperandsFor(p, b, h)'
    BY <1>5, <1>8, <2>2, <2>4 DEF SameWords
  <2> QED
    BY <1>7, <2>2, <2>3, <2>5
<1>14. /\ Len(and_operands'[p]) = g + 1 - 1
       /\ \A h \in 1 .. g : and_operands'[p][h - 1 + 1] = OperandsFor(p, b, h)'
  <2>1. g + 1 - 1 = g /\ \A h \in 1 .. g : h - 1 + 1 = h
    BY <1>3
  <2> QED
    BY <1>13, <2>1
<1>15. Keeping(p)'
  BY <1>2, <1>9, <1>10, <1>14 DEF Keeping
<1>16. Sending(p)'
  BY <1>2, <1>11, <1>12 DEF Sending
<1> QED
  BY <1>15, <1>16

LEMMA PrepareMulOwn ==
    ASSUME TypeOK, Control, Backed, \A q \in Party : Own(q) /\ Grown(q),
           NEW p \in Party, PrepareMul(p)
    PROVE  Own(p)'
<1>1. /\ S' = S /\ log' = log /\ ip' = ip /\ os'[p][2] = os[p][2]
      /\ pc[p] = "prepare" /\ pc'[p] \in {"prepare", "send"}
  BY PrepareEffect
<1>2. Logged(p)'
  BY <1>1, LoggedSame
<1>3. Marking(p)'
  BY PrepareMulMarking
<1>4. Keeping(p)' /\ Sending(p)'
  BY PrepareMulKeeping
<1>5. Received(p)'
  BY <1>1 DEF Own, Received, HasWords, Batch
<1> QED
  BY <1>2, <1>3, <1>4, <1>5 DEF Own

-----------------------------------------------------------------------------
(***************************************************************************)
(* exchange_without_p2 takes the message of the instruction.               *)
(***************************************************************************)

LEMMA ReceiveReceived ==
    ASSUME TypeOK, Control, Backed, \A q \in Party : Own(q) /\ Grown(q),
           NEW p \in Party, NEW from, NEW i, NEW at, NEW next,
           \/ /\ from = Before(p) /\ i = (IF p = 0 THEN 2 ELSE 1)
              /\ at = "receive_first" /\ next = "receive_second"
           \/ /\ from = After(p) /\ i = (IF p = 0 THEN 1 ELSE 2)
              /\ at = "receive_second" /\ next = "finalize",
           Receive(p, from, i, at, next)
    PROVE  Received(p)'
<1>1. pc[p] = at /\ pc'[p] = next /\ chan[from][p] # <<>> /\ ip' = ip
      /\ program' = program /\ gate' = gate
  BY DEF Receive, TypeOK
<1>2. p # 2 /\ from \in Party /\ from # p /\ from = (IF i = 2 THEN 2 ELSE 1 - p)
      /\ i = Slot(from) /\ i \in 0 .. 2
  BY <1>1 DEF Backed, Party, Before, After, Slot
<1>3. /\ os'[p][i] = Head(chan[from][p]).words
      /\ \A j \in 0 .. 2 : j # i => os'[p][j] = os[p][j]
  BY <1>2 DEF Receive, TypeOK
<1>4. PICK b, n : b = ip[p] /\ n = Len(Plan(b))
  OBVIOUS
<1>5. gate[p] = 1
  BY <1>1 DEF Control, InBatch
<1>6. /\ Made(p) = n /\ Made(p)' = n /\ Open(p) = 1 /\ Open(p)' = 1
  BY <1>1, <1>4, <1>5 DEF Made, Open, Sent, Gates, Plan
<1>7. Done(from, b) /\ Joined(Head(chan[from][p]).words, 1, n, SentFor(from, p, b))
  <2>1. pc[p] \in Batch
    BY <1>1 DEF Batch
  <2>2. ~HasWords(p, from)
    BY <1>1, PartyNeighbours DEF HasWords
  <2> QED
    BY <1>1, <1>2, <1>4, <2>1, <2>2 DEF Backed, Relies
<1>8. \A q \in Party \ {p} : q = from \/ (q # from /\ Slot(q) # i /\ Slot(q) \in 0 .. 2)
  BY <1>2 DEF Slot, Party
<1>9. ASSUME NEW q \in Party \ {p}, HasWords(p, q)'
      PROVE  Joined(os'[p][Slot(q)], 1, n, SentFor(q, p, b))
  <2>1. CASE q = from
    BY <1>2, <1>3, <1>7, <2>1
  <2>2. CASE q # from
    <3>1. HasWords(p, q)
      BY <1>1, <1>9, <2>2, PartyNeighbours DEF HasWords, Party, Before, After
    <3>2. Joined(os[p][Slot(q)], 1, n, SentFor(q, p, b))
      BY <1>2, <1>4, <1>6, <3>1 DEF Own, Received
    <3> QED
      BY <1>3, <1>8, <2>2, <3>2
  <2> QED
    BY <2>1, <2>2
<1>10. ASSUME NEW q \in Party \ {p}, HasWords(p, q)'
       PROVE  Joined(os'[p][Slot(q)], 1, n, SentFor(q, p, b)')
  <2>1. Done(q, b)
    <3>1. CASE q = from
      BY <1>7, <3>1
    <3>2. CASE q # from
      <4>1. HasWords(p, q)
        BY <1>1, <1>10, <3>2, PartyNeighbours DEF HasWords, Party, Before, After
      <4> QED
        BY <1>2, <1>4, <4>1, PeerDone
    <3> QED
      BY <3>1, <3>2
  <2>2. \A g \in 1 .. n : SentFor(q, p, b)'[g] = SentFor(q, p, b)[g]
    BY <1>4, <2>1, SentSame DEF Own, Marking
  <2> QED
    BY <1>9, <1>10, <2>2, JoinedSame
<1>11. pc'[p] \in Batch
  BY <1>1 DEF Batch
<1> QED
  BY <1>1, <1>2, <1>4, <1>6, <1>10, <1>11 DEF Received, Slot

LEMMA ReceiveOwn ==
    ASSUME TypeOK, Control, Backed, \A q \in Party : Own(q) /\ Grown(q),
           NEW p \in Party, NEW from, NEW i, NEW at, NEW next,
           \/ /\ from = Before(p) /\ i = (IF p = 0 THEN 2 ELSE 1)
              /\ at = "receive_first" /\ next = "receive_second"
           \/ /\ from = After(p) /\ i = (IF p = 0 THEN 1 ELSE 2)
              /\ at = "receive_second" /\ next = "finalize",
           Receive(p, from, i, at, next)
    PROVE  Own(p)'
<1>1. /\ pc[p] = at /\ pc'[p] = next
      /\ UNCHANGED <<program, tape, ip, gate, prng, S, kept, log, marks>>
  BY DEF Receive, TypeOK
<1>2. gate[p] = 1
  BY <1>1 DEF Control, InBatch
<1>3. Made(p)' = Made(p) /\ Open(p)' = Open(p)
  BY <1>1, <1>2 DEF Made, Open, Sent, Gates
<1>4. Own(p) /\ Grown(p) /\ pc[p] # "finalize"
  BY <1>1
<1>5. Logged(p)'
  BY <1>1, <1>2, <1>4, LoggedSame
<1>6. Marking(p)'
  BY <1>1, <1>3, <1>4, MarkingSame DEF Own
<1>7. Keeping(p)'
  BY <1>1, <1>3, <1>4, KeepingSame DEF kept
<1>8. Sending(p)'
  BY <1>1 DEF Sending
<1>9. Received(p)'
  BY ReceiveReceived
<1> QED
  BY <1>5, <1>6, <1>7, <1>8, <1>9 DEF Own

-----------------------------------------------------------------------------
(***************************************************************************)
(* finalize_mul takes the words of one gate from every vector.             *)
(***************************************************************************)

(* The lengths of the words of a gate are what finalize_mul takes.         *)
LEMMA PieceTypes ==
    ASSUME TypeOK, NEW q \in Party, NEW b, Done(q, b), NEW h \in 1 .. Len(Plan(b))
    PROVE  /\ Os0For(q, b)[h] \in Seq(Vec) /\ Os1For(q, b)[h] \in Seq(Vec)
           /\ AddFor(q, b)[h] \in Seq(Vec) /\ Add2For(q, b)[h] \in Seq(Vec)
           /\ Len(Os0For(q, b)[h]) = IF q = 2 THEN 1 ELSE NumMonomials(Fan(b, h))
           /\ Len(Os1For(q, b)[h]) = IF q = 2 /\ Fan(b, h) # 2 THEN 1 ELSE 0
           /\ Len(AddFor(q, b)[h]) = Taken(q, Fan(b, h)).add
           /\ Len(Add2For(q, b)[h]) = Taken(q, Fan(b, h)).add2
<1>1. b \in 1 .. Len(program) /\ program[b].op = "ands" /\ b \in 1 .. Len(log[q])
  BY DEF Done
<1>2. PICK w, x, r, f : /\ w = WordsFor(q, b, h) /\ w = Prepared(q, x, r)
                        /\ x = OperandsFor(q, b, h) /\ f = Fan(b, h)
  BY DEF WordsFor
<1>3. w \in PreparedWords
  BY <1>1, <1>2, WordsForType
<1>4. Len(x) = f /\ f \in Nat /\ f >= 2
  BY <1>1, <1>2, OperandsForType, CellFacts
<1>5. /\ Len(w.os0) = (IF q = 2 THEN 1 ELSE NumMonomials(f))
      /\ Len(w.os1) = (IF q = 2 /\ f # 2 THEN 1 ELSE 0)
      /\ Len(w.add) = Taken(q, f).add /\ Len(w.add2) = Taken(q, f).add2
  BY <1>2, <1>4, PreparedLengths
<1>6. /\ Os0For(q, b)[h] = w.os0 /\ Os1For(q, b)[h] = w.os1
      /\ AddFor(q, b)[h] = w.add /\ Add2For(q, b)[h] = w.add2
  BY <1>2 DEF Os0For, Os1For, AddFor, Add2For
<1>7. /\ w.os0 \in Seq(Vec) /\ w.os1 \in Seq(Vec) /\ w.add \in Seq(Vec) /\ w.add2 \in Seq(Vec)
  BY <1>3 DEF PreparedWords
<1> QED
  BY <1>2, <1>5, <1>6, <1>7

(* Taking the words of gate g off a stream. *)
Takes(ws, k, g, n, c) ==
    FirstOf(ws, k) = c[g] /\ Joined(Rest(ws, k), g + 1, n, c) /\ Rest(ws, k) \in Seq(Vec)

LEMMA TakesFirst ==
    ASSUME NEW ws \in Seq(Vec), NEW g \in Nat, NEW n \in Nat, g <= n, NEW c,
           \A h \in g .. n : c[h] \in Seq(Vec), Joined(ws, g, n, c), NEW k, k = Len(c[g])
    PROVE  Takes(ws, k, g, n, c)
  BY JoinedFirst DEF Takes

(* The stream that is left of the words of the last gate is empty. *)
LEMMA TakesLast ==
    ASSUME NEW ws, NEW k, NEW g \in Nat, NEW c, Takes(ws, k, g, g, c)
    PROVE  Rest(ws, k) = <<>>
<1>1. Rest(ws, k) \in Seq(Vec) /\ g + 1 \in Nat /\ (g + 1) - 1 = g
  BY DEF Takes
<1>2. PICK m \in Nat : m = g + 1 /\ m - 1 = g
  BY <1>1
<1>3. Joined(Rest(ws, k), m, m - 1, c)
  BY <1>2 DEF Takes
<1> QED
  BY <1>1, <1>2, <1>3, JoinedNone

(* The position of a party in finalize_mul. *)
Finalizing(p, b, g, n) ==
    /\ pc[p] = "finalize" /\ b = ip[p] /\ g = gate[p] /\ n = Len(Plan(b))
    /\ b \in Nat \ {0} /\ g \in Nat /\ g >= 1 /\ n \in Nat /\ g <= n
    /\ b \in 1 .. Len(program) /\ program[b].op = "ands" /\ Len(log[p]) = b
    /\ Open(p) = g /\ Made(p) = n

LEMMA FinalizingHere ==
    ASSUME TypeOK, Control, NEW p \in Party, Own(p), pc[p] = "finalize"
    PROVE  \E b, g, n : Finalizing(p, b, g, n)
<1>1. PICK b, g, n : b = ip[p] /\ g = gate[p] /\ n = Len(Plan(b))
  OBVIOUS
<1>2. /\ b \in Nat \ {0} /\ g \in Nat /\ g >= 1
      /\ n = Len(Gates(p)) /\ n \in Nat /\ Len(program) \in Nat
  <2>1. Len(Gates(p)) \in Nat /\ Len(program) \in Nat
    BY GateFacts DEF Batch
  <2>2. ip[p] \in Nat \ {0} /\ gate[p] \in Nat \ {0}
    BY DEF TypeOK
  <2>3. n = Len(Gates(p))
    BY <1>1 DEF Plan, Gates
  <2> QED
    BY <1>1, <2>1, <2>2, <2>3
<1>3. InBatch(p)
  BY DEF Control
<1>4. b <= Len(program) /\ program[b].op = "ands" /\ g <= n
  BY <1>1, <1>2, <1>3 DEF InBatch, Batch
<1>5. Len(log[p]) = b
  BY <1>1 DEF Own, Logged
<1>6. Open(p) = g /\ Made(p) = n
  BY <1>1, <1>2 DEF Open, Made, Sent
<1>7. b \in 1 .. Len(program)
  BY <1>2, <1>4
<1>8. Finalizing(p, b, g, n)
  BY <1>1, <1>2, <1>4, <1>5, <1>6, <1>7 DEF Finalizing
<1> QED
  BY <1>8

LEMMA FinalizeTakes ==
    ASSUME TypeOK, Control, Backed, \A q \in Party : Own(q),
           NEW p \in Party, NEW b, NEW g, NEW n, Finalizing(p, b, g, n),
           NEW t, t = Taken(p, Fan(b, g)), NEW q1, q1 = (IF p = 0 THEN 1 ELSE 0)
    PROVE  /\ and_operands[p] # <<>>
           /\ Head(and_operands[p]) = OperandsFor(p, b, g)
           /\ Len(OperandsFor(p, b, g)) = Fan(b, g)
           /\ Takes(add_shares[p], t.add, g, n, AddFor(p, b))
           /\ Takes(add_shares_2[p], t.add2, g, n, Add2For(p, b))
           /\ p # 2 => /\ Takes(os[p][1], t.os1, g, n, SentFor(q1, p, b))
                       /\ Takes(os[p][2], t.os2, g, n, SentFor(2, p, b))
           /\ Result(p) = ResultFor(p, b, g)
<1>1. /\ pc[p] = "finalize" /\ b = ip[p] /\ g = gate[p] /\ n = Len(Plan(b))
      /\ b \in Nat \ {0} /\ g \in Nat /\ g >= 1 /\ n \in Nat /\ g <= n
      /\ b \in 1 .. Len(program) /\ program[b].op = "ands" /\ Len(log[p]) = b
      /\ Open(p) = g /\ Made(p) = n
  BY DEF Finalizing
<1>2. /\ Joined(add_shares[p], g, n, AddFor(p, b))
      /\ Joined(add_shares_2[p], g, n, Add2For(p, b))
      /\ Len(and_operands[p]) = n + 1 - g
      /\ \A h \in g .. n : and_operands[p][h - g + 1] = OperandsFor(p, b, h)
  BY <1>1 DEF Own, Keeping
<1>3. /\ os[p][1] \in Seq(Vec) /\ os[p][2] \in Seq(Vec)
      /\ add_shares[p] \in Seq(Vec) /\ add_shares_2[p] \in Seq(Vec)
      /\ and_operands[p] \in Seq(Seq(Share))
  <2>1. os[p][1] \in Seq(Vec) /\ os[p][2] \in Seq(Vec)
    BY TypedParts
  <2>2. /\ add_shares[p] \in Seq(Vec) /\ add_shares_2[p] \in Seq(Vec)
        /\ and_operands[p] \in Seq(Seq(Share))
    BY DEF TypeOK
  <2> QED
    BY <2>1, <2>2
<1>4. and_operands[p] # <<>> /\ Head(and_operands[p]) = OperandsFor(p, b, g)
  <2>1. Len(and_operands[p]) >= 1 /\ g \in g .. n /\ g - g + 1 = 1
    BY <1>1, <1>2
  <2>2. and_operands[p] # <<>>
    BY <2>1, EmptySeq
  <2>3. Head(and_operands[p]) = and_operands[p][1]
    BY <1>3, <2>2, HeadTailProperties
  <2> QED
    BY <1>2, <2>1, <2>2, <2>3
<1>5. Ready(p, b)
  BY <1>1, FinalizeReady
<1>6. \A h \in g .. n : h \in 1 .. Len(Plan(b))
  BY <1>1
<1>7. g \in 1 .. Len(Plan(b)) /\ g \in g .. n
  BY <1>1
<1>8. Done(p, b)
  BY <1>5 DEF Ready
<1>9. Len(OperandsFor(p, b, g)) = Fan(b, g)
  <2>1. b \in 1 .. Len(log[p])
    BY <1>1
  <2> QED
    BY <1>1, <1>7, <2>1, OperandsForType
<1>10. Takes(add_shares[p], t.add, g, n, AddFor(p, b))
  <2>1. \A h \in g .. n : AddFor(p, b)[h] \in Seq(Vec)
    BY <1>6, <1>8, PieceTypes
  <2>2. t.add = Len(AddFor(p, b)[g])
    BY <1>7, <1>8, PieceTypes
  <2> QED
    BY <1>1, <1>2, <1>3, <2>1, <2>2, TakesFirst
<1>11. Takes(add_shares_2[p], t.add2, g, n, Add2For(p, b))
  <2>1. \A h \in g .. n : Add2For(p, b)[h] \in Seq(Vec)
    BY <1>6, <1>8, PieceTypes
  <2>2. t.add2 = Len(Add2For(p, b)[g])
    BY <1>7, <1>8, PieceTypes
  <2> QED
    BY <1>1, <1>2, <1>3, <2>1, <2>2, TakesFirst
<1>12. ASSUME p # 2
       PROVE  /\ Takes(os[p][1], t.os1, g, n, SentFor(q1, p, b))
              /\ Takes(os[p][2], t.os2, g, n, SentFor(2, p, b))
  <2>1. /\ q1 \in Party \ {p} /\ 2 \in Party \ {p} /\ Slot(q1) = 1 /\ Slot(2) = 2 /\ q1 # 2
    BY <1>12 DEF Party, Slot
  <2>2. \A q \in Party \ {p} : Done(q, b) /\ Joined(os[p][Slot(q)], g, n, SentFor(q, p, b))
    <3>1. \A q : HasWords(p, q)
      BY <1>1 DEF HasWords
    <3> QED
      BY <1>1, <1>5, <1>12, <3>1 DEF Own, Received, Ready
  <2>3. \A q \in Party \ {p} : \A h \in g .. n : SentFor(q, p, b)[h] \in Seq(Vec)
    BY <1>6, <2>2, PieceTypes DEF SentFor
  <2>4. t.os1 = Len(SentFor(q1, p, b)[g])
    BY <1>7, <1>12, <2>1, <2>2, PieceTypes DEF SentFor, Taken
  <2>5. t.os2 = Len(SentFor(2, p, b)[g])
    <3>1. CASE p = 0
      <4>1. SentFor(2, p, b) = Os0For(2, b)
        BY <3>1 DEF SentFor
      <4>2. Len(Os0For(2, b)[g]) = 1
        <5>1. 2 \in Party /\ Done(2, b)
          BY <2>1, <2>2
        <5> QED
          BY <1>7, <5>1, PieceTypes
      <4>3. t.os2 = 1
        BY <3>1 DEF Taken
      <4> QED
        BY <4>1, <4>2, <4>3
    <3>2. CASE p = 1
      <4>1. SentFor(2, p, b) = Os1For(2, b)
        BY <3>2 DEF SentFor
      <4>2. Len(Os1For(2, b)[g]) = IF Fan(b, g) # 2 THEN 1 ELSE 0
        BY <1>7, <2>1, <2>2, PieceTypes
      <4>3. t.os2 = IF Fan(b, g) # 2 THEN 1 ELSE 0
        BY <3>2 DEF Taken
      <4> QED
        BY <4>1, <4>2, <4>3
    <3> QED
      BY <1>12, <3>1, <3>2 DEF Party
  <2>6. Takes(os[p][1], t.os1, g, n, SentFor(q1, p, b))
    BY <1>1, <1>3, <2>1, <2>2, <2>3, <2>4, TakesFirst
  <2>7. Takes(os[p][2], t.os2, g, n, SentFor(2, p, b))
    BY <1>1, <1>3, <2>1, <2>2, <2>3, <2>5, TakesFirst
  <2> QED
    BY <2>6, <2>7
<1>13. Result(p) = ResultFor(p, b, g)
  <2>1. Result(p) = Finalized(p, OperandsFor(p, b, g), FirstOf(os[p][1], t.os1),
                              FirstOf(os[p][2], t.os2), FirstOf(add_shares[p], t.add),
                              FirstOf(add_shares_2[p], t.add2))
    BY <1>4, <1>9 DEF Result
  <2>2. /\ FirstOf(add_shares[p], t.add) = WordsFor(p, b, g).add
        /\ FirstOf(add_shares_2[p], t.add2) = WordsFor(p, b, g).add2
    BY <1>7, <1>10, <1>11 DEF Takes, AddFor, Add2For
  <2>3. CASE p = 2
    BY <2>1, <2>2, <2>3, TwoAlone DEF ResultFor
  <2>4. CASE p # 2
    <3>1. FirstOf(os[p][1], t.os1) = WordsFor(q1, b, g).os0
      BY <1>7, <1>12, <2>4 DEF Takes, SentFor, Os0For
    <3>2. FirstOf(os[p][2], t.os2) = (IF p = 0 THEN WordsFor(2, b, g).os0
                                                ELSE WordsFor(2, b, g).os1)
      BY <1>7, <1>12, <2>4 DEF Takes, SentFor, Os0For, Os1For, Party
    <3> QED
      BY <2>1, <2>2, <3>1, <3>2 DEF ResultFor
  <2> QED
    BY <2>3, <2>4
<1> QED
  BY <1>4, <1>9, <1>10, <1>11, <1>12, <1>13

(* One result more in the registers. *)
LEMMA UpdatedNext ==
    ASSUME NEW gates, NEW res, NEW g \in Nat, g >= 1, NEW old, NEW regs \in [Reg -> Share],
           gates[g].out \in Reg, \A h \in 1 .. g : gates[h].out \in Reg,
           Updated(gates, res, g - 1, old, regs), NEW new,
           new = [regs EXCEPT ![gates[g].out] = MaskShare(res[g], gates[g].n)]
    PROVE  Updated(gates, res, g, old, new)
<1>1. /\ new[gates[g].out] = MaskShare(res[g], gates[g].n)
      /\ \A r \in Reg : r # gates[g].out => new[r] = regs[r]
  OBVIOUS
<1>2. /\ g \in 1 .. g
      /\ \A h \in 1 .. g - 1 : h \in 1 .. g
      /\ \A h \in 1 .. g : h = g \/ h \in 1 .. g - 1
      /\ \A h \in 1 .. g - 1 : g \in h + 1 .. g
      /\ \A h \in 1 .. g - 1 : \A j \in h + 1 .. g - 1 : j \in h + 1 .. g
  OBVIOUS
<1>3. ASSUME NEW r \in Reg, \A h \in 1 .. g : gates[h].out # r
      PROVE  new[r] = old[r]
  BY <1>1, <1>2, <1>3 DEF Updated
<1>4. ASSUME NEW h \in 1 .. g, LastWriter(gates, g, h)
      PROVE  new[gates[h].out] = MaskShare(res[h], gates[h].n)
  <2>1. CASE h = g
    BY <1>1, <2>1
  <2>2. CASE h \in 1 .. g - 1
    <3>1. gates[g].out # gates[h].out /\ LastWriter(gates, g - 1, h)
      BY <1>2, <1>4, <2>2 DEF LastWriter
    <3>2. regs[gates[h].out] = MaskShare(res[h], gates[h].n)
      BY <2>2, <3>1 DEF Updated
    <3> QED
      BY <1>1, <3>1, <3>2
  <2> QED
    BY <1>2, <2>1, <2>2
<1> QED
  BY <1>3, <1>4 DEF Updated

LEMMA FinalizeEffect ==
    ASSUME TypeOK, Control, Backed, \A q \in Party : Own(q),
           NEW p \in Party, NEW b, NEW g, NEW n, Finalizing(p, b, g, n), FinalizeMul(p),
           NEW t, t = Taken(p, Fan(b, g))
    PROVE  /\ os'[p][1] = Rest(os[p][1], t.os1) /\ os'[p][2] = Rest(os[p][2], t.os2)
           /\ add_shares'[p] = Rest(add_shares[p], t.add)
           /\ add_shares_2'[p] = Rest(add_shares_2[p], t.add2)
           /\ and_operands'[p] = Tail(and_operands[p])
           /\ marks' = marks
           /\ Updated(Plan(b), ResultsFor(p, b), g, log[p][b], S'[p])
<1>1. /\ pc[p] = "finalize" /\ b = ip[p] /\ g = gate[p] /\ n = Len(Plan(b))
      /\ g \in Nat /\ g >= 1 /\ n \in Nat /\ g <= n
      /\ b \in 1 .. Len(program) /\ program[b].op = "ands"
  BY DEF Finalizing
<1>2. /\ Head(and_operands[p]) = OperandsFor(p, b, g)
      /\ Len(OperandsFor(p, b, g)) = Fan(b, g)
      /\ Result(p) = ResultFor(p, b, g)
  BY FinalizeTakes
<1>3. t = Taken(p, Len(Head(and_operands[p])))
  BY <1>2
<1>4. os'[p][1] = Rest(os[p][1], t.os1) /\ os'[p][2] = Rest(os[p][2], t.os2)
  <2>1. os \in [Party -> [0 .. 2 -> Seq(Vec)]]
    BY DEF TypeOK
  <2>2. os' = [os EXCEPT ![p][1] = Rest(os[p][1], t.os1), ![p][2] = Rest(os[p][2], t.os2)]
    BY <1>3 DEF FinalizeMul
  <2>3. PICK v1, v2 : v1 = Rest(os[p][1], t.os1) /\ v2 = Rest(os[p][2], t.os2)
    OBVIOUS
  <2>4. os' = [os EXCEPT ![p][1] = v1, ![p][2] = v2]
    BY <2>2, <2>3
  <2>5. os'[p][1] = v1 /\ os'[p][2] = v2
    BY <2>1, <2>4
  <2> QED
    BY <2>3, <2>5
<1>5. /\ add_shares'[p] = Rest(add_shares[p], t.add)
      /\ add_shares_2'[p] = Rest(add_shares_2[p], t.add2)
      /\ and_operands'[p] = Tail(and_operands[p])
      /\ marks' = marks
  BY <1>3 DEF FinalizeMul, TypeOK
<1>6. /\ ThisGate(p) = Plan(b)[g] /\ Gates(p) = Plan(b) /\ Cell(b, g) = Plan(b)[g]
  BY <1>1 DEF ThisGate, Gates, Plan, Cell
<1>7. g \in 1 .. n /\ \A h \in 1 .. g : h \in 1 .. n
  BY <1>1
<1>8. \A h \in 1 .. n : Plan(b)[h].out \in Reg
  BY <1>1, CellFacts DEF Cell
<1>9. PICK regs : regs = S[p]
  OBVIOUS
<1>10. regs \in [Reg -> Share] /\ S \in [Party -> [Reg -> Share]]
  BY <1>9 DEF TypeOK
<1>11. S'[p] = [regs EXCEPT ![Plan(b)[g].out] = MaskShare(ResultsFor(p, b)[g], Plan(b)[g].n)]
  <2>1. ResultsFor(p, b)[g] = Result(p)
    BY <1>1, <1>2, <1>7 DEF ResultsFor
  <2>2. S' = [S EXCEPT ![p][ThisGate(p).out] = MaskShare(Result(p), ThisGate(p).n)]
    BY DEF FinalizeMul
  <2>3. PICK v, o : v = MaskShare(Result(p), ThisGate(p).n) /\ o = ThisGate(p).out
    OBVIOUS
  <2>4. S'[p] = [regs EXCEPT ![o] = v]
    BY <1>9, <1>10, <2>2, <2>3
  <2> QED
    BY <1>6, <2>1, <2>3, <2>4
<1>12. Updated(Plan(b), ResultsFor(p, b), g - 1, log[p][b], regs)
  BY <1>1, <1>6, <1>9 DEF Own, Logged
<1>13. PICK new : new = S'[p]
  OBVIOUS
<1>14. Updated(Plan(b), ResultsFor(p, b), g, log[p][b], new)
  BY <1>1, <1>7, <1>8, <1>10, <1>11, <1>12, <1>13, UpdatedNext
<1> QED
  BY <1>4, <1>5, <1>13, <1>14

(* finalize_mul for a gate that is not the last. *)
LEMMA FinalizeNext ==
    ASSUME TypeOK, Control, Backed, \A q \in Party : Own(q) /\ Grown(q),
           NEW p \in Party, NEW b, NEW g, NEW n, Finalizing(p, b, g, n), FinalizeMul(p),
           g < n
    PROVE  /\ pc'[p] = "finalize" /\ gate'[p] = g + 1 /\ ip'[p] = b /\ log' = log
           /\ Open(p)' = g + 1 /\ Made(p)' = n
<1>1. /\ pc[p] = "finalize" /\ b = ip[p] /\ g = gate[p] /\ n = Len(Plan(b)) /\ n = Len(Gates(p))
  BY DEF Finalizing, Plan, Gates
<1>2. pc' = pc /\ gate' = [gate EXCEPT ![p] = gate[p] + 1] /\ ip' = ip /\ log' = log
      /\ program' = program
  BY <1>1 DEF FinalizeMul
<1>3. /\ pc'[p] = "finalize" /\ gate'[p] = g + 1 /\ ip'[p] = b
  BY <1>1, <1>2 DEF TypeOK
<1>4. Gates(p)' = Gates(p)
  BY <1>2 DEF Gates
<1> QED
  BY <1>1, <1>2, <1>3, <1>4 DEF Open, Made, Sent

LEMMA RestOfNone == Rest(<<>>, 0) = <<>>
<1>1. <<>> \in Seq(Vec) /\ Len(<<>>) = 0
  BY PairSeq
<1> QED
  BY <1>1 DEF Rest

(* The operands that are left. *)
LEMMA OperandsLeft ==
    ASSUME NEW T, NEW s \in Seq(T), s # <<>>, NEW g \in Nat, NEW n \in Nat, g <= n,
           Len(s) = n + 1 - g
    PROVE  /\ Len(Tail(s)) = n + 1 - (g + 1)
           /\ \A h \in g + 1 .. n : Tail(s)[h - (g + 1) + 1] = s[h - g + 1]
<1>1. Len(Tail(s)) = Len(s) - 1 /\ \A i \in 1 .. Len(s) - 1 : Tail(s)[i] = s[i + 1]
  BY HeadTailProperties, EmptySeq, LenProperties
<1>2. Len(Tail(s)) = n + 1 - (g + 1)
  BY <1>1
<1>3. ASSUME NEW h \in g + 1 .. n
      PROVE  Tail(s)[h - (g + 1) + 1] = s[h - g + 1]
  <2>1. PICK i : i = h - g
    OBVIOUS
  <2>2. i \in 1 .. Len(s) - 1 /\ h - (g + 1) + 1 = i /\ h - g + 1 = i + 1
    BY <2>1
  <2> QED
    BY <1>1, <2>2
<1> QED
  BY <1>2, <1>3

LEMMA FinalizeNextOwn ==
    ASSUME TypeOK, Control, Backed, \A q \in Party : Own(q) /\ Grown(q),
           NEW p \in Party, NEW b, NEW g, NEW n, Finalizing(p, b, g, n), FinalizeMul(p),
           g < n
    PROVE  Own(p)'
<1>1. /\ pc[p] = "finalize" /\ b = ip[p] /\ g = gate[p] /\ n = Len(Plan(b))
      /\ b \in Nat \ {0} /\ g \in Nat /\ g >= 1 /\ n \in Nat /\ g <= n
      /\ Len(log[p]) = b /\ Open(p) = g /\ Made(p) = n
  BY DEF Finalizing
<1>2. /\ pc'[p] = "finalize" /\ gate'[p] = g + 1 /\ ip'[p] = b /\ log' = log
      /\ Open(p)' = g + 1 /\ Made(p)' = n
  BY FinalizeNext
<1>3. PICK t, q1 : t = Taken(p, Fan(b, g)) /\ q1 = (IF p = 0 THEN 1 ELSE 0)
  OBVIOUS
<1>4. /\ os'[p][1] = Rest(os[p][1], t.os1) /\ os'[p][2] = Rest(os[p][2], t.os2)
      /\ add_shares'[p] = Rest(add_shares[p], t.add)
      /\ add_shares_2'[p] = Rest(add_shares_2[p], t.add2)
      /\ and_operands'[p] = Tail(and_operands[p])
      /\ marks' = marks
      /\ Updated(Plan(b), ResultsFor(p, b), g, log[p][b], S'[p])
  BY <1>3, FinalizeEffect
<1>5. /\ and_operands[p] # <<>>
      /\ Takes(add_shares[p], t.add, g, n, AddFor(p, b))
      /\ Takes(add_shares_2[p], t.add2, g, n, Add2For(p, b))
      /\ p # 2 => /\ Takes(os[p][1], t.os1, g, n, SentFor(q1, p, b))
                  /\ Takes(os[p][2], t.os2, g, n, SentFor(2, p, b))
  BY <1>3, FinalizeTakes
<1>6. /\ Own(p) /\ Grown(p) /\ program' = program /\ Ready(p, b)
      /\ Plan(b)' = Plan(b) /\ Gates(p)' = Plan(b)
  <2>1. Ready(p, b)
    BY <1>1, FinalizeReady
  <2>2. program' = program
    BY DEF Grown
  <2> QED
    BY <1>1, <1>2, <2>1, <2>2 DEF Plan, Gates
<1>7. Logged(p)'
  <2>1. \A c \in 1 .. b - 1 : program'[c].op = "ands" =>
           Updated(Plan(c)', ResultsFor(p, c)', Len(Plan(c)'), log'[p][c], log'[p][c + 1])
    BY <1>1, EarlierLogged
  <2>2. ResultsFor(p, b)' = ResultsFor(p, b)
    BY <1>6, ResultSame DEF Own, Marking
  <2>3. gate'[p] - 1 = g
    BY <1>1, <1>2
  <2>4. Updated(Gates(p)', ResultsFor(p, b)', gate'[p] - 1, log'[p][b], S'[p])
    BY <1>2, <1>4, <1>6, <2>2, <2>3
  <2>5. Len(log'[p]) = b
    BY <1>1, <1>2
  <2> QED
    BY <1>2, <2>1, <2>4, <2>5 DEF Logged
<1>8. Marking(p)'
  BY <1>1, <1>2, <1>4, <1>6, MarkingSame DEF Own
<1>9. \A h \in g + 1 .. n : h \in 1 .. n
  BY <1>1
<1>10. SameWords(p, b, n)
  BY <1>1, <1>6, OwnWordsSame DEF SameWords
<1>11. Keeping(p)'
  <2>1. Joined(add_shares'[p], g + 1, n, AddFor(p, b)')
    BY <1>4, <1>5, <1>9, <1>10, JoinedSame DEF Takes, SameWords
  <2>2. Joined(add_shares_2'[p], g + 1, n, Add2For(p, b)')
    BY <1>4, <1>5, <1>9, <1>10, JoinedSame DEF Takes, SameWords
  <2>3. /\ Len(and_operands[p]) = n + 1 - g
        /\ \A h \in g .. n : and_operands[p][h - g + 1] = OperandsFor(p, b, h)
    BY <1>1 DEF Own, Keeping
  <2>4. and_operands[p] \in Seq(Seq(Share))
    BY DEF TypeOK
  <2>5. /\ Len(and_operands'[p]) = n + 1 - (g + 1)
        /\ \A h \in g + 1 .. n : and_operands'[p][h - (g + 1) + 1] = and_operands[p][h - g + 1]
    <3>1. PICK s : s = and_operands[p]
      OBVIOUS
    <3>2. s \in Seq(Seq(Share)) /\ s # <<>> /\ Len(s) = n + 1 - g /\ and_operands'[p] = Tail(s)
      BY <1>4, <1>5, <2>3, <2>4, <3>1
    <3>3. /\ Len(Tail(s)) = n + 1 - (g + 1)
          /\ \A h \in g + 1 .. n : Tail(s)[h - (g + 1) + 1] = s[h - g + 1]
      <4>1. g \in Nat /\ n \in Nat /\ g <= n
        BY <1>1
      <4> QED
        BY <3>2, <4>1, OperandsLeft
    <3> QED
      BY <3>1, <3>2, <3>3
  <2>6. \A h \in g + 1 .. n : h \in g .. n
    BY <1>1
  <2>7. \A h \in g + 1 .. n :
           and_operands'[p][h - (g + 1) + 1] = OperandsFor(p, b, h)'
    BY <1>9, <1>10, <2>3, <2>5, <2>6 DEF SameWords
  <2> QED
    BY <1>2, <2>1, <2>2, <2>5, <2>7 DEF Keeping
<1>12. Sending(p)'
  BY <1>2 DEF Sending
<1>13. Received(p)'
  <2>1. ASSUME p # 2, NEW q \in Party \ {p}
        PROVE  Joined(os'[p][Slot(q)], g + 1, n, SentFor(q, p, b)')
    <3>1. \A h \in 1 .. n : SentFor(q, p, b)'[h] = SentFor(q, p, b)[h]
      BY <1>1, <1>6, <2>1, SentSame DEF Ready, Own, Marking
    <3>2. Joined(os'[p][Slot(q)], g + 1, n, SentFor(q, p, b))
      <4>1. (q = q1 /\ Slot(q) = 1) \/ (q = 2 /\ Slot(q) = 2)
        <5>1. p \in {0, 1} /\ q \in {0, 1, 2} /\ q # p
          BY <2>1 DEF Party
        <5>2. q1 = (IF p = 0 THEN 1 ELSE 0)
          BY <1>3
        <5>3. q = q1 \/ q = 2
          BY ONLY <5>1, <5>2
        <5>4. q1 # 2
          BY ONLY <5>2
        <5> QED
          BY <5>3, <5>4 DEF Slot
      <4> QED
        BY <1>4, <1>5, <2>1, <4>1 DEF Takes
    <3> QED
      BY <1>9, <3>1, <3>2, JoinedSame
  <2>2. p = 2 => os'[p][2] = <<>>
    <3> SUFFICES ASSUME p = 2 PROVE os'[p][2] = <<>>
      OBVIOUS
    <3>1. os[p][2] = <<>> /\ t.os2 = 0
      BY <1>3 DEF Own, Received, Taken
    <3> QED
      BY <1>4, <3>1, RestOfNone
  <2>3. pc'[p] \in Batch
    BY <1>2 DEF Batch
  <2> QED
    BY <1>2, <2>1, <2>2, <2>3 DEF Received, Slot
<1> QED
  BY <1>7, <1>8, <1>11, <1>12, <1>13 DEF Own

(* finalize_mul for the last gate. *)
LEMMA FinalizeLast ==
    ASSUME TypeOK, TypeOK', Control, NEW p \in Party, NEW b, NEW g, NEW n,
           Finalizing(p, b, g, n), FinalizeMul(p), ~(g < n)
    PROVE  /\ g = n /\ pc'[p] = "idle" /\ ip'[p] = b + 1
           /\ Len(log'[p]) = b + 1 /\ log'[p][b + 1] = S'[p]
           /\ \A c \in 1 .. b : log'[p][c] = log[p][c]
           /\ Open(p)' = 1 /\ Made(p)' = 0
<1>1. /\ pc[p] = "finalize" /\ b = ip[p] /\ g = gate[p] /\ n = Len(Plan(b)) /\ n = Len(Gates(p))
      /\ g \in Nat /\ n \in Nat /\ g <= n /\ Len(log[p]) = b
  BY DEF Finalizing, Plan, Gates
<1>2. /\ pc' = [pc EXCEPT ![p] = "idle"] /\ ip' = [ip EXCEPT ![p] = ip[p] + 1]
      /\ log' = [log EXCEPT ![p] = Append(log[p], S'[p])]
  BY <1>1 DEF FinalizeMul
<1>3. pc'[p] = "idle" /\ ip'[p] = b + 1
  BY <1>1, <1>2 DEF TypeOK
<1>4. PICK new : new = S'[p]
  OBVIOUS
<1>5. log'[p] = Append(log[p], new) /\ log[p] \in Seq([Reg -> Share]) /\ new \in [Reg -> Share]
  BY <1>2, <1>4 DEF TypeOK
<1>6. /\ Len(log'[p]) = b + 1 /\ log'[p][b + 1] = new
      /\ \A c \in 1 .. b : log'[p][c] = log[p][c]
  BY <1>1, <1>5, AppendProperties
<1>7. g = n
  BY <1>1
<1>8. Open(p)' = 1 /\ Made(p)' = 0
  BY <1>3 DEF Open, Made, Sent
<1> QED
  BY <1>3, <1>4, <1>6, <1>7, <1>8

LEMMA FinalizeLastOwn ==
    ASSUME TypeOK, TypeOK', Control, Backed, \A q \in Party : Own(q) /\ Grown(q),
           NEW p \in Party, NEW b, NEW g, NEW n, Finalizing(p, b, g, n), FinalizeMul(p),
           ~(g < n)
    PROVE  Own(p)'
<1>1. /\ pc[p] = "finalize" /\ b = ip[p] /\ g = gate[p] /\ n = Len(Plan(b))
      /\ b \in Nat \ {0} /\ g \in Nat /\ g >= 1 /\ n \in Nat /\ g <= n
      /\ Len(log[p]) = b /\ Open(p) = g /\ Made(p) = n
      /\ b \in 1 .. Len(program) /\ program[b].op = "ands"
  BY DEF Finalizing
<1>2. /\ g = n /\ pc'[p] = "idle" /\ ip'[p] = b + 1
      /\ Len(log'[p]) = b + 1 /\ log'[p][b + 1] = S'[p]
      /\ \A c \in 1 .. b : log'[p][c] = log[p][c]
      /\ Open(p)' = 1 /\ Made(p)' = 0
  BY FinalizeLast
<1>3. PICK t, q1 : t = Taken(p, Fan(b, g)) /\ q1 = (IF p = 0 THEN 1 ELSE 0)
  OBVIOUS
<1>4. /\ os'[p][1] = Rest(os[p][1], t.os1) /\ os'[p][2] = Rest(os[p][2], t.os2)
      /\ add_shares'[p] = Rest(add_shares[p], t.add)
      /\ add_shares_2'[p] = Rest(add_shares_2[p], t.add2)
      /\ and_operands'[p] = Tail(and_operands[p])
      /\ marks' = marks
      /\ Updated(Plan(b), ResultsFor(p, b), g, log[p][b], S'[p])
  BY <1>3, FinalizeEffect
<1>5. /\ and_operands[p] # <<>>
      /\ Takes(add_shares[p], t.add, g, n, AddFor(p, b))
      /\ Takes(add_shares_2[p], t.add2, g, n, Add2For(p, b))
      /\ p # 2 => /\ Takes(os[p][1], t.os1, g, n, SentFor(q1, p, b))
                  /\ Takes(os[p][2], t.os2, g, n, SentFor(2, p, b))
  BY <1>3, FinalizeTakes
<1>6. /\ Own(p) /\ Grown(p) /\ program' = program /\ Ready(p, b)
      /\ \A c : Plan(c)' = Plan(c)
  <2>1. Ready(p, b)
    BY <1>1, FinalizeReady
  <2>2. program' = program
    BY DEF Grown
  <2> QED
    BY <2>1, <2>2 DEF Plan
<1>7. Logged(p)'
  <2>1. \A c \in 1 .. b - 1 : program'[c].op = "ands" =>
           Updated(Plan(c)', ResultsFor(p, c)', Len(Plan(c)'), log'[p][c], log'[p][c + 1])
    BY <1>1, EarlierLogged
  <2>2. ResultsFor(p, b)' = ResultsFor(p, b)
    BY <1>6, ResultSame DEF Own, Marking
  <2>3. Updated(Plan(b)', ResultsFor(p, b)', Len(Plan(b)'), log'[p][b], log'[p][b + 1])
    <3>1. b \in 1 .. b
      BY <1>1
    <3> QED
      BY <1>1, <1>2, <1>4, <1>6, <2>2, <3>1
  <2>4. \A c \in 1 .. (b + 1) - 1 : c = b \/ c \in 1 .. b - 1
    BY <1>1
  <2>5. \A c \in 1 .. ip'[p] - 1 : program'[c].op = "ands" =>
           Updated(Plan(c)', ResultsFor(p, c)', Len(Plan(c)'), log'[p][c], log'[p][c + 1])
    BY <1>1, <1>2, <1>6, <2>1, <2>3, <2>4
  <2>6. S'[p] = log'[p][ip'[p]] /\ Len(log'[p]) = ip'[p] /\ pc'[p] # "finalize"
    BY <1>2
  <2> QED
    BY <2>5, <2>6 DEF Logged
<1>8. Marking(p)'
  <2>1. \A c, h : Marked(p, c, h) => Marked(p, c, h)'
    BY <1>6 DEF Grown, Marked
  <2>2. \A c \in 1 .. (b + 1) - 1 : program[c].op = "ands" =>
           \A h \in 1 .. Len(Plan(c)) : Marked(p, c, h)
    <3>1. \A c \in 1 .. b - 1 : program[c].op = "ands" =>
             \A h \in 1 .. Len(Plan(c)) : Marked(p, c, h)
      BY <1>1, <1>6 DEF Own, Marking
    <3>2. \A h \in 1 .. Len(Plan(b)) : Marked(p, b, h)
      BY <1>1, <1>6 DEF Own, Marking
    <3>3. \A c \in 1 .. (b + 1) - 1 : c = b \/ c \in 1 .. b - 1
      BY <1>1
    <3> QED
      BY <3>1, <3>2, <3>3
  <2>3. \A c \in 1 .. ip'[p] - 1 : program'[c].op = "ands" =>
           \A h \in 1 .. Len(Plan(c)') : Marked(p, c, h)'
    <3>1. program' = program
      BY <1>6 DEF Grown
    <3> QED
      BY <1>2, <1>6, <2>1, <2>2, <3>1
  <2>4. \A m \in DOMAIN marks'[p] : marks'[p][m].ip < b + 1
    <3>1. \A m \in DOMAIN marks[p] : marks[p][m].ip < b \/ marks[p][m].ip = b
      BY <1>1, <1>6 DEF Own, Marking
    <3>2. \A m \in DOMAIN marks[p] : marks[p][m].ip \in Nat
      <4>1. marks[p] \in Seq(Mark)
        BY DEF TypeOK
      <4>2. \A m \in DOMAIN marks[p] : marks[p][m] \in Mark
        BY <4>1, ElementOfSeq, LenProperties
      <4> QED
        BY <4>2 DEF Mark
    <3>3. marks'[p] = marks[p] /\ b \in Nat
      BY <1>1, <1>4
    <3>4. \A m \in DOMAIN marks[p] : marks[p][m].ip < b + 1
      <4> TAKE m \in DOMAIN marks[p]
      <4>1. PICK i \in Nat : i = marks[p][m].ip
        BY <3>2
      <4>2. i < b \/ i = b
        BY <3>1, <4>1
      <4> QED
        BY <3>3, <4>1, <4>2
    <3> QED
      BY <3>3, <3>4
  <2>5. Distinct(p)'
    BY <1>6 DEF Grown
  <2>6. \A h \in 1 .. 0 : FALSE
    OBVIOUS
  <2> QED
    BY <1>2, <2>3, <2>4, <2>5, <2>6 DEF Marking
<1>9. Keeping(p)'
  <2>1. add_shares'[p] = <<>> /\ add_shares_2'[p] = <<>>
    BY <1>1, <1>2, <1>4, <1>5, TakesLast
  <2>2. Len(and_operands[p]) = n + 1 - g /\ and_operands[p] \in Seq(Seq(Share))
    BY <1>1 DEF Own, Keeping, TypeOK
  <2>3. Len(and_operands'[p]) = 0 + 1 - 1
    <3>1. Len(and_operands'[p]) = n + 1 - (g + 1)
      BY <1>1, <1>4, <1>5, <2>2, OperandsLeft
    <3> QED
      BY <1>1, <1>2, <3>1
  <2>4. \A h \in 1 .. 0 : FALSE
    OBVIOUS
  <2> QED
    BY <1>2, <2>1, <2>3, <2>4, NothingJoined DEF Keeping
<1>10. Sending(p)'
  BY <1>2 DEF Sending
<1>11. Received(p)'
  <2>1. ASSUME p # 2, NEW q \in Party \ {p}
        PROVE  os'[p][Slot(q)] = <<>>
    <3>1. os'[p][1] = <<>> /\ os'[p][2] = <<>>
      BY <1>1, <1>2, <1>4, <1>5, <2>1, TakesLast
    <3> QED
      BY <3>1 DEF Slot
  <2>2. p = 2 => os'[p][2] = <<>>
    <3> SUFFICES ASSUME p = 2 PROVE os'[p][2] = <<>>
      OBVIOUS
    <3>1. os[p][2] = <<>> /\ t.os2 = 0
      BY <1>3 DEF Own, Received, Taken
    <3> QED
      BY <1>4, <3>1, RestOfNone
  <2>3. \A q : ~HasWords(p, q)'
    BY <1>2 DEF HasWords
  <2> QED
    BY <1>2, <2>1, <2>2, <2>3 DEF Received, Slot
<1> QED
  BY <1>7, <1>8, <1>9, <1>10, <1>11 DEF Own

-----------------------------------------------------------------------------
(***************************************************************************)
(* Every step preserves what a party owns, and what is on its way.         *)
(***************************************************************************)

LEMMA FinalizeMulOwn ==
    ASSUME TypeOK, TypeOK', Control, Backed, \A q \in Party : Own(q) /\ Grown(q),
           NEW p \in Party, FinalizeMul(p)
    PROVE  Own(p)'
<1>1. pc[p] = "finalize"
  BY DEF FinalizeMul
<1>2. PICK b, g, n : Finalizing(p, b, g, n)
  BY <1>1, FinalizingHere
<1>3. CASE g < n
  BY <1>2, <1>3, FinalizeNextOwn
<1>4. CASE ~(g < n)
  BY <1>2, <1>4, FinalizeLastOwn
<1> QED
  BY <1>3, <1>4

(* No step changes what a party has of itself. *)
LEMMA OwnStep ==
    ASSUME TypeOK, TypeOK', Control, Backed, \A q \in Party : Own(q) /\ Grown(q),
           NEW r \in Party, Step(r), NEW p \in Party
    PROVE  Own(p)'
<1>1. ASSUME Framed(p)
      PROVE  Own(p)'
  BY <1>1, FramedOwn
<1>2. CASE p # r
  <2>1. program' = program
    BY StepHistory
  <2> QED
    BY <1>1, <1>2, <2>1, OthersAlone, AloneFramed
<1>3. CASE p = r
  <2>1. CASE Reseed(p)
    <3>1. /\ pc[p] = "reseed" /\ pc' = [pc EXCEPT ![p] = "seed_next"]
          /\ UNCHANGED <<program, ip, gate, S, os, kept, log, marks>>
      BY <2>1 DEF Reseed
    <3>2. Framed(p)
      BY <3>1, SeedingFramed
    <3> QED
      BY <1>1, <3>2
  <2>2. ASSUME NEW from, NEW slot, NEW at, NEW next,
               ReceiveSeed(p, from, slot, at, next),
               at \in {"seed_next", "seed_prev"}, next \in {"seed_prev", "idle"}
        PROVE  Own(p)'
    <3>1. /\ pc[p] = at /\ pc' = [pc EXCEPT ![p] = next]
          /\ UNCHANGED <<program, ip, gate, S, os, kept, log, marks>>
      BY <2>2 DEF ReceiveSeed
    <3>2. Framed(p)
      BY <2>2, <3>1, SeedingFramed
    <3> QED
      BY <1>1, <3>2
  <2>3. CASE InitMul(p)
    BY <2>3, InitMulOwn
  <2>4. CASE PrepareMul(p)
    BY <2>4, PrepareMulOwn
  <2>5. CASE Send(p)
    BY <1>1, <2>5, SendFramed
  <2>6. CASE ReceiveFirst(p)
    <3>1. PICK from, i : from = Before(p) /\ i = (IF p = 0 THEN 2 ELSE 1)
      OBVIOUS
    <3>2. Receive(p, from, i, "receive_first", "receive_second")
      BY <2>6, <3>1 DEF ReceiveFirst
    <3> QED
      BY <3>1, <3>2, ReceiveOwn
  <2>7. CASE ReceiveSecond(p)
    <3>1. PICK from, i : from = After(p) /\ i = (IF p = 0 THEN 1 ELSE 2)
      OBVIOUS
    <3>2. Receive(p, from, i, "receive_second", "finalize")
      BY <2>7, <3>1 DEF ReceiveSecond
    <3> QED
      BY <3>1, <3>2, ReceiveOwn
  <2>8. CASE FinalizeMul(p)
    BY <2>8, FinalizeMulOwn
  <2>9. CASE ReceiveSeedNext(p)
    BY <2>2, <2>9 DEF ReceiveSeedNext
  <2>10. CASE ReceiveSeedPrev(p)
    BY <2>2, <2>10 DEF ReceiveSeedPrev
  <2> QED
    BY <1>3, <2>1, <2>3, <2>4, <2>5, <2>6, <2>7, <2>8, <2>9, <2>10 DEF Step
<1> QED
  BY <1>2, <1>3

-----------------------------------------------------------------------------
(* What has been sent keeps its meaning.                                   *)
LEMMA MessageSame ==
    ASSUME TypeOK, Control, NEW p \in Party, NEW q \in Party, Own(p), Uniform(p), Grown(p),
           NEW b \in Nat \ {0}, b <= WordsSent(p, q), NEW ws,
           Joined(ws, 1, Len(Plan(b)), SentFor(p, q, b))
    PROVE  Joined(ws, 1, Len(Plan(b)'), SentFor(p, q, b)')
<1>1. Done(p, b)
  BY SenderDone
<1>2. PICK c, d, n : c = SentFor(p, q, b) /\ d = SentFor(p, q, b)' /\ n = Len(Plan(b))
  OBVIOUS
<1>3. \A g \in 1 .. n : c[g] = d[g]
  BY <1>1, <1>2, SentSame DEF Own, Marking
<1>4. Plan(b)' = Plan(b)
  BY DEF Grown, Plan
<1>5. Joined(ws, 1, n, c)
  BY <1>2
<1>6. Joined(ws, 1, n, d)
  BY <1>3, <1>5, JoinedSame
<1> QED
  BY <1>2, <1>4, <1>6

LEMMA NothingSent ==
    ASSUME NEW p \in Party, NEW q \in Party, WordsSent(p, q)' = 0, chan'[p][q] \in Seq(Message)
    PROVE  InFlight(p, q)'
<1>1. Len(chan'[p][q]) \in Nat
  BY LenProperties
<1>2. \A i \in 1 .. Len(chan'[p][q]) : ~(0 - Len(chan'[p][q]) + i >= 1)
  BY <1>1
<1> QED
  BY <1>2 DEF InFlight

(* The messages of a connection: none but the last k of those before.      *)
LEMMA InFlightKept ==
    ASSUME TypeOK, Control, NEW p \in Party, NEW q \in Party, Own(p), Uniform(p), Grown(p), InFlight(p, q),
           WordsSent(p, q)' = WordsSent(p, q), WordsSent(p, q) \in Nat,
           Len(chan[p][q]) \in Nat, NEW k \in Nat, Len(chan'[p][q]) = Len(chan[p][q]) - k,
           \A i \in 1 .. Len(chan[p][q]) - k : chan'[p][q][i] = chan[p][q][i + k]
    PROVE  InFlight(p, q)'
<1>1. PICK sent, len, old, new : /\ sent = WordsSent(p, q) /\ len = Len(chan[p][q])
                                 /\ old = chan[p][q] /\ new = chan'[p][q]
  OBVIOUS
<1>2. sent \in Nat /\ len \in Nat /\ Len(new) = len - k
  BY <1>1
<1>3. ASSUME NEW i \in 1 .. Len(new), NEW b, b = sent - Len(new) + i, b >= 1
      PROVE  Joined(new[i].words, 1, Len(Plan(b)'), SentFor(p, q, b)')
  <2>1. i + k \in 1 .. len /\ b = sent - len + (i + k) /\ b \in Nat \ {0} /\ b <= sent
        /\ i \in 1 .. len - k
    BY <1>2, <1>3
  <2>2. new[i] = old[i + k]
    BY <1>1, <2>1
  <2>3. Joined(old[i + k].words, 1, Len(Plan(b)), SentFor(p, q, b))
    BY <1>1, <1>3, <2>1 DEF InFlight
  <2>4. PICK ws : ws = old[i + k].words
    OBVIOUS
  <2>5. Joined(ws, 1, Len(Plan(b)'), SentFor(p, q, b)')
    BY <1>1, <2>1, <2>3, <2>4, MessageSame
  <2> QED
    BY <2>2, <2>4, <2>5
<1>4. WordsSent(p, q)' = sent /\ chan'[p][q] = new
  BY <1>1
<1>5. \A i \in 1 .. Len(chan'[p][q]) :
         \A b : b = WordsSent(p, q)' - Len(chan'[p][q]) + i /\ b >= 1
                  => Joined(chan'[p][q][i].words, 1, Len(Plan(b)'), SentFor(p, q, b)')
  BY <1>3, <1>4
<1> QED
  BY <1>4, <1>5 DEF InFlight

(* The words of one more instruction at the end.                           *)
LEMMA InFlightMore ==
    ASSUME TypeOK, Control, NEW p \in Party, NEW q \in Party, Own(p), Uniform(p), Grown(p), InFlight(p, q),
           NEW sent \in Nat, sent = WordsSent(p, q), WordsSent(p, q)' = sent + 1,
           NEW ws, WordMessage(ws) \in Message, chan[p][q] \in Seq(Message),
           chan'[p][q] = Append(chan[p][q], WordMessage(ws)),
           Joined(ws, 1, Len(Plan(sent + 1)), SentFor(p, q, sent + 1)'),
           Plan(sent + 1)' = Plan(sent + 1)
    PROVE  InFlight(p, q)'
<1>1. PICK old, len, new : old = chan[p][q] /\ len = Len(old) /\ new = chan'[p][q]
  OBVIOUS
<1>2. /\ len \in Nat /\ Len(new) = len + 1 /\ new[len + 1] = WordMessage(ws)
      /\ \A i \in 1 .. len : new[i] = old[i]
  BY <1>1, AppendProperties, LenProperties
<1>3. ASSUME NEW i \in 1 .. Len(new), NEW b, b = (sent + 1) - Len(new) + i, b >= 1
      PROVE  Joined(new[i].words, 1, Len(Plan(b)'), SentFor(p, q, b)')
  <2>1. CASE i = len + 1
    <3>1. b = sent + 1
      BY <1>2, <1>3, <2>1
    <3>2. new[i].words = ws
      BY <1>2, <2>1 DEF WordMessage
    <3> QED
      BY <3>1, <3>2
  <2>2. CASE i # len + 1
    <3>1. i \in 1 .. len /\ b = sent - len + i /\ b \in Nat \ {0} /\ b <= sent
      BY <1>2, <1>3, <2>2
    <3>2. Joined(old[i].words, 1, Len(Plan(b)), SentFor(p, q, b))
      BY <1>1, <1>3, <3>1 DEF InFlight
    <3>3. PICK v : v = old[i].words
      OBVIOUS
    <3>4. Joined(v, 1, Len(Plan(b)'), SentFor(p, q, b)')
      BY <3>1, <3>2, <3>3, MessageSame
    <3> QED
      BY <1>2, <3>1, <3>3, <3>4
  <2> QED
    BY <2>1, <2>2
<1>4. WordsSent(p, q)' = sent + 1 /\ chan'[p][q] = new
  BY <1>1
<1>5. \A i \in 1 .. Len(chan'[p][q]) :
         \A b : b = WordsSent(p, q)' - Len(chan'[p][q]) + i /\ b >= 1
                  => Joined(chan'[p][q][i].words, 1, Len(Plan(b)'), SentFor(p, q, b)')
  BY <1>3, <1>4
<1> QED
  BY <1>4, <1>5 DEF InFlight

LEMMA InFlightUntouched ==
    ASSUME TypeOK, Control, NEW p \in Party, NEW q \in Party, Own(p), Uniform(p), Grown(p), InFlight(p, q),
           WordsSent(p, q)' = WordsSent(p, q), chan'[p][q] = chan[p][q]
    PROVE  InFlight(p, q)'
<1>1. WordsSent(p, q) \in Nat /\ Len(chan[p][q]) \in Nat
  BY WordCounts, TypedParts, LenProperties
<1>2. /\ Len(chan'[p][q]) = Len(chan[p][q]) - 0
      /\ \A i \in 1 .. Len(chan[p][q]) - 0 : chan'[p][q][i] = chan[p][q][i + 0]
  BY <1>1
<1> QED
  BY <1>1, <1>2, InFlightKept

(* The first message is taken. *)
LEMMA InFlightTaken ==
    ASSUME TypeOK, Control, NEW p \in Party, NEW q \in Party, Own(p), Uniform(p), Grown(p), InFlight(p, q),
           WordsSent(p, q)' = WordsSent(p, q),
           chan[p][q] # <<>>, chan'[p][q] = Tail(chan[p][q])
    PROVE  InFlight(p, q)'
<1>1. /\ WordsSent(p, q) \in Nat /\ Len(chan[p][q]) \in Nat
      /\ chan[p][q] \in Seq(Message)
  BY WordCounts, TypedParts, LenProperties
<1>2. PICK s : s = chan[p][q]
  OBVIOUS
<1>3. /\ Len(Tail(s)) = Len(s) - 1
      /\ \A i \in 1 .. Len(Tail(s)) : Tail(s)[i] = s[i + 1]
  BY <1>1, <1>2, HeadTailProperties
<1>4. /\ Len(chan'[p][q]) = Len(chan[p][q]) - 1
      /\ \A i \in 1 .. Len(chan[p][q]) - 1 : chan'[p][q][i] = chan[p][q][i + 1]
  BY <1>2, <1>3
<1> QED
  BY <1>1, <1>4, InFlightKept

LEMMA SentCount ==
    ASSUME TypeOK, NEW r \in Party, Step(r), ~Send(r), ~Reseed(r), NEW q \in Party
    PROVE  WordsSent(r, q)' = WordsSent(r, q)
<1>1. ip[r] \in Nat \ {0}
  BY DEF TypeOK
<1>2. ASSUME ip' = ip,
             pc[r] \in {"receive_first", "receive_second", "finalize"} <=>
             pc'[r] \in {"receive_first", "receive_second", "finalize"}
      PROVE  WordsSent(r, q)' = WordsSent(r, q)
  BY <1>2 DEF WordsSent, OneIf
<1>3. ASSUME NEW from, NEW slot, NEW at \in {"seed_next", "seed_prev"},
             NEW next \in {"seed_prev", "idle"}, ReceiveSeed(r, from, slot, at, next)
      PROVE  WordsSent(r, q)' = WordsSent(r, q)
  <2>1. ip' = ip /\ pc[r] = at /\ pc'[r] = next
    BY <1>3 DEF ReceiveSeed, TypeOK
  <2> QED
    BY <1>2, <2>1
<1>4. ASSUME NEW from, NEW i, NEW at \in {"receive_first", "receive_second"},
             NEW next \in {"receive_second", "finalize"}, Receive(r, from, i, at, next)
      PROVE  WordsSent(r, q)' = WordsSent(r, q)
  <2>1. ip' = ip /\ pc[r] = at /\ pc'[r] = next
    BY <1>4 DEF Receive, TypeOK
  <2> QED
    BY <1>2, <2>1
<1>5. CASE InitMul(r)
  <2>1. ip' = ip /\ pc[r] = "idle" /\ pc'[r] = "prepare"
    BY <1>5 DEF InitMul, TypeOK
  <2> QED
    BY <1>2, <2>1
<1>6. CASE PrepareMul(r)
  <2>1. ip' = ip /\ pc[r] = "prepare" /\ pc'[r] \in {"prepare", "send"}
    BY <1>6 DEF PrepareMul, TypeOK
  <2> QED
    BY <1>2, <2>1
<1>7. CASE FinalizeMul(r)
  <2>1. CASE gate[r] < Len(Gates(r))
    <3>1. pc' = pc /\ ip' = ip
      BY <1>7, <2>1 DEF FinalizeMul
    <3> QED
      BY <1>2, <3>1
  <2>2. CASE ~(gate[r] < Len(Gates(r)))
    <3>1. pc[r] = "finalize" /\ pc'[r] = "idle" /\ ip'[r] = ip[r] + 1
      BY <1>7, <2>2 DEF FinalizeMul, TypeOK
    <3> QED
      BY <1>1, <3>1 DEF WordsSent, OneIf
  <2> QED
    BY <2>1, <2>2
<1> QED
  BY <1>3, <1>4, <1>5, <1>6, <1>7
  DEF Step, ReceiveFirst, ReceiveSecond, ReceiveSeedNext, ReceiveSeedPrev

LEMMA SendInFlight ==
    ASSUME TypeOK, Control, NEW p \in Party, Own(p), Uniform(p), Grown(p), Send(p),
           NEW q \in Party, p # q, q # 2, InFlight(p, q)
    PROVE  InFlight(p, q)'
<1>1. PICK i \in 0 .. 2 : /\ i = PartFor(p, q)
                          /\ chan'[p][q] = Append(chan[p][q], WordMessage(os[p][i]))
  BY SendEffect
<1>2. PICK b, ws : b = ip[p] /\ ws = os[p][i]
  OBVIOUS
<1>3. /\ pc[p] = "send" /\ pc'[p] \in {"receive_first", "finalize"} /\ ip'[p] = b
      /\ b \in Nat \ {0}
  BY <1>2 DEF Send, TypeOK
<1>4. WordsSent(p, q) = b - 1 /\ WordsSent(p, q)' = b
  BY <1>2, <1>3 DEF WordsSent, OneIf
<1>5. Done(p, b)
  BY <1>2, <1>3, SentDone DEF Sent
<1>6. Made(p) = Len(Plan(b))
  BY <1>2, <1>3 DEF Made, Sent, Plan, Gates
<1>7. Joined(ws, 1, Len(Plan(b)), SentFor(p, q, b))
  BY <1>1, <1>2, <1>3, <1>6 DEF Own, Sending, SentFor, PartFor
<1>8. PICK c, d, n : c = SentFor(p, q, b) /\ d = SentFor(p, q, b)' /\ n = Len(Plan(b))
  OBVIOUS
<1>9. \A g \in 1 .. n : c[g] = d[g]
  BY <1>5, <1>8, SentSame DEF Own, Marking
<1>10. Joined(ws, 1, n, d)
  <2>1. Joined(ws, 1, n, c)
    BY <1>7, <1>8
  <2> QED
    BY <1>9, <2>1, JoinedSame
<1>11. Plan(b)' = Plan(b)
  BY DEF Grown, Plan
<1>12. WordMessage(ws) \in Message /\ chan[p][q] \in Seq(Message)
  BY <1>2, TypedParts, WordMessageType
<1>13. PICK sent \in Nat : sent = b - 1 /\ sent + 1 = b
  BY <1>3
<1>14. /\ sent = WordsSent(p, q) /\ WordsSent(p, q)' = sent + 1
       /\ chan'[p][q] = Append(chan[p][q], WordMessage(ws))
       /\ Joined(ws, 1, Len(Plan(sent + 1)), SentFor(p, q, sent + 1)')
       /\ Plan(sent + 1)' = Plan(sent + 1)
  BY <1>1, <1>2, <1>4, <1>8, <1>10, <1>11, <1>13
<1> QED
  BY <1>12, <1>14, InFlightMore

LEMMA InFlightStep ==
    ASSUME TypeOK, TypeOK', Control, Flow, NEW r \in Party, Step(r),
           NEW p \in Party, NEW q \in Party, p # q, Own(p), Uniform(p), Grown(p), InFlight(p, q)
    PROVE  InFlight(p, q)'
<1>1. CASE q = 2
  <2>1. chan'[p][q] \in Seq(Message)
    BY DEF TypeOK
  <2>2. WordsSent(p, q)' = 0
    BY <1>1 DEF WordsSent
  <2> QED
    BY <2>1, <2>2, NothingSent
<1>2. CASE Reseed(r) /\ p = r
  <2>1. chan'[p][q] \in Seq(Message)
    BY DEF TypeOK
  <2>2. ip[p] = 1 /\ ip'[p] = ip[p] /\ pc'[p] = "seed_next"
    BY <1>2 DEF Reseed, Control, InBatch, TypeOK
  <2>3. WordsSent(p, q)' = 0
    BY <2>2 DEF WordsSent, OneIf
  <2> QED
    BY <2>1, <2>3, NothingSent
<1>3. CASE q # 2 /\ Send(r) /\ p = r
  BY <1>3, SendInFlight
<1>4. CASE ~(p = r /\ (Send(r) \/ Reseed(r)))
  <2>1. WordsSent(p, q)' = WordsSent(p, q)
    <3>1. CASE p = r
      BY <1>4, <3>1, SentCount
    <3>2. CASE p # r
      <4>1. ip'[p] = ip[p] /\ pc'[p] = pc[p]
        BY <3>2, OthersAlone DEF Alone
      <4> QED
        BY <4>1, CountsSame
    <3> QED
      BY <3>1, <3>2
  <2>2. chan \in [Party -> [Party -> Seq(Message)]]
    BY DEF TypeOK
  <2>3. ASSUME NEW from \in Party, chan[from][r] # <<>>,
               chan' = [chan EXCEPT ![from][r] = Tail(chan[from][r])]
        PROVE  InFlight(p, q)'
    <3>1. PICK v : v = Tail(chan[from][r])
      OBVIOUS
    <3>2. chan' = [chan EXCEPT ![from][r] = v]
      BY <2>3, <3>1
    <3>3. /\ chan'[from][r] = v
          /\ \A a, b \in Party : a # from \/ b # r => chan'[a][b] = chan[a][b]
      BY <2>2, <3>2, EntryChanged
    <3>4. CASE p = from /\ q = r
      BY <2>1, <2>3, <3>1, <3>3, <3>4, InFlightTaken
    <3>5. CASE ~(p = from /\ q = r)
      BY <2>1, <3>3, <3>5, InFlightUntouched
    <3> QED
      BY <3>4, <3>5
  <2>4. ASSUME chan'[p][q] = chan[p][q]
        PROVE  InFlight(p, q)'
    BY <2>1, <2>4, InFlightUntouched
  <2>5. Before(r) \in Party /\ After(r) \in Party
    BY PartyNeighbours
  <2>6. CASE Reseed(r)
    <3>1. p # r
      BY <1>4, <2>6
    <3>2. chan'[p] = chan[p]
      BY <2>2, <2>6, <3>1 DEF Reseed
    <3> QED
      BY <2>4, <3>2
  <2>7. ASSUME NEW from \in Party, NEW slot, NEW at, NEW next,
               ReceiveSeed(r, from, slot, at, next)
        PROVE  InFlight(p, q)'
    BY <2>3, <2>7 DEF ReceiveSeed
  <2>8. ASSUME NEW from \in Party, NEW i, NEW at, NEW next, Receive(r, from, i, at, next)
        PROVE  InFlight(p, q)'
    BY <2>3, <2>8 DEF Receive
  <2>9. CASE Send(r)
    <3>1. p # r
      BY <1>4, <2>9
    <3>2. chan'[p][q] = chan[p][q]
      BY <2>9, <3>1, SendEffect
    <3> QED
      BY <2>4, <3>2
  <2>10. CASE InitMul(r) \/ PrepareMul(r) \/ FinalizeMul(r)
    <3>1. chan' = chan
      BY <2>10 DEF InitMul, PrepareMul, FinalizeMul
    <3> QED
      BY <2>4, <3>1
  <2> QED
    BY <2>5, <2>6, <2>7, <2>8, <2>9, <2>10
    DEF Step, ReceiveFirst, ReceiveSecond, ReceiveSeedNext, ReceiveSeedPrev
<1> QED
  BY <1>1, <1>2, <1>3, <1>4

-----------------------------------------------------------------------------
(***************************************************************************)
(* The invariant, and what a batch consumes.                               *)
(***************************************************************************)

(* The registers are dealt as a dealer shares them. *)
LEMMA DealtConsistent ==
    ASSUME NEW v \in Vec, NEW alpha \in Vec, NEW beta \in Vec, NEW sh,
           \A p \in Party : sh[p] = DealtBy(0, v, alpha, beta)[p]
    PROVE  Consistent(sh)
<1>1. 0 \in Party /\ 1 \in Party /\ 2 \in Party /\ After(0) = 1
  BY DEF Party, After
<1>2. /\ sh[0] = Sh(v (+) alpha, beta) /\ sh[1] = Sh(v (+) beta, alpha)
      /\ sh[2] = Sh(alpha, beta)
  BY <1>1 DEF DealtBy
<1>3. /\ sh[0][0] = v (+) alpha /\ sh[0][1] = beta /\ sh[1][0] = v (+) beta
      /\ sh[1][1] = alpha /\ sh[2][0] = alpha /\ sh[2][1] = beta
  BY <1>2 DEF Sh
<1>4. (v (+) alpha) (+) alpha = (v (+) beta) (+) beta
  BY DEF (+)
<1> QED
  BY <1>3, <1>4 DEF Consistent

LEMMA DealtInit == Init => Dealt
<1> SUFFICES ASSUME Init PROVE Dealt
  OBVIOUS
<1>1. PICK in \in Inputs :
        S = [p \in Party |->
               [r \in Reg |-> DealtBy(0, in[r].v, in[r].alpha, in[r].beta)[p]]]
  BY DEF Init
<1>2. ASSUME NEW r \in Reg
      PROVE  Consistent([p \in Party |-> log[p][1][r]])
  <2>1. in[r].v \in Vec /\ in[r].alpha \in Vec /\ in[r].beta \in Vec
    BY InputsAssumption
  <2>2. \A p \in Party : log[p][1] = S[p]
    BY DEF Init
  <2>3. PICK sh : sh = [p \in Party |-> log[p][1][r]]
    OBVIOUS
  <2>4. \A p \in Party : sh[p] = DealtBy(0, in[r].v, in[r].alpha, in[r].beta)[p]
    BY <1>1, <2>2, <2>3
  <2>5. Consistent(sh)
    BY <2>1, <2>4, DealtConsistent
  <2> QED
    BY <2>3, <2>5
<1> QED
  BY <1>2 DEF Dealt

LEMMA BatchesInit == Init => Batches
<1> SUFFICES ASSUME Init PROVE Batches
  OBVIOUS
<1>1. \A p \in Party :
         /\ pc[p] = "reseed" /\ ip[p] = 1 /\ gate[p] = 1
         /\ add_shares[p] = <<>> /\ add_shares_2[p] = <<>> /\ and_operands[p] = <<>>
         /\ \A i \in 0 .. 2 : os[p][i] = <<>>
         /\ log[p] = <<S[p]>> /\ marks[p] = <<>>
         /\ \A q \in Party : chan[p][q] = <<>>
  BY DEF Init
<1>2. \A c \in 1 .. 0 : FALSE
  OBVIOUS
<1>3. ASSUME NEW p \in Party
      PROVE  Own(p)
  <2>1. Made(p) = 0 /\ Open(p) = 1 /\ ~(pc[p] \in Batch)
    BY <1>1 DEF Made, Open, Sent, Batch
  <2>2. Logged(p)
    <3>1. Len(log[p]) = 1 /\ log[p][1] = S[p]
      <4>1. PICK regs : regs = S[p]
        OBVIOUS
      <4>2. Len(<<regs>>) = 1 /\ <<regs>>[1] = regs
        OBVIOUS
      <4>3. log[p] = <<regs>>
        BY <1>1, <4>1
      <4> QED
        BY <4>1, <4>2, <4>3
    <3>2. ip[p] - 1 = 0
      BY <1>1
    <3> QED
      BY <1>1, <1>2, <3>1, <3>2 DEF Logged
  <2>3. Marking(p)
    <3>1. DOMAIN marks[p] = {}
      BY <1>1
    <3>2. Distinct(p)
      BY <3>1 DEF Distinct, Names
    <3>3. ip[p] - 1 = 0
      BY <1>1
    <3> QED
      BY <1>2, <2>1, <3>1, <3>2, <3>3 DEF Marking
  <2>4. Keeping(p)
    <3>1. Len(and_operands[p]) = 0 + 1 - 1
      BY <1>1
    <3> QED
      BY <1>1, <1>2, <2>1, <3>1, NothingJoined DEF Keeping
  <2>5. Sending(p)
    BY <1>1 DEF Sending
  <2>6. Received(p)
    BY <1>1 DEF Received, HasWords, Slot
  <2> QED
    BY <2>2, <2>3, <2>4, <2>5, <2>6 DEF Own
<1>4. ASSUME NEW p \in Party, NEW q \in Party
      PROVE  InFlight(p, q)
  <2>1. Len(chan[p][q]) = 0
    BY <1>1
  <2> QED
    BY <1>2, <2>1 DEF InFlight
<1>5. ASSUME NEW p \in Party PROVE Uniform(p)
  <2>1. ip[p] - 1 = 0
    BY <1>1
  <2> QED
    BY <1>2, <2>1 DEF Uniform
<1> QED
  BY <1>3, <1>4, <1>5, DealtInit DEF Batches

LEMMA UniformStep ==
    ASSUME TypeOK, Control, NEW r \in Party, Step(r), NEW p \in Party, Uniform(p)
    PROVE  Uniform(p)'
<1>1. program' = program /\ (FinalizeMul(r) \/ ip' = ip)
  BY StepHistory
<1>2. CASE ip'[p] = ip[p]
  BY <1>1, <1>2 DEF Uniform
<1>3. CASE ip'[p] # ip[p]
  <2>1. FinalizeMul(r)
    BY <1>1, <1>3
  <2>2. pc[r] = "finalize" /\ (ip' = ip \/ ip' = [ip EXCEPT ![r] = ip[r] + 1])
    BY <2>1 DEF FinalizeMul
  <2>3. p = r /\ ip'[p] = ip[p] + 1 /\ ip[p] \in Nat \ {0}
    BY <1>3, <2>2 DEF TypeOK
  <2>4. program[ip[p]].op = "ands"
    BY <2>2, <2>3 DEF Control, InBatch, Batch
  <2>5. \A b \in 1 .. ip'[p] - 1 : b = ip[p] \/ b \in 1 .. ip[p] - 1
    BY <2>3
  <2> QED
    BY <1>1, <2>4, <2>5 DEF Uniform
<1> QED
  BY <1>2, <1>3

LEMMA BatchesMoved ==
    ASSUME TypeOK, TypeOK', Control, Flow, Batches, \A p \in Party : Grown(p),
           \A p \in Party : Own(p)' /\ Uniform(p)',
           \A p, q \in Party : p # q => InFlight(p, q)'
    PROVE  Batches'
<1>1. ASSUME NEW r \in Reg
      PROVE  Consistent([p \in Party |-> log'[p][1][r]])
  <2>1. \A p \in Party : log'[p][1] = log[p][1]
    <3>1. ASSUME NEW p \in Party PROVE 1 \in 1 .. Len(log[p])
      <4>1. Len(log[p]) = ip[p] /\ ip[p] \in Nat \ {0}
        BY DEF Batches, Own, Logged, TypeOK
      <4> QED
        BY <4>1
    <3> QED
      BY <3>1 DEF Grown
  <2>2. [p \in Party |-> log'[p][1][r]] = [p \in Party |-> log[p][1][r]]
    BY <2>1
  <2>3. Consistent([p \in Party |-> log[p][1][r]])
    BY DEF Batches, Dealt
  <2> QED
    BY <2>2, <2>3
<1> QED
  BY <1>1 DEF Batches, Dealt

LEMMA BatchesStep ==
    ASSUME TypeOK, TypeOK', Control, Flow, Batches, NEW r \in Party, Step(r)
    PROVE  Batches'
<1>1. \A p \in Party : Own(p) /\ Uniform(p) /\ Grown(p)
  BY StepGrown DEF Batches, Own
<1>2. Backed /\ \A p, q \in Party : p # q => InFlight(p, q)
  BY BackedByFlow DEF Batches
<1>3. \A p \in Party : Own(p)' /\ Uniform(p)'
  BY <1>1, <1>2, OwnStep, UniformStep
<1>4. \A p, q \in Party : p # q => InFlight(p, q)'
  BY <1>1, <1>2, InFlightStep
<1> QED
  BY <1>1, <1>3, <1>4, BatchesMoved

LEMMA BatchesStutter ==
    ASSUME TypeOK, TypeOK', Control, Flow, Batches, UNCHANGED vars
    PROVE  Batches'
<1>1. /\ UNCHANGED <<program, tape, pc, ip, gate, S, os, add_shares, add_shares_2>>
      /\ UNCHANGED <<and_operands, chan, log, marks>>
  BY DEF vars
<1>2. Backed /\ \A p \in Party : Own(p) /\ Uniform(p)
  BY BackedByFlow DEF Batches
<1>3. ASSUME NEW p \in Party PROVE Grown(p)
  BY <1>1, <1>2, DistinctSame DEF Grown, Own, Marking
<1>4. ASSUME NEW p \in Party PROVE Framed(p)
  <2>1. Alone(p)
    BY <1>1 DEF Alone
  <2> QED
    BY <1>1, <2>1, AloneFramed
<1>5. ASSUME NEW p \in Party PROVE Own(p)' /\ Uniform(p)'
  BY <1>1, <1>2, <1>3, <1>4, FramedOwn DEF Uniform
<1>6. ASSUME NEW p \in Party, NEW q \in Party, p # q PROVE InFlight(p, q)'
  <2>1. InFlight(p, q)
    BY <1>6 DEF Batches
  <2>2. WordsSent(p, q)' = WordsSent(p, q)
    BY <1>1, CountsSame
  <2> QED
    BY <1>1, <1>2, <1>3, <2>1, <2>2, InFlightUntouched
<1> QED
  BY <1>3, <1>5, <1>6, BatchesMoved

LEMMA BatchesNext == TypeOK /\ TypeOK' /\ Control /\ Flow /\ Batches /\ [Next]_vars => Batches'
  BY BatchesStep, BatchesStutter DEF Next, Terminated

LEMMA BatchesCorrect == Spec => [](TypeOK /\ Control /\ Flow /\ Tracks /\ Batches)
<1>1. TypeOK /\ Control /\ Flow /\ Batches /\ [Next]_vars => Batches'
  BY TypeNext, BatchesNext
<1> QED
  BY <1>1, BatchesInit, ControlCorrect, FlowCorrect, TracksCorrect, PTL DEF Spec

LEMMA ConsumedBetween ==
    ASSUME TypeOK, Control, Batches
    PROVE  BatchConsumed
<1> SUFFICES ASSUME NEW p \in Party, pc[p] = "idle"
             PROVE  /\ add_shares[p] = <<>> /\ add_shares_2[p] = <<>>
                    /\ and_operands[p] = <<>>
                    /\ os[p][2] = <<>>
                    /\ p # 2 => os[p][1] = <<>>
  BY DEF BatchConsumed
<1>1. Made(p) = 0 /\ Open(p) = 1 /\ pc[p] \notin Batch
  BY DEF Made, Open, Sent, Batch
<1>2. Keeping(p) /\ Received(p)
  BY DEF Batches, Own
<1>3. add_shares[p] \in Seq(Vec) /\ add_shares_2[p] \in Seq(Vec)
      /\ and_operands[p] \in Seq(Seq(Share))
  BY DEF TypeOK
<1>4. PICK k \in Nat : k = 1 /\ k - 1 = 0
  OBVIOUS
<1>5. add_shares[p] = <<>> /\ add_shares_2[p] = <<>>
  <2>1. /\ Joined(add_shares[p], k, k - 1, AddFor(p, ip[p]))
        /\ Joined(add_shares_2[p], k, k - 1, Add2For(p, ip[p]))
    BY <1>1, <1>2, <1>4 DEF Keeping
  <2> QED
    BY <1>3, <2>1, JoinedNone
<1>6. and_operands[p] = <<>>
  <2>1. Len(and_operands[p]) = 0
    BY <1>1, <1>2 DEF Keeping
  <2> QED
    BY <1>3, <2>1, EmptySeq
<1>7. os[p][2] = <<>> /\ (p # 2 => os[p][1] = <<>>)
  <2>1. CASE p = 2
    BY <1>2, <2>1 DEF Received
  <2>2. CASE p # 2
    <3>1. PICK q \in Party \ {p} : q # 2
      <4>1. p \in {0, 1}
        BY <2>2 DEF Party
      <4>2. CASE p = 0
        BY <4>2 DEF Party
      <4>3. CASE p = 1
        BY <4>3 DEF Party
      <4> QED
        BY <4>1, <4>2, <4>3
    <3>2. 2 \in Party \ {p}
      BY <2>2 DEF Party
    <3>3. os[p][Slot(q)] = <<>> /\ os[p][Slot(2)] = <<>>
      BY <1>1, <1>2, <2>2, <3>2 DEF Received
    <3> QED
      BY <3>1, <3>3 DEF Slot
  <2> QED
    BY <2>1, <2>2
<1> QED
  BY <1>5, <1>6, <1>7

(***************************************************************************)
(* A batch of MultiReplicated consumes exactly the words that it was sent  *)
(* and the words that it kept: when finalize_mul has taken the last gate   *)
(* of ShareThread::and_, os[1], os[2], add_shares, add_shares_2 and        *)
(* and_operands are empty, whatever fan-ins the batch mixes and however    *)
(* the parties interleave. init_mul would drop a leftover without a word,  *)
(* and the next batch would be out of step.                                *)
(***************************************************************************)
THEOREM BatchConsumedCorrect == Spec => []BatchConsumed
  BY BatchesCorrect, ConsumedBetween, PTL

-----------------------------------------------------------------------------
(***************************************************************************)
(* What the AND engine computes: the shares stay consistent, and what they *)
(* open to follows the circuit.                                            *)
(***************************************************************************)
(* Two parties draw alike from a generator that they share.                *)
LEMMA SamePlace ==
    ASSUME TypeOK, NEW p \in Party, NEW q \in Party, NEW i, NEW j, Agree(p, i, q, j),
           Distinct(p), Distinct(q), NEW b, NEW g, Marked(p, b, g), Marked(q, b, g)
    PROVE  Place(p, b, g)[i] = Place(q, b, g)[j]
<1>1. PICK m : Names(p, m, b, g) /\ m = CHOOSE k : Names(p, k, b, g)
  BY DEF Marked
<1>2. PICK n : Names(q, n, b, g) /\ n = CHOOSE k : Names(q, k, b, g)
  BY DEF Marked
<1>3. PICK u, v : u = Len(marks[p]) /\ v = Len(marks[q])
  OBVIOUS
<1>4. /\ u \in Nat /\ v \in Nat
      /\ DOMAIN marks[p] = 1 .. u /\ DOMAIN marks[q] = 1 .. v
  BY <1>3, LenProperties DEF TypeOK
<1>5. m \in 1 .. u /\ n \in 1 .. v
  BY <1>1, <1>2, <1>4 DEF Names
<1>6. m = n
  <2>1. CASE m \in 1 .. v
    <3>1. marks[q][m].ip = b /\ marks[q][m].gate = g
      BY <1>1, <1>4, <1>5, <2>1 DEF Agree, Names
    <3>2. Names(q, m, b, g)
      BY <1>4, <2>1, <3>1 DEF Names
    <3> QED
      BY <1>2, <3>2 DEF Distinct
  <2>2. CASE m \notin 1 .. v
    <3>1. n \in 1 .. u
      BY <1>4, <1>5, <2>2
    <3>2. marks[p][n].ip = b /\ marks[p][n].gate = g
      BY <1>2, <1>4, <1>5, <3>1 DEF Agree, Names
    <3>3. Names(p, n, b, g)
      BY <1>4, <3>1, <3>2 DEF Names
    <3> QED
      BY <1>1, <3>3 DEF Distinct
  <2> QED
    BY <2>1, <2>2
<1>7. marks[p][m].pos[i] = marks[q][n].pos[j]
  BY <1>4, <1>5, <1>6 DEF Agree
<1> QED
  BY <1>1, <1>2, <1>7 DEF Place

LEMMA SameWord ==
    ASSUME TypeOK, NEW p \in Party, NEW q \in Party, NEW i \in 0 .. 3, NEW j \in 0 .. 3,
           Agree(p, i, q, j), RightSeed(p, i) = RightSeed(q, j),
           Distinct(p), Distinct(q), NEW b, NEW g, Marked(p, b, g), Marked(q, b, g),
           NEW k, k \in 1 .. Draws(p, Fan(b, g))[i], k \in 1 .. Draws(q, Fan(b, g))[j]
    PROVE  DrawsFor(p, b, g)[i][k] = DrawsFor(q, b, g)[j][k]
<1>1. Place(p, b, g)[i] = Place(q, b, g)[j]
  BY SamePlace
<1>2. PICK s, a : s = RightSeed(p, i) /\ a = Place(p, b, g)[i]
  OBVIOUS
<1>3. DrawsFor(p, b, g)[i][k] = {l \in Lane : l < Cell(b, g).n /\ RandomBit(tape, s, a + k, l)}
  BY <1>2 DEF DrawsFor
<1>4. DrawsFor(q, b, g)[j][k] = {l \in Lane : l < Cell(b, g).n /\ RandomBit(tape, s, a + k, l)}
  BY <1>1, <1>2 DEF DrawsFor
<1> QED
  BY <1>3, <1>4

(* The words that the formulas of an AND need to be the same are the same. *)
LEMMA DrawsShared ==
    ASSUME TypeOK, Tracks, NEW b, NEW g, Fan(b, g) \in Nat, Fan(b, g) >= 2,
           \A p \in Party : Distinct(p) /\ Marked(p, b, g),
           NEW rs, \A p \in Party : rs[p] = DrawsFor(p, b, g)
    PROVE  SharedDraws(rs, Fan(b, g))
<1> DEFINE f == Fan(b, g)
<1>1. /\ 0 \in Party /\ 1 \in Party /\ 2 \in Party
      /\ Before(0) = 2 /\ After(0) = 1 /\ Before(1) = 0 /\ After(1) = 2
      /\ Before(2) = 1 /\ After(2) = 0
  BY DEF Party, Before, After
<1>2. Agree(0, 0, 2, 2) /\ Agree(1, 1, 2, 3) /\ Agree(2, 0, 1, 2) /\ Agree(2, 1, 0, 3)
  <2>1. \A p \in Party : Parallel(p, 0, Before(p), 2) /\ Parallel(p, 1, After(p), 3)
    BY DEF Tracks
  <2> QED
    BY <1>1, <2>1, ParallelAgrees
<1>3. /\ RightSeed(0, 0) = RightSeed(2, 2) /\ RightSeed(1, 1) = RightSeed(2, 3)
      /\ RightSeed(2, 0) = RightSeed(1, 2) /\ RightSeed(2, 1) = RightSeed(0, 3)
  BY <1>1 DEF RightSeed
<1>4. PICK N : N = NumMonomials(f)
  OBVIOUS
<1>5. /\ Draws(0, f)[0] = N /\ Draws(1, f)[1] = N /\ Draws(2, f)[2] = N /\ Draws(2, f)[3] = N
      /\ Draws(2, f)[0] = 1 /\ Draws(1, f)[2] = 1
      /\ f # 2 => Draws(2, f)[1] = 1 /\ Draws(0, f)[3] = 1
  BY <1>4 DEF Draws
<1>6. N \in Nat /\ 1 \in 1 .. N /\ 1 \in 1 .. 1
  BY <1>4, NumMonomialsType
<1> HIDE DEF f
<1>7. ASSUME NEW k \in 1 .. N
      PROVE  rs[2][2][k] = rs[0][0][k] /\ rs[2][3][k] = rs[1][1][k]
  <2>1. DrawsFor(0, b, g)[0][k] = DrawsFor(2, b, g)[2][k]
    BY <1>1, <1>2, <1>3, <1>5, SameWord DEF f
  <2>2. DrawsFor(1, b, g)[1][k] = DrawsFor(2, b, g)[3][k]
    BY <1>1, <1>2, <1>3, <1>5, SameWord DEF f
  <2> QED
    BY <1>1, <2>1, <2>2
<1>8. rs[2][0][1] = rs[1][2][1] /\ rs[2][0][1] \in Vec
  <2>1. DrawsFor(2, b, g)[0][1] = DrawsFor(1, b, g)[2][1]
    BY <1>1, <1>2, <1>3, <1>5, <1>6, SameWord DEF f
  <2>2. DrawsFor(2, b, g)[0][1] \in Vec
    BY <1>1, <1>5, <1>6, DrawsForType DEF f
  <2> QED
    BY <1>1, <2>1, <2>2
<1>9. ASSUME f # 2
      PROVE  rs[2][1][1] = rs[0][3][1] /\ rs[2][1][1] \in Vec
  <2>1. DrawsFor(2, b, g)[1][1] = DrawsFor(0, b, g)[3][1]
    BY <1>1, <1>2, <1>3, <1>5, <1>6, <1>9, SameWord DEF f
  <2>2. DrawsFor(2, b, g)[1][1] \in Vec
    BY <1>1, <1>5, <1>6, <1>9, DrawsForType DEF f
  <2> QED
    BY <1>1, <2>1, <2>2
<1>10. rs[0][0][1] \in Vec /\ rs[1][1][1] \in Vec
  <2>1. DrawsFor(0, b, g)[0][1] \in Vec /\ DrawsFor(1, b, g)[1][1] \in Vec
    BY <1>1, <1>5, <1>6, DrawsForType DEF f
  <2> QED
    BY <1>1, <2>1
<1>11. SharedDraws(rs, f)
  BY <1>4, <1>7, <1>8, <1>9, <1>10 DEF SharedDraws
<1> QED
  BY <1>11 DEF f

-----------------------------------------------------------------------------
(* Restricting a sharing to some lanes leaves it a sharing.                *)
LEMMA MaskConsistent ==
    ASSUME NEW sh, Consistent(sh), NEW n, NEW m,
           \A p \in Party : m[p] = MaskShare(sh[p], n)
    PROVE  Consistent(m) /\ Opened(m) = Mask(Opened(sh), n)
<1>1. ASSUME NEW p \in Party, NEW c \in {0, 1}
      PROVE  m[p][c] = Mask(sh[p][c], n)
  <2>1. PICK s : s = sh[p]
    OBVIOUS
  <2>2. m[p] = [d \in {0, 1} |-> Mask(s[d], n)]
    BY <2>1 DEF MaskShare
  <2> QED
    BY <2>1, <2>2
<1>2. 0 \in Party /\ 1 \in Party /\ 2 \in Party
  BY DEF Party
<1>3. \A u, v : Mask(u, n) (+) Mask(v, n) = Mask(u (+) v, n)
  BY DEF Mask, (+)
<1>4. /\ m[0][1] = Mask(sh[0][1], n) /\ m[2][1] = Mask(sh[2][1], n)
      /\ m[1][1] = Mask(sh[1][1], n) /\ m[2][0] = Mask(sh[2][0], n)
      /\ m[0][0] = Mask(sh[0][0], n) /\ m[1][0] = Mask(sh[1][0], n)
  BY <1>1, <1>2
<1>5. m[0][0] (+) m[2][0] = m[1][0] (+) m[2][1]
  BY <1>3, <1>4 DEF Consistent
<1>6. Opened(m) = Mask(Opened(sh), n)
  BY <1>3, <1>4 DEF Opened, OpenAt, OpenFrom, Before
<1> QED
  BY <1>4, <1>5, <1>6 DEF Consistent

(* The registers at all parties after the first b - 1 instructions.        *)
Agreed(b) == \A r \in Reg : Consistent([p \in Party |-> log[p][b][r]])

(* What they stand for. *)
Clear(b) == [r \in Reg |-> Opened([p \in Party |-> log[p][b][r]])]

(* Where all operands of a gate are true. *)
AllTrue(b, g) ==
    {l \in EmptyProduct(Fan(b, g)) :
        \A i \in 1 .. Fan(b, g) : l \in Mask(Clear(b)[Cell(b, g).ops[i]], Cell(b, g).n)}

(* The parties' results of a gate are a sharing when its operands were.    *)
LEMMA ResultsShared ==
    ASSUME TypeOK, Tracks, \A p \in Party : Distinct(p), NEW b, \A p \in Party : Done(p, b),
           Agreed(b), NEW g \in 1 .. Len(Plan(b)),
           NEW z, \A p \in Party : z[p] = ResultFor(p, b, g)
    PROVE  Consistent(z) /\ Opened(z) = AllTrue(b, g)
<1>1. 0 \in Party /\ 1 \in Party /\ 2 \in Party
  BY DEF Party
<1>2. /\ b \in 1 .. Len(program) /\ program[b].op = "ands"
      /\ \A p \in Party : b \in 1 .. Len(log[p]) /\ Marked(p, b, g)
  BY <1>1 DEF Done
<1>3. PICK f, n : f = Fan(b, g) /\ n = Cell(b, g).n
  OBVIOUS
<1>4. f \in Nat /\ f >= 2 /\ \A i \in 1 .. f : Cell(b, g).ops[i] \in Reg
  BY <1>2, <1>3, CellFacts
<1>5. PICK xs, rs : /\ xs = [p \in Party |-> OperandsFor(p, b, g)]
                    /\ rs = [p \in Party |-> DrawsFor(p, b, g)]
  OBVIOUS
<1>6. \A p \in Party : OperandsFor(p, b, g) \in Seq(Share) /\ Len(OperandsFor(p, b, g)) = f
  BY <1>2, <1>3, OperandsForType
<1>7. xs \in [Party -> Seq(Share)] /\ \A p \in Party : Len(xs[p]) = f
  BY <1>5, <1>6
<1>8. ASSUME NEW i \in 1 .. f
      PROVE  /\ Consistent(OperandOf(xs, i))
             /\ Opened(OperandOf(xs, i)) = Mask(Clear(b)[Cell(b, g).ops[i]], n)
  <2>1. PICK r \in Reg : r = Cell(b, g).ops[i]
    BY <1>4
  <2>2. PICK sh, m : sh = [p \in Party |-> log[p][b][r]] /\ m = OperandOf(xs, i)
    OBVIOUS
  <2>3. Consistent(sh)
    BY <2>2 DEF Agreed
  <2>4. \A p \in Party : OperandsFor(p, b, g)[i] = MaskShare(log[p][b][r], n)
    BY <1>3, <2>1 DEF OperandsFor
  <2>5. \A p \in Party : m[p] = OperandsFor(p, b, g)[i]
    BY <1>5, <2>2 DEF OperandOf
  <2>6. \A p \in Party : sh[p] = log[p][b][r]
    BY <2>2
  <2>7. Consistent(m) /\ Opened(m) = Mask(Opened(sh), n)
    BY <2>3, <2>4, <2>5, <2>6, MaskConsistent
  <2>8. Opened(sh) = Clear(b)[r]
    BY <2>2 DEF Clear
  <2> QED
    BY <2>1, <2>2, <2>7, <2>8
<1>9. SharedDraws(rs, f)
  <2>1. \A p \in Party : rs[p] = DrawsFor(p, b, g)
    BY <1>5
  <2> QED
    BY <1>2, <1>3, <1>4, <2>1, DrawsShared
<1>10. PICK w : w = AndOf(xs, rs)
  OBVIOUS
<1>11. Consistent(w) /\ Opened(w) = ProductOf(xs, f)
  BY <1>4, <1>7, <1>8, <1>9, <1>10, AndCorrect
<1>12. ASSUME NEW p \in Party PROVE w[p] = z[p]
  <2>1. \A q \in Party : Prepared(q, xs[q], rs[q]) = WordsFor(q, b, g)
    BY <1>5 DEF WordsFor
  <2>2. PICK ms : ms = [q \in Party |-> Prepared(q, xs[q], rs[q])]
    OBVIOUS
  <2>3. \A q \in Party : ms[q] = WordsFor(q, b, g)
    BY <2>1, <2>2
  <2>4. w = [q \in Party |->
               Finalized(q, xs[q], IF q = 0 THEN ms[1].os0 ELSE ms[0].os0,
                         IF q = 0 THEN ms[2].os0 ELSE ms[2].os1, ms[q].add, ms[q].add2)]
    BY <1>10, <2>2 DEF AndOf
  <2>5. w[p] = Finalized(p, xs[p], IF p = 0 THEN ms[1].os0 ELSE ms[0].os0,
                         IF p = 0 THEN ms[2].os0 ELSE ms[2].os1, ms[p].add, ms[p].add2)
    BY <2>4
  <2>6. xs[p] = OperandsFor(p, b, g) /\ z[p] = ResultFor(p, b, g)
    BY <1>5
  <2> QED
    BY <1>1, <2>3, <2>5, <2>6 DEF ResultFor
<1>13. w[0] = z[0] /\ w[1] = z[1] /\ w[2] = z[2]
  BY <1>1, <1>12
<1>14. Consistent(z) /\ Opened(z) = Opened(w)
  BY <1>11, <1>13 DEF Consistent, Opened, OpenAt, OpenFrom, Before
<1>15. ProductOf(xs, f) = AllTrue(b, g)
  <2>1. \A l : TrueOperands(xs, f, l) = 1 .. f
               <=> \A i \in 1 .. f : l \in Opened(OperandOf(xs, i))
    BY DEF TrueOperands
  <2>2. \A l : TrueOperands(xs, f, l) = 1 .. f
               <=> \A i \in 1 .. f : l \in Mask(Clear(b)[Cell(b, g).ops[i]], n)
    BY <1>8, <2>1
  <2> QED
    BY <1>3, <2>2 DEF ProductOf, AllTrue
<1> QED
  BY <1>11, <1>14, <1>15

(***************************************************************************)
(* The code computes an AND of more than four operands on the lowest lane  *)
(* only, so the circuit is computed if such gates are of one lane.         *)
(***************************************************************************)
WideGatesNarrow ==
    \A prog \in Programs : \A b \in 1 .. Len(prog) :
        prog[b].op = "ands" =>
            \A g \in 1 .. Len(prog[b].gates) :
                Len(prog[b].gates[g].ops) > 4 => prog[b].gates[g].n = 1

LEMMA GateComputed ==
    ASSUME TypeOK, WideGatesNarrow, NEW b \in 1 .. Len(program), program[b].op = "ands",
           NEW g \in 1 .. Len(Plan(b))
    PROVE  Mask(AllTrue(b, g), Cell(b, g).n) = Ideal!And(Cell(b, g), Clear(b))
<1>1. PICK f, n : f = Fan(b, g) /\ n = Cell(b, g).n
  OBVIOUS
<1>2. f \in Nat /\ n \in Nat /\ (f > 4 => n = 1)
  <2>1. program \in Programs
    BY DEF TypeOK
  <2>2. Fan(b, g) > 4 => Cell(b, g).n = 1
    BY <2>1 DEF WideGatesNarrow, Fan, Cell, Plan
  <2> QED
    BY <1>1, <2>2, CellFacts
<1>3. \A l : l \in Lane /\ l < n => l \in EmptyProduct(f)
  <2>1. CASE f > 4
    BY <1>2, <2>1, WAssumption DEF EmptyProduct, IntegerOne, Lane
  <2>2. CASE ~(f > 4)
    BY <2>2 DEF EmptyProduct
  <2> QED
    BY <2>1, <2>2
<1>4. EmptyProduct(f) \subseteq Lane
  BY ProductVec DEF Vec
<1>5. \A v, l : l \in Mask(v, n) <=> l \in v /\ l < n
  BY DEF Mask
<1>6. Ideal!And(Cell(b, g), Clear(b)) =
        {l \in Lane : l < n /\ \A i \in 1 .. f : l \in Clear(b)[Cell(b, g).ops[i]]}
  BY <1>1 DEF Ideal!And, Ideal!Lane, Lane, Fan
<1>7. AllTrue(b, g) =
        {l \in EmptyProduct(f) :
            \A i \in 1 .. f : l \in Mask(Clear(b)[Cell(b, g).ops[i]], n)}
  BY <1>1 DEF AllTrue
<1> QED
  BY <1>1, <1>3, <1>4, <1>5, <1>6, <1>7

(* One instruction more. *)
LEMMA RegisterNext ==
    ASSUME TypeOK, Control, Tracks, \A p \in Party : Own(p), NEW b \in Nat \ {0},
           program[b].op = "ands", \A p \in Party : b + 1 <= Len(log[p]), Agreed(b),
           NEW r \in Reg, NEW new, new = [p \in Party |-> log[p][b + 1][r]]
    PROVE  /\ Consistent(new)
           /\ b \in 1 .. Len(program)
           /\ WideGatesNarrow => Opened(new) = Ideal!Eval(program[b], Clear(b))[r]
<1>1. ASSUME NEW p \in Party
      PROVE  /\ Own(p) /\ b < ip[p] /\ Distinct(p) /\ Done(p, b)
             /\ Updated(Plan(b), ResultsFor(p, b), Len(Plan(b)), log[p][b], log[p][b + 1])
  <2>1. Own(p) /\ Len(log[p]) = ip[p] /\ ip[p] \in Nat /\ Distinct(p)
    BY DEF Own, Logged, Marking, TypeOK
  <2>2. b < ip[p] /\ b \in 1 .. ip[p] - 1
    BY <2>1
  <2>3. Done(p, b)
    BY <2>1, <2>2, EarlierDone
  <2> QED
    BY <2>1, <2>2, <2>3 DEF Own, Logged
<1>2. 0 \in Party
  BY DEF Party
<1>3. /\ b \in 1 .. Len(program) /\ program[b].op = "ands"
  BY <1>1, <1>2 DEF Done
<1>4. PICK n \in Nat : n = Len(Plan(b))
  BY <1>3, CellFacts
<1>5. PICK old : old = [p \in Party |-> log[p][b][r]]
  OBVIOUS
<1>6. Consistent(old) /\ Opened(old) = Clear(b)[r]
  BY <1>5 DEF Agreed, Clear
<1>7. PICK D : D = {h \in 1 .. n : Plan(b)[h].out = r}
  OBVIOUS
<1>8. ASSUME D # {}
      PROVE  \E g \in D : \A d \in D : d <= g
  <2>1. IsFiniteSet(D) /\ D \in SUBSET Nat
    <3>1. IsFiniteSet(1 .. n) /\ D \subseteq 1 .. n
      BY <1>7, FS_Interval
    <3>2. IsFiniteSet(D)
      BY <3>1, FS_Subset
    <3> QED
      BY <3>1, <3>2
  <2> QED
    BY <1>8, <2>1, LargestElement
<1>9. Ideal!Eval(program[b], Clear(b))[r] =
        IF D = {} THEN Clear(b)[r]
        ELSE Ideal!And(Plan(b)[CHOOSE g \in D : \A h \in D : h <= g], Clear(b))
  <2>1. Ideal!WriterOf(Plan(b), r) =
          IF D = {} THEN 0 ELSE CHOOSE g \in D : \A h \in D : h <= g
    BY <1>4, <1>7 DEF Ideal!WriterOf
  <2>2. D # {} => (CHOOSE g \in D : \A h \in D : h <= g) \in 1 .. n
    BY <1>7, <1>8
  <2> QED
    BY <2>1, <2>2 DEF Ideal!Eval, Plan
<1>10. CASE D = {}
  <2>1. \A p \in Party : log[p][b + 1][r] = log[p][b][r]
    BY <1>1, <1>4, <1>7, <1>10 DEF Updated
  <2>2. new = old
    BY <1>5, <2>1
  <2> QED
    BY <1>3, <1>6, <1>9, <1>10, <2>2
<1>11. CASE D # {}
  <2>2. \E g \in D : \A d \in D : d <= g
    BY <1>8, <1>11
  <2>3. PICK h \in D : /\ h = CHOOSE g \in D : \A d \in D : d <= g
                       /\ \A d \in D : d <= h
    BY <2>2
  <2>4. h \in 1 .. n /\ Plan(b)[h].out = r
    BY <1>7
  <2>5. LastWriter(Plan(b), n, h)
    <3> SUFFICES ASSUME NEW j \in h + 1 .. n, Plan(b)[j].out = r PROVE FALSE
      BY <2>4 DEF LastWriter
    <3>1. j \in D
      BY <1>7, <2>4
    <3>2. j <= h
      BY <2>3, <3>1
    <3> QED
      BY <2>4, <3>2
  <2>6. \A p \in Party : log[p][b + 1][r] = MaskShare(ResultsFor(p, b)[h], Plan(b)[h].n)
    BY <1>1, <1>4, <2>4, <2>5 DEF Updated
  <2>7. PICK z : z = [p \in Party |-> ResultFor(p, b, h)]
    OBVIOUS
  <2>8. h \in 1 .. Len(Plan(b))
    BY <1>4, <2>4
  <2>9. Consistent(z) /\ Opened(z) = AllTrue(b, h)
    <3>1. \A p \in Party : z[p] = ResultFor(p, b, h)
      BY <2>7
    <3> QED
      BY <1>1, <2>8, <3>1, ResultsShared
  <2>10. \A p \in Party : ResultsFor(p, b)[h] = z[p]
    BY <2>7, <2>8 DEF ResultsFor
  <2>11. \A p \in Party : new[p] = MaskShare(z[p], Plan(b)[h].n)
    BY <2>6, <2>10
  <2>12. Consistent(new) /\ Opened(new) = Mask(Opened(z), Plan(b)[h].n)
    BY <2>9, <2>11, MaskConsistent
  <2>13. WideGatesNarrow => Opened(new) = Ideal!And(Plan(b)[h], Clear(b))
    BY <1>3, <2>8, <2>9, <2>12, GateComputed DEF Cell
  <2> QED
    BY <1>3, <1>9, <1>11, <2>3, <2>12, <2>13
<1> QED
  BY <1>10, <1>11

LEMMA Regular ==
    ASSUME TypeOK, Batches, NEW b \in Nat \ {0}, NEW p \in Party, b + 1 <= Len(log[p])
    PROVE  program[b].op = "ands" /\ \A q \in Party : Own(q)
<1>1. Len(log[p]) = ip[p] /\ ip[p] \in Nat /\ Uniform(p)
  BY DEF Batches, Own, Logged, TypeOK
<1>2. b \in 1 .. ip[p] - 1
  BY <1>1
<1> QED
  BY <1>1, <1>2 DEF Batches, Uniform

LEMMA AgreedNext ==
    ASSUME TypeOK, Control, Tracks, Batches, NEW b \in Nat \ {0},
           \A p \in Party : b + 1 <= Len(log[p]), Agreed(b)
    PROVE  Agreed(b + 1)
<1>1. ASSUME NEW r \in Reg
      PROVE  Consistent([p \in Party |-> log[p][b + 1][r]])
  <2>1. program[b].op = "ands" /\ \A q \in Party : Own(q)
    BY Regular DEF Party
  <2> QED
    BY <2>1, RegisterNext
<1> QED
  BY <1>1 DEF Agreed

(* Completed is what the slowest party has done. *)
Slowest ==
    /\ Completed \in Nat
    /\ \A p \in Party : Len(log[p]) \in Nat /\ Completed <= Len(log[p]) - 1
    /\ \E p \in Party : Completed = Len(log[p]) - 1

LEMMA CompletedByAll ==
    ASSUME TypeOK, \A p \in Party : Own(p)
    PROVE  Slowest
<1>1. \A p \in Party : Len(log[p]) \in Nat
  BY LenProperties DEF TypeOK
<1>2. PICK a, c, d : a = Len(log[0]) - 1 /\ c = Len(log[1]) - 1 /\ d = Len(log[2]) - 1
  OBVIOUS
<1>3. \A p \in Party : Len(log[p]) - 1 \in {a, c, d}
  BY <1>2 DEF Party
<1>4. a \in Int /\ c \in Int /\ d \in Int
  BY <1>1, <1>2 DEF Party
<1>5. PICK k \in {a, c, d} : k <= a /\ k <= c /\ k <= d
  BY <1>4
<1>6. \A x \in {a, c, d} : k <= x
  BY <1>5
<1>7. \E j \in {Len(log[p]) - 1 : p \in Party} : \A p \in Party : j <= Len(log[p]) - 1
  <2>1. k \in {Len(log[p]) - 1 : p \in Party}
    <3>1. 0 \in Party /\ 1 \in Party /\ 2 \in Party
      BY DEF Party
    <3> QED
      BY <1>2, <3>1
  <2> QED
    BY <1>3, <1>6, <2>1
<1>8. /\ Completed \in {Len(log[p]) - 1 : p \in Party}
      /\ \A p \in Party : Completed <= Len(log[p]) - 1
  BY <1>7 DEF Completed
<1>9. \A p \in Party : Len(log[p]) - 1 \in Nat
  <2>1. \A p \in Party : Len(log[p]) = ip[p] /\ ip[p] \in Nat \ {0}
    BY DEF Own, Logged, TypeOK
  <2> QED
    BY <2>1
<1> QED
  BY <1>1, <1>8, <1>9 DEF Slowest

LEMMA AgreedAll ==
    ASSUME TypeOK, Control, Tracks, Batches
    PROVE  \A k \in 0 .. Completed : Agreed(k + 1)
<1>1. Completed \in Nat /\ \A p \in Party : Completed <= Len(log[p]) - 1
  BY CompletedByAll DEF Slowest, Batches
<1>2. \A p \in Party : Len(log[p]) \in Nat
  BY LenProperties DEF TypeOK
<1>3. ASSUME NEW k \in 0 .. Completed
      PROVE  Agreed(k + 1)
  <2> DEFINE D == {j \in 1 .. k + 1 : Agreed(j)}
             G == {j \in 1 .. k + 1 : \A i \in 1 .. j : i \in D}
  <2>1. IsFiniteSet(G) /\ G \in SUBSET Nat
    <3> HIDE DEF D
    <3>1. IsFiniteSet(1 .. k + 1) /\ G \subseteq 1 .. k + 1
      BY FS_Interval
    <3>2. IsFiniteSet(G)
      BY <3>1, FS_Subset
    <3> QED
      BY <3>2
  <2>2. 1 \in G
    <3>1. Agreed(1)
      BY DEF Batches, Dealt, Agreed
    <3>2. 1 \in 1 .. k + 1 /\ \A i \in 1 .. 1 : i = 1
      OBVIOUS
    <3> QED
      BY <3>1, <3>2
  <2>3. PICK m \in G : \A j \in G : j <= m
    <3> HIDE DEF G
    <3>1. G # {}
      BY <2>2
    <3> QED
      BY <2>1, <3>1, LargestElement
  <2>4. m \in 1 .. k + 1 /\ Agreed(m) /\ \A i \in 1 .. m : i \in D
    <3>1. m \in 1 .. k + 1 /\ \A i \in 1 .. m : i \in D
      OBVIOUS
    <3>2. m \in 1 .. m
      BY <3>1
    <3> QED
      BY <3>1, <3>2
  <2>5. m = k + 1
    <3> SUFFICES ASSUME m # k + 1 PROVE FALSE
      OBVIOUS
    <3>1. m \in Nat \ {0} /\ m + 1 \in 1 .. k + 1 /\ m + 1 <= Completed + 1
      BY <1>1, <2>4
    <3>2. \A p \in Party : m + 1 <= Len(log[p])
      BY <1>1, <1>2, <3>1
    <3>3. Agreed(m + 1)
      BY <2>4, <3>1, <3>2, AgreedNext
    <3>4. \A i \in 1 .. m + 1 : i = m + 1 \/ i \in 1 .. m
      BY <3>1
    <3>5. m + 1 \in G
      BY <2>4, <3>1, <3>3, <3>4
    <3>6. m + 1 <= m
      <4> HIDE DEF G
      <4> QED
        BY <2>3, <3>5
    <3> QED
      BY <3>1, <3>6
  <2> QED
    BY <2>4, <2>5
<1> QED
  BY <1>3

LEMMA AgreedConsistent ==
    ASSUME TypeOK, Control, Tracks, Batches
    PROVE  SharesConsistent
<1>1. \A k \in 0 .. Completed : Agreed(k + 1)
  BY AgreedAll
<1> QED
  BY <1>1 DEF SharesConsistent, SharingOf, Agreed

(***************************************************************************)
(* After every instruction of ShareThread::and_ that the three parties     *)
(* have all finished, each register is a proper replicated sharing, with   *)
(* the same two components at the two parties that hold them: for every    *)
(* program, every mixture of fan-ins, every word length and every          *)
(* interleaving of the parties.                                            *)
(***************************************************************************)
THEOREM SharesConsistentCorrect == Spec => []SharesConsistent
  BY BatchesCorrect, AgreedConsistent, PTL

-----------------------------------------------------------------------------
(***************************************************************************)
(* The engine computes the circuit.  Evaluated relates what the parties'   *)
(* shares stand for before and after an instruction that all of them have  *)
(* finished; the refinement step compares two such instants.               *)
(***************************************************************************)
Evaluated ==
    \A b \in Nat \ {0} :
        (\A p \in Party : b + 1 <= Len(log[p])) =>
            /\ b \in 1 .. Len(program)
            /\ Clear(b + 1) = Ideal!Eval(program[b], Clear(b))

LEMMA EvaluatedHere ==
    ASSUME TypeOK, Control, Tracks, Batches, WideGatesNarrow
    PROVE  Evaluated
<1> SUFFICES ASSUME NEW b \in Nat \ {0}, \A p \in Party : b + 1 <= Len(log[p])
             PROVE  /\ b \in 1 .. Len(program)
                    /\ Clear(b + 1) = Ideal!Eval(program[b], Clear(b))
  BY DEF Evaluated
<1>1. PICK p \in Party : Completed = Len(log[p]) - 1
  BY CompletedByAll DEF Slowest, Batches
<1>2. b - 1 \in 0 .. Completed /\ (b - 1) + 1 = b
  <2>1. Completed \in Nat /\ Len(log[p]) \in Nat
    BY CompletedByAll DEF Slowest, Batches
  <2>2. b + 1 <= Len(log[p])
    OBVIOUS
  <2> QED
    BY ONLY <1>1, <2>1, <2>2, b \in Nat \ {0}
<1>3. Agreed(b)
  <2>1. Agreed((b - 1) + 1)
    BY <1>2, AgreedAll
  <2> QED
    BY <1>2, <2>1
<1>4. ASSUME NEW r \in Reg
      PROVE  Clear(b + 1)[r] = Ideal!Eval(program[b], Clear(b))[r]
  <2>0. program[b].op = "ands" /\ \A q \in Party : Own(q)
    BY Regular DEF Party
  <2>1. PICK new : new = [q \in Party |-> log[q][b + 1][r]]
    OBVIOUS
  <2>2. Opened(new) = Ideal!Eval(program[b], Clear(b))[r]
    BY <1>3, <2>1, <2>0, RegisterNext
  <2> QED
    BY <2>1, <2>2 DEF Clear
<1>5. b \in 1 .. Len(program)
  <2>1. 0 \in Party /\ program[b].op = "ands" /\ Own(0)
    BY Regular DEF Party
  <2>2. Len(log[0]) = ip[0] /\ ip[0] \in Nat /\ b + 1 <= Len(log[0])
    BY <2>1 DEF Own, Logged, TypeOK
  <2>3. b < ip[0]
    BY <2>2
  <2>4. Done(0, b)
    BY <2>1, <2>3, EarlierDone
  <2> QED
    BY <2>4 DEF Done
<1>6. /\ Clear(b + 1) = [r \in Reg |-> Clear(b + 1)[r]]
      /\ Ideal!Eval(program[b], Clear(b)) = [r \in Reg |-> Ideal!Eval(program[b], Clear(b))[r]]
  BY DEF Clear, Ideal!Eval
<1> QED
  BY <1>4, <1>5, <1>6

Value == [r \in Reg |-> Opened(SharingOf(r, Completed))]

LEMMA IdealInit == Init => Ideal!Init
<1> SUFFICES ASSUME Init PROVE Ideal!Init
  OBVIOUS
<1>1. TypeOK /\ Batches
  BY TypeInit, BatchesInit
<1>2. PICK p \in Party : Completed = Len(log[p]) - 1
  BY <1>1, CompletedByAll DEF Slowest, Batches
<1>3. Completed = 0
  <2>1. Len(log[p]) = ip[p] /\ ip[p] = 1
    BY <1>1 DEF Batches, Own, Logged, Init
  <2> QED
    BY <1>2, <2>1
<1>4. program \in Programs
  BY DEF Init
<1>5. ASSUME NEW r \in Reg PROVE Opened(SharingOf(r, Completed)) \in Vec
  <2>1. \A q \in Party : log[q][1][r] \in Share
    <3>1. ASSUME NEW q \in Party PROVE log[q][1] \in [Reg -> Share]
      <4>1. log[q] \in Seq([Reg -> Share]) /\ Len(log[q]) = 1
        BY <1>1 DEF Batches, Own, Logged, Init, TypeOK
      <4> QED
        BY <4>1, ElementOfSeq
    <3> QED
      BY <3>1
  <2>2. PICK sh : sh = SharingOf(r, Completed)
    OBVIOUS
  <2>3. \A q \in Party : sh[q] \in Share
    BY <1>3, <2>1, <2>2 DEF SharingOf
  <2>4. Opened(sh) \in Vec
    <3>1. sh[0] \in Share /\ sh[2] \in Share
      BY <2>3 DEF Party
    <3>2. sh[0][0] \in Vec /\ sh[2][0] \in Vec
      BY <3>1 DEF Share
    <3>3. Opened(sh) = sh[0][0] (+) sh[2][0]
      BY DEF Opened, OpenAt, OpenFrom, Before
    <3> QED
      BY <3>2, <3>3, VecClosed
  <2> QED
    BY <2>2, <2>4
<1>6. Value \in [Reg -> Vec]
  BY <1>5 DEF Value
<1> QED
  BY <1>3, <1>4, <1>6 DEF Ideal!Init, Value, Ideal!Vec, Ideal!Lane, Vec, Lane

LEMMA LogStep ==
    ASSUME TypeOK, TypeOK', Slowest, Slowest', NEW r \in Party, Step(r), NEW p \in Party
    PROVE  Len(log'[p]) \in {Len(log[p]), Len(log[p]) + 1}
<1>1. log' = log \/ \E v : log' = [log EXCEPT ![r] = Append(log[r], v)] /\ v \in [Reg -> Share]
  <2>1. CASE FinalizeMul(r)
    <3>1. S'[r] \in [Reg -> Share]
      BY DEF TypeOK
    <3> QED
      BY <2>1, <3>1 DEF FinalizeMul
  <2>2. CASE ~FinalizeMul(r)
    BY <2>2, StepHistory
  <2> QED
    BY <2>1, <2>2
<1>2. CASE log' = log
  BY <1>2
<1>3. ASSUME NEW v \in [Reg -> Share], log' = [log EXCEPT ![r] = Append(log[r], v)]
      PROVE  Len(log'[p]) \in {Len(log[p]), Len(log[p]) + 1}
  <2>1. CASE p = r
    <3>1. log'[p] = Append(log[p], v) /\ log[p] \in Seq([Reg -> Share])
      BY <1>3, <2>1 DEF TypeOK
    <3> QED
      BY <3>1, AppendProperties
  <2>2. CASE p # r
    BY <1>3, <2>2 DEF TypeOK
  <2> QED
    BY <2>1, <2>2
<1> QED
  BY <1>1, <1>2, <1>3

LEMMA IdealStep ==
    ASSUME TypeOK, TypeOK', Slowest, Slowest', Evaluated', NEW r \in Party, Step(r)
    PROVE  [Ideal!Execute]_(Ideal!idealVars)
<1>1. PICK k, k2 : k = Completed /\ k2 = Completed'
  OBVIOUS
<1>2. /\ k \in Nat /\ \A p \in Party : Len(log[p]) \in Nat /\ k <= Len(log[p]) - 1
      /\ \E p \in Party : k = Len(log[p]) - 1
  BY <1>1 DEF Slowest
<1>3. /\ k2 \in Nat /\ \A p \in Party : Len(log'[p]) \in Nat /\ k2 <= Len(log'[p]) - 1
      /\ \E p \in Party : k2 = Len(log'[p]) - 1
  BY <1>1 DEF Slowest
<1>4. \A p \in Party : Len(log'[p]) \in {Len(log[p]), Len(log[p]) + 1}
  BY LogStep
<1>5. k2 = k \/ k2 = k + 1
  <2>1. k2 <= k + 1
    <3>1. PICK p \in Party : k = Len(log[p]) - 1
      BY <1>2
    <3> QED
      BY <1>2, <1>3, <1>4, <3>1
  <2>2. k <= k2
    <3>1. PICK p \in Party : k2 = Len(log'[p]) - 1
      BY <1>3
    <3> QED
      BY <1>2, <1>3, <1>4, <3>1
  <2> QED
    BY <1>2, <1>3, <2>1, <2>2
<1>6. program' = program
  BY StepHistory
<1>7. \A p \in Party : log'[p][k + 1] = log[p][k + 1]
  <2>1. \A p \in Party : k + 1 \in 1 .. Len(log[p])
    BY <1>2
  <2> QED
    BY <2>1, LogGrows
<1>8. Clear(k + 1)' = Clear(k + 1)
  BY <1>7 DEF Clear
<1>9. Value = Clear(k + 1) /\ Value' = Clear(k2 + 1)'
  BY <1>1 DEF Value, Clear, SharingOf
<1>10. CASE k2 = k
  <2>1. Value' = Value
    BY <1>8, <1>9, <1>10
  <2> QED
    BY <1>1, <1>6, <1>10, <2>1 DEF Ideal!idealVars, Value
<1>11. CASE k2 = k + 1
  <2>1. \A p \in Party : (k + 1) + 1 <= Len(log'[p])
    BY <1>2, <1>3, <1>11
  <2>2. k + 1 \in Nat \ {0}
    BY <1>2
  <2>3. /\ k + 1 \in 1 .. Len(program')
        /\ Clear((k + 1) + 1)' = Ideal!Eval(program[k + 1], Clear(k + 1))'
    BY <2>1, <2>2 DEF Evaluated
  <2>4. k < Len(program)
    <3>1. k + 1 \in 1 .. Len(program) /\ Len(program) \in Nat
      BY <1>6, <2>3, ProgramFacts DEF TypeOK
    <3> QED
      BY <1>2, <3>1
  <2>5. Ideal!Eval(program[k + 1], Clear(k + 1))' = Ideal!Eval(program[k + 1], Clear(k + 1))
    <3>1. PICK i, v : i = program[k + 1] /\ v = Clear(k + 1)
      OBVIOUS
    <3>2. program[k + 1]' = i /\ Clear(k + 1)' = v
      BY <1>6, <1>8, <3>1
    <3>3. Ideal!Eval(program[k + 1], Clear(k + 1))' = Ideal!Eval(i, v)
      BY <3>2
    <3> QED
      BY <3>1, <3>3
  <2>6. Value' = Ideal!Eval(program[k + 1], Value)
    BY <1>9, <1>11, <2>3, <2>5
  <2>7. Ideal!Execute
    BY <1>1, <1>6, <1>11, <2>4, <2>6 DEF Ideal!Execute, Value
  <2> QED
    BY <2>7
<1> QED
  BY <1>5, <1>10, <1>11

LEMMA IdealStutter ==
    ASSUME UNCHANGED vars
    PROVE  [Ideal!Execute]_(Ideal!idealVars)
<1>1. program' = program /\ log' = log
  BY DEF vars
<1>2. Completed' = Completed
  BY <1>1 DEF Completed
<1>3. Value' = Value
  BY <1>1, <1>2 DEF Value, SharingOf
<1> QED
  BY <1>1, <1>2, <1>3 DEF Ideal!idealVars, Value

(***************************************************************************)
(* MultiReplicated implements IdealCircuit: what the shares of the three   *)
(* parties open to moves from instruction to instruction as the clear      *)
(* registers do, for every program whose ANDs of more than four operands   *)
(* are of one lane. prepare_mul and finalize_mul start such products from  *)
(* the integer 1, which is lane 0 of a word: with more lanes the others    *)
(* come out as 0, as the run and_five_lanes shows.                         *)
(***************************************************************************)
THEOREM ComputesCircuitCorrect == WideGatesNarrow => (Spec => ComputesCircuit)
<1> SUFFICES ASSUME WideGatesNarrow PROVE Spec => ComputesCircuit
  OBVIOUS
<1>1. TypeOK /\ Control /\ Tracks /\ Batches => Slowest /\ Evaluated
  BY CompletedByAll, EvaluatedHere DEF Batches
<1>2. TypeOK /\ TypeOK' /\ Slowest /\ Slowest' /\ Evaluated' /\ [Next]_vars
        => [Ideal!Execute]_(Ideal!idealVars)
  BY IdealStep, IdealStutter DEF Next, Terminated
<1> QED
  BY <1>1, <1>2, IdealInit, BatchesCorrect, PTL DEF Spec, ComputesCircuit, Ideal!Spec
=============================================================================
