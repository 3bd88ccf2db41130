---------------------------- MODULE Links_proofs ----------------------------
(***************************************************************************)
(* Streams arrive whole and in order, and sockets are not shared: theorems *)
(* about Links, for any number of players, any calls, and buffers and      *)
(* streams of any sizes.                                                   *)
(***************************************************************************)
EXTENDS Links, SequenceTheorems, TLAPS

(***************************************************************************)
(* The octets in a connection are a section of the frames of the streams   *)
(* that were given to it, one after the other: at[g] octets come before    *)
(* the frame of the g-th stream.  The section begins with what the reader  *)
(* has left of the stream that follows the k streams it has got, of whose  *)
(* frame it has taken some octets, and ends where the writer is, which has *)
(* some octets left to write.                                              *)
(***************************************************************************)
Whole(stream) == LENGTH_SIZE + Len(stream)

Places(at, streams) ==
    /\ at \in [1 .. Len(streams) + 1 -> Nat]
    /\ at[1] = 0
    /\ \A g \in 1 .. Len(streams) : at[g + 1] = at[g] + Whole(streams[g])
    /\ \A g, h \in 1 .. Len(streams) + 1 : g <= h => at[g] <= at[h]

Section(octets, streams, at, start) ==
    \A i \in 1 .. Len(octets) : \A g \in 1 .. Len(streams) :
        at[g] < start + i /\ start + i <= at[g + 1]
            => octets[i] = Frame(streams[g])[start + i - at[g]]

InStream(octets, streams, k, taken, left) ==
    /\ k \in 0 .. Len(streams)
    /\ \E at : /\ Places(at, streams)
               /\ at[k + 1] + taken + Len(octets) + left = at[Len(streams) + 1]
               /\ Section(octets, streams, at, at[k + 1] + taken)

-----------------------------------------------------------------------------
(***************************************************************************)
(* The invariant.  What the writer of a connection has left to write, and  *)
(* what the reader has taken of the stream that it is receiving.           *)
(***************************************************************************)
Busy(a) == loc[a] # "idle"

Writing(l) == Busy(l[1]) /\ Sends(l[1]) /\ To(l[1]) = l
Reading(l) == Busy(l[2]) /\ Receives(l[2]) /\ From(l[2]) = l

(* The Sender of l is the one to write. *)
Delegating(l) ==
    Writing(l) /\ Delegates(l[1]) /\ loc[l[1]] \in {"length", "receive", "wait"}

WholeOf(a) == LENGTH_SIZE + This(a).len

Left(l) ==
    IF ~Writing(l) THEN 0
    ELSE IF ~Delegates(l[1]) THEN WholeOf(l[1]) - written[l[1]]
    ELSE IF requests[l] > 0 THEN WholeOf(l[1])
    ELSE IF sending[l] # Idle THEN WholeOf(l[1]) - sending[l]
    ELSE 0

Taken(l) ==
    IF Reading(l) /\ new_len[l[2]] # Unknown THEN LENGTH_SIZE + received[l[2]] ELSE 0

Framed(l) == InStream(wire[l], given[l], Len(got[l]), Taken(l), Left(l))

(* A Sender has nothing to do but for the call that waits for it.          *)
SenderTurn(l) ==
    IF Delegating(l)
    THEN \/ requests[l] = 1 /\ sending[l] = Idle /\ replies[l] = 0
         \/ /\ requests[l] = 0 /\ replies[l] = 0
            /\ sending[l] \in Nat /\ sending[l] < WholeOf(l[1])
         \/ requests[l] = 0 /\ sending[l] = Idle /\ replies[l] = 1
    ELSE requests[l] = 0 /\ sending[l] = Idle /\ replies[l] = 0

(* Where a call can be. *)
Located(a) ==
    /\ Waiting(a)
    /\ loc[a] = "send" => Sends(a) /\ ~Delegates(a)
    /\ loc[a] \in {"length", "receive"} => Receives(a) /\ (Delegates(a) \/ ~Sends(a))
    /\ loc[a] = "wait" => Delegates(a)
    /\ loc[a] \in {"x_send", "x_receive"} => Sends(a) /\ Receives(a) /\ ~Delegates(a)

(* The stream that a call sends, as far as it is still to be written. *)
Current(a) == Payload(a, ncalls[a] + 1, This(a).len)

Outgoing(a) ==
    /\ Len(given[To(a)]) >= 1
    /\ given[To(a)][Len(given[To(a)])] = Current(a)
    /\ ~Delegates(a) =>
         /\ written[a] <= WholeOf(a)
         /\ loc[a] = "send" => written[a] < Target(a)
         /\ loc[a] = "x_send" => written[a] < WholeOf(a)
         /\ loc[a] \in {"x_send", "x_receive"} => LENGTH_SIZE <= written[a]
         /\ loc[a] = "return" => written[a] = WholeOf(a)
    /\ loc[a] = "send" \/ ~InPlace(a) => data[a] = Current(a)
    /\ loc[a] # "send" /\ InPlace(a) /\ written[a] < WholeOf(a) =>
         /\ Len(data[a]) = This(a).len
         /\ LENGTH_SIZE + received[a] <= written[a]
         /\ \A i \in 1 .. This(a).len :
                LENGTH_SIZE + i > written[a] => data[a][i] = Current(a)[i]

(* The stream that a call receives, as far as it has arrived. *)
Expected(a) == given[From(a)][Len(got[From(a)]) + 1]

Arrived(buffer, stream, n) ==
    Len(buffer) >= n /\ \A i \in 1 .. n : buffer[i] = stream[i]

Incoming(a) ==
    /\ loc[a] \in {"send", "length"} => new_len[a] = Unknown
    /\ new_len[a] = Unknown =>
         /\ received[a] = 0 /\ into[a] = <<>>
         /\ loc[a] \notin {"receive", "wait", "return"}
    /\ new_len[a] # Unknown =>
         /\ Len(got[From(a)]) < Len(given[From(a)])
         /\ new_len[a] = Len(Expected(a)) /\ received[a] <= new_len[a]
         /\ IF InPlace(a) THEN Arrived(data[a], Expected(a), received[a])
            ELSE Len(into[a]) = received[a] /\ Arrived(into[a], Expected(a), received[a])
    /\ loc[a] = "receive" => received[a] < new_len[a]
    /\ loc[a] \in {"wait", "return"} => received[a] = new_len[a]

Calling(a) ==
    /\ ncalls[a] <= Len(Calls(a))
    /\ Busy(a) => /\ Located(a)
                  /\ Sends(a) => Outgoing(a)
                  /\ Receives(a) => Incoming(a)

LinksInv ==
    /\ \A l \in Link : Framed(l)
    /\ \A l \in Link : SenderTurn(l)
    /\ \A a \in Node : Calling(a)

-----------------------------------------------------------------------------
(***************************************************************************)
(* Sequences.                                                              *)
(***************************************************************************)
LEMMA Slice ==
    ASSUME NEW T, NEW s \in Seq(T), NEW m \in Nat, NEW n \in Nat, m + n <= Len(s)
    PROVE  /\ SubSeq(s, m + 1, m + n) \in Seq(T)
           /\ Len(SubSeq(s, m + 1, m + n)) = n
           /\ \A i \in 1 .. n : SubSeq(s, m + 1, m + n)[i] = s[m + i]
<1>1. Len(s) \in Nat /\ m + 1 \in Int /\ m + n \in Int
  BY LenProperties
<1>2. \A i \in m + 1 .. m + n : s[i] \in T
  <2>1. \A i \in m + 1 .. m + n : i \in 1 .. Len(s)
    BY <1>1
  <2> QED
    BY <2>1, ElementOfSeq
<1>3. PICK u : u = SubSeq(s, m + 1, m + n)
  OBVIOUS
<1>4. /\ u \in Seq(T)
      /\ Len(u) = IF m + 1 <= m + n THEN m + n - (m + 1) + 1 ELSE 0
      /\ \A i \in 1 .. m + n - (m + 1) + 1 : u[i] = s[m + 1 + i - 1]
  BY <1>1, <1>2, <1>3, SubSeqProperties
<1>5. Len(u) = n
  BY <1>4
<1>6. \A i \in 1 .. n : u[i] = s[m + i]
  <2>1. \A i \in 1 .. n : i \in 1 .. m + n - (m + 1) + 1 /\ m + 1 + i - 1 = m + i
    OBVIOUS
  <2> QED
    BY <1>4, <2>1
<1> QED
  BY <1>3, <1>4, <1>5, <1>6

LEMMA Suffix ==
    ASSUME NEW T, NEW s \in Seq(T), NEW m \in Nat, m <= Len(s)
    PROVE  /\ SubSeq(s, m + 1, Len(s)) \in Seq(T)
           /\ Len(SubSeq(s, m + 1, Len(s))) = Len(s) - m
           /\ \A i \in 1 .. Len(s) - m : SubSeq(s, m + 1, Len(s))[i] = s[m + i]
<1>1. Len(s) \in Nat
  BY LenProperties
<1>2. PICK n \in Nat : n = Len(s) - m
  BY <1>1
<1>3. m + n = Len(s)
  BY <1>1, <1>2
<1>4. m + n <= Len(s)
  BY <1>1, <1>3
<1>5. /\ SubSeq(s, m + 1, m + n) \in Seq(T)
      /\ Len(SubSeq(s, m + 1, m + n)) = n
      /\ \A i \in 1 .. n : SubSeq(s, m + 1, m + n)[i] = s[m + i]
  BY <1>4, Slice
<1> QED
  BY <1>2, <1>3, <1>5

LEMMA Prefix ==
    ASSUME NEW T, NEW s \in Seq(T), NEW n \in Nat, n <= Len(s)
    PROVE  /\ SubSeq(s, 1, n) \in Seq(T)
           /\ Len(SubSeq(s, 1, n)) = n
           /\ \A i \in 1 .. n : SubSeq(s, 1, n)[i] = s[i]
<1>1. Len(s) \in Nat
  BY LenProperties
<1>2. PICK m \in Nat : m = 0
  OBVIOUS
<1>3. m + n <= Len(s) /\ m + 1 = 1 /\ m + n = n /\ \A i \in 1 .. n : m + i = i
  BY <1>1, <1>2
<1>4. /\ SubSeq(s, m + 1, m + n) \in Seq(T)
      /\ Len(SubSeq(s, m + 1, m + n)) = n
      /\ \A i \in 1 .. n : SubSeq(s, m + 1, m + n)[i] = s[m + i]
  BY <1>3, Slice
<1> QED
  BY <1>3, <1>4

LEMMA Appended ==
    ASSUME NEW T, NEW s \in Seq(T), NEW e \in T
    PROVE  /\ Append(s, e) \in Seq(T) /\ Len(s) \in Nat
           /\ Len(Append(s, e)) = Len(s) + 1
           /\ \A i \in 1 .. Len(s) : Append(s, e)[i] = s[i]
           /\ Append(s, e)[Len(s) + 1] = e
  BY LenProperties, AppendProperties

(* Octets that arrive at their place. *)
LEMMA PlacedAt ==
    ASSUME NEW T, NEW s \in Seq(T), NEW k \in Nat, k <= Len(s), NEW w \in Seq(T)
    PROVE  /\ Placed(s, k, w) \in Seq(T)
           /\ k + Len(w) <= Len(s) => Len(Placed(s, k, w)) = Len(s)
           /\ ~(k + Len(w) <= Len(s)) => Len(Placed(s, k, w)) = k + Len(w)
           /\ \A i \in 1 .. k : Placed(s, k, w)[i] = s[i]
           /\ \A i \in 1 .. Len(w) : Placed(s, k, w)[k + i] = w[i]
           /\ \A i \in 1 .. Len(s) : k + Len(w) < i => Placed(s, k, w)[i] = s[i]
<1>1. Len(s) \in Nat /\ Len(w) \in Nat
  BY LenProperties
<1>2. PICK a, c, n : a = SubSeq(s, 1, k) /\ n = k + Len(w) /\ c = SubSeq(s, n + 1, Len(s))
  OBVIOUS
<1>3. n \in Nat /\ n = k + Len(w)
  BY <1>1, <1>2
<1>4. a \in Seq(T) /\ Len(a) = k /\ \A i \in 1 .. k : a[i] = s[i]
  BY <1>2, Prefix
<1>5. PICK b : b = a \o w
  OBVIOUS
<1>6. /\ b \in Seq(T) /\ Len(b) = n
      /\ \A i \in 1 .. n : b[i] = IF i <= k THEN a[i] ELSE w[i - k]
  BY <1>1, <1>3, <1>4, <1>5, ConcatProperties
<1>7. Placed(s, k, w) = b \o c
  BY <1>2, <1>5 DEF Placed
<1>8. \A i \in 1 .. k : b[i] = s[i]
  <2>1. \A i \in 1 .. k : i \in 1 .. n /\ i <= k
    BY <1>1, <1>3
  <2> QED
    BY <1>4, <1>6, <2>1
<1>9. \A i \in 1 .. Len(w) : b[k + i] = w[i]
  <2>1. \A i \in 1 .. Len(w) : k + i \in 1 .. n /\ ~(k + i <= k) /\ (k + i) - k = i
    BY <1>1, <1>3
  <2> QED
    BY <1>6, <2>1
<1>10. /\ c \in Seq(T)
       /\ n <= Len(s) => Len(c) = Len(s) - n /\ \A i \in 1 .. Len(s) - n : c[i] = s[n + i]
       /\ ~(n <= Len(s)) => Len(c) = 0
  <2>1. CASE n <= Len(s)
    BY <1>2, <1>3, <2>1, Suffix
  <2>2. CASE ~(n <= Len(s))
    <3>1. Len(s) < n + 1 /\ n + 1 \in Int /\ Len(s) \in Int
      BY <1>1, <1>3, <2>2
    <3>2. c = <<>>
      BY <1>2, <3>1, SubSeqEmpty
    <3> QED
      BY <2>2, <3>2, EmptySeq
  <2> QED
    BY <2>1, <2>2
<1>11. Len(c) \in Nat
  BY <1>10, LenProperties
<1>12. /\ b \o c \in Seq(T) /\ Len(b \o c) = n + Len(c)
       /\ \A i \in 1 .. n + Len(c) : (b \o c)[i] = IF i <= n THEN b[i] ELSE c[i - n]
  <2>1. b \in Seq(T) /\ c \in Seq(T)
    BY <1>6, <1>10
  <2>2. /\ b \o c \in Seq(T) /\ Len(b \o c) = Len(b) + Len(c)
        /\ \A i \in 1 .. Len(b) + Len(c) : (b \o c)[i] = IF i <= Len(b) THEN b[i] ELSE c[i - Len(b)]
    BY <2>1, ConcatProperties
  <2>3. Len(b) = n
    BY <1>6
  <2> QED
    BY <2>2, <2>3
<1>13. \A i \in 1 .. n : (b \o c)[i] = b[i]
  <2>1. \A i \in 1 .. n : i \in 1 .. n + Len(c) /\ i <= n
    BY <1>3, <1>11
  <2> QED
    BY <1>12, <2>1
<1>14. \A i \in 1 .. k : (b \o c)[i] = s[i]
  <2>1. \A i \in 1 .. k : i \in 1 .. n
    BY <1>1, <1>3
  <2> QED
    BY <1>8, <1>13, <2>1
<1>15. \A i \in 1 .. Len(w) : (b \o c)[k + i] = w[i]
  <2>1. \A i \in 1 .. Len(w) : k + i \in 1 .. n
    BY <1>1, <1>3
  <2> QED
    BY <1>9, <1>13, <2>1
<1>16. ASSUME NEW i \in 1 .. Len(s), n < i
       PROVE  (b \o c)[i] = s[i]
  <2>1. n <= Len(s)
    BY <1>1, <1>3, <1>16
  <2>2. /\ i \in 1 .. n + Len(c) /\ ~(i <= n)
        /\ i - n \in 1 .. Len(s) - n /\ n + (i - n) = i
    BY <1>1, <1>3, <1>10, <1>16, <2>1
  <2>3. (b \o c)[i] = c[i - n]
    BY <1>12, <2>2
  <2>4. c[i - n] = s[n + (i - n)]
    BY <1>10, <2>1, <2>2
  <2> QED
    BY <2>2, <2>3, <2>4
<1>17. Len(b \o c) = IF n <= Len(s) THEN Len(s) ELSE n
  <2>1. Len(b \o c) = n + Len(c)
    BY <1>12
  <2>2. CASE n <= Len(s)
    <3>1. Len(c) = Len(s) - n
      BY <1>10, <2>2
    <3> QED
      BY <1>1, <1>3, <2>1, <2>2, <3>1
  <2>3. CASE ~(n <= Len(s))
    <3>1. Len(c) = 0
      BY <1>10, <2>3
    <3> QED
      BY <1>1, <1>3, <2>1, <2>3, <3>1
  <2> QED
    BY <2>2, <2>3
<1> QED
  BY <1>3, <1>7, <1>12, <1>14, <1>15, <1>16, <1>17

(* The frame of a stream. *)
LEMMA FrameAt ==
    ASSUME NEW s \in Seq(Octet)
    PROVE  /\ Frame(s) \in Seq(Octet) /\ Len(s) \in Nat
           /\ Len(Frame(s)) = Whole(s) /\ Whole(s) \in Nat /\ Whole(s) >= 1
           /\ Frame(s)[1] = <<Len(s), 1>>
           /\ \A i \in 1 .. Len(s) : Frame(s)[LENGTH_SIZE + i] = s[i]
<1>1. LENGTH_SIZE \in Nat /\ LENGTH_SIZE >= 1 /\ Len(s) \in Nat
  BY CapacityAssumption, LenProperties
<1>2. PICK n, h : n = Len(s) /\ h = Length(n)
  OBVIOUS
<1>3. h \in Seq(Octet) /\ Len(h) = LENGTH_SIZE /\ h[1] = <<n, 1>>
  <2>1. h = [i \in 1 .. LENGTH_SIZE |-> <<n, i>>]
    BY <1>2 DEF Length
  <2>2. \A i \in 1 .. LENGTH_SIZE : <<n, i>> \in Octet
    BY <1>1, <1>2 DEF Octet
  <2>3. h \in [1 .. LENGTH_SIZE -> Octet]
    BY <2>1, <2>2
  <2>4. h \in Seq(Octet)
    BY <1>1, <2>3, SeqDef
  <2>5. Len(h) = LENGTH_SIZE
    BY <1>1, <2>3, <2>4, LenProperties
  <2>6. 1 \in 1 .. LENGTH_SIZE
    BY <1>1
  <2> QED
    BY <2>1, <2>4, <2>5, <2>6
<1>4. Frame(s) = h \o s
  BY <1>2 DEF Frame
<1>5. /\ h \o s \in Seq(Octet) /\ Len(h \o s) = LENGTH_SIZE + Len(s)
      /\ \A i \in 1 .. LENGTH_SIZE + Len(s) :
             (h \o s)[i] = IF i <= LENGTH_SIZE THEN h[i] ELSE s[i - LENGTH_SIZE]
  BY <1>3, ConcatProperties
<1>6. (h \o s)[1] = <<n, 1>>
  <2>1. 1 \in 1 .. LENGTH_SIZE + Len(s) /\ 1 <= LENGTH_SIZE
    BY <1>1
  <2> QED
    BY <1>3, <1>5, <2>1
<1>7. \A i \in 1 .. Len(s) : (h \o s)[LENGTH_SIZE + i] = s[i]
  <2>1. \A i \in 1 .. Len(s) : /\ LENGTH_SIZE + i \in 1 .. LENGTH_SIZE + Len(s)
                               /\ ~(LENGTH_SIZE + i <= LENGTH_SIZE)
                               /\ (LENGTH_SIZE + i) - LENGTH_SIZE = i
    BY <1>1
  <2> QED
    BY <1>5, <2>1
<1> QED
  BY <1>1, <1>2, <1>4, <1>5, <1>6, <1>7 DEF Whole

-----------------------------------------------------------------------------
(***************************************************************************)
(* What happens to the octets in a connection.                             *)
(***************************************************************************)
Traffic(octets, streams, k, taken, left) ==
    /\ octets \in Seq(Octet) /\ streams \in Seq(Seq(Octet))
    /\ k \in Nat /\ taken \in Nat /\ left \in Nat
    /\ InStream(octets, streams, k, taken, left)

LEMMA StreamLengths ==
    ASSUME NEW streams \in Seq(Seq(Octet))
    PROVE  /\ Len(streams) \in Nat
           /\ \A g \in 1 .. Len(streams) :
                  /\ streams[g] \in Seq(Octet) /\ Len(streams[g]) \in Nat
                  /\ Whole(streams[g]) \in Nat /\ Whole(streams[g]) >= 1
                  /\ Whole(streams[g]) = LENGTH_SIZE + Len(streams[g])
<1>1. Len(streams) \in Nat
  BY LenProperties
<1>2. ASSUME NEW g \in 1 .. Len(streams)
      PROVE  /\ streams[g] \in Seq(Octet) /\ Len(streams[g]) \in Nat
             /\ Whole(streams[g]) \in Nat /\ Whole(streams[g]) >= 1
  <2>1. streams[g] \in Seq(Octet)
    BY ElementOfSeq
  <2> QED
    BY <2>1, FrameAt
<1> QED
  BY <1>1, <1>2 DEF Whole

LEMMA NoTraffic == Traffic(<<>>, <<>>, 0, 0, 0)
<1>1. /\ <<>> \in Seq(Octet) /\ <<>> \in Seq(Seq(Octet)) /\ Len(<<>>) = 0
  BY EmptySeq
<1>2. PICK at : at = [g \in 1 .. 1 |-> 0]
  OBVIOUS
<1>3. at \in [1 .. 0 + 1 -> Nat] /\ at[1] = 0 /\ \A g \in 1 .. 1 : at[g] = 0
  BY <1>2
<1>4. \A g \in 1 .. 0 : FALSE
  OBVIOUS
<1>5. Places(at, <<>>)
  BY <1>1, <1>3, <1>4 DEF Places
<1>6. Section(<<>>, <<>>, at, 0)
  BY <1>1, <1>4 DEF Section
<1>7. at[0 + 1] + 0 + Len(<<>>) + 0 = at[Len(<<>>) + 1] /\ at[0 + 1] + 0 = 0
  BY <1>1, <1>3
<1>8. 0 \in 0 .. Len(<<>>)
  BY <1>1
<1>9. InStream(<<>>, <<>>, 0, 0, 0)
  BY <1>5, <1>6, <1>7, <1>8 DEF InStream
<1> QED
  BY <1>1, <1>9 DEF Traffic

(* A stream more to be written.                                            *)
LEMMA TrafficPut ==
    ASSUME NEW w, NEW G, NEW k, NEW t, Traffic(w, G, k, t, 0), NEW s \in Seq(Octet)
    PROVE  Traffic(w, Append(G, s), k, t, Whole(s))
<1>1. /\ w \in Seq(Octet) /\ G \in Seq(Seq(Octet)) /\ k \in Nat /\ t \in Nat
      /\ k \in 0 .. Len(G)
  BY DEF Traffic, InStream
<1>2. PICK at : /\ Places(at, G) /\ at[k + 1] + t + Len(w) + 0 = at[Len(G) + 1]
                /\ Section(w, G, at, at[k + 1] + t)
  BY DEF Traffic, InStream
<1>3. PICK m, H : m = Len(G) /\ H = Append(G, s)
  OBVIOUS
<1>4. /\ m \in Nat /\ H \in Seq(Seq(Octet)) /\ Len(H) = m + 1 /\ H[m + 1] = s
      /\ \A g \in 1 .. m : H[g] = G[g]
  BY <1>1, <1>3, Appended
<1>5. Whole(s) \in Nat /\ Whole(s) >= 1 /\ Len(w) \in Nat
  BY <1>1, FrameAt, LenProperties
<1>6. /\ at \in [1 .. m + 1 -> Nat] /\ at[1] = 0
      /\ \A g \in 1 .. m : at[g + 1] = at[g] + Whole(G[g])
      /\ \A g, h \in 1 .. m + 1 : g <= h => at[g] <= at[h]
  BY <1>2, <1>3 DEF Places
<1>7. PICK e : e = at[m + 1] + Whole(s)
  OBVIOUS
<1>8. at[m + 1] \in Nat /\ e \in Nat /\ at[m + 1] <= e
  BY <1>4, <1>5, <1>6, <1>7
<1>9. PICK bt : bt = [g \in 1 .. (m + 1) + 1 |-> IF g <= m + 1 THEN at[g] ELSE e]
  OBVIOUS
<1>10. /\ \A g \in 1 .. m + 1 : bt[g] = at[g]
       /\ bt[(m + 1) + 1] = e
       /\ bt \in [1 .. (m + 1) + 1 -> Nat]
  BY <1>4, <1>6, <1>8, <1>9
<1>11. Places(bt, H)
  <2>1. \A g \in 1 .. m + 1 : bt[g + 1] = bt[g] + Whole(H[g])
    <3>1. ASSUME NEW g \in 1 .. m PROVE bt[g + 1] = bt[g] + Whole(H[g])
      <4>1. g \in 1 .. m + 1 /\ g + 1 \in 1 .. m + 1
        BY <1>4
      <4> QED
        BY <1>4, <1>6, <1>10, <4>1
    <3>2. bt[(m + 1) + 1] = bt[m + 1] + Whole(H[m + 1])
      <4>1. m + 1 \in 1 .. m + 1
        BY <1>4
      <4> QED
        BY <1>4, <1>7, <1>10, <4>1
    <3>3. \A g \in 1 .. m + 1 : g \in 1 .. m \/ g = m + 1
      BY <1>4
    <3> QED
      BY <3>1, <3>2, <3>3
  <2>2. ASSUME NEW g \in 1 .. (m + 1) + 1, NEW h \in 1 .. (m + 1) + 1, g <= h
        PROVE  bt[g] <= bt[h]
    <3>1. CASE h \in 1 .. m + 1
      <4>1. g \in 1 .. m + 1
        BY <1>4, <2>2, <3>1
      <4> QED
        BY <1>6, <1>10, <2>2, <3>1, <4>1
    <3>2. CASE h = (m + 1) + 1
      <4>1. CASE g = (m + 1) + 1
        BY <1>8, <1>10, <3>2, <4>1
      <4>2. CASE g \in 1 .. m + 1
        <5>1. m + 1 \in 1 .. m + 1 /\ g <= m + 1
          BY <1>4, <4>2
        <5>2. at[g] <= at[m + 1] /\ at[g] \in Nat
          BY <1>6, <4>2, <5>1
        <5> QED
          BY <1>8, <1>10, <3>2, <4>2, <5>2
      <4> QED
        BY <1>4, <4>1, <4>2
    <3> QED
      BY <1>4, <3>1, <3>2
  <2>3. 1 \in 1 .. m + 1
    BY <1>4
  <2> QED
    BY <1>4, <1>6, <1>10, <2>1, <2>2, <2>3 DEF Places
<1>12. k + 1 \in 1 .. m + 1 /\ m + 1 \in 1 .. m + 1
  BY <1>1, <1>3, <1>4
<1>13. bt[k + 1] + t + Len(w) + Whole(s) = bt[Len(H) + 1]
  <2>1. at[k + 1] \in Nat
    BY <1>6, <1>12
  <2>2. bt[k + 1] = at[k + 1] /\ bt[Len(H) + 1] = e
    BY <1>4, <1>10, <1>12
  <2>3. at[k + 1] + t + Len(w) = at[m + 1]
    BY <1>1, <1>2, <1>3, <1>5, <2>1
  <2> QED
    BY <1>1, <1>5, <1>7, <2>1, <2>2, <2>3
<1>14. Section(w, H, bt, bt[k + 1] + t)
  <2> SUFFICES ASSUME NEW i \in 1 .. Len(w), NEW g \in 1 .. Len(H),
                      bt[g] < bt[k + 1] + t + i, bt[k + 1] + t + i <= bt[g + 1]
               PROVE  w[i] = Frame(H[g])[bt[k + 1] + t + i - bt[g]]
    BY DEF Section
  <2>1. bt[k + 1] = at[k + 1] /\ at[k + 1] \in Nat
    BY <1>6, <1>10, <1>12
  <2>2. CASE g \in 1 .. m
    <3>1. g \in 1 .. m + 1 /\ g + 1 \in 1 .. m + 1
      BY <1>4, <2>2
    <3>2. bt[g] = at[g] /\ bt[g + 1] = at[g + 1] /\ H[g] = G[g]
      BY <1>4, <1>10, <2>2, <3>1
    <3>3. at[g] < at[k + 1] + t + i /\ at[k + 1] + t + i <= at[g + 1]
      BY <2>1, <3>2
    <3>4. w[i] = Frame(G[g])[at[k + 1] + t + i - at[g]]
      BY <1>2, <1>3, <2>2, <3>3 DEF Section
    <3> QED
      BY <2>1, <3>2, <3>4
  <2>3. CASE g = m + 1
    <3>1. bt[g] = at[m + 1]
      BY <1>10, <1>12, <2>3
    <3>2. at[k + 1] + t + Len(w) = at[m + 1]
      BY <1>1, <1>2, <1>3, <1>5, <2>1
    <3>3. at[m + 1] < at[k + 1] + t + i
      BY <2>1, <3>1
    <3> QED
      BY <1>1, <1>5, <1>8, <2>1, <3>2, <3>3
  <2> QED
    BY <1>4, <2>2, <2>3
<1>15. k \in 0 .. Len(H)
  BY <1>1, <1>3, <1>4
<1>16. InStream(w, H, k, t, Whole(s))
  BY <1>11, <1>13, <1>14, <1>15 DEF InStream
<1> QED
  BY <1>1, <1>3, <1>4, <1>5, <1>16 DEF Traffic

(* The next n octets of the last stream are written. *)
LEMMA TrafficWrite ==
    ASSUME NEW w, NEW G, NEW k, NEW t, NEW left, Traffic(w, G, k, t, left),
           NEW s \in Seq(Octet), Len(G) >= 1, G[Len(G)] = s, left <= Whole(s),
           NEW n \in Nat, n <= left, NEW f \in Seq(Octet), Len(f) = n,
           \A i \in 1 .. n : f[i] = Frame(s)[Whole(s) - left + i]
    PROVE  Traffic(w \o f, G, k, t, left - n)
<1>1. /\ w \in Seq(Octet) /\ G \in Seq(Seq(Octet)) /\ k \in Nat /\ t \in Nat /\ left \in Nat
      /\ k \in 0 .. Len(G)
  BY DEF Traffic, InStream
<1>2. PICK at : /\ Places(at, G) /\ at[k + 1] + t + Len(w) + left = at[Len(G) + 1]
                /\ Section(w, G, at, at[k + 1] + t)
  BY DEF Traffic, InStream
<1>3. PICK m, v : m = Len(G) /\ v = w \o f
  OBVIOUS
<1>4. m \in Nat /\ Len(w) \in Nat /\ Whole(s) \in Nat
  BY <1>1, <1>3, FrameAt, LenProperties
<1>5. /\ v \in Seq(Octet) /\ Len(v) = Len(w) + n
      /\ \A i \in 1 .. Len(w) + n : v[i] = IF i <= Len(w) THEN w[i] ELSE f[i - Len(w)]
  <2>0. w \in Seq(Octet) /\ f \in Seq(Octet)
    BY <1>1
  <2>1. /\ w \o f \in Seq(Octet) /\ Len(w \o f) = Len(w) + Len(f)
        /\ \A i \in 1 .. Len(w) + Len(f) :
              (w \o f)[i] = IF i <= Len(w) THEN w[i] ELSE f[i - Len(w)]
    BY ONLY <2>0, ConcatProperties
  <2> QED
    BY <1>3, <2>1
<1>6. /\ at \in [1 .. m + 1 -> Nat] /\ at[1] = 0
      /\ \A g \in 1 .. m : at[g + 1] = at[g] + Whole(G[g])
      /\ \A g, h \in 1 .. m + 1 : g <= h => at[g] <= at[h]
  BY <1>2, <1>3 DEF Places
<1>7. PICK r : r = at[k + 1] + t
  OBVIOUS
<1>8. k + 1 \in 1 .. m + 1 /\ m + 1 \in 1 .. m + 1 /\ m \in 1 .. m /\ m \in 1 .. m + 1
  BY <1>1, <1>3, <1>4
<1>9. r \in Nat /\ at[m + 1] \in Nat /\ at[m] \in Nat /\ at[k + 1] \in Nat
  <2>1. at[m + 1] \in Nat /\ at[m] \in Nat /\ at[k + 1] \in Nat
    BY <1>6, <1>8
  <2> QED
    BY <1>1, <1>7, <2>1
<1>10. at[m + 1] = at[m] + Whole(s)
  BY <1>3, <1>6, <1>8
<1>11. r + Len(w) + left = at[m + 1]
  BY <1>1, <1>2, <1>3, <1>4, <1>7, <1>9
<1>12. r + Len(v) + (left - n) = at[m + 1]
  <2>1. PICK p, q, z : p = Len(w) /\ q = Len(v) /\ z = at[m + 1]
    OBVIOUS
  <2>2. p \in Nat /\ q = p + n /\ r + p + left = z /\ left \in Nat /\ r \in Nat
    BY <1>1, <1>4, <1>5, <1>9, <1>11, <2>1
  <2>3. r + q + (left - n) = r + p + left
    BY ONLY <2>2, n \in Nat
  <2> QED
    BY <2>1, <2>2, <2>3
<1>13. Section(v, G, at, r)
  <2> SUFFICES ASSUME NEW i \in 1 .. Len(v), NEW g \in 1 .. Len(G),
                      at[g] < r + i, r + i <= at[g + 1]
               PROVE  v[i] = Frame(G[g])[r + i - at[g]]
    BY DEF Section
  <2>1. CASE i <= Len(w)
    <3>1. i \in 1 .. Len(w) /\ v[i] = w[i]
      BY <1>4, <1>5, <2>1
    <3> QED
      BY <1>2, <1>7, <3>1 DEF Section
  <2>2. CASE ~(i <= Len(w))
    <3>1. PICK j \in Nat : j = i - Len(w)
      BY <1>4, <1>5, <2>2
    <3>2. j \in 1 .. n /\ i = Len(w) + j /\ v[i] = f[j]
      BY <1>4, <1>5, <2>2, <3>1
    <3>3. r + i = at[m] + (Whole(s) - left + j)
      <4>1. PICK a0, a1, e, u : a0 = at[m] /\ a1 = at[m + 1] /\ e = Whole(s) /\ u = Len(w)
        OBVIOUS
      <4>2. a0 \in Nat /\ a1 \in Nat /\ e \in Nat /\ u \in Nat /\ r \in Nat /\ left \in Nat
        BY <1>1, <1>4, <1>9, <4>1
      <4>3. a1 = a0 + e /\ r + u + left = a1 /\ i = u + j
        BY <1>10, <1>11, <3>2, <4>1
      <4>4. r + i = a0 + (e - left + j)
        BY ONLY <3>1, <4>2, <4>3, n \in Nat
      <4> QED
        BY <4>1, <4>4
    <3>7. PICK a0, x, e : a0 = at[m] /\ x = e - left + j /\ e = Whole(s)
      OBVIOUS
    <3>8. r + i - at[m] = Whole(s) - left + j /\ at[m] < r + i
      <4>1. a0 \in Nat /\ e \in Nat /\ left \in Nat /\ left <= e /\ j \in Nat /\ 1 <= j
        BY <1>1, <1>4, <1>9, <3>1, <3>2, <3>7
      <4>2. x = e - left + j /\ r + i = a0 + x
        BY <3>3, <3>7
      <4>3. r + i - a0 = x /\ a0 < r + i
        <5>1. r \in Nat /\ i \in Nat
          BY <1>4, <1>9, <3>1, <3>2
        <5> QED
          BY ONLY <4>1, <4>2, <5>1
      <4> QED
        BY <3>7, <4>3
    <3>4. g = m
      <4>1. SUFFICES ASSUME g # m PROVE FALSE
        OBVIOUS
      <4>2. g \in 1 .. m + 1 /\ g + 1 \in 1 .. m + 1 /\ g + 1 <= m
        BY <1>3, <1>4, <4>1
      <4>3. at[g + 1] <= at[m] /\ at[g + 1] \in Nat
        BY <1>6, <1>8, <4>2
      <4>4. at[m] < r + i
        BY <3>8
      <4> QED
        BY <1>4, <1>5, <1>9, <4>3, <4>4
    <3>5. r + i - at[g] = Whole(s) - left + j
      BY <3>4, <3>8
    <3>6. v[i] = Frame(s)[Whole(s) - left + j]
      BY <3>2
    <3> QED
      BY <1>3, <3>4, <3>5, <3>6
  <2> QED
    BY <2>1, <2>2
<1>14. InStream(v, G, k, t, left - n)
  BY <1>1, <1>2, <1>3, <1>7, <1>12, <1>13 DEF InStream
<1>15. left - n \in Nat
  BY <1>1
<1> QED
  BY <1>1, <1>3, <1>5, <1>14, <1>15 DEF Traffic

(* The next n octets are read. *)
LEMMA TrafficRead ==
    ASSUME NEW w, NEW G, NEW k, NEW t, NEW left, Traffic(w, G, k, t, left),
           NEW n \in Nat, n <= Len(w)
    PROVE  Traffic(SubSeq(w, n + 1, Len(w)), G, k, t + n, left)
<1>1. /\ w \in Seq(Octet) /\ G \in Seq(Seq(Octet)) /\ k \in Nat /\ t \in Nat /\ left \in Nat
      /\ k \in 0 .. Len(G)
  BY DEF Traffic, InStream
<1>2. PICK at : /\ Places(at, G) /\ at[k + 1] + t + Len(w) + left = at[Len(G) + 1]
                /\ Section(w, G, at, at[k + 1] + t)
  BY DEF Traffic, InStream
<1>3. PICK v, a0 : v = SubSeq(w, n + 1, Len(w)) /\ a0 = at[k + 1]
  OBVIOUS
<1>4. /\ v \in Seq(Octet) /\ Len(v) = Len(w) - n
      /\ \A i \in 1 .. Len(w) - n : v[i] = w[n + i]
  BY <1>1, <1>3, Suffix
<1>5. Len(w) \in Nat /\ a0 \in Nat
  <2>1. Len(G) \in Nat /\ k + 1 \in 1 .. Len(G) + 1
    BY <1>1, LenProperties
  <2> QED
    BY <1>1, <1>2, <1>3, <2>1, LenProperties DEF Places
<1>6. a0 + (t + n) + Len(v) + left = at[Len(G) + 1]
  <2>1. a0 + (t + n) + Len(v) + left = a0 + t + Len(w) + left
    BY <1>1, <1>4, <1>5
  <2> QED
    BY <1>2, <1>3, <2>1
<1>7. Section(v, G, at, a0 + (t + n))
  <2> SUFFICES ASSUME NEW i \in 1 .. Len(v), NEW g \in 1 .. Len(G),
                      at[g] < a0 + (t + n) + i, a0 + (t + n) + i <= at[g + 1]
               PROVE  v[i] = Frame(G[g])[a0 + (t + n) + i - at[g]]
    BY DEF Section
  <2>1. PICK z, p, q : /\ z = n + i /\ p = a0 + (t + n) + i - at[g]
                       /\ q = a0 + t + (n + i) - at[g]
    OBVIOUS
  <2>2. i \in 1 .. Len(w) - n /\ Len(w) \in Nat /\ i \in Nat
    BY <1>4, <1>5
  <2>3. z \in 1 .. Len(w)
    BY <2>1, <2>2
  <2>4. a0 + (t + n) + i = a0 + t + (n + i)
    BY <1>1, <1>5, <2>2
  <2>5. at[g] < a0 + t + z /\ a0 + t + z <= at[g + 1]
    BY <2>1, <2>4
  <2>6. w[z] = Frame(G[g])[a0 + t + z - at[g]]
    BY <1>2, <1>3, <2>3, <2>5 DEF Section
  <2>7. p = q /\ q = a0 + t + z - at[g]
    <3>1. at[g] \in Nat
      <4>1. Len(G) \in Nat
        BY <1>1, LenProperties
      <4>2. g \in 1 .. Len(G) + 1
        BY <4>1
      <4> QED
        BY <1>2, <4>2 DEF Places
    <3>2. t \in Nat /\ n \in Nat /\ a0 \in Nat /\ i \in Nat
      BY <1>1, <1>5, <2>2
    <3>3. p = q
      BY ONLY <2>1, <3>1, <3>2
    <3>4. q = a0 + t + z - at[g]
      BY ONLY <2>1, <3>1, <3>2
    <3> QED
      BY <3>3, <3>4
  <2>8. v[i] = w[z]
    BY <1>4, <2>1, <2>2
  <2>9. v[i] = Frame(G[g])[p]
    BY <2>6, <2>7, <2>8
  <2> QED
    BY <2>1, <2>9
<1>8. InStream(v, G, k, t + n, left)
  BY <1>1, <1>2, <1>3, <1>6, <1>7 DEF InStream
<1> QED
  BY <1>1, <1>3, <1>4, <1>8 DEF Traffic

(* What is read is the next stream. *)
LEMMA TrafficFront ==
    ASSUME NEW w, NEW G, NEW k, NEW t, NEW left, Traffic(w, G, k, t, left),
           k < Len(G), NEW i \in 1 .. Len(w), t + i <= Whole(G[k + 1])
    PROVE  w[i] = Frame(G[k + 1])[t + i]
<1>1. /\ w \in Seq(Octet) /\ G \in Seq(Seq(Octet)) /\ k \in Nat /\ t \in Nat
  BY DEF Traffic
<1>2. PICK at : Places(at, G) /\ Section(w, G, at, at[k + 1] + t)
  BY DEF Traffic, InStream
<1>3. Len(G) \in Nat /\ Len(w) \in Nat
  BY <1>1, LenProperties
<1>4. /\ k + 1 \in 1 .. Len(G) /\ k + 1 \in 1 .. Len(G) + 1
      /\ (k + 1) + 1 \in 1 .. Len(G) + 1
  BY <1>1, <1>3
<1>5. PICK a0, a1, e : a0 = at[k + 1] /\ a1 = at[(k + 1) + 1] /\ e = Whole(G[k + 1])
  OBVIOUS
<1>6. a0 \in Nat /\ e \in Nat /\ a1 = a0 + e
  BY <1>1, <1>2, <1>4, <1>5, StreamLengths DEF Places
<1>7. i \in Nat /\ 1 <= i
  BY <1>3
<1>8. a0 < a0 + t + i /\ a0 + t + i <= a1 /\ a0 + t + i - a0 = t + i
  <2>1. t + i <= e /\ t \in Nat
    BY <1>1, <1>5
  <2>2. PICK x \in Nat : x = t + i /\ 1 <= x
    BY <1>7, <2>1
  <2>3. a0 + t + i = a0 + x
    BY <1>6, <1>7, <2>1, <2>2
  <2>4. a0 < a0 + x /\ a0 + x <= a1 /\ a0 + x - a0 = x
    <3>1. x <= e
      BY <2>1, <2>2
    <3> QED
      BY ONLY <1>6, <2>2, <3>1
  <2>5. PICK y \in Nat : y = a0 + t + i
    BY <1>6, <1>7, <2>1
  <2>6. y = a0 + x
    BY <2>3, <2>5
  <2>7. a0 < y /\ y <= a1 /\ y - a0 = x
    BY <1>6, <2>4, <2>6
  <2>8. a0 + t + i - a0 = y - a0 /\ a0 < a0 + t + i /\ a0 + t + i <= a1
    BY <1>6, <1>7, <2>1, <2>5, <2>7
  <2> QED
    BY <2>2, <2>7, <2>8
<1>9. w[i] = Frame(G[k + 1])[a0 + t + i - a0]
  BY <1>2, <1>4, <1>5, <1>8 DEF Section
<1> QED
  BY <1>8, <1>9

(* If there is something and nothing has been taken of the next stream,    *)
(* there is a next stream, and its length comes first.                     *)
LEMMA TrafficHead ==
    ASSUME NEW w, NEW G, NEW k, NEW left, Traffic(w, G, k, 0, left), Len(w) >= 1
    PROVE  k < Len(G) /\ w # <<>> /\ Head(w) = <<Len(G[k + 1]), 1>>
<1>1. /\ w \in Seq(Octet) /\ G \in Seq(Seq(Octet)) /\ k \in Nat /\ left \in Nat
      /\ k \in 0 .. Len(G)
  BY DEF Traffic, InStream
<1>2. PICK at : Places(at, G) /\ at[k + 1] + 0 + Len(w) + left = at[Len(G) + 1]
  BY DEF Traffic, InStream
<1>3. Len(G) \in Nat /\ Len(w) \in Nat
  BY <1>1, LenProperties
<1>4. k < Len(G)
  <2>1. SUFFICES ASSUME k = Len(G) PROVE FALSE
    BY <1>1, <1>3
  <2>2. at[k + 1] \in Nat
    BY <1>2, <1>3, <2>1 DEF Places
  <2> QED
    BY <1>1, <1>2, <1>3, <2>1, <2>2
<1>5. w # <<>>
  BY EmptySeq
<1>6. PICK t, i : t = 0 /\ i = 1 /\ t \in Nat
  OBVIOUS
<1>7. i \in 1 .. Len(w) /\ t + i <= Whole(G[k + 1]) /\ t + i = 1 /\ Traffic(w, G, k, t, left)
  <2>1. k + 1 \in 1 .. Len(G)
    BY <1>1, <1>3, <1>4
  <2>2. Whole(G[k + 1]) \in Nat /\ Whole(G[k + 1]) >= 1
    BY <1>1, <2>1, StreamLengths
  <2> QED
    BY <1>3, <1>6, <2>2
<1>8. w[i] = Frame(G[k + 1])[t + i]
  BY <1>4, <1>7, TrafficFront
<1>9. Frame(G[k + 1])[1] = <<Len(G[k + 1]), 1>>
  <2>1. k + 1 \in 1 .. Len(G)
    BY <1>1, <1>3, <1>4
  <2>2. G[k + 1] \in Seq(Octet)
    BY <1>1, <2>1, StreamLengths
  <2> QED
    BY <2>2, FrameAt
<1>10. Head(w) = w[1]
  BY <1>1, <1>5
<1> QED
  BY <1>4, <1>5, <1>6, <1>7, <1>8, <1>9, <1>10

(* A stream is got.                                                        *)
LEMMA TrafficGot ==
    ASSUME NEW w, NEW G, NEW k, NEW t, NEW left, Traffic(w, G, k, t, left),
           k < Len(G), t = Whole(G[k + 1])
    PROVE  Traffic(w, G, k + 1, 0, left)
<1>1. /\ w \in Seq(Octet) /\ G \in Seq(Seq(Octet)) /\ k \in Nat /\ t \in Nat /\ left \in Nat
  BY DEF Traffic
<1>2. PICK at : /\ Places(at, G) /\ at[k + 1] + t + Len(w) + left = at[Len(G) + 1]
                /\ Section(w, G, at, at[k + 1] + t)
  BY DEF Traffic, InStream
<1>3. Len(G) \in Nat /\ k + 1 \in 1 .. Len(G) /\ k + 1 \in 0 .. Len(G)
  BY <1>1, LenProperties
<1>4. at[(k + 1) + 1] = at[k + 1] + t
  BY <1>2, <1>3 DEF Places
<1>5. at[(k + 1) + 1] + 0 = at[(k + 1) + 1]
  <2>1. (k + 1) + 1 \in 1 .. Len(G) + 1
    BY <1>1, <1>3
  <2> QED
    BY <1>2, <2>1 DEF Places
<1>6. InStream(w, G, k + 1, 0, left)
  BY <1>2, <1>3, <1>4, <1>5 DEF InStream
<1> QED
  BY <1>1, <1>6 DEF Traffic

-----------------------------------------------------------------------------
(***************************************************************************)
(* The calls of a script.                                                  *)
(***************************************************************************)
LEMMA CallFields ==
    ASSUME NEW c \in Call
    PROVE  /\ c.op \in {"send", "receive", "exchange", "pass"}
           /\ c.op # "receive" => c.to \in Node /\ c.len \in Nat
           /\ c.op # "send" => c.from \in Node
<1>1. CASE c \in [op : {"send"}, to : Node, len : Nat]
  BY <1>1
<1>2. CASE c \in [op : {"receive"}, from : Node]
  BY <1>2
<1>3. CASE c \in [op : {"exchange", "pass"}, to : Node, from : Node, len : Nat,
                  in_place : BOOLEAN]
  BY <1>3
<1> QED
  BY <1>1, <1>2, <1>3 DEF Call

LEMMA ScriptFacts ==
    ASSUME LinksTypeOK, NEW a \in Node
    PROVE  /\ Calls(a) \in Seq(Call) /\ Len(Calls(a)) \in Nat /\ ncalls[a] \in Nat
           /\ \A j \in 1 .. Len(Calls(a)) :
                /\ Calls(a)[j] \in Call
                /\ Calls(a)[j].op # "receive" => Calls(a)[j].to # a
                /\ Calls(a)[j].op # "send" => Calls(a)[j].from # a
<1>1. script \in Scripts /\ ncalls[a] \in Nat
  BY DEF LinksTypeOK
<1>2. script.calls \in [Node -> Seq(Call)]
  BY <1>1, ScriptsAssumption
<1>3. Calls(a) \in Seq(Call)
  BY <1>2 DEF Calls
<1>4. Len(Calls(a)) \in Nat /\ DOMAIN Calls(a) = 1 .. Len(Calls(a))
  BY <1>3, LenProperties
<1>5. ASSUME NEW j \in 1 .. Len(Calls(a))
      PROVE  /\ Calls(a)[j] \in Call
             /\ Calls(a)[j].op # "receive" => Calls(a)[j].to # a
             /\ Calls(a)[j].op # "send" => Calls(a)[j].from # a
  <2>1. Calls(a)[j] \in Call
    BY <1>3, ElementOfSeq
  <2>2. j \in DOMAIN script.calls[a]
    BY <1>4 DEF Calls
  <2>3. /\ script.calls[a][j].op # "receive" => script.calls[a][j].to # a
        /\ script.calls[a][j].op # "send" => script.calls[a][j].from # a
    BY <1>1, <2>2, ScriptsAssumption
  <2> QED
    BY <2>1, <2>3 DEF Calls
<1> QED
  BY <1>1, <1>3, <1>4, <1>5

LEMMA ThisCall ==
    ASSUME LinksTypeOK, NEW a \in Node, Waiting(a)
    PROVE  /\ This(a) \in Call /\ ncalls[a] + 1 \in 1 .. Len(Calls(a))
           /\ This(a).op \in {"send", "receive", "exchange", "pass"}
           /\ Sends(a) => /\ This(a).to \in Node /\ This(a).to # a
                          /\ To(a) \in Link /\ To(a)[1] = a /\ To(a)[2] = This(a).to
                          /\ This(a).len \in Nat
                          /\ WholeOf(a) \in Nat /\ WholeOf(a) >= LENGTH_SIZE
           /\ Receives(a) => /\ This(a).from \in Node /\ This(a).from # a
                             /\ From(a) \in Link /\ From(a)[2] = a
                             /\ From(a)[1] = This(a).from
           /\ Delegates(a) => Sends(a) /\ Receives(a) /\ ~InPlace(a) /\ This(a).to # This(a).from
           /\ InPlace(a) => Sends(a) /\ Receives(a)
           /\ Sends(a) \/ Receives(a)
<1>1. ncalls[a] + 1 \in 1 .. Len(Calls(a))
  BY ScriptFacts DEF Waiting
<1>2. /\ This(a) \in Call
      /\ This(a).op # "receive" => This(a).to # a
      /\ This(a).op # "send" => This(a).from # a
  BY <1>1, ScriptFacts DEF This
<1>3. /\ This(a).op \in {"send", "receive", "exchange", "pass"}
      /\ This(a).op # "receive" => This(a).to \in Node /\ This(a).len \in Nat
      /\ This(a).op # "send" => This(a).from \in Node
  BY <1>2, CallFields
<1>4. Sends(a) => /\ This(a).to \in Node /\ This(a).to # a /\ This(a).len \in Nat
                  /\ To(a) \in Link /\ To(a)[1] = a /\ To(a)[2] = This(a).to
  BY <1>2, <1>3 DEF Sends, To, Link
<1>5. Receives(a) => /\ This(a).from \in Node /\ This(a).from # a
                     /\ From(a) \in Link /\ From(a)[2] = a /\ From(a)[1] = This(a).from
  BY <1>2, <1>3 DEF Receives, From, Link
<1>6. Sends(a) => WholeOf(a) \in Nat /\ WholeOf(a) >= LENGTH_SIZE
  BY <1>4, CapacityAssumption DEF WholeOf
<1>7. Delegates(a) => Sends(a) /\ Receives(a) /\ ~InPlace(a) /\ This(a).to # This(a).from
  BY DEF Delegates, Sends, Receives
<1>8. InPlace(a) => Sends(a) /\ Receives(a)
  BY DEF InPlace, Sends, Receives
<1>9. Sends(a) \/ Receives(a)
  BY <1>3 DEF Sends, Receives
<1> QED
  BY <1>1, <1>2, <1>3, <1>4, <1>5, <1>6, <1>7, <1>8, <1>9

(* The stream that is sent. *)
LEMMA PayloadFacts ==
    ASSUME NEW a \in Node, NEW k \in Nat, NEW n \in Nat
    PROVE  /\ Payload(a, k, n) \in Seq(Octet) /\ Len(Payload(a, k, n)) = n
           /\ Whole(Payload(a, k, n)) = LENGTH_SIZE + n
<1>1. PICK s : s = [i \in 1 .. n |-> <<a, k, i>>]
  OBVIOUS
<1>2. \A i \in 1 .. n : <<a, k, i>> \in Octet
  BY DEF Octet
<1>3. s \in [1 .. n -> Octet]
  BY <1>1, <1>2
<1>4. s \in Seq(Octet)
  BY <1>3, SeqDef
<1>5. Len(s) = n
  BY <1>3, <1>4, LenProperties
<1> QED
  BY <1>1, <1>4, <1>5 DEF Payload, Whole

LEMMA CurrentFacts ==
    ASSUME LinksTypeOK, NEW a \in Node, Waiting(a), Sends(a)
    PROVE  /\ Current(a) \in Seq(Octet) /\ Len(Current(a)) = This(a).len
           /\ Whole(Current(a)) = WholeOf(a)
<1>1. This(a).len \in Nat /\ ncalls[a] + 1 \in Nat
  BY ThisCall, ScriptFacts
<1> QED
  BY <1>1, PayloadFacts DEF Current, WholeOf

(* Ranges. *)
LEMMA LinksTyped ==
    ASSUME LinksTypeOK
    PROVE  /\ \A a \in Node :
                /\ written[a] \in Nat /\ received[a] \in Nat
                /\ new_len[a] \in Nat \cup {Unknown}
                /\ data[a] \in Seq(Octet) /\ into[a] \in Seq(Octet)
           /\ \A l \in Link :
                /\ wire[l] \in Seq(Octet) /\ Len(wire[l]) \in Nat
                /\ given[l] \in Seq(Seq(Octet)) /\ Len(given[l]) \in Nat
                /\ got[l] \in Seq(Seq(Octet)) /\ Len(got[l]) \in Nat
                /\ requests[l] \in Nat /\ replies[l] \in Nat
                /\ sending[l] \in Nat \cup {Idle}
<1>1. \A a \in Node : /\ written[a] \in Nat /\ received[a] \in Nat
                      /\ new_len[a] \in Nat \cup {Unknown}
                      /\ data[a] \in Seq(Octet) /\ into[a] \in Seq(Octet)
  BY DEF LinksTypeOK
<1>2. \A l \in Link : /\ wire[l] \in Seq(Octet)
                      /\ given[l] \in Seq(Seq(Octet)) /\ got[l] \in Seq(Seq(Octet))
  BY DEF LinksTypeOK
<1>3. \A l \in Link : /\ requests[l] \in Nat /\ replies[l] \in Nat
                      /\ sending[l] \in Nat \cup {Idle}
  BY DEF LinksTypeOK
<1>4. \A l \in Link : Len(wire[l]) \in Nat /\ Len(given[l]) \in Nat /\ Len(got[l]) \in Nat
  BY <1>2, LenProperties
<1> QED
  BY <1>1, <1>2, <1>3, <1>4

-----------------------------------------------------------------------------
(***************************************************************************)
(* What a step of somebody else leaves alone.                              *)
(***************************************************************************)
SameCall(c) == script' = script /\ ncalls'[c] = ncalls[c]

LEMMA SameCallFacts ==
    ASSUME NEW c, SameCall(c)
    PROVE  /\ Calls(c)' = Calls(c) /\ (Waiting(c)' <=> Waiting(c))
           /\ This(c)' = This(c) /\ To(c)' = To(c) /\ From(c)' = From(c)
           /\ (Sends(c)' <=> Sends(c)) /\ (Receives(c)' <=> Receives(c))
           /\ (InPlace(c)' <=> InPlace(c)) /\ (Delegates(c)' <=> Delegates(c))
           /\ WholeOf(c)' = WholeOf(c) /\ Current(c)' = Current(c)
<1>1. Calls(c)' = Calls(c) /\ (Encrypted(c)' <=> Encrypted(c))
  BY DEF SameCall, Calls, Encrypted
<1>2. (Waiting(c)' <=> Waiting(c)) /\ This(c)' = This(c)
  BY <1>1 DEF SameCall, Waiting, This
<1>3. /\ To(c)' = To(c) /\ From(c)' = From(c)
      /\ (Sends(c)' <=> Sends(c)) /\ (Receives(c)' <=> Receives(c))
      /\ (InPlace(c)' <=> InPlace(c)) /\ WholeOf(c)' = WholeOf(c)
  BY <1>2 DEF To, From, Sends, Receives, InPlace, WholeOf
<1>4. Delegates(c)' <=> Delegates(c)
  BY <1>1, <1>2, <1>3 DEF Delegates
<1>5. Current(c)' = Current(c)
  BY <1>2 DEF SameCall, Current, Payload
<1> QED
  BY <1>1, <1>2, <1>3, <1>4, <1>5

LEMMA LeftKept ==
    ASSUME NEW l, SameCall(l[1]), Busy(l[1])' <=> Busy(l[1]),
           Writing(l) => /\ written'[l[1]] = written[l[1]]
                         /\ requests'[l] = requests[l] /\ sending'[l] = sending[l]
    PROVE  Left(l)' = Left(l)
<1>1. /\ To(l[1])' = To(l[1]) /\ (Sends(l[1])' <=> Sends(l[1]))
      /\ (Delegates(l[1])' <=> Delegates(l[1])) /\ WholeOf(l[1])' = WholeOf(l[1])
  BY SameCallFacts
<1>2. Writing(l)' <=> Writing(l)
  BY <1>1 DEF Writing
<1>3. CASE ~Writing(l)
  BY <1>2, <1>3 DEF Left
<1>4. CASE Writing(l)
  BY <1>1, <1>2, <1>4 DEF Left
<1> QED
  BY <1>3, <1>4

LEMMA TakenKept ==
    ASSUME NEW l, SameCall(l[2]), Busy(l[2])' <=> Busy(l[2]),
           Reading(l) => new_len'[l[2]] = new_len[l[2]] /\ received'[l[2]] = received[l[2]]
    PROVE  Taken(l)' = Taken(l)
<1>1. From(l[2])' = From(l[2]) /\ (Receives(l[2])' <=> Receives(l[2]))
  BY SameCallFacts
<1>2. Reading(l)' <=> Reading(l)
  BY <1>1 DEF Reading
<1> QED
  BY <1>2 DEF Taken

LEMMA TurnKept ==
    ASSUME NEW l, SenderTurn(l), SameCall(l[1]), Delegating(l)' <=> Delegating(l),
           requests'[l] = requests[l], sending'[l] = sending[l], replies'[l] = replies[l]
    PROVE  SenderTurn(l)'
<1>1. WholeOf(l[1])' = WholeOf(l[1])
  BY SameCallFacts
<1> QED
  BY <1>1 DEF SenderTurn

(* A step that only appends to the streams sent to c changes nothing of    *)
(* the call of c.                                                          *)
Aside(c) ==
    /\ SameCall(c) /\ loc'[c] = loc[c]
    /\ written'[c] = written[c] /\ received'[c] = received[c] /\ new_len'[c] = new_len[c]
    /\ data'[c] = data[c] /\ into'[c] = into[c]

Prolonged(l) ==
    /\ Len(given'[l]) \in Nat /\ Len(given[l]) <= Len(given'[l])
    /\ \A i \in 1 .. Len(given[l]) : given'[l][i] = given[l][i]

LEMMA AsideCalling ==
    ASSUME LinksTypeOK, NEW c \in Node, Calling(c), Aside(c),
           \A l \in Link : l[1] = c => given'[l] = given[l],
           \A l \in Link : l[2] = c => got'[l] = got[l] /\ Prolonged(l)
    PROVE  Calling(c)'
<1>1. /\ Calls(c)' = Calls(c) /\ (Waiting(c)' <=> Waiting(c))
      /\ This(c)' = This(c) /\ To(c)' = To(c) /\ From(c)' = From(c)
      /\ (Sends(c)' <=> Sends(c)) /\ (Receives(c)' <=> Receives(c))
      /\ (InPlace(c)' <=> InPlace(c)) /\ (Delegates(c)' <=> Delegates(c))
      /\ WholeOf(c)' = WholeOf(c) /\ Current(c)' = Current(c)
  BY SameCallFacts DEF Aside
<1>2. (ncalls[c] <= Len(Calls(c)))'
  BY <1>1 DEF Calling, Aside, SameCall
<1>3. ASSUME Busy(c)' PROVE Located(c)' /\ (Sends(c) => Outgoing(c)') /\ (Receives(c) => Incoming(c)')
  <2>1. Busy(c) /\ Located(c) /\ Waiting(c)
    BY <1>3 DEF Busy, Aside, Calling, Located
  <2>2. Located(c)'
    BY <1>1, <2>1 DEF Located, Aside
  <2>3. ASSUME Sends(c) PROVE Outgoing(c)'
    <3>1. Outgoing(c) /\ To(c) \in Link /\ To(c)[1] = c
      BY <2>1, <2>3, ThisCall DEF Calling
    <3>2. given'[To(c)] = given[To(c)]
      BY <3>1
    <3>3. Target(c)' = Target(c)
      BY <1>1 DEF Target, Aside
    <3>4. /\ (Len(given[To(c)]) >= 1)'
          /\ (given[To(c)][Len(given[To(c)])] = Current(c))'
      BY <1>1, <3>1, <3>2 DEF Outgoing
    <3>5. (~Delegates(c) =>
             /\ written[c] <= WholeOf(c)
             /\ loc[c] = "send" => written[c] < Target(c)
             /\ loc[c] = "x_send" => written[c] < WholeOf(c)
             /\ loc[c] \in {"x_send", "x_receive"} => LENGTH_SIZE <= written[c]
             /\ loc[c] = "return" => written[c] = WholeOf(c))'
      BY <1>1, <3>1, <3>3 DEF Outgoing, Aside
    <3>6. (loc[c] = "send" \/ ~InPlace(c) => data[c] = Current(c))'
      BY <1>1, <3>1 DEF Outgoing, Aside
    <3>7. (loc[c] # "send" /\ InPlace(c) /\ written[c] < WholeOf(c) =>
             /\ Len(data[c]) = This(c).len
             /\ LENGTH_SIZE + received[c] <= written[c]
             /\ \A i \in 1 .. This(c).len :
                    LENGTH_SIZE + i > written[c] => data[c][i] = Current(c)[i])'
      BY <1>1, <3>1 DEF Outgoing, Aside
    <3> QED
      BY <3>4, <3>5, <3>6, <3>7 DEF Outgoing
  <2>4. ASSUME Receives(c) PROVE Incoming(c)'
    <3>1. Incoming(c) /\ From(c) \in Link /\ From(c)[2] = c
      BY <2>1, <2>4, ThisCall DEF Calling
    <3>2. got'[From(c)] = got[From(c)] /\ Prolonged(From(c))
      BY <3>1
    <3>3. /\ Len(got[From(c)]) \in Nat /\ Len(given[From(c)]) \in Nat
      BY <3>1, LinksTyped
    <3>4. ASSUME new_len[c] # Unknown
          PROVE  Len(got[From(c)]) < Len(given'[From(c)]) /\ Expected(c)' = Expected(c)
      <4>1. Len(got[From(c)]) < Len(given[From(c)])
        BY <3>1, <3>4 DEF Incoming
      <4>2. Len(got[From(c)]) + 1 \in 1 .. Len(given[From(c)])
        BY <3>3, <4>1
      <4>3. given'[From(c)][Len(got[From(c)]) + 1] = given[From(c)][Len(got[From(c)]) + 1]
        BY <3>2, <4>2 DEF Prolonged
      <4>4. Len(got[From(c)]) < Len(given'[From(c)])
        BY <3>2, <3>3, <4>1 DEF Prolonged
      <4>5. Expected(c)' = Expected(c)
        BY <1>1, <3>2, <4>3 DEF Expected
      <4> QED
        BY <4>4, <4>5
    <3>5. (new_len[c] # Unknown =>
             /\ Len(got[From(c)]) < Len(given[From(c)])
             /\ new_len[c] = Len(Expected(c)) /\ received[c] <= new_len[c]
             /\ IF InPlace(c) THEN Arrived(data[c], Expected(c), received[c])
                ELSE Len(into[c]) = received[c] /\ Arrived(into[c], Expected(c), received[c]))'
      <4>1. SUFFICES ASSUME new_len[c] # Unknown
            PROVE (/\ Len(got[From(c)]) < Len(given[From(c)])
                   /\ new_len[c] = Len(Expected(c)) /\ received[c] <= new_len[c]
                   /\ IF InPlace(c) THEN Arrived(data[c], Expected(c), received[c])
                      ELSE Len(into[c]) = received[c] /\ Arrived(into[c], Expected(c), received[c]))'
        BY DEF Aside
      <4>2. /\ new_len[c] = Len(Expected(c)) /\ received[c] <= new_len[c]
            /\ IF InPlace(c) THEN Arrived(data[c], Expected(c), received[c])
               ELSE Len(into[c]) = received[c] /\ Arrived(into[c], Expected(c), received[c])
        BY <3>1, <4>1 DEF Incoming
      <4>3. Len(got[From(c)]) < Len(given'[From(c)]) /\ Expected(c)' = Expected(c)
        BY <3>4, <4>1
      <4>4. (Len(got[From(c)]) < Len(given[From(c)]))'
        BY <1>1, <3>2, <4>3
      <4>5. (new_len[c] = Len(Expected(c)) /\ received[c] <= new_len[c])'
        BY <4>2, <4>3 DEF Aside
      <4>6. (IF InPlace(c) THEN Arrived(data[c], Expected(c), received[c])
             ELSE Len(into[c]) = received[c] /\ Arrived(into[c], Expected(c), received[c]))'
        BY <1>1, <4>2, <4>3 DEF Aside, Arrived
      <4> QED
        BY <4>4, <4>5, <4>6
    <3>6. /\ (loc[c] \in {"send", "length"} => new_len[c] = Unknown)'
          /\ (new_len[c] = Unknown =>
                /\ received[c] = 0 /\ into[c] = <<>>
                /\ loc[c] \notin {"receive", "wait", "return"})'
          /\ (loc[c] = "receive" => received[c] < new_len[c])'
          /\ (loc[c] \in {"wait", "return"} => received[c] = new_len[c])'
      BY <3>1 DEF Incoming, Aside
    <3> QED
      BY <3>5, <3>6 DEF Incoming
  <2> QED
    BY <2>2, <2>3, <2>4
<1> QED
  BY <1>1, <1>2, <1>3 DEF Calling

-----------------------------------------------------------------------------
(***************************************************************************)
(* What the writer has left and the reader has taken are numbers.          *)
(***************************************************************************)
LEMMA LeftRange ==
    ASSUME LinksTypeOK, LinksInv, NEW l \in Link
    PROVE  Left(l) \in Nat /\ (Writing(l) => Waiting(l[1]) /\ Left(l) <= WholeOf(l[1]))
<1>1. l[1] \in Node /\ SenderTurn(l) /\ Calling(l[1])
  BY DEF LinksInv, Link
<1>2. CASE ~Writing(l)
  BY <1>2 DEF Left
<1>3. CASE Writing(l)
  <2>1. Busy(l[1]) /\ Sends(l[1]) /\ Waiting(l[1]) /\ To(l[1]) = l
    BY <1>1, <1>3 DEF Writing, Calling, Located
  <2>2. WholeOf(l[1]) \in Nat /\ Outgoing(l[1])
    BY <1>1, <2>1, ThisCall DEF Calling
  <2>3. CASE ~Delegates(l[1])
    <3>1. Left(l) = WholeOf(l[1]) - written[l[1]]
      BY <1>3, <2>3 DEF Left
    <3>2. written[l[1]] \in Nat /\ written[l[1]] <= WholeOf(l[1])
      BY <1>1, <2>2, <2>3, LinksTyped DEF Outgoing
    <3> QED
      BY <2>1, <2>2, <3>1, <3>2
  <2>4. CASE Delegates(l[1])
    <3>1. CASE requests[l] > 0
      BY <1>3, <2>1, <2>2, <2>4, <3>1 DEF Left
    <3>2. CASE ~(requests[l] > 0) /\ sending[l] # Idle
      <4>1. Left(l) = WholeOf(l[1]) - sending[l]
        BY <1>3, <2>4, <3>2 DEF Left
      <4>2. sending[l] \in Nat /\ sending[l] < WholeOf(l[1])
        BY <1>1, <3>2 DEF SenderTurn
      <4> QED
        BY <2>1, <2>2, <4>1, <4>2
    <3>3. CASE ~(requests[l] > 0) /\ sending[l] = Idle
      <4>1. Left(l) = 0
        BY <1>3, <2>4, <3>3 DEF Left
      <4> QED
        BY <2>1, <2>2, <4>1
    <3> QED
      BY <3>1, <3>2, <3>3
  <2> QED
    BY <2>3, <2>4
<1> QED
  BY <1>2, <1>3

LEMMA TakenRange ==
    ASSUME LinksTypeOK, NEW l \in Link
    PROVE  Taken(l) \in Nat
<1>1. l[2] \in Node
  BY DEF Link
<1>2. received[l[2]] \in Nat /\ LENGTH_SIZE \in Nat
  BY <1>1, LinksTyped, CapacityAssumption
<1> QED
  BY <1>2 DEF Taken

LEMMA TrafficHere ==
    ASSUME LinksTypeOK, LinksInv, NEW l \in Link
    PROVE  Traffic(wire[l], given[l], Len(got[l]), Taken(l), Left(l))
<1>1. Framed(l)
  BY DEF LinksInv
<1>2. wire[l] \in Seq(Octet) /\ given[l] \in Seq(Seq(Octet)) /\ Len(got[l]) \in Nat
  BY LinksTyped
<1>3. Taken(l) \in Nat /\ Left(l) \in Nat
  BY LeftRange, TakenRange
<1> QED
  BY <1>1, <1>2, <1>3 DEF Framed, Traffic

LEMMA TrafficThen ==
    ASSUME NEW l, Traffic(wire'[l], given'[l], Len(got'[l]), Taken(l)', Left(l)')
    PROVE  Framed(l)'
  BY DEF Traffic, Framed

LEMMA FramedKept ==
    ASSUME NEW l, Framed(l), wire'[l] = wire[l], given'[l] = given[l], got'[l] = got[l],
           Taken(l)' = Taken(l), Left(l)' = Left(l)
    PROVE  Framed(l)'
  BY DEF Framed

-----------------------------------------------------------------------------
(***************************************************************************)
(* Steps in the middle of a call of a.                                     *)
(***************************************************************************)
Within(a) ==
    /\ script' = script /\ ncalls' = ncalls /\ given' = given /\ got' = got
    /\ Busy(a) /\ Busy(a)'
    /\ \A c \in Node : c # a => Aside(c)

SendersRest == requests' = requests /\ sending' = sending /\ replies' = replies

LEMMA WithinCalls ==
    ASSUME NEW a, Within(a), NEW c \in Node
    PROVE  SameCall(c) /\ (Busy(c)' <=> Busy(c))
  BY DEF Within, SameCall, Aside, Busy

LEMMA WithinOthers ==
    ASSUME LinksTypeOK, LinksInv, NEW a \in Node, Within(a), Calling(a)'
    PROVE  \A c \in Node : Calling(c)'
<1>1. ASSUME NEW c \in Node, c # a PROVE Calling(c)'
  <2>1. Calling(c) /\ Aside(c)
    BY <1>1 DEF LinksInv, Within
  <2>2. \A l \in Link : given'[l] = given[l] /\ got'[l] = got[l]
    BY DEF Within
  <2>3. \A l \in Link : Prolonged(l)
    BY <2>2, LinksTyped DEF Prolonged
  <2>4. /\ \A l \in Link : l[1] = c => given'[l] = given[l]
        /\ \A l \in Link : l[2] = c => got'[l] = got[l] /\ Prolonged(l)
    BY <2>2, <2>3
  <2> QED
    BY <2>1, <2>4, AsideCalling
<1> QED
  BY <1>1

LEMMA WithinTurns ==
    ASSUME LinksTypeOK, LinksInv, NEW a \in Node, Within(a), SendersRest,
           Delegates(a) => /\ loc[a] \in {"length", "receive", "wait"}
                           /\ loc'[a] \in {"length", "receive", "wait"}
    PROVE  \A l \in Link : SenderTurn(l)'
<1> SUFFICES ASSUME NEW l \in Link PROVE SenderTurn(l)'
  OBVIOUS
<1>1. PICK c \in Node : c = l[1]
  BY DEF Link
<1>2. SameCall(c) /\ (Busy(c)' <=> Busy(c))
  BY WithinCalls
<1>3. /\ To(c)' = To(c) /\ (Sends(c)' <=> Sends(c)) /\ (Delegates(c)' <=> Delegates(c))
  BY <1>2, SameCallFacts
<1>4. Writing(l)' <=> Writing(l)
  BY <1>1, <1>2, <1>3 DEF Writing
<1>5. Delegating(l)' <=> Delegating(l)
  <2>1. CASE c = a
    BY <1>1, <1>3, <1>4, <2>1 DEF Delegating
  <2>2. CASE c # a
    <3>1. loc'[c] = loc[c]
      BY <2>2 DEF Within, Aside
    <3> QED
      BY <1>1, <1>3, <1>4, <3>1 DEF Delegating
  <2> QED
    BY <2>1, <2>2
<1>6. SenderTurn(l)
  BY DEF LinksInv
<1>7. requests'[l] = requests[l] /\ sending'[l] = sending[l] /\ replies'[l] = replies[l]
  BY DEF SendersRest
<1> QED
  BY <1>1, <1>2, <1>5, <1>6, <1>7, TurnKept

(* Nothing goes through a connection. *)
LEMMA WithinStill ==
    ASSUME LinksTypeOK, LinksInv, NEW a \in Node, Within(a),
           requests' = requests, sending' = sending, NEW l \in Link, wire'[l] = wire[l],
           l[1] = a /\ l = To(a) => written'[a] = written[a],
           l[2] = a /\ l = From(a) => new_len'[a] = new_len[a] /\ received'[a] = received[a]
    PROVE  Framed(l)'
<1>1. PICK b \in Node, c \in Node : b = l[1] /\ c = l[2]
  BY DEF Link
<1>2. SameCall(b) /\ (Busy(b)' <=> Busy(b)) /\ SameCall(c) /\ (Busy(c)' <=> Busy(c))
  BY WithinCalls
<1>3. Writing(l) => /\ written'[l[1]] = written[l[1]]
                    /\ requests'[l] = requests[l] /\ sending'[l] = sending[l]
  <2>1. CASE b = a
    BY <1>1, <2>1 DEF Writing
  <2>2. CASE b # a
    BY <1>1, <2>2 DEF Within, Aside
  <2> QED
    BY <2>1, <2>2
<1>4. Left(l)' = Left(l)
  BY <1>1, <1>2, <1>3, LeftKept
<1>5. Reading(l) => new_len'[l[2]] = new_len[l[2]] /\ received'[l[2]] = received[l[2]]
  <2>1. CASE c = a
    BY <1>1, <2>1 DEF Reading
  <2>2. CASE c # a
    BY <1>1, <2>2 DEF Within, Aside
  <2> QED
    BY <2>1, <2>2
<1>6. Taken(l)' = Taken(l)
  BY <1>1, <1>2, <1>5, TakenKept
<1>7. Framed(l) /\ given'[l] = given[l] /\ got'[l] = got[l]
  BY DEF LinksInv, Within
<1> QED
  BY <1>4, <1>6, <1>7, FramedKept

(* The next octets of the stream are written by its player. *)
LEMMA WithinWrite ==
    ASSUME LinksTypeOK, LinksInv, NEW a \in Node, Within(a), SendersRest,
           Sends(a), ~Delegates(a), NEW f \in Seq(Octet),
           \A i \in 1 .. Len(f) : f[i] = Frame(Current(a))[written[a] + i],
           written[a] + Len(f) <= WholeOf(a),
           wire' = [wire EXCEPT ![To(a)] = @ \o f],
           written' = [written EXCEPT ![a] = @ + Len(f)],
           received' = received, new_len' = new_len
    PROVE  \A l \in Link : Framed(l)'
<1>1. Busy(a) /\ Calling(a) /\ Waiting(a) /\ Outgoing(a)
  BY DEF Within, LinksInv, Calling, Located
<1>2. PICK l0 \in Link : l0 = To(a) /\ l0[1] = a
  BY <1>1, ThisCall
<1>3. ASSUME NEW l \in Link, l # l0 PROVE Framed(l)'
  <2>1. wire'[l] = wire[l]
    BY <1>2, <1>3, LinksTyped DEF LinksTypeOK
  <2>2. /\ ~(l[1] = a /\ l = To(a))
        /\ new_len'[a] = new_len[a] /\ received'[a] = received[a]
        /\ requests' = requests /\ sending' = sending
    BY <1>2, <1>3 DEF SendersRest
  <2> QED
    BY <2>1, <2>2, WithinStill
<1>4. Framed(l0)'
  <2>1. PICK b \in Node : b = l0[2] /\ b # a
    BY <1>2 DEF Link
  <2>2. SameCall(a) /\ SameCall(b) /\ (Busy(b)' <=> Busy(b))
    BY WithinCalls
  <2>3. Taken(l0)' = Taken(l0)
    BY <2>1, <2>2, TakenKept
  <2>4. /\ To(a)' = To(a) /\ (Sends(a)' <=> Sends(a)) /\ (Delegates(a)' <=> Delegates(a))
        /\ WholeOf(a)' = WholeOf(a)
    BY <2>2, SameCallFacts
  <2>5. Writing(l0) /\ Writing(l0)'
    BY <1>1, <1>2, <2>4 DEF Writing, Within
  <2>6. Left(l0) = WholeOf(a) - written[a] /\ Left(l0)' = WholeOf(a) - written'[a]
    BY <1>2, <2>4, <2>5 DEF Left
  <2>7. PICK n \in Nat : n = Len(f)
    BY LenProperties
  <2>8. written[a] \in Nat /\ WholeOf(a) \in Nat /\ written'[a] = written[a] + n
    <3>1. written[a] \in Nat /\ WholeOf(a) \in Nat
      BY <1>1, ThisCall, LinksTyped
    <3>2. written' = [written EXCEPT ![a] = written[a] + n]
      BY <2>7
    <3> QED
      BY <3>1, <3>2 DEF LinksTypeOK
  <2>9. /\ Left(l0)' = Left(l0) - n /\ n <= Left(l0) /\ Left(l0) <= WholeOf(a)
        /\ WholeOf(a) - Left(l0) = written[a]
    BY <2>6, <2>7, <2>8
  <2>10. PICK s \in Seq(Octet) : s = Current(a) /\ Whole(s) = WholeOf(a)
    BY <1>1, CurrentFacts
  <2>11. PICK left : left = Left(l0)
    OBVIOUS
  <2>12. /\ Traffic(wire[l0], given[l0], Len(got[l0]), Taken(l0), left)
         /\ Len(given[l0]) >= 1 /\ given[l0][Len(given[l0])] = s /\ left <= Whole(s)
         /\ n <= left /\ Len(f) = n
    BY <1>1, <1>2, <2>7, <2>9, <2>10, <2>11, TrafficHere DEF Outgoing
  <2>13. \A i \in 1 .. n : f[i] = Frame(s)[Whole(s) - left + i]
    <3>1. Whole(s) - left = written[a]
      BY <2>9, <2>10, <2>11
    <3> QED
      BY <2>7, <2>10, <3>1
  <2>14. Traffic(wire[l0] \o f, given[l0], Len(got[l0]), Taken(l0), left - n)
    BY <2>12, <2>13, TrafficWrite
  <2>15. wire'[l0] = wire[l0] \o f
    BY <1>2 DEF LinksTypeOK
  <2>16. given'[l0] = given[l0] /\ got'[l0] = got[l0]
    BY DEF Within
  <2>17. Traffic(wire'[l0], given'[l0], Len(got'[l0]), Taken(l0)', Left(l0)')
    BY <2>3, <2>9, <2>11, <2>14, <2>15, <2>16
  <2> QED
    BY <2>17, TrafficThen
<1> QED
  BY <1>3, <1>4

(* The next octets for the player are read. *)
LEMMA WithinRead ==
    ASSUME LinksTypeOK, LinksInv, NEW a \in Node, Within(a),
           requests' = requests, sending' = sending, written' = written,
           Receives(a), NEW n \in Nat, n <= Len(wire[From(a)]),
           wire' = [wire EXCEPT ![From(a)] = SubSeq(@, n + 1, Len(@))],
           new_len'[a] # Unknown, received'[a] \in Nat,
           LENGTH_SIZE + received'[a] = Taken(From(a)) + n
    PROVE  \A l \in Link : Framed(l)'
<1>1. Busy(a) /\ Calling(a) /\ Waiting(a)
  BY DEF Within, LinksInv, Calling, Located
<1>2. PICK l0 \in Link : l0 = From(a) /\ l0[2] = a
  BY <1>1, ThisCall
<1>3. ASSUME NEW l \in Link, l # l0 PROVE Framed(l)'
  <2>1. wire'[l] = wire[l]
    BY <1>2, <1>3 DEF LinksTypeOK
  <2>2. ~(l[2] = a /\ l = From(a)) /\ written'[a] = written[a]
    BY <1>2, <1>3
  <2> QED
    BY <2>1, <2>2, WithinStill
<1>4. Framed(l0)'
  <2>1. PICK b \in Node : b = l0[1] /\ b # a
    BY <1>2 DEF Link
  <2>2. SameCall(a) /\ SameCall(b) /\ (Busy(b)' <=> Busy(b))
    BY WithinCalls
  <2>3. Left(l0)' = Left(l0)
    BY <2>1, <2>2, LeftKept
  <2>4. From(a)' = From(a) /\ (Receives(a)' <=> Receives(a))
    BY <2>2, SameCallFacts
  <2>5. Reading(l0)'
    BY <1>2, <2>4 DEF Reading, Within
  <2>6. Taken(l0)' = Taken(l0) + n
    BY <1>2, <2>5 DEF Taken
  <2>7. Traffic(wire[l0], given[l0], Len(got[l0]), Taken(l0), Left(l0))
    BY TrafficHere
  <2>8. Traffic(SubSeq(wire[l0], n + 1, Len(wire[l0])), given[l0], Len(got[l0]), Taken(l0) + n, Left(l0))
    BY <1>2, <2>7, TrafficRead
  <2>9. wire'[l0] = SubSeq(wire[l0], n + 1, Len(wire[l0]))
    BY <1>2 DEF LinksTypeOK
  <2>10. given'[l0] = given[l0] /\ got'[l0] = got[l0]
    BY DEF Within
  <2>11. Traffic(wire'[l0], given'[l0], Len(got'[l0]), Taken(l0)', Left(l0)')
    BY <2>3, <2>6, <2>8, <2>9, <2>10
  <2> QED
    BY <2>11, TrafficThen
<1> QED
  BY <1>3, <1>4

(* More of a stream has arrived. *)
LEMMA ArrivedMore ==
    ASSUME NEW s \in Seq(Octet), NEW k \in Nat, NEW e, NEW w \in Seq(Octet),
           Arrived(s, e, k), \A i \in 1 .. Len(w) : w[i] = e[k + i]
    PROVE  /\ Placed(s, k, w) \in Seq(Octet)
           /\ Arrived(Placed(s, k, w), e, k + Len(w))
           /\ Len(s) = k => Len(Placed(s, k, w)) = k + Len(w)
           /\ k + Len(w) <= Len(s) => Len(Placed(s, k, w)) = Len(s)
           /\ \A i \in 1 .. Len(s) : k + Len(w) < i => Placed(s, k, w)[i] = s[i]
<1>1. Len(s) \in Nat /\ Len(w) \in Nat /\ k <= Len(s) /\ \A i \in 1 .. k : s[i] = e[i]
  BY LenProperties DEF Arrived
<1>2. PICK p, n : p = Placed(s, k, w) /\ n = Len(w)
  OBVIOUS
<1>3. /\ p \in Seq(Octet)
      /\ k + n <= Len(s) => Len(p) = Len(s)
      /\ ~(k + n <= Len(s)) => Len(p) = k + n
      /\ \A i \in 1 .. k : p[i] = s[i]
      /\ \A i \in 1 .. n : p[k + i] = w[i]
      /\ \A i \in 1 .. Len(s) : k + n < i => p[i] = s[i]
  BY <1>1, <1>2, PlacedAt
<1>4. n \in Nat /\ Len(p) >= k + n /\ (Len(s) = k => Len(p) = k + n)
  BY <1>1, <1>2, <1>3
<1>5. ASSUME NEW i \in 1 .. k + n PROVE p[i] = e[i]
  <2>1. CASE i <= k
    <3>1. i \in 1 .. k
      BY <1>4, <2>1
    <3> QED
      BY <1>1, <1>3, <3>1
  <2>2. CASE ~(i <= k)
    <3>1. PICK j : j = i - k
      OBVIOUS
    <3>2. j \in 1 .. n /\ k + j = i
      BY <1>4, <2>2, <3>1
    <3> QED
      BY <1>2, <1>3, <3>2
  <2> QED
    BY <2>1, <2>2
<1>6. Arrived(p, e, k + n)
  BY <1>4, <1>5 DEF Arrived
<1> QED
  BY <1>2, <1>3, <1>4, <1>6

(* What a reader that is at the length of a stream finds there. *)
LEMMA LengthFound ==
    ASSUME LinksTypeOK, LinksInv, NEW a \in Node, Busy(a), Receives(a),
           new_len[a] = Unknown, LengthThere(From(a))
    PROVE  /\ Len(got[From(a)]) < Len(given[From(a)])
           /\ TakeLength(From(a)) = Len(Expected(a)) /\ TakeLength(From(a)) \in Nat
           /\ Taken(From(a)) = 0 /\ LENGTH_SIZE <= Len(wire[From(a)])
<1>1. Waiting(a)
  BY DEF LinksInv, Calling, Located
<1>2. PICK l \in Link : l = From(a) /\ l[2] = a
  BY <1>1, ThisCall
<1>3. Taken(l) = 0
  BY <1>2 DEF Taken
<1>4. PICK w, G, k, left : w = wire[l] /\ G = given[l] /\ k = Len(got[l]) /\ left = Left(l)
  OBVIOUS
<1>5. Traffic(w, G, k, 0, left)
  BY <1>3, <1>4, TrafficHere
<1>6. Len(w) \in Nat /\ LENGTH_SIZE <= Len(w) /\ Len(w) >= 1
  <2>1. Len(w) \in Nat /\ LENGTH_SIZE <= Len(w)
    BY <1>2, <1>4, LinksTyped DEF LengthThere
  <2> QED
    BY <2>1, CapacityAssumption
<1>7. k < Len(G) /\ w # <<>> /\ Head(w) = <<Len(G[k + 1]), 1>>
  BY <1>5, <1>6, TrafficHead
<1>8. TakeLength(l) = Len(G[k + 1]) /\ Len(G[k + 1]) \in Nat
  <2>1. TakeLength(l) = Len(G[k + 1])
    BY <1>4, <1>7 DEF TakeLength
  <2>2. k + 1 \in 1 .. Len(G) /\ G \in Seq(Seq(Octet))
    BY <1>2, <1>4, <1>7, LinksTyped
  <2> QED
    BY <2>1, <2>2, StreamLengths
<1> QED
  BY <1>2, <1>3, <1>4, <1>6, <1>7, <1>8 DEF Expected

(* What a reader that is in a stream finds. *)
LEMMA OctetsFound ==
    ASSUME LinksTypeOK, LinksInv, NEW a \in Node, Busy(a), Receives(a),
           new_len[a] # Unknown, NEW n \in Nat, n <= Len(wire[From(a)]),
           received[a] + n <= new_len[a]
    PROVE  /\ SubSeq(wire[From(a)], 1, n) \in Seq(Octet)
           /\ Len(SubSeq(wire[From(a)], 1, n)) = n
           /\ \A i \in 1 .. n : SubSeq(wire[From(a)], 1, n)[i] = Expected(a)[received[a] + i]
<1>1. Waiting(a) /\ Incoming(a)
  BY DEF LinksInv, Calling, Located
<1>2. PICK l \in Link : l = From(a) /\ l[2] = a
  BY <1>1, ThisCall
<1>3. Taken(l) = LENGTH_SIZE + received[a]
  BY <1>2 DEF Taken, Reading
<1>4. PICK w, G, k, t, left :
          w = wire[l] /\ G = given[l] /\ k = Len(got[l]) /\ t = Taken(l) /\ left = Left(l)
  OBVIOUS
<1>5. Traffic(w, G, k, t, left) /\ k < Len(G) /\ Expected(a) = G[k + 1]
  BY <1>1, <1>2, <1>4, TrafficHere DEF Incoming, Expected
<1>6. w \in Seq(Octet) /\ G \in Seq(Seq(Octet)) /\ k \in Nat /\ Len(G) \in Nat /\ n <= Len(w)
      /\ Len(w) \in Nat
  BY <1>2, <1>4, LinksTyped
<1>7. PICK u : u = SubSeq(w, 1, n)
  OBVIOUS
<1>8. u \in Seq(Octet) /\ Len(u) = n /\ \A i \in 1 .. n : u[i] = w[i]
  BY <1>6, <1>7, Prefix
<1>9. PICK s \in Seq(Octet) : s = G[k + 1] /\ Len(s) \in Nat /\ Whole(s) = LENGTH_SIZE + Len(s)
  <2>1. k + 1 \in 1 .. Len(G)
    BY <1>5, <1>6
  <2> QED
    BY <1>6, <2>1, StreamLengths
<1>10. received[a] \in Nat /\ LENGTH_SIZE \in Nat /\ received[a] + n <= Len(s)
  BY <1>1, <1>5, <1>9, LinksTyped, CapacityAssumption DEF Incoming
<1>11. ASSUME NEW i \in 1 .. n PROVE u[i] = s[received[a] + i]
  <2>1. i \in 1 .. Len(w) /\ t + i <= Whole(s) /\ t + i = LENGTH_SIZE + (received[a] + i)
        /\ received[a] + i \in 1 .. Len(s)
    <3>1. PICK r \in Nat, z \in Nat, m \in Nat, e \in Nat :
              r = received[a] /\ z = LENGTH_SIZE /\ m = Len(s) /\ e = Len(w)
      BY <1>6, <1>9, <1>10
    <3>2. t = z + r /\ Whole(s) = z + m /\ r + n <= m /\ n <= e /\ i \in 1 .. n
      BY <1>2, <1>3, <1>4, <1>6, <1>9, <1>10, <3>1
    <3>3. i \in Nat /\ 1 <= i /\ i <= n
      OBVIOUS
    <3>4. i \in 1 .. e /\ r + i \in 1 .. m
      <4>1. r \in Nat /\ m \in Nat /\ e \in Nat /\ n \in Nat /\ r + n <= m /\ n <= e
        BY <3>1, <3>2
      <4>2. i \in 1 .. e
        BY ONLY <3>3, <4>1
      <4>3. r + i \in 1 .. m
        BY ONLY <3>3, <4>1
      <4> QED
        BY <4>2, <4>3
    <3>5. t + i = z + (r + i)
      BY ONLY <3>1, <3>2, <3>3
    <3>6. z + (r + i) <= z + m
      BY ONLY <3>1, <3>3, <3>4
    <3> QED
      BY <3>1, <3>2, <3>4, <3>5, <3>6
  <2>2. w[i] = Frame(s)[t + i]
    BY <1>5, <1>9, <2>1, TrafficFront
  <2>3. PICK j : j = received[a] + i
    OBVIOUS
  <2>4. Frame(s)[LENGTH_SIZE + j] = s[j]
    BY <2>1, <2>3, FrameAt
  <2> QED
    BY <1>8, <2>1, <2>2, <2>3, <2>4
<1> QED
  BY <1>2, <1>4, <1>5, <1>7, <1>8, <1>9, <1>11

-----------------------------------------------------------------------------
(***************************************************************************)
(* The call of a after such a step.                                        *)
(***************************************************************************)
LEMMA OutgoingThen ==
    ASSUME NEW a \in Node, Within(a), Outgoing(a),
           ~Delegates(a) =>
             /\ written'[a] <= WholeOf(a)
             /\ loc'[a] = "send" => written'[a] < Target(a) /\ data'[a] = data[a]
             /\ loc'[a] = "x_send" => written'[a] < WholeOf(a)
             /\ loc'[a] \in {"x_send", "x_receive"} => LENGTH_SIZE <= written'[a]
             /\ loc'[a] = "return" => written'[a] = WholeOf(a),
           loc'[a] = "send" \/ ~InPlace(a) => data'[a] = Current(a),
           loc'[a] # "send" /\ InPlace(a) /\ written'[a] < WholeOf(a) =>
             /\ Len(data'[a]) = This(a).len
             /\ LENGTH_SIZE + received'[a] <= written'[a]
             /\ \A i \in 1 .. This(a).len :
                    LENGTH_SIZE + i > written'[a] => data'[a][i] = Current(a)[i]
    PROVE  Outgoing(a)'
<1>1. /\ This(a)' = This(a) /\ To(a)' = To(a)
      /\ (InPlace(a)' <=> InPlace(a)) /\ (Delegates(a)' <=> Delegates(a))
      /\ WholeOf(a)' = WholeOf(a) /\ Current(a)' = Current(a)
  BY WithinCalls, SameCallFacts
<1>2. (Len(given[To(a)]) >= 1 /\ given[To(a)][Len(given[To(a)])] = Current(a))'
  BY <1>1 DEF Within, Outgoing
<1>3. (~Delegates(a) =>
         /\ written[a] <= WholeOf(a)
         /\ loc[a] = "send" => written[a] < Target(a)
         /\ loc[a] = "x_send" => written[a] < WholeOf(a)
         /\ loc[a] \in {"x_send", "x_receive"} => LENGTH_SIZE <= written[a]
         /\ loc[a] = "return" => written[a] = WholeOf(a))'
  <2>1. data'[a] = data[a] => Target(a)' = Target(a)
    BY <1>1 DEF Target
  <2> QED
    BY <1>1, <2>1
<1>4. (loc[a] = "send" \/ ~InPlace(a) => data[a] = Current(a))'
  BY <1>1
<1>5. (loc[a] # "send" /\ InPlace(a) /\ written[a] < WholeOf(a) =>
         /\ Len(data[a]) = This(a).len
         /\ LENGTH_SIZE + received[a] <= written[a]
         /\ \A i \in 1 .. This(a).len :
                LENGTH_SIZE + i > written[a] => data[a][i] = Current(a)[i])'
  BY <1>1
<1> QED
  BY <1>2, <1>3, <1>4, <1>5 DEF Outgoing

LEMMA IncomingThen ==
    ASSUME NEW a \in Node, Within(a),
           loc'[a] \in {"send", "length"} => new_len'[a] = Unknown,
           new_len'[a] = Unknown =>
             /\ received'[a] = 0 /\ into'[a] = <<>>
             /\ loc'[a] \notin {"receive", "wait", "return"},
           new_len'[a] # Unknown =>
             /\ Len(got[From(a)]) < Len(given[From(a)])
             /\ new_len'[a] = Len(Expected(a)) /\ received'[a] <= new_len'[a]
             /\ IF InPlace(a) THEN Arrived(data'[a], Expected(a), received'[a])
                ELSE Len(into'[a]) = received'[a] /\ Arrived(into'[a], Expected(a), received'[a]),
           loc'[a] = "receive" => received'[a] < new_len'[a],
           loc'[a] \in {"wait", "return"} => received'[a] = new_len'[a]
    PROVE  Incoming(a)'
<1>1. From(a)' = From(a) /\ (InPlace(a)' <=> InPlace(a))
  BY WithinCalls, SameCallFacts
<1>2. given' = given /\ got' = got /\ Expected(a)' = Expected(a)
  BY <1>1 DEF Within, Expected
<1>3. (new_len[a] # Unknown =>
         /\ Len(got[From(a)]) < Len(given[From(a)])
         /\ new_len[a] = Len(Expected(a)) /\ received[a] <= new_len[a]
         /\ IF InPlace(a) THEN Arrived(data[a], Expected(a), received[a])
            ELSE Len(into[a]) = received[a] /\ Arrived(into[a], Expected(a), received[a]))'
  BY <1>1, <1>2 DEF Arrived
<1> QED
  BY <1>3 DEF Incoming

LEMMA CallingThen ==
    ASSUME LinksTypeOK, LinksInv, NEW a \in Node, Within(a),
           loc'[a] = "send" => Sends(a) /\ ~Delegates(a),
           loc'[a] \in {"length", "receive"} => Receives(a) /\ (Delegates(a) \/ ~Sends(a)),
           loc'[a] = "wait" => Delegates(a),
           loc'[a] \in {"x_send", "x_receive"} => Sends(a) /\ Receives(a) /\ ~Delegates(a),
           Sends(a) => Outgoing(a)', Receives(a) => Incoming(a)'
    PROVE  \A c \in Node : Calling(c)'
<1>1. /\ (Sends(a)' <=> Sends(a)) /\ (Receives(a)' <=> Receives(a))
      /\ (Delegates(a)' <=> Delegates(a)) /\ (Waiting(a)' <=> Waiting(a))
      /\ Calls(a)' = Calls(a) /\ ncalls' = ncalls
  BY WithinCalls, SameCallFacts DEF Within
<1>2. Busy(a) /\ Calling(a)
  BY DEF Within, LinksInv
<1>3. Located(a)'
  BY <1>1, <1>2 DEF Located, Calling
<1>4. Calling(a)'
  BY <1>1, <1>2, <1>3 DEF Calling
<1> QED
  BY <1>4, WithinOthers

(* What the first half of a step says. *)
LEMMA AmountsFacts ==
    ASSUME NEW a, NEW most \in Int, NEW n \in Amounts(a, most)
    PROVE  n \in Nat /\ 1 <= n /\ n <= most
  BY DEF Amounts

LEMMA LeastFacts ==
    ASSUME NEW m \in Int, NEW n \in Int
    PROVE  Least(m, n) \in Int /\ Least(m, n) <= m /\ Least(m, n) <= n
  BY DEF Least

LEMMA MidCall ==
    ASSUME LinksTypeOK, LinksInv, NEW a \in Node, Busy(a)
    PROVE  /\ Waiting(a) /\ Calling(a) /\ Located(a)
           /\ Sends(a) => /\ Outgoing(a) /\ To(a) \in Link /\ To(a)[1] = a
                          /\ This(a).len \in Nat /\ WholeOf(a) \in Nat
                          /\ WholeOf(a) = LENGTH_SIZE + This(a).len
                          /\ Current(a) \in Seq(Octet) /\ Len(Current(a)) = This(a).len
                          /\ Whole(Current(a)) = WholeOf(a)
           /\ Receives(a) => Incoming(a) /\ From(a) \in Link /\ From(a)[2] = a
           /\ written[a] \in Nat /\ received[a] \in Nat /\ new_len[a] \in Nat \cup {Unknown}
           /\ data[a] \in Seq(Octet) /\ into[a] \in Seq(Octet)
<1>1. Waiting(a) /\ Calling(a) /\ Located(a)
  BY DEF LinksInv, Calling, Located
<1>2. Sends(a) => /\ Current(a) \in Seq(Octet) /\ Len(Current(a)) = This(a).len
                  /\ Whole(Current(a)) = WholeOf(a)
  BY <1>1, CurrentFacts
<1>3. /\ Sends(a) => /\ To(a) \in Link /\ To(a)[1] = a
                     /\ This(a).len \in Nat /\ WholeOf(a) \in Nat
      /\ Receives(a) => From(a) \in Link /\ From(a)[2] = a
  BY <1>1, ThisCall
<1>4. (Sends(a) => Outgoing(a)) /\ (Receives(a) => Incoming(a))
  BY <1>1 DEF Calling
<1>5. /\ written[a] \in Nat /\ received[a] \in Nat /\ new_len[a] \in Nat \cup {Unknown}
      /\ data[a] \in Seq(Octet) /\ into[a] \in Seq(Octet)
  BY LinksTyped
<1> QED
  BY <1>1, <1>2, <1>3, <1>4, <1>5 DEF WholeOf

-----------------------------------------------------------------------------
(***************************************************************************)
(* The steps, one by one.                                                  *)
(***************************************************************************)
LEMMA SendStep ==
    ASSUME LinksTypeOK, LinksInv, NEW a \in Node, Send(a)
    PROVE  LinksTypeOK' /\ LinksInv'
<1>1. loc[a] = "send" /\ Busy(a)
  BY DEF Send, Busy
<1>2. Sends(a) /\ ~Delegates(a) /\ Outgoing(a)
  BY <1>1, MidCall DEF Located
<1>3. /\ To(a) \in Link /\ This(a).len \in Nat /\ WholeOf(a) \in Nat
      /\ WholeOf(a) = LENGTH_SIZE + This(a).len
      /\ Current(a) \in Seq(Octet) /\ Len(Current(a)) = This(a).len
      /\ Whole(Current(a)) = WholeOf(a) /\ written[a] \in Nat /\ received[a] \in Nat
  BY <1>1, <1>2, MidCall
<1>4. data[a] = Current(a) /\ LENGTH_SIZE \in Nat /\ LENGTH_SIZE >= 1
  BY <1>1, <1>2, CapacityAssumption DEF Outgoing
<1>5. Target(a) = IF This(a).op = "send" THEN WholeOf(a) ELSE LENGTH_SIZE
  BY <1>3, <1>4 DEF Target
<1>6. Target(a) \in Nat /\ Target(a) <= WholeOf(a)
  BY <1>3, <1>4, <1>5
<1>7. PICK n \in Amounts(a, Least(Target(a) - written[a], Room(To(a)))) :
          /\ WriteSome(To(a), Frame(data[a]), written[a], n)
          /\ written' = [written EXCEPT ![a] = @ + n]
          /\ loc' = IF written[a] + n < Target(a) THEN loc
                    ELSE [loc EXCEPT ![a] =
                            IF This(a).op = "send" THEN "return"
                            ELSE IF written[a] + n < LENGTH_SIZE + Len(data[a]) THEN "x_send"
                            ELSE "x_receive"]
  BY DEF Send
<1>8. n \in Nat /\ 1 <= n /\ written[a] + n <= Target(a)
  <2>1. Room(To(a)) \in Int /\ Target(a) - written[a] \in Int
    <3>1. Len(wire[To(a)]) \in Nat
      BY <1>3, LinksTyped
    <3> QED
      BY <1>3, <1>6, <3>1, CapacityAssumption DEF Room
  <2>2. PICK most \in Int : most = Least(Target(a) - written[a], Room(To(a)))
                            /\ most <= Target(a) - written[a]
    BY <2>1, LeastFacts
  <2>3. n \in Nat /\ 1 <= n /\ n <= most
    BY <1>7, <2>2, AmountsFacts
  <2> QED
    BY <1>3, <1>6, <2>2, <2>3
<1>9. /\ script' = script /\ ncalls' = ncalls /\ received' = received /\ new_len' = new_len
      /\ data' = data /\ into' = into /\ given' = given /\ got' = got /\ SendersRest
  BY DEF Send, buffers, senders, history, SendersRest
<1>10. PICK f : f = SubSeq(Frame(data[a]), written[a] + 1, written[a] + n)
  OBVIOUS
<1>11. /\ f \in Seq(Octet) /\ Len(f) = n
       /\ \A i \in 1 .. n : f[i] = Frame(Current(a))[written[a] + i]
  <2>1. PICK s, m : s = Frame(Current(a)) /\ m = written[a]
    OBVIOUS
  <2>5. s \in Seq(Octet) /\ Len(s) = WholeOf(a) /\ m \in Nat
    BY <1>3, <2>1, FrameAt
  <2>6. m + n <= Len(s)
    BY <1>3, <1>6, <1>8, <2>1, <2>5
  <2>2. f = SubSeq(s, m + 1, m + n)
    BY <1>4, <1>10, <2>1
  <2>3. /\ SubSeq(s, m + 1, m + n) \in Seq(Octet) /\ Len(SubSeq(s, m + 1, m + n)) = n
        /\ \A i \in 1 .. n : SubSeq(s, m + 1, m + n)[i] = s[m + i]
    <3>1. s \in Seq(Octet) /\ m \in Nat /\ n \in Nat /\ m + n <= Len(s)
      BY <1>8, <2>5, <2>6
    <3> HIDE <1>7
    <3> QED
      BY <3>1, Slice
  <2>4. f \in Seq(Octet) /\ Len(f) = n /\ \A i \in 1 .. n : f[i] = s[m + i]
    BY <2>2, <2>3
  <2> QED
    BY <2>1, <2>4
<1>12. wire' = [wire EXCEPT ![To(a)] = @ \o f]
  BY <1>7, <1>10 DEF WriteSome
<1>13. written'[a] = written[a] + n /\ \A c \in Node : c # a => written'[c] = written[c]
  BY <1>7 DEF LinksTypeOK
<1>14. /\ \A c \in Node : c # a => loc'[c] = loc[c]
       /\ loc'[a] \in {"send", "return", "x_send", "x_receive"}
       /\ loc'[a] = IF written[a] + n < Target(a) THEN "send"
                    ELSE IF This(a).op = "send" THEN "return"
                    ELSE IF written[a] + n < WholeOf(a) THEN "x_send"
                    ELSE "x_receive"
  BY <1>1, <1>3, <1>4, <1>7 DEF LinksTypeOK
<1>15. Within(a)
  <2>1. Busy(a)'
    BY <1>14 DEF Busy
  <2>2. \A c \in Node : c # a => Aside(c)
    BY <1>9, <1>13, <1>14 DEF Aside, SameCall
  <2> QED
    BY <1>1, <1>9, <2>1, <2>2 DEF Within
<1>16. \A l \in Link : Framed(l)'
  <2>1. \A i \in 1 .. Len(f) : f[i] = Frame(Current(a))[written[a] + i]
    BY <1>11
  <2>2. written[a] + Len(f) <= WholeOf(a) /\ written' = [written EXCEPT ![a] = @ + Len(f)]
    BY <1>3, <1>6, <1>7, <1>8, <1>11
  <2> QED
    BY <1>2, <1>9, <1>11, <1>12, <1>15, <2>1, <2>2, WithinWrite
<1>17. \A l \in Link : SenderTurn(l)'
  BY <1>2, <1>9, <1>15, WithinTurns
<1>18. Outgoing(a)'
  <2>1. /\ written'[a] <= WholeOf(a)
        /\ loc'[a] = "send" => written'[a] < Target(a) /\ data'[a] = data[a]
        /\ loc'[a] = "x_send" => written'[a] < WholeOf(a)
        /\ loc'[a] \in {"x_send", "x_receive"} => LENGTH_SIZE <= written'[a]
        /\ loc'[a] = "return" => written'[a] = WholeOf(a)
    <3>1. written'[a] \in Nat /\ written'[a] <= Target(a) /\ written'[a] <= WholeOf(a)
      BY <1>3, <1>6, <1>8, <1>13
    <3>2. loc'[a] = "send" => written'[a] < Target(a) /\ data'[a] = data[a]
      BY <1>9, <1>13, <1>14
    <3>3. loc'[a] # "send" => written'[a] = Target(a)
      BY <1>6, <1>13, <1>14, <3>1
    <3>4. loc'[a] = "x_send" => written'[a] < WholeOf(a)
      BY <1>13, <1>14
    <3>5. loc'[a] \in {"x_send", "x_receive"} => Target(a) = LENGTH_SIZE
      BY <1>5, <1>14
    <3>6. loc'[a] = "return" => Target(a) = WholeOf(a)
      BY <1>5, <1>14
    <3> QED
      BY <1>4, <3>1, <3>2, <3>3, <3>4, <3>5, <3>6
  <2>2. data'[a] = Current(a)
    BY <1>4, <1>9
  <2>3. loc'[a] # "send" /\ InPlace(a) => LENGTH_SIZE + received'[a] <= written'[a]
    <3>1. SUFFICES ASSUME loc'[a] # "send", InPlace(a)
                   PROVE  LENGTH_SIZE + received'[a] <= written'[a]
      OBVIOUS
    <3>2. Receives(a) /\ This(a).op # "send"
      BY <3>1 DEF InPlace, Receives
    <3>3. received'[a] = 0
      BY <1>1, <1>9, <3>2, MidCall DEF Incoming
    <3>4. ~(written[a] + n < LENGTH_SIZE)
      BY <1>5, <1>14, <3>1, <3>2
    <3> QED
      BY <1>3, <1>4, <1>8, <1>13, <3>3, <3>4
  <2> QED
    BY <1>2, <1>3, <1>15, <2>1, <2>2, <2>3, OutgoingThen
<1>19. Receives(a) => Incoming(a)'
  <2>1. SUFFICES ASSUME Receives(a) PROVE Incoming(a)'
    OBVIOUS
  <2>2. new_len[a] = Unknown /\ received[a] = 0 /\ into[a] = <<>>
    BY <1>1, <2>1, MidCall DEF Incoming
  <2>3. loc'[a] # "return"
    BY <1>14, <2>1 DEF Receives
  <2> QED
    BY <1>9, <1>14, <1>15, <2>2, <2>3, IncomingThen
<1>20. \A c \in Node : Calling(c)'
  <2>1. loc'[a] \in {"x_send", "x_receive"} => Receives(a)
    BY <1>14 DEF Receives
  <2> QED
    BY <1>2, <1>14, <1>15, <1>18, <1>19, <2>1, CallingThen
<1>21. LinksTypeOK'
  <2>1. loc' \in [Node -> {"idle", "send", "length", "receive", "wait", "x_send",
                           "x_receive", "return"}]
    BY <1>7 DEF LinksTypeOK
  <2>2. written' \in [Node -> Nat]
    <3>1. written[a] + n \in Nat
      BY <1>3, <1>8
    <3> QED
      BY <1>7, <3>1 DEF LinksTypeOK
  <2>3. wire' \in [Link -> Seq(Octet)]
    <3>1. wire[To(a)] \o f \in Seq(Octet)
      BY <1>3, <1>11, LinksTyped, ConcatProperties
    <3> QED
      BY <1>12, <3>1 DEF LinksTypeOK
  <2> QED
    BY <1>9, <2>1, <2>2, <2>3 DEF LinksTypeOK, SendersRest
<1> QED
  BY <1>16, <1>17, <1>20, <1>21 DEF LinksInv

LEMMA XSendStep ==
    ASSUME LinksTypeOK, LinksInv, NEW a \in Node, XSend(a)
    PROVE  LinksTypeOK' /\ LinksInv'
<1>1. loc[a] = "x_send" /\ Busy(a)
  BY DEF XSend, Busy
<1>2. Sends(a) /\ Receives(a) /\ ~Delegates(a) /\ Outgoing(a) /\ Incoming(a)
  BY <1>1, MidCall DEF Located
<1>3. /\ To(a) \in Link /\ This(a).len \in Nat /\ WholeOf(a) \in Nat
      /\ WholeOf(a) = LENGTH_SIZE + This(a).len
      /\ Current(a) \in Seq(Octet) /\ Len(Current(a)) = This(a).len
      /\ Whole(Current(a)) = WholeOf(a) /\ written[a] \in Nat /\ received[a] \in Nat
      /\ data[a] \in Seq(Octet)
  BY <1>1, <1>2, MidCall
<1>4. /\ LENGTH_SIZE \in Nat /\ LENGTH_SIZE <= written[a] /\ written[a] < WholeOf(a)
      /\ len(a) = This(a).len /\ sent(a) = written[a] - LENGTH_SIZE
  BY <1>1, <1>2, CapacityAssumption DEF Outgoing, len, sent
<1>5. /\ Len(data[a]) = This(a).len
      /\ \A i \in 1 .. This(a).len : LENGTH_SIZE + i > written[a] => data[a][i] = Current(a)[i]
      /\ ~InPlace(a) => data[a] = Current(a)
      /\ InPlace(a) => LENGTH_SIZE + received[a] <= written[a]
  <2>1. CASE InPlace(a)
    BY <1>1, <1>2, <1>4, <2>1 DEF Outgoing
  <2>2. CASE ~InPlace(a)
    BY <1>2, <1>3, <2>2 DEF Outgoing
  <2> QED
    BY <2>1, <2>2
<1>6. /\ script' = script /\ ncalls' = ncalls /\ received' = received /\ new_len' = new_len
      /\ data' = data /\ into' = into /\ given' = given /\ got' = got /\ SendersRest
      /\ loc' = [loc EXCEPT ![a] = "x_receive"]
  BY DEF XSend, buffers, senders, history, SendersRest
<1>7. PICK n \in Nat :
          /\ n <= len(a) - sent(a)
          /\ \/ /\ wire' = [wire EXCEPT ![To(a)] =
                               @ \o SubSeq(Length(len(a)) \o data[a], written[a] + 1, written[a] + n)]
                /\ written' = [written EXCEPT ![a] = @ + n]
             \/ n = 0 /\ wire' = wire /\ written' = written
  <2>1. PICK most : most = Least(len(a) - sent(a), Room(To(a)))
    OBVIOUS
  <2>2. most \in Int /\ most <= len(a) - sent(a)
    <3>1. Len(wire[To(a)]) \in Nat
      BY <1>3, LinksTyped
    <3>2. Room(To(a)) \in Int /\ len(a) - sent(a) \in Int
      BY <1>3, <1>4, <3>1, CapacityAssumption DEF Room
    <3> QED
      BY <2>1, <3>2, LeastFacts
  <2>3. CASE \E n \in Amounts(a, most) :
                 /\ WriteSome(To(a), Length(len(a)) \o data[a], written[a], n)
                 /\ written' = [written EXCEPT ![a] = @ + n]
    <3>1. PICK n \in Amounts(a, most) :
                 /\ WriteSome(To(a), Length(len(a)) \o data[a], written[a], n)
                 /\ written' = [written EXCEPT ![a] = @ + n]
      BY <2>3
    <3>2. n \in Nat /\ n <= most
      BY <2>2, AmountsFacts
    <3>3. n <= len(a) - sent(a)
      BY <1>3, <1>4, <2>2, <3>2
    <3> QED
      BY <3>1, <3>2, <3>3 DEF WriteSome
  <2>4. CASE wire' = wire /\ written' = written
    <3>1. 0 <= len(a) - sent(a)
      BY <1>3, <1>4
    <3> QED
      BY <2>4, <3>1
  <2> QED
    BY <2>1, <2>3, <2>4 DEF XSend
<1>8. written[a] + n <= WholeOf(a)
  BY <1>3, <1>4, <1>7
<1>9. /\ \A c \in Node : c # a => loc'[c] = loc[c] /\ written'[c] = written[c]
      /\ loc'[a] = "x_receive" /\ written'[a] = written[a] + n
  <2>1. written[a] + 0 = written[a]
    BY <1>3
  <2> QED
    BY <1>6, <1>7, <2>1 DEF LinksTypeOK
<1>10. Within(a)
  <2>1. Busy(a)'
    BY <1>9 DEF Busy
  <2>2. \A c \in Node : c # a => Aside(c)
    BY <1>6, <1>9 DEF Aside, SameCall
  <2> QED
    BY <1>1, <1>6, <2>1, <2>2 DEF Within
<1>11. PICK f : f = SubSeq(Length(len(a)) \o data[a], written[a] + 1, written[a] + n)
  OBVIOUS
<1>12. /\ f \in Seq(Octet) /\ Len(f) = n
       /\ \A i \in 1 .. n : f[i] = Frame(Current(a))[written[a] + i]
  <2>1. PICK s : s = Frame(data[a])
    OBVIOUS
  <2>2. s = Length(len(a)) \o data[a]
    BY <1>4, <1>5, <2>1 DEF Frame
  <2>3. /\ s \in Seq(Octet) /\ Len(s) = WholeOf(a)
        /\ \A i \in 1 .. This(a).len : s[LENGTH_SIZE + i] = data[a][i]
    BY <1>3, <1>5, <2>1, FrameAt DEF Whole
  <2>4. \A i \in 1 .. This(a).len : Frame(Current(a))[LENGTH_SIZE + i] = Current(a)[i]
    BY <1>3, FrameAt
  <2>5. PICK m \in Nat : m = written[a]
    BY <1>3
  <2>6. m + n <= Len(s)
    BY <1>8, <2>3, <2>5
  <2>7. /\ SubSeq(s, m + 1, m + n) \in Seq(Octet) /\ Len(SubSeq(s, m + 1, m + n)) = n
        /\ \A i \in 1 .. n : SubSeq(s, m + 1, m + n)[i] = s[m + i]
    <3>1. s \in Seq(Octet) /\ m \in Nat /\ n \in Nat /\ m + n <= Len(s)
      BY <1>7, <2>3, <2>5, <2>6
    <3> HIDE <1>7
    <3> QED
      BY <3>1, Slice
  <2>8. f \in Seq(Octet) /\ Len(f) = n /\ \A i \in 1 .. n : f[i] = s[m + i]
    BY <1>11, <2>2, <2>5, <2>7
  <2>9. ASSUME NEW i \in 1 .. n PROVE s[m + i] = Frame(Current(a))[m + i]
    <3>1. PICK z \in Nat, e \in Nat : z = LENGTH_SIZE /\ e = This(a).len
      BY <1>3, <1>4
    <3>2. z <= m /\ m + n <= z + e
      BY <1>3, <1>4, <1>8, <2>5, <3>1
    <3>3. i \in Nat /\ 1 <= i /\ i <= n
      OBVIOUS
    <3>4. PICK j : j = m + i - z
      OBVIOUS
    <3>5. j \in 1 .. e /\ z + j = m + i /\ z + j > m
      BY ONLY <3>1, <3>2, <3>3, <3>4, n \in Nat, m \in Nat
    <3>6. data[a][j] = Current(a)[j]
      BY <1>5, <2>5, <3>1, <3>5
    <3> QED
      BY <2>3, <2>4, <3>1, <3>5, <3>6
  <2> QED
    BY <2>5, <2>8, <2>9
<1>13. \A l \in Link : Framed(l)'
  <2>1. CASE /\ wire' = [wire EXCEPT ![To(a)] =
                            @ \o SubSeq(Length(len(a)) \o data[a], written[a] + 1, written[a] + n)]
             /\ written' = [written EXCEPT ![a] = @ + n]
    <3>1. \A i \in 1 .. Len(f) : f[i] = Frame(Current(a))[written[a] + i]
      BY <1>12
    <3>2. /\ written[a] + Len(f) <= WholeOf(a) /\ written' = [written EXCEPT ![a] = @ + Len(f)]
          /\ wire' = [wire EXCEPT ![To(a)] = @ \o f]
      BY <1>8, <1>11, <1>12, <2>1
    <3> QED
      BY <1>2, <1>6, <1>10, <1>12, <3>1, <3>2, WithinWrite
  <2>2. CASE wire' = wire /\ written' = written
    <3>1. requests' = requests /\ sending' = sending
      BY <1>6 DEF SendersRest
    <3> QED
      BY <1>6, <1>10, <2>2, <3>1, WithinStill
  <2> QED
    BY <1>7, <2>1, <2>2
<1>14. \A l \in Link : SenderTurn(l)'
  BY <1>2, <1>6, <1>10, WithinTurns
<1>15. Outgoing(a)'
  <2>1. written'[a] <= WholeOf(a) /\ LENGTH_SIZE <= written'[a] /\ written[a] <= written'[a]
    BY <1>3, <1>4, <1>8, <1>9
  <2>2. ~InPlace(a) => data'[a] = Current(a)
    BY <1>5, <1>6
  <2>3. InPlace(a) =>
           /\ Len(data'[a]) = This(a).len
           /\ LENGTH_SIZE + received'[a] <= written'[a]
           /\ \A i \in 1 .. This(a).len :
                  LENGTH_SIZE + i > written'[a] => data'[a][i] = Current(a)[i]
    BY <1>3, <1>4, <1>5, <1>6, <1>9, <2>1
  <2> QED
    BY <1>2, <1>9, <1>10, <2>1, <2>2, <2>3, OutgoingThen
<1>16. Incoming(a)'
  <2>1. /\ new_len[a] = Unknown => received[a] = 0 /\ into[a] = <<>>
        /\ new_len[a] # Unknown =>
             /\ Len(got[From(a)]) < Len(given[From(a)])
             /\ new_len[a] = Len(Expected(a)) /\ received[a] <= new_len[a]
             /\ IF InPlace(a) THEN Arrived(data[a], Expected(a), received[a])
                ELSE Len(into[a]) = received[a] /\ Arrived(into[a], Expected(a), received[a])
    BY <1>2 DEF Incoming
  <2> QED
    BY <1>6, <1>9, <1>10, <2>1, IncomingThen
<1>17. \A c \in Node : Calling(c)'
  BY <1>2, <1>9, <1>10, <1>15, <1>16, CallingThen
<1>18. LinksTypeOK'
  <2>1. loc' \in [Node -> {"idle", "send", "length", "receive", "wait", "x_send",
                           "x_receive", "return"}]
    BY <1>6 DEF LinksTypeOK
  <2>2. written' \in [Node -> Nat]
    <3>1. written[a] + n \in Nat
      BY <1>3
    <3> QED
      BY <1>7, <3>1 DEF LinksTypeOK
  <2>3. wire' \in [Link -> Seq(Octet)]
    <3>1. wire[To(a)] \o f \in Seq(Octet)
      BY <1>3, <1>12, LinksTyped, ConcatProperties
    <3> QED
      BY <1>7, <1>11, <3>1 DEF LinksTypeOK
  <2> QED
    BY <1>6, <2>1, <2>2, <2>3 DEF LinksTypeOK, SendersRest
<1> QED
  BY <1>13, <1>14, <1>17, <1>18 DEF LinksInv

(* A step that reads. *)
LEMMA ReadStep ==
    ASSUME LinksTypeOK, LinksInv, NEW a \in Node, Within(a), SendersRest,
           written' = written, Receives(a), loc[a] \in {"length", "receive", "x_receive"},
           NEW n \in Nat, n <= Len(wire[From(a)]),
           wire' = [wire EXCEPT ![From(a)] = SubSeq(@, n + 1, Len(@))],
           received'[a] \in Nat, LENGTH_SIZE + received'[a] = Taken(From(a)) + n,
           Len(got[From(a)]) < Len(given[From(a)]),
           new_len'[a] = Len(Expected(a)), new_len'[a] \in Nat, received'[a] <= new_len'[a],
           IF InPlace(a) THEN Arrived(data'[a], Expected(a), received'[a])
           ELSE Len(into'[a]) = received'[a] /\ Arrived(into'[a], Expected(a), received'[a]),
           ~InPlace(a) => data'[a] = data[a],
           InPlace(a) /\ written[a] < WholeOf(a) =>
             /\ Len(data'[a]) = This(a).len
             /\ LENGTH_SIZE + received'[a] <= written[a]
             /\ \A i \in 1 .. This(a).len :
                    LENGTH_SIZE + i > written[a] => data'[a][i] = Current(a)[i],
           loc'[a] = IF loc[a] # "x_receive"
                     THEN IF received'[a] < new_len'[a] THEN "receive" ELSE AfterReceive(a)
                     ELSE IF sent(a) < len(a) THEN "x_send"
                     ELSE IF received'[a] < new_len'[a] THEN "x_receive"
                     ELSE "return"
    PROVE  LinksInv'
<1>1. Busy(a) /\ Located(a)
  BY MidCall DEF Within
<1>2. new_len'[a] # Unknown
  BY DEF Unknown
<1>3. \A l \in Link : Framed(l)'
  BY <1>2, WithinRead DEF SendersRest
<1>4. /\ loc[a] # "x_receive" => /\ Delegates(a) \/ ~Sends(a)
                                 /\ loc'[a] \in {"receive", "wait", "return"}
                                 /\ loc'[a] = "wait" => Delegates(a)
                                 /\ loc'[a] = "return" => ~Delegates(a)
      /\ loc[a] = "x_receive" => /\ Sends(a) /\ ~Delegates(a)
                                 /\ loc'[a] \in {"x_send", "x_receive", "return"}
  BY <1>1 DEF Located, AfterReceive
<1>5. \A l \in Link : SenderTurn(l)'
  <2>1. Delegates(a) => /\ loc[a] \in {"length", "receive", "wait"}
                        /\ loc'[a] \in {"length", "receive", "wait"}
    BY <1>4
  <2> QED
    BY <2>1, WithinTurns
<1>6. Sends(a) => Outgoing(a)'
  <2>1. SUFFICES ASSUME Sends(a) PROVE Outgoing(a)'
    OBVIOUS
  <2>2. Outgoing(a)
    BY <1>1, <2>1, MidCall
  <2>3. ~Delegates(a) =>
           /\ written'[a] <= WholeOf(a)
           /\ loc'[a] = "send" => written'[a] < Target(a) /\ data'[a] = data[a]
           /\ loc'[a] = "x_send" => written'[a] < WholeOf(a)
           /\ loc'[a] \in {"x_send", "x_receive"} => LENGTH_SIZE <= written'[a]
           /\ loc'[a] = "return" => written'[a] = WholeOf(a)
    <3>1. SUFFICES ASSUME ~Delegates(a)
          PROVE  /\ written[a] <= WholeOf(a)
                 /\ loc'[a] # "send"
                 /\ loc'[a] = "x_send" => written[a] < WholeOf(a)
                 /\ loc'[a] \in {"x_send", "x_receive"} => LENGTH_SIZE <= written[a]
                 /\ loc'[a] = "return" => written[a] = WholeOf(a)
      OBVIOUS
    <3>2. loc[a] = "x_receive"
      BY <1>4, <2>1, <3>1
    <3>3. written[a] <= WholeOf(a) /\ LENGTH_SIZE <= written[a]
      BY <2>2, <3>1, <3>2 DEF Outgoing
    <3>4. /\ written[a] \in Nat /\ This(a).len \in Nat /\ LENGTH_SIZE \in Nat
          /\ WholeOf(a) \in Nat /\ WholeOf(a) = LENGTH_SIZE + This(a).len
      BY <1>1, <2>1, MidCall, CapacityAssumption
    <3>5. sent(a) = written[a] - LENGTH_SIZE /\ len(a) = This(a).len
      BY DEF sent, len
    <3>6. (sent(a) < len(a)) <=> (written[a] < WholeOf(a))
      BY <3>4, <3>5
    <3>7. loc'[a] = "x_send" => sent(a) < len(a)
      BY <3>2
    <3>8. loc'[a] = "return" => ~(sent(a) < len(a))
      BY <3>2
    <3>9. ~(written[a] < WholeOf(a)) => written[a] = WholeOf(a)
      BY <3>3, <3>4
    <3> QED
      BY <1>4, <3>2, <3>3, <3>6, <3>7, <3>8, <3>9
  <2>4. loc'[a] # "send"
    BY <1>4
  <2>5. ~InPlace(a) => data'[a] = Current(a)
    BY <2>2 DEF Outgoing
  <2> QED
    BY <2>2, <2>3, <2>4, <2>5, OutgoingThen
<1>7. Incoming(a)'
  <2>1. loc'[a] \notin {"send", "length"}
    BY <1>4
  <2>2. loc'[a] = "receive" => received'[a] < new_len'[a]
    BY <1>4 DEF AfterReceive
  <2>3. loc'[a] \in {"wait", "return"} => received'[a] = new_len'[a]
    <3>1. loc'[a] \in {"wait", "return"} => ~(received'[a] < new_len'[a])
      BY <1>4
    <3> QED
      BY <3>1
  <2> QED
    BY <1>2, <2>1, <2>2, <2>3, IncomingThen
<1>8. \A c \in Node : Calling(c)'
  BY <1>4, <1>6, <1>7, CallingThen
<1> QED
  BY <1>3, <1>5, <1>8 DEF LinksInv

LEMMA LengthStep ==
    ASSUME LinksTypeOK, LinksInv, NEW a \in Node, ReceiveLength(a) \/ XReceiveLength(a)
    PROVE  LinksTypeOK' /\ LinksInv'
<1>1. /\ loc[a] \in {"length", "x_receive"} /\ LengthThere(From(a))
      /\ loc[a] = "x_receive" => new_len[a] = Unknown
      /\ new_len' = [new_len EXCEPT ![a] = TakeLength(From(a))]
      /\ wire' = [wire EXCEPT ![From(a)] = SubSeq(@, LENGTH_SIZE + 1, Len(@))]
      /\ script' = script /\ ncalls' = ncalls /\ written' = written /\ received' = received
      /\ data' = data /\ into' = into /\ given' = given /\ got' = got /\ SendersRest
  BY DEF ReceiveLength, XReceiveLength, buffers, senders, history, SendersRest
<1>2. loc' = [loc EXCEPT ![a] =
                IF loc[a] # "x_receive"
                THEN IF TakeLength(From(a)) > 0 THEN "receive" ELSE AfterReceive(a)
                ELSE IF sent(a) < len(a) THEN "x_send"
                ELSE IF TakeLength(From(a)) = Unknown \/ 0 < TakeLength(From(a)) THEN "x_receive"
                ELSE "return"]
  BY DEF ReceiveLength, XReceiveLength, Continue
<1>3. Busy(a)
  BY <1>1 DEF Busy
<1>4. Receives(a) /\ Incoming(a) /\ From(a) \in Link /\ (loc[a] = "x_receive" => Sends(a))
  BY <1>1, <1>3, MidCall DEF Located
<1>5. new_len[a] = Unknown /\ received[a] = 0 /\ into[a] = <<>>
  BY <1>1, <1>4 DEF Incoming
<1>6. /\ Len(got[From(a)]) < Len(given[From(a)])
      /\ TakeLength(From(a)) = Len(Expected(a)) /\ TakeLength(From(a)) \in Nat
      /\ Taken(From(a)) = 0 /\ LENGTH_SIZE <= Len(wire[From(a)])
  BY <1>1, <1>3, <1>4, <1>5, LengthFound
<1>7. /\ new_len'[a] = TakeLength(From(a)) /\ received'[a] = 0
      /\ \A c \in Node : c # a => new_len'[c] = new_len[c]
  BY <1>1, <1>5 DEF LinksTypeOK
<1>8. /\ loc'[a] = IF loc[a] # "x_receive"
                   THEN IF received'[a] < new_len'[a] THEN "receive" ELSE AfterReceive(a)
                   ELSE IF sent(a) < len(a) THEN "x_send"
                   ELSE IF received'[a] < new_len'[a] THEN "x_receive"
                   ELSE "return"
      /\ \A c \in Node : c # a => loc'[c] = loc[c]
  <2>1. TakeLength(From(a)) # Unknown /\ (TakeLength(From(a)) > 0 <=> received'[a] < new_len'[a])
    BY <1>6, <1>7 DEF Unknown
  <2> QED
    BY <1>2, <1>7, <2>1 DEF LinksTypeOK
<1>9. Within(a)
  <2>1. Busy(a)'
    BY <1>8 DEF Busy, AfterReceive
  <2>2. \A c \in Node : c # a => Aside(c)
    BY <1>1, <1>7, <1>8 DEF Aside, SameCall
  <2> QED
    BY <1>1, <1>3, <2>1, <2>2 DEF Within
<1>10. IF InPlace(a) THEN Arrived(data'[a], Expected(a), received'[a])
       ELSE Len(into'[a]) = received'[a] /\ Arrived(into'[a], Expected(a), received'[a])
  <2>1. \A s \in Seq(Octet) : \A e : Arrived(s, e, 0)
    BY LenProperties DEF Arrived
  <2>2. data[a] \in Seq(Octet) /\ into[a] \in Seq(Octet) /\ Len(into[a]) = 0
    BY <1>5, LinksTyped, EmptySeq
  <2> QED
    BY <1>1, <1>7, <2>1, <2>2
<1>11. InPlace(a) /\ written[a] < WholeOf(a) =>
         /\ Len(data'[a]) = This(a).len
         /\ LENGTH_SIZE + received'[a] <= written[a]
         /\ \A i \in 1 .. This(a).len :
                LENGTH_SIZE + i > written[a] => data'[a][i] = Current(a)[i]
  <2>1. SUFFICES ASSUME InPlace(a), written[a] < WholeOf(a)
        PROVE /\ Len(data[a]) = This(a).len
              /\ LENGTH_SIZE + received[a] <= written[a]
              /\ \A i \in 1 .. This(a).len :
                     LENGTH_SIZE + i > written[a] => data[a][i] = Current(a)[i]
    BY <1>1
  <2>2. Sends(a)
    BY <2>1 DEF InPlace, Sends
  <2>3. Outgoing(a)
    BY <1>3, <2>2, MidCall
  <2> QED
    BY <1>1, <2>1, <2>3 DEF Outgoing
<1>12. LinksInv'
  <2>1. /\ LENGTH_SIZE \in Nat /\ LENGTH_SIZE + received'[a] = Taken(From(a)) + LENGTH_SIZE
        /\ received'[a] <= new_len'[a] /\ received'[a] \in Nat /\ new_len'[a] \in Nat
    BY <1>6, <1>7, CapacityAssumption
  <2>2. loc[a] \in {"length", "receive", "x_receive"} /\ new_len'[a] = Len(Expected(a))
    BY <1>1, <1>6, <1>7
  <2> QED
    BY <1>1, <1>4, <1>6, <1>8, <1>9, <1>10, <1>11, <2>1, <2>2, ReadStep
<1>13. LinksTypeOK'
  <2>1. loc' \in [Node -> {"idle", "send", "length", "receive", "wait", "x_send",
                           "x_receive", "return"}]
    BY <1>2 DEF LinksTypeOK, AfterReceive
  <2>2. new_len' \in [Node -> Nat \cup {Unknown}]
    BY <1>1, <1>6 DEF LinksTypeOK
  <2>3. wire' \in [Link -> Seq(Octet)]
    <3>1. wire[From(a)] \in Seq(Octet) /\ LENGTH_SIZE \in Nat /\ LENGTH_SIZE <= Len(wire[From(a)])
      BY <1>4, <1>6, LinksTyped, CapacityAssumption
    <3>2. SubSeq(wire[From(a)], LENGTH_SIZE + 1, Len(wire[From(a)])) \in Seq(Octet)
      BY <3>1, Suffix
    <3> QED
      BY <1>1, <3>2 DEF LinksTypeOK
  <2> QED
    BY <1>1, <2>1, <2>2, <2>3 DEF LinksTypeOK, SendersRest
<1> QED
  BY <1>12, <1>13

(* How much is read. *)
LEMMA AmountRead ==
    ASSUME LinksTypeOK, LinksInv, NEW a \in Node, Busy(a), Receives(a),
           \/ loc[a] = "receive"
           \/ loc[a] = "x_receive" /\ received[a] < new_len[a],
           NEW n \in Readable(a, From(a), IF loc[a] = "receive" THEN new_len[a] - received[a]
                                          ELSE ToReceive(a))
    PROVE  /\ n \in Nat /\ n <= Len(wire[From(a)])
           /\ new_len[a] \in Nat /\ received[a] + n <= new_len[a]
           /\ InPlace(a) /\ written[a] < WholeOf(a) =>
                LENGTH_SIZE + (received[a] + n) <= written[a]
<1>1. /\ Incoming(a) /\ From(a) \in Link /\ received[a] \in Nat
      /\ new_len[a] \in Nat \cup {Unknown} /\ written[a] \in Nat
  BY MidCall
<1>2. received[a] < new_len[a] /\ new_len[a] \in Nat
  BY <1>1 DEF Incoming, Unknown
<1>3. LENGTH_SIZE \in Nat /\ Len(wire[From(a)]) \in Nat
  BY <1>1, LinksTyped, CapacityAssumption
<1>4. InPlace(a) => /\ Sends(a) /\ ~Delegates(a) /\ loc[a] = "x_receive"
                    /\ This(a).len \in Nat /\ WholeOf(a) = LENGTH_SIZE + This(a).len
  <2>1. InPlace(a) => Sends(a) /\ ~Delegates(a)
    BY DEF InPlace, Sends, Delegates
  <2> QED
    BY <2>1, MidCall DEF Located
<1>5. PICK most : most = IF loc[a] = "receive" THEN new_len[a] - received[a] ELSE ToReceive(a)
  OBVIOUS
<1>6. loc[a] = "x_receive" => Sends(a) /\ This(a).len \in Nat
  BY MidCall DEF Located
<1>7. /\ most \in Int /\ most <= new_len[a] - received[a]
      /\ InPlace(a) /\ written[a] < WholeOf(a) => most <= sent(a) - received[a]
  <2>1. CASE loc[a] = "receive"
    BY <1>1, <1>2, <1>4, <1>5, <2>1
  <2>2. CASE loc[a] = "x_receive" /\ (sent(a) = len(a) \/ ~InPlace(a))
    <3>1. most = new_len[a] - received[a]
      BY <1>5, <2>2 DEF ToReceive
    <3>2. ~(InPlace(a) /\ written[a] < WholeOf(a))
      <4>1. SUFFICES ASSUME InPlace(a), written[a] < WholeOf(a) PROVE FALSE
        OBVIOUS
      <4>2. sent(a) = written[a] - LENGTH_SIZE /\ len(a) = This(a).len /\ sent(a) = len(a)
        BY <2>2, <4>1 DEF sent, len
      <4> QED
        BY <1>1, <1>3, <1>4, <4>1, <4>2
    <3> QED
      BY <1>1, <1>2, <3>1, <3>2
  <2>3. CASE loc[a] = "x_receive" /\ ~(sent(a) = len(a) \/ ~InPlace(a))
    <3>1. most = Least(sent(a), new_len[a]) - received[a]
      BY <1>5, <2>3 DEF ToReceive
    <3>2. sent(a) \in Int
      BY <1>1, <1>3 DEF sent
    <3>3. new_len[a] \in Int
      BY <1>2
    <3>4. PICK m : m = Least(sent(a), new_len[a])
      OBVIOUS
    <3>5. m \in Int /\ m <= sent(a) /\ m <= new_len[a]
      BY <3>2, <3>3, <3>4, LeastFacts
    <3> QED
      BY <1>1, <1>2, <3>1, <3>2, <3>4, <3>5
  <2> QED
    BY <2>1, <2>2, <2>3
<1>8. PICK m : m = Least(most, Len(wire[From(a)]))
  OBVIOUS
<1>9. m \in Int /\ m <= most /\ m <= Len(wire[From(a)])
  <2>1. most \in Int /\ Len(wire[From(a)]) \in Int
    BY <1>3, <1>7
  <2> QED
    BY <1>8, <2>1, LeastFacts
<1>10. n \in Nat /\ n <= m
  <2>1. n \in Amounts(a, m)
    BY <1>5, <1>8 DEF Readable
  <2> QED
    BY <1>9, <2>1, AmountsFacts
<1>12. n <= Len(wire[From(a)]) /\ received[a] + n <= new_len[a]
  BY <1>1, <1>2, <1>3, <1>7, <1>9, <1>10
<1>11. InPlace(a) /\ written[a] < WholeOf(a) => LENGTH_SIZE + (received[a] + n) <= written[a]
  <2>1. SUFFICES ASSUME InPlace(a), written[a] < WholeOf(a)
                 PROVE  LENGTH_SIZE + (received[a] + n) <= written[a]
    OBVIOUS
  <2>2. n <= sent(a) - received[a] /\ sent(a) = written[a] - LENGTH_SIZE
    <3>1. sent(a) = written[a] - LENGTH_SIZE
      BY DEF sent
    <3>2. most <= sent(a) - received[a]
      BY <1>7, <2>1
    <3> QED
      BY <1>1, <1>3, <1>7, <1>9, <1>10, <3>1, <3>2
  <2> QED
    BY <1>1, <1>3, <1>10, <2>2
<1> QED
  BY <1>2, <1>10, <1>11, <1>12

LEMMA OctetsStep ==
    ASSUME LinksTypeOK, LinksInv, NEW a \in Node, Receive(a) \/ XReceive(a)
    PROVE  LinksTypeOK' /\ LinksInv'
<1>1. /\ \/ loc[a] = "receive"
         \/ loc[a] = "x_receive" /\ received[a] < new_len[a]
      /\ script' = script /\ ncalls' = ncalls /\ written' = written /\ new_len' = new_len
      /\ given' = given /\ got' = got /\ SendersRest
  BY DEF Receive, XReceive, senders, history, SendersRest
<1>2. PICK n \in Readable(a, From(a), IF loc[a] = "receive" THEN new_len[a] - received[a]
                                      ELSE ToReceive(a)) :
          /\ ReadSome(a, n)
          /\ loc' = IF loc[a] = "receive"
                    THEN IF received[a] + n < new_len[a] THEN loc
                         ELSE [loc EXCEPT ![a] = AfterReceive(a)]
                    ELSE Continue(a, new_len[a], received[a] + n)
  <2>1. CASE Receive(a)
    BY <2>1 DEF Receive
  <2>2. CASE XReceive(a)
    BY <2>2 DEF XReceive
  <2> QED
    BY <2>1, <2>2
<1>3. Busy(a)
  BY <1>1 DEF Busy
<1>4. /\ Receives(a) /\ Incoming(a) /\ From(a) \in Link /\ (loc[a] = "x_receive" => Sends(a))
      /\ received[a] \in Nat /\ data[a] \in Seq(Octet) /\ into[a] \in Seq(Octet)
  BY <1>1, <1>3, MidCall DEF Located
<1>5. /\ n \in Nat /\ n <= Len(wire[From(a)])
      /\ new_len[a] \in Nat /\ received[a] + n <= new_len[a]
      /\ InPlace(a) /\ written[a] < WholeOf(a) =>
           LENGTH_SIZE + (received[a] + n) <= written[a]
  BY <1>1, <1>2, <1>3, <1>4, AmountRead
<1>6. /\ new_len[a] # Unknown
      /\ Len(got[From(a)]) < Len(given[From(a)])
      /\ new_len[a] = Len(Expected(a))
      /\ IF InPlace(a) THEN Arrived(data[a], Expected(a), received[a])
         ELSE Len(into[a]) = received[a] /\ Arrived(into[a], Expected(a), received[a])
  <2>1. new_len[a] # Unknown
    BY <1>5 DEF Unknown
  <2> QED
    BY <1>4, <2>1 DEF Incoming
<1>7. PICK w : w = SubSeq(wire[From(a)], 1, n)
  OBVIOUS
<1>8. /\ w \in Seq(Octet) /\ Len(w) = n
      /\ \A i \in 1 .. n : w[i] = Expected(a)[received[a] + i]
  BY <1>3, <1>4, <1>5, <1>6, <1>7, OctetsFound
<1>9. /\ IF InPlace(a)
         THEN /\ data' = [data EXCEPT ![a] = Placed(@, received[a], w)]
              /\ into' = into
         ELSE /\ into' = [into EXCEPT ![a] = Placed(@, received[a], w)]
              /\ data' = data
      /\ wire' = [wire EXCEPT ![From(a)] = SubSeq(@, n + 1, Len(@))]
      /\ received' = [received EXCEPT ![a] = @ + n]
  BY <1>2, <1>7 DEF ReadSome
<1>10. /\ received'[a] = received[a] + n /\ received'[a] \in Nat /\ new_len'[a] = new_len[a]
       /\ \A c \in Node : c # a => received'[c] = received[c]
  BY <1>1, <1>4, <1>5, <1>9 DEF LinksTypeOK
<1>11. /\ loc'[a] = IF loc[a] # "x_receive"
                    THEN IF received'[a] < new_len'[a] THEN "receive" ELSE AfterReceive(a)
                    ELSE IF sent(a) < len(a) THEN "x_send"
                    ELSE IF received'[a] < new_len'[a] THEN "x_receive"
                    ELSE "return"
       /\ \A c \in Node : c # a => loc'[c] = loc[c]
  BY <1>1, <1>2, <1>6, <1>10 DEF LinksTypeOK, Continue
<1>12. \A c \in Node : c # a => data'[c] = data[c] /\ into'[c] = into[c]
  BY <1>9 DEF LinksTypeOK
<1>13. Within(a)
  <2>1. Busy(a)'
    BY <1>11 DEF Busy, AfterReceive
  <2>2. \A c \in Node : c # a => Aside(c)
    BY <1>1, <1>10, <1>11, <1>12 DEF Aside, SameCall
  <2> QED
    BY <1>1, <1>3, <2>1, <2>2 DEF Within
<1>14. PICK k, e : k = received[a] /\ e = Expected(a)
  OBVIOUS
<1>15. k \in Nat /\ \A i \in 1 .. Len(w) : w[i] = e[k + i]
  BY <1>4, <1>8, <1>14
<1>16. ASSUME InPlace(a)
       PROVE  /\ Arrived(data'[a], Expected(a), received'[a])
              /\ data' \in [Node -> Seq(Octet)] /\ into' \in [Node -> Seq(Octet)]
              /\ written[a] < WholeOf(a) =>
                   /\ Len(data'[a]) = This(a).len
                   /\ LENGTH_SIZE + received'[a] <= written[a]
                   /\ \A i \in 1 .. This(a).len :
                          LENGTH_SIZE + i > written[a] => data'[a][i] = Current(a)[i]
  <2>1. Arrived(data[a], e, k)
    BY <1>6, <1>14, <1>16
  <2>2. PICK s, p : s = data[a] /\ p = Placed(s, k, w)
    OBVIOUS
  <2>3. /\ p \in Seq(Octet) /\ Arrived(p, e, k + Len(w))
        /\ k + Len(w) <= Len(s) => Len(p) = Len(s)
        /\ \A i \in 1 .. Len(s) : k + Len(w) < i => p[i] = s[i]
    <3>1. s \in Seq(Octet) /\ w \in Seq(Octet) /\ Arrived(s, e, k)
      BY <1>4, <1>8, <2>1, <2>2
    <3> HIDE <1>2
    <3>2. /\ Placed(s, k, w) \in Seq(Octet) /\ Arrived(Placed(s, k, w), e, k + Len(w))
          /\ k + Len(w) <= Len(s) => Len(Placed(s, k, w)) = Len(s)
          /\ \A i \in 1 .. Len(s) : k + Len(w) < i => Placed(s, k, w)[i] = s[i]
      BY <1>15, <3>1, ArrivedMore
    <3> QED
      BY <2>2, <3>2
  <2>4. data' = [data EXCEPT ![a] = p] /\ into' = into /\ data'[a] = p
    BY <1>9, <1>14, <1>16, <2>2 DEF LinksTypeOK
  <2>5. Arrived(data'[a], Expected(a), received'[a])
    BY <1>8, <1>10, <1>14, <2>3, <2>4
  <2>6. ASSUME written[a] < WholeOf(a)
        PROVE  /\ Len(data'[a]) = This(a).len
               /\ LENGTH_SIZE + received'[a] <= written[a]
               /\ \A i \in 1 .. This(a).len :
                      LENGTH_SIZE + i > written[a] => data'[a][i] = Current(a)[i]
    <3>1. Sends(a) /\ loc[a] # "send"
      BY <1>1, <1>16 DEF InPlace, Sends
    <3>2. /\ Len(s) = This(a).len
          /\ \A i \in 1 .. This(a).len : LENGTH_SIZE + i > written[a] => s[i] = Current(a)[i]
      BY <1>3, <1>16, <2>2, <2>6, <3>1, MidCall DEF Outgoing
    <3>3. /\ This(a).len \in Nat /\ WholeOf(a) = LENGTH_SIZE + This(a).len
          /\ written[a] \in Nat /\ LENGTH_SIZE \in Nat
      BY <1>3, <3>1, MidCall, CapacityAssumption
    <3>4. LENGTH_SIZE + (k + n) <= written[a]
      BY <1>5, <1>14, <1>16, <2>6
    <3>5. k + Len(w) <= Len(s)
      BY <1>5, <1>8, <1>15, <2>6, <3>2, <3>3, <3>4
    <3>6. ASSUME NEW i \in 1 .. This(a).len, LENGTH_SIZE + i > written[a]
          PROVE  p[i] = s[i]
      <4>1. k + Len(w) < i
        BY <1>5, <1>8, <1>15, <3>3, <3>4, <3>6
      <4> QED
        BY <2>3, <3>2, <4>1
    <3> QED
      BY <1>10, <1>14, <2>3, <2>4, <3>2, <3>4, <3>5, <3>6
  <2>7. data' \in [Node -> Seq(Octet)] /\ into' \in [Node -> Seq(Octet)]
    BY <2>3, <2>4 DEF LinksTypeOK
  <2> QED
    BY <2>5, <2>6, <2>7
<1>17. ASSUME ~InPlace(a)
       PROVE  /\ Len(into'[a]) = received'[a] /\ Arrived(into'[a], Expected(a), received'[a])
              /\ data' = data
              /\ data' \in [Node -> Seq(Octet)] /\ into' \in [Node -> Seq(Octet)]
  <2>1. Len(into[a]) = k /\ Arrived(into[a], e, k)
    BY <1>6, <1>14, <1>17
  <2>2. PICK s, p : s = into[a] /\ p = Placed(s, k, w)
    OBVIOUS
  <2>3. p \in Seq(Octet) /\ Arrived(p, e, k + Len(w)) /\ (Len(s) = k => Len(p) = k + Len(w))
    <3>1. s \in Seq(Octet) /\ w \in Seq(Octet) /\ Arrived(s, e, k)
      BY <1>4, <1>8, <2>1, <2>2
    <3> HIDE <1>2
    <3>2. /\ Placed(s, k, w) \in Seq(Octet) /\ Arrived(Placed(s, k, w), e, k + Len(w))
          /\ Len(s) = k => Len(Placed(s, k, w)) = k + Len(w)
      BY <1>15, <3>1, ArrivedMore
    <3> QED
      BY <2>2, <3>2
  <2>4. into' = [into EXCEPT ![a] = p] /\ data' = data /\ into'[a] = p
    BY <1>9, <1>14, <1>17, <2>2 DEF LinksTypeOK
  <2>5. Len(into'[a]) = received'[a] /\ Arrived(into'[a], Expected(a), received'[a])
    BY <1>8, <1>10, <1>14, <2>1, <2>2, <2>3, <2>4
  <2>6. data' \in [Node -> Seq(Octet)] /\ into' \in [Node -> Seq(Octet)]
    BY <2>3, <2>4 DEF LinksTypeOK
  <2> QED
    BY <2>4, <2>5, <2>6
<1>18. LinksInv'
  <2>1. /\ LENGTH_SIZE + received'[a] = Taken(From(a)) + n
        /\ received'[a] <= new_len'[a] /\ new_len'[a] \in Nat
    <3>1. Taken(From(a)) = LENGTH_SIZE + received[a]
      BY <1>3, <1>4, <1>6, MidCall DEF Taken, Reading
    <3> QED
      BY <1>4, <1>5, <1>10, <3>1, CapacityAssumption
  <2>2. loc[a] \in {"length", "receive", "x_receive"} /\ new_len'[a] = Len(Expected(a))
    BY <1>1, <1>6, <1>10
  <2>3. /\ wire' = [wire EXCEPT ![From(a)] = SubSeq(@, n + 1, Len(@))]
        /\ received'[a] \in Nat
    BY <1>9, <1>10
  <2>4. /\ IF InPlace(a) THEN Arrived(data'[a], Expected(a), received'[a])
           ELSE Len(into'[a]) = received'[a] /\ Arrived(into'[a], Expected(a), received'[a])
        /\ ~InPlace(a) => data'[a] = data[a]
    BY <1>16, <1>17
  <2> HIDE <1>2
  <2> QED
    BY <1>1, <1>4, <1>5, <1>6, <1>11, <1>13, <1>16, <2>1, <2>2, <2>3, <2>4, ReadStep
<1>19. LinksTypeOK'
  <2>1. loc' \in [Node -> {"idle", "send", "length", "receive", "wait", "x_send",
                           "x_receive", "return"}]
    BY <1>2 DEF LinksTypeOK, AfterReceive, Continue
  <2>2. received' \in [Node -> Nat]
    BY <1>9, <1>10 DEF LinksTypeOK
  <2>3. wire' \in [Link -> Seq(Octet)]
    <3>1. wire[From(a)] \in Seq(Octet)
      BY <1>4, LinksTyped
    <3>2. SubSeq(wire[From(a)], n + 1, Len(wire[From(a)])) \in Seq(Octet)
      BY <1>5, <3>1, Suffix
    <3> QED
      BY <1>9, <3>2 DEF LinksTypeOK
  <2>4. data' \in [Node -> Seq(Octet)] /\ into' \in [Node -> Seq(Octet)]
    BY <1>16, <1>17
  <2> QED
    BY <1>1, <2>1, <2>2, <2>3, <2>4 DEF LinksTypeOK, SendersRest
<1> QED
  BY <1>18, <1>19

LEMMA NothingStep ==
    ASSUME LinksTypeOK, LinksInv, NEW a \in Node, XReceiveNothing(a)
    PROVE  LinksTypeOK' /\ LinksInv'
<1>1. /\ loc[a] = "x_receive" /\ Busy(a) /\ loc' = Continue(a, new_len[a], received[a])
      /\ script' = script /\ ncalls' = ncalls /\ written' = written /\ received' = received
      /\ new_len' = new_len /\ data' = data /\ into' = into /\ wire' = wire /\ SendersRest
      /\ given' = given /\ got' = got
  BY DEF XReceiveNothing, buffers, senders, history, SendersRest, Busy
<1>2. /\ Sends(a) /\ Receives(a) /\ ~Delegates(a) /\ Outgoing(a) /\ Incoming(a)
      /\ written[a] \in Nat /\ received[a] \in Nat /\ new_len[a] \in Nat \cup {Unknown}
      /\ This(a).len \in Nat /\ WholeOf(a) = LENGTH_SIZE + This(a).len
  BY <1>1, MidCall DEF Located
<1>3. /\ loc'[a] = IF sent(a) < len(a) THEN "x_send"
                   ELSE IF new_len[a] = Unknown \/ received[a] < new_len[a] THEN "x_receive"
                   ELSE "return"
      /\ \A c \in Node : c # a => loc'[c] = loc[c]
  BY <1>1 DEF LinksTypeOK, Continue
<1>4. Within(a)
  <2>1. Busy(a)'
    BY <1>3 DEF Busy
  <2>2. \A c \in Node : c # a => Aside(c)
    BY <1>1, <1>3 DEF Aside, SameCall
  <2> QED
    BY <1>1, <2>1, <2>2 DEF Within
<1>5. \A l \in Link : Framed(l)'
  <2>1. requests' = requests /\ sending' = sending
    BY <1>1 DEF SendersRest
  <2> QED
    BY <1>1, <1>4, <2>1, WithinStill
<1>6. \A l \in Link : SenderTurn(l)'
  BY <1>1, <1>2, <1>4, WithinTurns
<1>7. Outgoing(a)'
  <2>1. LENGTH_SIZE <= written[a] /\ written[a] <= WholeOf(a)
    BY <1>1, <1>2 DEF Outgoing
  <2>2. sent(a) = written[a] - LENGTH_SIZE /\ len(a) = This(a).len /\ LENGTH_SIZE \in Nat
    BY CapacityAssumption DEF sent, len
  <2>3. /\ loc'[a] = "x_send" => written[a] < WholeOf(a)
        /\ loc'[a] = "return" => written[a] = WholeOf(a)
    BY <1>2, <1>3, <2>1, <2>2
  <2>4. loc'[a] # "send"
    BY <1>3
  <2>5. ~InPlace(a) => data'[a] = Current(a)
    BY <1>1, <1>2 DEF Outgoing
  <2>6. InPlace(a) /\ written'[a] < WholeOf(a) =>
          /\ Len(data'[a]) = This(a).len
          /\ LENGTH_SIZE + received'[a] <= written'[a]
          /\ \A i \in 1 .. This(a).len :
                 LENGTH_SIZE + i > written'[a] => data'[a][i] = Current(a)[i]
    BY <1>1, <1>2 DEF Outgoing
  <2> QED
    BY <1>1, <1>2, <1>4, <2>1, <2>3, <2>4, <2>5, <2>6, OutgoingThen
<1>8. Incoming(a)'
  <2>1. /\ new_len[a] = Unknown => received[a] = 0 /\ into[a] = <<>>
        /\ new_len[a] # Unknown =>
             /\ Len(got[From(a)]) < Len(given[From(a)])
             /\ new_len[a] = Len(Expected(a)) /\ received[a] <= new_len[a]
             /\ IF InPlace(a) THEN Arrived(data[a], Expected(a), received[a])
                ELSE Len(into[a]) = received[a] /\ Arrived(into[a], Expected(a), received[a])
    BY <1>2 DEF Incoming
  <2>2. loc'[a] = "return" => new_len[a] # Unknown /\ received[a] = new_len[a]
    <3>1. SUFFICES ASSUME loc'[a] = "return" PROVE new_len[a] # Unknown /\ received[a] = new_len[a]
      OBVIOUS
    <3>2. new_len[a] # Unknown /\ ~(received[a] < new_len[a])
      BY <1>3, <3>1
    <3> QED
      BY <1>2, <2>1, <3>2
  <2> QED
    BY <1>1, <1>3, <1>4, <2>1, <2>2, IncomingThen
<1>9. \A c \in Node : Calling(c)'
  BY <1>2, <1>3, <1>4, <1>7, <1>8, CallingThen
<1>10. LinksTypeOK'
  <2>1. loc' \in [Node -> {"idle", "send", "length", "receive", "wait", "x_send",
                           "x_receive", "return"}]
    BY <1>1 DEF LinksTypeOK, Continue
  <2> QED
    BY <1>1, <2>1 DEF LinksTypeOK, SendersRest
<1> QED
  BY <1>5, <1>6, <1>9, <1>10 DEF LinksInv

LEMMA WaitStep ==
    ASSUME LinksTypeOK, LinksInv, NEW a \in Node, Wait(a)
    PROVE  LinksTypeOK' /\ LinksInv'
<1>1. /\ loc[a] = "wait" /\ Busy(a) /\ replies[To(a)] > 0
      /\ loc' = [loc EXCEPT ![a] = "return"] /\ replies' = [replies EXCEPT ![To(a)] = @ - 1]
      /\ script' = script /\ ncalls' = ncalls /\ written' = written /\ received' = received
      /\ new_len' = new_len /\ data' = data /\ into' = into /\ wire' = wire
      /\ requests' = requests /\ sending' = sending /\ given' = given /\ got' = got
  BY DEF Wait, buffers, history, Busy
<1>2. Delegates(a)
  BY <1>1, MidCall DEF Located
<1>3. Sends(a) /\ Receives(a) /\ ~InPlace(a)
  BY <1>2 DEF Delegates, Sends, Receives
<1>4. Outgoing(a) /\ Incoming(a) /\ To(a) \in Link /\ To(a)[1] = a
  BY <1>1, <1>3, MidCall
<1>5. loc'[a] = "return" /\ \A c \in Node : c # a => loc'[c] = loc[c]
  BY <1>1 DEF LinksTypeOK
<1>6. Within(a)
  <2>1. Busy(a)'
    BY <1>5 DEF Busy
  <2>2. \A c \in Node : c # a => Aside(c)
    BY <1>1, <1>5 DEF Aside, SameCall
  <2> QED
    BY <1>1, <2>1, <2>2 DEF Within
<1>7. \A l \in Link : Framed(l)'
  BY <1>1, <1>6, WithinStill
<1>8. PICK l0 \in Link : l0 = To(a) /\ l0[1] = a
  BY <1>4
<1>9. To(a)' = To(a) /\ (Delegates(a)' <=> Delegates(a)) /\ (Sends(a)' <=> Sends(a))
  BY <1>6, WithinCalls, SameCallFacts
<1>10. SenderTurn(l0)'
  <2>1. Delegating(l0) /\ SenderTurn(l0)
    BY <1>1, <1>2, <1>3, <1>8 DEF Delegating, Writing, LinksInv
  <2>2. requests[l0] = 0 /\ sending[l0] = Idle /\ replies[l0] = 1
    BY <1>1, <1>8, <2>1 DEF SenderTurn
  <2>3. ~Delegating(l0)'
    BY <1>5, <1>8 DEF Delegating
  <2>4. replies'[l0] = 0
    BY <1>1, <1>8, <2>2 DEF LinksTypeOK
  <2> QED
    BY <1>1, <2>2, <2>3, <2>4 DEF SenderTurn
<1>11. ASSUME NEW l \in Link, l # l0 PROVE SenderTurn(l)'
  <2>1. PICK c \in Node : c = l[1]
    BY DEF Link
  <2>2. SameCall(c) /\ (Busy(c)' <=> Busy(c))
    BY <1>6, WithinCalls
  <2>3. /\ To(c)' = To(c) /\ (Sends(c)' <=> Sends(c)) /\ (Delegates(c)' <=> Delegates(c))
    BY <2>2, SameCallFacts
  <2>4. Delegating(l)' <=> Delegating(l)
    <3>1. CASE c = a
      BY <1>8, <1>11, <2>1, <2>3, <3>1 DEF Delegating, Writing
    <3>2. CASE c # a
      BY <1>5, <2>1, <2>2, <2>3, <3>2 DEF Delegating, Writing
    <3> QED
      BY <3>1, <3>2
  <2>5. replies'[l] = replies[l]
    BY <1>1, <1>8, <1>11 DEF LinksTypeOK
  <2>6. SenderTurn(l)
    BY DEF LinksInv
  <2> QED
    BY <1>1, <2>1, <2>2, <2>4, <2>5, <2>6, TurnKept
<1>12. Outgoing(a)'
  BY <1>1, <1>2, <1>3, <1>4, <1>6, OutgoingThen DEF Outgoing
<1>13. Incoming(a)'
  <2>1. /\ new_len[a] # Unknown /\ received[a] = new_len[a]
        /\ Len(got[From(a)]) < Len(given[From(a)])
        /\ new_len[a] = Len(Expected(a)) /\ received[a] <= new_len[a]
        /\ IF InPlace(a) THEN Arrived(data[a], Expected(a), received[a])
           ELSE Len(into[a]) = received[a] /\ Arrived(into[a], Expected(a), received[a])
    BY <1>1, <1>4 DEF Incoming
  <2> QED
    BY <1>1, <1>5, <1>6, <2>1, IncomingThen
<1>14. \A c \in Node : Calling(c)'
  BY <1>5, <1>6, <1>12, <1>13, CallingThen
<1>15. LinksTypeOK'
  <2>1. loc' \in [Node -> {"idle", "send", "length", "receive", "wait", "x_send",
                           "x_receive", "return"}]
    BY <1>1 DEF LinksTypeOK
  <2>2. replies' \in [Link -> Nat]
    <3>1. replies[To(a)] \in Nat
      BY <1>4, LinksTyped
    <3>2. replies[To(a)] - 1 \in Nat
      BY <1>1, <3>1
    <3> QED
      BY <1>1, <3>2 DEF LinksTypeOK
  <2> QED
    BY <1>1, <2>1, <2>2 DEF LinksTypeOK
<1> QED
  BY <1>7, <1>10, <1>11, <1>14, <1>15 DEF LinksInv

LEMMA StartStep ==
    ASSUME LinksTypeOK, LinksInv, NEW a \in Node, Start(a)
    PROVE  LinksTypeOK' /\ LinksInv'
<1>1. PICK stream :
          /\ stream = IF Sends(a) THEN Payload(a, ncalls[a] + 1, This(a).len) ELSE <<>>
          /\ data' = [data EXCEPT ![a] = stream]
          /\ given' = IF Sends(a) THEN [given EXCEPT ![To(a)] = Append(@, stream)] ELSE given
  BY DEF Start
<1>2. /\ loc[a] = "idle" /\ Waiting(a) /\ ~Busy(a)
      /\ into' = [into EXCEPT ![a] = <<>>]
      /\ written' = [written EXCEPT ![a] = 0]
      /\ received' = [received EXCEPT ![a] = 0]
      /\ new_len' = [new_len EXCEPT ![a] = Unknown]
      /\ requests' = IF Delegates(a) THEN [requests EXCEPT ![To(a)] = @ + 1] ELSE requests
      /\ loc' = [loc EXCEPT ![a] = FirstStep(a)]
      /\ script' = script /\ ncalls' = ncalls /\ wire' = wire /\ sending' = sending
      /\ replies' = replies /\ got' = got
  BY DEF Start, Busy
<1>3. /\ Sends(a) => /\ To(a) \in Link /\ To(a)[1] = a
                     /\ This(a).len \in Nat /\ WholeOf(a) \in Nat
                     /\ WholeOf(a) = LENGTH_SIZE + This(a).len
      /\ Receives(a) => From(a) \in Link /\ From(a)[2] = a
      /\ Delegates(a) => Sends(a) /\ Receives(a) /\ ~InPlace(a)
      /\ InPlace(a) => Sends(a) /\ Receives(a)
      /\ Sends(a) \/ Receives(a)
  BY <1>2, ThisCall DEF WholeOf
<1>4. /\ Sends(a) => /\ stream = Current(a) /\ Whole(stream) = WholeOf(a)
                     /\ Len(stream) = This(a).len
      /\ stream \in Seq(Octet)
  <2>1. Sends(a) => /\ stream = Current(a) /\ Whole(stream) = WholeOf(a)
                    /\ stream \in Seq(Octet) /\ Len(stream) = This(a).len
    BY <1>1, <1>2, CurrentFacts DEF Current
  <2>2. <<>> \in Seq(Octet)
    BY EmptySeq
  <2> QED
    BY <1>1, <2>1, <2>2
<1>5. /\ \A c \in Node : SameCall(c)
      /\ \A c \in Node : c # a => Aside(c)
      /\ data'[a] = stream /\ into'[a] = <<>> /\ written'[a] = 0 /\ received'[a] = 0
      /\ new_len'[a] = Unknown /\ loc'[a] = FirstStep(a)
  <2>1. \A c \in Node : SameCall(c)
    BY <1>2 DEF SameCall
  <2>2. ASSUME NEW c \in Node, c # a PROVE Aside(c)
    BY <1>1, <1>2, <2>1, <2>2 DEF Aside, LinksTypeOK
  <2>3. /\ data'[a] = stream /\ into'[a] = <<>> /\ written'[a] = 0 /\ received'[a] = 0
        /\ new_len'[a] = Unknown /\ loc'[a] = FirstStep(a)
    BY <1>1, <1>2 DEF LinksTypeOK
  <2> QED
    BY <2>1, <2>2, <2>3
<1>6. /\ This(a)' = This(a) /\ To(a)' = To(a) /\ From(a)' = From(a)
      /\ (Sends(a)' <=> Sends(a)) /\ (Receives(a)' <=> Receives(a))
      /\ (InPlace(a)' <=> InPlace(a)) /\ (Delegates(a)' <=> Delegates(a))
      /\ (Waiting(a)' <=> Waiting(a)) /\ Calls(a)' = Calls(a)
      /\ WholeOf(a)' = WholeOf(a) /\ Current(a)' = Current(a)
  BY <1>5, SameCallFacts
<1>7. /\ loc'[a] \in {"length", "send"} /\ Busy(a)'
      /\ loc'[a] = "length" <=> (Delegates(a) \/ ~Sends(a))
  BY <1>5 DEF FirstStep, Busy
<1>8. ASSUME NEW l \in Link PROVE Taken(l)' = Taken(l)
  <2>1. PICK c \in Node : c = l[2]
    BY DEF Link
  <2>2. CASE c = a
    <3>1. Taken(l) = 0
      BY <1>2, <2>1, <2>2 DEF Taken, Reading
    <3>2. Taken(l)' = 0
      BY <1>5, <2>1, <2>2 DEF Taken
    <3> QED
      BY <3>1, <3>2
  <2>3. CASE c # a
    <3>1. Aside(c) /\ SameCall(c)
      BY <1>5, <2>3
    <3> QED
      BY <2>1, <3>1, TakenKept DEF Aside, Busy
  <2> QED
    BY <2>2, <2>3
<1>9. ASSUME NEW l \in Link, ~(Sends(a) /\ l = To(a))
      PROVE  Left(l)' = Left(l) /\ given'[l] = given[l] /\ requests'[l] = requests[l]
  <2>1. given'[l] = given[l] /\ requests'[l] = requests[l]
    BY <1>1, <1>2, <1>3, <1>9 DEF LinksTypeOK
  <2>2. PICK c \in Node : c = l[1]
    BY DEF Link
  <2>3. CASE c = a
    <3>1. ~Writing(l)
      BY <1>2, <2>2, <2>3 DEF Writing
    <3>2. ~Writing(l)'
      BY <1>6, <1>9, <2>2, <2>3 DEF Writing
    <3> QED
      BY <2>1, <3>1, <3>2 DEF Left
  <2>4. CASE c # a
    <3>1. Aside(c) /\ SameCall(c)
      BY <1>5, <2>4
    <3>2. Left(l)' = Left(l)
      BY <1>2, <2>1, <2>2, <3>1, LeftKept DEF Aside, Busy
    <3> QED
      BY <2>1, <3>2
  <2> QED
    BY <2>3, <2>4
<1>10. ASSUME Sends(a), NEW l \in Link, l = To(a)
       PROVE  Framed(l)' /\ SenderTurn(l)' /\ given'[l] = Append(given[l], stream)
  <2>1. l = To(a) /\ l[1] = a
    BY <1>3, <1>10
  <2>2. given'[l] = Append(given[l], stream)
    BY <1>1, <1>10, <2>1 DEF LinksTypeOK
  <2>3. ~Writing(l) /\ ~Delegating(l) /\ Writing(l)'
    BY <1>2, <1>6, <1>7, <1>10, <2>1 DEF Writing, Delegating
  <2>4. requests[l] = 0 /\ sending[l] = Idle /\ replies[l] = 0
    BY <2>3 DEF LinksInv, SenderTurn
  <2>5. requests'[l] = IF Delegates(a) THEN 1 ELSE 0
    BY <1>2, <2>1, <2>4 DEF LinksTypeOK
  <2>6. Left(l) = 0
    BY <2>3 DEF Left
  <2>7. Left(l)' = WholeOf(a)
    <3>1. CASE Delegates(a)
      BY <1>6, <2>1, <2>3, <2>5, <3>1 DEF Left
    <3>2. CASE ~Delegates(a)
      <4>1. Left(l)' = WholeOf(a) - written'[a]
        BY <1>6, <2>1, <2>3, <3>2 DEF Left
      <4> QED
        BY <1>3, <1>5, <1>10, <4>1
    <3> QED
      BY <3>1, <3>2
  <2>8. PICK w, G, k, t : w = wire[l] /\ G = given[l] /\ k = Len(got[l]) /\ t = Taken(l)
    OBVIOUS
  <2>9. Traffic(w, G, k, t, 0)
    BY <2>6, <2>8, TrafficHere
  <2>10. Traffic(w, Append(G, stream), k, t, Whole(stream))
    BY <1>4, <2>9, TrafficPut
  <2>11. Taken(l)' = t
    BY <1>8, <2>8
  <2>12. Traffic(wire'[l], given'[l], Len(got'[l]), Taken(l)', Left(l)')
    BY <1>2, <1>4, <1>10, <2>2, <2>7, <2>8, <2>10, <2>11
  <2>13. Framed(l)'
    BY <2>12, TrafficThen
  <2>14. SenderTurn(l)'
    <3>1. Delegating(l)' <=> Delegates(a)
      BY <1>6, <1>7, <2>1, <2>3 DEF Delegating
    <3>2. sending'[l] = Idle /\ replies'[l] = 0
      BY <1>2, <2>4
    <3> QED
      BY <2>5, <3>1, <3>2 DEF SenderTurn
  <2> QED
    BY <2>2, <2>13, <2>14
<1>11. \A l \in Link : Framed(l)'
  <2>1. ASSUME NEW l \in Link, ~(Sends(a) /\ l = To(a)) PROVE Framed(l)'
    <3>1. Framed(l)
      BY DEF LinksInv
    <3>2. Left(l)' = Left(l) /\ given'[l] = given[l] /\ Taken(l)' = Taken(l)
      BY <1>8, <1>9, <2>1
    <3> QED
      BY <1>2, <3>1, <3>2, FramedKept
  <2> QED
    BY <1>10, <2>1
<1>12. \A l \in Link : SenderTurn(l)'
  <2>1. ASSUME NEW l \in Link, ~(Sends(a) /\ l = To(a)) PROVE SenderTurn(l)'
    <3>1. PICK c \in Node : c = l[1]
      BY DEF Link
    <3>2. SameCall(c)
      BY <1>5
    <3>3. Delegating(l)' <=> Delegating(l)
      <4>1. CASE c = a
        <5>1. ~Writing(l)
          BY <1>2, <3>1, <4>1 DEF Writing
        <5>2. ~Writing(l)'
          BY <1>6, <2>1, <3>1, <4>1 DEF Writing
        <5> QED
          BY <5>1, <5>2 DEF Delegating
      <4>2. CASE c # a
        <5>1. Aside(c)
          BY <1>5, <4>2
        <5>2. /\ To(c)' = To(c) /\ (Sends(c)' <=> Sends(c)) /\ (Delegates(c)' <=> Delegates(c))
          BY <3>2, SameCallFacts
        <5> QED
          BY <3>1, <5>1, <5>2 DEF Delegating, Writing, Busy, Aside
      <4> QED
        BY <4>1, <4>2
    <3>4. SenderTurn(l)
      BY DEF LinksInv
    <3>5. requests'[l] = requests[l]
      BY <1>9, <2>1
    <3> QED
      BY <1>2, <3>1, <3>2, <3>3, <3>4, <3>5, TurnKept
  <2> QED
    BY <1>10, <2>1
<1>13. \A l \in Link : Prolonged(l)
  <2>1. ASSUME NEW l \in Link PROVE Prolonged(l)
    <3>1. CASE ~(Sends(a) /\ l = To(a))
      BY <1>9, <3>1, LinksTyped DEF Prolonged
    <3>2. CASE Sends(a) /\ l = To(a)
      <4>1. given'[l] = Append(given[l], stream)
        BY <1>10, <3>2
      <4>2. PICK G : G = given[l]
        OBVIOUS
      <4>3. G \in Seq(Seq(Octet)) /\ Len(G) \in Nat
        BY <4>2, LinksTyped
      <4>4. Len(Append(G, stream)) = Len(G) + 1 /\ \A i \in 1 .. Len(G) : Append(G, stream)[i] = G[i]
        BY <1>4, <4>3, Appended
      <4> QED
        BY <4>1, <4>2, <4>3, <4>4 DEF Prolonged
    <3> QED
      BY <3>1, <3>2
  <2> QED
    BY <2>1
<1>14. ASSUME NEW c \in Node, c # a PROVE Calling(c)'
  <2>1. Calling(c) /\ Aside(c)
    BY <1>5, <1>14 DEF LinksInv
  <2>2. \A l \in Link : l[1] = c => given'[l] = given[l]
    BY <1>3, <1>9, <1>14
  <2>3. \A l \in Link : l[2] = c => got'[l] = got[l] /\ Prolonged(l)
    BY <1>2, <1>13
  <2> QED
    BY <2>1, <2>2, <2>3, AsideCalling
<1>15. Calling(a)'
  <2>1. (ncalls[a] <= Len(Calls(a)))'
    BY <1>2, <1>6 DEF LinksInv, Calling
  <2>2. Located(a)'
    BY <1>2, <1>3, <1>6, <1>7 DEF Located
  <2>3. ASSUME Sends(a) PROVE Outgoing(a)'
    <3>1. PICK G : G = given[To(a)]
      OBVIOUS
    <3>2. G \in Seq(Seq(Octet)) /\ Len(G) \in Nat
      BY <1>3, <2>3, <3>1, LinksTyped
    <3>3. /\ Len(Append(G, stream)) = Len(G) + 1 /\ Append(G, stream)[Len(G) + 1] = stream
      BY <1>4, <3>2, Appended
    <3>4. given'[To(a)] = Append(G, stream)
      BY <1>3, <1>10, <2>3, <3>1
    <3>5. (Len(given[To(a)]) >= 1 /\ given[To(a)][Len(given[To(a)])] = Current(a))'
      BY <1>4, <1>6, <2>3, <3>2, <3>3, <3>4
    <3>6. Target(a)' \in Nat /\ Target(a)' > 0
      <4>1. Len(data'[a]) \in Nat /\ LENGTH_SIZE \in Nat \ {0}
        BY <1>4, <1>5, LenProperties, CapacityAssumption
      <4> QED
        BY <4>1 DEF Target
    <3>7. data'[a] = Current(a)
      BY <1>4, <1>5, <2>3
    <3>8. (~Delegates(a) =>
             /\ written[a] <= WholeOf(a)
             /\ loc[a] = "send" => written[a] < Target(a)
             /\ loc[a] = "x_send" => written[a] < WholeOf(a)
             /\ loc[a] \in {"x_send", "x_receive"} => LENGTH_SIZE <= written[a]
             /\ loc[a] = "return" => written[a] = WholeOf(a))'
      BY <1>3, <1>5, <1>6, <1>7, <2>3, <3>6
    <3>9. (loc[a] = "send" \/ ~InPlace(a) => data[a] = Current(a))'
      BY <1>6, <3>7
    <3>10. (loc[a] # "send" /\ InPlace(a) /\ written[a] < WholeOf(a) =>
             /\ Len(data[a]) = This(a).len
             /\ LENGTH_SIZE + received[a] <= written[a]
             /\ \A i \in 1 .. This(a).len :
                    LENGTH_SIZE + i > written[a] => data[a][i] = Current(a)[i])'
      <4>1. ~(loc'[a] # "send" /\ InPlace(a))
        BY <1>3, <1>7
      <4> QED
        BY <1>6, <4>1
    <3> QED
      BY <3>5, <3>8, <3>9, <3>10 DEF Outgoing
  <2>4. Incoming(a)'
    BY <1>5, <1>7 DEF Incoming
  <2> QED
    BY <1>6, <2>1, <2>2, <2>3, <2>4 DEF Calling
<1>16. LinksTypeOK'
  <2>1. loc' \in [Node -> {"idle", "send", "length", "receive", "wait", "x_send",
                           "x_receive", "return"}]
    BY <1>2 DEF LinksTypeOK, FirstStep
  <2>2. requests' \in [Link -> Nat]
    <3>1. Delegates(a) => requests[To(a)] + 1 \in Nat
      BY <1>3, LinksTyped
    <3> QED
      BY <1>2, <3>1 DEF LinksTypeOK
  <2>3. given' \in [Link -> Seq(Seq(Octet))]
    <3>1. Sends(a) => Append(given[To(a)], stream) \in Seq(Seq(Octet))
      BY <1>3, <1>4, LinksTyped, Appended
    <3> QED
      BY <1>1, <3>1 DEF LinksTypeOK
  <2>4. /\ data' \in [Node -> Seq(Octet)] /\ into' \in [Node -> Seq(Octet)]
        /\ written' \in [Node -> Nat] /\ received' \in [Node -> Nat]
        /\ new_len' \in [Node -> Nat \cup {Unknown}]
    <3>1. <<>> \in Seq(Octet)
      BY EmptySeq
    <3> QED
      BY <1>1, <1>2, <1>4, <3>1 DEF LinksTypeOK
  <2> QED
    BY <1>2, <2>1, <2>2, <2>3, <2>4 DEF LinksTypeOK
<1> QED
  BY <1>11, <1>12, <1>14, <1>15, <1>16 DEF LinksInv

(* A call returns the stream that its peer has given to it. *)
Returned(a) == IF InPlace(a) THEN SubSeq(data[a], 1, new_len[a]) ELSE into[a]

LEMMA ReturnedStream ==
    ASSUME LinksTypeOK, LinksInv, NEW a \in Node, loc[a] = "return", Receives(a)
    PROVE  /\ Len(got[From(a)]) < Len(given[From(a)])
           /\ Returned(a) = Expected(a) /\ Expected(a) \in Seq(Octet)
           /\ Taken(From(a)) = Whole(Expected(a))
<1>1. /\ Busy(a) /\ Incoming(a) /\ From(a) \in Link /\ From(a)[2] = a
      /\ data[a] \in Seq(Octet) /\ into[a] \in Seq(Octet) /\ received[a] \in Nat
  <2>1. Busy(a)
    BY DEF Busy
  <2> QED
    BY <2>1, MidCall
<1>2. /\ new_len[a] # Unknown /\ received[a] = new_len[a]
      /\ Len(got[From(a)]) < Len(given[From(a)]) /\ new_len[a] = Len(Expected(a))
      /\ IF InPlace(a) THEN Arrived(data[a], Expected(a), received[a])
         ELSE Len(into[a]) = received[a] /\ Arrived(into[a], Expected(a), received[a])
  BY <1>1 DEF Incoming
<1>3. PICK e : e = Expected(a)
  OBVIOUS
<1>4. e \in Seq(Octet) /\ Whole(e) = LENGTH_SIZE + Len(e)
  <2>1. PICK G, k : G = given[From(a)] /\ k = Len(got[From(a)])
    OBVIOUS
  <2>2. G \in Seq(Seq(Octet)) /\ Len(G) \in Nat /\ k \in Nat /\ k < Len(G) /\ e = G[k + 1]
    BY <1>1, <1>2, <1>3, <2>1, LinksTyped DEF Expected
  <2>3. k + 1 \in 1 .. Len(G)
    BY <2>2
  <2> QED
    BY <2>2, <2>3, StreamLengths
<1>5. Taken(From(a)) = Whole(e)
  <2>1. Reading(From(a))
    BY <1>1 DEF Reading
  <2> QED
    BY <1>1, <1>2, <1>3, <1>4, <2>1 DEF Taken
<1>6. PICK n \in Nat : n = received[a] /\ n = Len(e)
  BY <1>1, <1>2, <1>3
<1>7. PICK v : v = Returned(a)
  OBVIOUS
<1>8. v \in Seq(Octet) /\ Len(v) = n /\ \A i \in 1 .. n : v[i] = e[i]
  <2>1. CASE InPlace(a)
    <3>1. PICK s : s = data[a]
      OBVIOUS
    <3>2. s \in Seq(Octet) /\ n <= Len(s) /\ \A i \in 1 .. n : s[i] = e[i]
      <4>1. Len(s) \in Nat
        BY <1>1, <3>1, LenProperties
      <4> QED
        BY <1>1, <1>2, <1>3, <1>6, <2>1, <3>1, <4>1 DEF Arrived
    <3>3. n \in Nat /\ v = SubSeq(s, 1, n)
      BY <1>2, <1>6, <1>7, <2>1, <3>1 DEF Returned
    <3>4. /\ SubSeq(s, 1, n) \in Seq(Octet) /\ Len(SubSeq(s, 1, n)) = n
          /\ \A i \in 1 .. n : SubSeq(s, 1, n)[i] = s[i]
      BY <3>2, <3>3, Prefix
    <3> QED
      BY <3>2, <3>3, <3>4
  <2>2. CASE ~InPlace(a)
    BY <1>1, <1>2, <1>3, <1>6, <1>7, <2>2 DEF Returned, Arrived
  <2> QED
    BY <2>1, <2>2
<1>9. v = e
  BY <1>4, <1>6, <1>8, SeqEqual
<1> QED
  BY <1>2, <1>3, <1>4, <1>5, <1>7, <1>9

LEMMA ReturnStep ==
    ASSUME LinksTypeOK, LinksInv, NEW a \in Node, Return(a)
    PROVE  LinksTypeOK' /\ LinksInv'
<1>1. /\ loc[a] = "return" /\ Busy(a)
      /\ loc' = [loc EXCEPT ![a] = "idle"] /\ ncalls' = [ncalls EXCEPT ![a] = @ + 1]
      /\ script' = script /\ written' = written /\ received' = received /\ new_len' = new_len
      /\ data' = data /\ into' = into /\ wire' = wire /\ SendersRest /\ given' = given
  BY DEF Return, buffers, senders, SendersRest, Busy
<1>2. got' = IF Receives(a) THEN [got EXCEPT ![From(a)] = Append(@, Returned(a))] ELSE got
  BY DEF Return, Returned
<1>3. /\ Waiting(a) /\ Calling(a) /\ ncalls[a] \in Nat
      /\ Sends(a) => Outgoing(a) /\ WholeOf(a) \in Nat /\ written[a] \in Nat
      /\ Receives(a) => From(a) \in Link /\ From(a)[2] = a
  BY <1>1, MidCall, ScriptFacts
<1>4. /\ \A c \in Node : c # a => Aside(c) /\ SameCall(c)
      /\ ~Busy(a)' /\ ncalls'[a] = ncalls[a] + 1
  BY <1>1 DEF Aside, SameCall, Busy, LinksTypeOK
<1>5. ASSUME NEW l \in Link, l[1] = a
      PROVE  ~Delegating(l) /\ ~Delegating(l)' /\ Left(l)' = Left(l)
  <2>1. ~Delegating(l)
    BY <1>1, <1>5 DEF Delegating
  <2>2. ~Delegating(l)' /\ ~Writing(l)'
    BY <1>4, <1>5 DEF Delegating, Writing
  <2>3. Left(l)' = 0
    BY <2>2 DEF Left
  <2>4. Left(l) = 0
    <3>1. CASE ~Writing(l)
      BY <3>1 DEF Left
    <3>2. CASE Writing(l) /\ ~Delegates(a)
      <4>1. Left(l) = WholeOf(a) - written[a] /\ Sends(a)
        BY <1>5, <3>2 DEF Left, Writing
      <4>2. written[a] = WholeOf(a)
        BY <1>1, <1>3, <3>2, <4>1 DEF Outgoing
      <4> QED
        BY <1>3, <4>1, <4>2
    <3>3. CASE Writing(l) /\ Delegates(a)
      <4>1. requests[l] = 0 /\ sending[l] = Idle
        BY <2>1 DEF LinksInv, SenderTurn
      <4> QED
        BY <1>5, <3>3, <4>1 DEF Left
    <3> QED
      BY <3>1, <3>2, <3>3
  <2> QED
    BY <2>1, <2>2, <2>3, <2>4
<1>6. ASSUME NEW l \in Link, l[1] # a
      PROVE  (Delegating(l)' <=> Delegating(l)) /\ Left(l)' = Left(l)
  <2>1. PICK c \in Node : c = l[1] /\ c # a
    BY <1>6 DEF Link
  <2>2. Aside(c) /\ SameCall(c)
    BY <1>4, <2>1
  <2>3. /\ To(c)' = To(c) /\ (Sends(c)' <=> Sends(c)) /\ (Delegates(c)' <=> Delegates(c))
    BY <2>2, SameCallFacts
  <2>4. Delegating(l)' <=> Delegating(l)
    BY <2>1, <2>2, <2>3 DEF Delegating, Writing, Busy, Aside
  <2>5. Left(l)' = Left(l)
    BY <1>1, <2>1, <2>2, LeftKept DEF Aside, Busy, SendersRest
  <2> QED
    BY <2>4, <2>5
<1>7. \A l \in Link : Left(l)' = Left(l)
  BY <1>5, <1>6
<1>8. \A l \in Link : SenderTurn(l)'
  <2>1. ASSUME NEW l \in Link PROVE SenderTurn(l)'
    <3>1. SenderTurn(l)
      BY DEF LinksInv
    <3>2. CASE l[1] = a
      BY <1>1, <1>5, <3>1, <3>2 DEF SenderTurn, SendersRest
    <3>3. CASE l[1] # a
      <4>1. SameCall(l[1]) /\ (Delegating(l)' <=> Delegating(l))
        BY <1>4, <1>6, <3>3 DEF Link
      <4> QED
        BY <1>1, <3>1, <4>1, TurnKept DEF SendersRest
    <3> QED
      BY <3>2, <3>3
  <2> QED
    BY <2>1
<1>9. ASSUME NEW l \in Link, Receives(a), l = From(a)
      PROVE  Framed(l)' /\ got'[l] = Append(got[l], Returned(a))
  <2>1. got'[l] = Append(got[l], Returned(a)) /\ l[2] = a
    BY <1>2, <1>3, <1>9 DEF LinksTypeOK
  <2>2. PICK w, G, k, t, left : w = wire[l] /\ G = given[l] /\ k = Len(got[l])
                                /\ t = Taken(l) /\ left = Left(l)
    OBVIOUS
  <2>3. Traffic(w, G, k, t, left)
    BY <2>2, TrafficHere
  <2>4. k < Len(G) /\ t = Whole(G[k + 1]) /\ Returned(a) \in Seq(Octet)
    BY <1>1, <1>9, <2>2, ReturnedStream DEF Expected
  <2>5. Traffic(w, G, k + 1, 0, left)
    BY <2>3, <2>4, TrafficGot
  <2>6. Len(got'[l]) = k + 1
    BY <2>1, <2>2, <2>4, LinksTyped, Appended
  <2>7. Taken(l)' = 0
    BY <1>4, <2>1 DEF Taken, Reading
  <2>8. Traffic(wire'[l], given'[l], Len(got'[l]), Taken(l)', Left(l)')
    BY <1>1, <1>7, <2>2, <2>5, <2>6, <2>7
  <2> QED
    BY <2>1, <2>8, TrafficThen
<1>10. ASSUME NEW l \in Link, ~(Receives(a) /\ l = From(a))
       PROVE  Framed(l)' /\ got'[l] = got[l]
  <2>1. got'[l] = got[l]
    BY <1>2, <1>3, <1>10 DEF LinksTypeOK
  <2>2. PICK c \in Node : c = l[2]
    BY DEF Link
  <2>3. Taken(l)' = Taken(l)
    <3>1. CASE c = a
      <4>1. ~Reading(l) /\ ~Reading(l)'
        BY <1>4, <1>10, <2>2, <3>1 DEF Reading
      <4> QED
        BY <4>1 DEF Taken
    <3>2. CASE c # a
      <4>1. Aside(c) /\ SameCall(c)
        BY <1>4, <3>2
      <4> QED
        BY <2>2, <4>1, TakenKept DEF Aside, Busy
    <3> QED
      BY <3>1, <3>2
  <2>4. Framed(l)
    BY DEF LinksInv
  <2> QED
    BY <1>1, <1>7, <2>1, <2>3, <2>4, FramedKept
<1>11. ASSUME NEW c \in Node, c # a PROVE Calling(c)'
  <2>1. Calling(c) /\ Aside(c)
    BY <1>4, <1>11 DEF LinksInv
  <2>2. \A l \in Link : l[1] = c => given'[l] = given[l]
    BY <1>1
  <2>3. \A l \in Link : l[2] = c => got'[l] = got[l] /\ Prolonged(l)
    <3>1. \A l \in Link : Prolonged(l)
      BY <1>1, LinksTyped DEF Prolonged
    <3> QED
      BY <1>3, <1>10, <1>11, <3>1
  <2> QED
    BY <2>1, <2>2, <2>3, AsideCalling
<1>12. Calling(a)'
  <2>1. Calls(a)' = Calls(a) /\ Len(Calls(a)) \in Nat
    BY <1>1, ScriptFacts DEF Calls
  <2>2. ncalls'[a] <= Len(Calls(a))
    BY <1>3, <1>4, <2>1 DEF Waiting
  <2> QED
    BY <1>4, <2>1, <2>2 DEF Calling
<1>13. LinksTypeOK'
  <2>1. /\ loc' \in [Node -> {"idle", "send", "length", "receive", "wait", "x_send",
                              "x_receive", "return"}]
        /\ ncalls' \in [Node -> Nat]
    BY <1>1 DEF LinksTypeOK
  <2>2. got' \in [Link -> Seq(Seq(Octet))]
    <3>1. Receives(a) => Append(got[From(a)], Returned(a)) \in Seq(Seq(Octet))
      <4>1. Receives(a) => Returned(a) \in Seq(Octet)
        BY <1>1, ReturnedStream
      <4>2. Receives(a) => got[From(a)] \in Seq(Seq(Octet))
        BY <1>3, LinksTyped
      <4> QED
        BY <4>1, <4>2, Appended
    <3> QED
      BY <1>2, <3>1 DEF LinksTypeOK
  <2> QED
    BY <1>1, <2>1, <2>2 DEF LinksTypeOK, SendersRest
<1>14. (\A l \in Link : Framed(l)') /\ (\A c \in Node : Calling(c)')
  BY <1>9, <1>10, <1>11, <1>12
<1> QED
  BY <1>8, <1>13, <1>14 DEF LinksInv

(* Nothing happens to the players when a Sender makes a step. *)
LEMMA PlayersRest ==
    ASSUME LinksTypeOK, LinksInv, script' = script, ncalls' = ncalls, loc' = loc,
           written' = written, received' = received, new_len' = new_len,
           data' = data, into' = into, given' = given, got' = got
    PROVE  /\ \A c \in Node : Calling(c)' /\ SameCall(c) /\ (Busy(c)' <=> Busy(c))
           /\ \A l \in Link : /\ Taken(l)' = Taken(l) /\ (Writing(l)' <=> Writing(l))
                              /\ Delegating(l)' <=> Delegating(l)
<1>1. \A c \in Node : SameCall(c) /\ (Busy(c)' <=> Busy(c)) /\ Aside(c)
  BY DEF SameCall, Busy, Aside
<1>2. ASSUME NEW c \in Node PROVE Calling(c)'
  <2>1. Calling(c) /\ Aside(c)
    BY <1>1 DEF LinksInv
  <2>2. \A l \in Link : Prolonged(l)
    BY LinksTyped DEF Prolonged
  <2>3. /\ \A l \in Link : l[1] = c => given'[l] = given[l]
        /\ \A l \in Link : l[2] = c => got'[l] = got[l] /\ Prolonged(l)
    BY <2>2
  <2> QED
    BY <2>1, <2>3, AsideCalling
<1>3. ASSUME NEW l \in Link
      PROVE  /\ Taken(l)' = Taken(l) /\ (Writing(l)' <=> Writing(l))
             /\ Delegating(l)' <=> Delegating(l)
  <2>1. PICK b \in Node, c \in Node : b = l[1] /\ c = l[2]
    BY DEF Link
  <2>2. SameCall(b) /\ (Busy(b)' <=> Busy(b)) /\ SameCall(c) /\ (Busy(c)' <=> Busy(c))
    BY <1>1
  <2>3. Taken(l)' = Taken(l)
    BY <2>1, <2>2, TakenKept
  <2>4. /\ To(b)' = To(b) /\ (Sends(b)' <=> Sends(b)) /\ (Delegates(b)' <=> Delegates(b))
    BY <2>2, SameCallFacts
  <2>5. Writing(l)' <=> Writing(l)
    BY <2>1, <2>2, <2>4 DEF Writing
  <2>6. Delegating(l)' <=> Delegating(l)
    BY <2>1, <2>4, <2>5 DEF Delegating
  <2> QED
    BY <2>3, <2>5, <2>6
<1> QED
  BY <1>1, <1>2, <1>3

(* The other connections. *)
LEMMA OtherLinks ==
    ASSUME LinksTypeOK, LinksInv, NEW l \in Link, wire'[l] = wire[l],
           given' = given, got' = got, SameCall(l[1]), Busy(l[1])' <=> Busy(l[1]),
           written' = written, requests'[l] = requests[l], sending'[l] = sending[l],
           replies'[l] = replies[l], Taken(l)' = Taken(l), Delegating(l)' <=> Delegating(l)
    PROVE  Framed(l)' /\ SenderTurn(l)'
<1>1. Left(l)' = Left(l)
  BY LeftKept
<1>2. Framed(l) /\ SenderTurn(l)
  BY DEF LinksInv
<1> QED
  BY <1>1, <1>2, FramedKept, TurnKept

(* A Sender that has something to do. *)
LEMMA AtWork ==
    ASSUME LinksTypeOK, LinksInv, NEW l \in Link, requests[l] > 0 \/ sending[l] # Idle
    PROVE  /\ l[1] \in Node /\ Delegating(l) /\ Writing(l) /\ Delegates(l[1]) /\ Busy(l[1])
           /\ replies[l] = 0 /\ Sends(l[1]) /\ To(l[1]) = l
           /\ requests[l] > 0 => requests[l] = 1 /\ sending[l] = Idle
           /\ sending[l] # Idle =>
                requests[l] = 0 /\ sending[l] \in Nat /\ sending[l] < WholeOf(l[1])
           /\ data[l[1]] = Current(l[1]) /\ Outgoing(l[1])
           /\ WholeOf(l[1]) \in Nat /\ WholeOf(l[1]) > 0
           /\ Current(l[1]) \in Seq(Octet) /\ Whole(Current(l[1])) = WholeOf(l[1])
<1>1. SenderTurn(l) /\ l[1] \in Node
  BY DEF LinksInv, Link
<1>2. Delegating(l)
  BY <1>1 DEF SenderTurn
<1>3. /\ replies[l] = 0
      /\ requests[l] > 0 => requests[l] = 1 /\ sending[l] = Idle
      /\ sending[l] # Idle =>
           requests[l] = 0 /\ sending[l] \in Nat /\ sending[l] < WholeOf(l[1])
  BY <1>1, <1>2 DEF SenderTurn
<1>4. /\ Writing(l) /\ Delegates(l[1]) /\ Busy(l[1]) /\ Sends(l[1]) /\ To(l[1]) = l
  BY <1>2 DEF Delegating, Writing
<1>5. /\ Outgoing(l[1]) /\ WholeOf(l[1]) \in Nat /\ This(l[1]).len \in Nat
      /\ WholeOf(l[1]) = LENGTH_SIZE + This(l[1]).len
      /\ Current(l[1]) \in Seq(Octet) /\ Whole(Current(l[1])) = WholeOf(l[1])
  BY <1>1, <1>4, MidCall
<1>6. WholeOf(l[1]) > 0
  BY <1>5, CapacityAssumption
<1>7. data[l[1]] = Current(l[1])
  BY <1>4, <1>5 DEF Outgoing, Delegates
<1> QED
  BY <1>1, <1>2, <1>3, <1>4, <1>5, <1>6, <1>7

LEMMA TakeStep ==
    ASSUME LinksTypeOK, LinksInv, NEW l \in Link, SenderTake(l)
    PROVE  LinksTypeOK' /\ LinksInv'
<1>1. /\ requests[l] > 0
      /\ requests' = [requests EXCEPT ![l] = @ - 1] /\ sending' = [sending EXCEPT ![l] = 0]
      /\ script' = script /\ ncalls' = ncalls /\ loc' = loc /\ written' = written
      /\ received' = received /\ new_len' = new_len /\ data' = data /\ into' = into
      /\ wire' = wire /\ replies' = replies /\ given' = given /\ got' = got
  BY DEF SenderTake, buffers, history
<1>2. /\ \A c \in Node : Calling(c)' /\ SameCall(c) /\ (Busy(c)' <=> Busy(c))
      /\ \A m \in Link : /\ Taken(m)' = Taken(m) /\ (Writing(m)' <=> Writing(m))
                         /\ Delegating(m)' <=> Delegating(m)
  BY <1>1, PlayersRest
<1>3. ASSUME NEW m \in Link, m # l PROVE Framed(m)' /\ SenderTurn(m)'
  <2>1. requests'[m] = requests[m] /\ sending'[m] = sending[m]
    BY <1>1, <1>3 DEF LinksTypeOK
  <2>2. m[1] \in Node
    BY DEF Link
  <2> QED
    BY <1>1, <1>2, <2>1, <2>2, OtherLinks
<1>4. /\ l[1] \in Node /\ Delegating(l) /\ Writing(l) /\ Delegates(l[1])
      /\ replies[l] = 0 /\ requests[l] = 1 /\ sending[l] = Idle
      /\ WholeOf(l[1]) \in Nat /\ WholeOf(l[1]) > 0
  BY <1>1, AtWork
<1>5. requests'[l] = 0 /\ sending'[l] = 0
  BY <1>1, <1>4 DEF LinksTypeOK
<1>6. WholeOf(l[1])' = WholeOf(l[1]) /\ (Delegates(l[1])' <=> Delegates(l[1]))
  BY <1>2, <1>4, SameCallFacts
<1>7. Framed(l)'
  <2>1. Left(l) = WholeOf(l[1])
    BY <1>4 DEF Left
  <2>2. 0 # Idle
    BY DEF Idle
  <2>3. Left(l)' = WholeOf(l[1]) - 0
    BY <1>2, <1>4, <1>5, <1>6, <2>2 DEF Left
  <2>4. Left(l)' = Left(l)
    BY <1>4, <2>1, <2>3
  <2>5. Framed(l)
    BY DEF LinksInv
  <2> QED
    BY <1>1, <1>2, <2>4, <2>5, FramedKept
<1>8. SenderTurn(l)'
  BY <1>1, <1>2, <1>4, <1>5, <1>6 DEF SenderTurn
<1>9. LinksTypeOK'
  <2>1. requests' \in [Link -> Nat] /\ sending' \in [Link -> Nat \cup {Idle}]
    <3>1. requests[l] - 1 \in Nat
      BY <1>4
    <3> QED
      BY <1>1, <3>1 DEF LinksTypeOK
  <2> QED
    BY <1>1, <2>1 DEF LinksTypeOK
<1> QED
  BY <1>2, <1>3, <1>7, <1>8, <1>9 DEF LinksInv

LEMMA WriteStep ==
    ASSUME LinksTypeOK, LinksInv, NEW l \in Link, SenderWrite(l)
    PROVE  LinksTypeOK' /\ LinksInv'
<1>1. /\ sending[l] # Idle
      /\ script' = script /\ ncalls' = ncalls /\ loc' = loc /\ written' = written
      /\ received' = received /\ new_len' = new_len /\ data' = data /\ into' = into
      /\ requests' = requests /\ given' = given /\ got' = got
  BY DEF SenderWrite, buffers, history
<1>2. /\ \A c \in Node : Calling(c)' /\ SameCall(c) /\ (Busy(c)' <=> Busy(c))
      /\ \A m \in Link : /\ Taken(m)' = Taken(m) /\ (Writing(m)' <=> Writing(m))
                         /\ Delegating(m)' <=> Delegating(m)
  BY <1>1, PlayersRest
<1>3. PICK a : a = l[1]
  OBVIOUS
<1>4. /\ a \in Node /\ Delegating(l) /\ Writing(l) /\ Delegates(a)
      /\ replies[l] = 0 /\ requests[l] = 0 /\ sending[l] \in Nat /\ sending[l] < WholeOf(a)
      /\ data[a] = Current(a) /\ Outgoing(a) /\ To(a) = l
      /\ WholeOf(a) \in Nat
      /\ Current(a) \in Seq(Octet) /\ Whole(Current(a)) = WholeOf(a)
  BY <1>1, <1>3, AtWork
<1>5. PICK frame : frame = Frame(Current(a))
  OBVIOUS
<1>6. frame \in Seq(Octet) /\ Len(frame) = WholeOf(a)
  BY <1>4, <1>5, FrameAt
<1>7. PICK n \in Writable(a, l, frame, sending[l]) :
          /\ WriteSome(l, frame, sending[l], n)
          /\ IF sending[l] + n < Len(frame)
             THEN /\ sending' = [sending EXCEPT ![l] = @ + n]
                  /\ replies' = replies
             ELSE /\ sending' = [sending EXCEPT ![l] = Idle]
                  /\ replies' = [replies EXCEPT ![l] = @ + 1]
  BY <1>3, <1>4, <1>5 DEF SenderWrite
<1>8. n \in Nat /\ n <= WholeOf(a) - sending[l]
  <2>1. Len(frame) - sending[l] \in Int /\ Room(l) \in Int
    BY <1>4, <1>6, LinksTyped, CapacityAssumption DEF Room
  <2>2. PICK m : m = Least(Len(frame) - sending[l], Room(l))
    OBVIOUS
  <2>3. m \in Int /\ m <= Len(frame) - sending[l]
    BY <2>1, <2>2, LeastFacts
  <2>4. n \in Amounts(a, m)
    BY <1>7, <2>2 DEF Writable
  <2>5. n \in Nat /\ n <= m
    BY <2>3, <2>4, AmountsFacts
  <2> QED
    BY <1>4, <1>6, <2>3, <2>5
<1>9. PICK s, m, f : s = sending[l] /\ m = WholeOf(a) /\ f = SubSeq(frame, s + 1, s + n)
  OBVIOUS
<1>10. s \in Nat /\ m \in Nat /\ s + n <= m /\ s < m
  BY <1>4, <1>8, <1>9
<1>11. /\ f \in Seq(Octet) /\ Len(f) = n /\ \A i \in 1 .. n : f[i] = frame[s + i]
  <2>1. frame \in Seq(Octet) /\ s \in Nat /\ n \in Nat /\ s + n <= Len(frame)
    BY <1>6, <1>8, <1>9, <1>10
  <2> HIDE <1>7
  <2>2. /\ SubSeq(frame, s + 1, s + n) \in Seq(Octet) /\ Len(SubSeq(frame, s + 1, s + n)) = n
        /\ \A i \in 1 .. n : SubSeq(frame, s + 1, s + n)[i] = frame[s + i]
    BY <2>1, Slice
  <2> QED
    BY <1>9, <2>2
<1>12. wire' = [wire EXCEPT ![l] = @ \o f]
  BY <1>7, <1>9 DEF WriteSome
<1>13. /\ IF s + n < m THEN sending'[l] = s + n /\ replies'[l] = 0
          ELSE sending'[l] = Idle /\ replies'[l] = 1
       /\ \A k \in Link : k # l => /\ sending'[k] = sending[k] /\ replies'[k] = replies[k]
                                   /\ wire'[k] = wire[k]
       /\ wire'[l] = wire[l] \o f /\ requests'[l] = 0
  <2>1. sending[l] + n = s + n /\ (sending[l] + n < Len(frame) <=> s + n < m)
    BY <1>6, <1>9
  <2>2. wire'[l] = wire[l] \o f /\ requests'[l] = 0
    BY <1>1, <1>4, <1>12 DEF LinksTypeOK
  <2>3. /\ sending \in [Link -> Nat \cup {Idle}] /\ replies \in [Link -> Nat]
        /\ wire \in [Link -> Seq(Octet)]
    BY DEF LinksTypeOK
  <2>4. CASE s + n < m
    <3>1. sending' = [sending EXCEPT ![l] = @ + n] /\ replies' = replies
      BY <1>7, <2>1, <2>4
    <3>2. sending'[l] = sending[l] + n
      BY <2>3, <3>1
    <3>3. \A k \in Link : k # l => sending'[k] = sending[k] /\ replies'[k] = replies[k]
      BY <2>3, <3>1
    <3>4. \A k \in Link : k # l => wire'[k] = wire[k]
      BY <1>12, <2>3
    <3> QED
      BY <1>4, <2>1, <2>2, <2>4, <3>1, <3>2, <3>3, <3>4
  <2>5. CASE ~(s + n < m)
    <3>1. /\ sending' = [sending EXCEPT ![l] = Idle]
          /\ replies' = [replies EXCEPT ![l] = @ + 1]
      BY <1>7, <2>1, <2>5
    <3>2. sending'[l] = Idle /\ replies'[l] = replies[l] + 1
      BY <2>3, <3>1
    <3>3. \A k \in Link : k # l => sending'[k] = sending[k] /\ replies'[k] = replies[k]
      BY <2>3, <3>1
    <3>4. \A k \in Link : k # l => wire'[k] = wire[k]
      BY <1>12, <2>3
    <3> QED
      BY <1>4, <2>2, <2>5, <3>2, <3>3, <3>4
  <2> QED
    BY <2>4, <2>5
<1>14. ASSUME NEW k \in Link, k # l PROVE Framed(k)' /\ SenderTurn(k)'
  <2>1. k[1] \in Node
    BY DEF Link
  <2> QED
    BY <1>1, <1>2, <1>13, <1>14, <2>1, OtherLinks
<1>15. WholeOf(a)' = WholeOf(a) /\ (Delegates(a)' <=> Delegates(a))
  BY <1>2, <1>4, SameCallFacts
<1>16. Framed(l)'
  <2>1. Left(l) = m - s
    BY <1>1, <1>3, <1>4, <1>9 DEF Left
  <2>2. Left(l)' = m - s - n
    <3>1. CASE s + n < m
      <4>1. sending'[l] = s + n /\ s + n # Idle
        BY <1>8, <1>10, <1>13, <3>1 DEF Idle
      <4>2. Left(l)' = m - (s + n)
        BY <1>2, <1>3, <1>4, <1>9, <1>13, <1>15, <4>1 DEF Left
      <4> QED
        BY <1>8, <1>10, <4>2
    <3>2. CASE ~(s + n < m)
      <4>1. sending'[l] = Idle
        BY <1>13, <3>2
      <4>2. Left(l)' = 0
        BY <1>2, <1>3, <1>4, <1>13, <1>15, <4>1 DEF Left
      <4> QED
        BY <1>8, <1>10, <3>2, <4>2
    <3> QED
      BY <3>1, <3>2
  <2>3. PICK w, G, k, t, left : w = wire[l] /\ G = given[l] /\ k = Len(got[l])
                                /\ t = Taken(l) /\ left = Left(l)
    OBVIOUS
  <2>4. PICK c \in Seq(Octet) : c = Current(a) /\ Whole(c) = m
    BY <1>4, <1>9
  <2>5. /\ Traffic(w, G, k, t, left) /\ Len(G) >= 1 /\ G[Len(G)] = c
        /\ left <= Whole(c) /\ n <= left /\ Whole(c) - left = s
    <3>1. left = m - s
      BY <2>1, <2>3
    <3>2. left <= m /\ n <= left /\ m - left = s
      BY <1>8, <1>10, <3>1
    <3> QED
      BY <1>4, <2>3, <2>4, <3>2, TrafficHere DEF Outgoing
  <2>6. \A i \in 1 .. n : f[i] = Frame(c)[Whole(c) - left + i]
    BY <1>5, <1>11, <2>4, <2>5
  <2>7. Traffic(w \o f, G, k, t, left - n)
    BY <1>8, <1>11, <2>4, <2>5, <2>6, TrafficWrite
  <2>8. Traffic(wire'[l], given'[l], Len(got'[l]), Taken(l)', Left(l)')
    BY <1>1, <1>2, <1>13, <2>1, <2>2, <2>3, <2>7
  <2> QED
    BY <2>8, TrafficThen
<1>17. SenderTurn(l)'
  <2>1. Delegating(l)'
    BY <1>2, <1>4
  <2>2. WholeOf(l[1])' = m
    BY <1>3, <1>9, <1>15
  <2>3. s + n \in Nat
    BY <1>8, <1>10
  <2> QED
    BY <1>13, <2>1, <2>2, <2>3 DEF SenderTurn
<1>18. LinksTypeOK'
  <2>1. sending' \in [Link -> Nat \cup {Idle}] /\ replies' \in [Link -> Nat]
    <3>1. sending[l] + n \in Nat /\ replies[l] + 1 \in Nat
      BY <1>4, <1>8
    <3> QED
      BY <1>7, <3>1 DEF LinksTypeOK
  <2>2. wire' \in [Link -> Seq(Octet)]
    <3>1. wire[l] \o f \in Seq(Octet)
      BY <1>11, LinksTyped, ConcatProperties
    <3> QED
      BY <1>12, <3>1 DEF LinksTypeOK
  <2> QED
    BY <1>1, <2>1, <2>2 DEF LinksTypeOK
<1> QED
  BY <1>2, <1>14, <1>16, <1>17, <1>18 DEF LinksInv

(* At first nothing has happened. *)
LEMMA LinksStart ==
    ASSUME LinksInit
    PROVE  LinksTypeOK /\ LinksInv
<1>1. LinksTypeOK
  <2>1. <<>> \in Seq(Octet) /\ <<>> \in Seq(Seq(Octet))
    BY EmptySeq
  <2> QED
    BY <2>1 DEF LinksInit, LinksTypeOK
<1>2. \A a \in Node : ~Busy(a) /\ ncalls[a] = 0
  BY DEF LinksInit, Busy
<1>3. ASSUME NEW l \in Link PROVE Framed(l) /\ SenderTurn(l)
  <2>1. ~Writing(l) /\ ~Reading(l)
    BY <1>2 DEF Writing, Reading, Link
  <2>2. Taken(l) = 0 /\ Left(l) = 0
    BY <2>1 DEF Taken, Left
  <2>3. wire[l] = <<>> /\ given[l] = <<>> /\ Len(got[l]) = 0
    BY EmptySeq DEF LinksInit
  <2>4. Framed(l)
    BY <2>2, <2>3, NoTraffic DEF Traffic, Framed
  <2>5. SenderTurn(l)
    BY <2>1 DEF SenderTurn, Delegating, LinksInit
  <2> QED
    BY <2>4, <2>5
<1>4. ASSUME NEW a \in Node PROVE Calling(a)
  <2>1. Len(Calls(a)) \in Nat /\ ncalls[a] = 0 /\ ~Busy(a)
    BY <1>1, <1>2, ScriptFacts
  <2>2. ncalls[a] <= Len(Calls(a))
    BY <2>1
  <2> QED
    BY <2>1, <2>2 DEF Calling
<1> QED
  BY <1>1, <1>3, <1>4 DEF LinksInv

LEMMA LinksStep ==
    ASSUME LinksTypeOK, LinksInv, [LinksNext]_linkVars
    PROVE  LinksTypeOK' /\ LinksInv'
<1>1. ASSUME NEW a \in Node, CallStep(a) PROVE LinksTypeOK' /\ LinksInv'
  BY <1>1, StartStep, SendStep, LengthStep, OctetsStep, WaitStep, XSendStep, NothingStep,
     ReturnStep DEF CallStep
<1>2. ASSUME NEW l \in Link, SenderStep(l) PROVE LinksTypeOK' /\ LinksInv'
  BY <1>2, TakeStep, WriteStep DEF SenderStep
<1>3. CASE UNCHANGED linkVars
  <2>1. /\ script' = script /\ ncalls' = ncalls /\ loc' = loc /\ written' = written
        /\ received' = received /\ new_len' = new_len /\ data' = data /\ into' = into
        /\ wire' = wire /\ requests' = requests /\ sending' = sending /\ replies' = replies
        /\ given' = given /\ got' = got
    BY <1>3 DEF linkVars
  <2>2. LinksTypeOK'
    BY <2>1 DEF LinksTypeOK
  <2>3. ASSUME NEW l \in Link PROVE Framed(l)' /\ SenderTurn(l)'
    <3>1. /\ \A c \in Node : SameCall(c) /\ (Busy(c)' <=> Busy(c))
          /\ Taken(l)' = Taken(l) /\ (Delegating(l)' <=> Delegating(l)) /\ l[1] \in Node
      BY <2>1, PlayersRest DEF Link
    <3> QED
      BY <2>1, <3>1, OtherLinks
  <2>4. \A c \in Node : Calling(c)'
    BY <2>1, PlayersRest
  <2> QED
    BY <2>2, <2>3, <2>4 DEF LinksInv
<1> QED
  BY <1>1, <1>2, <1>3 DEF LinksNext

LEMMA LinksInvariant == LinksSpec => [](LinksTypeOK /\ LinksInv)
<1>1. LinksInit => LinksTypeOK /\ LinksInv
  BY LinksStart
<1>2. LinksTypeOK /\ LinksInv /\ [LinksNext]_linkVars => (LinksTypeOK /\ LinksInv)'
  BY LinksStep
<1> QED
  BY <1>1, <1>2, PTL DEF LinksSpec

(***************************************************************************)
(* octetStream::Send, Receive and exchange and CryptoPlayer::pass_around   *)
(* keep their lengths, positions and buffers in range, whatever is written *)
(* and read at once.                                                       *)
(***************************************************************************)
THEOREM LinksTypeCorrect == LinksSpec => []LinksTypeOK
  BY LinksInvariant, PTL

-----------------------------------------------------------------------------
(***************************************************************************)
(* A Sender only has a stream while its player waits for another one, from *)
(* another peer, or for the Sender's reply: pass_around delegates only if  *)
(* the sockets differ, and collects before it returns.                     *)
(***************************************************************************)
LEMMA SendersApart ==
    ASSUME LinksTypeOK, LinksInv
    PROVE  OneThreadPerSocket
<1> SUFFICES ASSUME NEW l \in Link, SenderBusy(l)
             PROVE  ~Uses(l[1], l[2]) /\ loc[l[1]] \in {"length", "receive", "wait"}
  BY DEF OneThreadPerSocket
<1>1. PICK a, b : a = l[1] /\ b = l[2]
  OBVIOUS
<1>2. requests[l] \in Nat
  BY LinksTyped
<1>3. Delegating(l) /\ Delegates(a) /\ To(a) = l
  BY <1>1, <1>2, AtWork DEF SenderBusy
<1>4. loc[a] \in {"length", "receive", "wait"}
  BY <1>1, <1>3 DEF Delegating
<1>5. This(a).to = b
  BY <1>1, <1>3 DEF To
<1>6. This(a).from # b
  BY <1>3, <1>5 DEF Delegates
<1>7. ~Uses(a, b)
  BY <1>4, <1>6 DEF Uses
<1> QED
  BY <1>1, <1>4, <1>7

(* At no time do a player and its Sender use the same socket.              *)
THEOREM OneThreadCorrect == LinksSpec => []OneThreadPerSocket
  BY LinksInvariant, SendersApart, PTL

-----------------------------------------------------------------------------
(***************************************************************************)
(* The connections are queues of whole streams.                            *)
(***************************************************************************)
Queue(streams, k) == SubSeq(streams, k + 1, Len(streams))

LEMMA QueuePut ==
    ASSUME NEW T, NEW G \in Seq(T), NEW k \in Nat, k <= Len(G), NEW s \in T
    PROVE  Queue(Append(G, s), k) = Append(Queue(G, k), s)
<1>1. PICK m \in Nat : m = Len(G)
  BY LenProperties
<1>2. PICK H : H = Append(G, s)
  OBVIOUS
<1>3. H \in Seq(T) /\ Len(H) = m + 1 /\ (\A i \in 1 .. m : H[i] = G[i]) /\ H[m + 1] = s
  BY <1>1, <1>2, Appended
<1>4. k <= m /\ k <= Len(H) /\ m - k \in Nat
  BY <1>1, <1>3
<1>5. PICK u, v : u = SubSeq(G, k + 1, Len(G)) /\ v = SubSeq(H, k + 1, Len(H))
  OBVIOUS
<1>6. u \in Seq(T) /\ Len(u) = m - k /\ \A i \in 1 .. m - k : u[i] = G[k + i]
  BY <1>1, <1>4, <1>5, Suffix
<1>7. v \in Seq(T) /\ Len(v) = m + 1 - k /\ \A i \in 1 .. m + 1 - k : v[i] = H[k + i]
  <2>1. v \in Seq(T) /\ Len(v) = Len(H) - k /\ \A i \in 1 .. Len(H) - k : v[i] = H[k + i]
    BY <1>3, <1>4, <1>5, Suffix
  <2>2. Len(H) - k = m + 1 - k
    BY <1>3
  <2> QED
    BY <2>1, <2>2
<1>8. PICK w : w = Append(u, s)
  OBVIOUS
<1>9. /\ w \in Seq(T) /\ Len(w) = m - k + 1 /\ (\A i \in 1 .. m - k : w[i] = u[i])
      /\ w[m - k + 1] = s
  BY <1>6, <1>8, Appended
<1>10. ASSUME NEW i \in 1 .. m + 1 - k PROVE v[i] = w[i]
  <2>1. CASE i <= m - k
    <3>1. i \in 1 .. m - k /\ k + i \in 1 .. m
      BY <1>1, <1>4, <2>1
    <3> QED
      BY <1>3, <1>6, <1>7, <1>9, <3>1
  <2>2. CASE ~(i <= m - k)
    <3>1. i = m - k + 1 /\ k + i = m + 1
      BY <1>1, <1>4, <2>2
    <3> QED
      BY <1>3, <1>7, <1>9, <3>1
  <2> QED
    BY <2>1, <2>2
<1>11. Len(v) = Len(w) /\ \A i \in 1 .. Len(v) : v[i] = w[i]
  BY <1>1, <1>4, <1>7, <1>9, <1>10
<1>12. v = w
  BY <1>7, <1>9, <1>11, SeqEqual
<1> QED
  BY <1>2, <1>5, <1>8, <1>12 DEF Queue

LEMMA QueueTake ==
    ASSUME NEW T, NEW G \in Seq(T), NEW k \in Nat, k < Len(G)
    PROVE  /\ Queue(G, k) # <<>> /\ Head(Queue(G, k)) = G[k + 1]
           /\ Tail(Queue(G, k)) = Queue(G, k + 1)
<1>1. PICK m \in Nat : m = Len(G)
  BY LenProperties
<1>2. k + 1 \in 1 .. m /\ m \in (k + 1) .. m /\ k <= m
  BY <1>1
<1>3. /\ Head(SubSeq(G, k + 1, m)) = G[k + 1]
      /\ Tail(SubSeq(G, k + 1, m)) = SubSeq(G, (k + 1) + 1, m)
  BY <1>1, <1>2, HeadTailOfSubSeq
<1>4. Len(SubSeq(G, k + 1, m)) = m - k
  BY <1>1, <1>2, Suffix
<1>5. SubSeq(G, k + 1, m) # <<>>
  BY <1>1, <1>2, <1>4, EmptySeq
<1> QED
  BY <1>1, <1>3, <1>5 DEF Queue

(* The stream of a call is one of those that the scripts have. *)
LEMMA CurrentStream ==
    ASSUME LinksTypeOK, NEW a \in Node, Waiting(a), Sends(a)
    PROVE  Current(a) \in Streams
<1>1. script \in Scripts /\ ncalls[a] + 1 \in 1 .. Len(Calls(a)) /\ Calls(a) \in Seq(Call)
  BY ThisCall, ScriptFacts DEF LinksTypeOK
<1>2. PICK s, j : s = script /\ s \in Scripts /\ j = ncalls[a] + 1
  BY <1>1
<1>3. j \in DOMAIN s.calls[a] /\ s.calls[a][j] = This(a)
  BY <1>1, <1>2, LenProperties DEF Calls, This
<1>4. j \in {i \in DOMAIN s.calls[a] : s.calls[a][i].op # "receive"}
  BY <1>3 DEF Sends
<1>5. Current(a) = Payload(a, j, s.calls[a][j].len)
  BY <1>2, <1>3 DEF Current
<1>6. PICK streams : streams = {Payload(a, i, s.calls[a][i].len) :
                                 i \in {h \in DOMAIN s.calls[a] : s.calls[a][h].op # "receive"}}
  OBVIOUS
<1>7. Current(a) \in streams
  BY <1>4, <1>5, <1>6
<1>8. streams \in {{Payload(b, i, r.calls[b][i].len) :
                      i \in {h \in DOMAIN r.calls[b] : r.calls[b][h].op # "receive"}} :
                   r \in Scripts, b \in Node}
  BY <1>2, <1>6
<1> QED
  BY <1>7, <1>8 DEF Streams

LEMMA QueueLength ==
    ASSUME LinksInv, NEW l \in Link
    PROVE  Len(got[l]) <= Len(given[l])
  BY DEF LinksInv, Framed, InStream

(* A call that sends puts its stream when it begins. *)
LEMMA StartPuts ==
    ASSUME LinksTypeOK, LinksInv, NEW a \in Node, Start(a)
    PROVE  [Queues!Next]_(Queues!channelVars)
<1>1. got' = got
  BY DEF Start
<1>2. CASE ~Sends(a)
  <2>1. given' = given
    BY <1>2 DEF Start
  <2> QED
    BY <1>1, <2>1 DEF Queues!channelVars
<1>3. CASE Sends(a)
  <2>1. Waiting(a)
    BY DEF Start
  <2>2. /\ given' = [given EXCEPT ![To(a)] = Append(@, Current(a))]
    BY <1>3 DEF Start, Current
  <2>3. PICK l \in Link, s \in Streams : l = To(a) /\ s = Current(a) /\ s \in Seq(Octet)
    BY <1>3, <2>1, ThisCall, CurrentStream, CurrentFacts
  <2>4. given'[l] = Append(given[l], s) /\ \A m \in Link : m # l => given'[m] = given[m]
    BY <2>2, <2>3 DEF LinksTypeOK
  <2>5. PICK G, k : G = given[l] /\ k = Len(got[l])
    OBVIOUS
  <2>6. G \in Seq(Seq(Octet)) /\ k \in Nat /\ k <= Len(G)
    BY <2>5, LinksTyped, QueueLength
  <2>7. Queue(Append(G, s), k) = Append(Queue(G, k), s)
    BY <2>3, <2>6, QueuePut
  <2>8. PICK chan, chanThen :
          /\ chan = [m \in Link |-> SubSeq(given[m], Len(got[m]) + 1, Len(given[m]))]
          /\ chanThen = [m \in Link |-> SubSeq(given'[m], Len(got'[m]) + 1, Len(given'[m]))]
    OBVIOUS
  <2>9. chanThen = [chan EXCEPT ![l] = Append(@, s)]
    <3>1. chan[l] = Queue(G, k)
      BY <2>5, <2>8 DEF Queue
    <3>2. chanThen[l] = Queue(Append(G, s), k)
      BY <1>1, <2>4, <2>5, <2>8 DEF Queue
    <3>3. chanThen[l] = Append(chan[l], s)
      BY <2>7, <3>1, <3>2
    <3>4. \A m \in Link : m # l => chanThen[m] = chan[m]
      BY <1>1, <2>4, <2>8
    <3>5. PICK other : other = [chan EXCEPT ![l] = Append(@, s)]
      OBVIOUS
    <3>6. /\ other[l] = Append(chan[l], s) /\ \A m \in Link : m # l => other[m] = chan[m]
          /\ DOMAIN other = Link /\ DOMAIN chanThen = Link
          /\ other = [m \in Link |-> other[m]] /\ chanThen = [m \in Link |-> chanThen[m]]
      BY <2>8, <3>5
    <3>7. \A m \in Link : chanThen[m] = other[m]
      BY <3>3, <3>4, <3>6
    <3> QED
      BY <3>5, <3>6, <3>7
  <2>10. Queues!Put(l)
    BY <1>1, <2>3, <2>8, <2>9 DEF Queues!Put
  <2> QED
    BY <2>10 DEF Queues!Next
<1> QED
  BY <1>2, <1>3

(* A call that receives takes a stream when it returns. *)
LEMMA ReturnTakes ==
    ASSUME LinksTypeOK, LinksInv, NEW a \in Node, Return(a)
    PROVE  [Queues!Next]_(Queues!channelVars)
<1>1. given' = given /\ loc[a] = "return" /\ Busy(a)
  BY DEF Return, Busy
<1>2. CASE ~Receives(a)
  <2>1. got' = got
    BY <1>2 DEF Return
  <2> QED
    BY <1>1, <2>1 DEF Queues!channelVars
<1>3. CASE Receives(a)
  <2>1. got' = [got EXCEPT ![From(a)] = Append(@, Returned(a))]
    BY <1>3 DEF Return, Returned
  <2>2. PICK l \in Link : l = From(a)
    BY <1>1, <1>3, MidCall
  <2>3. PICK G, k, e : G = given[l] /\ k = Len(got[l]) /\ e = Returned(a)
    OBVIOUS
  <2>4. /\ G \in Seq(Seq(Octet)) /\ k \in Nat /\ k < Len(G) /\ e = G[k + 1]
        /\ e \in Seq(Octet) /\ got[l] \in Seq(Seq(Octet))
    BY <1>1, <1>3, <2>2, <2>3, LinksTyped, ReturnedStream DEF Expected
  <2>5. /\ Queue(G, k) # <<>> /\ Head(Queue(G, k)) = e /\ Tail(Queue(G, k)) = Queue(G, k + 1)
    BY <2>4, QueueTake
  <2>6. got'[l] = Append(got[l], e) /\ \A m \in Link : m # l => got'[m] = got[m]
    BY <2>1, <2>2, <2>3 DEF LinksTypeOK
  <2>7. Len(got'[l]) = k + 1
    BY <2>3, <2>4, <2>6, Appended
  <2>8. PICK chan, chanThen :
          /\ chan = [m \in Link |-> SubSeq(given[m], Len(got[m]) + 1, Len(given[m]))]
          /\ chanThen = [m \in Link |-> SubSeq(given'[m], Len(got'[m]) + 1, Len(given'[m]))]
    OBVIOUS
  <2>9. chan[l] = Queue(G, k) /\ chanThen[l] = Queue(G, k + 1)
    BY <1>1, <2>3, <2>7, <2>8 DEF Queue
  <2>10. chanThen = [chan EXCEPT ![l] = Tail(@)]
    <3>1. chanThen[l] = Tail(chan[l])
      BY <2>5, <2>9
    <3>2. \A m \in Link : m # l => chanThen[m] = chan[m]
      BY <1>1, <2>6, <2>8
    <3>3. PICK other : other = [chan EXCEPT ![l] = Tail(@)]
      OBVIOUS
    <3>4. /\ other[l] = Tail(chan[l]) /\ \A m \in Link : m # l => other[m] = chan[m]
          /\ DOMAIN other = Link /\ DOMAIN chanThen = Link
          /\ other = [m \in Link |-> other[m]] /\ chanThen = [m \in Link |-> chanThen[m]]
      BY <2>8, <3>3
    <3>5. \A m \in Link : chanThen[m] = other[m]
      BY <3>1, <3>2, <3>4
    <3> QED
      BY <3>3, <3>4, <3>5
  <2>11. got' = [got EXCEPT ![l] = Append(@, Head(chan[l]))] /\ chan[l] # <<>>
    BY <2>1, <2>2, <2>3, <2>5, <2>9
  <2>12. Queues!Take(l)
    BY <2>8, <2>10, <2>11 DEF Queues!Take
  <2> QED
    BY <2>12 DEF Queues!Next
<1> QED
  BY <1>2, <1>3

LEMMA QueuesStep ==
    ASSUME LinksTypeOK, LinksInv, [LinksNext]_linkVars
    PROVE  [Queues!Next]_(Queues!channelVars)
<1>1. ASSUME NEW a \in Node, CallStep(a) PROVE [Queues!Next]_(Queues!channelVars)
  <2>1. CASE Start(a)
    BY <2>1, StartPuts
  <2>2. CASE Return(a)
    BY <2>2, ReturnTakes
  <2>3. CASE ~Start(a) /\ ~Return(a)
    <3>1. given' = given /\ got' = got
      BY <1>1, <2>3 DEF CallStep, Send, ReceiveLength, Receive, Wait, XSend, XReceiveLength,
         XReceive, XReceiveNothing, history
    <3> QED
      BY <3>1 DEF Queues!channelVars
  <2> QED
    BY <2>1, <2>2, <2>3
<1>2. ASSUME NEW l \in Link, SenderStep(l) PROVE [Queues!Next]_(Queues!channelVars)
  <2>1. given' = given /\ got' = got
    BY <1>2 DEF SenderStep, SenderTake, SenderWrite, history
  <2> QED
    BY <2>1 DEF Queues!channelVars
<1>3. CASE UNCHANGED linkVars
  BY <1>3 DEF linkVars, Queues!channelVars
<1> QED
  BY <1>1, <1>2, <1>3 DEF LinksNext

LEMMA QueuesInit ==
    ASSUME LinksInit
    PROVE  Queues!Init
<1>1. \A l \in Link : given[l] = <<>> /\ got[l] = <<>>
  BY DEF LinksInit
<1>2. got = [l \in Link |-> <<>>]
  BY DEF LinksInit
<1>3. \A l \in Link : SubSeq(given[l], Len(got[l]) + 1, Len(given[l])) = <<>>
  <2>1. SubSeq(<<>>, Len(<<>>) + 1, Len(<<>>)) = <<>>
    <3>1. Len(<<>>) = 0
      BY EmptySeq
    <3>2. SubSeq(<<>>, 0 + 1, 0) = <<>>
      BY SubSeqEmpty
    <3> QED
      BY <3>1, <3>2
  <2> QED
    BY <1>1, <2>1
<1>4. [l \in Link |-> SubSeq(given[l], Len(got[l]) + 1, Len(given[l]))] = [l \in Link |-> <<>>]
  BY <1>3
<1> QED
  BY <1>2, <1>4 DEF Queues!Init

(***************************************************************************)
(* Send, Receive, exchange and pass_around make the sockets between any    *)
(* players queues of whole streams: what a call returns is what the peer's *)
(* matching call was given, whatever the sizes of streams and buffers.     *)
(***************************************************************************)
THEOREM DeliversCorrect == LinksSpec => Delivers
<1>1. LinksInit => Queues!Init
  BY QueuesInit
<1>2. LinksTypeOK /\ LinksInv /\ [LinksNext]_linkVars => [Queues!Next]_(Queues!channelVars)
  BY QueuesStep
<1> QED
  BY <1>1, <1>2, LinksInvariant, PTL DEF LinksSpec, Delivers, Queues!Spec

-----------------------------------------------------------------------------
(***************************************************************************)
(* Players in a ring, each of which sends the next more than fits.         *)
(***************************************************************************)
Stalled(a, b) ==
    /\ ncalls[a] = 0 /\ loc[a] \in {"idle", "send"}
    /\ Len(wire[<<a, b>>]) = IF loc[a] = "send" THEN written[a] ELSE 0
    /\ Len(wire[<<a, b>>]) <= Capacity

(* Nobody in the ring begins to read, so that whom a player faces never does. *)
StallInv ==
    \A ring \in SUBSET Node :
        (\A a \in ring : \E b \in ring : Facing(a, b))
            => \A a, b \in ring : Facing(a, b) => Stalled(a, b)

LEMMA FacingFacts ==
    ASSUME LinksTypeOK, NEW a \in Node, NEW b \in Node, Facing(a, b), ncalls[a] = 0
    PROVE  /\ <<a, b>> \in Link /\ Waiting(a) /\ This(a).op = "send"
           /\ Sends(a) /\ ~Receives(a) /\ ~Delegates(a) /\ To(a) = <<a, b>>
           /\ This(a).len \in Nat /\ Capacity < LENGTH_SIZE + This(a).len
<1>1. Calls(a) \in Seq(Call) /\ Len(Calls(a)) \in Nat
  BY ScriptFacts
<1>2. Calls(a) # <<>>
  BY DEF Facing
<1>3. Len(Calls(a)) > 0
  BY <1>1, <1>2, EmptySeq
<1>4. Waiting(a)
  BY <1>3 DEF Waiting
<1>5. This(a) = Calls(a)[1]
  BY DEF This
<1>6. This(a).op = "send" /\ This(a).to = b /\ LENGTH_SIZE + This(a).len > Capacity
  BY <1>5 DEF Facing
<1>7. Sends(a) /\ ~Receives(a) /\ ~Delegates(a) /\ To(a) = <<a, b>>
  BY <1>6 DEF Sends, Receives, Delegates, To
<1>8. To(a) \in Link /\ This(a).len \in Nat
  BY <1>4, <1>7, ThisCall
<1> QED
  BY <1>4, <1>6, <1>7, <1>8, CapacityAssumption

(* What the step of c touches. *)
LEMMA StepTouches ==
    ASSUME LinksTypeOK, LinksInv, NEW c \in Node, CallStep(c)
    PROVE  /\ script' = script
           /\ \A d \in Node : d # c =>
                ncalls'[d] = ncalls[d] /\ loc'[d] = loc[d] /\ written'[d] = written[d]
           /\ \A l \in Link :
                \/ wire'[l] = wire[l]
                \/ l[1] = c /\ loc[c] \in {"send", "x_send"}
                \/ l[2] = c /\ loc[c] \in {"length", "receive", "x_receive"}
<1>1. script' = script
  BY DEF CallStep, Start, Send, ReceiveLength, Receive, Wait, XSend, XReceiveLength, XReceive,
     XReceiveNothing, Return
<1>2. \A d \in Node : d # c => ncalls'[d] = ncalls[d]
  BY DEF CallStep, Start, Send, ReceiveLength, Receive, Wait, XSend, XReceiveLength, XReceive,
     XReceiveNothing, Return, LinksTypeOK
<1>3. \A d \in Node : d # c => written'[d] = written[d]
  <2>1. CASE Start(c)
    BY <2>1 DEF Start, LinksTypeOK
  <2>2. CASE Send(c)
    BY <2>2 DEF Send, LinksTypeOK
  <2>3. CASE XSend(c)
    BY <2>3 DEF XSend, LinksTypeOK
  <2>4. CASE ~Start(c) /\ ~Send(c) /\ ~XSend(c)
    BY <2>4 DEF CallStep, ReceiveLength, Receive, Wait, XReceiveLength, XReceive,
       XReceiveNothing, Return
  <2> QED
    BY <2>1, <2>2, <2>3, <2>4
<1>4. \A d \in Node : d # c => loc'[d] = loc[d]
  <2>1. \/ loc' = loc
        \/ \E x : loc' = [loc EXCEPT ![c] = x]
    <3>1. CASE Start(c) \/ Send(c) \/ Receive(c)
      BY <3>1 DEF Start, Send, Receive
    <3>2. CASE ReceiveLength(c) \/ Wait(c) \/ XSend(c) \/ Return(c)
      BY <3>2 DEF ReceiveLength, Wait, XSend, Return
    <3>3. CASE XReceiveLength(c) \/ XReceive(c) \/ XReceiveNothing(c)
      BY <3>3 DEF XReceiveLength, XReceive, XReceiveNothing, Continue
    <3> QED
      BY <3>1, <3>2, <3>3 DEF CallStep
  <2> QED
    BY <2>1 DEF LinksTypeOK
<1>5. ASSUME NEW l \in Link
      PROVE  \/ wire'[l] = wire[l]
             \/ l[1] = c /\ loc[c] \in {"send", "x_send"}
             \/ l[2] = c /\ loc[c] \in {"length", "receive", "x_receive"}
  <2>1. CASE Start(c) \/ Wait(c) \/ XReceiveNothing(c) \/ Return(c)
    BY <2>1 DEF Start, Wait, XReceiveNothing, Return
  <2>2. CASE Send(c)
    <3>1. loc[c] = "send" /\ \E f : wire' = [wire EXCEPT ![To(c)] = f]
      BY <2>2 DEF Send, WriteSome
    <3> QED
      BY <3>1 DEF LinksTypeOK, To
  <2>3. CASE XSend(c)
    <3>1. loc[c] = "x_send" /\ (wire' = wire \/ \E f : wire' = [wire EXCEPT ![To(c)] = f])
      BY <2>3 DEF XSend, WriteSome
    <3> QED
      BY <3>1 DEF LinksTypeOK, To
  <2>4. CASE ReceiveLength(c) \/ Receive(c)
    <3>1. loc[c] \in {"length", "receive"} /\ \E f : wire' = [wire EXCEPT ![From(c)] = f]
      BY <2>4 DEF ReceiveLength, Receive, ReadSome
    <3> QED
      BY <3>1 DEF LinksTypeOK, From
  <2>5. CASE XReceiveLength(c) \/ XReceive(c)
    <3>1. loc[c] = "x_receive" /\ \E f : wire' = [wire EXCEPT ![From(c)] = f]
      BY <2>5 DEF XReceiveLength, XReceive, ReadSome
    <3> QED
      BY <3>1 DEF LinksTypeOK, From
  <2> QED
    BY <2>1, <2>2, <2>3, <2>4, <2>5 DEF CallStep
<1> QED
  BY <1>1, <1>2, <1>3, <1>4, <1>5

(* The player itself only begins its call and fills the buffers. *)
LEMMA StalledOwn ==
    ASSUME LinksTypeOK, LinksInv, NEW a \in Node, NEW b \in Node, Facing(a, b),
           Stalled(a, b), CallStep(a)
    PROVE  Stalled(a, b)'
<1>1. PICK l \in Link :
          /\ l = <<a, b>> /\ Waiting(a) /\ This(a).op = "send" /\ Sends(a) /\ ~Receives(a)
          /\ ~Delegates(a) /\ To(a) = l /\ This(a).len \in Nat
          /\ Capacity < LENGTH_SIZE + This(a).len
  BY FacingFacts DEF Stalled
<1>2. /\ ncalls[a] = 0 /\ loc[a] \in {"idle", "send"}
      /\ Len(wire[l]) = IF loc[a] = "send" THEN written[a] ELSE 0
      /\ Len(wire[l]) <= Capacity /\ Len(wire[l]) \in Nat /\ wire[l] \in Seq(Octet)
      /\ written[a] \in Nat /\ Capacity \in Nat /\ LENGTH_SIZE \in Nat
  BY <1>1, LinksTyped, CapacityAssumption DEF Stalled
<1>3. Start(a) \/ Send(a)
  BY <1>2 DEF CallStep, ReceiveLength, Receive, Wait, XSend, XReceiveLength, XReceive,
     XReceiveNothing, Return
<1>4. CASE Start(a)
  <2>1. /\ loc[a] = "idle" /\ ncalls' = ncalls /\ wire' = wire
        /\ loc' = [loc EXCEPT ![a] = FirstStep(a)] /\ written' = [written EXCEPT ![a] = 0]
    BY <1>4 DEF Start
  <2>2. loc'[a] = "send" /\ written'[a] = 0
    BY <1>1, <2>1 DEF FirstStep, LinksTypeOK
  <2>3. Len(wire'[l]) = 0
    BY <1>2, <2>1
  <2> QED
    BY <1>1, <1>2, <2>1, <2>2, <2>3 DEF Stalled
<1>5. CASE Send(a)
  <2>1. loc[a] = "send" /\ ncalls' = ncalls
    BY <1>5 DEF Send
  <2>2. Busy(a) /\ Outgoing(a)
    BY <1>1, <2>1, MidCall DEF Busy
  <2>3. data[a] = Current(a) /\ Len(Current(a)) = This(a).len /\ Current(a) \in Seq(Octet)
    BY <1>1, <2>1, <2>2, MidCall DEF Outgoing
  <2>4. Target(a) = LENGTH_SIZE + This(a).len /\ Target(a) \in Nat
    BY <1>1, <1>2, <2>3 DEF Target
  <2>5. PICK n \in Amounts(a, Least(Target(a) - written[a], Room(To(a)))) :
            /\ WriteSome(To(a), Frame(data[a]), written[a], n)
            /\ written' = [written EXCEPT ![a] = @ + n]
            /\ written[a] + n < Target(a) => loc' = loc
    BY <1>5 DEF Send
  <2>6. n \in Nat /\ n <= Target(a) - written[a] /\ n <= Room(l)
    <3>1. Target(a) - written[a] \in Int /\ Room(l) \in Int
      BY <1>2, <2>4 DEF Room
    <3>2. PICK m : m = Least(Target(a) - written[a], Room(l))
      OBVIOUS
    <3>3. m \in Int /\ m <= Target(a) - written[a] /\ m <= Room(l)
      BY <3>1, <3>2, LeastFacts
    <3>4. n \in Nat /\ n <= m
      BY <1>1, <2>5, <3>2, <3>3, AmountsFacts
    <3> QED
      BY <3>1, <3>3, <3>4
  <2>7. written[a] + n <= Capacity /\ written[a] = Len(wire[l])
    BY <1>2, <2>1, <2>6 DEF Room
  <2>8. loc'[a] = "send" /\ written'[a] = written[a] + n
    <3>1. written[a] + n < Target(a)
      BY <1>1, <1>2, <2>4, <2>6, <2>7
    <3> QED
      BY <2>1, <2>5, <3>1 DEF LinksTypeOK
  <2>9. PICK f : f = SubSeq(Frame(data[a]), written[a] + 1, written[a] + n)
    OBVIOUS
  <2>10. f \in Seq(Octet) /\ Len(f) = n
    <3>1. PICK s \in Seq(Octet), k \in Nat : s = Frame(data[a]) /\ k = written[a] /\ k + n <= Len(s)
      <4>1. Frame(data[a]) \in Seq(Octet) /\ Len(Frame(data[a])) = LENGTH_SIZE + This(a).len
        BY <2>3, FrameAt DEF Whole
      <4>2. written[a] + n <= LENGTH_SIZE + This(a).len
        BY <1>1, <1>2, <2>6, <2>7
      <4> QED
        BY <1>2, <4>1, <4>2
    <3>2. s \in Seq(Octet) /\ k \in Nat /\ n \in Nat /\ k + n <= Len(s)
      BY <2>6, <3>1
    <3> HIDE <2>5
    <3>3. SubSeq(s, k + 1, k + n) \in Seq(Octet) /\ Len(SubSeq(s, k + 1, k + n)) = n
      BY <3>2, Slice
    <3> QED
      BY <2>9, <3>1, <3>3
  <2>11. wire'[l] = wire[l] \o f
    BY <1>1, <2>5, <2>9 DEF WriteSome, LinksTypeOK
  <2>12. Len(wire[l] \o f) = Len(wire[l]) + n
    BY <1>2, <2>10, ConcatProperties
  <2>13. Len(wire'[l]) = written'[a] /\ Len(wire'[l]) <= Capacity
    BY <2>7, <2>8, <2>11, <2>12
  <2> QED
    BY <1>1, <1>2, <2>1, <2>8, <2>13 DEF Stalled
<1> QED
  BY <1>3, <1>4, <1>5

LEMMA StallStep ==
    ASSUME LinksTypeOK, LinksInv, StallInv, [LinksNext]_linkVars
    PROVE  StallInv'
<1>1. script' = script
  <2>1. ASSUME NEW c \in Node, CallStep(c) PROVE script' = script
    BY <2>1, StepTouches
  <2> QED
    BY <2>1 DEF LinksNext, linkVars, SenderStep, SenderTake, SenderWrite
<1>2. \A a, b : Facing(a, b)' <=> Facing(a, b)
  BY <1>1 DEF Facing, Calls
<1> SUFFICES ASSUME NEW ring \in SUBSET Node,
                    \A c \in ring : \E d \in ring : Facing(c, d),
                    NEW a \in ring, NEW b \in ring, Facing(a, b)
             PROVE  Stalled(a, b)'
  BY <1>2 DEF StallInv
<1>0. PICK d \in ring : Facing(b, d)
  OBVIOUS
<1>3. Stalled(a, b) /\ Stalled(b, d)
  BY <1>0 DEF StallInv
<1>4. PICK l \in Link : l = <<a, b>> /\ l[1] = a /\ l[2] = b
  BY <1>3, FacingFacts DEF Stalled
<1>5. loc[a] \in {"idle", "send"} /\ loc[b] \in {"idle", "send"}
  BY <1>3 DEF Stalled
<1>6. ASSUME ncalls'[a] = ncalls[a], loc'[a] = loc[a], written'[a] = written[a],
             wire'[l] = wire[l]
      PROVE  Stalled(a, b)'
  BY <1>3, <1>4, <1>6 DEF Stalled
<1>7. ASSUME NEW c \in Node, CallStep(c) PROVE Stalled(a, b)'
  <2>1. CASE c = a
    BY <1>3, <1>7, <2>1, StalledOwn
  <2>2. CASE c # a
    <3>1. ncalls'[a] = ncalls[a] /\ loc'[a] = loc[a] /\ written'[a] = written[a]
      BY <1>7, <2>2, StepTouches
    <3>2. wire'[l] = wire[l]
      <4>1. \/ wire'[l] = wire[l]
            \/ l[1] = c /\ loc[c] \in {"send", "x_send"}
            \/ l[2] = c /\ loc[c] \in {"length", "receive", "x_receive"}
        BY <1>7, StepTouches
      <4> QED
        BY <1>4, <1>5, <2>2, <4>1
    <3> QED
      BY <1>6, <3>1, <3>2
  <2> QED
    BY <2>1, <2>2
<1>8. ASSUME NEW m \in Link, SenderStep(m) PROVE Stalled(a, b)'
  <2>1. ncalls' = ncalls /\ loc' = loc /\ written' = written
    BY <1>8 DEF SenderStep, SenderTake, SenderWrite
  <2>2. m # l
    <3>1. SUFFICES ASSUME m = l PROVE FALSE
      OBVIOUS
    <3>2. requests[m] > 0 \/ sending[m] # Idle
      BY <1>8 DEF SenderStep, SenderTake, SenderWrite
    <3>3. Delegating(l)
      BY <3>1, <3>2, AtWork
    <3> QED
      BY <1>4, <1>5, <3>3 DEF Delegating
  <2>3. wire'[l] = wire[l]
    <3>1. wire' = wire \/ \E f : wire' = [wire EXCEPT ![m] = f]
      BY <1>8 DEF SenderStep, SenderTake, SenderWrite, WriteSome
    <3> QED
      BY <2>2, <3>1 DEF LinksTypeOK
  <2> QED
    BY <1>6, <2>1, <2>3
<1>9. CASE UNCHANGED linkVars
  BY <1>6, <1>9 DEF linkVars
<1> QED
  BY <1>7, <1>8, <1>9 DEF LinksNext

(***************************************************************************)
(* octetStream::Send blocks until all is written: of players in a ring     *)
(* that each send the next more than the buffers of a connection hold      *)
(* before they read, none ever gets past that call.                        *)
(***************************************************************************)
THEOREM LargeBatchesStallCorrect == LinksSpec => []LargeBatchesStall
<1>1. LinksInit => StallInv
  <2>1. LinksInit => \A a \in Node : ncalls[a] = 0 /\ loc[a] = "idle"
    BY DEF LinksInit
  <2>2. ASSUME LinksInit, NEW a \in Node, NEW b \in Node, Facing(a, b) PROVE Stalled(a, b)
    <3>1. <<a, b>> \in Link
      BY <2>1, <2>2, LinksStart, FacingFacts
    <3>2. Len(wire[<<a, b>>]) = 0
      BY <2>2, <3>1, EmptySeq DEF LinksInit
    <3> QED
      BY <2>1, <2>2, <3>2, CapacityAssumption DEF Stalled
  <2> QED
    BY <2>2 DEF StallInv
<1>2. LinksTypeOK /\ LinksInv /\ StallInv /\ [LinksNext]_linkVars => StallInv'
  BY StallStep
<1>3. StallInv => LargeBatchesStall
  <2>1. SUFFICES ASSUME StallInv, NEW ring \in SUBSET Node,
                        \A c \in ring : \E d \in ring : Facing(c, d),
                        NEW a \in ring
                 PROVE  ncalls[a] = 0
    BY DEF LargeBatchesStall
  <2>2. PICK b \in ring : Facing(a, b)
    BY <2>1
  <2>3. Stalled(a, b)
    BY <2>1, <2>2 DEF StallInv
  <2> QED
    BY <2>3 DEF Stalled
<1> QED
  BY <1>1, <1>2, <1>3, LinksInvariant, PTL DEF LinksSpec
=============================================================================
