------------------------------- MODULE Links --------------------------------
(***************************************************************************)
(* octetStream::Send, Receive and exchange over sockets whose buffers are  *)
(* bounded, for any number of players that make calls on them, and         *)
(* CryptoPlayer::pass_around with its Sender thread.  A player is one      *)
(* MultiPlayer object: sockets to its peers, used by one thread.           *)
(*                                                                         *)
(* The octets of a stream are told apart by their origin, so that any mix- *)
(* up of streams or places shows.  Sockets are plain or, in a CryptoPlayer,*)
(* TLS streams.  On the latter no call is non-blocking; there an octet     *)
(* stands for a TLS record, which is written and read as a whole.          *)
(***************************************************************************)
EXTENDS Integers, Sequences

CONSTANTS
    Node,           \* the players
    Scripts,        \* what they do: records of calls and encrypted players
    Capacity,       \* octets that fit into the buffers of a connection, in
                    \* one direction
    LENGTH_SIZE     \* octets of the length before each stream

Link == {l \in Node \X Node : l[1] # l[2]}

(* send_to, receive_player, exchange or Broadcast_Receive, pass_around.    *)
Call ==
    [op : {"send"}, to : Node, len : Nat]
        \cup [op : {"receive"}, from : Node]
        \cup [op : {"exchange", "pass"}, to : Node, from : Node, len : Nat,
              in_place : BOOLEAN]

ASSUME CapacityAssumption ==
    Capacity \in Nat /\ LENGTH_SIZE \in Nat \ {0} /\ LENGTH_SIZE < Capacity

ASSUME ScriptsAssumption ==
    \A s \in Scripts :
        /\ s.calls \in [Node -> Seq(Call)]
        /\ s.encrypted \subseteq Node
        /\ \A a \in Node : \A j \in DOMAIN s.calls[a] :
              LET c == s.calls[a][j]
              IN  /\ c.op # "receive" => c.to # a
                  /\ c.op # "send" => c.from # a

VARIABLES
    script,         \* the calls of all players
    ncalls,         \* how many of its calls each player has made
    loc,            \* where it is in the current one
    written,        \* octets written, the length included
    received,       \* octets received, the length not included
    new_len,        \* the length received, or Unknown
    data,           \* the stream that is sent; if in place, also received to
    into,           \* otherwise, the stream received to
    wire,           \* octets in the buffers of each connection
    requests,       \* Sender::in, how many streams are requested
    sending,        \* octets of its stream that the Sender has written, or Idle
    replies,        \* Sender::out, how many streams have been sent
    given, got      \* history: the streams sent and received on each link

linkVars == <<script, ncalls, loc, written, received, new_len, data, into, wire,
              requests, sending, replies, given, got>>

buffers == <<data, into>>
senders == <<requests, sending, replies>>
history == <<given, got>>

Unknown == -1
Idle    == -1

LinksInit ==
    /\ script \in Scripts
    /\ ncalls = [a \in Node |-> 0]
    /\ loc = [a \in Node |-> "idle"]
    /\ written = [a \in Node |-> 0]
    /\ received = [a \in Node |-> 0]
    /\ new_len = [a \in Node |-> Unknown]
    /\ data = [a \in Node |-> <<>>]
    /\ into = [a \in Node |-> <<>>]
    /\ wire = [l \in Link |-> <<>>]
    /\ requests = [l \in Link |-> 0]
    /\ sending = [l \in Link |-> Idle]
    /\ replies = [l \in Link |-> 0]
    /\ given = [l \in Link |-> <<>>]
    /\ got = [l \in Link |-> <<>>]

Encrypted(a) == a \in script.encrypted
Calls(a)     == script.calls[a]
Waiting(a)   == ncalls[a] < Len(Calls(a))
This(a)      == Calls(a)[ncalls[a] + 1]
To(a)        == <<a, This(a).to>>
From(a)      == <<This(a).from, a>>
Sends(a)     == This(a).op # "receive"
Receives(a)  == This(a).op # "send"
InPlace(a)   == This(a).op \in {"exchange", "pass"} /\ This(a).in_place

(* pass_around leaves the writing to the Sender of the next player, unless *)
(* the stream is received to where it is sent from or both go through the  *)
(* same socket.                                                            *)

(* Fault: the sockets are not compared. *)
EagerDelegates(a) == This(a).op = "pass" /\ Encrypted(a) /\ ~InPlace(a)

Delegates(a) ==
    /\ This(a).op = "pass"
    /\ Encrypted(a)
    /\ ~(InPlace(a) \/ This(a).to = This(a).from)

Payload(a, k, n) == [i \in 1 .. n |-> <<a, k, i>>]
Length(n)        == [i \in 1 .. LENGTH_SIZE |-> <<n, i>>]
Frame(stream)    == Length(Len(stream)) \o stream

Least(m, n) == IF m < n THEN m ELSE n

-----------------------------------------------------------------------------
(***************************************************************************)
(* The sockets.  A call may write or read less than it is asked to; a TLS  *)
(* call handles one record.                                                *)
(***************************************************************************)
Room(l) == Capacity - Len(wire[l])

Amounts(a, most) == {n \in 1 .. most : Encrypted(a) => n = 1}

(* The next octets of a frame go out. *)
WriteSome(l, frame, done, n) ==
    wire' = [wire EXCEPT ![l] = @ \o SubSeq(frame, done + 1, done + n)]

Writable(a, l, frame, done) == Amounts(a, Least(Len(frame) - done, Room(l)))
Readable(a, l, wanted)      == Amounts(a, Least(wanted, Len(wire[l])))

LengthThere(l) == Len(wire[l]) >= LENGTH_SIZE

-----------------------------------------------------------------------------
(* A call begins; the stream to send is what it was at this moment.        *)
FirstStep(a) ==
    IF Delegates(a) \/ ~Sends(a) THEN "length" ELSE "send"

Start(a) ==
    /\ loc[a] = "idle"
    /\ Waiting(a)
    /\ LET stream == IF Sends(a) THEN Payload(a, ncalls[a] + 1, This(a).len) ELSE <<>>
       IN  /\ data' = [data EXCEPT ![a] = stream]
           /\ given' = IF Sends(a) THEN [given EXCEPT ![To(a)] = Append(@, stream)]
                       ELSE given
    /\ into' = [into EXCEPT ![a] = <<>>]
    /\ written' = [written EXCEPT ![a] = 0]
    /\ received' = [received EXCEPT ![a] = 0]
    /\ new_len' = [new_len EXCEPT ![a] = Unknown]
    /\ requests' = IF Delegates(a) THEN [requests EXCEPT ![To(a)] = @ + 1] ELSE requests
    /\ loc' = [loc EXCEPT ![a] = FirstStep(a)]
    /\ UNCHANGED <<script, ncalls, wire, sending, replies, got>>

(***************************************************************************)
(* The blocking send: all of the stream for Send, for exchange the length  *)
(* only.                                                                   *)
(***************************************************************************)
(* Fault: exchange sends all of its stream before it receives. *)
SimpleTarget(a) == LENGTH_SIZE + Len(data[a])

(* Fault: Send does not wait for more than the length to be written. *)
HeaderTarget(a) == LENGTH_SIZE

Target(a) == IF This(a).op = "send" THEN LENGTH_SIZE + Len(data[a]) ELSE LENGTH_SIZE

Send(a) ==
    /\ loc[a] = "send"
    /\ \E n \in Amounts(a, Least(Target(a) - written[a], Room(To(a)))) :
          /\ WriteSome(To(a), Frame(data[a]), written[a], n)
          /\ written' = [written EXCEPT ![a] = @ + n]
          /\ loc' = IF written[a] + n < Target(a) THEN loc
                    ELSE [loc EXCEPT ![a] =
                            IF This(a).op = "send" THEN "return"
                            ELSE IF written[a] + n < LENGTH_SIZE + Len(data[a]) THEN "x_send"
                            ELSE "x_receive"]
    /\ UNCHANGED <<script, ncalls, received, new_len, buffers, senders, history>>

-----------------------------------------------------------------------------
(***************************************************************************)
(* Receive: the length, then all of the stream, blocking.  A delegated     *)
(* pass_around then waits for its Sender.                                  *)
(***************************************************************************)
AfterReceive(a) == IF Delegates(a) THEN "wait" ELSE "return"

TakeLength(l) == Head(wire[l])[1]

ReceiveLength(a) ==
    /\ loc[a] = "length"
    /\ LengthThere(From(a))
    /\ new_len' = [new_len EXCEPT ![a] = TakeLength(From(a))]
    /\ wire' = [wire EXCEPT ![From(a)] = SubSeq(@, LENGTH_SIZE + 1, Len(@))]
    /\ loc' = [loc EXCEPT ![a] = IF TakeLength(From(a)) > 0 THEN "receive"
                                 ELSE AfterReceive(a)]
    /\ UNCHANGED <<script, ncalls, written, received, buffers, senders, history>>

(* The next n octets arrive at their place in the buffer. *)
Placed(buffer, start, octets) ==
    SubSeq(buffer, 1, start) \o octets \o SubSeq(buffer, start + Len(octets) + 1, Len(buffer))

ReadSome(a, n) ==
    LET octets == SubSeq(wire[From(a)], 1, n)
    IN  /\ IF InPlace(a)
           THEN /\ data' = [data EXCEPT ![a] = Placed(@, received[a], octets)]
                /\ UNCHANGED into
           ELSE /\ into' = [into EXCEPT ![a] = Placed(@, received[a], octets)]
                /\ UNCHANGED data
        /\ wire' = [wire EXCEPT ![From(a)] = SubSeq(@, n + 1, Len(@))]
        /\ received' = [received EXCEPT ![a] = @ + n]

Receive(a) ==
    /\ loc[a] = "receive"
    /\ \E n \in Readable(a, From(a), new_len[a] - received[a]) :
          /\ ReadSome(a, n)
          /\ loc' = IF received[a] + n < new_len[a] THEN loc
                    ELSE [loc EXCEPT ![a] = AfterReceive(a)]
    /\ UNCHANGED <<script, ncalls, written, new_len, senders, history>>

(* Fault: the reply is not waited for. *)
HastyWait(a) ==
    /\ loc[a] = "wait"
    /\ replies' = [replies EXCEPT ![To(a)] = @ - 1]
    /\ loc' = [loc EXCEPT ![a] = "return"]
    /\ UNCHANGED <<script, ncalls, written, received, new_len, buffers, wire,
                   requests, sending, history>>

Wait(a) ==
    /\ loc[a] = "wait"
    /\ replies[To(a)] > 0
    /\ replies' = [replies EXCEPT ![To(a)] = @ - 1]
    /\ loc' = [loc EXCEPT ![a] = "return"]
    /\ UNCHANGED <<script, ncalls, written, received, new_len, buffers, wire,
                   requests, sending, history>>

-----------------------------------------------------------------------------
(***************************************************************************)
(* The loop of exchange: send something if there is something left, then   *)
(* receive something.  sent and len are those of the code, the stream's    *)
(* own octets.  On a plain socket a step of the loop does what is possible *)
(* at once; only when all is sent does it wait.                            *)
(***************************************************************************)
len(a)  == This(a).len
sent(a) == written[a] - LENGTH_SIZE

XSend(a) ==
    /\ loc[a] = "x_send"
    /\ LET most == Least(len(a) - sent(a), Room(To(a)))
       IN  \/ \E n \in Amounts(a, most) :
                 /\ WriteSome(To(a), Length(len(a)) \o data[a], written[a], n)
                 /\ written' = [written EXCEPT ![a] = @ + n]
           \/ /\ most = 0 /\ ~Encrypted(a)
              /\ UNCHANGED <<wire, written>>
    /\ loc' = [loc EXCEPT ![a] = "x_receive"]
    /\ UNCHANGED <<script, ncalls, received, new_len, buffers, senders, history>>

(* Where the loop goes with so much sent and received. *)
Continue(a, expected, there) ==
    [loc EXCEPT ![a] = IF sent(a) < len(a) THEN "x_send"
                       ELSE IF expected = Unknown \/ there < expected THEN "x_receive"
                       ELSE "return"]

(* Non-blocking means to give up if there is nothing yet. *)
MayGiveUp(a) == sent(a) < len(a) /\ ~Encrypted(a)

XReceiveLength(a) ==
    /\ loc[a] = "x_receive"
    /\ new_len[a] = Unknown
    /\ LengthThere(From(a))
    /\ new_len' = [new_len EXCEPT ![a] = TakeLength(From(a))]
    /\ wire' = [wire EXCEPT ![From(a)] = SubSeq(@, LENGTH_SIZE + 1, Len(@))]
    /\ loc' = Continue(a, TakeLength(From(a)), 0)
    /\ UNCHANGED <<script, ncalls, written, received, buffers, senders, history>>

(* Into the stream being sent only up to what has been sent of it. *)

(* Fault: the two streams are taken to be different ones. *)
GreedyToReceive(a) == new_len[a] - received[a]

ToReceive(a) ==
    IF sent(a) = len(a) \/ ~InPlace(a) THEN new_len[a] - received[a]
    ELSE Least(sent(a), new_len[a]) - received[a]

XReceive(a) ==
    /\ loc[a] = "x_receive"
    /\ received[a] < new_len[a]
    /\ \E n \in Readable(a, From(a), ToReceive(a)) :
          /\ ReadSome(a, n)
          /\ loc' = Continue(a, new_len[a], received[a] + n)
    /\ UNCHANGED <<script, ncalls, written, new_len, senders, history>>

XReceiveNothing(a) ==
    /\ loc[a] = "x_receive"
    /\ \/ new_len[a] = Unknown /\ ~LengthThere(From(a)) /\ MayGiveUp(a)
       \/ /\ received[a] < new_len[a] /\ ToReceive(a) > 0
          /\ wire[From(a)] = <<>> /\ MayGiveUp(a)
       \/ received[a] < new_len[a] /\ ToReceive(a) <= 0
       \/ new_len[a] # Unknown /\ received[a] >= new_len[a]
    /\ loc' = Continue(a, new_len[a], received[a])
    /\ UNCHANGED <<script, ncalls, written, received, new_len, buffers, wire,
                   senders, history>>

(* The call returns to the protocol, with its stream if it receives. *)
Return(a) ==
    /\ loc[a] = "return"
    /\ loc' = [loc EXCEPT ![a] = "idle"]
    /\ ncalls' = [ncalls EXCEPT ![a] = @ + 1]
    /\ got' = IF Receives(a)
              THEN [got EXCEPT ![From(a)] =
                      Append(@, IF InPlace(a) THEN SubSeq(data[a], 1, new_len[a])
                                ELSE into[a])]
              ELSE got
    /\ UNCHANGED <<script, written, received, new_len, buffers, wire, senders, given>>

-----------------------------------------------------------------------------
(***************************************************************************)
(* The Sender thread of a connection.  It reads the stream where the       *)
(* caller has it.                                                          *)
(***************************************************************************)
SenderTake(l) ==
    /\ sending[l] = Idle
    /\ requests[l] > 0
    /\ requests' = [requests EXCEPT ![l] = @ - 1]
    /\ sending' = [sending EXCEPT ![l] = 0]
    /\ UNCHANGED <<script, ncalls, loc, written, received, new_len, buffers, wire,
                   replies, history>>

SenderWrite(l) ==
    /\ sending[l] # Idle
    /\ LET a     == l[1]
           frame == Frame(data[a])
       IN  \E n \in Writable(a, l, frame, sending[l]) :
             /\ WriteSome(l, frame, sending[l], n)
             /\ IF sending[l] + n < Len(frame)
                THEN /\ sending' = [sending EXCEPT ![l] = @ + n]
                     /\ UNCHANGED replies
                ELSE /\ sending' = [sending EXCEPT ![l] = Idle]
                     /\ replies' = [replies EXCEPT ![l] = @ + 1]
    /\ UNCHANGED <<script, ncalls, loc, written, received, new_len, buffers,
                   requests, history>>

-----------------------------------------------------------------------------
CallStep(a) ==
    \/ Start(a)
    \/ Send(a)
    \/ ReceiveLength(a)
    \/ Receive(a)
    \/ Wait(a)
    \/ XSend(a)
    \/ XReceiveLength(a)
    \/ XReceive(a)
    \/ XReceiveNothing(a)
    \/ Return(a)

SenderStep(l) == SenderTake(l) \/ SenderWrite(l)

LinksNext == (\E a \in Node : CallStep(a)) \/ (\E l \in Link : SenderStep(l))

(* Every player and every Sender is a thread that the system schedules. *)
LinksSpec ==
    /\ LinksInit /\ [][LinksNext]_linkVars
    /\ \A a \in Node : WF_linkVars(CallStep(a))
    /\ \A l \in Link : WF_linkVars(SenderStep(l))

-----------------------------------------------------------------------------
(* Every variable ranges over what the code can put there. *)
Octet == (Nat \X (1 .. LENGTH_SIZE)) \cup (Node \X Nat \X Nat)

LinksTypeOK ==
    /\ script \in Scripts
    /\ ncalls \in [Node -> Nat]
    /\ loc \in [Node -> {"idle", "send", "length", "receive", "wait", "x_send",
                         "x_receive", "return"}]
    /\ written \in [Node -> Nat]
    /\ received \in [Node -> Nat]
    /\ new_len \in [Node -> Nat \cup {Unknown}]
    /\ data \in [Node -> Seq(Octet)] /\ into \in [Node -> Seq(Octet)]
    /\ wire \in [Link -> Seq(Octet)]
    /\ requests \in [Link -> Nat]
    /\ sending \in [Link -> Nat \cup {Idle}]
    /\ replies \in [Link -> Nat]
    /\ given \in [Link -> Seq(Seq(Octet))] /\ got \in [Link -> Seq(Seq(Octet))]

(***************************************************************************)
(* Connections are queues of whole streams: every call returns the stream  *)
(* that the peer's matching call was given, in order and unharmed, though  *)
(* octets arrive in pieces, streams are overwritten while they are sent    *)
(* and Senders read them behind the caller's back.                         *)
(***************************************************************************)
Streams ==
    UNION {{Payload(a, j, s.calls[a][j].len) :
              j \in {i \in DOMAIN s.calls[a] : s.calls[a][i].op # "receive"}} :
           s \in Scripts, a \in Node}

Queues == INSTANCE Channels
             WITH Stream <- Streams,
                  chan   <- [l \in Link |-> SubSeq(given[l], Len(got[l]) + 1, Len(given[l]))]

Delivers == Queues!Spec

(***************************************************************************)
(* A TLS stream must not be used by two threads at once: while a Sender    *)
(* has a stream to write, its player neither writes to nor reads from the  *)
(* same peer.  Nor is the player out of its pass_around then, as the       *)
(* destructor ~CryptoPlayer deletes the sockets before the Senders.        *)
(***************************************************************************)
SenderBusy(l) == requests[l] > 0 \/ sending[l] # Idle

Uses(a, b) ==
    \/ loc[a] \in {"send", "x_send"} /\ This(a).to = b
    \/ loc[a] \in {"length", "receive", "x_receive"} /\ This(a).from = b

OneThreadPerSocket ==
    \A l \in Link : SenderBusy(l) =>
        /\ ~Uses(l[1], l[2])
        /\ loc[l[1]] \in {"length", "receive", "wait"}

(***************************************************************************)
(* Every call returns if every stream sent by a blocking send fits into    *)
(* the buffers, whatever the sizes that are exchanged or passed around.    *)
(***************************************************************************)
Done == \A a \in Node : loc[a] = "idle" /\ ~Waiting(a)

Fitting ==
    \A a \in Node : \A j \in DOMAIN Calls(a) :
        Calls(a)[j].op = "send" => LENGTH_SIZE + Calls(a)[j].len <= Capacity

Completes == Fitting => <>Done

(***************************************************************************)
(* The bound is real: players in a ring whose first calls each send more   *)
(* than that to the next never get past them.  Two parties are such a ring *)
(* in an AND batch (parties 0, 1), three of them when all deal inputs.     *)
(***************************************************************************)
Facing(a, b) ==
    /\ Calls(a) # <<>>
    /\ Calls(a)[1].op = "send" /\ Calls(a)[1].to = b
    /\ LENGTH_SIZE + Calls(a)[1].len > Capacity

LargeBatchesStall ==
    \A ring \in SUBSET Node :
        (\A a \in ring : \E b \in ring : Facing(a, b)) => \A a \in ring : ncalls[a] = 0
=============================================================================
