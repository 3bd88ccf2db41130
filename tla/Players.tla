------------------------------ MODULE Players -------------------------------
(***************************************************************************)
(* The life of the players of a binary machine: the parties learn of each  *)
(* other from the coordinator (Server), listen (ServerSocket) and build a  *)
(* player per thread whose connections are told apart by ids, with TLS     *)
(* handshakes; the threads open values; the main threads synchronize when  *)
(* their threads have finished, and close everything.  A party may crash,  *)
(* or give up waiting; nothing catches the exceptions of its peers.        *)
(*                                                                         *)
(* The streams in the connections are counted here, see Links for octets.  *)
(***************************************************************************)
EXTENDS Integers, Sequences, FiniteSets

CONSTANT Scenarios      \* what may be run

(* A group is the players that are connected to each other, one at every   *)
(* party: those of a thread, of the main threads, of the OT set-up.        *)
Master == -1
OT     == -2

Scenario ==
    [n        : Nat \ {0, 1},   \* parties
     threads  : Nat,            \* threads of each
     ot       : BOOLEAN,        \* whether the machine needs OT
     encrypted : BOOLEAN,       \* machine.use_encryption
     rounds   : Nat,            \* openings of each thread
     late     : BOOLEAN,        \* bound: whether ids come after the accept
     failures : Nat]            \* bound on crashes and timeouts

ASSUME ScenariosAssumption ==
    \A s \in Scenarios :
        s \in Scenario /\ s.n < 65536 /\ 0 < s.threads /\ s.threads <= 32768

VARIABLES
    scenario,
    coordinator,    \* Server::start: its loop and the party it is at
    main,           \* the main thread before the first player
    listening,      \* parties whose ServerSocket accepts
    backlog,        \* per party: connections that have not been accepted
    identified,     \* connections whose client has sent its id
    jobs,           \* per party: accepted connections without id, ServerJob
    clients, used,  \* per party: those fields of its ServerSocket
    at, idx,        \* where each player is, and the peer it is at
    accepted,       \* per player: the connections that it serves
    shaking,        \* TLS handshakes begun, by player and peer
    opened,         \* streams of openings each player has sent
    dead,           \* parties that crashed or threw
    budget          \* crashes and timeouts left

netVars    == <<listening, backlog, identified, jobs, clients, used, accepted>>
playerVars == <<scenario, coordinator, main, netVars, at, idx, shaking, opened, dead, budget>>

Parties    == 0 .. scenario.n - 1
Threads    == 0 .. scenario.threads - 1
Groups     == Threads \cup {Master} \cup (IF scenario.ot THEN {OT} ELSE {})
Player     == Groups \X Parties
Peer(x, i) == <<x[1], i>>

(* A connection: its group, its client and its server. *)
Connection == {c \in Groups \X Parties \X Parties : c[2] <= c[3]}

(***************************************************************************)
(* portnum_base: the number of the thread shifted by 16 bits, 0xFFFF in    *)
(* the set-up for OT and 0xff << 24, as an int negative, in the master.    *)
(***************************************************************************)
(* Fault: the thread number is not shifted. *)
UnshiftedBase(g) == IF g = OT THEN 65535 ELSE IF g = Master THEN -(16777216) ELSE g

Base(g) == IF g = OT THEN 65535 ELSE IF g = Master THEN -(16777216) ELSE g * 65536

Id(g, client) == Base(g) + client

(* The players of the OT set-up and of the threads are CryptoPlayers. *)
Encrypted(x) == scenario.encrypted /\ x[1] # Master

PlayersInit ==
    /\ scenario \in Scenarios
    /\ coordinator = [phase |-> "collect", at |-> 0]
    /\ main = [p \in Parties |-> "start"]
    /\ listening = {}
    /\ backlog = [p \in Parties |-> {}]
    /\ identified = {}
    /\ jobs = [p \in Parties |-> {}]
    /\ clients = [p \in Parties |-> {}]
    /\ used = [p \in Parties |-> {}]
    /\ at = [x \in Player |-> "none"]
    /\ idx = [x \in Player |-> 0]
    /\ accepted = [x \in Player |-> <<>>]
    /\ shaking = [x \in Player |-> {}]
    /\ opened = [x \in Player |-> 0]
    /\ dead = {}
    /\ budget = scenario.failures

Alive(p) == p \notin dead

-----------------------------------------------------------------------------
(***************************************************************************)
(* The coordinator, a thread of party 0: it waits for all parties in turn, *)
(* starts each and gets its port, and sends everybody the list.            *)
(***************************************************************************)
Introduce(p) ==
    /\ Alive(p)
    /\ main[p] = "start"
    /\ main' = [main EXCEPT ![p] = "introduced"]
    /\ UNCHANGED <<scenario, coordinator, netVars, at, idx, shaking, opened, dead, budget>>

Coordinate ==
    /\ Alive(0)
    /\ LET k == coordinator.at
       IN  /\ k < scenario.n
           /\ main[k] # "start"
           /\ coordinator.phase = "names" => Alive(k)
           /\ coordinator' =
                IF k + 1 < scenario.n THEN [coordinator EXCEPT !.at = k + 1]
                ELSE CASE coordinator.phase = "collect" -> [phase |-> "names", at |-> 0]
                       [] coordinator.phase = "names"   -> [phase |-> "send", at |-> 0]
                       [] coordinator.phase = "send"    -> [coordinator EXCEPT !.at = k + 1]
    /\ UNCHANGED <<scenario, main, netVars, at, idx, shaking, opened, dead, budget>>

HasNames(p) == coordinator.phase = "send" /\ coordinator.at > p

(* The first player of the main thread begins with its own party. *)
Begin(p, g) == /\ at' = [at EXCEPT ![<<g, p>>] = "connect"]
               /\ idx' = [idx EXCEPT ![<<g, p>>] = p]

Listen(p) ==
    /\ Alive(p)
    /\ main[p] = "introduced"
    /\ HasNames(p)
    /\ main' = [main EXCEPT ![p] = "running"]
    /\ listening' = listening \cup {p}
    /\ Begin(p, IF scenario.ot THEN OT ELSE Master)
    /\ UNCHANGED <<scenario, coordinator, backlog, identified, jobs, clients, used,
                   accepted, shaking, opened, dead, budget>>

-----------------------------------------------------------------------------
(***************************************************************************)
(* setup_sockets, the client side: towards the own and every later party a *)
(* connection, and on it the id.                                           *)
(***************************************************************************)
Connect(x) ==
    LET p == x[2]
        q == idx[x]
    IN  /\ Alive(p) /\ Alive(q)
        /\ at[x] = "connect"
        /\ q \in listening
        /\ backlog' = [backlog EXCEPT ![q] = @ \cup {<<x[1], p, q>>}]
        /\ at' = [at EXCEPT ![x] = "identify"]
        /\ UNCHANGED <<scenario, coordinator, main, listening, identified, jobs, clients,
                       used, accepted, idx, shaking, opened, dead, budget>>

Identify(x) ==
    LET p    == x[2]
        last == idx[x] = scenario.n - 1
    IN  /\ Alive(p)
        /\ at[x] = "identify"
        /\ identified' = identified \cup {<<x[1], p, idx[x]>>}
        /\ at' = [at EXCEPT ![x] = IF last THEN "accept" ELSE "connect"]
        /\ idx' = [idx EXCEPT ![x] = IF last THEN 0 ELSE @ + 1]
        /\ UNCHANGED <<scenario, coordinator, main, listening, backlog, jobs, clients, used,
                       accepted, shaking, opened, dead, budget>>

(* process_connection: the newest connection with an id counts. *)
Known(q, c) == LET id == Id(c[1], c[2])
               IN  clients' = [clients EXCEPT ![q] =
                                 {r \in @ : r.id # id} \cup {[id |-> id, conn |-> c]}]

(* accept_clients, or a ServerJob if the id is not there yet. *)
Accept(q) ==
    /\ Alive(q)
    /\ \E c \in backlog[q] :
          /\ c \in identified \/ scenario.late
          /\ IF c \in identified
             THEN Known(q, c) /\ UNCHANGED jobs
             ELSE jobs' = [jobs EXCEPT ![q] = @ \cup {c}] /\ UNCHANGED clients
          /\ backlog' = [backlog EXCEPT ![q] = @ \ {c}]
    /\ UNCHANGED <<scenario, coordinator, main, listening, identified, used, accepted,
                   at, idx, shaking, opened, dead, budget>>

RunJob(q) ==
    /\ Alive(q)
    /\ \E c \in jobs[q] \cap identified :
          /\ Known(q, c)
          /\ jobs' = [jobs EXCEPT ![q] = @ \ {c}]
    /\ UNCHANGED <<scenario, coordinator, main, listening, backlog, identified, used, accepted,
                   at, idx, shaking, opened, dead, budget>>

(* The server side: get_connection_socket for the ids of all up to me. *)
Wanted(x)    == Id(x[1], idx[x])
Found(x)     == {r \in clients[x[2]] : r.id = Wanted(x)}

(* Fault: a client that is known is taken for one that has been asked for. *)
KnownRefused(x) == at[x] = "accept" /\ Found(x) # {}

Refused(x) == at[x] = "accept" /\ Wanted(x) \in used[x[2]]

(* Fault: each party starts with its next one. *)
CyclicFirstPeer(x) == (x[2] + 1) % scenario.n

FirstPeer(x) == IF x[2] = 0 THEN 1 ELSE 0

(* Where a player goes that has connections to everybody. *)
Connected(x) == IF Encrypted(x) THEN "shake" ELSE "ready"

GetConnection(x) ==
    LET p    == x[2]
        last == idx[x] = p
    IN  /\ Alive(p)
        /\ at[x] = "accept"
        /\ ~Refused(x)
        /\ \E r \in Found(x) : accepted' = [accepted EXCEPT ![x] = Append(@, r.conn)]
        /\ used' = [used EXCEPT ![p] = @ \cup {Wanted(x)}]
        /\ at' = [at EXCEPT ![x] = IF last THEN Connected(x) ELSE "accept"]
        /\ idx' = [idx EXCEPT ![x] = IF last THEN FirstPeer(x) ELSE @ + 1]
        /\ UNCHANGED <<scenario, coordinator, main, listening, backlog, identified, jobs,
                       clients, shaking, opened, dead, budget>>

-----------------------------------------------------------------------------
(***************************************************************************)
(* CryptoPlayer: the handshakes, with one peer after the other.            *)
(***************************************************************************)
NextPeer(x) == IF idx[x] + 1 = x[2] THEN idx[x] + 2 ELSE idx[x] + 1

BeginHandshake(x) ==
    /\ Alive(x[2])
    /\ at[x] = "shake"
    /\ shaking' = [shaking EXCEPT ![x] = @ \cup {idx[x]}]
    /\ at' = [at EXCEPT ![x] = "shaking"]
    /\ UNCHANGED <<scenario, coordinator, main, netVars, idx, opened, dead, budget>>

EndHandshake(x) ==
    /\ Alive(x[2])
    /\ at[x] = "shaking"
    /\ x[2] \in shaking[Peer(x, idx[x])]
    /\ at' = [at EXCEPT ![x] = IF NextPeer(x) < scenario.n THEN "shake" ELSE "ready"]
    /\ idx' = [idx EXCEPT ![x] = NextPeer(x)]
    /\ UNCHANGED <<scenario, coordinator, main, netVars, shaking, opened, dead, budget>>

-----------------------------------------------------------------------------
(***************************************************************************)
(* The main thread: ShareParty deletes the player of the OT set-up, run    *)
(* builds its own and the threads, and goes on when all have announced     *)
(* themselves; the threads then run their tapes.                           *)
(***************************************************************************)
DeleteOT(p) ==
    /\ Alive(p)
    /\ scenario.ot /\ at[<<OT, p>>] = "ready"
    /\ at' = [at EXCEPT ![<<OT, p>>] = "closed", ![<<Master, p>>] = "connect"]
    /\ idx' = [idx EXCEPT ![<<Master, p>>] = p]
    /\ UNCHANGED <<scenario, coordinator, main, netVars, shaking, opened, dead, budget>>

StartThreads(p) ==
    /\ Alive(p)
    /\ at[<<Master, p>>] = "ready"
    /\ at' = [x \in Player |-> IF x = <<Master, p>> THEN "join"
                               ELSE IF x[2] = p /\ x[1] \in Threads THEN "connect" ELSE at[x]]
    /\ idx' = [x \in Player |-> IF x[2] = p /\ x[1] \in Threads THEN p ELSE idx[x]]
    /\ UNCHANGED <<scenario, coordinator, main, netVars, shaking, opened, dead, budget>>

RunTapes(p) ==
    /\ Alive(p)
    /\ at[<<Master, p>>] = "join"
    /\ \A g \in Threads : at[<<g, p>>] = "ready"
    /\ at' = [x \in Player |-> IF x = <<Master, p>> THEN "finish"
                               ELSE IF x[2] = p /\ x[1] \in Threads THEN "run" ELSE at[x]]
    /\ UNCHANGED <<scenario, coordinator, main, netVars, idx, shaking, opened, dead, budget>>

(* An opening: on to the next party, then from the previous one. *)
NextParty(p) == (p + 1) % scenario.n
PrevParty(p) == (p + scenario.n - 1) % scenario.n

(* Fault: one opening too many. *)
EndlessSendOpening(x) ==
    /\ Alive(x[2])
    /\ at[x] = "run"
    /\ opened' = [opened EXCEPT ![x] = @ + 1]
    /\ at' = [at EXCEPT ![x] = "open"]
    /\ UNCHANGED <<scenario, coordinator, main, netVars, idx, shaking, dead, budget>>

SendOpening(x) ==
    /\ Alive(x[2])
    /\ at[x] = "run"
    /\ opened[x] < scenario.rounds
    /\ opened' = [opened EXCEPT ![x] = @ + 1]
    /\ at' = [at EXCEPT ![x] = "open"]
    /\ UNCHANGED <<scenario, coordinator, main, netVars, idx, shaking, dead, budget>>

ReceiveOpening(x) ==
    /\ Alive(x[2])
    /\ at[x] = "open"
    /\ opened[Peer(x, PrevParty(x[2]))] >= opened[x]
    /\ at' = [at EXCEPT ![x] = "run"]
    /\ UNCHANGED <<scenario, coordinator, main, netVars, idx, shaking, opened, dead, budget>>

EndTapes(x) ==
    /\ Alive(x[2])
    /\ at[x] = "run"
    /\ opened[x] = scenario.rounds
    /\ at' = [at EXCEPT ![x] = "done"]
    /\ UNCHANGED <<scenario, coordinator, main, netVars, idx, shaking, opened, dead, budget>>

-----------------------------------------------------------------------------
(***************************************************************************)
(* When all its threads are done the main thread broadcasts nothing, which *)
(* takes a stream from every party, and deletes its players, its own last. *)
(* idx counts the exchanges of Broadcast_Receive, each first a send.       *)
(***************************************************************************)
(* Fault: no broadcast. *)
HastyFinish(p) ==
    LET x == <<Master, p>>
    IN  /\ Alive(p)
        /\ at[x] = "finish"
        /\ \A g \in Threads : at[<<g, p>>] = "done"
        /\ at' = [at EXCEPT ![x] = "close"]
        /\ idx' = [idx EXCEPT ![x] = 1]
        /\ UNCHANGED <<scenario, coordinator, main, netVars, shaking, opened, dead, budget>>

Finish(p) ==
    LET x == <<Master, p>>
    IN  /\ Alive(p)
        /\ at[x] = "finish"
        /\ \A g \in Threads : at[<<g, p>>] = "done"
        /\ at' = [at EXCEPT ![x] = "sync"]
        /\ idx' = [idx EXCEPT ![x] = 1]
        /\ UNCHANGED <<scenario, coordinator, main, netVars, shaking, opened, dead, budget>>

(* Party q has sent in its i-th exchange. *)
Told(q, i) ==
    LET y == <<Master, q>>
    IN  \/ at[y] = "sync" /\ idx[y] >= i
        \/ at[y] \in {"close", "closed"}

FromParty(p, i) == (p + scenario.n - i) % scenario.n

Synchronize(p) ==
    LET x == <<Master, p>>
    IN  /\ Alive(p)
        /\ at[x] = "sync"
        /\ Told(FromParty(p, idx[x]), idx[x])
        /\ IF idx[x] < scenario.n - 1
           THEN idx' = [idx EXCEPT ![x] = @ + 1] /\ UNCHANGED at
           ELSE at' = [at EXCEPT ![x] = "close"] /\ UNCHANGED idx
        /\ UNCHANGED <<scenario, coordinator, main, netVars, shaking, opened, dead, budget>>

Close(p) ==
    LET open == {g \in Threads : at[<<g, p>>] = "done"}
        g    == IF open = {} THEN Master ELSE CHOOSE h \in open : \A k \in open : h <= k
    IN  /\ Alive(p)
        /\ at[<<Master, p>>] = "close"
        /\ at' = [at EXCEPT ![<<g, p>>] = "closed"]
        /\ UNCHANGED <<scenario, coordinator, main, netVars, idx, shaking, opened, dead, budget>>

Ended(p) == at[<<Master, p>>] = "closed"

-----------------------------------------------------------------------------
(***************************************************************************)
(* Failures.  A crash closes all sockets of a party; so does a throw, as   *)
(* no thread catches it.  Connecting and waiting for a client are given up *)
(* after a minute, even if the peer is only late.  A player throws when it *)
(* is refused an id, or waits for something that cannot come any more:     *)
(* from a party that is gone, or that has closed this player.              *)
(***************************************************************************)
Crash(p) ==
    /\ Alive(p) /\ ~Ended(p)
    /\ budget > 0
    /\ budget' = budget - 1
    /\ dead' = dead \cup {p}
    /\ UNCHANGED <<scenario, coordinator, main, netVars, at, idx, shaking, opened>>

Gone(x) == x[2] \in dead \/ at[x] = "closed"

Unconnected(x) ==
    \/ at[x] = "connect" /\ (idx[x] \notin listening \/ idx[x] \in dead)
    \/ at[x] = "accept" /\ Found(x) = {}

TimeOut(p) ==
    /\ Alive(p)
    /\ \/ main[p] = "start" /\ p # 0          \* the coordinator does not listen
       \/ p = 0 /\ coordinator.phase = "collect" /\ main[coordinator.at] = "start"
       \/ \E x \in Player : x[2] = p /\ Unconnected(x)
    /\ budget > 0
    /\ budget' = budget - 1
    /\ dead' = dead \cup {p}
    /\ UNCHANGED <<scenario, coordinator, main, netVars, at, idx, shaking, opened>>

(* The connection with the wanted id will never be known. *)
Lost(x) ==
    LET p == x[2]
        c == <<x[1], idx[x], p>>
    IN  /\ at[x] = "accept" /\ ~Refused(x) /\ Found(x) = {}
        /\ idx[x] \in dead
        /\ ~(c \in identified /\ c \in jobs[p] \cup backlog[p])

Hopeless(x) ==
    \/ at[x] = "connect" /\ idx[x] \in dead
    \/ Refused(x)
    \/ Lost(x)
    \/ at[x] = "shaking" /\ idx[x] \in dead
    \/ /\ at[x] = "open" /\ Gone(Peer(x, PrevParty(x[2])))
       /\ opened[Peer(x, PrevParty(x[2]))] < opened[x]
    \/ /\ at[x] = "sync" /\ Gone(<<Master, FromParty(x[2], idx[x])>>)
       /\ ~Told(FromParty(x[2], idx[x]), idx[x])

(* What a party sends to is gone: the signal or error may come too late.   *)
BrokenPipe(x) ==
    \/ at[x] \in {"identify", "shake"} /\ idx[x] \in dead
    \/ at[x] = "open" /\ NextParty(x[2]) \in dead
    \/ at[x] = "sync" /\ (x[2] + idx[x]) % scenario.n \in dead

(* Before there are players only the coordinator is talked to. *)
Stranded(p) ==
    \/ p # 0 /\ main[p] # "running" /\ ~HasNames(p) /\ ~Alive(0)
    \/ /\ p = 0 /\ coordinator.at < scenario.n /\ ~Alive(coordinator.at)
       /\ \/ coordinator.phase = "names"
          \/ coordinator.phase = "collect" /\ main[coordinator.at] = "start"

Fail(p) ==
    /\ Alive(p)
    /\ Stranded(p) \/ \E x \in Player : x[2] = p /\ Hopeless(x)
    /\ dead' = dead \cup {p}
    /\ UNCHANGED <<scenario, coordinator, main, netVars, at, idx, shaking, opened, budget>>

FailSending(p) ==
    /\ Alive(p)
    /\ \E x \in Player : x[2] = p /\ BrokenPipe(x)
    /\ dead' = dead \cup {p}
    /\ UNCHANGED <<scenario, coordinator, main, netVars, at, idx, shaking, opened, budget>>

-----------------------------------------------------------------------------
PlayerStep(x) ==
    \/ Connect(x)
    \/ Identify(x)
    \/ GetConnection(x)
    \/ BeginHandshake(x)
    \/ EndHandshake(x)
    \/ SendOpening(x)
    \/ ReceiveOpening(x)
    \/ EndTapes(x)

MainStep(p) ==
    \/ Introduce(p)
    \/ Listen(p)
    \/ DeleteOT(p)
    \/ StartThreads(p)
    \/ RunTapes(p)
    \/ Finish(p)
    \/ Synchronize(p)
    \/ Close(p)
    \/ Fail(p)

AllEnded ==
    /\ \A p \in Parties : ~Alive(p) \/ Ended(p)
    /\ UNCHANGED playerVars

PlayersNext ==
    \/ Coordinate
    \/ \E p \in Parties : MainStep(p) \/ Accept(p) \/ RunJob(p)
    \/ \E p \in Parties : Crash(p) \/ TimeOut(p) \/ FailSending(p)
    \/ \E x \in Player : PlayerStep(x)
    \/ AllEnded

(***************************************************************************)
(* All threads are scheduled; crashes and premature timeouts need not      *)
(* happen, but who waits in vain fails in the end.  No step can be taken   *)
(* for ever, so that one condition for the threads of a kind is as much as *)
(* one for each.                                                           *)
(***************************************************************************)
PlayersSpec ==
    /\ PlayersInit /\ [][PlayersNext]_playerVars
    /\ WF_playerVars(Coordinate)
    /\ WF_playerVars(\E p \in Parties : MainStep(p))
    /\ WF_playerVars(\E p \in Parties : Accept(p) \/ RunJob(p))
    /\ WF_playerVars(\E x \in Player : PlayerStep(x))

-----------------------------------------------------------------------------
(* Every variable ranges over what the code can put there. *)
Location == {"none", "connect", "identify", "accept", "shake", "shaking", "ready",
             "join", "run", "open", "done", "finish", "sync", "close", "closed"}

PlayersTypeOK ==
    /\ scenario \in Scenarios
    /\ coordinator \in [phase : {"collect", "names", "send"}, at : 0 .. scenario.n]
    /\ main \in [Parties -> {"start", "introduced", "running"}]
    /\ listening \subseteq Parties
    /\ backlog \in [Parties -> SUBSET Connection]
    /\ identified \subseteq Connection
    /\ jobs \in [Parties -> SUBSET Connection]
    /\ clients \in [Parties -> SUBSET [id : Int, conn : Connection]]
    /\ used \in [Parties -> SUBSET Int]
    /\ at \in [Player -> Location]
    /\ idx \in [Player -> 0 .. scenario.n + 1]
    /\ accepted \in [Player -> Seq(Connection)]
    /\ shaking \in [Player -> SUBSET Parties]
    /\ opened \in [Player -> 0 .. scenario.rounds]
    /\ dead \subseteq Parties
    /\ budget \in 0 .. scenario.failures

(***************************************************************************)
(* Whatever the order in which connections and ids arrive and threads ask  *)
(* for them, a player is connected to the players of its own group, each   *)
(* at the place of its party.                                              *)
(***************************************************************************)
RightPeer ==
    \A x \in Player : \A i \in DOMAIN accepted[x] :
        accepted[x][i] = <<x[1], i - 1, x[2]>>

(***************************************************************************)
(* A party closes the player of a thread, and so ends normally, only when  *)
(* that thread has finished at every party, even at those that have failed *)
(* since: nobody takes a broken computation for a finished one.            *)
(***************************************************************************)
FinishedTogether ==
    \A g \in Threads : \A p, q \in Parties :
        at[<<g, p>>] = "closed" => at[<<g, q>>] \in {"done", "closed"}

(***************************************************************************)
(* Nobody fails unless a party has crashed or a wait has timed out: no     *)
(* player is refused its connections, and none is closed too early.        *)
(***************************************************************************)
FailuresHaveACause == dead # {} => budget < scenario.failures

(* With whatever crashes or timeouts, no party is left waiting for ever. *)
EverybodyEnds == <>(\A p \in Parties : ~Alive(p) \/ Ended(p))
=============================================================================
