--------------------------- MODULE Players_proofs ---------------------------
(***************************************************************************)
(* Peers, ends and failures, for any number of parties and threads,        *)
(* any order of connections and ids, and any crashes and timeouts.         *)
(***************************************************************************)
EXTENDS Players, TLAPS

(* How far a player is, by where it is. *)
Place(x) ==
    /\ at[x] \in {"none", "connect", "identify"} => accepted[x] = <<>>
    /\ at[x] \in {"connect", "identify"} => x[2] <= idx[x] /\ idx[x] < scenario.n
    /\ at[x] = "accept" => idx[x] <= x[2] /\ Len(accepted[x]) = idx[x]
    /\ at[x] \in {"shake", "shaking", "sync"} => idx[x] < scenario.n

Places == \A x \in Player : Place(x)

(* The players of a party are built one group after the other. *)
Early == {"none", "connect", "identify", "accept", "shake", "shaking", "ready"}

Order(p) ==
    /\ main[p] # "running" => \A g \in Groups : at[<<g, p>>] = "none"
    /\ scenario.ot /\ at[<<OT, p>>] # "closed" => at[<<Master, p>>] = "none"
    /\ at[<<Master, p>>] \in Early => \A g \in Threads : at[<<g, p>>] = "none"

Orders == \A p \in Parties : Order(p)

TypeInv == PlayersTypeOK /\ Places /\ Orders

-----------------------------------------------------------------------------
(* What is assumed of a scenario. *)
LEMMA ScenarioFacts ==
    ASSUME scenario \in Scenarios
    PROVE  /\ scenario.n \in Nat /\ scenario.n >= 2 /\ scenario.n < 65536
           /\ scenario.threads \in Nat /\ scenario.threads >= 1
           /\ scenario.threads <= 32768
           /\ scenario.ot \in BOOLEAN /\ scenario.rounds \in Nat
           /\ scenario.failures \in Nat
<1>1. scenario \in Scenario /\ scenario.n < 65536 
      /\ scenario.threads > 0 /\ scenario.threads <= 32768
  BY ScenariosAssumption
<1>2. /\ scenario.n \in Nat \ {0, 1} /\ scenario.ot \in BOOLEAN
      /\ scenario.threads \in Nat /\ scenario.rounds \in Nat /\ scenario.failures \in Nat
  BY <1>1 DEF Scenario
<1> QED  BY <1>1, <1>2

(* The sets that depend on the scenario only. *)
LEMMA Frame ==
    ASSUME scenario' = scenario
    PROVE  /\ Parties' = Parties /\ Threads' = Threads /\ Groups' = Groups
           /\ Player' = Player /\ Connection' = Connection
<1>1. Parties' = Parties /\ Threads' = Threads
  BY DEF Parties, Threads
<1>2. Groups' = Groups
  BY <1>1 DEF Groups
<1> QED  BY <1>1, <1>2 DEF Player, Connection

(* The players by group and party. *)
LEMMA PlayerFacts ==
    ASSUME scenario \in Scenarios
    PROVE  /\ \A x \in Player : /\ x[1] \in Groups /\ x[2] \in Parties
                                /\ x = <<x[1], x[2]>> /\ x[2] \in Nat
                                /\ x[2] < scenario.n
           /\ \A g \in Groups, p \in Parties : <<g, p>> \in Player
           /\ \A g \in Threads : g \in Groups /\ g # Master /\ g # OT
           /\ Master \in Groups /\ Master # OT
           /\ scenario.ot => OT \in Groups
           /\ \A p : p \in Parties <=> p \in Nat /\ p < scenario.n
<1>1. \A p : p \in Parties <=> p \in Nat /\ p < scenario.n
  BY ScenarioFacts DEF Parties
<1>2. \A x \in Player : /\ x[1] \in Groups /\ x[2] \in Parties
                        /\ x = <<x[1], x[2]>>
  BY DEF Player
<1>3. \A g \in Groups, p \in Parties : <<g, p>> \in Player
  BY DEF Player
<1>4. \A g \in Threads : g \in Groups /\ g # Master /\ g # OT
  BY ScenarioFacts DEF Threads, Groups, Master, OT
<1>5. Master \in Groups /\ Master # OT /\ (scenario.ot => OT \in Groups)
  BY DEF Groups, Master, OT
<1> QED  BY <1>1, <1>2, <1>3, <1>4, <1>5

LEMMA IdType ==
    ASSUME scenario \in Scenarios, NEW g \in Groups, NEW p \in Parties
    PROVE  Id(g, p) \in Int
<1>1. g \in Nat \/ g = Master \/ g = OT
  BY ScenarioFacts DEF Groups, Threads
<1>2. Base(g) \in Int
  BY <1>1 DEF Base, Master, OT
<1> QED  BY <1>2, ScenarioFacts DEF Id, Parties

-----------------------------------------------------------------------------
LEMMA InitTypeInv == PlayersInit => TypeInv
<1> SUFFICES ASSUME PlayersInit PROVE TypeInv
  OBVIOUS
<1>1. scenario \in Scenarios
  BY DEF PlayersInit
<1>2. coordinator \in [phase : {"collect", "names", "send"}, at : 0 .. scenario.n]
  BY <1>1, ScenarioFacts DEF PlayersInit
<1>3. PlayersTypeOK
  BY <1>1, <1>2, ScenarioFacts DEF PlayersInit, PlayersTypeOK, Location
<1>4. Places
  BY DEF PlayersInit, Places, Place
<1>5. \A p \in Parties, g \in Groups : at[<<g, p>>] = "none"
  BY <1>1, PlayerFacts DEF PlayersInit
<1>6. Orders
  BY <1>1, <1>5, PlayerFacts DEF Orders, Order
<1> QED  BY <1>3, <1>4, <1>6 DEF TypeInv

(* Steps that move no player. *)
LEMMA Unmoved ==
    ASSUME TypeInv, scenario' = scenario, at' = at, idx' = idx, accepted' = accepted,
           \A p : main'[p] # "running" => main[p] # "running"
    PROVE  Places' /\ Orders'
<1>1. Player' = Player /\ Parties' = Parties /\ Groups' = Groups /\ Threads' = Threads
  BY Frame
<1>2. \A x \in Player : Place(x)'
  BY DEF TypeInv, Places, Place
<1>3. \A p \in Parties : Order(p)'
  BY <1>1 DEF TypeInv, Orders, Order
<1> QED  BY <1>1, <1>2, <1>3 DEF Places, Orders

LEMMA IntroduceTypeInv ==
    ASSUME TypeInv, NEW p \in Parties, Introduce(p)
    PROVE  TypeInv'
<1>1. scenario' = scenario
  BY DEF Introduce
<1>2. Player' = Player /\ Parties' = Parties /\ Connection' = Connection
  BY <1>1, Frame
<1>3. main' \in [Parties -> {"start", "introduced", "running"}]
  BY DEF Introduce, TypeInv, PlayersTypeOK
<1>4. PlayersTypeOK'
  BY <1>2, <1>3 DEF Introduce, TypeInv, PlayersTypeOK, netVars
<1>5. main \in [Parties -> {"start", "introduced", "running"}] /\ main[p] = "start"
  BY DEF Introduce, TypeInv, PlayersTypeOK
<1>6. \A q : main'[q] # "running" => main[q] # "running"
  BY <1>5 DEF Introduce
<1>7. Places' /\ Orders'
  BY <1>6, Unmoved DEF Introduce, netVars
<1> QED  BY <1>4, <1>7 DEF TypeInv

LEMMA CoordinateTypeInv ==
    ASSUME TypeInv, Coordinate
    PROVE  TypeInv'
<1>1. scenario' = scenario /\ main' = main
  BY DEF Coordinate
<1>2. Player' = Player /\ Parties' = Parties /\ Connection' = Connection
  BY <1>1, Frame
<1>3. /\ scenario.n \in Nat /\ coordinator.at < scenario.n
      /\ coordinator \in [phase : {"collect", "names", "send"}, at : 0 .. scenario.n]
  BY ScenarioFacts DEF Coordinate, TypeInv, PlayersTypeOK
<1>4. coordinator.at \in 0 .. scenario.n /\ coordinator.phase \in {"collect", "names", "send"}
  BY <1>3
<1>5. coordinator.at + 1 \in 0 .. scenario.n /\ 0 \in 0 .. scenario.n
  BY <1>3, <1>4
<1>6. \/ coordinator' = [coordinator EXCEPT !.at = coordinator.at + 1]
      \/ coordinator' = [phase |-> "names", at |-> 0]
      \/ coordinator' = [phase |-> "send", at |-> 0]
  <2>1. CASE coordinator.at + 1 < scenario.n
    BY <2>1 DEF Coordinate
  <2>2. CASE ~(coordinator.at + 1 < scenario.n)
    BY <2>2, <1>4 DEF Coordinate
  <2> QED  BY <2>1, <2>2
<1>7. coordinator' \in [phase : {"collect", "names", "send"}, at : 0 .. scenario.n]
  BY <1>3, <1>5, <1>6
<1>8. PlayersTypeOK'
  BY <1>1, <1>2, <1>7 DEF Coordinate, TypeInv, PlayersTypeOK, netVars
<1>9. Places' /\ Orders'
  BY <1>1, Unmoved DEF Coordinate, netVars
<1> QED  BY <1>8, <1>9 DEF TypeInv

(* A connection that a party learns of. *)
LEMMA KnownType ==
    ASSUME TypeInv, NEW q \in Parties, NEW c \in Connection, Known(q, c)
    PROVE  clients' \in [Parties -> SUBSET [id : Int, conn : Connection]]
<1>1. clients \in [Parties -> SUBSET [id : Int, conn : Connection]]
  BY DEF TypeInv, PlayersTypeOK
<1>2. c[1] \in Groups /\ c[2] \in Parties
  BY DEF Connection
<1>3. Id(c[1], c[2]) \in Int
  BY <1>2, IdType DEF TypeInv, PlayersTypeOK
<1>4. [id |-> Id(c[1], c[2]), conn |-> c] \in [id : Int, conn : Connection]
  BY <1>3
<1>5. {r \in clients[q] : r.id # Id(c[1], c[2])} \in SUBSET [id : Int, conn : Connection]
  BY <1>1
<1> DEFINE new == {r \in clients[q] : r.id # Id(c[1], c[2])}
                      \cup {[id |-> Id(c[1], c[2]), conn |-> c]}
<1>6. new \in SUBSET [id : Int, conn : Connection]
  BY <1>4, <1>5
<1>7. clients' = [clients EXCEPT ![q] = new]
  BY DEF Known
<1> HIDE DEF new
<1> QED  BY <1>1, <1>6, <1>7

LEMMA AcceptTypeInv ==
    ASSUME TypeInv, NEW q \in Parties, Accept(q)
    PROVE  TypeInv'
<1>1. scenario' = scenario /\ main' = main
  BY DEF Accept
<1>2. Player' = Player /\ Parties' = Parties /\ Connection' = Connection
  BY <1>1, Frame
<1>3. PICK c \in backlog[q] :
          /\ IF c \in identified
             THEN Known(q, c) /\ UNCHANGED jobs
             ELSE jobs' = [jobs EXCEPT ![q] = @ \cup {c}] /\ UNCHANGED clients
          /\ backlog' = [backlog EXCEPT ![q] = @ \ {c}]
  BY DEF Accept
<1>4. /\ backlog \in [Parties -> SUBSET Connection]
      /\ jobs \in [Parties -> SUBSET Connection]
      /\ clients \in [Parties -> SUBSET [id : Int, conn : Connection]]
  BY DEF TypeInv, PlayersTypeOK
<1>5. c \in Connection
  BY <1>4
<1>6. backlog' \in [Parties -> SUBSET Connection]
  BY <1>3, <1>4
<1>7. jobs' \in [Parties -> SUBSET Connection]
  BY <1>3, <1>4, <1>5
<1>8. clients' \in [Parties -> SUBSET [id : Int, conn : Connection]]
  BY <1>3, <1>4, <1>5, KnownType
<1>9. PlayersTypeOK'
  BY <1>1, <1>2, <1>6, <1>7, <1>8 DEF Accept, TypeInv, PlayersTypeOK
<1>10. Places' /\ Orders'
  BY <1>1, Unmoved DEF Accept
<1> QED  BY <1>9, <1>10 DEF TypeInv

LEMMA RunJobTypeInv ==
    ASSUME TypeInv, NEW q \in Parties, RunJob(q)
    PROVE  TypeInv'
<1>1. scenario' = scenario /\ main' = main
  BY DEF RunJob
<1>2. Player' = Player /\ Parties' = Parties /\ Connection' = Connection
  BY <1>1, Frame
<1>3. PICK c \in jobs[q] \cap identified :
          Known(q, c) /\ jobs' = [jobs EXCEPT ![q] = @ \ {c}]
  BY DEF RunJob
<1>4. jobs \in [Parties -> SUBSET Connection] /\ identified \subseteq Connection
  BY DEF TypeInv, PlayersTypeOK
<1>5. jobs' \in [Parties -> SUBSET Connection]
  BY <1>3, <1>4
<1>6. clients' \in [Parties -> SUBSET [id : Int, conn : Connection]]
  BY <1>3, <1>4, KnownType
<1>7. PlayersTypeOK'
  BY <1>1, <1>2, <1>5, <1>6 DEF RunJob, TypeInv, PlayersTypeOK
<1>8. Places' /\ Orders'
  BY <1>1, Unmoved DEF RunJob
<1> QED  BY <1>7, <1>8 DEF TypeInv

(* However a party fails, only dead and budget change. *)
FailureVars == <<scenario, coordinator, main, netVars, at, idx, shaking, opened>>

LEMMA FailureTypeInv ==
    ASSUME TypeInv, NEW p \in Parties, UNCHANGED FailureVars,
           dead' = dead \cup {p} \/ dead' = dead,
           budget' = budget \/ (budget > 0 /\ budget' = budget - 1)
    PROVE  TypeInv'
<1>1. Player' = Player /\ Parties' = Parties /\ Connection' = Connection
  BY Frame DEF FailureVars
<1>2. scenario.failures \in Nat /\ budget \in 0 .. scenario.failures
  BY ScenarioFacts DEF TypeInv, PlayersTypeOK
<1>3. budget' \in 0 .. scenario.failures
  BY <1>2
<1>4. PlayersTypeOK'
  BY <1>1, <1>3 DEF TypeInv, PlayersTypeOK, FailureVars, netVars
<1>5. Places' /\ Orders'
  BY Unmoved DEF FailureVars, netVars
<1> QED  BY <1>4, <1>5 DEF TypeInv

-----------------------------------------------------------------------------
(* A step that moves a single player, and neither begins nor deletes it. *)
LEMMA MoveTypeInv ==
    ASSUME TypeInv, NEW x \in Player, scenario' = scenario, main' = main,
           NEW l \in Location \ {"none"}, at' = [at EXCEPT ![x] = l],
           NEW i \in 0 .. scenario.n + 1, idx' = [idx EXCEPT ![x] = i],
           NEW s \in Seq(Connection), accepted' = [accepted EXCEPT ![x] = s],
           l \in {"none", "connect", "identify"} => s = <<>>,
           l \in {"connect", "identify"} => x[2] <= i /\ i < scenario.n,
           l = "accept" => i <= x[2] /\ Len(s) = i,
           l \in {"shake", "shaking", "sync"} => i < scenario.n,
           at[x] # "none",
           at[x] # "closed" \/ l = "closed",
           l \in Early => at[x] \in Early
    PROVE  /\ at' \in [Player -> Location] /\ idx' \in [Player -> 0 .. scenario.n + 1]
           /\ accepted' \in [Player -> Seq(Connection)]
           /\ Places' /\ Orders'
<1>1. /\ Player' = Player /\ Parties' = Parties
      /\ Groups' = Groups /\ Threads' = Threads
  BY Frame
<1>2. /\ scenario \in Scenarios /\ at \in [Player -> Location]
      /\ idx \in [Player -> 0 .. scenario.n + 1]
      /\ accepted \in [Player -> Seq(Connection)]
  BY DEF TypeInv, PlayersTypeOK
<1>3. /\ at' \in [Player -> Location] /\ idx' \in [Player -> 0 .. scenario.n + 1]
      /\ accepted' \in [Player -> Seq(Connection)]
  BY <1>2
<1>4. ASSUME NEW y \in Player PROVE Place(y)'
  <2>1. CASE y = x
    BY <2>1, <1>2 DEF Place
  <2>2. CASE y # x
    BY <2>2, <1>2 DEF Place, TypeInv, Places
  <2> QED  BY <2>1, <2>2
<1>5. ASSUME NEW p \in Parties PROVE Order(p)'
  <2>1. Order(p) /\ x[1] \in Groups /\ x = <<x[1], x[2]>>
    BY <1>2, PlayerFacts DEF TypeInv, Orders
  <2>2. \A g \in Groups : <<g, p>> \in Player /\ at[<<g, p>>] \in Location
    BY <1>2, PlayerFacts
  <2>3. \A g \in Groups : at[<<g, p>>] = "none" => at'[<<g, p>>] = "none"
    BY <1>2, <2>2
  <2>4. scenario.ot => OT \in Groups
    BY <1>2, PlayerFacts
  <2>5. Master \in Groups /\ \A g \in Threads : g \in Groups
    BY <1>2, PlayerFacts
  <2>6. scenario.ot /\ at'[<<OT, p>>] # "closed" => at[<<OT, p>>] # "closed"
    BY <1>2, <2>2, <2>4
  <2>7. at'[<<Master, p>>] \in Early => at[<<Master, p>>] \in Early
    BY <1>2, <2>2, <2>5
  <2> QED  BY <1>1, <2>1, <2>3, <2>4, <2>5, <2>6, <2>7 DEF Order
<1> QED  BY <1>1, <1>3, <1>4, <1>5 DEF Places, Orders

LEMMA MoverFacts ==
    ASSUME TypeInv, NEW x \in Player
    PROVE  /\ scenario \in Scenarios /\ scenario.n \in Nat /\ scenario.n >= 2
           /\ x[1] \in Groups /\ x[2] \in Parties /\ x = <<x[1], x[2]>>
           /\ x[2] \in Nat /\ x[2] < scenario.n
           /\ at[x] \in Location /\ idx[x] \in Nat /\ idx[x] \in 0 .. scenario.n + 1
           /\ accepted[x] \in Seq(Connection) /\ Place(x)
           /\ at = [at EXCEPT ![x] = at[x]] /\ idx = [idx EXCEPT ![x] = idx[x]]
           /\ accepted = [accepted EXCEPT ![x] = accepted[x]]
<1>1. /\ scenario \in Scenarios /\ at \in [Player -> Location]
      /\ idx \in [Player -> 0 .. scenario.n + 1]
      /\ accepted \in [Player -> Seq(Connection)]
  BY DEF TypeInv, PlayersTypeOK
<1>2. scenario.n \in Nat /\ scenario.n >= 2
  BY <1>1, ScenarioFacts
<1>3. /\ x[1] \in Groups /\ x[2] \in Parties /\ x = <<x[1], x[2]>>
      /\ x[2] \in Nat /\ x[2] < scenario.n
  BY <1>1, PlayerFacts
<1>4. at[x] \in Location /\ idx[x] \in 0 .. scenario.n + 1 /\ accepted[x] \in Seq(Connection)
  BY <1>1
<1>5. idx[x] \in Nat
  BY <1>2, <1>4
<1>6. /\ at = [at EXCEPT ![x] = at[x]] /\ idx = [idx EXCEPT ![x] = idx[x]]
      /\ accepted = [accepted EXCEPT ![x] = accepted[x]]
  BY <1>1
<1> QED  BY <1>1, <1>2, <1>3, <1>4, <1>5, <1>6 DEF TypeInv, Places

LEMMA ConnectTypeInv ==
    ASSUME TypeInv, NEW x \in Player, Connect(x)
    PROVE  TypeInv'
<1>1. scenario' = scenario /\ main' = main
  BY DEF Connect
<1>2. Player' = Player /\ Parties' = Parties /\ Connection' = Connection
  BY <1>1, Frame
<1>3. /\ x[2] <= idx[x] /\ idx[x] < scenario.n /\ accepted[x] = <<>>
      /\ at[x] = "connect"
  BY MoverFacts DEF Connect, Place
<1>4. idx[x] \in Parties
  BY <1>3, MoverFacts DEF Parties
<1>5. <<x[1], x[2], idx[x]>> \in Connection
  BY <1>3, <1>4, MoverFacts DEF Connection
<1>6. backlog' = [backlog EXCEPT ![idx[x]] = @ \cup {<<x[1], x[2], idx[x]>>}]
  BY DEF Connect
<1>7. backlog' \in [Parties -> SUBSET Connection]
  BY <1>4, <1>5, <1>6 DEF TypeInv, PlayersTypeOK
<1>8. at' = [at EXCEPT ![x] = "identify"] /\ idx' = idx /\ accepted' = accepted
  BY DEF Connect
<1>9. "identify" \in Location \ {"none"} /\ at[x] \in Early
  BY <1>3 DEF Location, Early
<1>10. /\ at' \in [Player -> Location] /\ idx' \in [Player -> 0 .. scenario.n + 1]
       /\ accepted' \in [Player -> Seq(Connection)]
       /\ Places' /\ Orders'
  BY <1>1, <1>3, <1>8, <1>9, MoverFacts, MoveTypeInv
<1>11. PlayersTypeOK'
  BY <1>1, <1>2, <1>7, <1>10 DEF Connect, TypeInv, PlayersTypeOK
<1> QED  BY <1>10, <1>11 DEF TypeInv

LEMMA IdentifyTypeInv ==
    ASSUME TypeInv, NEW x \in Player, Identify(x)
    PROVE  TypeInv'
<1>1. scenario' = scenario /\ main' = main /\ accepted' = accepted
  BY DEF Identify
<1>2. Player' = Player /\ Parties' = Parties /\ Connection' = Connection
  BY <1>1, Frame
<1>3. /\ x[2] <= idx[x] /\ idx[x] < scenario.n /\ accepted[x] = <<>>
      /\ at[x] = "identify"
  BY MoverFacts DEF Identify, Place
<1>4. <<x[1], x[2], idx[x]>> \in Connection
  <2>1. idx[x] \in Parties
    BY <1>3, MoverFacts DEF Parties
  <2> QED  BY <1>3, <2>1, MoverFacts DEF Connection
<1>5. identified' \subseteq Connection
  BY <1>4 DEF Identify, TypeInv, PlayersTypeOK
<1>6. at[x] \in Early /\ {"connect", "accept"} \subseteq Location \ {"none"}
  BY <1>3 DEF Early, Location
<1>7. /\ at' \in [Player -> Location] /\ idx' \in [Player -> 0 .. scenario.n + 1]
      /\ accepted' \in [Player -> Seq(Connection)]
      /\ Places' /\ Orders'
  <2>1. CASE idx[x] = scenario.n - 1
    <3>1. at' = [at EXCEPT ![x] = "accept"] /\ idx' = [idx EXCEPT ![x] = 0]
      BY <2>1 DEF Identify
    <3>2. 0 \in 0 .. scenario.n + 1 /\ 0 <= x[2] /\ Len(accepted[x]) = 0
      BY <1>3, MoverFacts
    <3>3. /\ accepted' = [accepted EXCEPT ![x] = accepted[x]]
          /\ accepted[x] \in Seq(Connection)
      BY <1>1, MoverFacts
    <3>4. scenario' = scenario /\ main' = main
      BY <1>1
    <3>5. "accept" \in Location \ {"none"}
      BY DEF Location
    <3> QED  BY <1>3, <1>6, <3>1, <3>2, <3>3, <3>4, <3>5, MoveTypeInv
  <2>2. CASE idx[x] # scenario.n - 1
    <3>1. at' = [at EXCEPT ![x] = "connect"] /\ idx' = [idx EXCEPT ![x] = idx[x] + 1]
      BY <2>2 DEF Identify
    <3>2. /\ idx[x] + 1 \in 0 .. scenario.n + 1 /\ x[2] <= idx[x] + 1
          /\ idx[x] + 1 < scenario.n
      BY <1>3, <2>2, MoverFacts
    <3> QED  BY <1>1, <1>3, <1>6, <3>1, <3>2, MoverFacts, MoveTypeInv
  <2> QED  BY <2>1, <2>2
<1>8. PlayersTypeOK'
  BY <1>1, <1>2, <1>5, <1>7 DEF Identify, TypeInv, PlayersTypeOK
<1> QED  BY <1>7, <1>8 DEF TypeInv

(* The connection that is found for a player. *)
LEMMA FoundType ==
    ASSUME TypeInv, NEW x \in Player, NEW r \in Found(x)
    PROVE  /\ r \in clients[x[2]] /\ r.conn \in Connection
           /\ r.id = Id(x[1], idx[x]) /\ Append(accepted[x], r.conn) \in Seq(Connection)
           /\ Len(Append(accepted[x], r.conn)) = Len(accepted[x]) + 1
<1>1. r \in clients[x[2]] /\ r.id = Id(x[1], idx[x])
  BY DEF Found, Wanted
<1>2. clients \in [Parties -> SUBSET [id : Int, conn : Connection]]
  BY DEF TypeInv, PlayersTypeOK
<1>3. r \in [id : Int, conn : Connection]
  BY <1>1, <1>2, MoverFacts
<1>4. r.conn \in Connection
  BY <1>3
<1>5. accepted[x] \in Seq(Connection)
  BY MoverFacts
<1> QED  BY <1>1, <1>4, <1>5

LEMMA GetConnectionTypeInv ==
    ASSUME TypeInv, NEW x \in Player, GetConnection(x)
    PROVE  TypeInv'
<1>1. scenario' = scenario /\ main' = main
  BY DEF GetConnection
<1>2. Player' = Player /\ Parties' = Parties /\ Connection' = Connection
  BY <1>1, Frame
<1>3. at[x] = "accept" /\ idx[x] <= x[2] /\ Len(accepted[x]) = idx[x]
  BY MoverFacts DEF GetConnection, Place
<1>4. PICK r \in Found(x) : accepted' = [accepted EXCEPT ![x] = Append(@, r.conn)]
  BY DEF GetConnection
<1> DEFINE s == Append(accepted[x], r.conn)
<1>5. accepted' = [accepted EXCEPT ![x] = s] /\ s \in Seq(Connection) /\ Len(s) = idx[x] + 1
  BY <1>3, <1>4, FoundType
<1> HIDE DEF s
<1>6. at[x] \in Early /\ {"shake", "ready", "accept"} \subseteq Location \ {"none"}
  BY <1>3 DEF Early, Location
<1>7. /\ at' \in [Player -> Location] /\ idx' \in [Player -> 0 .. scenario.n + 1]
      /\ accepted' \in [Player -> Seq(Connection)]
      /\ Places' /\ Orders'
  <2>1. CASE idx[x] = x[2]
    <3>1. at' = [at EXCEPT ![x] = Connected(x)] /\ idx' = [idx EXCEPT ![x] = FirstPeer(x)]
      BY <2>1 DEF GetConnection
    <3>2. FirstPeer(x) \in 0 .. scenario.n + 1 /\ FirstPeer(x) < scenario.n
      BY MoverFacts DEF FirstPeer
    <3>3. Connected(x) \in {"shake", "ready"}
      BY DEF Connected
    <3> QED  BY <1>1, <1>3, <1>5, <1>6, <3>1, <3>2, <3>3, MoverFacts, MoveTypeInv
  <2>2. CASE idx[x] # x[2]
    <3>1. at' = [at EXCEPT ![x] = "accept"] /\ idx' = [idx EXCEPT ![x] = idx[x] + 1]
      BY <2>2 DEF GetConnection
    <3>2. idx[x] + 1 \in 0 .. scenario.n + 1 /\ idx[x] + 1 <= x[2]
      BY <1>3, <2>2, MoverFacts
    <3> QED  BY <1>1, <1>3, <1>5, <1>6, <3>1, <3>2, MoverFacts, MoveTypeInv
  <2> QED  BY <2>1, <2>2
<1>8. Wanted(x) \in Int
  <2>1. idx[x] \in Parties /\ x[1] \in Groups /\ scenario \in Scenarios
    BY <1>3, MoverFacts DEF Parties
  <2> QED  BY <2>1, IdType DEF Wanted
<1>9. used' \in [Parties -> SUBSET Int]
  <2>1. used \in [Parties -> SUBSET Int] /\ x[2] \in Parties
    BY MoverFacts DEF TypeInv, PlayersTypeOK
  <2>2. used' = [used EXCEPT ![x[2]] = @ \cup {Wanted(x)}]
    BY DEF GetConnection
  <2> QED  BY <1>8, <2>1, <2>2
<1>10. PlayersTypeOK'
  BY <1>1, <1>2, <1>7, <1>9 DEF GetConnection, TypeInv, PlayersTypeOK
<1> QED  BY <1>7, <1>10 DEF TypeInv

LEMMA BeginHandshakeTypeInv ==
    ASSUME TypeInv, NEW x \in Player, BeginHandshake(x)
    PROVE  TypeInv'
<1>1. scenario' = scenario /\ main' = main /\ idx' = idx /\ accepted' = accepted
  BY DEF BeginHandshake, netVars
<1>2. Player' = Player /\ Parties' = Parties /\ Connection' = Connection
  BY <1>1, Frame
<1>3. idx[x] < scenario.n /\ at[x] = "shake" /\ at' = [at EXCEPT ![x] = "shaking"]
  BY MoverFacts DEF BeginHandshake, Place
<1>4. at[x] \in Early /\ "shaking" \in Location \ {"none"}
  BY <1>3 DEF Early, Location
<1>5. /\ at' \in [Player -> Location] /\ idx' \in [Player -> 0 .. scenario.n + 1]
      /\ accepted' \in [Player -> Seq(Connection)]
      /\ Places' /\ Orders'
  <2>1. /\ idx' = [idx EXCEPT ![x] = idx[x]] /\ idx[x] \in 0 .. scenario.n + 1
        /\ accepted' = [accepted EXCEPT ![x] = accepted[x]]
        /\ accepted[x] \in Seq(Connection)
    BY <1>1, MoverFacts
  <2> QED  BY <1>1, <1>3, <1>4, <2>1, MoveTypeInv
<1>6. shaking' \in [Player -> SUBSET Parties]
  <2>1. idx[x] \in Parties
    BY <1>3, MoverFacts DEF Parties
  <2>2. shaking' = [shaking EXCEPT ![x] = @ \cup {idx[x]}]
    BY DEF BeginHandshake
  <2> QED  BY <2>1, <2>2 DEF TypeInv, PlayersTypeOK
<1>7. PlayersTypeOK'
  BY <1>1, <1>2, <1>5, <1>6 DEF BeginHandshake, TypeInv, PlayersTypeOK, netVars
<1> QED  BY <1>5, <1>7 DEF TypeInv

LEMMA EndHandshakeTypeInv ==
    ASSUME TypeInv, NEW x \in Player, EndHandshake(x)
    PROVE  TypeInv'
<1>1. scenario' = scenario /\ main' = main /\ accepted' = accepted
  BY DEF EndHandshake, netVars
<1>2. Player' = Player /\ Parties' = Parties /\ Connection' = Connection
  BY <1>1, Frame
<1>3. idx[x] < scenario.n /\ at[x] = "shaking"
  BY MoverFacts DEF EndHandshake, Place
<1>4. at[x] \in Early /\ {"shake", "ready"} \subseteq Location \ {"none"}
  BY <1>3 DEF Early, Location
<1>5. NextPeer(x) \in 0 .. scenario.n + 1
  BY <1>3, MoverFacts DEF NextPeer
<1> DEFINE l == IF NextPeer(x) < scenario.n THEN "shake" ELSE "ready"
<1>6. at' = [at EXCEPT ![x] = l] /\ idx' = [idx EXCEPT ![x] = NextPeer(x)]
  BY DEF EndHandshake
<1>7. l \in {"shake", "ready"} /\ (l = "shake" => NextPeer(x) < scenario.n)
  OBVIOUS
<1> HIDE DEF l
<1>8. /\ at' \in [Player -> Location] /\ idx' \in [Player -> 0 .. scenario.n + 1]
      /\ accepted' \in [Player -> Seq(Connection)]
      /\ Places' /\ Orders'
  BY <1>1, <1>3, <1>4, <1>5, <1>6, <1>7, MoverFacts, MoveTypeInv
<1>9. PlayersTypeOK'
  BY <1>1, <1>2, <1>8 DEF EndHandshake, TypeInv, PlayersTypeOK, netVars
<1> QED  BY <1>8, <1>9 DEF TypeInv

LEMMA SendOpeningTypeInv ==
    ASSUME TypeInv, NEW x \in Player, SendOpening(x)
    PROVE  TypeInv'
<1>1. scenario' = scenario /\ main' = main /\ idx' = idx /\ accepted' = accepted
  BY DEF SendOpening, netVars
<1>2. Player' = Player /\ Parties' = Parties /\ Connection' = Connection
  BY <1>1, Frame
<1>3. at[x] = "run" /\ at' = [at EXCEPT ![x] = "open"]
  BY DEF SendOpening
<1>4. "open" \in Location \ {"none"} /\ "open" \notin Early
  BY DEF Early, Location
<1>5. /\ at' \in [Player -> Location] /\ idx' \in [Player -> 0 .. scenario.n + 1]
      /\ accepted' \in [Player -> Seq(Connection)]
      /\ Places' /\ Orders'
  BY <1>1, <1>3, <1>4, MoverFacts, MoveTypeInv
<1>6. opened' \in [Player -> 0 .. scenario.rounds]
  <2>1. scenario.rounds \in Nat /\ opened \in [Player -> 0 .. scenario.rounds]
    BY ScenarioFacts DEF TypeInv, PlayersTypeOK
  <2>2. opened[x] + 1 \in 0 .. scenario.rounds
    BY <2>1 DEF SendOpening
  <2>3. opened' = [opened EXCEPT ![x] = opened[x] + 1]
    BY DEF SendOpening
  <2> QED  BY <2>1, <2>2, <2>3
<1>7. PlayersTypeOK'
  BY <1>1, <1>2, <1>5, <1>6 DEF SendOpening, TypeInv, PlayersTypeOK, netVars
<1> QED  BY <1>5, <1>7 DEF TypeInv

LEMMA ReceiveOpeningTypeInv ==
    ASSUME TypeInv, NEW x \in Player, ReceiveOpening(x)
    PROVE  TypeInv'
<1>1. scenario' = scenario /\ main' = main /\ idx' = idx /\ accepted' = accepted
  BY DEF ReceiveOpening, netVars
<1>2. Player' = Player /\ Parties' = Parties /\ Connection' = Connection
  BY <1>1, Frame
<1>3. at[x] = "open" /\ at' = [at EXCEPT ![x] = "run"]
  BY DEF ReceiveOpening
<1>4. "run" \in Location \ {"none"} /\ "run" \notin Early
  BY DEF Early, Location
<1>5. /\ at' \in [Player -> Location] /\ idx' \in [Player -> 0 .. scenario.n + 1]
      /\ accepted' \in [Player -> Seq(Connection)]
      /\ Places' /\ Orders'
  BY <1>1, <1>3, <1>4, MoverFacts, MoveTypeInv
<1>6. PlayersTypeOK'
  BY <1>1, <1>2, <1>5 DEF ReceiveOpening, TypeInv, PlayersTypeOK, netVars
<1> QED  BY <1>5, <1>6 DEF TypeInv

LEMMA EndTapesTypeInv ==
    ASSUME TypeInv, NEW x \in Player, EndTapes(x)
    PROVE  TypeInv'
<1>1. scenario' = scenario /\ main' = main /\ idx' = idx /\ accepted' = accepted
  BY DEF EndTapes, netVars
<1>2. Player' = Player /\ Parties' = Parties /\ Connection' = Connection
  BY <1>1, Frame
<1>3. at[x] = "run" /\ at' = [at EXCEPT ![x] = "done"]
  BY DEF EndTapes
<1>4. "done" \in Location \ {"none"} /\ "done" \notin Early
  BY DEF Early, Location
<1>5. /\ at' \in [Player -> Location] /\ idx' \in [Player -> 0 .. scenario.n + 1]
      /\ accepted' \in [Player -> Seq(Connection)]
      /\ Places' /\ Orders'
  BY <1>1, <1>3, <1>4, MoverFacts, MoveTypeInv
<1>6. PlayersTypeOK'
  BY <1>1, <1>2, <1>5 DEF EndTapes, TypeInv, PlayersTypeOK, netVars
<1> QED  BY <1>5, <1>6 DEF TypeInv

LEMMA MasterPlayer ==
    ASSUME TypeInv, NEW p \in Parties
    PROVE  /\ <<Master, p>> \in Player /\ scenario \in Scenarios
           /\ p \in Nat /\ p < scenario.n /\ scenario.n \in Nat /\ scenario.n >= 2
           /\ p \in 0 .. scenario.n + 1
<1>1. scenario \in Scenarios
  BY DEF TypeInv, PlayersTypeOK
<1>2. scenario.n \in Nat /\ scenario.n >= 2
  BY <1>1, ScenarioFacts
<1>3. p \in Nat /\ p < scenario.n /\ p \in 0 .. scenario.n + 1
  BY <1>2 DEF Parties
<1> QED  BY <1>1, <1>2, <1>3, PlayerFacts

LEMMA FinishTypeInv ==
    ASSUME TypeInv, NEW p \in Parties, Finish(p)
    PROVE  TypeInv'
<1> DEFINE x == <<Master, p>>
<1>1. scenario' = scenario /\ main' = main /\ accepted' = accepted
  BY DEF Finish, netVars
<1>2. Player' = Player /\ Parties' = Parties /\ Connection' = Connection
  BY <1>1, Frame
<1>3. /\ at[x] = "finish" /\ at' = [at EXCEPT ![x] = "sync"]
      /\ idx' = [idx EXCEPT ![x] = 1]
  BY DEF Finish
<1>4. "sync" \in Location \ {"none"} /\ "sync" \notin Early
  BY DEF Early, Location
<1>5. x \in Player /\ 1 \in 0 .. scenario.n + 1 /\ 1 < scenario.n
  BY MasterPlayer
<1> HIDE DEF x
<1>6. /\ at' \in [Player -> Location] /\ idx' \in [Player -> 0 .. scenario.n + 1]
      /\ accepted' \in [Player -> Seq(Connection)]
      /\ Places' /\ Orders'
  BY <1>1, <1>3, <1>4, <1>5, MoverFacts, MoveTypeInv
<1>7. PlayersTypeOK'
  BY <1>1, <1>2, <1>6 DEF Finish, TypeInv, PlayersTypeOK, netVars
<1> QED  BY <1>6, <1>7 DEF TypeInv

LEMMA SynchronizeTypeInv ==
    ASSUME TypeInv, NEW p \in Parties, Synchronize(p)
    PROVE  TypeInv'
<1> DEFINE x == <<Master, p>>
<1>1. scenario' = scenario /\ main' = main /\ accepted' = accepted
  BY DEF Synchronize, netVars
<1>2. Player' = Player /\ Parties' = Parties /\ Connection' = Connection
  BY <1>1, Frame
<1>3. x \in Player /\ at[x] = "sync"
  BY MasterPlayer DEF Synchronize
<1>4. {"sync", "close"} \subseteq Location \ {"none"} /\ {"sync", "close"} \cap Early = {}
  BY DEF Early, Location
<1>5. \/ idx[x] < scenario.n - 1 /\ idx' = [idx EXCEPT ![x] = idx[x] + 1] /\ at' = at
      \/ at' = [at EXCEPT ![x] = "close"] /\ idx' = idx
  BY DEF Synchronize
<1>6. PlayersTypeOK' <=> /\ at' \in [Player -> Location]
                         /\ idx' \in [Player -> 0 .. scenario.n + 1]
                         /\ accepted' \in [Player -> Seq(Connection)]
  BY <1>1, <1>2 DEF Synchronize, TypeInv, PlayersTypeOK, netVars
<1> HIDE DEF x
<1>7. /\ at' \in [Player -> Location] /\ idx' \in [Player -> 0 .. scenario.n + 1]
      /\ accepted' \in [Player -> Seq(Connection)]
      /\ Places' /\ Orders'
  <2>1. CASE idx[x] < scenario.n - 1 /\ idx' = [idx EXCEPT ![x] = idx[x] + 1] /\ at' = at
    <3> DEFINE i == idx[x] + 1
               s == accepted[x]
               l == "sync"
    <3>1. i \in 0 .. scenario.n + 1 /\ i < scenario.n
      BY <1>3, <2>1, MoverFacts
    <3>2. at' = [at EXCEPT ![x] = l]
      BY <1>3, <2>1, MoverFacts
    <3>3. /\ l \in Location \ {"none"} /\ l \notin Early /\ l # "closed"
          /\ l \notin {"none", "connect", "identify", "accept"}
      BY <1>4
    <3>4. idx' = [idx EXCEPT ![x] = i]
      BY <2>1
    <3>5. accepted' = [accepted EXCEPT ![x] = s] /\ s \in Seq(Connection)
      BY <1>1, <1>3, MoverFacts
    <3>6. at[x] # "none" /\ at[x] # "closed"
      BY <1>3
    <3> HIDE DEF i, s, l
    <3> QED  BY <1>1, <1>3, <3>1, <3>2, <3>3, <3>4, <3>5, <3>6, MoveTypeInv
  <2>2. CASE at' = [at EXCEPT ![x] = "close"] /\ idx' = idx
    <3> DEFINE i == idx[x]
               s == accepted[x]
               l == "close"
    <3>1. i \in 0 .. scenario.n + 1
      BY <1>3, MoverFacts
    <3>2. at' = [at EXCEPT ![x] = l]
      BY <2>2
    <3>3. /\ l \in Location \ {"none"} /\ l \notin Early
          /\ l \notin {"none", "connect", "identify", "accept", "shake", "shaking", "sync"}
      BY <1>4
    <3>4. idx' = [idx EXCEPT ![x] = i]
      BY <1>3, <2>2, MoverFacts
    <3>5. accepted' = [accepted EXCEPT ![x] = s] /\ s \in Seq(Connection)
      BY <1>1, <1>3, MoverFacts
    <3>6. at[x] # "none" /\ at[x] # "closed"
      BY <1>3
    <3> HIDE DEF i, s, l
    <3> QED  BY <1>1, <1>3, <3>1, <3>2, <3>3, <3>4, <3>5, <3>6, MoveTypeInv
  <2> QED  BY <1>5, <2>1, <2>2
<1> QED  BY <1>6, <1>7 DEF TypeInv

(* Where the players of a party are when its main thread is past Early. *)
LEMMA PastEarly ==
    ASSUME TypeInv, NEW p \in Parties, at[<<Master, p>>] # "none"
    PROVE  /\ main[p] = "running"
           /\ scenario.ot => at[<<OT, p>>] = "closed"
<1>1. Order(p) /\ Master \in Groups
  BY MasterPlayer, PlayerFacts DEF TypeInv, Orders
<1> QED  BY <1>1 DEF Order

LEMMA CloseTypeInv ==
    ASSUME TypeInv, NEW p \in Parties, Close(p)
    PROVE  TypeInv'
<1>1. scenario' = scenario /\ main' = main /\ accepted' = accepted /\ idx' = idx
  BY DEF Close, netVars
<1>2. /\ Player' = Player /\ Parties' = Parties /\ Connection' = Connection
      /\ Groups' = Groups /\ Threads' = Threads
  BY <1>1, Frame
<1>3. PICK g : at' = [at EXCEPT ![<<g, p>>] = "closed"]
  BY DEF Close
<1>4. at[<<Master, p>>] = "close"
  BY DEF Close
<1>5. at \in [Player -> Location] /\ "closed" \in Location
  BY DEF TypeInv, PlayersTypeOK, Location
<1>6. at' \in [Player -> Location]
  BY <1>3, <1>5
<1>7. PlayersTypeOK'
  BY <1>1, <1>2, <1>6 DEF Close, TypeInv, PlayersTypeOK, netVars
<1>8. ASSUME NEW y \in Player PROVE Place(y)'
  <2>1. at'[y] = at[y] \/ at'[y] = "closed"
    BY <1>3, <1>5
  <2> QED  BY <1>1, <2>1 DEF Place, TypeInv, Places
<1>9. ASSUME NEW q \in Parties PROVE Order(q)'
  <2>1. CASE q = p
    <3>1. main[p] = "running" /\ (scenario.ot => at[<<OT, p>>] = "closed")
      BY <1>4, PastEarly
    <3>2. at'[<<Master, p>>] \in {"close", "closed"}
      BY <1>3, <1>4, <1>5, MasterPlayer
    <3>3. scenario.ot => at'[<<OT, p>>] = "closed"
      BY <1>3, <1>5, <3>1, MasterPlayer, PlayerFacts
    <3> QED  BY <1>1, <2>1, <3>1, <3>2, <3>3 DEF Order, Early
  <2>2. CASE q # p
    <3>1. \A h : at'[<<h, q>>] = at[<<h, q>>]
      BY <1>3, <1>5, <2>2
    <3> QED  BY <1>1, <1>2, <3>1 DEF Order, TypeInv, Orders
  <2> QED  BY <2>1, <2>2
<1> QED  BY <1>2, <1>7, <1>8, <1>9 DEF TypeInv, Places, Orders

LEMMA ListenTypeInv ==
    ASSUME TypeInv, NEW p \in Parties, Listen(p)
    PROVE  TypeInv'
<1> DEFINE g == IF scenario.ot THEN OT ELSE Master
<1>1. scenario' = scenario /\ accepted' = accepted
  BY DEF Listen
<1>2. /\ Player' = Player /\ Parties' = Parties /\ Connection' = Connection
      /\ Groups' = Groups /\ Threads' = Threads
  BY <1>1, Frame
<1>3. /\ at' = [at EXCEPT ![<<g, p>>] = "connect"]
      /\ idx' = [idx EXCEPT ![<<g, p>>] = p]
      /\ main[p] = "introduced" /\ main' = [main EXCEPT ![p] = "running"]
      /\ listening' = listening \cup {p}
  BY DEF Listen, Begin
<1>4. /\ at \in [Player -> Location] /\ idx \in [Player -> 0 .. scenario.n + 1]
      /\ main \in [Parties -> {"start", "introduced", "running"}]
      /\ "connect" \in Location
  BY DEF TypeInv, PlayersTypeOK, Location
<1>5. g \in Groups /\ <<g, p>> \in Player
  BY MasterPlayer, PlayerFacts
<1>6. \A h \in Groups : at[<<h, p>>] = "none"
  BY <1>3 DEF TypeInv, Orders, Order
<1>7. p \in 0 .. scenario.n + 1 /\ p < scenario.n /\ p \in Nat
  BY MasterPlayer
<1>8. PlayersTypeOK'
  BY <1>1, <1>2, <1>3, <1>4, <1>7 DEF Listen, TypeInv, PlayersTypeOK
<1>9. ASSUME NEW y \in Player PROVE Place(y)'
  <2>1. CASE y = <<g, p>>
    <3>1. accepted[y] = <<>>
      BY <1>5, <1>6, <2>1 DEF TypeInv, Places, Place
    <3>2. at'[y] = "connect" /\ idx'[y] = p /\ y[2] = p
      BY <1>3, <1>4, <2>1
    <3> QED  BY <1>1, <1>7, <3>1, <3>2 DEF Place
  <2>2. CASE y # <<g, p>>
    <3>1. at'[y] = at[y] /\ idx'[y] = idx[y]
      BY <1>3, <1>4, <2>2
    <3> QED  BY <1>1, <3>1 DEF Place, TypeInv, Places
  <2> QED  BY <2>1, <2>2
<1>10. ASSUME NEW q \in Parties PROVE Order(q)'
  <2>1. CASE q = p
    <3>1. main'[p] = "running"
      BY <1>3, <1>4
    <3>2. \A h \in Groups : h # g => at'[<<h, p>>] = "none"
      BY <1>3, <1>4, <1>6, MasterPlayer, PlayerFacts
    <3>3. scenario.ot => at'[<<Master, p>>] = "none"
      BY <3>2, MasterPlayer, PlayerFacts
    <3>4. \A h \in Threads : at'[<<h, p>>] = "none"
      BY <3>2, MasterPlayer, PlayerFacts
    <3> QED  BY <1>1, <1>2, <2>1, <3>1, <3>3, <3>4 DEF Order
  <2>2. CASE q # p
    <3>1. \A h : at'[<<h, q>>] = at[<<h, q>>]
      BY <1>3, <1>4, <2>2
    <3>2. main'[q] = main[q]
      BY <1>3, <1>4, <2>2
    <3> QED  BY <1>1, <1>2, <3>1, <3>2 DEF Order, TypeInv, Orders
  <2> QED  BY <2>1, <2>2
<1> QED  BY <1>2, <1>8, <1>9, <1>10 DEF TypeInv, Places, Orders

LEMMA DeleteOTTypeInv ==
    ASSUME TypeInv, NEW p \in Parties, DeleteOT(p)
    PROVE  TypeInv'
<1>1. scenario' = scenario /\ main' = main /\ accepted' = accepted
  BY DEF DeleteOT, netVars
<1>2. /\ Player' = Player /\ Parties' = Parties /\ Connection' = Connection
      /\ Groups' = Groups /\ Threads' = Threads
  BY <1>1, Frame
<1>3. /\ at' = [at EXCEPT ![<<OT, p>>] = "closed", ![<<Master, p>>] = "connect"]
      /\ idx' = [idx EXCEPT ![<<Master, p>>] = p]
      /\ scenario.ot /\ at[<<OT, p>>] = "ready"
  BY DEF DeleteOT
<1>4. /\ at \in [Player -> Location] /\ idx \in [Player -> 0 .. scenario.n + 1]
      /\ "connect" \in Location /\ "closed" \in Location
  BY DEF TypeInv, PlayersTypeOK, Location
<1>5. <<Master, p>> \in Player /\ <<OT, p>> \in Player /\ Master # OT /\ OT \in Groups
  BY <1>3, MasterPlayer, PlayerFacts
<1>6. /\ at[<<Master, p>>] = "none" /\ main[p] = "running"
      /\ \A h \in Threads : at[<<h, p>>] = "none"
  BY <1>3, <1>5 DEF TypeInv, Orders, Order, Early
<1>7. p \in 0 .. scenario.n + 1 /\ p < scenario.n /\ p \in Nat
  BY MasterPlayer
<1>8. at' \in [Player -> Location] /\ idx' \in [Player -> 0 .. scenario.n + 1]
  BY <1>3, <1>4, <1>7
<1>9. PlayersTypeOK'
  BY <1>1, <1>2, <1>8 DEF DeleteOT, TypeInv, PlayersTypeOK, netVars
<1>10. ASSUME NEW y \in Player PROVE Place(y)'
  <2>1. CASE y = <<Master, p>>
    <3>1. accepted[y] = <<>>
      BY <1>6, <2>1 DEF TypeInv, Places, Place
    <3>2. at'[y] = "connect" /\ idx'[y] = p /\ y[2] = p
      BY <1>3, <1>4, <1>5, <2>1
    <3> QED  BY <1>1, <1>7, <3>1, <3>2 DEF Place
  <2>2. CASE y # <<Master, p>>
    <3>1. (at'[y] = at[y] \/ at'[y] = "closed") /\ idx'[y] = idx[y]
      BY <1>3, <1>4, <2>2
    <3> QED  BY <1>1, <3>1 DEF Place, TypeInv, Places
  <2> QED  BY <2>1, <2>2
<1>11. ASSUME NEW q \in Parties PROVE Order(q)'
  <2>1. CASE q = p
    <3>1. at'[<<OT, p>>] = "closed"
      BY <1>3, <1>4, <1>5
    <3>2. \A h \in Threads : at'[<<h, p>>] = "none"
      BY <1>3, <1>4, <1>6, MasterPlayer, PlayerFacts
    <3> QED  BY <1>1, <1>2, <1>6, <2>1, <3>1, <3>2 DEF Order
  <2>2. CASE q # p
    <3>1. ASSUME NEW h \in Groups PROVE at'[<<h, q>>] = at[<<h, q>>]
      <4>1. <<h, q>> \in Player /\ <<h, q>> # <<OT, p>> /\ <<h, q>> # <<Master, p>>
        BY <2>2, MasterPlayer, PlayerFacts
      <4> QED  BY <1>3, <1>4, <4>1
    <3>2. \A h \in Threads : h \in Groups
      BY MasterPlayer, PlayerFacts
    <3>3. Master \in Groups /\ Order(q)
      BY MasterPlayer, PlayerFacts DEF TypeInv, Orders
    <3> QED  BY <1>1, <1>2, <1>5, <3>1, <3>2, <3>3 DEF Order
  <2> QED  BY <2>1, <2>2
<1> QED  BY <1>2, <1>9, <1>10, <1>11 DEF TypeInv, Places, Orders

LEMMA StartThreadsTypeInv ==
    ASSUME TypeInv, NEW p \in Parties, StartThreads(p)
    PROVE  TypeInv'
<1>1. scenario' = scenario /\ main' = main /\ accepted' = accepted
  BY DEF StartThreads, netVars
<1>2. /\ Player' = Player /\ Parties' = Parties /\ Connection' = Connection
      /\ Groups' = Groups /\ Threads' = Threads
  BY <1>1, Frame
<1>3. /\ at' = [x \in Player |-> IF x = <<Master, p>> THEN "join"
                                 ELSE IF x[2] = p /\ x[1] \in Threads
                                 THEN "connect" ELSE at[x]]
      /\ idx' = [x \in Player |-> IF x[2] = p /\ x[1] \in Threads THEN p ELSE idx[x]]
      /\ at[<<Master, p>>] = "ready"
  BY DEF StartThreads
<1>4. /\ at \in [Player -> Location] /\ idx \in [Player -> 0 .. scenario.n + 1]
      /\ "connect" \in Location /\ "join" \in Location
  BY DEF TypeInv, PlayersTypeOK, Location
<1>5. main[p] = "running" /\ (scenario.ot => at[<<OT, p>>] = "closed")
  BY <1>3, PastEarly
<1>6. \A h \in Threads : at[<<h, p>>] = "none"
  BY <1>3 DEF TypeInv, Orders, Order, Early
<1>7. p \in 0 .. scenario.n + 1 /\ p < scenario.n /\ p \in Nat
  BY MasterPlayer
<1>8. at' \in [Player -> Location] /\ idx' \in [Player -> 0 .. scenario.n + 1]
  BY <1>3, <1>4, <1>7
<1>9. PlayersTypeOK'
  BY <1>1, <1>2, <1>8 DEF StartThreads, TypeInv, PlayersTypeOK, netVars
<1>10. ASSUME NEW y \in Player PROVE Place(y)'
  <2>0. y = <<y[1], y[2]>> /\ Place(y)
    BY MoverFacts
  <2>1. CASE y = <<Master, p>>
    BY <1>3, <2>1 DEF Place
  <2>2. CASE y # <<Master, p>> /\ y[2] = p /\ y[1] \in Threads
    <3>1. at[y] = "none" /\ at'[y] = "connect" /\ idx'[y] = p
      BY <1>3, <1>6, <2>0, <2>2
    <3> QED  BY <1>1, <1>7, <2>0, <2>2, <3>1 DEF Place
  <2>3. CASE y # <<Master, p>> /\ ~(y[2] = p /\ y[1] \in Threads)
    <3>1. at'[y] = at[y] /\ idx'[y] = idx[y]
      BY <1>3, <2>3
    <3> QED  BY <1>1, <2>0, <3>1 DEF Place
  <2> QED  BY <2>1, <2>2, <2>3
<1>11. ASSUME NEW q \in Parties PROVE Order(q)'
  <2>1. CASE q = p
    <3>1. at'[<<Master, p>>] = "join"
      BY <1>3, MasterPlayer
    <3>2. scenario.ot => at'[<<OT, p>>] = "closed"
      BY <1>3, <1>5, MasterPlayer, PlayerFacts
    <3> QED  BY <1>1, <1>5, <2>1, <3>1, <3>2 DEF Order, Early
  <2>2. CASE q # p
    <3>1. \A h \in Groups : at'[<<h, q>>] = at[<<h, q>>]
      BY <1>3, <2>2, MasterPlayer, PlayerFacts
    <3>2. \A h \in Threads : h \in Groups
      BY MasterPlayer, PlayerFacts
    <3>3. Master \in Groups /\ (scenario.ot => OT \in Groups) /\ Order(q)
      BY MasterPlayer, PlayerFacts DEF TypeInv, Orders
    <3> QED  BY <1>1, <1>2, <3>1, <3>2, <3>3 DEF Order
  <2> QED  BY <2>1, <2>2
<1> QED  BY <1>2, <1>9, <1>10, <1>11 DEF TypeInv, Places, Orders

LEMMA RunTapesTypeInv ==
    ASSUME TypeInv, NEW p \in Parties, RunTapes(p)
    PROVE  TypeInv'
<1>1. scenario' = scenario /\ main' = main /\ accepted' = accepted /\ idx' = idx
  BY DEF RunTapes, netVars
<1>2. /\ Player' = Player /\ Parties' = Parties /\ Connection' = Connection
      /\ Groups' = Groups /\ Threads' = Threads
  BY <1>1, Frame
<1>3. /\ at' = [x \in Player |-> IF x = <<Master, p>> THEN "finish"
                                 ELSE IF x[2] = p /\ x[1] \in Threads
                                 THEN "run" ELSE at[x]]
      /\ at[<<Master, p>>] = "join"
  BY DEF RunTapes
<1>4. at \in [Player -> Location] /\ "finish" \in Location /\ "run" \in Location
  BY DEF TypeInv, PlayersTypeOK, Location
<1>5. main[p] = "running" /\ (scenario.ot => at[<<OT, p>>] = "closed")
  BY <1>3, PastEarly
<1>6. at' \in [Player -> Location]
  BY <1>3, <1>4
<1>7. PlayersTypeOK'
  BY <1>1, <1>2, <1>6 DEF RunTapes, TypeInv, PlayersTypeOK, netVars
<1>8. ASSUME NEW y \in Player PROVE Place(y)'
  <2>1. at'[y] \in {at[y], "finish", "run"}
    BY <1>3
  <2> QED  BY <1>1, <2>1 DEF Place, TypeInv, Places
<1>9. ASSUME NEW q \in Parties PROVE Order(q)'
  <2>1. CASE q = p
    <3>1. at'[<<Master, p>>] = "finish"
      BY <1>3, MasterPlayer
    <3>2. scenario.ot => at'[<<OT, p>>] = "closed"
      BY <1>3, <1>5, MasterPlayer, PlayerFacts
    <3> QED  BY <1>1, <1>5, <2>1, <3>1, <3>2 DEF Order, Early
  <2>2. CASE q # p
    <3>1. \A h \in Groups : at'[<<h, q>>] = at[<<h, q>>]
      BY <1>3, <2>2, MasterPlayer, PlayerFacts
    <3>2. \A h \in Threads : h \in Groups
      BY MasterPlayer, PlayerFacts
    <3>3. Master \in Groups /\ (scenario.ot => OT \in Groups) /\ Order(q)
      BY MasterPlayer, PlayerFacts DEF TypeInv, Orders
    <3> QED  BY <1>1, <1>2, <3>1, <3>2, <3>3 DEF Order
  <2> QED  BY <2>1, <2>2
<1> QED  BY <1>2, <1>7, <1>8, <1>9 DEF TypeInv, Places, Orders

LEMMA FailuresTypeInv ==
    ASSUME TypeInv, NEW p \in Parties, Crash(p) \/ TimeOut(p) \/ Fail(p) \/ FailSending(p)
    PROVE  TypeInv' /\ UNCHANGED FailureVars
<1>1. CASE Crash(p)
  BY <1>1, FailureTypeInv DEF Crash, FailureVars
<1>2. CASE TimeOut(p)
  BY <1>2, FailureTypeInv DEF TimeOut, FailureVars
<1>3. CASE Fail(p)
  <2>1. UNCHANGED FailureVars /\ dead' = dead \cup {p} /\ budget' = budget
    BY <1>3 DEF Fail, FailureVars
  <2> QED  BY <2>1, FailureTypeInv
<1>4. CASE FailSending(p)
  <2>1. UNCHANGED FailureVars /\ dead' = dead \cup {p} /\ budget' = budget
    BY <1>4 DEF FailSending, FailureVars
  <2> QED  BY <2>1, FailureTypeInv
<1> QED  BY <1>1, <1>2, <1>3, <1>4

LEMMA StutterTypeInv ==
    ASSUME TypeInv, UNCHANGED playerVars
    PROVE  TypeInv'
<1>1. Player' = Player /\ Parties' = Parties /\ Connection' = Connection
  BY Frame DEF playerVars
<1>2. PlayersTypeOK'
  BY <1>1 DEF TypeInv, PlayersTypeOK, playerVars, netVars
<1>3. Places' /\ Orders'
  BY Unmoved DEF playerVars, netVars
<1> QED  BY <1>2, <1>3 DEF TypeInv

LEMMA NextTypeInv == TypeInv /\ [PlayersNext]_playerVars => TypeInv'
<1> SUFFICES ASSUME TypeInv, [PlayersNext]_playerVars PROVE TypeInv'
  OBVIOUS
<1>1. CASE Coordinate
  BY <1>1, CoordinateTypeInv
<1>2. CASE \E p \in Parties : MainStep(p)
  <2>1. PICK p \in Parties : MainStep(p)
    BY <1>2
  <2> QED  BY <2>1, IntroduceTypeInv, ListenTypeInv, DeleteOTTypeInv, StartThreadsTypeInv,
              RunTapesTypeInv, FinishTypeInv, SynchronizeTypeInv, CloseTypeInv,
              FailuresTypeInv DEF MainStep
<1>3. CASE \E p \in Parties : Accept(p) \/ RunJob(p)
  BY <1>3, AcceptTypeInv, RunJobTypeInv
<1>4. CASE \E p \in Parties : Crash(p) \/ TimeOut(p) \/ FailSending(p)
  BY <1>4, FailuresTypeInv
<1>5. CASE \E x \in Player : PlayerStep(x)
  <2>1. PICK x \in Player : PlayerStep(x)
    BY <1>5
  <2> QED  BY <2>1, ConnectTypeInv, IdentifyTypeInv, GetConnectionTypeInv,
              BeginHandshakeTypeInv, EndHandshakeTypeInv, SendOpeningTypeInv,
              ReceiveOpeningTypeInv, EndTapesTypeInv DEF PlayerStep
<1>6. CASE AllEnded \/ UNCHANGED playerVars
  BY <1>6, StutterTypeInv DEF AllEnded
<1> QED  BY <1>1, <1>2, <1>3, <1>4, <1>5, <1>6 DEF PlayersNext

(* Every variable ranges over what the code can put there: no player goes  *)
(* past the last peer of the loops of setup_sockets and CryptoPlayer.      *)
THEOREM TypeCorrect == PlayersSpec => []PlayersTypeOK
<1>1. PlayersInit => TypeInv
  BY InitTypeInv
<1>2. TypeInv /\ [PlayersNext]_playerVars => TypeInv'
  BY NextTypeInv
<1>3. TypeInv => PlayersTypeOK
  BY DEF TypeInv
<1> QED  BY <1>1, <1>2, <1>3, PTL DEF PlayersSpec

-----------------------------------------------------------------------------
(***************************************************************************)
(* Ids tell the players of a server apart if a machine that needs OT has   *)
(* no second thread: base 0xFFFF of the set-up is next to 1 << 16.         *)
(***************************************************************************)
OneThreadWithOT == scenario.ot => scenario.threads = 1

LEMMA IdsDistinct ==
    ASSUME scenario \in Scenarios, OneThreadWithOT,
           NEW g \in Groups, NEW h \in Groups, NEW c \in Parties, NEW d \in Parties,
           Id(g, c) = Id(h, d)
    PROVE  g = h /\ c = d
<1>1. c \in Nat /\ d \in Nat /\ c < 65535 /\ d < 65535
  BY ScenarioFacts DEF Parties
<1>2. Base(g) + c = Base(h) + d
  BY DEF Id
<1>3. \A k \in Groups : \/ k \in Nat /\ Base(k) = k * 65536 /\ (scenario.ot => k = 0)
                        \/ k = Master /\ Base(k) = -16777216
                        \/ k = OT /\ Base(k) = 65535 /\ scenario.ot
  <2>1. ASSUME NEW k \in Groups
        PROVE  \/ k \in Nat /\ (scenario.ot => k = 0)
               \/ k = Master
               \/ k = OT /\ scenario.ot
    BY ScenarioFacts DEF Groups, Threads, OneThreadWithOT
  <2> QED  BY <2>1 DEF Base, Master, OT
<1>4. CASE g \in Nat /\ h \in Nat /\ Base(g) = g * 65536 /\ Base(h) = h * 65536
  BY <1>1, <1>2, <1>4
<1>5. CASE g = Master
  BY <1>1, <1>2, <1>3, <1>5 DEF Master, OT
<1>6. CASE h = Master
  BY <1>1, <1>2, <1>3, <1>6 DEF Master, OT
<1>7. CASE g = OT /\ scenario.ot
  BY <1>1, <1>2, <1>3, <1>7 DEF Master, OT
<1>8. CASE h = OT /\ scenario.ot
  BY <1>1, <1>2, <1>3, <1>8 DEF Master, OT
<1> QED  BY <1>3, <1>4, <1>5, <1>6, <1>7, <1>8

(* What a party knows of its connections. *)
Labelled ==
    \A q \in Parties :
        /\ \A c \in backlog[q] \cup jobs[q] : c[3] = q
        /\ \A r \in clients[q] : r.conn[3] = q /\ r.id = Id(r.conn[1], r.conn[2])

PeerInv == TypeInv /\ Labelled /\ RightPeer

LEMMA OtherStepsPeer ==
    ASSUME PeerInv, UNCHANGED <<scenario, backlog, jobs, clients, accepted>>
    PROVE  Labelled' /\ RightPeer'
<1>1. Player' = Player /\ Parties' = Parties
  BY Frame
<1>2. Labelled'
  BY <1>1 DEF PeerInv, Labelled, Id, Base
<1>3. RightPeer'
  BY <1>1 DEF PeerInv, RightPeer
<1> QED  BY <1>2, <1>3

LEMMA KnownLabelled ==
    ASSUME PeerInv, NEW q \in Parties, NEW c \in backlog[q] \cup jobs[q], Known(q, c),
           NEW t \in Parties, NEW r \in clients'[t]
    PROVE  r.conn[3] = t /\ r.id = Id(r.conn[1], r.conn[2])
<1>1. clients \in [Parties -> SUBSET [id : Int, conn : Connection]] /\ c[3] = q
  BY DEF PeerInv, TypeInv, PlayersTypeOK, Labelled
<1>2. \/ r \in clients[t]
      \/ t = q /\ r = [id |-> Id(c[1], c[2]), conn |-> c]
  BY <1>1 DEF Known
<1>3. CASE r \in clients[t]
  BY <1>3 DEF PeerInv, Labelled
<1>4. CASE t = q /\ r = [id |-> Id(c[1], c[2]), conn |-> c]
  BY <1>1, <1>4
<1> QED  BY <1>2, <1>3, <1>4

LEMMA ConnectPeer ==
    ASSUME PeerInv, NEW x \in Player, Connect(x)
    PROVE  Labelled' /\ RightPeer'
<1>1. scenario' = scenario /\ UNCHANGED <<jobs, clients, accepted>>
  BY DEF Connect
<1>2. Player' = Player /\ Parties' = Parties
  BY <1>1, Frame
<1>3. backlog' = [backlog EXCEPT ![idx[x]] = @ \cup {<<x[1], x[2], idx[x]>>}]
  BY DEF Connect
<1>4. backlog \in [Parties -> SUBSET Connection]
  BY DEF PeerInv, TypeInv, PlayersTypeOK
<1>5. ASSUME NEW q \in Parties, NEW c \in backlog'[q] PROVE c[3] = q
  <2>1. CASE q = idx[x]
    <3>1. backlog'[q] = backlog[q] \cup {<<x[1], x[2], q>>}
      BY <1>3, <1>4, <2>1
    <3> QED  BY <3>1 DEF PeerInv, Labelled
  <2>2. CASE q # idx[x]
    <3>1. backlog'[q] = backlog[q]
      BY <1>3, <1>4, <2>2
    <3> QED  BY <3>1 DEF PeerInv, Labelled
  <2> QED  BY <2>1, <2>2
<1>6. Labelled'
  BY <1>1, <1>2, <1>5 DEF PeerInv, Labelled, Id, Base
<1>7. RightPeer'
  BY <1>1, <1>2 DEF PeerInv, RightPeer
<1> QED  BY <1>6, <1>7

LEMMA AcceptPeer ==
    ASSUME PeerInv, NEW q \in Parties, Accept(q)
    PROVE  Labelled' /\ RightPeer'
<1>1. scenario' = scenario /\ accepted' = accepted
  BY DEF Accept
<1>2. Player' = Player /\ Parties' = Parties
  BY <1>1, Frame
<1>3. PICK c \in backlog[q] :
          /\ IF c \in identified
             THEN Known(q, c) /\ UNCHANGED jobs
             ELSE jobs' = [jobs EXCEPT ![q] = @ \cup {c}] /\ UNCHANGED clients
          /\ backlog' = [backlog EXCEPT ![q] = @ \ {c}]
  BY DEF Accept
<1>4. /\ backlog \in [Parties -> SUBSET Connection]
      /\ jobs \in [Parties -> SUBSET Connection] /\ c[3] = q
  BY DEF PeerInv, TypeInv, PlayersTypeOK, Labelled
<1>5. ASSUME NEW t \in Parties, NEW d \in backlog'[t] \cup jobs'[t] PROVE d[3] = t
  <2>1. backlog'[t] \subseteq backlog[t]
    BY <1>3, <1>4
  <2>2. jobs'[t] \subseteq jobs[t] \/ (t = q /\ jobs'[t] = jobs[t] \cup {c})
    BY <1>3, <1>4
  <2> QED  BY <1>4, <2>1, <2>2 DEF PeerInv, Labelled
<1>6. ASSUME NEW t \in Parties, NEW r \in clients'[t]
      PROVE  r.conn[3] = t /\ r.id = Id(r.conn[1], r.conn[2])
  <2>1. CASE Known(q, c)
    BY <2>1, KnownLabelled
  <2>2. CASE clients' = clients
    BY <2>2 DEF PeerInv, Labelled
  <2> QED  BY <1>3, <2>1, <2>2
<1>7. Labelled'
  BY <1>2, <1>5, <1>6 DEF Labelled, Id, Base
<1>8. RightPeer'
  BY <1>1, <1>2 DEF PeerInv, RightPeer
<1> QED  BY <1>7, <1>8

LEMMA RunJobPeer ==
    ASSUME PeerInv, NEW q \in Parties, RunJob(q)
    PROVE  Labelled' /\ RightPeer'
<1>1. scenario' = scenario /\ accepted' = accepted /\ backlog' = backlog
  BY DEF RunJob
<1>2. Player' = Player /\ Parties' = Parties
  BY <1>1, Frame
<1>3. PICK c \in jobs[q] \cap identified :
          Known(q, c) /\ jobs' = [jobs EXCEPT ![q] = @ \ {c}]
  BY DEF RunJob
<1>4. jobs \in [Parties -> SUBSET Connection]
  BY DEF PeerInv, TypeInv, PlayersTypeOK
<1>5. ASSUME NEW t \in Parties, NEW d \in backlog'[t] \cup jobs'[t] PROVE d[3] = t
  <2>1. d \in backlog[t] \cup jobs[t]
    BY <1>1, <1>3, <1>4
  <2> QED  BY <2>1 DEF PeerInv, Labelled
<1>6. ASSUME NEW t \in Parties, NEW r \in clients'[t]
      PROVE  r.conn[3] = t /\ r.id = Id(r.conn[1], r.conn[2])
  BY <1>3, KnownLabelled
<1>7. Labelled'
  BY <1>2, <1>5, <1>6 DEF Labelled, Id, Base
<1>8. RightPeer'
  BY <1>1, <1>2 DEF PeerInv, RightPeer
<1> QED  BY <1>7, <1>8

LEMMA GetConnectionPeer ==
    ASSUME PeerInv, OneThreadWithOT, NEW x \in Player, GetConnection(x)
    PROVE  Labelled' /\ RightPeer'
<1> TypeInv
  BY DEF PeerInv
<1>1. scenario' = scenario /\ UNCHANGED <<jobs, clients, backlog>>
  BY DEF GetConnection
<1>2. Player' = Player /\ Parties' = Parties
  BY <1>1, Frame
<1>3. /\ at[x] = "accept" /\ idx[x] <= x[2] /\ Len(accepted[x]) = idx[x]
      /\ accepted[x] \in Seq(Connection) /\ idx[x] \in Nat
  BY MoverFacts DEF GetConnection, Place
<1>4. PICK r \in Found(x) : accepted' = [accepted EXCEPT ![x] = Append(@, r.conn)]
  BY DEF GetConnection
<1>5. /\ r \in clients[x[2]] /\ r.conn \in Connection
      /\ r.id = Id(x[1], idx[x])
  BY FoundType
<1>6. r.conn[3] = x[2] /\ r.id = Id(r.conn[1], r.conn[2])
  BY <1>5, MoverFacts DEF PeerInv, Labelled
<1>7. /\ r.conn[1] \in Groups /\ r.conn[2] \in Parties
      /\ r.conn = <<r.conn[1], r.conn[2], r.conn[3]>>
  BY <1>5 DEF Connection
<1>8. idx[x] \in Parties /\ x[1] \in Groups /\ scenario \in Scenarios
  BY <1>3, MoverFacts DEF Parties
<1>9. r.conn[1] = x[1] /\ r.conn[2] = idx[x]
  <2>1. Id(r.conn[1], r.conn[2]) = Id(x[1], idx[x])
    BY <1>5, <1>6
  <2> QED  BY <1>7, <1>8, <2>1, IdsDistinct
<1>10. r.conn = <<x[1], idx[x], x[2]>>
  BY <1>6, <1>7, <1>9
<1>11. accepted \in [Player -> Seq(Connection)]
  BY DEF TypeInv, PlayersTypeOK
<1>12. ASSUME NEW y \in Player, NEW i \in DOMAIN accepted'[y]
       PROVE  accepted'[y][i] = <<y[1], i - 1, y[2]>>
  <2>1. CASE y = x
    <3>1. accepted'[y] = Append(accepted[x], r.conn)
      BY <1>4, <1>11, <2>1
    <3>2. i \in 1 .. idx[x] + 1
      BY <1>3, <1>5, <3>1
    <3>3. CASE i = idx[x] + 1
      <4>1. accepted'[y][i] = r.conn /\ i - 1 = idx[x]
        BY <1>3, <1>5, <3>1, <3>3
      <4> QED  BY <1>10, <2>1, <4>1
    <3>4. CASE i \in 1 .. idx[x]
      <4>1. accepted'[y][i] = accepted[x][i] /\ i \in DOMAIN accepted[x]
        BY <1>3, <1>5, <3>1, <3>4
      <4> QED  BY <2>1, <4>1 DEF PeerInv, RightPeer
    <3> QED  BY <1>3, <3>2, <3>3, <3>4
  <2>2. CASE y # x
    BY <1>4, <1>11, <2>2 DEF PeerInv, RightPeer
  <2> QED  BY <2>1, <2>2
<1>13. Labelled'
  BY <1>1, <1>2 DEF PeerInv, Labelled, Id, Base
<1> QED  BY <1>2, <1>12, <1>13 DEF RightPeer

LEMMA NextPeerInv ==
    ASSUME PeerInv, OneThreadWithOT, [PlayersNext]_playerVars
    PROVE  Labelled' /\ RightPeer'
<1> DEFINE Quiet == UNCHANGED <<scenario, backlog, jobs, clients, accepted>>
<1>1. Quiet => Labelled' /\ RightPeer'
  BY OtherStepsPeer
<1>2. CASE Coordinate
  BY <1>1, <1>2 DEF Coordinate, netVars
<1>3. ASSUME NEW p \in Parties, MainStep(p) PROVE Quiet
  <2>1. CASE Introduce(p)
    BY <2>1 DEF Introduce, netVars
  <2>2. CASE Listen(p)
    BY <2>2 DEF Listen
  <2>3. CASE DeleteOT(p)
    BY <2>3 DEF DeleteOT, netVars
  <2>4. CASE StartThreads(p)
    BY <2>4 DEF StartThreads, netVars
  <2>5. CASE RunTapes(p)
    BY <2>5 DEF RunTapes, netVars
  <2>6. CASE Finish(p)
    BY <2>6 DEF Finish, netVars
  <2>7. CASE Synchronize(p)
    BY <2>7 DEF Synchronize, netVars
  <2>8. CASE Close(p)
    BY <2>8 DEF Close, netVars
  <2>9. CASE Fail(p)
    BY <2>9, FailuresTypeInv DEF PeerInv, FailureVars, netVars
  <2> QED  BY <1>3, <2>1, <2>2, <2>3, <2>4, <2>5, <2>6, <2>7, <2>8, <2>9 DEF MainStep
<1>4. CASE \E p \in Parties : Accept(p) \/ RunJob(p)
  BY <1>4, AcceptPeer, RunJobPeer
<1>5. CASE \E p \in Parties : Crash(p) \/ TimeOut(p) \/ FailSending(p)
  <2>1. UNCHANGED FailureVars
    BY <1>5, FailuresTypeInv DEF PeerInv
  <2> QED  BY <1>1, <2>1 DEF FailureVars, netVars
<1>6. ASSUME NEW x \in Player, PlayerStep(x) PROVE Labelled' /\ RightPeer'
  <2>1. CASE Connect(x)
    BY <2>1, ConnectPeer
  <2>2. CASE Identify(x)
    BY <1>1, <2>2 DEF Identify
  <2>3. CASE GetConnection(x)
    BY <2>3, GetConnectionPeer
  <2>4. CASE BeginHandshake(x)
    BY <1>1, <2>4 DEF BeginHandshake, netVars
  <2>5. CASE EndHandshake(x)
    BY <1>1, <2>5 DEF EndHandshake, netVars
  <2>6. CASE SendOpening(x)
    BY <1>1, <2>6 DEF SendOpening, netVars
  <2>7. CASE ReceiveOpening(x)
    BY <1>1, <2>7 DEF ReceiveOpening, netVars
  <2>8. CASE EndTapes(x)
    BY <1>1, <2>8 DEF EndTapes, netVars
  <2> QED  BY <1>6, <2>1, <2>2, <2>3, <2>4, <2>5, <2>6, <2>7, <2>8 DEF PlayerStep
<1>7. CASE AllEnded \/ UNCHANGED playerVars
  BY <1>1, <1>7 DEF AllEnded, playerVars, netVars
<1> QED  BY <1>1, <1>2, <1>3, <1>4, <1>5, <1>6, <1>7 DEF PlayersNext

LEMMA InitPeerInv == PlayersInit => PeerInv
<1> SUFFICES ASSUME PlayersInit PROVE PeerInv
  OBVIOUS
<1>1. TypeInv
  BY InitTypeInv
<1>2. Labelled
  BY DEF PlayersInit, Labelled
<1>3. RightPeer
  BY DEF PlayersInit, RightPeer
<1> QED  BY <1>1, <1>2, <1>3 DEF PeerInv

(***************************************************************************)
(* get_connection_socket and process_connection match connections by id:   *)
(* whatever the order in which connections and ids arrive and threads ask, *)
(* every player is connected to the players of its own group, each at the  *)
(* place of its party, if OT comes with one thread only.                   *)
(***************************************************************************)
THEOREM RightPeerCorrect ==
    ASSUME \A s \in Scenarios : s.ot => s.threads = 1
    PROVE  PlayersSpec => []RightPeer
<1>1. PlayersInit => PeerInv
  BY InitPeerInv
<1>2. PeerInv /\ [PlayersNext]_playerVars => PeerInv'
  <2> SUFFICES ASSUME PeerInv, [PlayersNext]_playerVars PROVE PeerInv'
    OBVIOUS
  <2>1. OneThreadWithOT
    BY DEF PeerInv, TypeInv, PlayersTypeOK, OneThreadWithOT
  <2>2. TypeInv'
    BY NextTypeInv DEF PeerInv
  <2> QED  BY <2>1, <2>2, NextPeerInv DEF PeerInv
<1>3. PeerInv => RightPeer
  BY DEF PeerInv
<1> QED  BY <1>1, <1>2, <1>3, PTL DEF PlayersSpec

-----------------------------------------------------------------------------
(***************************************************************************)
(* FinishedTogether.  What a main thread has heard in the broadcast: in    *)
(* its i-th exchange it learns that the threads of the i-th party before   *)
(* it are done, so that it closes nothing until those of all parties are.  *)
(***************************************************************************)
DoneAt(q) == \A g \in Threads : at[<<g, q>>] \in {"done", "closed"}

Closing(p) == at[<<Master, p>>] \in {"close", "closed"}

Heard(p) ==
    /\ at[<<Master, p>>] = "sync" =>
          /\ DoneAt(p) /\ idx[<<Master, p>>] >= 1
          /\ \A j \in 1 .. idx[<<Master, p>>] - 1 : DoneAt(FromParty(p, j))
    /\ Closing(p) => \A q \in Parties : DoneAt(q)
    /\ \A g \in Threads : at[<<g, p>>] = "closed" => Closing(p)

HeardInv == TypeInv /\ \A p \in Parties : Heard(p)

LEMMA ModFacts ==
    ASSUME NEW n \in Nat, n > 0, NEW a \in Nat
    PROVE  /\ a % n \in 0 .. n - 1
           /\ a < n => a % n = a
           /\ n <= a /\ a < 2 * n => a % n = a - n
<1>1. a % n \in 0 .. n - 1
  OBVIOUS
<1>2. a < n => a % n = a
  OBVIOUS
<1>3. n <= a /\ a < 2 * n => a % n = a - n
  OBVIOUS
<1> QED  BY <1>1, <1>2, <1>3

(* The parties that a main thread hears from are all the others. *)
LEMMA AllHeard ==
    ASSUME TypeInv, NEW p \in Parties
    PROVE  /\ \A j \in Nat : j <= scenario.n => FromParty(p, j) \in Parties
           /\ \A q \in Parties : q # p =>
                 \E j \in 1 .. scenario.n - 1 : q = FromParty(p, j)
<1>1. /\ scenario.n \in Nat /\ scenario.n > 0 /\ p \in Nat /\ p < scenario.n
      /\ \A q : q \in Parties <=> q \in Nat /\ q < scenario.n
  <2>1. scenario \in Scenarios
    BY MasterPlayer
  <2>2. \A q : q \in Parties <=> q \in Nat /\ q < scenario.n
    BY <2>1, PlayerFacts
  <2>3. scenario.n \in Nat /\ scenario.n >= 2
    BY MasterPlayer
  <2> QED  BY <2>2, <2>3
<1>2. ASSUME NEW j \in Nat, j <= scenario.n PROVE FromParty(p, j) \in Parties
  <2>1. p + scenario.n - j \in Nat
    BY <1>1, <1>2
  <2>2. (p + scenario.n - j) % scenario.n \in 0 .. scenario.n - 1
    BY <1>1, <2>1, ModFacts
  <2> QED  BY <1>1, <2>2 DEF FromParty
<1>3. ASSUME NEW q \in Parties, q # p
      PROVE  \E j \in 1 .. scenario.n - 1 : q = FromParty(p, j)
  <2>1. q \in Nat /\ q < scenario.n
    BY <1>1
  <2>2. CASE q < p
    <3>1. p - q \in 1 .. scenario.n - 1 /\ p + scenario.n - (p - q) = q + scenario.n
      BY <1>1, <2>1, <2>2
    <3>2. (q + scenario.n) % scenario.n = q
      BY <1>1, <2>1, ModFacts
    <3> QED  BY <3>1, <3>2 DEF FromParty
  <2>3. CASE q > p
    <3>1. /\ p + scenario.n - q \in 1 .. scenario.n - 1
          /\ p + scenario.n - (p + scenario.n - q) = q
      BY <1>1, <2>1, <2>3
    <3>2. q % scenario.n = q
      BY <1>1, <2>1, ModFacts
    <3> QED  BY <3>1, <3>2 DEF FromParty
  <2> QED  BY <1>1, <1>3, <2>1, <2>2, <2>3
<1> QED  BY <1>2, <1>3

(* Steps that are none of Finish, Synchronize and Close. *)
LEMMA OtherStepsHeard ==
    ASSUME HeardInv, scenario' = scenario,
           \A g \in Threads, q \in Parties :
               /\ at[<<g, q>>] \in {"done", "closed"} => at'[<<g, q>>] = at[<<g, q>>]
               /\ at'[<<g, q>>] = "closed" => at[<<g, q>>] = "closed",
           \A q \in Parties :
               \/ /\ at'[<<Master, q>>] = at[<<Master, q>>]
                  /\ idx'[<<Master, q>>] = idx[<<Master, q>>]
               \/ /\ at'[<<Master, q>>] \notin {"sync", "close", "closed"}
                  /\ at[<<Master, q>>] \notin {"close", "closed"}
    PROVE  \A p \in Parties' : Heard(p)'
<1>1. Parties' = Parties /\ Threads' = Threads
  BY Frame
<1>2. ASSUME NEW q \in Parties, DoneAt(q) PROVE DoneAt(q)'
  BY <1>1, <1>2 DEF DoneAt
<1>3. ASSUME NEW p \in Parties PROVE Heard(p)'
  <2>1. Heard(p)
    BY DEF HeardInv
  <2>2. scenario.n \in Nat /\ idx[<<Master, p>>] \in Nat
    BY MasterPlayer, MoverFacts DEF HeardInv
  <2>3. ASSUME at'[<<Master, p>>] = "sync"
        PROVE  /\ DoneAt(p)' /\ idx'[<<Master, p>>] >= 1
               /\ \A j \in 1 .. idx'[<<Master, p>>] - 1 : DoneAt(FromParty(p, j))'
    <3>1. /\ at[<<Master, p>>] = "sync" /\ idx'[<<Master, p>>] = idx[<<Master, p>>]
      BY <2>3
    <3>2. /\ DoneAt(p) /\ idx[<<Master, p>>] >= 1
          /\ \A j \in 1 .. idx[<<Master, p>>] - 1 : DoneAt(FromParty(p, j))
      BY <2>1, <3>1 DEF Heard
    <3>3. idx[<<Master, p>>] < scenario.n
      BY <3>1, MasterPlayer DEF HeardInv, TypeInv, Places, Place
    <3>4. ASSUME NEW j \in 1 .. idx[<<Master, p>>] - 1 PROVE DoneAt(FromParty(p, j))'
      <4>1. j \in Nat /\ j <= scenario.n
        BY <2>2, <3>3
      <4>2. FromParty(p, j) \in Parties
        BY <4>1, AllHeard DEF HeardInv
      <4>3. \A q \in Parties : DoneAt(q) => DoneAt(q)'
        BY <1>2
      <4>4. ASSUME NEW q \in Parties, q = FromParty(p, j) PROVE DoneAt(q)'
        BY <3>2, <4>3, <4>4
      <4>5. FromParty(p, j)' = FromParty(p, j)
        BY DEF FromParty
      <4> QED  BY <4>2, <4>4, <4>5 DEF DoneAt
    <3> QED  BY <1>2, <3>1, <3>2, <3>4
  <2>4. Closing(p)' => Closing(p)
    BY DEF Closing
  <2>5. Closing(p) => Closing(p)'
    BY DEF Closing
  <2>6. Closing(p)' => \A q \in Parties : DoneAt(q)'
    BY <1>2, <2>1, <2>4 DEF Heard
  <2>7. \A g \in Threads : at'[<<g, p>>] = "closed" => Closing(p)'
    BY <2>1, <2>5 DEF Heard
  <2> QED  BY <1>1, <2>3, <2>6, <2>7 DEF Heard
<1> QED  BY <1>1, <1>3

(* A step of a single player. *)
LEMMA MoveHeard ==
    ASSUME HeardInv, NEW x \in Player, scenario' = scenario,
           NEW l \in Location \ {"sync", "close", "closed"}, at' = [at EXCEPT ![x] = l],
           NEW i, idx' = [idx EXCEPT ![x] = i],
           at[x] \notin {"done", "close", "closed"}
    PROVE  \A p \in Parties' : Heard(p)'
<1>1. at \in [Player -> Location] /\ idx \in [Player -> 0 .. scenario.n + 1]
  BY DEF HeardInv, TypeInv, PlayersTypeOK
<1>2. ASSUME NEW y \in Player
      PROVE  \/ at'[y] = at[y] /\ idx'[y] = idx[y]
             \/ /\ at'[y] \notin {"sync", "close", "closed"}
                /\ at[y] \notin {"done", "close", "closed"}
  <2>1. CASE y = x
    BY <1>1, <2>1
  <2>2. CASE y # x
    BY <1>1, <2>2
  <2> QED  BY <2>1, <2>2
<1>3. \A g \in Threads, q \in Parties : <<g, q>> \in Player
  BY MasterPlayer, PlayerFacts DEF HeardInv
<1>4. \A q \in Parties : <<Master, q>> \in Player
  BY MasterPlayer DEF HeardInv
<1>5. \A g \in Threads, q \in Parties :
          /\ at[<<g, q>>] \in {"done", "closed"} => at'[<<g, q>>] = at[<<g, q>>]
          /\ at'[<<g, q>>] = "closed" => at[<<g, q>>] = "closed"
  BY <1>2, <1>3
<1>6. \A q \in Parties :
          \/ /\ at'[<<Master, q>>] = at[<<Master, q>>]
             /\ idx'[<<Master, q>>] = idx[<<Master, q>>]
          \/ /\ at'[<<Master, q>>] \notin {"sync", "close", "closed"}
             /\ at[<<Master, q>>] \notin {"close", "closed"}
  BY <1>2, <1>4
<1> QED  BY <1>5, <1>6, OtherStepsHeard

LEMMA PlayerStepHeard ==
    ASSUME HeardInv, NEW x \in Player, PlayerStep(x)
    PROVE  \A p \in Parties' : Heard(p)'
<1> TypeInv
  BY DEF HeardInv
<1>1. idx' = idx => idx' = [idx EXCEPT ![x] = idx[x]]
  BY MoverFacts
<1>2. {"identify", "connect", "accept", "shake", "ready", "shaking", "open", "run", "done"}
          \subseteq Location \ {"sync", "close", "closed"}
  BY DEF Location
<1>3. CASE Connect(x)
  BY <1>1, <1>2, <1>3, MoveHeard DEF Connect
<1>4. CASE Identify(x)
  <2> DEFINE l == IF idx[x] = scenario.n - 1 THEN "accept" ELSE "connect"
  <2> DEFINE i == IF idx[x] = scenario.n - 1 THEN 0 ELSE idx[x] + 1
  <2>1. /\ at' = [at EXCEPT ![x] = l] /\ idx' = [idx EXCEPT ![x] = i]
        /\ scenario' = scenario /\ at[x] = "identify"
    BY <1>4 DEF Identify
  <2>2. l \in Location \ {"sync", "close", "closed"}
    BY <1>2
  <2> HIDE DEF l, i
  <2> QED  BY <2>1, <2>2, MoveHeard
<1>5. CASE GetConnection(x)
  <2> DEFINE l == IF idx[x] = x[2] THEN Connected(x) ELSE "accept"
  <2> DEFINE i == IF idx[x] = x[2] THEN FirstPeer(x) ELSE idx[x] + 1
  <2>1. /\ at' = [at EXCEPT ![x] = l] /\ idx' = [idx EXCEPT ![x] = i]
        /\ scenario' = scenario /\ at[x] = "accept"
    BY <1>5 DEF GetConnection
  <2>2. l \in Location \ {"sync", "close", "closed"}
    BY <1>2 DEF Connected
  <2> HIDE DEF l, i
  <2> QED  BY <2>1, <2>2, MoveHeard
<1>6. CASE BeginHandshake(x)
  BY <1>1, <1>2, <1>6, MoveHeard DEF BeginHandshake
<1>7. CASE EndHandshake(x)
  <2> DEFINE l == IF NextPeer(x) < scenario.n THEN "shake" ELSE "ready"
  <2>1. /\ at' = [at EXCEPT ![x] = l] /\ idx' = [idx EXCEPT ![x] = NextPeer(x)]
        /\ scenario' = scenario /\ at[x] = "shaking"
    BY <1>7 DEF EndHandshake
  <2>2. l \in Location \ {"sync", "close", "closed"}
    BY <1>2
  <2> HIDE DEF l
  <2> QED  BY <2>1, <2>2, MoveHeard
<1>8. CASE SendOpening(x)
  BY <1>1, <1>2, <1>8, MoveHeard DEF SendOpening
<1>9. CASE ReceiveOpening(x)
  BY <1>1, <1>2, <1>9, MoveHeard DEF ReceiveOpening
<1>10. CASE EndTapes(x)
  BY <1>1, <1>2, <1>10, MoveHeard DEF EndTapes
<1> QED  BY <1>3, <1>4, <1>5, <1>6, <1>7, <1>8, <1>9, <1>10 DEF PlayerStep

LEMMA BuildHeard ==
    ASSUME HeardInv, NEW p \in Parties,
           Listen(p) \/ DeleteOT(p) \/ StartThreads(p) \/ RunTapes(p)
    PROVE  \A q \in Parties' : Heard(q)'
<1>0. TypeInv
  BY DEF HeardInv
<1>1. /\ at \in [Player -> Location] /\ idx \in [Player -> 0 .. scenario.n + 1]
      /\ scenario' = scenario
  BY <1>0 DEF TypeInv, PlayersTypeOK, Listen, DeleteOT, StartThreads, RunTapes
<1>2. \A g \in Threads, q \in Parties : <<g, q>> \in Player /\ g # Master /\ g # OT
  BY <1>0, MasterPlayer, PlayerFacts
<1>3. /\ \A q \in Parties : <<Master, q>> \in Player
      /\ Master \notin Threads /\ Master # OT
      /\ Master \in Groups /\ (scenario.ot => OT \in Groups)
  BY <1>0, MasterPlayer, PlayerFacts
<1> DEFINE Threads_(g, q) ==
      /\ at[<<g, q>>] \in {"done", "closed"} => at'[<<g, q>>] = at[<<g, q>>]
      /\ at'[<<g, q>>] = "closed" => at[<<g, q>>] = "closed"
<1> DEFINE Master_(q) ==
      \/ /\ at'[<<Master, q>>] = at[<<Master, q>>]
         /\ idx'[<<Master, q>>] = idx[<<Master, q>>]
      \/ /\ at'[<<Master, q>>] \notin {"sync", "close", "closed"}
         /\ at[<<Master, q>>] \notin {"close", "closed"}
<1>4. CASE Listen(p)
  <2> DEFINE b == IF scenario.ot THEN OT ELSE Master
  <2>1. /\ at' = [at EXCEPT ![<<b, p>>] = "connect"]
        /\ idx' = [idx EXCEPT ![<<b, p>>] = p]
    BY <1>4 DEF Listen, Begin
  <2>2. \A g \in Threads, q \in Parties : <<g, q>> # <<b, p>>
    BY <1>2
  <2>3. \A g \in Threads, q \in Parties : Threads_(g, q)
    BY <1>1, <1>2, <2>1, <2>2
  <2>4. \A g \in Groups : at[<<g, p>>] = "none"
    BY <1>0, <1>4 DEF Listen, TypeInv, Orders, Order
  <2>5. at[<<Master, p>>] = "none"
    BY <1>3, <2>4
  <2>6. ASSUME NEW q \in Parties PROVE Master_(q)
    <3>1. CASE <<b, p>> = <<Master, q>>
      BY <1>1, <1>3, <2>1, <2>5, <3>1
    <3>2. CASE <<b, p>> # <<Master, q>>
      BY <1>1, <1>3, <2>1, <3>2
    <3> QED  BY <3>1, <3>2
  <2> QED  BY <1>1, <2>3, <2>6, OtherStepsHeard
<1>5. CASE DeleteOT(p)
  <2>1. /\ at' = [at EXCEPT ![<<OT, p>>] = "closed", ![<<Master, p>>] = "connect"]
        /\ idx' = [idx EXCEPT ![<<Master, p>>] = p]
        /\ scenario.ot /\ at[<<OT, p>>] = "ready"
    BY <1>5 DEF DeleteOT
  <2>2. ASSUME NEW g \in Threads, NEW q \in Parties PROVE Threads_(g, q)
    <3>1. <<g, q>> \in Player /\ <<g, q>> # <<OT, p>> /\ <<g, q>> # <<Master, p>>
      BY <1>2
    <3>2. at'[<<g, q>>] = at[<<g, q>>]
      BY <1>1, <2>1, <3>1
    <3> QED  BY <3>2
  <2>3. at[<<Master, p>>] = "none"
    BY <1>0, <2>1 DEF TypeInv, Orders, Order
  <2>4. ASSUME NEW q \in Parties PROVE Master_(q)
    <3>1. CASE q = p
      BY <1>1, <1>3, <2>1, <2>3, <3>1
    <3>2. CASE q # p
      <4>1. <<Master, q>> \in Player /\ <<Master, q>> # <<OT, p>>
            /\ <<Master, q>> # <<Master, p>>
        BY <1>3, <3>2
      <4> QED  BY <1>1, <2>1, <4>1
    <3> QED  BY <3>1, <3>2
  <2> QED  BY <1>1, <2>2, <2>4, OtherStepsHeard
<1>6. CASE StartThreads(p)
  <2>1. /\ at' = [x \in Player |-> IF x = <<Master, p>> THEN "join"
                                   ELSE IF x[2] = p /\ x[1] \in Threads
                                   THEN "connect" ELSE at[x]]
        /\ idx' = [x \in Player |-> IF x[2] = p /\ x[1] \in Threads THEN p ELSE idx[x]]
        /\ at[<<Master, p>>] = "ready"
    BY <1>6 DEF StartThreads
  <2>2. \A g \in Threads : at[<<g, p>>] = "none"
    BY <1>0, <2>1 DEF TypeInv, Orders, Order, Early
  <2>3. \A g \in Threads, q \in Parties : Threads_(g, q)
    BY <1>2, <2>1, <2>2
  <2>4. \A q \in Parties : Master_(q)
    BY <1>3, <2>1
  <2> QED  BY <1>1, <2>3, <2>4, OtherStepsHeard
<1>7. CASE RunTapes(p)
  <2>1. /\ at' = [x \in Player |-> IF x = <<Master, p>> THEN "finish"
                                   ELSE IF x[2] = p /\ x[1] \in Threads
                                   THEN "run" ELSE at[x]]
        /\ idx' = idx
        /\ at[<<Master, p>>] = "join" /\ \A g \in Threads : at[<<g, p>>] = "ready"
    BY <1>7 DEF RunTapes
  <2>2. \A g \in Threads, q \in Parties : Threads_(g, q)
    BY <1>2, <2>1
  <2>3. \A q \in Parties : Master_(q)
    BY <1>3, <2>1
  <2> QED  BY <1>1, <2>2, <2>3, OtherStepsHeard
<1> QED  BY <1>4, <1>5, <1>6, <1>7

LEMMA HeardUnmoved ==
    ASSUME HeardInv, scenario' = scenario, Parties' = Parties, Threads' = Threads,
           NEW q \in Parties,
           \A g \in Threads, t \in Parties : at'[<<g, t>>] = at[<<g, t>>],
           \A t \in Parties : DoneAt(t) <=> DoneAt(t)',
           at'[<<Master, q>>] = at[<<Master, q>>],
           idx'[<<Master, q>>] = idx[<<Master, q>>]
    PROVE  Heard(q)'
<1>0. TypeInv /\ Heard(q)
  BY DEF HeardInv
<1>1. Closing(q) <=> Closing(q)'
  BY DEF Closing
<1>2. scenario.n \in Nat /\ idx[<<Master, q>>] \in Nat /\ <<Master, q>> \in Player
  BY <1>0, MasterPlayer, MoverFacts
<1>3. at'[<<Master, q>>] = "sync" =>
         /\ DoneAt(q)' /\ idx'[<<Master, q>>] >= 1
         /\ \A j \in 1 .. idx'[<<Master, q>>] - 1 : DoneAt(FromParty(q, j))'
  <2> SUFFICES ASSUME at'[<<Master, q>>] = "sync"
               PROVE  /\ DoneAt(q)' /\ idx'[<<Master, q>>] >= 1
                      /\ \A j \in 1 .. idx'[<<Master, q>>] - 1 : DoneAt(FromParty(q, j))'
    OBVIOUS
  <2>1. /\ idx[<<Master, q>>] < scenario.n /\ idx[<<Master, q>>] >= 1 /\ DoneAt(q)
        /\ \A j \in 1 .. idx[<<Master, q>>] - 1 : DoneAt(FromParty(q, j))
    BY <1>0, <1>2 DEF Heard, TypeInv, Places, Place
  <2>2. ASSUME NEW j \in 1 .. idx[<<Master, q>>] - 1 PROVE DoneAt(FromParty(q, j))'
    <3>1. j \in Nat /\ j <= scenario.n
      BY <1>2, <2>1
    <3>2. PICK t \in Parties : t = FromParty(q, j)
      BY <1>0, <3>1, AllHeard
    <3>3. DoneAt(t)'
      BY <2>1, <3>2
    <3>4. FromParty(q, j)' = FromParty(q, j)
      BY DEF FromParty
    <3> QED  BY <3>2, <3>3, <3>4 DEF DoneAt
  <2> QED  BY <2>1, <2>2
<1>4. Closing(q)' => \A t \in Parties : DoneAt(t)'
  BY <1>0, <1>1 DEF Heard
<1>5. \A g \in Threads : at'[<<g, q>>] = "closed" => Closing(q)'
  BY <1>0, <1>1 DEF Heard
<1> QED  BY <1>3, <1>4, <1>5 DEF Heard

LEMMA FinishHeard ==
    ASSUME HeardInv, NEW p \in Parties, Finish(p)
    PROVE  \A q \in Parties' : Heard(q)'
<1>0. TypeInv
  BY DEF HeardInv
<1>1. /\ scenario' = scenario /\ at' = [at EXCEPT ![<<Master, p>>] = "sync"]
      /\ idx' = [idx EXCEPT ![<<Master, p>>] = 1]
      /\ at[<<Master, p>>] = "finish" /\ \A g \in Threads : at[<<g, p>>] = "done"
  BY DEF Finish
<1>2. Parties' = Parties /\ Threads' = Threads
  BY <1>1, Frame
<1>3. at \in [Player -> Location] /\ idx \in [Player -> 0 .. scenario.n + 1]
  BY <1>0 DEF TypeInv, PlayersTypeOK
<1>4. /\ \A q \in Parties : <<Master, q>> \in Player
      /\ \A g \in Threads, q \in Parties : <<g, q>> \in Player /\ g # Master
  BY <1>0, MasterPlayer, PlayerFacts
<1>5. \A g \in Threads, q \in Parties : at'[<<g, q>>] = at[<<g, q>>]
  BY <1>1, <1>3, <1>4
<1>6. \A q \in Parties : DoneAt(q) <=> DoneAt(q)'
  BY <1>2, <1>5 DEF DoneAt
<1>7. ASSUME NEW q \in Parties PROVE Heard(q)'
  <2>1. CASE q = p
    <3>1. at'[<<Master, p>>] = "sync" /\ idx'[<<Master, p>>] = 1
      BY <1>1, <1>3, <1>4
    <3>2. DoneAt(p)'
      BY <1>1, <1>6 DEF DoneAt
    <3>3. \A j \in 1 .. idx'[<<Master, p>>] - 1 : FALSE
      BY <3>1
    <3>4. \A g \in Threads : at'[<<g, p>>] # "closed"
      BY <1>1, <1>5
    <3>5. /\ ~Closing(p)' /\ idx'[<<Master, p>>] >= 1
          /\ \A j \in 1 .. idx'[<<Master, p>>] - 1 : DoneAt(FromParty(p, j))'
      BY <3>1, <3>3 DEF Closing
    <3> QED  BY <1>2, <2>1, <3>2, <3>4, <3>5 DEF Heard
  <2>2. CASE q # p
    <3>1. at'[<<Master, q>>] = at[<<Master, q>>] /\ idx'[<<Master, q>>] = idx[<<Master, q>>]
      BY <1>1, <1>3, <1>4, <2>2
    <3> QED  BY <1>1, <1>2, <1>5, <1>6, <3>1, HeardUnmoved
  <2> QED  BY <2>1, <2>2
<1> QED  BY <1>2, <1>7

LEMMA SynchronizeHeard ==
    ASSUME HeardInv, NEW p \in Parties, Synchronize(p)
    PROVE  \A q \in Parties' : Heard(q)'
<1>0. TypeInv
  BY DEF HeardInv
<1>1. /\ scenario' = scenario /\ at[<<Master, p>>] = "sync"
      /\ Told(FromParty(p, idx[<<Master, p>>]), idx[<<Master, p>>])
      /\ IF idx[<<Master, p>>] < scenario.n - 1
         THEN idx' = [idx EXCEPT ![<<Master, p>>] = @ + 1] /\ at' = at
         ELSE at' = [at EXCEPT ![<<Master, p>>] = "close"] /\ idx' = idx
  BY DEF Synchronize
<1>2. Parties' = Parties /\ Threads' = Threads
  BY <1>1, Frame
<1>3. at \in [Player -> Location] /\ idx \in [Player -> 0 .. scenario.n + 1]
  BY <1>0 DEF TypeInv, PlayersTypeOK
<1>4. /\ \A q \in Parties : <<Master, q>> \in Player
      /\ \A g \in Threads, q \in Parties : <<g, q>> \in Player /\ g # Master
  BY <1>0, MasterPlayer, PlayerFacts
<1>5. \A g \in Threads, q \in Parties : at'[<<g, q>>] = at[<<g, q>>]
  BY <1>1, <1>3, <1>4
<1>6. \A q \in Parties : DoneAt(q) <=> DoneAt(q)'
  BY <1>2, <1>5 DEF DoneAt
<1> DEFINE i == idx[<<Master, p>>]
<1>7. /\ DoneAt(p) /\ i >= 1 /\ i \in Nat /\ i < scenario.n /\ scenario.n \in Nat
      /\ \A j \in 1 .. i - 1 : DoneAt(FromParty(p, j))
      /\ \A g \in Threads : at[<<g, p>>] # "closed"
  <2>1. Heard(p)
    BY DEF HeardInv
  <2>2. Place(<<Master, p>>) /\ i \in Nat /\ scenario.n \in Nat
    BY <1>0, <1>4, MoverFacts
  <2> QED  BY <1>1, <2>1, <2>2 DEF Heard, Place, Closing
<1>8. FromParty(p, i) \in Parties
  <2>1. i \in Nat /\ i <= scenario.n
    BY <1>7
  <2> HIDE DEF i
  <2> QED  BY <1>0, <2>1, AllHeard
<1>9. DoneAt(FromParty(p, i))
  <2>1. PICK q \in Parties : q = FromParty(p, i)
    BY <1>8
  <2>2. Heard(q) /\ Told(q, i)
    BY <1>1, <2>1 DEF HeardInv
  <2>3. DoneAt(q)
    BY <2>2 DEF Told, Heard, Closing
  <2> QED  BY <2>1, <2>3
<1>10. \A j \in 1 .. i : DoneAt(FromParty(p, j))
  <2>1. \A j \in 1 .. i : j = i \/ j \in 1 .. i - 1
    BY <1>7
  <2> QED  BY <1>7, <1>9, <2>1
<1>11. ASSUME NEW q \in Parties PROVE Heard(q)'
  <2>1. CASE q = p /\ i < scenario.n - 1
    <3>1. at'[<<Master, p>>] = "sync" /\ idx'[<<Master, p>>] = i + 1
      BY <1>1, <1>3, <1>4, <2>1
    <3>2. idx'[<<Master, p>>] >= 1 /\ 1 .. idx'[<<Master, p>>] - 1 = 1 .. i
      BY <1>7, <3>1
    <3>3. ASSUME NEW j \in 1 .. i PROVE DoneAt(FromParty(p, j))'
      <4>1. j \in Nat /\ j <= scenario.n
        BY <1>7
      <4>2. PICK t \in Parties : t = FromParty(p, j)
        BY <1>0, <4>1, AllHeard
      <4>3. DoneAt(t)'
        BY <1>6, <1>10, <4>2
      <4>4. FromParty(p, j)' = FromParty(p, j)
        BY <1>1 DEF FromParty
      <4> QED  BY <4>2, <4>3, <4>4 DEF DoneAt
    <3>4. DoneAt(p)' /\ ~Closing(p)'
      BY <1>6, <1>7, <3>1 DEF Closing
    <3>5. \A g \in Threads : at'[<<g, p>>] # "closed"
      BY <1>5, <1>7
    <3> QED  BY <1>2, <2>1, <3>2, <3>3, <3>4, <3>5 DEF Heard
  <2>2. CASE q = p /\ ~(i < scenario.n - 1)
    <3>1. at'[<<Master, p>>] = "close"
      BY <1>1, <1>3, <1>4, <2>2
    <3>2. i = scenario.n - 1
      BY <1>7, <2>2
    <3>3. \A t \in Parties : DoneAt(t)
      BY <1>0, <1>7, <1>10, <3>2, AllHeard
    <3>4. Closing(p)' /\ \A t \in Parties : DoneAt(t)'
      BY <1>6, <3>1, <3>3 DEF Closing
    <3> QED  BY <1>2, <2>2, <3>1, <3>4 DEF Heard
  <2>3. CASE q # p
    <3>1. at'[<<Master, q>>] = at[<<Master, q>>] /\ idx'[<<Master, q>>] = idx[<<Master, q>>]
      BY <1>1, <1>3, <1>4, <2>3
    <3> QED  BY <1>1, <1>2, <1>5, <1>6, <3>1, HeardUnmoved
  <2> QED  BY <2>1, <2>2, <2>3
<1> QED  BY <1>2, <1>11

LEMMA CloseHeard ==
    ASSUME HeardInv, NEW p \in Parties, Close(p)
    PROVE  \A q \in Parties' : Heard(q)'
<1>0. TypeInv
  BY DEF HeardInv
<1>1. scenario' = scenario /\ idx' = idx /\ at[<<Master, p>>] = "close"
  BY DEF Close
<1>2. PICK g : at' = [at EXCEPT ![<<g, p>>] = "closed"]
  BY DEF Close
<1>3. Parties' = Parties /\ Threads' = Threads
  BY <1>1, Frame
<1>4. at \in [Player -> Location]
  BY <1>0 DEF TypeInv, PlayersTypeOK
<1>5. /\ \A q \in Parties : <<Master, q>> \in Player
      /\ \A h \in Threads, q \in Parties : <<h, q>> \in Player
  BY <1>0, MasterPlayer, PlayerFacts
<1>6. \A h \in Threads, q \in Parties :
          at'[<<h, q>>] = at[<<h, q>>] \/ at'[<<h, q>>] = "closed"
  BY <1>2, <1>4, <1>5
<1>7. \A q \in Parties : DoneAt(q)'
  <2>1. \A q \in Parties : DoneAt(q)
    BY <1>1 DEF HeardInv, Heard, Closing
  <2> QED  BY <1>3, <1>6, <2>1 DEF DoneAt
<1>8. Closing(p)' /\ at'[<<Master, p>>] # "sync"
  <2>1. at'[<<Master, p>>] \in {"close", "closed"}
    BY <1>1, <1>2, <1>4, <1>5
  <2> QED  BY <2>1 DEF Closing
<1>9. ASSUME NEW q \in Parties, q # p PROVE Heard(q)'
  <2>1. \A h : at'[<<h, q>>] = at[<<h, q>>]
    BY <1>2, <1>4, <1>9
  <2>2. Closing(q) <=> Closing(q)'
    BY <2>1 DEF Closing
  <2>3. scenario.n \in Nat /\ idx[<<Master, q>>] \in Nat
    BY <1>0, <1>5, MoverFacts
  <2>4. at'[<<Master, q>>] = "sync" =>
           /\ DoneAt(q)' /\ idx'[<<Master, q>>] >= 1
           /\ \A j \in 1 .. idx'[<<Master, q>>] - 1 : DoneAt(FromParty(q, j))'
    <3> SUFFICES ASSUME at'[<<Master, q>>] = "sync"
                 PROVE  /\ DoneAt(q)' /\ idx'[<<Master, q>>] >= 1
                        /\ \A j \in 1 .. idx'[<<Master, q>>] - 1 : DoneAt(FromParty(q, j))'
      OBVIOUS
    <3>1. idx[<<Master, q>>] < scenario.n /\ idx[<<Master, q>>] >= 1
      BY <1>0, <1>5, <2>1 DEF HeardInv, Heard, TypeInv, Places, Place
    <3>2. ASSUME NEW j \in 1 .. idx[<<Master, q>>] - 1 PROVE DoneAt(FromParty(q, j))'
      <4>1. j \in Nat /\ j <= scenario.n
        BY <2>3, <3>1
      <4>2. PICK t \in Parties : t = FromParty(q, j)
        BY <1>0, <4>1, AllHeard
      <4>3. FromParty(q, j)' = FromParty(q, j)
        BY <1>1 DEF FromParty
      <4> QED  BY <1>7, <4>2, <4>3 DEF DoneAt
    <3> QED  BY <1>1, <1>7, <3>1, <3>2
  <2>5. \A h \in Threads : at'[<<h, q>>] = "closed" => Closing(q)'
    BY <2>1, <2>2 DEF HeardInv, Heard
  <2> QED  BY <1>3, <1>7, <2>4, <2>5 DEF Heard
<1>10. Heard(p)'
  BY <1>3, <1>7, <1>8 DEF Heard
<1> QED  BY <1>3, <1>9, <1>10

LEMMA NextHeard ==
    ASSUME HeardInv, [PlayersNext]_playerVars
    PROVE  \A p \in Parties' : Heard(p)'
<1>1. UNCHANGED <<scenario, at, idx>> => \A p \in Parties' : Heard(p)'
  BY OtherStepsHeard
<1>2. CASE Coordinate
  BY <1>1, <1>2 DEF Coordinate
<1>3. ASSUME NEW p \in Parties, MainStep(p) PROVE \A q \in Parties' : Heard(q)'
  <2>1. CASE Introduce(p)
    BY <1>1, <2>1 DEF Introduce
  <2>2. CASE Listen(p) \/ DeleteOT(p) \/ StartThreads(p) \/ RunTapes(p)
    BY <2>2, BuildHeard
  <2>3. CASE Finish(p)
    BY <2>3, FinishHeard
  <2>4. CASE Synchronize(p)
    BY <2>4, SynchronizeHeard
  <2>5. CASE Close(p)
    BY <2>5, CloseHeard
  <2>6. CASE Fail(p)
    BY <1>1, <2>6 DEF Fail
  <2> QED  BY <1>3, <2>1, <2>2, <2>3, <2>4, <2>5, <2>6 DEF MainStep
<1>4. CASE \E p \in Parties : Accept(p) \/ RunJob(p)
  BY <1>1, <1>4 DEF Accept, RunJob
<1>5. CASE \E p \in Parties : Crash(p) \/ TimeOut(p) \/ FailSending(p)
  <2>1. UNCHANGED FailureVars
    BY <1>5, FailuresTypeInv DEF HeardInv
  <2> QED  BY <1>1, <2>1 DEF FailureVars
<1>6. CASE \E x \in Player : PlayerStep(x)
  BY <1>6, PlayerStepHeard
<1>7. CASE AllEnded \/ UNCHANGED playerVars
  BY <1>1, <1>7 DEF AllEnded, playerVars
<1> QED  BY <1>2, <1>3, <1>4, <1>5, <1>6, <1>7 DEF PlayersNext

LEMMA InitHeardInv == PlayersInit => HeardInv
<1> SUFFICES ASSUME PlayersInit PROVE HeardInv
  OBVIOUS
<1>1. TypeInv
  BY InitTypeInv
<1>2. \A q \in Parties, g \in Groups : at[<<g, q>>] = "none"
  BY <1>1, MasterPlayer, PlayerFacts DEF PlayersInit
<1>3. \A q \in Parties : at[<<Master, q>>] = "none"
  BY <1>1, <1>2, MasterPlayer, PlayerFacts
<1>4. \A q \in Parties, g \in Threads : at[<<g, q>>] = "none"
  BY <1>1, <1>2, MasterPlayer, PlayerFacts
<1> QED  BY <1>1, <1>3, <1>4 DEF HeardInv, Heard, Closing

LEMMA NextHeardInv == HeardInv /\ [PlayersNext]_playerVars => HeardInv'
<1> SUFFICES ASSUME HeardInv, [PlayersNext]_playerVars PROVE HeardInv'
  OBVIOUS
<1>1. TypeInv'
  BY NextTypeInv DEF HeardInv
<1> QED  BY <1>1, NextHeard DEF HeardInv

(***************************************************************************)
(* ThreadMaster::run synchronizes before it deletes its threads: a party   *)
(* closes the player of a thread only when that thread has finished at     *)
(* every party, whatever crashes and timeouts there are.                   *)
(***************************************************************************)
THEOREM FinishedTogetherCorrect == PlayersSpec => []FinishedTogether
<1>1. HeardInv => FinishedTogether
  BY DEF HeardInv, Heard, DoneAt, Closing, FinishedTogether
<1> QED  BY <1>1, InitHeardInv, NextHeardInv, PTL DEF PlayersSpec

-----------------------------------------------------------------------------
(***************************************************************************)
(* FailuresHaveACause.  Ids are asked for once: one is in used only if its *)
(* player has got past it.  Only the players of threads open values.       *)
(***************************************************************************)
Unserved == {"none", "connect", "identify"}

Passed(x, i) == at[x] \notin Unserved /\ (at[x] = "accept" => i < idx[x])

AskedOnce ==
    \A x \in Player : \A i \in Parties : Id(x[1], i) \in used[x[2]] => Passed(x, i)

Openers == \A x \in Player : at[x] \in {"run", "open"} => x[1] \in Threads

CauseInv == HeardInv /\ AskedOnce /\ Openers

(* Steps in which players go on as they must, and none asks. *)
GoesOn(x) ==
    /\ \/ at[x] \in Unserved
       \/ at'[x] \notin Unserved \cup {"accept"}
       \/ at'[x] = at[x] /\ idx'[x] = idx[x]
    /\ at'[x] \in {"run", "open"} => at[x] \in {"run", "open"} \/ x[1] \in Threads

LEMMA GoingOn ==
    ASSUME CauseInv, scenario' = scenario, used' = used, \A x \in Player : GoesOn(x)
    PROVE  AskedOnce' /\ Openers'
<1>1. /\ Parties' = Parties /\ Threads' = Threads /\ Player' = Player
      /\ \A g, i : Id(g, i)' = Id(g, i)
  BY Frame DEF Id, Base
<1>2. ASSUME NEW x \in Player, NEW i \in Parties, Id(x[1], i) \in used[x[2]]
      PROVE  Passed(x, i)'
  <2>1. Passed(x, i) /\ GoesOn(x)
    BY <1>2 DEF CauseInv, AskedOnce
  <2> QED  BY <2>1 DEF Passed, GoesOn, Unserved
<1>3. ASSUME NEW x \in Player, at'[x] \in {"run", "open"} PROVE x[1] \in Threads
  BY <1>3 DEF CauseInv, Openers, GoesOn
<1> QED  BY <1>1, <1>2, <1>3 DEF AskedOnce, Openers

LEMMA OnePlayerGoesOn ==
    ASSUME CauseInv, NEW x \in Player, NEW l, NEW i, GoesOn(x),
           at' = [at EXCEPT ![x] = l], idx' = idx \/ idx' = [idx EXCEPT ![x] = i]
    PROVE  \A y \in Player : GoesOn(y)
<1>1. at \in [Player -> Location] /\ idx \in [Player -> 0 .. scenario.n + 1]
  BY DEF CauseInv, HeardInv, TypeInv, PlayersTypeOK
<1>2. \A y \in Player : y # x => at'[y] = at[y] /\ idx'[y] = idx[y]
  BY <1>1
<1> QED  BY <1>2 DEF GoesOn

LEMMA NothingMoves ==
    ASSUME CauseInv, UNCHANGED <<scenario, used, at, idx>>
    PROVE  AskedOnce' /\ Openers'
<1>1. \A x \in Player : GoesOn(x)
  BY DEF GoesOn
<1> QED  BY <1>1, GoingOn

(* The id of a connection is asked for by the player that then passes it. *)
LEMMA GetConnectionCause ==
    ASSUME CauseInv, OneThreadWithOT, NEW x \in Player, GetConnection(x)
    PROVE  AskedOnce' /\ Openers'
<1> TypeInv
  BY DEF CauseInv, HeardInv
<1> USE MoverFacts
<1>1. /\ scenario' = scenario /\ at[x] = "accept"
      /\ used' = [used EXCEPT ![x[2]] = @ \cup {Wanted(x)}]
      /\ at' = [at EXCEPT ![x] = IF idx[x] = x[2] THEN Connected(x) ELSE "accept"]
      /\ idx' = [idx EXCEPT ![x] = IF idx[x] = x[2] THEN FirstPeer(x) ELSE @ + 1]
  BY DEF GetConnection
<1>2. /\ Parties' = Parties /\ Threads' = Threads /\ Player' = Player
      /\ \A g, i : Id(g, i)' = Id(g, i)
  BY <1>1, Frame DEF Id, Base
<1>3. idx[x] <= x[2] /\ idx[x] \in Parties
  BY <1>1, PlayerFacts DEF Place, Parties
<1>4. /\ at \in [Player -> Location] /\ idx \in [Player -> 0 .. scenario.n + 1]
      /\ used \in [Parties -> SUBSET Int]
  BY DEF TypeInv, PlayersTypeOK
<1>5. Connected(x) \notin Unserved \cup {"accept", "run", "open"}
  BY DEF Connected, Unserved
<1>6. ASSUME NEW y \in Player, NEW i \in Parties, Id(y[1], i) \in used'[y[2]]
      PROVE  Passed(y, i)'
  <2>1. y[1] \in Groups /\ y[2] \in Parties /\ y = <<y[1], y[2]>>
    OBVIOUS
  <2>2. \/ Id(y[1], i) \in used[y[2]]
        \/ y[2] = x[2] /\ Id(y[1], i) = Id(x[1], idx[x])
    BY <1>1, <1>4, <1>6, <2>1 DEF Wanted
  <2>3. \/ Id(y[1], i) \in used[y[2]]
        \/ y = x /\ i = idx[x]
    <3>1. CASE Id(y[1], i) \in used[y[2]]
      BY <3>1
    <3>2. CASE y[2] = x[2] /\ Id(y[1], i) = Id(x[1], idx[x])
      <4>1. y[1] = x[1] /\ i = idx[x]
        BY <1>3, <2>1, <3>2, IdsDistinct
      <4> QED  BY <2>1, <3>2, <4>1
    <3> QED  BY <2>2, <3>1, <3>2
  <2>4. CASE y # x
    <3>1. at'[y] = at[y] /\ idx'[y] = idx[y] /\ Id(y[1], i) \in used[y[2]]
      BY <1>1, <1>4, <2>3, <2>4
    <3> QED  BY <3>1 DEF CauseInv, AskedOnce, Passed
  <2>5. CASE y = x
    <3>1. i <= idx[x]
      <4>1. CASE Id(x[1], i) \in used[x[2]]
        <5>1. Passed(x, i)
          BY <4>1 DEF CauseInv, AskedOnce
        <5>2. i < idx[x]
          BY <1>1, <5>1 DEF Passed
        <5> QED  BY <1>3, <5>2 DEF Parties
      <4> QED  BY <1>3, <2>3, <2>5, <4>1 DEF Parties
    <3>2. CASE idx[x] = x[2]
      <4>1. at'[x] = Connected(x)
        BY <1>1, <1>4, <3>2
      <4> QED  BY <1>5, <2>5, <4>1 DEF Passed
    <3>3. CASE idx[x] # x[2]
      <4>1. at'[x] = "accept" /\ idx'[x] = idx[x] + 1
        BY <1>1, <1>4, <3>3
      <4> QED  BY <1>3, <2>5, <3>1, <4>1 DEF Passed, Parties, Unserved
    <3> QED  BY <3>2, <3>3
  <2> QED  BY <2>4, <2>5
<1>7. ASSUME NEW y \in Player, at'[y] \in {"run", "open"} PROVE y[1] \in Threads
  <2>1. y # x
    BY <1>1, <1>4, <1>5, <1>7
  <2>2. at'[y] = at[y]
    BY <1>1, <1>4, <2>1
  <2> QED  BY <1>7, <2>2 DEF CauseInv, Openers
<1> QED  BY <1>2, <1>6, <1>7 DEF AskedOnce, Openers

LEMMA PlayerStepCause ==
    ASSUME CauseInv, OneThreadWithOT, NEW x \in Player, PlayerStep(x)
    PROVE  AskedOnce' /\ Openers'
<1>0. at \in [Player -> Location] /\ idx \in [Player -> 0 .. scenario.n + 1]
  BY DEF CauseInv, HeardInv, TypeInv, PlayersTypeOK
<1>1. at[x] \in {"run", "open"} => x[1] \in Threads
  BY DEF CauseInv, Openers
<1>2. CASE GetConnection(x)
  BY <1>2, GetConnectionCause
<1>3. CASE ~GetConnection(x)
  <2>1. scenario' = scenario /\ used' = used
    BY <1>3 DEF PlayerStep, Connect, Identify, BeginHandshake, EndHandshake, SendOpening,
                ReceiveOpening, EndTapes, netVars
  <2>2. PICK l, i : /\ at' = [at EXCEPT ![x] = l]
                    /\ idx' = idx \/ idx' = [idx EXCEPT ![x] = i]
                    /\ \/ at[x] \in Unserved /\ l \notin {"run", "open"}
                       \/ l \in {"shake", "shaking", "ready", "done"}
                       \/ l \in {"run", "open"} /\ at[x] \in {"run", "open"}
    <3>1. CASE Connect(x)
      <4>1. PICK l : l = "identify"
        OBVIOUS
      <4>2. /\ at' = [at EXCEPT ![x] = l] /\ idx' = idx
            /\ at[x] \in Unserved /\ l \notin {"run", "open"}
        BY <3>1, <4>1 DEF Connect, Unserved
      <4> QED  BY <4>2
    <3>2. CASE Identify(x)
      <4>1. PICK l : l = IF idx[x] = scenario.n - 1 THEN "accept" ELSE "connect"
        OBVIOUS
      <4>2. PICK i : i = IF idx[x] = scenario.n - 1 THEN 0 ELSE idx[x] + 1
        OBVIOUS
      <4>3. /\ at' = [at EXCEPT ![x] = l] /\ idx' = [idx EXCEPT ![x] = i]
            /\ at[x] \in Unserved /\ l \notin {"run", "open"}
        BY <3>2, <4>1, <4>2 DEF Identify, Unserved
      <4> QED  BY <4>3
    <3>3. CASE BeginHandshake(x)
      BY <3>3 DEF BeginHandshake
    <3>4. CASE EndHandshake(x)
      <4>1. PICK l : l = IF NextPeer(x) < scenario.n THEN "shake" ELSE "ready"
        OBVIOUS
      <4>2. /\ at' = [at EXCEPT ![x] = l] /\ idx' = [idx EXCEPT ![x] = NextPeer(x)]
            /\ l \in {"shake", "ready"}
        BY <3>4, <4>1 DEF EndHandshake
      <4> QED  BY <4>2
    <3>5. CASE SendOpening(x)
      BY <3>5 DEF SendOpening
    <3>6. CASE ReceiveOpening(x)
      BY <3>6 DEF ReceiveOpening
    <3>7. CASE EndTapes(x)
      BY <3>7 DEF EndTapes
    <3> QED  BY <1>3, <3>1, <3>2, <3>3, <3>4, <3>5, <3>6, <3>7 DEF PlayerStep
  <2>3. at'[x] = l
    BY <1>0, <2>2
  <2>4. GoesOn(x)
    BY <1>1, <2>2, <2>3 DEF GoesOn, Unserved
  <2>5. \A y \in Player : GoesOn(y)
    BY <2>2, <2>4, OnePlayerGoesOn
  <2> QED  BY <2>1, <2>5, GoingOn
<1> QED  BY <1>2, <1>3

LEMMA MainStepCause ==
    ASSUME CauseInv, NEW p \in Parties, MainStep(p)
    PROVE  AskedOnce' /\ Openers'
<1> TypeInv
  BY DEF CauseInv, HeardInv
<1>0. at \in [Player -> Location] /\ idx \in [Player -> 0 .. scenario.n + 1]
  BY DEF TypeInv, PlayersTypeOK
<1>1. /\ <<Master, p>> \in Player /\ Master \in Groups
      /\ \A g \in Threads : g \in Groups /\ g # Master /\ g # OT /\ <<g, p>> \in Player
      /\ scenario.ot => OT \in Groups /\ <<OT, p>> \in Player
      /\ \A x \in Player : x = <<x[1], x[2]>>
  BY PlayerFacts DEF TypeInv, PlayersTypeOK
<1>2. CASE Introduce(p) \/ Fail(p)
  BY <1>2, NothingMoves DEF Introduce, Fail, netVars
<1>3. CASE Listen(p)
  <2> DEFINE x == <<IF scenario.ot THEN OT ELSE Master, p>>
  <2>1. /\ x \in Player /\ at' = [at EXCEPT ![x] = "connect"]
        /\ idx' = [idx EXCEPT ![x] = p]
    BY <1>1, <1>3 DEF Listen, Begin
  <2>2. at[x] = "none"
    BY <1>1, <1>3 DEF Listen, TypeInv, Orders, Order
  <2>3. scenario' = scenario /\ used' = used
    BY <1>3 DEF Listen
  <2> HIDE DEF x
  <2>4. GoesOn(x)
    BY <1>0, <2>1, <2>2 DEF GoesOn, Unserved
  <2> QED  BY <2>1, <2>3, <2>4, OnePlayerGoesOn, GoingOn
<1>4. CASE DeleteOT(p)
  <2>1. /\ at' = [at EXCEPT ![<<OT, p>>] = "closed", ![<<Master, p>>] = "connect"]
        /\ idx' = [idx EXCEPT ![<<Master, p>>] = p]
        /\ scenario.ot /\ at[<<OT, p>>] = "ready" /\ scenario' = scenario /\ used' = used
    BY <1>4 DEF DeleteOT, netVars
  <2>2. at[<<Master, p>>] = "none"
    BY <2>1 DEF TypeInv, Orders, Order
  <2>3. ASSUME NEW x \in Player PROVE GoesOn(x)
    <3>1. CASE x = <<Master, p>>
      BY <1>0, <2>1, <2>2, <3>1 DEF GoesOn, Unserved
    <3>2. CASE x = <<OT, p>>
      <4>1. at'[x] = "closed"
        BY <1>0, <2>1, <3>2 DEF Master, OT
      <4> QED  BY <4>1 DEF GoesOn, Unserved
    <3>3. CASE x # <<Master, p>> /\ x # <<OT, p>>
      <4>1. at'[x] = at[x] /\ idx'[x] = idx[x]
        BY <1>0, <2>1, <3>3
      <4> QED  BY <4>1 DEF GoesOn
    <3> QED  BY <3>1, <3>2, <3>3
  <2> QED  BY <2>1, <2>3, GoingOn
<1>5. CASE StartThreads(p)
  <2>1. /\ at' = [x \in Player |-> IF x = <<Master, p>> THEN "join"
                                   ELSE IF x[2] = p /\ x[1] \in Threads
                                   THEN "connect" ELSE at[x]]
        /\ idx' = [x \in Player |-> IF x[2] = p /\ x[1] \in Threads THEN p ELSE idx[x]]
        /\ at[<<Master, p>>] = "ready" /\ scenario' = scenario /\ used' = used
    BY <1>5 DEF StartThreads, netVars
  <2>2. \A g \in Threads : at[<<g, p>>] = "none"
    BY <2>1 DEF TypeInv, Orders, Order, Early
  <2>3. ASSUME NEW x \in Player PROVE GoesOn(x)
    <3>1. CASE x = <<Master, p>>
      BY <2>1, <3>1 DEF GoesOn, Unserved
    <3>2. CASE x # <<Master, p>> /\ x[2] = p /\ x[1] \in Threads
      <4>1. at[x] = "none" /\ at'[x] = "connect"
        BY <1>1, <2>1, <2>2, <3>2
      <4> QED  BY <4>1 DEF GoesOn, Unserved
    <3>3. CASE x # <<Master, p>> /\ ~(x[2] = p /\ x[1] \in Threads)
      BY <2>1, <3>3 DEF GoesOn
    <3> QED  BY <3>1, <3>2, <3>3
  <2> QED  BY <2>1, <2>3, GoingOn
<1>6. CASE RunTapes(p)
  <2>1. /\ at' = [x \in Player |-> IF x = <<Master, p>> THEN "finish"
                                   ELSE IF x[2] = p /\ x[1] \in Threads
                                   THEN "run" ELSE at[x]]
        /\ idx' = idx /\ scenario' = scenario /\ used' = used
    BY <1>6 DEF RunTapes, netVars
  <2>2. ASSUME NEW x \in Player PROVE GoesOn(x)
    BY <2>1 DEF GoesOn, Unserved
  <2> QED  BY <2>1, <2>2, GoingOn
<1>7. CASE Finish(p)
  <2>1. /\ at' = [at EXCEPT ![<<Master, p>>] = "sync"]
        /\ idx' = [idx EXCEPT ![<<Master, p>>] = 1]
        /\ scenario' = scenario /\ used' = used
    BY <1>7 DEF Finish, netVars
  <2>2. GoesOn(<<Master, p>>)
    BY <1>0, <1>1, <2>1 DEF GoesOn, Unserved
  <2> QED  BY <1>1, <2>1, <2>2, OnePlayerGoesOn, GoingOn
<1>8. CASE Synchronize(p)
  <2>1. scenario' = scenario /\ used' = used /\ at[<<Master, p>>] = "sync"
    BY <1>8 DEF Synchronize, netVars
  <2>2. PICK l, i : /\ l \in {"sync", "close"} /\ at' = [at EXCEPT ![<<Master, p>>] = l]
                    /\ idx' = idx \/ idx' = [idx EXCEPT ![<<Master, p>>] = i]
    <3>1. CASE idx[<<Master, p>>] < scenario.n - 1
      <4>1. /\ at' = [at EXCEPT ![<<Master, p>>] = "sync"]
            /\ idx' = [idx EXCEPT ![<<Master, p>>] = idx[<<Master, p>>] + 1]
        BY <1>0, <1>8, <2>1, <3>1 DEF Synchronize
      <4> QED  BY <4>1
    <3>2. CASE ~(idx[<<Master, p>>] < scenario.n - 1)
      BY <1>8, <3>2 DEF Synchronize
    <3> QED  BY <3>1, <3>2
  <2>3. at'[<<Master, p>>] = l
    BY <1>0, <1>1, <2>2
  <2>4. GoesOn(<<Master, p>>)
    BY <2>2, <2>3 DEF GoesOn, Unserved
  <2> QED  BY <1>1, <2>1, <2>2, <2>4, OnePlayerGoesOn, GoingOn
<1>9. CASE Close(p)
  <2>1. PICK g : at' = [at EXCEPT ![<<g, p>>] = "closed"]
    BY <1>9 DEF Close
  <2>2. idx' = idx /\ scenario' = scenario /\ used' = used
    BY <1>9 DEF Close, netVars
  <2>3. ASSUME NEW x \in Player PROVE GoesOn(x)
    <3>1. CASE x = <<g, p>>
      BY <1>0, <2>1, <3>1 DEF GoesOn, Unserved
    <3>2. CASE x # <<g, p>>
      BY <1>0, <2>1, <2>2, <3>2 DEF GoesOn
    <3> QED  BY <3>1, <3>2
  <2> QED  BY <2>2, <2>3, GoingOn
<1> QED  BY <1>2, <1>3, <1>4, <1>5, <1>6, <1>7, <1>8, <1>9 DEF MainStep

LEMMA NextCause ==
    ASSUME CauseInv, OneThreadWithOT, [PlayersNext]_playerVars
    PROVE  AskedOnce' /\ Openers'
<1>1. CASE Coordinate
  BY <1>1, NothingMoves DEF Coordinate, netVars
<1>2. CASE \E p \in Parties : MainStep(p)
  BY <1>2, MainStepCause
<1>3. CASE \E p \in Parties : Accept(p) \/ RunJob(p)
  BY <1>3, NothingMoves DEF Accept, RunJob
<1>4. CASE \E p \in Parties : Crash(p) \/ TimeOut(p) \/ FailSending(p)
  BY <1>4, NothingMoves DEF Crash, TimeOut, FailSending, netVars
<1>5. CASE \E x \in Player : PlayerStep(x)
  BY <1>5, PlayerStepCause
<1>6. CASE AllEnded \/ UNCHANGED playerVars
  BY <1>6, NothingMoves DEF AllEnded, playerVars, netVars
<1> QED  BY <1>1, <1>2, <1>3, <1>4, <1>5, <1>6 DEF PlayersNext

(* With nobody dead there is nothing that makes a party fail. *)
LEMMA NoCauseNoFailure ==
    ASSUME CauseInv, OneThreadWithOT, dead = {}, NEW p \in Parties
    PROVE  ~Fail(p) /\ ~FailSending(p)
<1> TypeInv
  BY DEF CauseInv, HeardInv
<1>1. ~Stranded(p)
  BY DEF Stranded, Alive
<1>2. ASSUME NEW x \in Player PROVE ~BrokenPipe(x)
  BY DEF BrokenPipe
<1>3. ASSUME NEW x \in Player PROVE ~Refused(x)
  <2>1. SUFFICES ASSUME at[x] = "accept", Wanted(x) \in used[x[2]] PROVE FALSE
    BY DEF Refused
  <2>2. idx[x] \in Parties
    BY <2>1, MoverFacts, PlayerFacts DEF Place
  <2>3. Passed(x, idx[x])
    BY <2>1, <2>2 DEF CauseInv, AskedOnce, Wanted
  <2> QED  BY <2>1, <2>3, MoverFacts DEF Passed
<1>4. ASSUME NEW x \in Player PROVE ~Hopeless(x)
  <2>1. ~Lost(x)
    BY DEF Lost
  <2>2. ASSUME at[x] = "open", Gone(Peer(x, PrevParty(x[2]))) PROVE FALSE
    <3>1. x[1] \in Threads
      BY <2>2 DEF CauseInv, Openers
    <3>2. PrevParty(x[2]) \in Parties
      <4>1. x[2] + scenario.n - 1 \in Nat
        BY MoverFacts
      <4>2. (x[2] + scenario.n - 1) % scenario.n \in 0 .. scenario.n - 1
        BY <4>1, MoverFacts, ModFacts
      <4> QED  BY <4>2 DEF PrevParty, Parties
    <3>3. at[<<x[1], PrevParty(x[2])>>] = "closed"
      BY <2>2 DEF Gone, Peer
    <3>4. DoneAt(x[2])
      BY <3>1, <3>2, <3>3, MoverFacts DEF CauseInv, HeardInv, Heard, Closing
    <3>5. at[<<x[1], x[2]>>] \in {"done", "closed"}
      BY <3>1, <3>4 DEF DoneAt
    <3> QED  BY <2>2, <3>5, MoverFacts
  <2>3. Gone(<<Master, FromParty(x[2], idx[x])>>) => Told(FromParty(x[2], idx[x]), idx[x])
    BY DEF Gone, Told
  <2> QED  BY <1>3, <2>1, <2>2, <2>3 DEF Hopeless
<1> QED  BY <1>1, <1>2, <1>4 DEF Fail, FailSending

LEMMA NextFailure ==
    ASSUME CauseInv, OneThreadWithOT, FailuresHaveACause, [PlayersNext]_playerVars
    PROVE  FailuresHaveACause'
<1> TypeInv
  BY DEF CauseInv, HeardInv
<1>1. /\ scenario.failures \in Nat /\ budget \in 0 .. scenario.failures
      /\ dead = {} => \A p \in Parties : ~Fail(p) /\ ~FailSending(p)
  BY ScenarioFacts, NoCauseNoFailure DEF TypeInv, PlayersTypeOK
<1>2. UNCHANGED <<scenario, dead, budget>> => FailuresHaveACause'
  BY DEF FailuresHaveACause
<1>3. CASE Coordinate
  BY <1>2, <1>3 DEF Coordinate
<1>4. ASSUME NEW p \in Parties, MainStep(p), ~Fail(p) PROVE FailuresHaveACause'
  BY <1>2, <1>4 DEF MainStep, Introduce, Listen, DeleteOT, StartThreads, RunTapes, Finish,
                    Synchronize, Close
<1>5. ASSUME NEW p \in Parties, Fail(p) \/ FailSending(p) PROVE FailuresHaveACause'
  <2>1. dead # {} /\ scenario' = scenario /\ budget' = budget
    BY <1>1, <1>5 DEF Fail, FailSending
  <2> QED  BY <2>1 DEF FailuresHaveACause
<1>6. ASSUME NEW p \in Parties, Crash(p) \/ TimeOut(p) PROVE FailuresHaveACause'
  <2>1. scenario' = scenario /\ budget > 0 /\ budget' = budget - 1
    BY <1>6 DEF Crash, TimeOut
  <2> QED  BY <1>1, <2>1 DEF FailuresHaveACause
<1>7. CASE \E p \in Parties : Accept(p) \/ RunJob(p)
  BY <1>2, <1>7 DEF Accept, RunJob
<1>8. CASE \E x \in Player : PlayerStep(x)
  BY <1>2, <1>8 DEF PlayerStep, Connect, Identify, GetConnection, BeginHandshake,
                    EndHandshake, SendOpening, ReceiveOpening, EndTapes
<1>9. CASE AllEnded \/ UNCHANGED playerVars
  BY <1>2, <1>9 DEF AllEnded, playerVars
<1> QED  BY <1>3, <1>4, <1>5, <1>6, <1>7, <1>8, <1>9 DEF PlayersNext

(***************************************************************************)
(* get_connection_socket refuses nobody, and ThreadMaster::run closes no   *)
(* connection that a peer still uses: if a party fails, one has crashed or *)
(* a wait has timed out before, if OT comes with one thread only.          *)
(***************************************************************************)
THEOREM FailuresHaveACauseCorrect ==
    ASSUME \A s \in Scenarios : s.ot => s.threads = 1
    PROVE  PlayersSpec => []FailuresHaveACause
<1> DEFINE Inv == CauseInv /\ FailuresHaveACause
<1>1. PlayersInit => Inv
  <2> SUFFICES ASSUME PlayersInit PROVE Inv
    OBVIOUS
  <2>1. HeardInv
    BY InitHeardInv
  <2>2. AskedOnce
    BY PlayerFacts DEF PlayersInit, AskedOnce
  <2>3. Openers /\ FailuresHaveACause
    BY DEF PlayersInit, Openers, FailuresHaveACause
  <2> QED  BY <2>1, <2>2, <2>3 DEF CauseInv
<1>2. Inv /\ [PlayersNext]_playerVars => Inv'
  <2> SUFFICES ASSUME Inv, [PlayersNext]_playerVars PROVE Inv'
    OBVIOUS
  <2>1. OneThreadWithOT
    BY DEF CauseInv, HeardInv, TypeInv, PlayersTypeOK, OneThreadWithOT
  <2>2. HeardInv'
    BY NextHeardInv DEF CauseInv
  <2> QED  BY <2>1, <2>2, NextCause, NextFailure DEF CauseInv
<1>3. Inv => FailuresHaveACause
  OBVIOUS
<1> QED  BY <1>1, <1>2, <1>3, PTL DEF PlayersSpec

=============================================================================
