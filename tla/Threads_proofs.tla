--------------------------- MODULE Threads_proofs ---------------------------
(***************************************************************************)
(* JoinsWait, NoTapeLost and the refinement of ForkJoin for any number of  *)
(* threads and any main tape, if condition variables only wake up when     *)
(* they are signalled.                                                     *)
(***************************************************************************)
EXTENDS Threads, TLAPS

(* Until tape 0 is scheduled nothing has been given to anybody. *)
Early == at[Master] \in {"create", "construct", "await", "await_wait", "schedule"}

Untouched(t) ==
    /\ tape_schedule[t] = <<>> /\ sent[t] = <<>> /\ ran[t] = <<>>
    /\ at[t] \in {"unborn", "start", "pre_run", "pop", "tape_wait"}
    /\ running[t]

(* Where the master and the threads can be. *)
Places ==
    /\ at[Master] \in {"create", "construct", "await", "await_wait", "schedule",
                       "stop", "pthread_join", "end"}
    /\ \A t \in Thread :
          at[t] \in {"unborn", "start", "pre_run", "pop", "tape_wait", "run",
                    "join_wait", "exited"}
    /\ \A t \in Thread : at[t] = "join_wait" => t = 0 /\ MainCall("join")

Starting ==
    /\ Early => ip = 0 /\ \A t \in Thread : Untouched(t)
    /\ at[Master] = "create" => \A t \in Thread : t >= k => at[t] = "unborn"
    /\ at[Master] = "construct" => \A t \in Thread : t > k => at[t] = "unborn"
    /\ at[Master] = "schedule" => k = 0

(* Only stopped threads end, and the others are stopped after thread 0 ended. *)
Stopping ==
    /\ \A t \in Thread :
          /\ at[t] = "exited" => ~running[t]
          /\ ~running[t] /\ t # 0 => at[0] = "exited"
    /\ at[Master] \in {"stop", "pthread_join"} /\ k # 0 => at[0] = "exited"
    /\ at[Master] = "end" => at[0] = "exited"

(* A tape given to a thread is in its queue or being executed. *)
Executing(t) == at[t] \in {"run", "join_wait"}

Quiet(t) == ~Executing(t) /\ tape_schedule[t] = <<>> /\ ran[t] = sent[t]

Busy(t) ==
    \/ /\ Executing(t) /\ tape_schedule[t] = <<>>
       /\ sent[t] = Append(ran[t], item[t])
    \/ /\ ~Executing(t) /\ at[t] # "exited"
       /\ tape_schedule[t] = <<Head(tape_schedule[t])>>
       /\ sent[t] = Append(ran[t], Head(tape_schedule[t]))

(***************************************************************************)
(* What is in the queue done of a thread: its announcement until the master*)
(* has taken it, then one element if the thread is handed out and quiet.   *)
(***************************************************************************)
Announced(t) == at[t] \notin {"unborn", "start"}

Taken(t) ==
    /\ at[Master] \notin {"create", "construct"}
    /\ at[Master] \in {"await", "await_wait"} => t < k

Account(t) ==
    /\ Quiet(t) \/ Busy(t)
    /\ Taken(t) => Announced(t)
    /\ ~Taken(t) => done[t] = IF Announced(t) THEN 1 ELSE 0
    /\ Taken(t) /\ t # 0 =>
          \/ ~HandedOut(program, t, ip) /\ Quiet(t) /\ done[t] = 0
          \/ HandedOut(program, t, ip) /\ Quiet(t) /\ done[t] = 1
          \/ HandedOut(program, t, ip) /\ Busy(t) /\ done[t] = 0

Accounts == \A t \in Thread : Account(t)

(* Who has been signalled will find something. *)
Wakeups ==
    /\ \A p \in Process : woken[p] => at[p] \in {"await_wait", "tape_wait", "join_wait"}
    /\ \A t \in Thread :
          at[t] = "tape_wait" /\ woken[t] => tape_schedule[t] # <<>> \/ ~running[t]
    /\ at[Master] = "await_wait" /\ woken[Master] => done[k] # 0
    /\ at[0] = "join_wait" /\ woken[0] => done[program[ip + 1].thread] # 0

Inv == TypeOK /\ Places /\ Starting /\ Stopping /\ Accounts /\ Wakeups

-----------------------------------------------------------------------------
(* The master is none of the threads it starts. *)
LEMMA Threads0 ==
    /\ 0 \in Thread /\ Master \in Process /\ Master \notin Thread
    /\ Thread \subseteq Process /\ Worker \subseteq Thread /\ 0 \notin Worker
    /\ Master # 0 /\ Thread \subseteq Nat
BY NThreadsAssumption DEF Thread, Master, Process, Worker

(* The next call of the main tape. *)
LEMMA CallFacts ==
    ASSUME TypeOK, ip < Len(program)
    PROVE  /\ Len(program) \in Nat /\ ip \in Nat /\ ip + 1 \in 0 .. Len(program)
           /\ program[ip + 1].op \in {"run", "join"}
           /\ program[ip + 1].thread \in Worker
           /\ program[ip + 1].thread \in Thread
           /\ program[ip + 1].tape \in Nat
           /\ program[ip + 1].op = "join"
                  <=> HandedOut(program, program[ip + 1].thread, ip)
<1>1. program \in Schedules /\ ip \in 0 .. Len(program)
  BY DEF TypeOK
<1>2. program \in Seq(Call) /\ Len(program) \in Nat
  BY <1>1, SchedulesAssumption
<1>3. ip \in Nat /\ ip + 1 \in 1 .. Len(program) /\ (ip + 1) - 1 = ip
  BY <1>1, <1>2
<1>4. program[ip + 1] \in Call
  BY <1>2, <1>3
<1>5. program[ip + 1].op = "join" <=> HandedOut(program, program[ip + 1].thread, ip)
  BY <1>1, <1>3, SchedulesAssumption
<1>6. /\ program[ip + 1].op \in {"run", "join"}
      /\ program[ip + 1].thread \in Worker
      /\ program[ip + 1].tape \in Nat
  BY <1>4 DEF Call
<1>7. program[ip + 1].thread \in Thread
  BY <1>6 DEF Worker
<1>8. ip + 1 \in 0 .. Len(program)
  BY <1>2, <1>3
<1> QED  BY <1>2, <1>3, <1>5, <1>6, <1>7, <1>8

(* The queues and histories of a thread, taken from and added to. *)
LEMMA TapesTyped ==
    ASSUME NEW tapes \in Seq(Nat)
    PROVE  /\ tapes # <<>> => Head(tapes) \in Nat /\ Tail(tapes) \in Seq(Nat)
           /\ \A tape \in Nat : Append(tapes, tape) \in Seq(Nat)
OBVIOUS

(* How one more call changes which threads are handed out. *)
LEMMA HandedOutNext ==
    ASSUME NEW sched, NEW n \in Nat, NEW t
    PROVE  /\ sched[n + 1].thread # t =>
                 (HandedOut(sched, t, n + 1) <=> HandedOut(sched, t, n))
           /\ sched[n + 1].thread = t =>
                 (HandedOut(sched, t, n + 1) <=> sched[n + 1].op = "run")
<1>1. CASE sched[n + 1].thread # t
  <2>1. HandedOut(sched, t, n + 1) => HandedOut(sched, t, n)
    BY <1>1 DEF HandedOut
  <2>2. ASSUME NEW j \in 1 .. n, sched[j].op = "run", sched[j].thread = t,
               \A i \in j + 1 .. n : sched[i].thread # t
        PROVE  HandedOut(sched, t, n + 1)
    <3>1. \A i \in j + 1 .. n + 1 : i \in j + 1 .. n \/ i = n + 1
      OBVIOUS
    <3> QED  BY <1>1, <2>2, <3>1 DEF HandedOut
  <2> QED  BY <1>1, <2>1, <2>2 DEF HandedOut
<1>2. CASE sched[n + 1].thread = t
  <2>1. sched[n + 1].op = "run" => HandedOut(sched, t, n + 1)
    <3>1. n + 1 \in 1 .. n + 1 /\ n + 2 .. n + 1 = {}
      OBVIOUS
    <3> QED  BY <1>2, <3>1 DEF HandedOut
  <2>2. HandedOut(sched, t, n + 1) => sched[n + 1].op = "run"
    <3>1. ASSUME NEW j \in 1 .. n + 1, j # n + 1  PROVE n + 1 \in j + 1 .. n + 1
      BY <3>1
    <3> QED  BY <1>2, <3>1 DEF HandedOut
  <2> QED  BY <1>2, <2>1, <2>2
<1> QED  BY <1>1, <1>2

LEMMA NothingHandedOut == ASSUME NEW sched, NEW t PROVE ~HandedOut(sched, t, 0)
BY DEF HandedOut

-----------------------------------------------------------------------------
(***************************************************************************)
(* The variables of the threads of a party keep their types, spurious      *)
(* wake-ups or not.                                                        *)
(***************************************************************************)
(* What a signal does to each thread. *)
LEMMA DoneSignalled ==
    ASSUME TypeOK, NEW t \in Thread, SignalDone(t)
    PROVE  /\ woken' \in [Process -> BOOLEAN]
           /\ \A p \in Process : woken'[p] <=> woken[p] \/ WaitsForDone(p, t)
BY DEF SignalDone, WaitsForDone

LEMMA TapeSignalled ==
    ASSUME TypeOK, NEW t \in Thread, SignalTape(t)
    PROVE  /\ woken' \in [Process -> BOOLEAN]
           /\ \A p \in Process : woken'[p] <=> woken[p] \/ (p = t /\ at[t] = "tape_wait")
<1>1. woken \in [Process -> BOOLEAN] /\ t \in Process
  BY Threads0 DEF TypeOK
<1>2. (woken[t] \/ at[t] = "tape_wait") \in BOOLEAN
  OBVIOUS
<1>3. woken' \in [Process -> BOOLEAN]
  BY <1>1, <1>2 DEF SignalTape
<1>4. woken'[t] <=> woken[t] \/ at[t] = "tape_wait"
  BY <1>1 DEF SignalTape
<1>5. \A p \in Process \ {t} : woken'[p] = woken[p]
  BY <1>1 DEF SignalTape
<1> QED  BY <1>3, <1>4, <1>5

LEMMA TypeInit == Init => TypeOK
<1> SUFFICES ASSUME Init PROVE TypeOK
  OBVIOUS
<1>1. at \in [Process -> Location]
  BY DEF Init, Location
<1>2. k \in Thread /\ program \in Schedules /\ ip \in 0 .. Len(program)
  BY Threads0, SchedulesAssumption DEF Init
<1>3. /\ tape_schedule \in [Thread -> Seq(Nat)]
      /\ sent \in [Thread -> Seq(Nat)] /\ ran \in [Thread -> Seq(Nat)]
  BY DEF Init
<1>4. /\ item \in [Thread -> Nat] /\ done \in [Thread -> Int]
      /\ running \in [Thread -> BOOLEAN] /\ woken \in [Process -> BOOLEAN]
      /\ constructed \in [Thread -> BOOLEAN] /\ singleton \in [Thread -> BOOLEAN]
  BY DEF Init
<1> QED  BY <1>1, <1>2, <1>3, <1>4 DEF TypeOK

(* Where a step leads to. *)
LEMMA GotoTyped ==
    ASSUME TypeOK, NEW p \in Process, NEW location \in Location, Goto(p, location)
    PROVE  at' \in [Process -> Location]
BY DEF TypeOK, Goto

LEMMA NextThreadTyped ==
    ASSUME TypeOK, NEW again \in Location, NEW after \in Location,
           NextThread(again, after)
    PROVE  k' \in Thread /\ at' \in [Process -> Location]
<1>1. at' \in [Process -> Location]
  BY GotoTyped, Threads0 DEF NextThread
<1>2. k \in 0 .. NThreads - 1 /\ NThreads \in Nat
  BY NThreadsAssumption DEF TypeOK, Thread
<1>3. k' \in 0 .. NThreads - 1
  BY <1>2 DEF NextThread
<1> QED  BY <1>1, <1>3 DEF Thread

LEMMA WakesTyped ==
    ASSUME TypeOK, NEW p \in Process, Wakes(p)
    PROVE  woken' \in [Process -> BOOLEAN]
BY DEF TypeOK, Wakes

LEMMA PushDoneTyped ==
    ASSUME TypeOK, NEW t \in Thread, PushDone(t)
    PROVE  done' \in [Thread -> Int] /\ woken' \in [Process -> BOOLEAN]
<1>1. woken' \in [Process -> BOOLEAN]
  BY DoneSignalled DEF PushDone
<1>2. done \in [Thread -> Int]
  BY DEF TypeOK
<1>3. done' \in [Thread -> Int]
  BY <1>2 DEF PushDone
<1> QED  BY <1>1, <1>3

LEMMA PushTapeTyped ==
    ASSUME TypeOK, NEW t \in Thread, NEW tape \in Nat, PushTape(t, tape)
    PROVE  /\ tape_schedule' \in [Thread -> Seq(Nat)]
           /\ sent' \in [Thread -> Seq(Nat)]
           /\ woken' \in [Process -> BOOLEAN]
<1>1. woken' \in [Process -> BOOLEAN]
  BY TapeSignalled DEF PushTape
<1>2. tape_schedule \in [Thread -> Seq(Nat)] /\ sent \in [Thread -> Seq(Nat)]
  BY DEF TypeOK
<1>3. Append(tape_schedule[t], tape) \in Seq(Nat) /\ Append(sent[t], tape) \in Seq(Nat)
  BY <1>2, TapesTyped
<1>4. tape_schedule' \in [Thread -> Seq(Nat)]
  BY <1>2, <1>3 DEF PushTape
<1>5. sent' \in [Thread -> Seq(Nat)]
  BY <1>2, <1>3 DEF PushTape
<1> QED  BY <1>1, <1>4, <1>5

LEMMA TakeTapeTyped ==
    ASSUME TypeOK, NEW t \in Thread, TakeTape(t)
    PROVE  /\ tape_schedule' \in [Thread -> Seq(Nat)]
           /\ item' \in [Thread -> Nat]
           /\ at' \in [Process -> Location]
<1>1. at' \in [Process -> Location]
  BY GotoTyped, Threads0 DEF TakeTape, Location
<1>2. /\ tape_schedule \in [Thread -> Seq(Nat)] /\ item \in [Thread -> Nat]
      /\ tape_schedule[t] \in Seq(Nat)
  BY DEF TypeOK
<1>3. CASE tape_schedule[t] # <<>>
  <2>1. Head(tape_schedule[t]) \in Nat /\ Tail(tape_schedule[t]) \in Seq(Nat)
    BY <1>2, <1>3, TapesTyped
  <2>2. /\ tape_schedule' = [tape_schedule EXCEPT ![t] = Tail(@)]
        /\ item' = [item EXCEPT ![t] = Head(tape_schedule[t])]
    BY <1>3 DEF TakeTape
  <2> QED  BY <1>1, <1>2, <2>1, <2>2
<1>4. CASE tape_schedule[t] = <<>>
  BY <1>1, <1>2, <1>4 DEF TakeTape
<1> QED  BY <1>3, <1>4

LEMMA MasterType == ASSUME TypeOK, MasterStep PROVE TypeOK'
<1> USE Threads0 DEF Location
<1>0. k \in Thread /\ k \in Process /\ done \in [Thread -> Int]
  BY DEF TypeOK
<1>1. CASE PthreadCreate
  BY <1>1 DEF TypeOK, PthreadCreate
<1>2. CASE Construct
  <2>1. k' \in Thread /\ at' \in [Process -> Location]
    BY <1>2, NextThreadTyped DEF Construct
  <2> QED  BY <1>2, <2>1 DEF TypeOK, Construct
<1>3. CASE Await
  <2>1. k' \in Thread /\ at' \in [Process -> Location] /\ ip' = ip
    <3>1. \/ k' = k /\ Goto(Master, "await_wait") /\ ip' = ip
          \/ NextThread("await", "schedule") /\ ip' = ip
      BY <1>3 DEF Await, PopDone
    <3> QED  BY <1>0, <3>1, GotoTyped, NextThreadTyped
  <2>2. woken' \in [Process -> BOOLEAN]
    <3>1. woken' = woken \/ Wakes(Master)
      BY <1>3 DEF Await, PopDone
    <3> QED  BY <3>1, WakesTyped DEF TypeOK
  <2>3. done' \in [Thread -> Int]
    <3>1. done' = done \/ done' = [done EXCEPT ![k] = @ - 1]
      BY <1>3 DEF Await, PopDone
    <3> QED  BY <1>0, <3>1
  <2> QED  BY <1>3, <2>1, <2>2, <2>3 DEF TypeOK, Await
<1>4. CASE ScheduleMain
  <2>1. at' \in [Process -> Location]
    BY <1>4, GotoTyped DEF ScheduleMain
  <2>2. /\ tape_schedule' \in [Thread -> Seq(Nat)]
        /\ sent' \in [Thread -> Seq(Nat)]
        /\ woken' \in [Process -> BOOLEAN]
    BY <1>4, PushTapeTyped DEF ScheduleMain
  <2> QED  BY <1>4, <2>1, <2>2 DEF TypeOK, ScheduleMain
<1>5. CASE Stop
  <2>1. at' \in [Process -> Location]
    BY <1>5, GotoTyped DEF Stop
  <2>2. woken' \in [Process -> BOOLEAN]
    BY <1>0, <1>5, TapeSignalled DEF Stop
  <2> QED  BY <1>5, <2>1, <2>2 DEF TypeOK, Stop
<1>6. CASE PthreadJoin
  <2>1. k' \in Thread /\ at' \in [Process -> Location]
    BY <1>6, NextThreadTyped DEF PthreadJoin
  <2> QED  BY <1>6, <2>1 DEF TypeOK, PthreadJoin
<1> QED  BY <1>1, <1>2, <1>3, <1>4, <1>5, <1>6 DEF MasterStep

LEMMA ThreadType == ASSUME TypeOK, NEW t \in Thread, ThreadStep(t) PROVE TypeOK'
<1> USE Threads0 DEF Location
<1>1. CASE Announce(t)
  <2>1. at' \in [Process -> Location]
    BY <1>1, GotoTyped DEF Announce
  <2>2. done' \in [Thread -> Int] /\ woken' \in [Process -> BOOLEAN]
    BY <1>1, PushDoneTyped DEF Announce
  <2> QED  BY <1>1, <2>1, <2>2 DEF TypeOK, Announce
<1>2. CASE PreRun(t)
  <2>1. at' \in [Process -> Location]
    BY <1>2, GotoTyped DEF PreRun
  <2> QED  BY <1>2, <2>1 DEF TypeOK, PreRun
<1>3. CASE PopTape(t)
  <2>1. woken' \in [Process -> BOOLEAN]
    <3>1. woken' = woken \/ Wakes(t)
      BY <1>3 DEF PopTape
    <3> QED  BY <3>1, WakesTyped DEF TypeOK
  <2>2. /\ tape_schedule' \in [Thread -> Seq(Nat)]
        /\ item' \in [Thread -> Nat]
        /\ at' \in [Process -> Location]
    <3>1. \/ TakeTape(t)
          \/ Goto(t, "tape_wait") /\ UNCHANGED <<item, tape_schedule>>
      BY <1>3 DEF PopTape
    <3> QED  BY <3>1, TakeTapeTyped, GotoTyped DEF TypeOK
  <2> QED  BY <1>3, <2>1, <2>2 DEF TypeOK, PopTape
<1>4. CASE t = 0 /\ RunTape
  <2>1. ip < Len(program)
    BY <1>4 DEF RunTape, MainCall
  <2>2. ip' \in 0 .. Len(program)
    BY <1>4, <2>1, CallFacts DEF RunTape
  <2>3. /\ tape_schedule' \in [Thread -> Seq(Nat)]
        /\ sent' \in [Thread -> Seq(Nat)]
        /\ woken' \in [Process -> BOOLEAN]
    BY <1>4, <2>1, CallFacts, PushTapeTyped DEF RunTape
  <2> QED  BY <1>4, <2>2, <2>3 DEF TypeOK, RunTape
<1>5. CASE t = 0 /\ JoinTape
  <2>1. ip < Len(program)
    BY <1>5 DEF JoinTape, MainCall
  <2>2. program[ip + 1].thread \in Thread /\ ip + 1 \in 0 .. Len(program)
    BY <2>1, CallFacts
  <2>3. ip' \in 0 .. Len(program) /\ k' = k /\ at' \in [Process -> Location]
    <3>1. \/ ip' = ip /\ k' = k /\ Goto(0, "join_wait")
          \/ ip' = ip + 1 /\ k' = k /\ Goto(0, "run")
      BY <1>5 DEF JoinTape, PopDone
    <3>2. 0 \in Process
      OBVIOUS
    <3>3. at' \in [Process -> Location]
      BY <3>1, <3>2, GotoTyped
    <3> QED  BY <2>2, <3>1, <3>3 DEF TypeOK
  <2>4. done' \in [Thread -> Int]
    <3>1. \/ done' = done
          \/ done' = [done EXCEPT ![program[ip + 1].thread] = @ - 1]
      BY <1>5 DEF JoinTape, PopDone
    <3>2. done \in [Thread -> Int]
      BY DEF TypeOK
    <3> QED  BY <2>2, <3>1, <3>2
  <2>5. woken' \in [Process -> BOOLEAN]
    <3>1. woken' = woken \/ Wakes(0)
      BY <1>5 DEF JoinTape, PopDone
    <3> QED  BY <3>1, WakesTyped DEF TypeOK
  <2> QED  BY <1>5, <2>3, <2>4, <2>5 DEF TypeOK, JoinTape
<1>6. CASE FinishTape(t)
  <2>1. at' \in [Process -> Location]
    BY <1>6, GotoTyped DEF FinishTape
  <2>2. done' \in [Thread -> Int] /\ woken' \in [Process -> BOOLEAN]
    BY <1>6, PushDoneTyped DEF FinishTape
  <2>3. ran' \in [Thread -> Seq(Nat)]
    <3>1. ran \in [Thread -> Seq(Nat)] /\ Append(ran[t], item[t]) \in Seq(Nat)
      BY TapesTyped DEF TypeOK
    <3> QED  BY <1>6, <3>1 DEF FinishTape
  <2> QED  BY <1>6, <2>1, <2>2, <2>3 DEF TypeOK, FinishTape
<1> QED  BY <1>1, <1>2, <1>3, <1>4, <1>5, <1>6 DEF ThreadStep

(* Type correctness of ThreadMaster<T>::run and Thread<T>::run, spurious   *)
(* wake-ups or not: indices stay in range, queues hold tapes.              *)
THEOREM TypeCorrect == Spec => []TypeOK
<1>1. Init => TypeOK
  BY TypeInit
<1>2. ASSUME TypeOK, [Next]_vars PROVE TypeOK'
  <2>1. CASE UNCHANGED vars
    BY <1>2, <2>1 DEF TypeOK, vars
  <2> QED  BY <1>2, <2>1, MasterType, ThreadType DEF Next
<1> QED  BY <1>1, <1>2, PTL DEF Spec

-----------------------------------------------------------------------------
(* What the parts of a step do, value by value. *)
LEMMA GotoAt ==
    ASSUME TypeOK, NEW p \in Process, NEW location, Goto(p, location)
    PROVE  at'[p] = location /\ \A q \in Process : q # p => at'[q] = at[q]
BY DEF TypeOK, Goto

LEMMA NextThreadAt ==
    ASSUME TypeOK, NEW again, NEW after, NextThread(again, after)
    PROVE  /\ \A q \in Process : q # Master => at'[q] = at[q]
           /\ \/ k' = k + 1 /\ k + 1 \in Thread /\ at'[Master] = again
              \/ k' = 0 /\ k = NThreads - 1 /\ at'[Master] = after
<1>1. k \in 0 .. NThreads - 1 /\ NThreads \in Nat
  BY NThreadsAssumption DEF TypeOK, Thread
<1>2. CASE k < NThreads - 1
  <2>1. Goto(Master, again) /\ k' = k + 1
    BY <1>2 DEF NextThread
  <2>2. k + 1 \in Thread
    BY <1>1, <1>2 DEF Thread
  <2> QED  BY <2>1, <2>2, GotoAt, Threads0
<1>3. CASE ~(k < NThreads - 1)
  <2>1. Goto(Master, after) /\ k' = 0
    BY <1>3 DEF NextThread
  <2>2. k = NThreads - 1
    BY <1>1, <1>3
  <2> QED  BY <2>1, <2>2, GotoAt, Threads0
<1> QED  BY <1>2, <1>3

LEMMA WakesAt ==
    ASSUME TypeOK, ~SpuriousWakeups, NEW p \in Process, Wakes(p)
    PROVE  /\ woken[p] /\ ~woken'[p]
           /\ \A q \in Process : q # p => (woken'[q] <=> woken[q])
BY DEF TypeOK, Wakes

(* A thread that a step does not concern keeps its account. *)
LEMMA AccountKept ==
    ASSUME NEW t \in Thread, Account(t),
           at'[t] = at[t], done'[t] = done[t], item'[t] = item[t],
           tape_schedule'[t] = tape_schedule[t],
           ran'[t] = ran[t], sent'[t] = sent[t],
           Taken(t)' <=> Taken(t),
           HandedOut(program', t, ip') <=> HandedOut(program, t, ip)
    PROVE  Account(t)'
<1>1. /\ Announced(t)' <=> Announced(t)
      /\ Quiet(t)' <=> Quiet(t)
      /\ Busy(t)' <=> Busy(t)
  BY DEF Announced, Quiet, Busy, Executing
<1> QED  BY <1>1 DEF Account

-----------------------------------------------------------------------------
(***************************************************************************)
(* The parts of the invariant that a step of thread t to location leaves   *)
(* as they are.                                                            *)
(***************************************************************************)
LEMMA PlacesKept ==
    ASSUME TypeOK, Places, NEW t \in Thread,
           NEW location \in {"start", "pre_run", "pop", "tape_wait", "run", "exited"},
           Goto(t, location), program' = program,
           t # 0 => ip' = ip /\ item'[0] = item[0]
    PROVE  Places'
<1>1. /\ at'[t] = location /\ at'[Master] = at[Master]
      /\ \A q \in Thread : q # t => at'[q] = at[q]
  BY GotoAt, Threads0
<1>2. at'[Master] \in {"create", "construct", "await", "await_wait", "schedule",
                       "stop", "pthread_join", "end"}
  BY <1>1 DEF Places
<1>3. ASSUME NEW q \in Thread
      PROVE  at'[q] \in {"unborn", "start", "pre_run", "pop", "tape_wait", "run",
                         "join_wait", "exited"}
  BY <1>1 DEF Places
<1>4. ASSUME NEW q \in Thread, at'[q] = "join_wait"
      PROVE  q = 0 /\ MainCall("join")'
  <2>1. q # t /\ at[q] = "join_wait"
    BY <1>1, <1>4
  <2>2. q = 0 /\ MainCall("join")
    BY <2>1 DEF Places
  <2> QED  BY <2>1, <2>2 DEF MainCall
<1> QED  BY <1>2, <1>3, <1>4 DEF Places

LEMMA StoppingKept ==
    ASSUME TypeOK, Stopping, NEW t \in Thread, NEW location, Goto(t, location),
           at[t] # "exited", location = "exited" => ~running[t],
           running' = running, k' = k
    PROVE  Stopping'
<1>1. /\ at'[t] = location /\ at'[Master] = at[Master]
      /\ \A q \in Thread : q # t => at'[q] = at[q]
  BY GotoAt, Threads0
<1>2. at[0] = "exited" => at'[0] = "exited"
  BY <1>1, Threads0
<1>3. ASSUME NEW q \in Thread
      PROVE  /\ at'[q] = "exited" => ~running'[q]
             /\ ~running'[q] /\ q # 0 => at'[0] = "exited"
  BY <1>1, <1>2 DEF Stopping
<1> QED  BY <1>1, <1>2, <1>3 DEF Stopping

(* Once tape 0 is scheduled the master has taken all announcements. *)
LEMMA Underway ==
    ASSUME Places, ~Early, at'[Master] = at[Master]
    PROVE  /\ Starting' /\ ~Early' /\ at[Master] \in {"stop", "pthread_join", "end"}
           /\ \A t \in Thread : Taken(t) /\ Taken(t)'
<1>1. at[Master] \in {"stop", "pthread_join", "end"}
  BY DEF Places, Early
<1>2. Starting' /\ ~Early'
  BY <1>1 DEF Starting, Early
<1>3. \A t \in Thread : Taken(t) /\ Taken(t)'
  BY <1>1 DEF Taken
<1> QED  BY <1>1, <1>2, <1>3

(* Before, nothing has been given to anybody. *)
LEMMA EarlyAccount ==
    ASSUME NEW t \in Thread, Untouched(t)', ip' = 0,
           Taken(t)' => Announced(t)' /\ (t # 0 => done'[t] = 0),
           ~Taken(t)' => done'[t] = IF Announced(t)' THEN 1 ELSE 0
    PROVE  Account(t)'
<1>1. Quiet(t)'
  BY DEF Untouched, Quiet, Executing
<1>2. ~HandedOut(program', t, ip')
  BY NothingHandedOut
<1> QED  BY <1>1, <1>2 DEF Account

(* What the account of a thread says about it before. *)
LEMMA EarlyDone ==
    ASSUME Starting, Early, NEW t \in Thread, Account(t)
    PROVE  /\ Taken(t) => Announced(t) /\ (t # 0 => done[t] = 0)
           /\ ~Taken(t) => done[t] = IF Announced(t) THEN 1 ELSE 0
<1>1. ~HandedOut(program, t, ip)
  BY NothingHandedOut DEF Starting
<1> QED  BY <1>1 DEF Account

-----------------------------------------------------------------------------
(***************************************************************************)
(* The initial states and the steps of the master.                         *)
(***************************************************************************)
LEMMA InvInit == Init => Inv
<1> SUFFICES ASSUME Init PROVE Inv
  OBVIOUS
<1> USE Threads0
<1>1. /\ at[Master] = "create" /\ Master \in Process
      /\ \A t \in Thread : at[t] = "unborn"
      /\ \A p \in Process : ~woken[p]
  BY DEF Init
<1>2. Places
  BY <1>1 DEF Places
<1>3. \A t \in Thread : Untouched(t)
  BY <1>1 DEF Untouched, Init
<1>4. Starting
  BY <1>1, <1>3 DEF Starting, Init
<1>5. Stopping
  <2>1. \A t \in Thread : running[t]
    BY DEF Init
  <2> QED  BY <1>1, <2>1 DEF Stopping
<1>6. ASSUME NEW t \in Thread PROVE Account(t)
  <2>1. Quiet(t)
    BY <1>1, <1>3 DEF Quiet, Untouched, Executing
  <2>2. ~Taken(t) /\ ~Announced(t)
    BY <1>1 DEF Taken, Announced
  <2>3. done[t] = 0
    BY DEF Init
  <2> QED  BY <2>1, <2>2, <2>3 DEF Account
<1>7. Wakeups
  BY <1>1 DEF Wakeups
<1> QED  BY <1>2, <1>4, <1>5, <1>6, <1>7, TypeInit DEF Inv, Accounts

LEMMA CreateKeeps ==
    ASSUME Inv, PthreadCreate
    PROVE  Places' /\ Starting' /\ Stopping' /\ Accounts' /\ Wakeups'
<1> USE Threads0
<1>1. TypeOK /\ Places /\ Starting /\ Stopping /\ Accounts /\ Wakeups
  BY DEF Inv
<1>2. /\ at[Master] = "create" /\ at[k] = "unborn" /\ k \in Thread
      /\ ip = 0 /\ \A t \in Thread : Untouched(t)
      /\ \A t \in Thread : t >= k => at[t] = "unborn"
  BY <1>1 DEF PthreadCreate, Starting, Early, TypeOK, Thread
<1>3. /\ at'[Master] = "construct" /\ at'[k] = "start"
      /\ \A t \in Thread : t # k => at'[t] = at[t]
  BY <1>1, <1>2 DEF PthreadCreate, TypeOK
<1>4. UNCHANGED <<program, k, ip, tape_schedule, running, item, done, woken,
                  sent, ran>>
  BY DEF PthreadCreate
<1>5. Places'
  BY <1>1, <1>2, <1>3, <1>4 DEF Places, MainCall
<1>6. \A t \in Thread : Untouched(t)'
  BY <1>2, <1>3, <1>4 DEF Untouched
<1>7. Starting'
  <2>1. \A t \in Thread : t > k' => at'[t] = "unborn"
    <3>1. \A t \in Thread : t > k => t >= k /\ t # k
      BY <1>2 DEF Thread
    <3> QED  BY <1>2, <1>3, <1>4, <3>1
  <2> QED  BY <1>2, <1>3, <1>4, <1>6, <2>1 DEF Starting
<1>8. Stopping'
  BY <1>2, <1>3, <1>6 DEF Stopping, Untouched
<1>9. ASSUME NEW t \in Thread PROVE Account(t)'
  <2>1. ~Taken(t) /\ ~Taken(t)'
    BY <1>2, <1>3 DEF Taken
  <2>2. Announced(t)' <=> Announced(t)
    BY <1>2, <1>3 DEF Announced
  <2>3. done[t] = IF Announced(t) THEN 1 ELSE 0
    BY <1>1, <2>1 DEF Accounts, Account
  <2> QED  BY <1>2, <1>4, <1>6, <2>1, <2>2, <2>3, EarlyAccount
<1>10. Wakeups'
  <2>1. \A p \in Process : woken[p] => p # k /\ p # Master
    BY <1>1, <1>2 DEF Wakeups
  <2>2. \A p \in Process : p = Master \/ p \in Thread
    BY DEF Process
  <2> QED  BY <1>1, <1>2, <1>3, <1>4, <2>1, <2>2 DEF Wakeups
<1> QED  BY <1>5, <1>7, <1>8, <1>9, <1>10 DEF Accounts

LEMMA ConstructKeeps ==
    ASSUME Inv, Construct
    PROVE  Places' /\ Starting' /\ Stopping' /\ Accounts' /\ Wakeups'
<1> USE Threads0
<1>1. TypeOK /\ Places /\ Starting /\ Stopping /\ Accounts /\ Wakeups
  BY DEF Inv
<1>2. /\ at[Master] = "construct" /\ ip = 0 /\ k \in Thread
      /\ \A t \in Thread : Untouched(t)
      /\ \A t \in Thread : t > k => at[t] = "unborn"
  BY <1>1 DEF Construct, Starting, Early, TypeOK
<1>3. /\ \A t \in Thread : at'[t] = at[t]
      /\ \/ k' = k + 1 /\ at'[Master] = "create"
         \/ k' = 0 /\ at'[Master] = "await"
  BY <1>1, NextThreadAt DEF Construct
<1>4. UNCHANGED <<program, ip, tape_schedule, running, item, done, woken, sent, ran>>
  BY DEF Construct
<1>5. Places'
  BY <1>1, <1>3, <1>4 DEF Places, MainCall
<1>6. \A t \in Thread : Untouched(t)'
  BY <1>2, <1>3, <1>4 DEF Untouched
<1>7. Starting'
  <2>1. ASSUME at'[Master] = "create", NEW t \in Thread, t >= k'
        PROVE  at'[t] = "unborn"
    <3>1. k' = k + 1
      BY <1>3, <2>1
    <3>2. t > k
      BY <1>2, <2>1, <3>1 DEF Thread
    <3> QED  BY <1>2, <1>3, <3>2
  <2> QED  BY <1>2, <1>3, <1>4, <1>6, <2>1 DEF Starting
<1>8. Stopping'
  BY <1>3, <1>6 DEF Stopping, Untouched
<1>9. ASSUME NEW t \in Thread PROVE Account(t)'
  <2>1. ~Taken(t)
    BY <1>2 DEF Taken
  <2>2. ~Taken(t)'
    BY <1>3 DEF Taken, Thread
  <2>3. Announced(t)' <=> Announced(t)
    BY <1>3 DEF Announced
  <2>4. done[t] = IF Announced(t) THEN 1 ELSE 0
    BY <1>1, <2>1 DEF Accounts, Account
  <2> QED  BY <1>2, <1>4, <1>6, <2>2, <2>3, <2>4, EarlyAccount
<1>10. Wakeups'
  <2>1. ~woken[Master] /\ at[0] # "join_wait"
    BY <1>1, <1>2 DEF Wakeups, Untouched
  <2>2. \A p \in Process : p = Master \/ p \in Thread
    BY DEF Process
  <2> QED  BY <1>1, <1>3, <1>4, <2>1, <2>2 DEF Wakeups
<1> QED  BY <1>5, <1>7, <1>8, <1>9, <1>10 DEF Accounts

LEMMA AwaitKeeps ==
    ASSUME Inv, ~SpuriousWakeups, Await
    PROVE  Places' /\ Starting' /\ Stopping' /\ Accounts' /\ Wakeups'
<1> USE Threads0
<1>1. TypeOK /\ Places /\ Starting /\ Stopping /\ Accounts /\ Wakeups
  BY DEF Inv
<1>2. /\ at[Master] \in {"await", "await_wait"} /\ ip = 0 /\ k \in Thread
      /\ ip' = ip /\ \A t \in Thread : Untouched(t)
  BY <1>1 DEF Await, PopDone, Starting, Early, TypeOK
<1>3. UNCHANGED <<program, tape_schedule, running, item, sent, ran>>
  BY DEF Await
<1>4. ASSUME \A t \in Thread : at'[t] = at[t],
             at'[Master] \in {"await", "await_wait", "schedule"},
             at'[Master] = "schedule" => k' = 0
      PROVE  /\ Places' /\ Starting' /\ Stopping'
             /\ \A t \in Thread : Untouched(t)' /\ (Announced(t)' <=> Announced(t))
  <2>1. Places'
    BY <1>1, <1>3, <1>2, <1>4 DEF Places, MainCall
  <2>2. \A t \in Thread : Untouched(t)'
    BY <1>2, <1>3, <1>4 DEF Untouched
  <2>3. Starting'
    BY <1>2, <1>4, <2>2 DEF Starting
  <2>4. Stopping'
    BY <1>4, <2>2 DEF Stopping, Untouched
  <2> QED  BY <1>4, <2>1, <2>2, <2>3, <2>4 DEF Announced
<1>5. CASE Goto(Master, "await_wait") /\ at[Master] = "await" /\ UNCHANGED <<done, woken, k>>
  <2>1. at'[Master] = "await_wait" /\ \A t \in Thread : at'[t] = at[t]
    BY <1>1, <1>5, GotoAt
  <2>2. ASSUME NEW t \in Thread PROVE Account(t)'
    <3>1. Taken(t)' <=> Taken(t)
      BY <1>5, <2>1 DEF Taken
    <3> QED  BY <1>1, <1>2, <1>3, <1>5, <2>1, <3>1, AccountKept DEF Accounts
  <2>3. Wakeups'
    <3>1. ~woken[Master] /\ at[0] # "join_wait"
      BY <1>1, <1>2, <1>5 DEF Wakeups, Untouched
    <3>2. \A p \in Process : p = Master \/ p \in Thread
      BY DEF Process
    <3> QED  BY <1>1, <1>3, <1>5, <2>1, <3>1, <3>2 DEF Wakeups
  <2> QED  BY <1>4, <2>1, <2>2, <2>3 DEF Accounts
<1>6. CASE /\ done[k] # 0 /\ done' = [done EXCEPT ![k] = @ - 1]
           /\ NextThread("await", "schedule")
           /\ woken' \in [Process -> BOOLEAN] /\ ~woken'[Master]
           /\ \A t \in Thread : woken'[t] <=> woken[t]
  <2>1. /\ \A t \in Thread : at'[t] = at[t]
        /\ \/ k' = k + 1 /\ k + 1 \in Thread /\ at'[Master] = "await"
           \/ k' = 0 /\ k = NThreads - 1 /\ at'[Master] = "schedule"
    BY <1>1, <1>6, NextThreadAt
  <2>2. at'[Master] \in {"await", "schedule"} /\ (at'[Master] = "schedule" => k' = 0)
    BY <2>1
  <2>3. /\ Places' /\ Starting' /\ Stopping'
        /\ \A t \in Thread : Untouched(t)' /\ (Announced(t)' <=> Announced(t))
    BY <1>4, <2>1, <2>2
  <2>4. ASSUME NEW t \in Thread PROVE Taken(t)' <=> Taken(t) \/ t = k
    <3>1. Taken(t) <=> t < k
      BY <1>2 DEF Taken
    <3>2. k \in Nat /\ t \in Nat /\ t <= NThreads - 1 /\ NThreads \in Nat
      BY <1>2, NThreadsAssumption DEF Thread
    <3>3. CASE k' = k + 1 /\ at'[Master] = "await"
      <4>1. Taken(t)' <=> t < k + 1
        BY <3>3 DEF Taken
      <4> QED  BY <3>1, <3>2, <4>1
    <3>4. CASE k = NThreads - 1 /\ at'[Master] = "schedule"
      <4>1. Taken(t)'
        BY <3>4 DEF Taken
      <4> QED  BY <3>1, <3>2, <3>4, <4>1
    <3> QED  BY <2>1, <3>3, <3>4
  <2>5. ~Taken(k) /\ Announced(k) /\ done[k] = 1
    <3>1. ~Taken(k)
      BY <1>2 DEF Taken, Thread
    <3> QED  BY <1>1, <1>2, <1>6, <3>1 DEF Accounts, Account
  <2>6. done'[k] = 0 /\ \A t \in Thread : t # k => done'[t] = done[t]
    <3>1. done \in [Thread -> Int]
      BY <1>1 DEF TypeOK
    <3> QED  BY <1>2, <1>6, <2>5, <3>1
  <2>7. ASSUME NEW t \in Thread PROVE Account(t)'
    <3>1. CASE t = k
      BY <1>2, <2>3, <2>4, <2>5, <2>6, <3>1, EarlyAccount
    <3>2. CASE t # k
      BY <1>1, <1>2, <1>3, <2>1, <2>4, <2>6, <3>2, AccountKept DEF Accounts
    <3> QED  BY <3>1, <3>2
  <2>8. Wakeups'
    <3>1. at'[0] # "join_wait"
      BY <1>2, <2>1 DEF Untouched
    <3>2. \A p \in Process : p = Master \/ p \in Thread
      BY DEF Process
    <3> QED  BY <1>1, <1>3, <1>6, <2>1, <2>2, <3>1, <3>2 DEF Wakeups
  <2> QED  BY <2>3, <2>7, <2>8 DEF Accounts
<1>7. \A t \in Process : t # Master <=> t \in Thread
  BY DEF Process
<1>8. at[Master] = "await" => ~woken[Master]
  BY <1>1 DEF Wakeups
<1>9. ASSUME at[Master] = "await_wait", Wakes(Master)
      PROVE  /\ done[k] # 0 /\ woken' \in [Process -> BOOLEAN] /\ ~woken'[Master]
             /\ \A t \in Thread : woken'[t] <=> woken[t]
  <2>1. woken' \in [Process -> BOOLEAN]
    BY <1>1, <1>9, WakesTyped
  <2>2. /\ woken[Master] /\ ~woken'[Master]
        /\ \A t \in Thread : woken'[t] <=> woken[t]
    BY <1>1, <1>7, <1>9, WakesAt
  <2> QED  BY <1>1, <1>9, <2>1, <2>2 DEF Wakeups
<1>10. woken \in [Process -> BOOLEAN]
  BY <1>1 DEF TypeOK
<1> QED  BY <1>5, <1>6, <1>8, <1>9, <1>10 DEF Await, PopDone

LEMMA ScheduleKeeps ==
    ASSUME Inv, ScheduleMain
    PROVE  Places' /\ Starting' /\ Stopping' /\ Accounts' /\ Wakeups'
<1> USE Threads0
<1>1. TypeOK /\ Places /\ Starting /\ Stopping /\ Accounts /\ Wakeups
  BY DEF Inv
<1>2. /\ at[Master] = "schedule" /\ ip = 0 /\ k = 0
      /\ \A t \in Thread : Untouched(t)
  BY <1>1 DEF ScheduleMain, Starting, Early
<1>3. at'[Master] = "stop" /\ \A t \in Thread : at'[t] = at[t]
  BY <1>1, GotoAt DEF ScheduleMain
<1>4. UNCHANGED <<program, k, ip, running, item, done, ran>>
  BY DEF ScheduleMain
<1>5. /\ tape_schedule'[0] = <<0>> /\ sent'[0] = <<0>>
      /\ \A t \in Thread : t # 0 => /\ tape_schedule'[t] = tape_schedule[t]
                                  /\ sent'[t] = sent[t]
  <2>1. /\ tape_schedule' = [tape_schedule EXCEPT ![0] = Append(@, 0)]
        /\ sent' = [sent EXCEPT ![0] = Append(@, 0)]
    BY DEF ScheduleMain, PushTape
  <2>2. /\ tape_schedule \in [Thread -> Seq(Nat)] /\ sent \in [Thread -> Seq(Nat)]
        /\ tape_schedule[0] = <<>> /\ sent[0] = <<>>
    BY <1>1, <1>2 DEF TypeOK, Untouched
  <2>3. Append(<<>>, 0) = <<0>>
    OBVIOUS
  <2> QED  BY <2>1, <2>2, <2>3
<1>6. Places'
  BY <1>1, <1>3, <1>4 DEF Places, MainCall
<1>7. Starting'
  BY <1>3 DEF Starting, Early
<1>8. Stopping'
  BY <1>2, <1>3, <1>4 DEF Stopping, Untouched
<1>9. ASSUME NEW t \in Thread PROVE Account(t)'
  <2>1. Taken(t) /\ Taken(t)'
    BY <1>2, <1>3 DEF Taken
  <2>2. CASE t # 0
    BY <1>1, <1>3, <1>4, <1>5, <2>1, <2>2, AccountKept DEF Accounts
  <2>3. CASE t = 0
    <3>1. Announced(t)'
      BY <1>1, <1>3, <2>1 DEF Accounts, Account, Announced
    <3>2. ran'[0] = <<>> /\ Head(<<0>>) = 0 /\ Append(<<>>, 0) = <<0>>
      BY <1>2, <1>4 DEF Untouched
    <3>3. ~Executing(0)' /\ at'[0] # "exited"
      BY <1>2, <1>3 DEF Untouched, Executing
    <3>4. Busy(0)'
      BY <1>5, <3>2, <3>3 DEF Busy
    <3> QED  BY <2>1, <2>3, <3>1, <3>4 DEF Account
  <2> QED  BY <2>2, <2>3
<1>10. Wakeups'
  <2>1. \A p \in Process : woken'[p] <=> woken[p] \/ (p = 0 /\ at[0] = "tape_wait")
    BY <1>1, TapeSignalled DEF ScheduleMain, PushTape
  <2>2. at'[0] # "join_wait"
    BY <1>2, <1>3 DEF Untouched
  <2>3. \A p \in Process : woken'[p] => at'[p] \in {"await_wait", "tape_wait", "join_wait"}
    <3>1. ~woken'[Master]
      BY <1>1, <1>2, <2>1 DEF Wakeups
    <3>2. \A p \in Process : p = Master \/ p \in Thread
      BY DEF Process
    <3> QED  BY <1>1, <1>3, <2>1, <3>1, <3>2 DEF Wakeups
  <2>4. ASSUME NEW t \in Thread, at'[t] = "tape_wait", woken'[t]
        PROVE  tape_schedule'[t] # <<>> \/ ~running'[t]
    <3>1. CASE t = 0
      BY <1>5, <3>1
    <3>2. CASE t # 0
      BY <1>1, <1>3, <1>4, <1>5, <2>1, <2>4, <3>2 DEF Wakeups
    <3> QED  BY <3>1, <3>2
  <2> QED  BY <1>3, <2>2, <2>3, <2>4 DEF Wakeups
<1> QED  BY <1>6, <1>7, <1>8, <1>9, <1>10 DEF Accounts

LEMMA StopKeeps ==
    ASSUME Inv, Stop
    PROVE  Places' /\ Starting' /\ Stopping' /\ Accounts' /\ Wakeups'
<1> USE Threads0
<1>1. TypeOK /\ Places /\ Starting /\ Stopping /\ Accounts /\ Wakeups
  BY DEF Inv
<1>2. at[Master] = "stop" /\ k \in Thread
  BY <1>1 DEF Stop, TypeOK
<1>3. at'[Master] = "pthread_join" /\ \A t \in Thread : at'[t] = at[t]
  BY <1>1, GotoAt DEF Stop
<1>4. /\ UNCHANGED <<program, k, ip, tape_schedule, item, done, ran, sent>>
      /\ running' = [running EXCEPT ![k] = FALSE]
  BY DEF Stop
<1>5. ~running'[k] /\ \A t \in Thread : t # k => running'[t] = running[t]
  BY <1>1, <1>2, <1>4 DEF TypeOK
<1>6. Places'
  BY <1>1, <1>3, <1>4 DEF Places, MainCall
<1>7. Starting'
  BY <1>3 DEF Starting, Early
<1>8. Stopping'
  <2>1. k # 0 => at[0] = "exited"
    BY <1>1, <1>2 DEF Stopping
  <2>2. ASSUME NEW t \in Thread
        PROVE  /\ at'[t] = "exited" => ~running'[t]
               /\ ~running'[t] /\ t # 0 => at'[0] = "exited"
    BY <1>1, <1>3, <1>5, <2>1 DEF Stopping
  <2> QED  BY <1>3, <1>4, <2>1, <2>2 DEF Stopping
<1>9. ASSUME NEW t \in Thread PROVE Account(t)'
  <2>1. Taken(t) /\ Taken(t)'
    BY <1>2, <1>3 DEF Taken
  <2> QED  BY <1>1, <1>3, <1>4, <2>1, AccountKept DEF Accounts
<1>10. Wakeups'
  <2>1. \A p \in Process : woken'[p] <=> woken[p] \/ (p = k /\ at[k] = "tape_wait")
    BY <1>1, <1>2, TapeSignalled DEF Stop
  <2>2. \A p \in Process : woken'[p] => at'[p] \in {"await_wait", "tape_wait", "join_wait"}
    <3>1. ~woken'[Master]
      BY <1>1, <1>2, <2>1 DEF Wakeups
    <3>2. \A p \in Process : p = Master \/ p \in Thread
      BY DEF Process
    <3> QED  BY <1>1, <1>3, <2>1, <3>1, <3>2 DEF Wakeups
  <2>3. ASSUME NEW t \in Thread, at'[t] = "tape_wait", woken'[t]
        PROVE  tape_schedule'[t] # <<>> \/ ~running'[t]
    BY <1>1, <1>3, <1>4, <1>5, <2>1, <2>3 DEF Wakeups
  <2>4. at'[0] = "join_wait" /\ woken'[0] => done'[program'[ip' + 1].thread] # 0
    BY <1>1, <1>3, <1>4, <2>1 DEF Wakeups
  <2> QED  BY <1>3, <2>2, <2>3, <2>4 DEF Wakeups
<1> QED  BY <1>6, <1>7, <1>8, <1>9, <1>10 DEF Accounts

LEMMA JoinKeeps ==
    ASSUME Inv, PthreadJoin
    PROVE  Places' /\ Starting' /\ Stopping' /\ Accounts' /\ Wakeups'
<1> USE Threads0
<1>1. TypeOK /\ Places /\ Starting /\ Stopping /\ Accounts /\ Wakeups
  BY DEF Inv
<1>2. at[Master] = "pthread_join" /\ at[k] = "exited"
  BY DEF PthreadJoin
<1>3. at'[Master] \in {"stop", "end"} /\ \A t \in Thread : at'[t] = at[t]
  BY <1>1, NextThreadAt DEF PthreadJoin
<1>4. UNCHANGED <<program, ip, tape_schedule, running, item, done, woken, ran, sent>>
  BY DEF PthreadJoin
<1>5. Places'
  BY <1>1, <1>3, <1>4 DEF Places, MainCall
<1>6. Starting'
  BY <1>3 DEF Starting, Early
<1>7. Stopping'
  <2>1. at[0] = "exited"
    BY <1>1, <1>2 DEF Stopping
  <2> QED  BY <1>1, <1>3, <1>4, <2>1 DEF Stopping
<1>8. ASSUME NEW t \in Thread PROVE Account(t)'
  <2>1. Taken(t) /\ Taken(t)'
    BY <1>2, <1>3 DEF Taken
  <2> QED  BY <1>1, <1>3, <1>4, <2>1, AccountKept DEF Accounts
<1>9. Wakeups'
  <2>1. ~woken[Master]
    BY <1>1, <1>2 DEF Wakeups
  <2>2. \A p \in Process : p = Master \/ p \in Thread
    BY DEF Process
  <2> QED  BY <1>1, <1>3, <1>4, <2>1, <2>2 DEF Wakeups
<1> QED  BY <1>5, <1>6, <1>7, <1>8, <1>9 DEF Accounts

-----------------------------------------------------------------------------
(***************************************************************************)
(* The steps of a thread.                                                  *)
(***************************************************************************)
LEMMA AnnounceKeeps ==
    ASSUME Inv, NEW t \in Thread, Announce(t)
    PROVE  Places' /\ Starting' /\ Stopping' /\ Accounts' /\ Wakeups'
<1> USE Threads0
<1>1. TypeOK /\ Places /\ Starting /\ Stopping /\ Accounts /\ Wakeups
  BY DEF Inv
<1>2. at[t] = "start" /\ Goto(t, "pre_run")
  BY DEF Announce
<1>3. UNCHANGED <<program, k, ip, tape_schedule, running, item, ran, sent>>
  BY DEF Announce
<1>4. /\ at'[t] = "pre_run" /\ at'[Master] = at[Master]
      /\ \A q \in Thread : q # t => at'[q] = at[q]
  BY <1>1, <1>2, GotoAt
<1>5. ~Taken(t) /\ done[t] = 0
  BY <1>1, <1>2 DEF Accounts, Account, Announced
<1>6. Early /\ ip = 0 /\ \A q \in Thread : Untouched(q)
  BY <1>1, <1>5 DEF Taken, Early, Places, Starting
<1>7. done'[t] = 1 /\ \A q \in Thread : q # t => done'[q] = done[q]
  <2>1. done' = [done EXCEPT ![t] = @ + 1] /\ done \in [Thread -> Int]
    BY <1>1 DEF Announce, PushDone, TypeOK
  <2> QED  BY <1>5, <2>1
<1>8. Places'
  BY <1>1, <1>2, <1>3, PlacesKept
<1>9. Stopping'
  BY <1>1, <1>2, <1>3, StoppingKept
<1>10. \A q \in Thread : Untouched(q)'
  BY <1>3, <1>4, <1>6 DEF Untouched
<1>11. Starting'
  <2>1. \A q \in Thread : at[q] = "unborn" => at'[q] = "unborn"
    BY <1>2, <1>4
  <2> QED  BY <1>1, <1>3, <1>4, <1>6, <1>10, <2>1 DEF Starting
<1>12. ASSUME NEW q \in Thread PROVE Account(q)'
  <2>1. Taken(q)' <=> Taken(q)
    BY <1>3, <1>4 DEF Taken
  <2>2. CASE q = t
    <3>1. Announced(t)' /\ ~Taken(t)'
      BY <1>4, <1>5, <2>1, <2>2 DEF Announced
    <3> QED  BY <1>3, <1>6, <1>7, <1>10, <2>2, <3>1, EarlyAccount
  <2>3. CASE q # t
    BY <1>1, <1>3, <1>4, <1>7, <2>1, <2>3, AccountKept DEF Accounts
  <2> QED  BY <2>2, <2>3
<1>13. Wakeups'
  <2>1. \A p \in Process : woken'[p] <=> woken[p] \/ WaitsForDone(p, t)
    BY <1>1, DoneSignalled DEF Announce, PushDone
  <2>2. at[0] # "join_wait" /\ at'[0] # "join_wait"
    BY <1>4, <1>6 DEF Untouched
  <2>3. \A p \in Process : woken'[p] <=>
            woken[p] \/ (p = Master /\ at[p] = "await_wait" /\ k = t)
    BY <2>1, <2>2 DEF WaitsForDone
  <2>4. \A p \in Process : woken[p] => p # t
    BY <1>1, <1>2 DEF Wakeups
  <2>5. \A p \in Process : woken'[p] => at'[p] \in {"await_wait", "tape_wait", "join_wait"}
    <3>1. \A p \in Process : p = Master \/ p \in Thread
      BY DEF Process
    <3> QED  BY <1>1, <1>4, <2>3, <2>4, <3>1 DEF Wakeups
  <2>6. ASSUME NEW q \in Thread, at'[q] = "tape_wait", woken'[q]
        PROVE  tape_schedule'[q] # <<>> \/ ~running'[q]
    <3>1. q # t /\ woken[q] /\ at[q] = "tape_wait"
      BY <1>4, <2>3, <2>6
    <3> QED  BY <1>1, <1>3, <3>1 DEF Wakeups
  <2>7. at'[Master] = "await_wait" /\ woken'[Master] => done'[k'] # 0
    <3>1. k \in Thread
      BY <1>1 DEF TypeOK
    <3> QED  BY <1>1, <1>3, <1>4, <1>7, <2>3, <3>1 DEF Wakeups
  <2> QED  BY <2>2, <2>5, <2>6, <2>7 DEF Wakeups
<1> QED  BY <1>8, <1>9, <1>11, <1>12, <1>13 DEF Accounts

LEMMA PreRunKeeps ==
    ASSUME Inv, NEW t \in Thread, PreRun(t)
    PROVE  Places' /\ Starting' /\ Stopping' /\ Accounts' /\ Wakeups'
<1> USE Threads0
<1>1. TypeOK /\ Places /\ Starting /\ Stopping /\ Accounts /\ Wakeups
  BY DEF Inv
<1>2. at[t] = "pre_run" /\ Goto(t, "pop")
  BY DEF PreRun
<1>3. UNCHANGED <<program, k, ip, tape_schedule, running, item, done, woken, ran, sent>>
  BY DEF PreRun
<1>4. /\ at'[t] = "pop" /\ at'[Master] = at[Master]
      /\ \A q \in Thread : q # t => at'[q] = at[q]
  BY <1>1, <1>2, GotoAt
<1>5. Places'
  BY <1>1, <1>2, <1>3, PlacesKept
<1>6. Stopping'
  BY <1>1, <1>2, <1>3, StoppingKept
<1>7. Starting'
  <2>1. \A q \in Thread : Untouched(q) => Untouched(q)'
    BY <1>2, <1>3, <1>4 DEF Untouched
  <2>2. Early' <=> Early
    BY <1>4 DEF Early
  <2>3. \A q \in Thread : at[q] = "unborn" => at'[q] = "unborn"
    BY <1>2, <1>4
  <2> QED  BY <1>1, <1>3, <1>4, <2>1, <2>2, <2>3 DEF Starting
<1>8. ASSUME NEW q \in Thread PROVE Account(q)'
  <2>1. /\ Taken(q)' <=> Taken(q)
        /\ Announced(q)' <=> Announced(q)
    BY <1>2, <1>3, <1>4 DEF Taken, Announced
  <2>2. /\ Quiet(q)' <=> Quiet(q)
        /\ Busy(q)' <=> Busy(q)
    BY <1>2, <1>3, <1>4 DEF Quiet, Busy, Executing
  <2> QED  BY <1>1, <1>3, <2>1, <2>2 DEF Accounts, Account
<1>9. Wakeups'
  <2>1. ~woken[t]
    BY <1>1, <1>2 DEF Wakeups
  <2>2. \A p \in Process : p = Master \/ p \in Thread
    BY DEF Process
  <2> QED  BY <1>1, <1>2, <1>3, <1>4, <2>1, <2>2 DEF Wakeups
<1> QED  BY <1>5, <1>6, <1>7, <1>8, <1>9 DEF Accounts

LEMMA PopKeeps ==
    ASSUME Inv, ~SpuriousWakeups, NEW t \in Thread, PopTape(t)
    PROVE  Places' /\ Starting' /\ Stopping' /\ Accounts' /\ Wakeups'
<1> USE Threads0
<1>1. TypeOK /\ Places /\ Starting /\ Stopping /\ Accounts /\ Wakeups
  BY DEF Inv
<1>2. at[t] \in {"pop", "tape_wait"}
  BY DEF PopTape
<1>3. UNCHANGED <<program, k, ip, running, done, ran, sent>>
  BY DEF PopTape
<1>4. /\ ~woken'[t]
      /\ \A p \in Process : p # t => (woken'[p] <=> woken[p])
  <2>1. CASE at[t] = "tape_wait" /\ Wakes(t)
    BY <1>1, <2>1, WakesAt
  <2>2. CASE at[t] = "pop" /\ UNCHANGED woken
    <3>1. ~woken[t]
      BY <1>1, <2>2 DEF Wakeups
    <3> QED  BY <2>2, <3>1
  <2> QED  BY <2>1, <2>2 DEF PopTape
<1>5. ASSUME NEW location \in {"tape_wait", "run", "exited"}, Goto(t, location),
             item'[0] = item[0] \/ t = 0,
             location = "exited" => ~running[t],
             \A q \in Thread : q # t => tape_schedule'[q] = tape_schedule[q]
      PROVE  Places' /\ Stopping' /\ Wakeups'
  <2>1. /\ at'[t] = location /\ at'[Master] = at[Master]
        /\ \A q \in Thread : q # t => at'[q] = at[q]
    BY <1>1, <1>5, GotoAt
  <2>2. Places'
    BY <1>1, <1>3, <1>5, PlacesKept
  <2>3. Stopping'
    BY <1>1, <1>2, <1>3, <1>5, StoppingKept
  <2>4. Wakeups'
    <3>1. \A p \in Process : p = Master \/ p \in Thread
      BY DEF Process
    <3>2. \A p \in Process : woken'[p] => at'[p] \in {"await_wait", "tape_wait", "join_wait"}
      BY <1>1, <1>4, <2>1, <3>1 DEF Wakeups
    <3>3. ASSUME NEW q \in Thread, at'[q] = "tape_wait", woken'[q]
          PROVE  tape_schedule'[q] # <<>> \/ ~running'[q]
      <4>1. q # t /\ woken[q] /\ at[q] = "tape_wait"
        BY <1>4, <2>1, <3>3
      <4> QED  BY <1>1, <1>3, <1>5, <4>1 DEF Wakeups
    <3>4. at'[0] = "join_wait" /\ woken'[0] => done'[program'[ip' + 1].thread] # 0
      <4>1. ASSUME at'[0] = "join_wait" PROVE 0 # t /\ at[0] = "join_wait"
        BY <1>5, <2>1, <4>1
      <4> QED  BY <1>1, <1>3, <1>4, <4>1 DEF Wakeups
    <3>5. at'[Master] = "await_wait" /\ woken'[Master] => done'[k'] # 0
      BY <1>1, <1>3, <1>4, <2>1 DEF Wakeups
    <3> QED  BY <3>2, <3>3, <3>4, <3>5 DEF Wakeups
  <2> QED  BY <2>2, <2>3, <2>4
<1>6. CASE /\ at[t] = "pop" /\ Goto(t, "tape_wait")
           /\ UNCHANGED <<item, tape_schedule>>
  <2>1. /\ at'[t] = "tape_wait" /\ at'[Master] = at[Master]
        /\ \A q \in Thread : q # t => at'[q] = at[q]
    BY <1>1, <1>6, GotoAt
  <2>2. Places' /\ Stopping' /\ Wakeups'
    BY <1>5, <1>6
  <2>3. Starting'
    <3>1. \A q \in Thread : Untouched(q) => Untouched(q)'
      BY <1>3, <1>6, <2>1 DEF Untouched
    <3>2. Early' <=> Early
      BY <2>1 DEF Early
    <3>3. \A q \in Thread : at[q] = "unborn" => at'[q] = "unborn"
      BY <1>6, <2>1
    <3> QED  BY <1>1, <1>3, <2>1, <3>1, <3>2, <3>3 DEF Starting
  <2>4. ASSUME NEW q \in Thread PROVE Account(q)'
    <3>1. /\ Taken(q)' <=> Taken(q)
          /\ Announced(q)' <=> Announced(q)
      BY <1>3, <1>6, <2>1 DEF Taken, Announced
    <3>2. /\ Quiet(q)' <=> Quiet(q)
          /\ Busy(q)' <=> Busy(q)
      BY <1>3, <1>6, <2>1 DEF Quiet, Busy, Executing
    <3> QED  BY <1>1, <1>3, <3>1, <3>2 DEF Accounts, Account
  <2> QED  BY <2>2, <2>3, <2>4 DEF Accounts
<1>7. CASE tape_schedule[t] # <<>> /\ TakeTape(t)
  <2>1. /\ Goto(t, "run")
        /\ item' = [item EXCEPT ![t] = Head(tape_schedule[t])]
        /\ tape_schedule' = [tape_schedule EXCEPT ![t] = Tail(@)]
    BY <1>7 DEF TakeTape
  <2>2. /\ item'[t] = Head(tape_schedule[t])
        /\ tape_schedule'[t] = Tail(tape_schedule[t])
        /\ \A q \in Thread : q # t => /\ item'[q] = item[q]
                                    /\ tape_schedule'[q] = tape_schedule[q]
    <3>1. item \in [Thread -> Nat] /\ tape_schedule \in [Thread -> Seq(Nat)]
      BY <1>1 DEF TypeOK
    <3> QED  BY <2>1, <3>1
  <2>3. Places' /\ Stopping' /\ Wakeups'
    BY <1>5, <2>1, <2>2
  <2>4. /\ at'[t] = "run" /\ at'[Master] = at[Master]
        /\ \A q \in Thread : q # t => at'[q] = at[q]
    BY <1>1, <2>1, GotoAt
  <2>5. ~Early
    BY <1>1, <1>7 DEF Starting, Untouched
  <2>6. Starting' /\ \A q \in Thread : Taken(q) /\ Taken(q)'
    BY <1>1, <2>4, <2>5, Underway
  <2>7. Busy(t) /\ Busy(t)'
    <3>1. Busy(t)
      BY <1>1, <1>7 DEF Accounts, Account, Quiet
    <3>2. /\ tape_schedule[t] = <<Head(tape_schedule[t])>>
          /\ sent[t] = Append(ran[t], Head(tape_schedule[t]))
      BY <1>2, <3>1 DEF Busy, Executing
    <3>3. \A h : Tail(<<h>>) = <<>>
      OBVIOUS
    <3>4. tape_schedule'[t] = <<>>
      BY <2>2, <3>2, <3>3
    <3>5. Executing(t)'
      BY <2>4 DEF Executing
    <3> QED  BY <1>3, <2>2, <3>1, <3>2, <3>4, <3>5 DEF Busy
  <2>8. ASSUME NEW q \in Thread PROVE Account(q)'
    <3>1. CASE q = t
      <4>1. Announced(t)' /\ ~Quiet(t)
        BY <1>7, <2>4 DEF Announced, Quiet
      <4>2. /\ Account(t) /\ Taken(t) /\ Taken(t)'
            /\ HandedOut(program', t, ip') <=> HandedOut(program, t, ip)
        BY <1>1, <1>3, <2>6 DEF Accounts
      <4> QED  BY <1>3, <2>7, <3>1, <4>1, <4>2 DEF Account
    <3>2. CASE q # t
      BY <1>1, <1>3, <2>2, <2>4, <2>6, <3>2, AccountKept DEF Accounts
    <3> QED  BY <3>1, <3>2
  <2> QED  BY <2>3, <2>6, <2>8 DEF Accounts
<1>8. CASE tape_schedule[t] = <<>> /\ ~running[t] /\ TakeTape(t)
  <2>1. Goto(t, "exited") /\ UNCHANGED <<item, tape_schedule>>
    BY <1>8 DEF TakeTape
  <2>2. Places' /\ Stopping' /\ Wakeups'
    BY <1>5, <1>8, <2>1
  <2>3. /\ at'[t] = "exited" /\ at'[Master] = at[Master]
        /\ \A q \in Thread : q # t => at'[q] = at[q]
    BY <1>1, <2>1, GotoAt
  <2>4. ~Early
    BY <1>1, <1>8 DEF Starting, Untouched
  <2>5. Starting' /\ \A q \in Thread : Taken(q) /\ Taken(q)'
    BY <1>1, <2>3, <2>4, Underway
  <2>6. Quiet(t) /\ Quiet(t)'
    <3>1. ~Executing(t) /\ ~Executing(t)'
      BY <1>2, <2>3 DEF Executing
    <3>2. Quiet(t)
      <4>1. \A h : <<h>> # <<>>
        OBVIOUS
      <4> QED  BY <1>1, <1>8, <3>1, <4>1 DEF Accounts, Account, Busy
    <3> QED  BY <1>3, <2>1, <3>1, <3>2 DEF Quiet
  <2>7. ASSUME NEW q \in Thread PROVE Account(q)'
    <3>1. CASE q = t
      <4>1. Announced(t)' /\ ~Busy(t)
        <5>1. ~Executing(t) /\ \A h : <<h>> # <<>>
          BY <1>2 DEF Executing
        <5> QED  BY <1>8, <2>3, <5>1 DEF Announced, Busy
      <4>2. /\ Account(t) /\ Taken(t) /\ Taken(t)'
            /\ HandedOut(program', t, ip') <=> HandedOut(program, t, ip)
        BY <1>1, <1>3, <2>5 DEF Accounts
      <4> QED  BY <1>3, <2>6, <3>1, <4>1, <4>2 DEF Account
    <3>2. CASE q # t
      BY <1>1, <1>3, <2>1, <2>3, <2>5, <3>2, AccountKept DEF Accounts
    <3> QED  BY <3>1, <3>2
  <2> QED  BY <2>2, <2>5, <2>7 DEF Accounts
<1>9. at[t] = "tape_wait" /\ Wakes(t) => tape_schedule[t] # <<>> \/ ~running[t]
  BY <1>1, WakesAt DEF Wakeups
<1> QED  BY <1>6, <1>7, <1>8, <1>9 DEF PopTape

LEMMA RunTapeKeeps ==
    ASSUME Inv, RunTape, NEW t, t = program[ip + 1].thread,
           NEW tape, tape = program[ip + 1].tape
    PROVE  Places' /\ Starting' /\ Stopping' /\ Accounts' /\ Wakeups'
<1> USE Threads0
<1>1. TypeOK /\ Places /\ Starting /\ Stopping /\ Accounts /\ Wakeups
  BY DEF Inv
<1>2. /\ at[0] = "run" /\ ip < Len(program) /\ program[ip + 1].op = "run"
      /\ ip' = ip + 1 /\ PushTape(t, tape)
  BY DEF RunTape, MainCall
<1>3. UNCHANGED <<program, at, k, running, item, done, ran>>
  BY DEF RunTape
<1>4. t \in Thread /\ t \in Worker /\ t # 0 /\ tape \in Nat /\ ip \in Nat
  BY <1>1, <1>2, CallFacts
<1>5. ~HandedOut(program, t, ip)
  BY <1>1, <1>2, CallFacts
<1>6. HandedOut(program, t, ip + 1)
  BY <1>2, <1>4, HandedOutNext
<1>7. \A q \in Thread : q # t =>
          (HandedOut(program, q, ip + 1) <=> HandedOut(program, q, ip))
  BY <1>4, HandedOutNext
<1>8. ~Early
  BY <1>1, <1>2 DEF Starting, Untouched
<1>9. Starting' /\ \A q \in Thread : Taken(q) /\ Taken(q)'
  BY <1>1, <1>3, <1>8, Underway
<1>10. Quiet(t) /\ done[t] = 0 /\ Announced(t)
  BY <1>1, <1>4, <1>5, <1>9 DEF Accounts, Account
<1>11. /\ tape_schedule'[t] = <<tape>> /\ sent'[t] = Append(ran[t], tape)
       /\ \A q \in Thread : q # t => /\ tape_schedule'[q] = tape_schedule[q]
                                   /\ sent'[q] = sent[q]
  <2>1. /\ tape_schedule' = [tape_schedule EXCEPT ![t] = Append(@, tape)]
        /\ sent' = [sent EXCEPT ![t] = Append(@, tape)]
    BY <1>2 DEF PushTape
  <2>2. /\ tape_schedule \in [Thread -> Seq(Nat)] /\ sent \in [Thread -> Seq(Nat)]
        /\ tape_schedule[t] = <<>> /\ sent[t] = ran[t]
    BY <1>1, <1>10 DEF TypeOK, Quiet
  <2>3. Append(<<>>, tape) = <<tape>>
    OBVIOUS
  <2> QED  BY <1>4, <2>1, <2>2, <2>3
<1>12. Places'
  BY <1>1, <1>2, <1>3 DEF Places
<1>13. Stopping'
  BY <1>1, <1>3 DEF Stopping
<1>14. Busy(t)' /\ Announced(t)'
  <2>1. at[t] # "exited"
    BY <1>1, <1>2, <1>4 DEF Stopping
  <2>2. ~Executing(t)' /\ Announced(t)'
    BY <1>3, <1>10 DEF Quiet, Executing, Announced
  <2>3. Head(<<tape>>) = tape
    OBVIOUS
  <2> QED  BY <1>3, <1>11, <2>1, <2>2, <2>3 DEF Busy
<1>15. ASSUME NEW q \in Thread PROVE Account(q)'
  <2>1. CASE q = t
    BY <1>2, <1>3, <1>4, <1>6, <1>9, <1>10, <1>14, <2>1 DEF Account
  <2>2. CASE q # t
    BY <1>1, <1>2, <1>3, <1>7, <1>9, <1>11, <2>2, AccountKept DEF Accounts
  <2> QED  BY <2>1, <2>2
<1>16. Wakeups'
  <2>1. \A p \in Process : woken'[p] <=> woken[p] \/ (p = t /\ at[t] = "tape_wait")
    BY <1>1, <1>2, <1>4, TapeSignalled DEF PushTape
  <2>2. \A p \in Process : woken'[p] => at'[p] \in {"await_wait", "tape_wait", "join_wait"}
    BY <1>1, <1>3, <2>1 DEF Wakeups
  <2>3. ASSUME NEW q \in Thread, at'[q] = "tape_wait", woken'[q]
        PROVE  tape_schedule'[q] # <<>> \/ ~running'[q]
    <3>1. CASE q = t
      <4>1. <<tape>> # <<>>
        OBVIOUS
      <4> QED  BY <1>11, <3>1, <4>1
    <3>2. CASE q # t
      BY <1>1, <1>3, <1>11, <2>1, <2>3, <3>2 DEF Wakeups
    <3> QED  BY <3>1, <3>2
  <2>4. at'[0] # "join_wait" /\ at'[Master] # "await_wait"
    BY <1>2, <1>3, <1>8 DEF Early
  <2> QED  BY <2>2, <2>3, <2>4 DEF Wakeups
<1> QED  BY <1>9, <1>12, <1>13, <1>15, <1>16 DEF Accounts

LEMMA JoinTapeKeeps ==
    ASSUME Inv, ~SpuriousWakeups, JoinTape, NEW t, t = program[ip + 1].thread
    PROVE  Places' /\ Starting' /\ Stopping' /\ Accounts' /\ Wakeups'
<1> USE Threads0
<1>1. TypeOK /\ Places /\ Starting /\ Stopping /\ Accounts /\ Wakeups
  BY DEF Inv
<1>2. /\ at[0] \in {"run", "join_wait"} /\ MainCall("join")
      /\ PopDone(0, t, "run", "join_wait",
                 ip' = ip + 1 /\ Goto(0, "run") /\ UNCHANGED k)
  BY DEF JoinTape, PopDone
<1>3. UNCHANGED <<program, tape_schedule, running, item, ran, sent>> /\ k' = k
  BY DEF JoinTape, PopDone
<1>4. ip < Len(program) /\ program[ip + 1].op = "join"
  BY <1>2 DEF MainCall
<1>5. t \in Thread /\ t # 0 /\ ip \in Nat /\ HandedOut(program, t, ip)
  BY <1>1, <1>4, CallFacts
<1>6. ~HandedOut(program, t, ip + 1)
  BY <1>4, <1>5, HandedOutNext
<1>7. \A q \in Thread : q # t =>
          (HandedOut(program, q, ip + 1) <=> HandedOut(program, q, ip))
  BY <1>5, HandedOutNext
<1>8. at[0] = "join_wait" /\ woken[0] => done[t] # 0
  BY <1>1 DEF Wakeups
<1>9. \A location : Goto(0, location) =>
          /\ at'[0] = location /\ at'[Master] = at[Master]
          /\ \A q \in Thread : q # 0 => at'[q] = at[q]
  BY <1>1, GotoAt
<1>10. ~Early /\ \A q \in Thread : Taken(q)
  BY <1>1, <1>2 DEF Starting, Untouched, Places, Early, Taken
<1>11. ASSUME at'[0] \in {"run", "join_wait"}, at'[Master] = at[Master],
              \A q \in Thread : q # 0 => at'[q] = at[q]
       PROVE  /\ Starting' /\ Stopping' /\ \A q \in Thread : Taken(q)'
              /\ at'[Master] # "await_wait"
  <2>1. /\ Starting' /\ \A q \in Thread : Taken(q)'
        /\ at'[Master] # "await_wait"
    BY <1>1, <1>10, <1>11, Underway
  <2>2. Stopping'
    BY <1>1, <1>2, <1>3, <1>11 DEF Stopping
  <2> QED  BY <2>1, <2>2
<1>16. ASSUME at'[0] \in {"run", "join_wait"}, NEW q \in Thread,
              q # 0 => at'[q] = at[q]
       PROVE  /\ Quiet(q)' <=> Quiet(q)
              /\ Busy(q)' <=> Busy(q)
              /\ Announced(q)' <=> Announced(q)
  <2>1. /\ Executing(q)' <=> Executing(q)
        /\ at'[q] # "exited" <=> at[q] # "exited"
        /\ Announced(q)' <=> Announced(q)
    BY <1>2, <1>16 DEF Executing, Announced
  <2> QED  BY <1>3, <2>1 DEF Quiet, Busy
<1>12. CASE Goto(0, "join_wait") /\ at[0] = "run" /\ UNCHANGED <<done, woken, ip>>
  <2>1. /\ at'[0] = "join_wait" /\ at'[Master] = at[Master]
        /\ \A q \in Thread : q # 0 => at'[q] = at[q]
    BY <1>9, <1>12
  <2>2. /\ Starting' /\ Stopping' /\ \A q \in Thread : Taken(q)'
        /\ at'[Master] # "await_wait"
    BY <1>11, <2>1
  <2>3. Places'
    <3>1. MainCall("join")'
      BY <1>2, <1>3, <1>12 DEF MainCall
    <3> QED  BY <1>1, <2>1, <3>1 DEF Places
  <2>4. ASSUME NEW q \in Thread PROVE Account(q)'
    <3>1. /\ Quiet(q)' <=> Quiet(q)
          /\ Busy(q)' <=> Busy(q)
          /\ Announced(q)' <=> Announced(q)
      BY <1>16, <2>1
    <3>2. Account(q) /\ Taken(q) /\ Taken(q)'
      BY <1>1, <1>10, <2>2 DEF Accounts
    <3> QED  BY <1>3, <1>12, <3>1, <3>2 DEF Account
  <2>5. Wakeups'
    <3>1. ~woken[0]
      BY <1>1, <1>12 DEF Wakeups
    <3>2. \A p \in Process : p = Master \/ p \in Thread
      BY DEF Process
    <3> QED  BY <1>1, <1>3, <1>12, <2>1, <2>2, <3>1, <3>2 DEF Wakeups
  <2> QED  BY <2>2, <2>3, <2>4, <2>5 DEF Accounts
<1>13. CASE /\ done[t] # 0 /\ done' = [done EXCEPT ![t] = @ - 1]
            /\ ip' = ip + 1 /\ Goto(0, "run") /\ ~woken'[0]
            /\ \A p \in Process : p # 0 => (woken'[p] <=> woken[p])
  <2>1. /\ at'[0] = "run" /\ at'[Master] = at[Master]
        /\ \A q \in Thread : q # 0 => at'[q] = at[q]
    BY <1>9, <1>13
  <2>2. /\ Starting' /\ Stopping' /\ \A q \in Thread : Taken(q)'
        /\ at'[Master] # "await_wait"
    BY <1>11, <2>1
  <2>3. Places'
    BY <1>1, <2>1 DEF Places
  <2>4. Quiet(t) /\ done[t] = 1 /\ Announced(t)
    BY <1>1, <1>5, <1>10, <1>13 DEF Accounts, Account
  <2>5. done'[t] = 0 /\ \A q \in Thread : q # t => done'[q] = done[q]
    <3>1. done \in [Thread -> Int]
      BY <1>1 DEF TypeOK
    <3>2. t \in Thread /\ done[t] = 1 /\ done' = [done EXCEPT ![t] = @ - 1]
      BY <1>5, <1>13, <2>4
    <3> QED  BY <3>1, <3>2
  <2>6. ASSUME NEW q \in Thread PROVE Account(q)'
    <3>0. /\ Quiet(q)' <=> Quiet(q)
          /\ Busy(q)' <=> Busy(q)
          /\ Announced(q)' <=> Announced(q)
      BY <1>16, <2>1
    <3>1. CASE q = t
      <4>1. ~HandedOut(program', t, ip')
        BY <1>3, <1>6, <1>13
      <4>2. Quiet(t)' /\ Announced(t)' /\ Taken(t)'
        BY <1>5, <2>2, <2>4, <3>0, <3>1
      <4> QED  BY <2>5, <3>1, <4>1, <4>2 DEF Account
    <3>2. CASE q # t
      <4>1. HandedOut(program', q, ip') <=> HandedOut(program, q, ip)
        BY <1>3, <1>7, <1>13, <3>2
      <4>2. done'[q] = done[q]
        BY <2>5, <3>2
      <4>3. Account(q) /\ Taken(q) /\ Taken(q)'
        BY <1>1, <1>10, <2>2 DEF Accounts
      <4> QED  BY <3>0, <4>1, <4>2, <4>3 DEF Account
    <3> QED  BY <3>1, <3>2
  <2>7. Wakeups'
    <3>1. \A p \in Process : p = Master \/ p \in Thread
      BY DEF Process
    <3> QED  BY <1>1, <1>3, <1>13, <2>1, <2>2, <3>1 DEF Wakeups
  <2> QED  BY <2>2, <2>3, <2>6, <2>7 DEF Accounts
<1>14. at[0] = "join_wait" /\ Wakes(0) =>
         /\ woken[0] /\ ~woken'[0]
         /\ \A p \in Process : p # 0 => (woken'[p] <=> woken[p])
  <2>1. 0 \in Process
    OBVIOUS
  <2> QED  BY <1>1, <2>1, WakesAt
<1>15. at[0] = "run" => ~woken[0]
  BY <1>1 DEF Wakeups
<1> QED  BY <1>2, <1>8, <1>12, <1>13, <1>14, <1>15 DEF PopDone

LEMMA FinishKeeps ==
    ASSUME Inv, NEW t \in Thread, FinishTape(t)
    PROVE  Places' /\ Starting' /\ Stopping' /\ Accounts' /\ Wakeups'
<1> USE Threads0
<1>1. TypeOK /\ Places /\ Starting /\ Stopping /\ Accounts /\ Wakeups
  BY DEF Inv
<1>2. at[t] = "run" /\ Goto(t, "pop")
  BY DEF FinishTape
<1>3. UNCHANGED <<program, k, ip, tape_schedule, running, item, sent>>
  BY DEF FinishTape
<1>4. /\ at'[t] = "pop" /\ at'[Master] = at[Master]
      /\ \A q \in Thread : q # t => at'[q] = at[q]
  BY <1>1, <1>2, GotoAt
<1>5. ~Early
  BY <1>1, <1>2 DEF Starting, Untouched
<1>6. Starting' /\ \A q \in Thread : Taken(q) /\ Taken(q)'
  BY <1>1, <1>4, <1>5, Underway
<1>7. Places'
  BY <1>1, <1>2, <1>3, PlacesKept
<1>8. Stopping'
  BY <1>1, <1>2, <1>3, StoppingKept
<1>9. /\ tape_schedule[t] = <<>> /\ sent[t] = Append(ran[t], item[t])
      /\ Busy(t) /\ ~Quiet(t)
  <2>1. Executing(t)
    BY <1>2 DEF Executing
  <2> QED  BY <1>1, <2>1 DEF Accounts, Account, Quiet, Busy
<1>10. ran'[t] = sent[t] /\ \A q \in Thread : q # t => ran'[q] = ran[q]
  <2>1. ran' = [ran EXCEPT ![t] = Append(@, item[t])] /\ ran \in [Thread -> Seq(Nat)]
    BY <1>1 DEF FinishTape, TypeOK
  <2> QED  BY <1>9, <2>1
<1>11. Quiet(t)' /\ Announced(t)'
  <2>1. ~Executing(t)' /\ Announced(t)'
    BY <1>4 DEF Executing, Announced
  <2> QED  BY <1>3, <1>9, <1>10, <2>1 DEF Quiet
<1>12. /\ done'[t] = done[t] + 1
       /\ \A q \in Thread : q # t => done'[q] = done[q]
  <2>1. done' = [done EXCEPT ![t] = @ + 1] /\ done \in [Thread -> Int]
    BY <1>1 DEF FinishTape, PushDone, TypeOK
  <2> QED  BY <2>1
<1>13. t # 0 => HandedOut(program, t, ip) /\ done[t] = 0
  BY <1>1, <1>6, <1>9 DEF Accounts, Account
<1>14. ASSUME NEW q \in Thread PROVE Account(q)'
  <2>1. CASE q = t
    BY <1>3, <1>6, <1>11, <1>12, <1>13, <2>1 DEF Account
  <2>2. CASE q # t
    BY <1>1, <1>3, <1>4, <1>6, <1>10, <1>12, <2>2, AccountKept DEF Accounts
  <2> QED  BY <2>1, <2>2
<1>15. Wakeups'
  <2>1. \A p \in Process : woken'[p] <=> woken[p] \/ WaitsForDone(p, t)
    BY <1>1, DoneSignalled DEF FinishTape, PushDone
  <2>2. at[Master] # "await_wait" /\ at'[Master] # "await_wait"
    BY <1>4, <1>5 DEF Early
  <2>3. \A p \in Process : woken'[p] <=>
            \/ woken[p]
            \/ p = 0 /\ at[p] = "join_wait" /\ program[ip + 1].thread = t
    BY <2>1, <2>2 DEF WaitsForDone
  <2>4. \A p \in Process : woken[p] => p # t
    BY <1>1, <1>2 DEF Wakeups
  <2>5. \A p \in Process : woken'[p] => at'[p] \in {"await_wait", "tape_wait", "join_wait"}
    <3>1. \A p \in Process : p = Master \/ p \in Thread
      BY DEF Process
    <3>2. at[0] = "join_wait" => 0 # t
      BY <1>2
    <3> QED  BY <1>1, <1>4, <2>3, <2>4, <3>1, <3>2 DEF Wakeups
  <2>6. ASSUME NEW q \in Thread, at'[q] = "tape_wait", woken'[q]
        PROVE  tape_schedule'[q] # <<>> \/ ~running'[q]
    <3>1. q # t /\ at[q] = "tape_wait"
      BY <1>4, <2>6
    <3>2. woken[q]
      BY <2>3, <2>6, <3>1
    <3> QED  BY <1>1, <1>3, <3>1, <3>2 DEF Wakeups
  <2>7. ASSUME at'[0] = "join_wait", woken'[0]
        PROVE  done'[program'[ip' + 1].thread] # 0
    <3>1. at[0] = "join_wait" /\ 0 # t
      BY <1>4, <2>7
    <3>2. MainCall("join")
      BY <1>1, <3>1 DEF Places
    <3>3. program[ip + 1].thread \in Thread /\ program[ip + 1].thread # 0
      BY <1>1, <3>2, CallFacts DEF MainCall
    <3>4. CASE program[ip + 1].thread = t
      BY <1>3, <1>12, <1>13, <3>3, <3>4
    <3>5. CASE program[ip + 1].thread # t
      <4>1. woken[0]
        BY <2>3, <2>7, <3>5
      <4> QED  BY <1>1, <1>3, <1>12, <3>1, <3>3, <3>5, <4>1 DEF Wakeups
    <3> QED  BY <3>4, <3>5
  <2> QED  BY <2>2, <2>5, <2>6, <2>7 DEF Wakeups
<1> QED  BY <1>6, <1>7, <1>8, <1>14, <1>15 DEF Accounts

-----------------------------------------------------------------------------
(***************************************************************************)
(* Inv holds throughout, and with it what the threads promise each other.  *)
(***************************************************************************)
LEMMA InvStep == ASSUME ~SpuriousWakeups, Inv, [Next]_vars PROVE Inv'
<1>1. TypeOK
  BY DEF Inv
<1>2. CASE MasterStep
  <2>1. TypeOK'
    BY <1>1, <1>2, MasterType
  <2>2. Places' /\ Starting' /\ Stopping' /\ Accounts' /\ Wakeups'
    BY <1>2, CreateKeeps, ConstructKeeps, AwaitKeeps, ScheduleKeeps, StopKeeps,
       JoinKeeps DEF MasterStep
  <2> QED  BY <2>1, <2>2 DEF Inv
<1>3. ASSUME NEW t \in Thread, ThreadStep(t) PROVE Inv'
  <2>1. TypeOK'
    BY <1>1, <1>3, ThreadType
  <2>2. Places' /\ Starting' /\ Stopping' /\ Accounts' /\ Wakeups'
    BY <1>3, AnnounceKeeps, PreRunKeeps, PopKeeps, RunTapeKeeps, JoinTapeKeeps,
       FinishKeeps DEF ThreadStep
  <2> QED  BY <2>1, <2>2 DEF Inv
<1>4. CASE UNCHANGED vars
  <2>1. TypeOK'
    BY <1>1, <1>4 DEF TypeOK, vars
  <2>2. Places' /\ Starting' /\ Stopping'
    BY <1>4 DEF Inv, Places, Starting, Stopping, Early, Untouched, MainCall, vars
  <2>3. Accounts'
    BY <1>4 DEF Inv, Accounts, Account, Quiet, Busy, Executing, Announced, Taken, vars
  <2>4. Wakeups'
    BY <1>4 DEF Inv, Wakeups, vars
  <2> QED  BY <2>1, <2>2, <2>3, <2>4 DEF Inv
<1> QED  BY <1>2, <1>3, <1>4 DEF Next

(* What is in the queues of a thread that is joined, and of one that ended. *)
LEMMA InvImplies == Inv => JoinsWait /\ NoTapeLost
<1> SUFFICES ASSUME Inv PROVE JoinsWait /\ NoTapeLost
  OBVIOUS
<1>1. Places /\ Starting /\ Accounts
  BY DEF Inv
<1>2. ASSUME NEW t \in Worker, ~HandedOut(program, t, ip) PROVE ran[t] = sent[t]
  <2>1. t \in Thread /\ t # 0
    BY DEF Worker
  <2>2. CASE Taken(t)
    BY <1>1, <1>2, <2>1, <2>2 DEF Accounts, Account, Quiet
  <2>3. CASE ~Taken(t)
    <3>1. Early
      BY <1>1, <2>3 DEF Taken, Early, Places
    <3> QED  BY <1>1, <2>1, <3>1 DEF Starting, Untouched
  <2> QED  BY <2>2, <2>3
<1>3. ASSUME NEW t \in Thread, at[t] = "exited" PROVE ran[t] = sent[t]
  BY <1>1, <1>3 DEF Accounts, Account, Quiet, Busy, Executing
<1> QED  BY <1>2, <1>3 DEF JoinsWait, NoTapeLost

(* After join_tape a thread has executed all that run_tape has given it, if *)
(* pthread_cond_wait only returns when it was signalled.                   *)
THEOREM JoinsWaitCorrect == ~SpuriousWakeups => (Spec => []JoinsWait)
<1> SUFFICES ASSUME ~SpuriousWakeups PROVE Spec => []JoinsWait
  OBVIOUS
<1>1. Inv /\ [Next]_vars => Inv'
  BY InvStep
<1>2. Inv => JoinsWait
  BY InvImplies
<1> QED  BY <1>1, <1>2, InvInit, PTL DEF Spec

(* A thread that pop_dont_stop has told to end has executed all it was given *)
(* although finish stops the queues early.                                 *)
THEOREM NoTapeLostCorrect == ~SpuriousWakeups => (Spec => []NoTapeLost)
<1> SUFFICES ASSUME ~SpuriousWakeups PROVE Spec => []NoTapeLost
  OBVIOUS
<1>1. Inv /\ [Next]_vars => Inv'
  BY InvStep
<1>2. Inv => NoTapeLost
  BY InvImplies
<1> QED  BY <1>1, <1>2, InvInit, PTL DEF Spec

-----------------------------------------------------------------------------
(***************************************************************************)
(* Refinement: every step of the threads is a step of ForkJoin or leaves   *)
(* its variables as they are.                                              *)
(***************************************************************************)
Pending == [t \in Worker |-> Unfinished(t)]

LEMMA UnfinishedFacts ==
    ASSUME NEW t \in Worker
    PROVE  /\ Pending[t] = Unfinished(t)
           /\ Quiet(t) => Unfinished(t) = <<>>
           /\ at[t] = "run" /\ Busy(t) => Unfinished(t) = <<item[t]>>
           /\ at[t] # "run" => Unfinished(t) = <<>> \o tape_schedule[t]
<1>1. <<>> \o <<>> = <<>>
  OBVIOUS
<1>2. \A i : <<i>> \o <<>> = <<i>>
  OBVIOUS
<1>3. Quiet(t) => Unfinished(t) = <<>>
  BY <1>1 DEF Quiet, Executing, Unfinished
<1>4. at[t] = "run" /\ Busy(t) => Unfinished(t) = <<item[t]>>
  BY <1>2 DEF Busy, Executing, Unfinished
<1> QED  BY <1>3, <1>4 DEF Unfinished, Pending

(* The steps that ForkJoin does not see. *)
LEMMA PendingKept ==
    ASSUME \A t \in Worker : /\ at'[t] = "run" <=> at[t] = "run"
                            /\ item'[t] = item[t]
                            /\ tape_schedule'[t] = tape_schedule[t]
    PROVE  Pending' = Pending
<1>1. ASSUME NEW t \in Worker PROVE Unfinished(t)' = Unfinished(t)
  BY <1>1 DEF Unfinished
<1> QED  BY <1>1 DEF Pending

LEMMA MasterPending == ASSUME Inv, MasterStep PROVE Pending' = Pending
<1> USE Threads0
<1>1. TypeOK
  BY DEF Inv
<1>2. CASE PthreadCreate
  <2>1. at[k] # "run" /\ k \in Process
    BY <1>1, <1>2 DEF Inv, PthreadCreate, Starting, Early, Untouched, TypeOK
  <2>2. \A t \in Worker : at'[t] = "run" <=> at[t] = "run"
    BY <1>1, <1>2, <2>1 DEF PthreadCreate, TypeOK
  <2> QED  BY <1>2, <2>2, PendingKept DEF PthreadCreate
<1>3. CASE Construct \/ PthreadJoin
  <2>1. \A t \in Worker : at'[t] = at[t]
    BY <1>1, <1>3, NextThreadAt DEF Construct, PthreadJoin
  <2> QED  BY <1>3, <2>1, PendingKept DEF Construct, PthreadJoin
<1>4. CASE Await
  <2>1. Goto(Master, "await_wait") \/ NextThread("await", "schedule")
    BY <1>4 DEF Await, PopDone
  <2>2. \A t \in Worker : at'[t] = at[t]
    BY <1>1, <2>1, NextThreadAt, GotoAt
  <2> QED  BY <1>4, <2>2, PendingKept DEF Await
<1>5. CASE ScheduleMain
  <2>1. \A t \in Worker : at'[t] = at[t]
    BY <1>1, <1>5, GotoAt DEF ScheduleMain
  <2>2. \A t \in Worker : tape_schedule'[t] = tape_schedule[t]
    BY <1>1, <1>5 DEF ScheduleMain, PushTape, TypeOK
  <2> QED  BY <1>5, <2>1, <2>2, PendingKept DEF ScheduleMain
<1>6. CASE Stop
  <2>1. \A t \in Worker : at'[t] = at[t]
    BY <1>1, <1>6, GotoAt DEF Stop
  <2> QED  BY <1>6, <2>1, PendingKept DEF Stop
<1> QED  BY <1>2, <1>3, <1>4, <1>5, <1>6 DEF MasterStep

LEMMA PopPending ==
    ASSUME Inv, NEW t \in Thread, PopTape(t)
    PROVE  Pending' = Pending
<1> USE Threads0
<1>1. TypeOK /\ Accounts
  BY DEF Inv
<1>2. at[t] \in {"pop", "tape_wait"}
  BY DEF PopTape
<1>3. CASE Goto(t, "tape_wait") /\ UNCHANGED <<item, tape_schedule>>
  BY <1>1, <1>2, <1>3, GotoAt, PendingKept
<1>4. CASE tape_schedule[t] = <<>> /\ TakeTape(t)
  BY <1>1, <1>2, <1>4, GotoAt, PendingKept DEF TakeTape
<1>5. CASE tape_schedule[t] # <<>> /\ TakeTape(t)
  <2>1. /\ Goto(t, "run")
        /\ item' = [item EXCEPT ![t] = Head(tape_schedule[t])]
        /\ tape_schedule' = [tape_schedule EXCEPT ![t] = Tail(@)]
    BY <1>5 DEF TakeTape
  <2>2. /\ item'[t] = Head(tape_schedule[t])
        /\ tape_schedule'[t] = Tail(tape_schedule[t])
        /\ \A q \in Thread : q # t => /\ item'[q] = item[q]
                                    /\ tape_schedule'[q] = tape_schedule[q]
    <3>1. item \in [Thread -> Nat] /\ tape_schedule \in [Thread -> Seq(Nat)]
      BY <1>1 DEF TypeOK
    <3> QED  BY <2>1, <3>1
  <2>3. /\ at'[t] = "run"
        /\ \A q \in Thread : q # t => at'[q] = at[q]
    BY <1>1, <2>1, GotoAt
  <2>4. tape_schedule[t] = <<item'[t]>>
    BY <1>1, <1>2, <1>5, <2>2 DEF Accounts, Account, Quiet, Busy, Executing
  <2>5. /\ \A i : Tail(<<i>>) = <<>>
        /\ \A i : <<>> \o <<i>> = <<i>> \o <<>>
    OBVIOUS
  <2>6. ASSUME NEW q \in Worker PROVE Unfinished(q)' = Unfinished(q)
    <3>1. CASE q = t
      <4>1. Unfinished(t) = <<>> \o <<item'[t]>>
        BY <1>2, <2>4 DEF Unfinished
      <4>2. Unfinished(t)' = <<item'[t]>> \o <<>>
        BY <2>2, <2>3, <2>4, <2>5 DEF Unfinished
      <4> QED  BY <2>5, <3>1, <4>1, <4>2
    <3>2. CASE q # t
      BY <2>2, <2>3, <3>2 DEF Unfinished
    <3> QED  BY <3>1, <3>2
  <2> QED  BY <2>6 DEF Pending
<1> QED  BY <1>3, <1>4, <1>5 DEF PopTape

LEMMA RunTapeForks ==
    ASSUME Inv, RunTape, NEW t, t = program[ip + 1].thread,
           NEW tape, tape = program[ip + 1].tape
    PROVE  t \in Worker /\ Pending' = [Pending EXCEPT ![t] = Append(@, tape)]
<1> USE Threads0
<1>1. TypeOK /\ Starting /\ Places /\ Accounts
  BY DEF Inv
<1>2. /\ at[0] = "run" /\ ip < Len(program) /\ program[ip + 1].op = "run"
      /\ PushTape(t, tape) /\ UNCHANGED <<at, item>>
  BY DEF RunTape, MainCall
<1>3. t \in Worker /\ t \in Thread /\ t # 0 /\ ~HandedOut(program, t, ip)
  BY <1>1, <1>2, CallFacts
<1>4. Quiet(t)
  <2>1. ~Early
    BY <1>1, <1>2 DEF Starting, Untouched
  <2>2. Taken(t)
    BY <1>1, <2>1 DEF Places, Early, Taken
  <2> QED  BY <1>1, <1>3, <2>2 DEF Accounts, Account
<1>5. tape_schedule' = [tape_schedule EXCEPT ![t] = Append(@, tape)]
  BY <1>2 DEF PushTape
<1>6. /\ tape_schedule'[t] = Append(<<>>, tape)
      /\ \A q \in Thread : q # t => tape_schedule'[q] = tape_schedule[q]
  BY <1>1, <1>3, <1>4, <1>5 DEF TypeOK, Quiet
<1>7. Unfinished(t)' = Append(Unfinished(t), tape)
  <2>1. Unfinished(t) = <<>>
    BY <1>3, <1>4, UnfinishedFacts
  <2>2. Unfinished(t)' = <<>> \o Append(<<>>, tape)
    BY <1>2, <1>4, <1>6 DEF Unfinished, Quiet, Executing
  <2>3. <<>> \o Append(<<>>, tape) = Append(<<>>, tape)
    OBVIOUS
  <2> QED  BY <2>1, <2>2, <2>3
<1>8. ASSUME NEW q \in Worker, q # t PROVE Unfinished(q)' = Unfinished(q)
  BY <1>2, <1>6, <1>8 DEF Unfinished
<1> QED  BY <1>3, <1>7, <1>8 DEF Pending

LEMMA JoinTapeJoins ==
    ASSUME Inv, ~SpuriousWakeups, JoinTape
    PROVE  /\ Pending' = Pending
           /\ ip' # ip => ip' = ip + 1 /\ Pending[program[ip + 1].thread] = <<>>
<1> USE Threads0
<1> DEFINE t == program[ip + 1].thread
<1>1. TypeOK /\ Starting /\ Places /\ Accounts /\ Wakeups
  BY DEF Inv
<1>2. ip < Len(program) /\ program[ip + 1].op = "join" /\ at[0] \in {"run", "join_wait"}
  BY DEF JoinTape, MainCall, PopDone
<1>3. t \in Worker /\ t \in Thread /\ t # 0 /\ HandedOut(program, t, ip)
  BY <1>1, <1>2, CallFacts
<1>4. Pending' = Pending
  <2>1. Goto(0, "run") \/ Goto(0, "join_wait")
    BY DEF JoinTape, PopDone
  <2>2. 0 \in Process /\ \A q \in Worker : q \in Process /\ q # 0
    OBVIOUS
  <2>3. \A q \in Worker : at'[q] = at[q]
    BY <1>1, <2>1, <2>2, GotoAt
  <2> QED  BY <2>3, PendingKept DEF JoinTape
<1>5. ip' # ip => ip' = ip + 1 /\ done[t] # 0
  <2>1. 0 \in Process
    OBVIOUS
  <2>2. at[0] = "join_wait" /\ Wakes(0) => done[t] # 0
    BY <1>1, <2>1, WakesAt DEF Wakeups
  <2>3. PopDone(0, t, "run", "join_wait",
                ip' = ip + 1 /\ Goto(0, "run") /\ UNCHANGED k)
    BY DEF JoinTape
  <2> HIDE DEF t
  <2> QED  BY <2>2, <2>3 DEF PopDone
<1>6. done[t] # 0 => Pending[t] = <<>>
  <2>1. ~Early
    BY <1>1, <1>2 DEF Starting, Untouched
  <2>2. Taken(t)
    BY <1>1, <2>1 DEF Places, Early, Taken
  <2>3. done[t] # 0 => Quiet(t)
    BY <1>1, <1>3, <2>2 DEF Accounts, Account
  <2> QED  BY <1>3, <2>3, UnfinishedFacts
<1> QED  BY <1>4, <1>5, <1>6

LEMMA FinishFinishes ==
    ASSUME Inv, NEW t \in Thread, FinishTape(t)
    PROVE  IF t = 0 THEN Pending' = Pending
           ELSE /\ t \in Worker /\ Pending[t] # <<>>
                /\ Pending' = [Pending EXCEPT ![t] = Tail(@)]
<1> USE Threads0
<1>1. TypeOK /\ Accounts
  BY DEF Inv
<1>2. at[t] = "run" /\ UNCHANGED <<item, tape_schedule>>
  BY DEF FinishTape
<1>3. at'[t] = "pop" /\ \A q \in Thread : q # t => at'[q] = at[q]
  BY <1>1, GotoAt DEF FinishTape
<1>4. CASE t = 0
  <2>1. \A q \in Worker : q \in Thread /\ q # t
    BY <1>4
  <2> QED  BY <1>2, <1>3, <1>4, <2>1, PendingKept
<1>5. CASE t # 0
  <2>1. t \in Worker
    BY <1>5 DEF Worker
  <2>2. Busy(t) /\ tape_schedule[t] = <<>>
    BY <1>1, <1>2 DEF Accounts, Account, Quiet, Busy, Executing
  <2>3. Unfinished(t) = <<item[t]>>
    BY <1>2, <2>1, <2>2, UnfinishedFacts
  <2>4. Unfinished(t)' = <<>>
    <3>1. <<>> \o <<>> = <<>>
      OBVIOUS
    <3> QED  BY <1>2, <1>3, <2>2, <3>1 DEF Unfinished
  <2>5. \A i : <<i>> # <<>> /\ Tail(<<i>>) = <<>>
    OBVIOUS
  <2>6. ASSUME NEW q \in Worker, q # t PROVE Unfinished(q)' = Unfinished(q)
    BY <1>2, <1>3, <2>6 DEF Unfinished
  <2> QED  BY <1>5, <2>1, <2>3, <2>4, <2>5, <2>6 DEF Pending
<1> QED  BY <1>4, <1>5

LEMMA StepRefines ==
    ASSUME ~SpuriousWakeups, Inv, [Next]_vars
    PROVE  [Promise!Next]_(Promise!forkJoinVars)
<1> USE DEF Promise!forkJoinVars
<1>1. TypeOK
  BY DEF Inv
<1>2. CASE MasterStep
  <2>1. UNCHANGED <<program, ip>>
    BY <1>2 DEF MasterStep, PthreadCreate, Construct, Await, PopDone, ScheduleMain,
                Stop, PthreadJoin
  <2> QED  BY <1>2, <2>1, MasterPending DEF Pending
<1>3. ASSUME NEW t \in Thread, Announce(t) \/ PreRun(t)
      PROVE  UNCHANGED <<program, ip>> /\ Pending' = Pending
  <2>1. at[t] \in {"start", "pre_run"} /\ (Goto(t, "pre_run") \/ Goto(t, "pop"))
    BY <1>3 DEF Announce, PreRun
  <2>2. t \in Process
    BY Threads0
  <2>3. \A q \in Worker : at'[q] = "run" <=> at[q] = "run"
    BY <1>1, <2>1, <2>2, GotoAt, Threads0
  <2>4. Pending' = Pending
    BY <1>3, <2>3, PendingKept DEF Announce, PreRun
  <2> QED  BY <1>3, <2>4 DEF Announce, PreRun
<1>4. ASSUME NEW t \in Thread, PopTape(t)
      PROVE  UNCHANGED <<program, ip>> /\ Pending' = Pending
  BY <1>4, PopPending DEF PopTape
<1>5. CASE RunTape
  <2>1. /\ ip < Len(program) /\ program[ip + 1].op = "run"
        /\ ip' = ip + 1 /\ UNCHANGED program
    BY <1>5 DEF RunTape, MainCall
  <2>2. Pending' = [Pending EXCEPT ![program[ip + 1].thread]
                       = Append(@, program[ip + 1].tape)]
    BY <1>5, RunTapeForks
  <2> QED  BY <2>1, <2>2 DEF Pending, Promise!Next, Promise!Fork
<1>6. CASE JoinTape
  <2>1. /\ ip < Len(program) /\ program[ip + 1].op = "join" /\ UNCHANGED program
    BY <1>6 DEF JoinTape, MainCall
  <2>2. /\ Pending' = Pending
        /\ ip' # ip => ip' = ip + 1 /\ Pending[program[ip + 1].thread] = <<>>
    BY <1>6, JoinTapeJoins
  <2> QED  BY <2>1, <2>2 DEF Pending, Promise!Next, Promise!Join
<1>7. ASSUME NEW t \in Thread, FinishTape(t)
      PROVE  [Promise!Next]_(Promise!forkJoinVars)
  <2>1. UNCHANGED <<program, ip>>
    BY <1>7 DEF FinishTape
  <2>2. IF t = 0 THEN Pending' = Pending
        ELSE /\ t \in Worker /\ Pending[t] # <<>>
             /\ Pending' = [Pending EXCEPT ![t] = Tail(@)]
    BY <1>7, FinishFinishes
  <2> QED  BY <2>1, <2>2 DEF Pending, Promise!Next, Promise!Finish
<1>8. CASE UNCHANGED vars
  BY <1>8 DEF vars, Unfinished
<1>9. UNCHANGED <<program, ip>> /\ Pending' = Pending
          => [Promise!Next]_(Promise!forkJoinVars)
  BY DEF Pending
<1> QED  BY <1>2, <1>3, <1>4, <1>5, <1>6, <1>7, <1>8, <1>9 DEF Next, ThreadStep

(* The threads and their WaitQueues implement run_tape and join_tape as    *)
(* ForkJoin specifies them.                                                *)
THEOREM ForksAndJoinsCorrect == ~SpuriousWakeups => (Spec => ForksAndJoins)
<1> SUFFICES ASSUME ~SpuriousWakeups PROVE Spec => ForksAndJoins
  OBVIOUS
<1>1. Init => Promise!Init
  <2> SUFFICES ASSUME Init PROVE Promise!Init
    OBVIOUS
  <2>1. ASSUME NEW t \in Worker PROVE Unfinished(t) = <<>>
    <3>1. at[t] # "run" /\ tape_schedule[t] = <<>>
      BY Threads0 DEF Init
    <3>2. <<>> \o <<>> = <<>>
      OBVIOUS
    <3> QED  BY <3>1, <3>2 DEF Unfinished
  <2> QED  BY <2>1 DEF Init, Promise!Init
<1>2. Inv /\ [Next]_vars => Inv'
  BY InvStep
<1>3. Inv /\ [Next]_vars => [Promise!Next]_(Promise!forkJoinVars)
  BY StepRefines
<1> QED  BY <1>1, <1>2, <1>3, InvInit, PTL DEF Spec, ForksAndJoins, Promise!Spec
=============================================================================
