------------------------------ MODULE Threads -------------------------------
(***************************************************************************)
(* The threads of one party: ThreadMaster<T>::run, one Thread<T> per       *)
(* virtual machine and the two WaitQueues of each, tape_schedule and done. *)
(* Thread 0 runs the main tape, which gives tapes to the other threads and *)
(* joins them (RUN_TAPE, JOIN_TAPE); any other tape is work that ends.     *)
(*                                                                         *)
(* A call on a WaitQueue holds its mutex throughout, except while it waits *)
(* for the condition variable.  It is one step, or two if it has to wait.  *)
(***************************************************************************)
EXTENDS Integers, Sequences

CONSTANTS
    NThreads,               \* machine.nthreads
    Schedules,              \* the calls of the main tapes to run
    SpuriousWakeups,        \* whether pthread_cond_wait may return unsignalled
    ConstructedInTime       \* whether a thread connects to its peers only
                            \* after the object it belongs to is complete

Thread  == 0 .. NThreads - 1
Worker  == Thread \ {0}
Master  == NThreads         \* the thread of ThreadMaster<T>::run
Process == Thread \cup {Master}

Call == [op : {"run", "join"}, thread : Worker, tape : Nat \ {0}]

ASSUME NThreadsAssumption == NThreads \in Nat \ {0}

(***************************************************************************)
(* Compiler/program.py hands out a thread again only after it was joined,  *)
(* and joins only threads that it has handed out.                          *)
(***************************************************************************)
HandedOut(sched, t, n) ==       \* after n calls
    \E j \in 1 .. n :
        /\ sched[j].op = "run" /\ sched[j].thread = t
        /\ \A i \in j + 1 .. n : sched[i].thread # t

ASSUME SchedulesAssumption ==
    \A sched \in Schedules :
        /\ sched \in Seq(Call)
        /\ \A n \in 1 .. Len(sched) :
              sched[n].op = "join" <=> HandedOut(sched, sched[n].thread, n - 1)

VARIABLES
    program,        \* the calls of the main tape
    at,             \* where each thread is
    k,              \* the variable of the loops of ThreadMaster<T>::run
    ip,             \* the calls of the main tape that have returned
    tape_schedule,  \* tapes in the queue tape_schedule of each thread
    running,        \* its flag WaitQueue::running
    item,           \* the tape each thread has popped last
    done,           \* queue.size() of the queue done of each thread
    woken,          \* who has been signalled while it waited
    constructed,    \* whether the constructor of StandaloneShareThread is over
    singleton,      \* whether ShareThread<T>::pre_run has run in the thread
    sent, ran       \* history: the tapes given to each thread and the ones it
                    \* has executed

vars == <<program, at, k, ip, tape_schedule, running, item, done, woken,
          constructed, singleton, sent, ran>>

Init ==
    /\ program \in Schedules
    /\ at = [p \in Process |-> IF p = Master THEN "create" ELSE "unborn"]
    /\ k = 0
    /\ ip = 0
    /\ tape_schedule = [t \in Thread |-> <<>>]
    /\ running = [t \in Thread |-> TRUE]
    /\ item = [t \in Thread |-> 0]
    /\ done = [t \in Thread |-> 0]
    /\ woken = [p \in Process |-> FALSE]
    /\ constructed = [t \in Thread |-> FALSE]
    /\ singleton = [t \in Thread |-> FALSE]
    /\ sent = [t \in Thread |-> <<>>]
    /\ ran = [t \in Thread |-> <<>>]

Goto(p, location) == at' = [at EXCEPT ![p] = location]

-----------------------------------------------------------------------------
(***************************************************************************)
(* The calls on the queues.  At most one thread waits for a queue: thread  *)
(* t for its tape_schedule, the master or thread 0 for done.               *)
(***************************************************************************)
WaitsForDone(p, t) ==
    \/ p = Master /\ at[p] = "await_wait" /\ k = t
    \/ p = 0 /\ at[p] = "join_wait" /\ program[ip + 1].thread = t

SignalDone(t) == woken' = [p \in Process |-> woken[p] \/ WaitsForDone(p, t)]
SignalTape(t) == woken' = [woken EXCEPT ![t] = @ \/ at[t] = "tape_wait"]

PushDone(t) ==
    /\ done' = [done EXCEPT ![t] = @ + 1]
    /\ SignalDone(t)

PushTape(t, tape) ==
    /\ tape_schedule' = [tape_schedule EXCEPT ![t] = Append(@, tape)]
    /\ sent' = [sent EXCEPT ![t] = Append(@, tape)]
    /\ SignalTape(t)

(* pthread_cond_wait returns. *)
Wakes(p) ==
    /\ woken[p] \/ SpuriousWakeups
    /\ woken' = [woken EXCEPT ![p] = FALSE]

(***************************************************************************)
(* pop on done, which nobody stops: wait if it is empty, then take the     *)
(* front, whether or not there is one.  pop_front moves the start of the   *)
(* deque past its end if it is empty, so its size() becomes -1.            *)
(***************************************************************************)
PopDone(p, t, now, waiting, next) ==
    \/ /\ at[p] = now /\ done[t] = 0
       /\ Goto(p, waiting)
       /\ UNCHANGED <<done, woken, ip, k>>
    \/ /\ at[p] = now /\ done[t] # 0
       /\ done' = [done EXCEPT ![t] = @ - 1]
       /\ next
       /\ UNCHANGED woken
    \/ /\ at[p] = waiting
       /\ Wakes(p)
       /\ done' = [done EXCEPT ![t] = @ - 1]
       /\ next

-----------------------------------------------------------------------------
(***************************************************************************)
(* ThreadMaster<T>::run.  The constructor of Thread<T> starts the thread,  *)
(* the one of StandaloneShareThread<T> completes the object afterwards.    *)
(***************************************************************************)
PthreadCreate ==
    /\ at[Master] = "create"
    /\ at' = [at EXCEPT ![Master] = "construct", ![k] = "start"]
    /\ UNCHANGED <<program, k, ip, tape_schedule, running, item, done, woken,
                   constructed, singleton, sent, ran>>

(* Fault: one round too many. *)
OverrunNextThread(again, after) ==
    IF k < NThreads
    THEN k' = k + 1 /\ Goto(Master, again)
    ELSE k' = 0 /\ Goto(Master, after)

(* The next round of a loop over the threads, or what follows the loop. *)
NextThread(again, after) ==
    IF k < NThreads - 1
    THEN k' = k + 1 /\ Goto(Master, again)
    ELSE k' = 0 /\ Goto(Master, after)

Construct ==
    /\ at[Master] = "construct"
    /\ constructed' = [constructed EXCEPT ![k] = TRUE]
    /\ NextThread("create", "await")
    /\ UNCHANGED <<program, ip, tape_schedule, running, item, done, woken,
                   singleton, sent, ran>>

(* Fault: the announcements of the threads are left in their queues. *)
SkippedAwait ==
    /\ at[Master] = "await"
    /\ done[k] > 0
    /\ NextThread("await", "schedule")
    /\ UNCHANGED <<program, ip, tape_schedule, running, item, done, woken,
                   constructed, singleton, sent, ran>>

(* Every thread has announced itself. *)
Await ==
    /\ PopDone(Master, k, "await", "await_wait",
               NextThread("await", "schedule") /\ UNCHANGED ip)
    /\ UNCHANGED <<program, tape_schedule, running, item, constructed,
                   singleton, sent, ran>>

ScheduleMain ==
    /\ at[Master] = "schedule"
    /\ PushTape(0, 0)
    /\ Goto(Master, "stop")
    /\ UNCHANGED <<program, k, ip, running, item, done, constructed, singleton, ran>>

(* Fault: stop does not signal. *)
SilentStop ==
    /\ at[Master] = "stop"
    /\ running' = [running EXCEPT ![k] = FALSE]
    /\ Goto(Master, "pthread_join")
    /\ UNCHANGED <<program, k, ip, tape_schedule, item, done, woken, constructed,
                   singleton, sent, ran>>

(* finish: stop the queue, then wait for the thread to end. *)
Stop ==
    /\ at[Master] = "stop"
    /\ running' = [running EXCEPT ![k] = FALSE]
    /\ SignalTape(k)
    /\ Goto(Master, "pthread_join")
    /\ UNCHANGED <<program, k, ip, tape_schedule, item, done, constructed,
                   singleton, sent, ran>>

PthreadJoin ==
    /\ at[Master] = "pthread_join"
    /\ at[k] = "exited"
    /\ NextThread("stop", "end")
    /\ UNCHANGED <<program, ip, tape_schedule, running, item, done, woken,
                   constructed, singleton, sent, ran>>

-----------------------------------------------------------------------------
(***************************************************************************)
(* Thread<T>::run.  The thread announces itself when it is connected, then *)
(* calls pre_run: the one of StandaloneShareThread<T>, or that of Thread<T>*)
(* which does nothing as long as the object is under construction.         *)
(***************************************************************************)
Announce(t) ==
    /\ at[t] = "start"
    /\ ConstructedInTime => constructed[t]
    /\ PushDone(t)
    /\ Goto(t, "pre_run")
    /\ UNCHANGED <<program, k, ip, tape_schedule, running, item, constructed,
                   singleton, sent, ran>>

PreRun(t) ==
    /\ at[t] = "pre_run"
    /\ singleton' = [singleton EXCEPT ![t] = constructed[t]]
    /\ Goto(t, "pop")
    /\ UNCHANGED <<program, k, ip, tape_schedule, running, item, done, woken,
                   constructed, sent, ran>>

(* Fault: a stopped queue gives nothing, as in pop. *)
StoppedTakeTape(t) ==
    IF running[t]
    THEN /\ item' = [item EXCEPT ![t] = Head(tape_schedule[t])]
         /\ tape_schedule' = [tape_schedule EXCEPT ![t] = Tail(@)]
         /\ Goto(t, "run")
    ELSE /\ Goto(t, "exited")
         /\ UNCHANGED <<item, tape_schedule>>

(* Fault: the front is read and not removed. *)
PeekedTakeTape(t) ==
    IF tape_schedule[t] # <<>>
    THEN /\ item' = [item EXCEPT ![t] = Head(tape_schedule[t])]
         /\ Goto(t, "run")
         /\ UNCHANGED tape_schedule
    ELSE /\ Goto(t, "exited")
         /\ UNCHANGED <<item, tape_schedule>>

(* pop_dont_stop: what is in the queue is taken even if it was stopped. *)
TakeTape(t) ==
    IF tape_schedule[t] # <<>>
    THEN /\ item' = [item EXCEPT ![t] = Head(tape_schedule[t])]
         /\ tape_schedule' = [tape_schedule EXCEPT ![t] = Tail(@)]
         /\ Goto(t, "run")
    ELSE /\ Goto(t, "exited")
         /\ UNCHANGED <<item, tape_schedule>>

PopTape(t) ==
    /\ \/ /\ at[t] = "pop" /\ running[t] /\ tape_schedule[t] = <<>>
          /\ Goto(t, "tape_wait")
          /\ UNCHANGED <<item, tape_schedule, woken>>
       \/ /\ at[t] = "pop" /\ (~running[t] \/ tape_schedule[t] # <<>>)
          /\ TakeTape(t)
          /\ UNCHANGED woken
       \/ /\ at[t] = "tape_wait"
          /\ Wakes(t)
          /\ TakeTape(t)
    /\ UNCHANGED <<program, k, ip, running, done, constructed, singleton, sent, ran>>

MainCall(op) ==
    /\ item[0] = 0
    /\ ip < Len(program)
    /\ program[ip + 1].op = op

RunTape ==
    /\ at[0] = "run"
    /\ MainCall("run")
    /\ PushTape(program[ip + 1].thread, program[ip + 1].tape)
    /\ ip' = ip + 1
    /\ UNCHANGED <<program, at, k, running, item, done, constructed, singleton, ran>>

JoinTape ==
    /\ MainCall("join")
    /\ PopDone(0, program[ip + 1].thread, "run", "join_wait",
               ip' = ip + 1 /\ Goto(0, "run") /\ UNCHANGED k)
    /\ UNCHANGED <<program, tape_schedule, running, item, constructed,
                   singleton, sent, ran>>

(* A tape is over: thread 0 has made all calls, another has done its work. *)
FinishTape(t) ==
    /\ at[t] = "run"
    /\ item[t] = 0 => ip = Len(program)
    /\ ran' = [ran EXCEPT ![t] = Append(@, item[t])]
    /\ PushDone(t)
    /\ Goto(t, "pop")
    /\ UNCHANGED <<program, k, ip, tape_schedule, running, item, constructed,
                   singleton, sent>>

-----------------------------------------------------------------------------
MasterStep ==
    \/ PthreadCreate
    \/ Construct
    \/ Await
    \/ ScheduleMain
    \/ Stop
    \/ PthreadJoin

ThreadStep(t) ==
    \/ Announce(t)
    \/ PreRun(t)
    \/ PopTape(t)
    \/ t = 0 /\ RunTape
    \/ t = 0 /\ JoinTape
    \/ FinishTape(t)

Ended == at[Master] = "end"

Next == MasterStep \/ (\E t \in Thread : ThreadStep(t)) \/ (Ended /\ UNCHANGED vars)

Spec == Init /\ [][Next]_vars

(* The operating system runs every thread. *)
FairSpec == Spec /\ WF_vars(MasterStep) /\ \A t \in Thread : WF_vars(ThreadStep(t))

-----------------------------------------------------------------------------
(* Every variable ranges over what the code can put there. *)
Location == {"create", "construct", "await", "await_wait", "schedule", "stop",
             "pthread_join", "end",                         \* the master
             "unborn", "start", "pre_run", "pop", "tape_wait", "run",
             "join_wait", "exited"}

TypeOK ==
    /\ program \in Schedules
    /\ at \in [Process -> Location]
    /\ k \in Thread
    /\ ip \in 0 .. Len(program)
    /\ tape_schedule \in [Thread -> Seq(Nat)]
    /\ running \in [Thread -> BOOLEAN]
    /\ item \in [Thread -> Nat]
    /\ done \in [Thread -> Int]
    /\ woken \in [Process -> BOOLEAN]
    /\ constructed \in [Thread -> BOOLEAN]
    /\ singleton \in [Thread -> BOOLEAN]
    /\ sent \in [Thread -> Seq(Nat)]
    /\ ran \in [Thread -> Seq(Nat)]

(***************************************************************************)
(* "Join thread c_i": a thread that the main tape has joined, and that it  *)
(* may therefore hand out again, has executed all it was given.  The       *)
(* results that a tape leaves in the shared memory are read on the         *)
(* strength of this.                                                       *)
(***************************************************************************)
JoinsWait == \A t \in Worker : ~HandedOut(program, t, ip) => ran[t] = sent[t]

(***************************************************************************)
(* The master stops thread 0 as soon as it has scheduled the main tape, and*)
(* the others as soon as thread 0 has ended.  Still no tape is lost: what  *)
(* a thread was given it has executed, in that order, before it ends, also *)
(* tapes that are never joined.                                            *)
(***************************************************************************)
NoTapeLost == \A t \in Thread : at[t] = "exited" => ran[t] = sent[t]

(***************************************************************************)
(* The main tape sees threads that fork and join, for every interleaving   *)
(* of the master, the threads and their queues.                            *)
(***************************************************************************)
Unfinished(t) ==
    (IF at[t] = "run" THEN <<item[t]>> ELSE <<>>) \o tape_schedule[t]

Promise == INSTANCE ForkJoin WITH Thread  <- Worker,
                                  calls   <- ip,
                                  pending <- [t \in Worker |-> Unfinished(t)]

ForksAndJoins == Promise!Spec

(* The party comes to its end: every thread is waited for and ends. *)
EverythingEnds == <>Ended

(***************************************************************************)
(* ShareThread<T>::s() throws "no singleton" unless pre_run has run in the *)
(* thread: tapes run only where it has.                                    *)
(***************************************************************************)
HasSingleton == \A t \in Thread : at[t] = "run" => singleton[t]
=============================================================================
