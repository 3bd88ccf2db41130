# A verification development for Trifecta

Trifecta is a fork of MP-SPDZ 0.1.8 with one machine of its own, `multi-replicated-bin-party`:
three parties run a compiled Boolean program on secret-shared words and evaluate ANDs of *any*
fan-in in one round (`src/Protocols/MultiReplicated.hpp`). The rest of the tree (arithmetic
machines, garbled circuits, homomorphic encryption, oblivious transfer, mpir) is upstream code
that this machine is not built from. The development is about the machine.

## 1. The system

### Components

| Component | State | Operations | Correct when |
|---|---|---|---|
| Words (`Math/BitVec.h`, `Math/FixedVec.h`) | none | xor, and, mask, pack, randomize | lanes are independent and survive the trip over the wire |
| AND protocol (`Protocols/MultiReplicated`, driven by `GC/ShareThread::and_`) | four generators `shared_prngs`, streams `os`, pointer vectors `add_shares`, `add_shares_2`, `and_operands` | constructor, `init_mul`, `prepare_mul`, `exchange`, `finalize_mul` | the outputs are a sharing of the AND, generators and streams of the parties stay in step, nobody learns anything, batches end |
| Inputs (`MultiReplicatedInput`) | own shares `shares`, streams, flags `expect`, a second `MultiReplicatedBase` | `reset`, `add_mine`, `add_other`, `exchange`, `finalize_*` | every party gets a share of the dealer's value and learns nothing of it |
| Openings (`MultiReplicatedMC`) | streams | `POpen` | all parties get the secret |
| Virtual machine (`GC/Processor`, `GC/ShareSecret`) | registers `S`, `C`, `I`, memories, program counter | one per instruction, `GC/instructions.h` | it computes the program that was compiled |
| Random bits (`GC/RepPrep`) | buffered bits, a `ReplicatedBase` | `buffer_bits` | bits are shared consistently |
| Threads (`GC/Thread`, `GC/ThreadMaster`, `Tools/WaitQueue`) | queues `tape_schedule`, `done` | `run_tape`, `join_tape`, `run`, `finish` | joins wait for their tape, everything ends |
| Streams over connections (`Tools/octetStream`, `Networking/sockets.h`, `ssl_sockets.h`, `Sender`) | socket buffers, queues of the Sender threads | `Send`, `Receive`, `exchange`, `pass_around`, `Broadcast_Receive` | connections are queues of whole streams, no cycle of parties waiting, one thread per TLS stream |
| Players and their set-up (`Networking/Server`, `ServerSocket`, `Player`, `CryptoPlayer`, `GC/ShareParty`) | the coordinator's list, `clients`, `used` and jobs of each accept thread, sockets of each player | `start`, `accept_clients`, `get_connection_socket`, `setup_sockets`, handshakes, the end of `ThreadMaster::run` | every thread talks to the same thread of its peers, all parties finish or fail together |
| Compiler (`Compiler/`) | none at run time | | its instructions mean what the machine does |

### How they interact

Each party is a process; each of its threads owns a virtual machine, a `MultiReplicated` object
and its own connections to the same thread of the other two parties. An instruction is executed
to its end before the next. `ANDS` goes to `ShareThread::and_`, which calls the protocol object;
`INPUTB` builds a `MultiReplicatedInput`, `REVEAL` calls the `MultiReplicatedMC`. All three use
the same connections without any tag on the messages: what a message *is* follows only from its
place in the stream. The parties share nothing else, apart from the seeds exchanged when a
`MultiReplicatedBase` is built: generator 2 of a party is generator 0 of its next party, and
generator 3 is generator 1 of its previous one.

A secret *v* with masks *alpha*, *beta* is `(v+alpha, beta)` at party 0, `(v+beta, alpha)` at
party 1 and `(alpha, beta)` at party 2. Party 2 only sends during an AND, parties 0 and 1 swap
words and receive from party 2.

### What is hard

* **Interleaving.** Party 2 never waits in an AND, so it may be any number of batches ahead, and
  seeds, words of batches, dealings and openings queue up in the same connections.
* **Coordination without messages.** Masks cancel only if two parties draw the same number of
  words from a generator for every AND of the program. The number differs between fan-ins,
  and is spread over nine hand-written or looping cases.
* **Consumption.** `finalize_mul` takes back, from three streams and two vectors, what
  `prepare_mul` of the other parties put there, for batches that mix fan-ins and widths.
* **Numeric edges.** Lanes that are not a multiple of 8, constants that are one lane or all.
* **Perfect privacy** of what each party sees, which no functional test reaches.
* **Threads.** One queue carries both a thread's announcement and the ends of its tapes, queues are
  stopped while tapes are still in them, condition variables are waited for once, and threads
  start while their object is under construction.
* **Bounded buffers.** Streams cross sockets in pieces. `exchange` sends and receives in turns, possibly in
  one buffer; the seed, input and AND exchanges send with blocking calls before they receive.
* **Two threads on one connection.** A `CryptoPlayer` passes streams around with a thread that reads the
  caller's stream and writes to the caller's TLS connection.
* **Rendezvous.** The connections of all threads arrive at one socket in any order and are told apart by ids.
* **Failures.** A party crashes or gives up waiting after a minute. The code's answer is to stop: no
  exception is caught, and what has to hold is that nobody hangs and nobody believes to have finished.

`PROJECT.json` lists each hazard at its line with the properties that cover it, or the reason why none does.

## 2. The modules

| Module | Models |
|---|---|
| `BitVec` | words as sets of lanes |
| `Sharing` | parties, shares, dealing and opening |
| `MultiAnd` | the formulas of `prepare_mul` and `finalize_mul`, for every fan-in |
| `MultiReplicated` | the protocol object at three interleaved parties, FIFO connections |
| `IdealCircuit` | what batches of ANDs promise: a clear circuit, one instruction at a time |
| `GCProcessor` | the virtual machines around it: local instructions, inputs, openings |
| `IdealMachine` | what a compiled program promises, instruction by instruction |
| `Threads` | the threads of one party: master, one thread per virtual machine, their queues |
| `ForkJoin` | what `run_tape` and `join_tape` promise the main tape |
| `Links` | streams over bounded socket buffers: any number of players that make calls, and their Senders |
| `Channels` | what the protocols take connections to be: queues of whole streams |
| `Sessions` | the calls that the protocols of three parties make, for `Links` to run |
| `Players` | the life of all players, from the coordinator to the last close, with crashes and timeouts |
| `MCMultiReplicated`, `MCGCProcessor`, `MCThreads`, `MCLinks`, `MCPlayers` | programs, inputs, generators, main tapes, scripts and scenarios for TLC |
| `MultiAnd_proofs` | theorems on the formulas of one AND: of two operands, of any number |
| `MultiReplicated_proofs`, `Batches_proofs` | theorems on the protocol: types and lockstep; generators, what is in the streams, shares and circuit. The second extends the first |
| `GCProcessor_proofs`, `Secrets_proofs` | theorems on the virtual machines: their messages; what they compute. They extend `Batches_proofs` and each other |
| `Threads_proofs`, `Links_proofs`, `Players_proofs` | theorems on the threads, on the streams and on the players |

`GCProcessor` extends `MultiReplicated`, which extends `MultiAnd`, `Sharing` and `BitVec`. The other three
groups stand beside it and meet it at interfaces: `Threads` runs the tapes that are programs there, `Links`
implements, by refinement, the queues over which these modules communicate, with the calls that
`Sessions` takes from the same functions, and `Players` connects those queues to the right threads.

**Words.** A word is the set of its lanes that are 1, so xor is symmetric difference. `W` is the
number of lanes, 64 in the code. A register holds one word: wider values are several registers,
which the code's loops over `j` treat one by one.

**`MultiAnd`.** The code writes fan-ins 2, 3 and 4 out and computes larger ones in loops over
bit masks. The module has one formula for all fan-ins from 3, over the list of *monomials*
(subsets of at least two operands) in the order in which they are masked: written out up to fan-in 4,
and above in the order in which the loops count the bit masks down (`LargerMask`). What differs by fan-in is kept: fan-in 2 has formulas of its own, and products above
fan-in 4 start from the integer 1, as `comm_elem = 1` does (`EmptyProduct`).

**`MultiReplicated`.** One action per call: `Reseed`, `ReceiveSeedNext`, `ReceiveSeedPrev` (the
constructor), `InitMul`, `PrepareMul` (once per gate), `Send`, `ReceiveFirst`, `ReceiveSecond`
(`exchange`), `FinalizeMul` (once per gate, with the store that `and_` makes of it). A call that
only touches a party's own state is one step; a blocking receive is one step, possible when a
message is there. Generators are functions of a seed and a position, `RandomBit(tape, seed, i,
lane)`, and `tape` ranges over the outcomes a run looks at. `log` and `marks` are history
variables: the registers after each instruction, and the generators' positions at each AND.

**`GCProcessor`** extends it. `Ands(p)` is a step of `MultiReplicated`; `Xors`, `Nots`,
`LoadClear`, `AndClear`, `Move`, `BitDec`, `BitCom` are instructions of one step; `OpenSend` and
`OpenReceive` are `REVEAL`; `InputSetup` to `InputStore` are `INPUTB`, including the seed exchange
of the protocol object that each input object contains. `PrepSend` and `PrepReceive` are the seed exchange of
`RepPrep` at the start; `BitB` takes a random bit from the party's buffer `prep`, and fills it by `NewBits`
if it is empty. `GetBit` is the generator's `get_bit`, which shifts before it reads, so that the last of
64 bits is always 0. `Transpose` is `TRANS` on blocks of one word. Memory cells stand for registers:
`LDMSB` and `STMSB` copy a share as `MOVSB` does.

**`Threads`** stands beside the other modules: a tape is a number here, and what it computes is
their subject. The master's actions are the lines of `ThreadMaster::run` in order (`PthreadCreate`
and `Construct` for each thread, `Await`, `ScheduleMain`, `Stop` and `PthreadJoin`), a thread's those of
`Thread::run` (`Announce`, `PreRun`, `PopTape`, `FinishTape`), and thread 0, which runs the main tape,
makes the calls `RunTape` and `JoinTape`. A call on a `WaitQueue` holds the queue's mutex, so it is one
step, or two if it waits for the condition variable in between. `woken` holds who has been signalled
meanwhile. `done` is a count, because nobody looks at its elements; `pop` takes one even if there is
none. The main tapes `Schedules` use the threads as `Compiler/program.py` does: a thread is given a
tape only when it is new or joined (`HandedOut`). `sent` and `ran` are history.
Two constants open what the code leaves open: `SpuriousWakeups` (`pthread_cond_wait` may return
unsignalled) and `ConstructedInTime` (setting up connections takes a new thread longer than the master
needs to leave the constructor that started it).

**`Links`.** A *player* (a node) makes the calls of its script, one after the other. A location is a point
of the code at which a socket is touched: the blocking send (`Send`), the two receives of `Receive`
(`ReceiveLength`, `Receive`), the sending and the receiving half of the loop of `exchange` (`XSend`;
`XReceiveLength`, `XReceive` or `XReceiveNothing`). Every step moves any number of octets that the call
may move: on plain sockets what fits, on TLS one record. `wire` holds at most `Capacity` octets. An octet
is identified by its player, call and position, so a wrong or overwritten one is seen. `ToReceive` is the rule by which
`exchange` receives into the stream it is still sending, and the Sender reads `data` of its caller at the time it
writes. A length field is `LENGTH_SIZE` octets that carry the number. `given` and `got` are history.

**`Players`.** One action per call that blocks or that others can see. A connection is named by its group (thread,
master, OT set-up), client and server, but the code sees only the id `Base + client`, as do `Known`, `Found`
and `Refused`. `Accept` takes connections in any order and gives those without an id to a job, `RunJob`. A
handshake is two steps, as either side waits for the other. Openings are counted. `Crash` may hit any party
at any point; `TimeOut` is a minute's wait that ends although the peer may still come; `Fail` is an
exception or a closed connection noticed in a blocking call; `FailSending` the same in a send, which may
or may not notice. `dead` parties take no step: an uncaught exception in any thread ends the process.

**Abstract specifications.** `IdealCircuit` and `IdealMachine` execute a program on clear words in
one step per instruction. Their state is mapped from the history: `step` is the number of
instructions that all three parties have finished, `value` what the parties' shares after that
instruction open to, `clear` the clear registers of party 0. `ComputesCircuit` and
`ComputesProgram` say that the distributed execution is then an execution of the ideal one. `ForkJoin` has the calls that
have returned and the tapes each thread has not finished; these are mapped to `ip` and to the tape
a thread is running followed by its queue (`Unfinished`). `Channels` has `Put` and `Take` of whole streams;
its `chan` is what has been given and not got. `Delivers` says that `Links` implements it.

## 3. What is checked

Lanes serve as samples: lane *l* gives bit *k* of the number *l* to the *k*-th input bit, so that
512 lanes run an AND on every combination of 9 bits in one behaviour, and TLC's states are the
interleavings of the parties.

| Run | Instance | Shows |
|---|---|---|
| `and_batches` | four programs: single ANDs of fan-in 2 and 3 over 512 lanes that sample 9 bits of sharings and drawn words; up to three batches that mix fan-ins 2, 3, 4, 5 and widths, with aliased registers | `TypeOK`, `SeedsPaired`, `PrngsPaired`, `BatchConsumed`, `Lockstep`, `SharesConsistent`, `AndIsPrivate`, `ComputesCircuit` |
| `vm_program` | four programs with every kind of instruction, 64 lanes that sample two input bits and their masks, random bits in batches of 2 | `MachineTypeOK`, `Barriers`, `MachineSharesConsistent`, `OpeningsAgree`, `RandomBitsReplicated`, `InputsPrivate`, `ComputesProgram` |
| `threads_join` | four threads, two main tapes (ten calls that reuse threads; five that leave tapes unjoined) | `TypeOK`, `JoinsWait`, `NoTapeLost`, `ForksAndJoins`, `EverythingEnds` |
| `links` | 15 scripts of the protocols' calls, buffers of 3 octets, streams of 0 to 4 | `LinksTypeOK`, `OneThreadPerSocket`, `LargeBatchesStall`, `Delivers`, `Completes` |
| `players` | two parties with two threads and late ids, with OT, with one failure; three parties with one failure | `PlayersTypeOK`, `RightPeer`, `FinishedTogether`, `FailuresHaveACause`, `EverybodyEnds` |
| `and_five_lanes`, `vm_constants`, `vm_inputs`, `vm_bits`, `threads_spurious`, `threads_construct`, `players_ids` | see findings | the violation of a documented claim |

* `SeedsPaired`: the seed exchange connects the generators the formulas rely on.
* `PrngsPaired`: at each AND the two copies of a generator stand at the same word.
* `BatchConsumed`: a batch takes exactly the words it was sent and kept.
* `Lockstep`: how far the parties may be apart inside ANDs. Parties 0 and 1 hold each other, party
  2 holds both and is held by none.
* `Barriers`: `INPUTB` and `REVEAL` do hold party 2.
* `SharesConsistent`, `MachineSharesConsistent`: every result is a full sharing, not only one that opens rightly once.
* `AndIsPrivate`, `InputsPrivate`: perfect privacy, counted over lanes. Every view of a party occurs
  with each value of the secrets in equally many lanes.
* `RandomBitsReplicated`: the parties' buffers of random bits are at all times copies of the same bits in
  the layout of `Replicated`, however far apart the parties are.
* `OpeningsAgree`: parties open from different components and get the same word.
* `ComputesCircuit`, `ComputesProgram`: refinement of the ideal specifications.
* `JoinsWait`: a thread that may be handed out again has executed all it was given.
* `NoTapeLost`: so has a thread that has ended, although the queues are stopped early.
* `ForksAndJoins`: refinement of `ForkJoin`; beyond `JoinsWait`, the order of tapes and that none runs twice.
* `EverythingEnds`: the master waits for all threads and all of them end.
* `Delivers`: refinement of `Channels`. Streams arrive whole, in order and unharmed, for every way in which the system
  may cut them, also when they are received to where they are sent from.
* `OneThreadPerSocket`: while a Sender has something to write, its player keeps away from that connection.
* `Completes`: every call returns if every stream sent by a blocking send fits into the buffers,
  whatever the sizes exchanged. This is the liveness of seed exchange, ANDs, inputs, openings and broadcast.
* `LargeBatchesStall`: that condition is needed. When parties 0 and 1 have an AND batch that does not fit, or all
  three deal inputs that do not fit, none of them gets past it: a limit of `MultiReplicated::exchange` and
  `MultiReplicatedInput::exchange` that nothing in the repository denies.
* `RightPeer`: threads are connected to the same thread at every peer.
* `FinishedTogether`: a party that closes normally leaves no party behind, even with crashes.
* `FailuresHaveACause`: without crash and timeout nothing is refused or closed too early.
* `EverybodyEnds`: with one crash or timeout anywhere nobody waits for ever.

Each property comes with a fault (operators marked "Fault:" in the modules, never used by the
specifications) that changes one definition the way a bug would and that TLC finds by it.

**Bounds, and why they are enough.** The formulas act on each lane alone, so lanes lose nothing
as samples; the results are affine in the drawn words, of which the two tapes take samples.
Fan-ins 2 to 5 cover every branch of the code. Two ANDS instructions between barriers
are enough for party 2 to be a batch ahead of parties that are themselves in different instructions, three
for two batches in one connection. Widths 1, 3 and 9 have lanes beyond whole octets. `BatchSize` is 2,
so that three random bits take a second batch. What
is not covered: privacy for fan-ins above 2 and programs beyond those listed. For the threads, four are
enough for three workers to end in any order and for a worker to be joined while others run;
the main tapes give a worker a second tape after a join and end with tapes still queued. `threads_join`
assumes `~SpuriousWakeups` and `ConstructedInTime`, which the other two thread runs drop in turn.
`NoTapeLost` needs the first: a thread that wakes up unsignalled in `pop_dont_stop` takes an empty queue for the
end of the program, and a tape scheduled afterwards is never run. The model has that step, but nothing in the
repository says that it cannot happen, so no run checks it.
In `links`, `Capacity = 3` and `LENGTH_SIZE = 1` allow streams that fit into the buffers with their length (up to 2) and that
do not (3 and 4), which is all the code can tell apart; each script is a piece of a protocol between two
points at which the buffers are empty again. In `players` the field `failures` of a scenario bounds crashes and
timeouts, one, wherever it hits, `rounds` the openings per thread, and `late` says whether ids may come after the accept; three parties are
the smallest number with a peer that is neither the first nor the last.

**Fairness.** Always weak, and always of whole threads or processes, never of single actions: the operating
system runs every thread that can go on, and TCP delivers what was sent. `EverythingEnds` assumes it of the master and
of each thread of a party; a condition variable needs no more, since whoever is signalled stays signalled
until it runs. `Completes` assumes it of each player and each Sender. `EverybodyEnds` assumes it of the main threads, accept
threads and players (no step can be repeated for ever, so fairness of the kind is fairness of each); crashes and
timeouts are not assumed to happen, but a wait that cannot succeed is assumed to end, which is what
timeouts and closed connections are for. The protocol modules above the connections have no liveness property
of their own: they are finite and checked for deadlock, and that their calls return is `Completes`.

Where the system may stop, the specifications stutter (`Terminated`, `AllEnded`), so deadlock is checked in all
runs but `links`: there scripts with streams that do not fit do deadlock, and `Completes` says when they do not.

### Findings

1. **`and_five_lanes`.** Products of five and more operands start from the integer 1, lane 0 of the word.
   In every other lane the AND of five operands comes out wrong. On single bits it is right,
   which `and_batches` confirms.
2. **`vm_constants`.** `load_clear` writes the constant to both components at all parties. In this
   sharing, that is a sharing of 0. The same holds for the all-ones word in `NOTS`.
   `vm_program` shows that all parties at least agree on the wrong word.
3. **`vm_inputs`.** The dealer takes the role of party 0 in its dealing, whoever it is, but ANDs
   and openings give that role to party 0. Inputs of parties 1 and 2 do not open to
   themselves. Programs with inputs of party 0 only are right (`vm_program`).
4. **`threads_spurious`.** `WaitQueue::pop` waits with `if`, not `while`, and takes the front of the queue
   unseen. After a wake-up without a signal, which POSIX allows, a join returns before its tape has ended.
5. **`threads_construct`.** The constructor of the base class `Thread` starts the thread. If that thread reaches
   `pre_run` before the constructor of `StandaloneShareThread` is over, it gets the empty one of
   the base class, and the first instruction throws "no singleton". Connecting to the other
   parties comes first and makes this unlikely; nothing excludes it.
6. **`vm_bits`.** `BITB` gives party *p* the pair (*r*<sub>p</sub>, *r*<sub>p-1</sub>), a sharing for `Replicated`. This machine's openings read
   it as something else: party 0 gets *r*<sub>0</sub>+*r*<sub>2</sub>, the others 0. `Compiler/types.py` documents a
   "Secret random bit" that can be revealed "publicly".
7. **`players_ids`.** The set-up for OT uses the ids 0xFFFF plus party, and 0xFFFF + 1 is the base of thread 1
   (`1 << 16`). The ids are never released, so thread 1 is refused ("already used") at every party but
   party 0. Only machines that need OT make that set-up.

## 4. What is proved

**The AND protocol** (`MultiAnd_proofs`, `MultiReplicated_proofs`, `Batches_proofs`), for every `W`, set of registers, program,
input and tape, from the assumptions `WAssumption`, `ProgramsAssumption` and `InputsAssumption` only:

* `TypeCorrect`: `Spec => []TypeOK`. `TypeOK` alone is not inductive: the streams hold words only
  because the connection they come from does, and `FinalizeMul` reads the head of `and_operands`.
  The strengthening `Control` says where each party is: inside which instruction, and how many
  gates of it have operands saved.
* `SeedsPairedCorrect`: `Spec => []SeedsPaired`.
* `LockstepCorrect`: `Spec => []Lockstep`. Both rest on the invariant `Flow`: for each
  connection, the kinds and the number of messages in flight follow from the locations of its two ends
  (a seed is in the connection exactly while the sender has sent and the receiver not received
  it, and behind it the words of the instructions between the two `ip`). This is what makes
  untagged messages work: a receive finds the message of its own instruction.
* `PrngsPairedCorrect`: `Spec => []PrngsPaired`, for every fan-in and batch. The parties can be any
  number of ANDs apart, so the invariant `Tracks` compares histories: a party's track is the marks it has made and
  the one it would make next. Each entry determines the following one (`Following`, by `DrawsPaired`), so
  two tracks that begin alike are alike as far as both reach. What a party is about to make must be part of
  the track, for `PrepareMul` only writes down where the party already is.
* `PairAndCorrect`, `AndCorrect`: the formulas of an AND, of two operands and of any number. With consistent
  operands and shared masks, what the three parties finalize is a consistent sharing that opens to the product that the
  code forms (`ProductOf`). Two operands go lane by lane (`PreparedPair`, `CrossSumPair`). For more, a sum
  of words is a parity of a cardinality, so the algebra becomes statements on parities of finite sets:
  of the monomials that hold 1 in a lane, those that contain an operand that is 0 cancel in pairs, by adding
  and removing that operand (`MasksCancel`, `OnlyProductLeft`). That the list of monomials has each monomial once
  (`MonomialsEnumerated`) is by cases up to fan-in 4, and above from the order of the bit masks being total.
* `BatchConsumedCorrect`: `Spec => []BatchConsumed`. The property speaks of the instants between instructions, and the streams are
  untyped, so the invariant `Batches` says what is in them at every instant. Gate *g* of instruction *b*
  determines the words that each party makes for it (`WordsFor`), from the registers before *b*, kept in `log`, and the
  positions of the generators, kept in `marks`. Each stream is the words of the gates that are open, gate by gate
  (`Joined`): prepared and not yet sent, on their way (`InFlight`: the *i*-th message from the end is of the
  *i*-th instruction from the last that was sent), received and not yet finalized, or kept. `finalize_mul` therefore finds the words of its own
  gate at the front, takes as many as there are (`FinalizeTakes`, with `Taken` against `PreparedLengths`) and leaves the next gate's.
  Packing loses nothing because masks and operands are already cut to the gate's width (`PreparedPacked`).
  `Batches` needs `Control` and `Flow` to know that a message is there and whose it is; TLC checked it on
  the instance of `and_batches` first.
* `SharesConsistentCorrect`: `Spec => []SharesConsistent`. `Batches` gives the share that a party ends with as a formula (`ResultFor`)
  over the registers of all parties before the instruction, which were consistent, and their draws,
  which are shared by `Tracks`: this is an instance of `AndCorrect`. The induction is over the
  instructions that all parties have finished: a smallest one after which a register is inconsistent has a
  predecessor (`AgreedAll`).
* `ComputesCircuitCorrect`: `WideGatesNarrow => (Spec => ComputesCircuit)`, the refinement of `IdealCircuit`, step by step. The number of instructions
  that all have finished grows by at most one in a step, and only when the slowest party finalizes its last gate; the
  registers after it then open to `Eval` of what they opened to before (`EvaluatedHere`), and nothing that was
  logged changes later. The hypothesis `WideGatesNarrow` is that ANDs of more than four operands are of one
  lane: such products are formed in lane 0 only, and finding 1's run `and_five_lanes` shows what comes of the others.
  Consistency of the shares does not need it.

The lemmas behind `PrngsPaired` and `Batches` do not speak of the whole system but of one party's step and of what that party
may rely on (`Backed`, `Relies`): that generators shared with a neighbour are paired, and that the message it is about to take is
the batch of its own instruction (`Coming`), whatever else the connections carry. The circuit's own steps meet this, and so do those of the virtual
machine, whose connections carry seeds, inputs and openings as well.

Lemmas about the operators (`DrawsPaired`: for every fan-in, the parties that share a generator draw
equally many words from it; `PreparedType`, `FinalizedType`, `PreparedLengths`, `WordCounts`) are in the same modules.

**The virtual machines** (`GCProcessor_proofs`, `Secrets_proofs`), for every program, input, clear value and batch size, from the assumptions
above and `MachineProgramsAssumption`, `PrivateInputsAssumption` and `BatchSizeAssumption`:

* `MachineTypeCorrect`: `MachineSpec => []MachineTypeOK`. A received word is stored into registers, a received stream is used as a seed,
  and nothing in a message says which it is; so types need to know what every message in flight is.
* `BarriersCorrect`: `MachineSpec => []Barriers`. A party that has finished a `REVEAL` or an `INPUTB` has had messages that the others
  send when they enter it.
* `RandomBitsReplicatedCorrect`: `MachineSpec => []RandomBitsReplicated`, for every batch size and however many batches
  each party is ahead.
* `MachineSharesConsistentCorrect`: `MachineSpec => []MachineSharesConsistent`, with no hypothesis but the property's own, that it speaks of what
  was computed before the first random bit and the first input of party 1 or 2.
* `OpeningsAgreeCorrect`: `PlainOpenings => (MachineSpec => []OpeningsAgree)`. The hypothesis is that no program opens anything after a
  random bit or an input of party 1 or 2. The runs `vm_bits` and `vm_inputs` show what comes of the others.
* `ComputesProgramCorrect`: `WideGatesNarrow /\ BitsLast => (MachineSpec => ComputesProgram)`, the refinement of `IdealMachine`, step by
  step. `WideGatesNarrow` is the hypothesis of `ComputesCircuitCorrect`. `BitsLast` is that random bits come at the end of a program, if there are any:
  what is computed from them is shared wrongly, see `vm_bits`. Constants, complements and inputs of other parties need no hypothesis, for
  `ComputesProgram` says itself that it stops before them.

The first three follow from one invariant, `MachineInv`, which TLC checked on the instance of `vm_program` first. Its centre is a *plan* of
the messages of each connection: number 0 is the seed of the constructor, number 1 that of `RepPrep`, and numbers 2*k* and 2*k*+1
belong to instruction *k*, whatever it sends (`Planned`). Where a party stands says how many messages it has sent (`Gone`) and
received (`Got`) on a connection, and `Traffic` says that a connection holds what is planned from `Got` to `Gone`, each
message with the content that the sender's registers had when it sent it (`Carries`). So the message that a party takes is the one of its own instruction. A step is then
of one of three kinds for a connection: it emits the next planned message (`Emits`), takes the first (`Absorbs`), or leaves it
alone. The other parts are `Control` and `Tracks` as in the circuit, `Dealt` (what an input's dealer has dealt and the
others have seen of it), `Reading` and `Whereabouts` (the inputs' generators and how far each party is in an input),
`SeedsHeld` and `Stocked` (whose seeds the buffers of random bits are made from, and how many bits are left), and
`ClearLogged` (the history of the clear registers).

The other three rest on that invariant and on a second one, `Computed`: entry *b* + 1 of a party's two histories (`log`, `clog`) is what
instruction *b* makes of entry *b* (`Effect`), a batch of ANDs excepted, for which `Batches_proofs` has the shares. What an `INPUTB` stores and a `REVEAL` opens depends on
other parties; `Effect` names it by what these had logged when they sent it (`PlannedShare`, `ShownBy`), which the plan of the messages provides. So the order in which
the parties did all this is gone, and an induction over the instructions (`LevelAll`) compares the three histories: entry *b* of the parties' registers
hides words (`Hides`: the three shares of a register belong together and open to its word), and entry *b* of their clear registers is the same at all that have got there (`Level`).
For each kind of instruction a lemma says that registers that hide words hide what the instruction makes of them afterwards
(`LocalAlike` and the lemmas of its loops, `ItemHidden`, `RevealAlike`, `RegisterNext` for ANDS),
and another that this is what `IdealMachine` says (`DeedPromised`), constants and complements apart. Neither is by induction over
data: a loop is known by the function of its rounds, which a `CHOOSE` names and `LoopExists` provides.
For the refinement, the number of instructions that all have finished grows by at most one in a step, and the part of
them that is promised with it (`GoesNoFurther`).

**The threads** (`Threads_proofs`), for any number of threads and any main tapes, from `NThreadsAssumption` and
`SchedulesAssumption`:

* `TypeCorrect`: `Spec => []TypeOK`, with or without spurious wake-ups.
* `JoinsWaitCorrect`, `NoTapeLostCorrect`, `ForksAndJoinsCorrect`: `~SpuriousWakeups => (Spec => ...)` for the
  two invariants and the refinement. The hypothesis is needed, as `threads_spurious` shows.

The invariant `Inv` behind them has four parts besides the types. `Accounts` is the heart: a worker is
quiet, or has exactly one tape, queued or running; and its queue `done` holds its announcement until the
master has taken it, and from then on one element exactly if the worker is handed out and quiet.
So an element means the end of *this* tape, although elements are not labelled. `Wakeups`: whoever is signalled will
find something, so that taking the front unseen is right. `Starting`: nothing is given to anybody before
all announcements are taken. `Stopping`: threads end only when stopped, the workers only after
thread 0 has ended, so that no tape is sent to a thread that ends.

**The players** (`Players_proofs`), for any number of parties below 65536, up to 32768 threads, any number of openings,
crashes and timeouts, from `ScenariosAssumption`:

* `TypeCorrect`: `PlayersSpec => []PlayersTypeOK`. The type of `idx` needs `Places`: a client is at itself or a later
  party, a server at itself or an earlier one and has as many connections as its index says. It in turn needs `Orders`: a party builds
  its players one group after the other, so none starts twice.
* `RightPeerCorrect`: `PlayersSpec => []RightPeer`, if no scenario has both a set-up for OT and more than one thread. The
  hypothesis is what finding 7 violates. The invariant `PeerInv` adds `Labelled`: every id in `clients` is the id of its
  connection, which is one to that party. With the hypothesis ids are injective (thread numbers
  shifted by 16 bits, parties below 2^16, the master negative), so an id that is found is the right connection.
* `FinishedTogetherCorrect`: `PlayersSpec => []FinishedTogether`. The invariant `Heard` says that a main thread that is in
  its *i*-th exchange of the broadcast has heard from the *i*-1 parties before it in the ring, and what has been
  heard of stays true of dead parties too: their threads had finished.
* `FailuresHaveACauseCorrect`: `PlayersSpec => []FailuresHaveACause`, under the hypothesis of `RightPeerCorrect`, which
  finding 7 shows to be needed. `AskedOnce`: an id is in `used` only if its player has got past it, so that nobody is refused.
  And `Heard` makes a thread that still waits for an opening impossible when its peer has closed.

**The streams** (`Links_proofs`), for any number of players, any calls, and streams and buffers of any sizes, plain and
TLS, from `CapacityAssumption` and `ScriptsAssumption`:

* `LinksTypeCorrect`: `LinksSpec => []LinksTypeOK`, and `OneThreadCorrect`: `LinksSpec => []OneThreadPerSocket`.
* `DeliversCorrect`: `LinksSpec => Delivers`, the refinement of `Channels`, step by step: a call that starts puts the whole
  stream, a call that returns takes it, all steps between stutter.
* `LargeBatchesStallCorrect`: `LinksSpec => []LargeBatchesStall`. The invariant `StallInv` says that in a ring of players
  that each send the next more than fits, none ever leaves its send: what it has written is what the connection
  holds, for the only reader is stuck in its own.

The first three rest on the invariant `LinksInv`, which TLC checked on the instance of `links` first. `Framed` says what is
in a connection: the octets are a section of the frames (length, then stream) of the streams given to it, laid one
after the other. It begins behind what the reader has taken of the stream it is receiving (`Taken`) and ends before what the writer has
left to write (`Left`). `SenderTurn` says that a Sender has a request, is writing or has replied exactly while a call
waits for it, so that the writer of a connection is one thread. `Calling` ties each
location to what of the call is done. Its difficult part is the exchange that receives into the
stream it is sending (`in_place`): what is not yet written must still be the stream that was given,
and what is overwritten must already be what the peer gave. This holds because `ToReceive` never lets the receiving half pass
what has been sent, and it needs `Framed` to know which octets arrive.

Only model-checked: privacy (`AndIsPrivate` and `InputsPrivate`, statements about counting the outcomes of generators
that lead to a view), and liveness (`EverythingEnds`, `Completes` and
`EverybodyEnds`), which is outside the prover's reach, as ENABLED is.

The loops of an instruction over its items are `Loop` of `BitVec`, a recursive function. The folds of the community modules
would say the same, but nothing could be proved of an instruction with any number of items.

## 5. What is not modelled, and why

* **Dynamic memory, clear and integer registers, jumps**: local and deterministic; jumps
  depend on clear values, for which `OpeningsAgree` is what they need.
* **The rest of `RepPrep` and `Replicated`**: triples and input tuples are not asked for by this machine.
* **Distribution of random bits**: `get_bit` is modelled with its constant 64th bit, but that a bit
  should be uniform is a statement about probabilities. `Compiler/types.py:1482` does say "0/1 50-50", which
  that bit is not; no property here states or refutes it.
* **Names from a file, anonymous servers, two-party players, receive threads**: other ways to connect, not
  used by this machine.
* **Restarts**: nothing is persisted; a party that fails is not started again within a computation.
* **Encryption, printing, statistics, files**: no state the properties depend on.
* **The compiler**: its output is a constant of the models.
* **ANDRS**: `and_` with `repeat` uses the length `n` without setting it (`ShareThread.hpp:104-108`).
* **`branch`, `start_exchange`, `stop_exchange`, dot products, `trunc_pr`**: the binary machine does
  not call them.
* **Upstream machines**: not built here.

## 6. Plan

1. Done: words, sharing, AND formulas, the protocol object, its ideal circuit, the virtual machine with inputs
   and openings, its ideal machine; first theorems.
2. Done: `Threads` and `ForkJoin`, with their theorems.
3. Done: `Links` over `Channels`, with the calls in `Sessions`; `Players`, with its theorems.
4. Done: BITB with `RepPrep`'s seed exchange, TRANS in `GCProcessor`.
5. Open: `GCProcessor` with memory at dynamic addresses and jumps; a composition of `Players` and `Threads`
   for several parties with several tapes.
6. Done: the chain from the streams to the circuit: `BatchConsumed`, `SharesConsistent`, `ComputesCircuit`, for every fan-in.
7. Done: the streams: types, sockets, the refinement of `Channels`, the stall.
8. Done: the virtual machines: types, `Barriers`, random bits, and from the same plan of messages their shares,
   openings and the refinement of `IdealMachine`.
