# Stage9MotorBridge: TLA+ models, checks and proofs

This directory holds TLA+ specifications of the program in `src/`, the TLC
configurations that check them on small instances, and TLAPS proofs of what
matters most for every instance. Each definition is translated from the source
lines that `PROJECT.json` lists for it under `map`; documents and comments are
only used as statements to compare the code with.

Contents

1. The system: components, state, operations, interactions
2. Modules and how they correspond to the code
3. Runs: what is checked, bounds, fairness
4. Proofs
5. Where the code and its documents disagree
6. What is not modelled
7. Plan

## 1. The system

The repository drives a brushless motor through a VESC controller. Two layers
matter:

- **Stage9**: Python and Julia TCP servers that own the serial line to the VESC,
  and an F' component, `Stage9MotorBridge`, that turns ground commands into
  lines of text for a server and its telemetry lines into channels.
- **F' (a vendored framework that the deployment runs on)**: active components
  with a thread and a message queue each. A ground command goes through
  `CmdDispatcher` to the component that registered its opcode; `CmdSequencer`
  replays files of commands through the same dispatcher; `RateGroupDriver` and
  `ActiveRateGroup` schedule the periodic work, among it the bridge's `run`;
  `Health` pings all active components; `Os::Queue` is the queue of them all.

| component | state it keeps | operations | correct means |
|---|---|---|---|
| `vesc_tcp_server.py` ("hard safe mode") | `enabled`, `last_duty`, `state_lock`, one handler thread per client, the sender thread's copy of the duty | enable, disable, stop, duty, ping, disconnect; the 50 ms sender turn; Ctrl-C | disabled means at rest, apart from what is already under way; replies tell the truth; enabling never resumes motion |
| `vesc/vesc_tcp_server.py` (minimum duty) | the same, without a copy: the sender writes under the lock | the same, plus `force_stop` | disabled means at rest unless the last write to the serial line failed |
| `Stage9MotorBridge.cpp` with `julia_vesc_server.jl` | socket, published telemetry; the server's `duty`, `current` and its one connection | SET_DUTY, SET_CURRENT, STOP, run; accept, one line in, one line out | the last command wins; telemetry is what the server said; neither end waits for the other for ever, which the code keeps only if `run` has a thread of its own |
| `CmdDispatcher` | opcode table, tracker of commands under way, `m_seq`, queue | register, dispatch, status, NO_OP, CLEAR_TRACKING | every command is refused, or carried out and then answered, once |
| `CmdSequencer` | buffer and read position, run and step mode, two timers, the command that waits for the end | CS_RUN, CS_VALIDATE, CS_CANCEL, CS_START, CS_STEP, CS_AUTO, CS_MANUAL, CS_JOIN_WAIT, the two ports, responses, `schedIn` | records of a checked file go out once each, in order, one at a time; the run ends and is reported once |
| `Os::Queue` (POSIX threads) | heap, slot ring, slots, lock, two condition variables | send and receive, blocking or not | a priority queue, first in first out within a priority; no lost wakeup |
| `Os::LocklessQueue` | two ends of a linked list, head of the free nodes, the locals of every thread in it | send, receive | nothing lost, mixed or out of order, without a lock |
| `Health` | ping table, key counter, `m_enabled`, queue | ping return, three commands, `Run` | silence is reported, a component that answers is never accused |
| `RateGroupDriver`, `ActiveRateGroup` | tick counter; per group a queue, `m_cycleStarted`, throttle | tick, cycle, ping | groups run at their divider; slips are real and reported |
| `Drv/Ip`, `TcpClient`, `TcpServer` | `m_fd`, `m_open`, `m_stop`, the listening socket, the read task's locals | open, receive, send, close, stop, shutdown | a connection is replaced when it is lost and only then; a stopped task ends and leaves nothing open |
| `Deframer`, `FprimeProtocol`, `CircularBuffer` | ring of received bytes, the buffer being routed | framedIn, schedIn (fill the ring, deframe, route) | the packets of the stream, wherever it was cut into chunks |
| `BufferManager` | allocated flags, counters | get, return | every buffer has one holder or is free |
| `FileUplink` | receive mode, last sequence number, open file and its checksum | START, DATA, END, CANCEL | a file accepted without a warning is the file that was sent |
| `FileDownlink` | mode, timer, queue of requests, the current file, two packet memories, buffer contexts | SendFile, SendPartial, Cancel, the port, Run, bufferReturn | every request is answered once; the packets are the range asked for |
| `PrmDb` | table of parameters, the file on disk | get, set, PRM_SAVE_FILE, load | a start finds what was saved; a torn file does bounded damage |
| `TlmChan` | two tables of hash chains, the active one | TlmRecv, TlmGet, Run | every update is sent once, by one Run |
| `TlmPacketizer` | packets being filled with their flags, the level | TlmRecv, Run, SET_LEVEL, SEND_PKT | a Run sends the latest values of every packet that is due |
| `BufferLogger` | logging state, base name, file counter, open file and its size | buffers, open, close, switch | the files read back as what was logged |
| `BufferAccumulator` | ring of buffers, mode, send flag | buffer in, buffer back, mode | buffers go on in order, one when the last is back |

What is hard in it: threads around one lock with writes outside of it (the
hard-safe sender); a lock taken twice by one thread (`force_stop`); TCP, which
keeps neither lines apart nor connections alive; two bounded socket buffers in
opposite directions; processes that start, crash and restart in any order;
command statuses that come in any order, twice, or never; one pair of fields in
the sequencer that remembers whom to answer; responses that outlive the run they
belong to; one signal per message for any number of waiting threads; counters
that wrap; flags and descriptors shared between threads without a lock; a link
that loses, repeats and reorders; buffers that come back late, or never, to a
component that has only one; a process that ends in the middle of a save; a
stream that is cut anywhere. `PROJECT.json` lists
each such place, at its line, with the properties about it (`hazards`). Three more are
in the models and in no property: lines that TCP joins (`vesc_tcp_server.py:102`), an
exit with a duty still commanded (`:164`), and a component thread that waits for room
in its own queue (`Queue.cpp:199`).

## 2. Modules and the code

An action is a section of code that no other thread can interleave with: a
critical section, a message handler, one system call. Identifiers are the
code's where TLA+ allows. Operators named `Mutant...` are not part of a
specification: each is a plausible slip in the definition after it, used to see
that a property notices it.

### HardSafeServer (`src/vesc_tcp_server.py`)
`enabled`, `lastDuty`, `lock`, `running` are the globals; `pc`, `chunk`, `reply`
are each handler thread's position and locals; `spc`, `duty` the sender's. One
`recv(1024)` returns a *chunk* of one or more lines, of which only the first
word counts (`strip`, `split(maxsplit=1)`), so a joined line is modelled as the
code treats it. Some replies are sent inside the critical section (`pc =
"reply"` with the lock held), where `sendall` blocks while the client does not
read (`ReplyRoom`). The sender looks at `running` (`SenderCheck`), copies the duty
under the lock (`SenderRead`) and writes it after (`SenderSend`), which is the
interesting interleaving. The driver
may raise; the client may vanish at any point; `Exit` ends the process wherever
the daemon threads are.

### VescServer (`src/vesc/vesc_tcp_server.py`)
The sender's turn is one step under the lock and dies of the first uncaught
serial error. Handlers reply and write to the controller under the lock; a
`stop` goes to `pc = "force_stop"`, which needs the lock its thread holds.
`Pace` is the minimum-duty arithmetic including NaN.

### MotorLink (`Stage9MotorBridge.cpp`, `julia_vesc_server.jl`)
Both ends and the TCP connection between them: command lines under way
(`link.lines`), a connection waiting in the backlog (`pend`), telemetry as a
sequence of cells (`wire`). A cell is a piece of text: its place in the line and the
value of the field it is a part of (`Layout`); which line it was written for is history
and read by the property only. `println` is written as the kernel has room, piece by
piece (`Println`, `printed`), and waits when the wire is full. One `recv` returns any part of the stream,
and `Parse` does what `sscanf` does with it: the fields it holds, the last number
perhaps cut short, zeros for the others, and zeros for all when the buffer does not
begin at the first field. What the server wrote before it went may still be read.

A command's handler calls `send` on a blocking socket: `Command` begins it and `Send`
returns, when there is room. The thread is taken until then. `shared` says whether `run`
is handled by that thread (an asynchronous port) or by its caller's (a synchronous one);
the component's header is not in the repository, so both are modelled. With `shared`,
nothing is read while a command waits (`Interlocked`, section 5). Command lines go in one
piece.

The bridge connects once, in `init`. `StartServer` also chooses whether the file
runs as a script, where Julia's scoping makes its loop fail in the first turn, or
is evaluated interactively. Processes crash and restart at any time. The
schedule of `run` and the component's header are not in the repository: `run` is
taken to be called periodically.

### CmdDispatcher, CommandService (`CommandDispatcherImpl.cpp`)
`CmdDispatcher` has the tables, the queue, the thread's current message and, as
environment, sources, registering components and components that execute
commands and may drop or repeat a status. An assertion that fails is the value
of `halted`. `CommandService` is what the sources may rely on: a submitted
command is refused or carried out, then answered at most once with its own
context, or forgotten by a clear. `ServiceSpec` states that the dispatcher
implements it, with `open` mapped to the commands of connected sources that are
queued, looked up or tracked.

### CmdSequencer (`CmdSequencerImpl.cpp`, `FPrimeSequence.cpp`)
The component's thread runs one handler at a time, so a handler is one action;
the helpers that it calls (`Load`, `Step`, `Dispatch`, `Complete`, `Cancel`,
`Responded`, ...) are operators from component state to component state. A file is
reduced to what its checks and records lead to. Times are ticks until a timer
expires. `disturbed`, `overtaken` and `stale` are histories that name exactly
the calls after which a property of a run does not hold (section 5).

### OsQueue, PriorityFifo, PriorityBufferQueue, MaxHeap (`src/Os/Pthreads`)
Two levels, on the constants of `QueueMessages`. `PriorityBufferQueue` with `MaxHeap`
is the data structure: heap with ages, ring of free slots with wrapping counters, slot
contents. The loops of the heap are functions of the number of their turns (`Climbing`,
`Sinking`), of which `Climb` and `Sink` are one turn.
`PriorityFifo` is the abstract priority queue, which `ImplementsFifo` shows it to
implement: the k-th message is the one whose node has k - 1 nodes before it
(`Ahead`). `OsQueue` builds the
threads, the lock and the two condition variables on the *abstract* queue, so
that its state stays small and its proofs need no heap. A section under
`queueLock` is one action; a thread between a signal and getting the lock back is
in `woken`.

### LocklessQueue (`src/Os/Posix/LocklessQueue.cpp`)
The node lists and the local variables of each thread inside `Send` or `Receive`;
every access to a shared variable is a step of its own, a compare-and-swap is one. The
compare-and-swap is a full barrier and what it orders is words that an x86
processor stores in order, so interleaving is what such a build does. The
history `published` is the order in which `m_last` was moved, `free` the free nodes in
the order of the swaps of `m_free_head`, and `aba` says that a pop has put a stale link
into `m_free_head`; what follows then is not modelled.

### Health (`HealthComponentImpl.cpp`)
Returns and commands are queued by other threads, `Run` dispatches what is
queued message by message (`RunDispatch`, others may add meanwhile) and then
checks the table in one step (`RunCheck`). A full queue asserts (`halted`).

### RateGroups (`RateGroupDriver.cpp`, `ActiveRateGroup.cpp`)
The driver's tick calls the groups one after the other (`todo` are those still to be
called, `First` the next); `Rollover` is a constant that `RolloverSteps` ties to the
dividers, as the loop of `configure` does. For each group, the hook that
sets `m_cycleStarted` and the send to the queue are separate steps, as the
group's thread runs between them. The group's thread takes a message, clears the
flag, calls its members and checks the flag. The flag is accessed by two
threads without a lock; every access is one byte and calls lie between the
accesses, so a step per access covers what the build can do.

### SocketTask (`src/Drv/Ip`, `TcpClient`, `TcpServer`)
The read task, the thread in `send` and the owner (stop, close, shutdown) of one
driver. A section under `m_lock` never blocks and is one action; every system
call is an action of its own. `m_fd` is read outside the lock by `recv` and
`send`, so its value is the one at the moment of the call. A socket is the state
of its connection: none, up, or gone (the peer has left). A descriptor number
that is closed and reused for another file between two reads of it is left out.
`halted` is what ends the process: SIGPIPE, or the assertion of
`StaticMemoryComponentImpl` on the size -1 that an interrupted read leaves.

### FileDownlink (`src/Svc/FileDownlink`)
Requests come by command or port into a bounded queue; `Run` takes one in IDLE
and counts down in WAIT and COOLDOWN; `BufferReturn` is one action per branch
of `bufferReturn_handler` and `downlinkPacket`. A file is its size, a data packet
the offsets of the bytes it carries, a checksum the offsets it was computed
over. `memoryStore` holds what each of the two packet memories contains, so that
a packet on its way can be seen to be overwritten. `timedOut` remembers the
requests that ended in a timeout.

### FileUplink (`src/Svc/FileUplink`)
The ground sends one file after the other, a packet per byte, or gives one up. The
link loses, repeats and reorders. `HandleStart`, `HandleData`, `HandleEnd` and
`HandleCancel` are the handlers; the two `File` failures (open, write) may happen
at any time. The end of a packet is computed in 32 bits, as in the code (`InBounds`);
the ground sends the bytes of its files only, so that sum does not wrap here. The checksum is the CFDP one, computed (`AddByteAtOffset`).

### UplinkPath, BufferManager, CircularBuffer (`Svc/Deframer`, `Svc/FramingProtocol`, `Svc/BufferManager`, `Utils/Types`)
The ring buffer is kept cell by cell with its head index, so that wrapping is
real. One action is one turn of a loop: `FillRing` of `processBuffer`, `CopyPacket`,
`RouteFile`/`RouteOther`, `SkipByte` and `Suspend` of `processRing`. Between
turns the receivers return their buffers to the pool, which is shared through
guarded ports. `Status` is `deframe` in the order of its checks. `PacketsIn` is the
reference: the packets of the whole stream, if it lay open at once.

### PrmDb (`src/Svc/PrmDb`)
`Write` is one call of `Os::File::write` on a file that outlives the process;
`WriteFails` writes any part, `Crash` comes between any two steps. `Start` is the
whole of `readParamFile`, as a fold over the entries, with a read error at any of
them. `given`, `saved`, `torn` and `plain` are history: the values that each parameter was
ever given, the table of the last save if it ended well, the places of the file where
saves were cut short, and whether a value was ever saved that has a piece which reads as
a field.

### TlmChan (`src/Svc/TlmChan`)
`TlmRecv` on known and new channels (hash chain, next free bucket) in the active
table; `RunSwap` under the lock, then `RunEntry` one bucket at a time without it.

### TlmPacketizer (`src/Svc/TlmPacketizer`)
`TlmRecvBegin` looks the channel up, `TlmRecvCopy` writes it into one packet after
the other, each under the lock; `Run` copies what is due under the lock and sends
the copies, which no other thread touches, so that it is one step. The
hash table, which does not change once it is built, is the operator `PacketsOf`. A
value is the number of the call that brought it.

### BufferLogger (`src/Svc/BufferLogger`)
The file state is a record and the helpers of `File` are operators from it to what
they may leave (`Open`, `WriteBytes`, ...); a handler is one action. The disk keeps
files by name with all their bytes, so that a reader's view of them (`Records`) can be
compared with what was logged. `Os::File` opens without truncating. A name is a
sequence of numbers, its characters and the counter at its end.

### BufferAccumulator (`src/Svc/BufferAccumulator`)
The ring with its two indexes and the flag `send`; one action per handler. Where
each buffer is (upstream, downstream, stored, dropped) is part of the state.

### The `MC` modules
They give the constants their values. Components that do not interact are checked
side by side in one search where their questions are of one kind: a variable
(`part`, `program`), chosen at the start, says whose behaviour it is, and the
variables of the others keep their initial values, so the search is the union of
the separate ones.

| module | components |
|---|---|
| `MCConnections` | `HardSafeServer`, `SocketTask` |
| `MCMotors` | `VescServer`, `MotorLink` |
| `MCTasks` | `FileDownlink`, `CmdSequencer` |
| `MCQueues` | `OsQueue`, `PriorityBufferQueue`, `BufferAccumulator`, `LocklessQueue` |
| `MCServices` | `UplinkPath`, `FileUplink`, `RateGroups`, `PrmDb`, `TlmChan`, `TlmPacketizer`, `BufferLogger` |

An invariant of such a module with the name of a component's invariant is that
invariant and the types of the components. The types of every component are part
of some invariant of a passing run.

## 3. Runs

`PROJECT.json` names the cfg, the module and the properties of each run. All
passing runs are complete searches.

| run | states | what it shows |
|---|---|---|
| `connections` | 0.22 M | Hard-safe server: `AtMostOneStaleSend`, after `enabled` is cleared at most one duty the sender had already copied reaches the motor; `AckMatchesState`, no reply sent under the lock is outrun by another client; `EnableStartsAtRest`; `DisabledComesToRest`, a cleared flag rests the motor. TCP driver: `SocketIsKept`, flag and descriptor agree and an ended task leaves nothing open; `TaskClosesTheDead`, the task closes no living connection unless it was stopped; `TaskGoesOn`, a stopped task ends, a lost connection is replaced |
| `motors` | 0.26 M | `DisabledIsAtRest`: with the lock free, a disabled server's motor is at zero unless the last write failed. `LinkIsKept` (the last duty sent is the one that holds; a bridge without a connection drives nothing), under crashes and restarts of both ends; `OneLinePublished`: wherever writes and reads cut the stream, the bridge publishes the beginning of one line and zeros after it, never fields of two lines; `BothWaysFlow`: a lasting request becomes the server's duty, telemetry keeps coming and commands return, unless bridge and server wait for each other (`Interlocked`), which is the only way in which they get stuck |
| `vesc_stop` | violation | a stop that is being carried out never rests the motor |
| `motorlink_stop` | violation | STOP does not stop |
| `dispatcher` | 0.44 M | `StatusFindsItsCommand` (the opcode assertion cannot fail), `TablesAreKept` (no slot leaks), `ServiceSpec` (the refinement), `EveryCommandEnds` |
| `tasks` | 0.23 M | Sequencer: `RunInOrder`, an undisturbed run sends its records one at a time, once each, from the first, and is reported once, and a record that is to be read is there (`NextRecordSucceeds`); `OwedIsAnswered`, whoever waits for the end is known and answered once; `AutoEnds`. Downlink: `OneAnswerEach`, `PacketsAreTheFile`, `InFlightIntact`, `AssertionsHold`; `RequestIsAnswered` under fairness |
| `sequencer_invalid` | violation | a file that failed its checks can be run |
| `downlink_late` | violation | a buffer that timed out is not ignored when it returns |
| `queues` | 0.38 M | `NoLostWakeup`, `UrgentIsDelivered`; `ImplementsFifo`; `PoolHoldsTheFreeSlots`, the ring holds exactly the free slots; before it starts, heap push and pop are compared with sorting on all stable heaps of up to five nodes, in which a node sinks two levels (the assumption `HeapOperations` of `MCQueues`); `DrainsInOrder`: the accumulator's buffers go on in order and never wait while none is out; `NothingLostOrMixed`: in the queue without locks every node is in one place, what is linked is in the order of `m_last`, and a node holds what was sent in it until it has been copied |
| `health` | 1.4 M | `PingsAreMatched` (at most one ping each under way, none with a wrong key), `NoFalseLate`, `SilenceIsReported` |
| `services` | 1.39 M | `DeframesTheStream`, `BuffersAccounted`; `QuietFileIsWhole`; `TicksAreCycles` (`EvenlySpaced` and `SlipsAreReported`); `LoadIsSound`; `SendsTheSwap`, a Run sends each channel written since the last one once, as it was at the swap, and no write finds its table full (`BucketsSuffice`); `LatestIsSent`, a packetizer Run sends every packet that is due with at least the values whose calls had returned; `LogReadsBack`, the log's files are what was logged |
| `prm_torn` | violation | a load that fails marks an entry valid that was not loaded |

### Bounds and why they are enough
- **Two clients** (servers): every hazard is between two handlers and the sender;
  handlers are alike. The first client of the hard-safe server sends everything,
  the second what sets or clears the flag or asks for a duty beyond the clamp. The
  proofs of section 4 lift the hard-safe server to any number.
- **Duties** lie below, inside and above the clamp, and NaN, which falls through
  Python's `min`/`max` to one end.
- **Lines**: at most two lines joined in one chunk; a third only lengthens the
  argument. A telemetry line has three cells, one of the speed and two of the duty; the
  receive buffer and the wire hold four, so that reads and writes begin and end inside
  lines and inside a number, and the wire fills up. Other fields only lengthen the line.
  Two command lines fill a connection, and a third waits in `send`. The current stays
  zero.
- **Dispatcher**: three commands, two tracker slots and two table entries, so that
  both tables fill; two queue places, so that the assertion on a full queue
  fires. The dispatcher registers its own opcode before another component's, and
  the surplus one comes last (`RegisteredInOrder`). `MaxSubmits < SeqMod` is an assumption: a command would have to stay
  tracked for 2^32 later ones. Statuses may be dropped and repeated.
- **Sequencer**: files of none, one and two records, with and without an END
  record, and every way of failing; delays 0 and 2 against a timeout of 1, so that
  both timers can be the one that expires; `MaxLate = 1` response outstanding from
  an earlier run; two answerable commands, so that one
  can overtake the other.
- **Buffer queue**: `Depth = 3` and counters modulo 6, so that every ring counter
  goes round several times. `CountersFit` is what the run and the proof suppose:
  `IndexMod` is a multiple of `Depth`, as 2^32 is of the depths that are powers of two,
  and a message is queued for less than one turn of the push counter (`AgeBound <
  OrderMod`). Section 5 says what happens outside.
- **Os queue**: two consumers and two other threads, three places, message
  and buffer sizes 1 and 2. The state has no history but `last`, so every length
  of execution is covered. The proofs lift safety to any number.
- **Health**: warn/fatal thresholds (1, 2) and (1, 3); counts saturate at
  `CycleCap`, above each; keys modulo 3, above the number of pings under way; two
  commands or repeated returns; a queue of two, which two returns and a command
  overfill.
- **Rate groups**: dividers 2 and 3 (rollover at 6) and an unused port; one member,
  a queue of two, one ping under way, and that for the slower group only.
- **Socket task**: a message takes two calls of `send`, so that one can be split
  between connections. Nothing else is bounded: the state is finite, and any
  number of connections, sends and closes is covered.
- **File downlink**: a word of 8 instead of 2^32, so that a range can wrap; packets
  of two bytes and files of none and three, so that there are a first, a middle
  and a short last packet; timeout, cooldown and cycle of one tick; a queue of
  two and three requests, so that one is refused, or queued behind another. The
  proofs lift safety to any values.
- **File uplink**: two files, the name of the first on disk already with a longer
  one; two packets under way and one
  that comes again. This covers a lost START with a following file of the same
  numbers, the case the protocol cannot tell.
- **Uplink path**: a ring of five cells and frames of three to five, so that every
  frame can wrap; streams of seven cells over an alphabet of four, of which one is
  the start word, so that garbage holds false starts; chunks of one and two;
  buffers of one and two cells, so that the pool runs dry and the smaller is
  skipped.
- **Parameters**: two parameters, three sets, two saves, three starts: a save over a
  longer file, cut short, loaded, saved and loaded again; two saves cut short before one
  start. Values of one and two pieces let records shift against each other, and a torn
  record mix two values.
- **Telemetry**: three channels over two hash slots (one chain of two); four writes, enough for a channel to be written before, between and after two swaps.
- **Packetizer**: three packets of two levels, two with the same id, a channel in two
  packets and an ignored one; two writes of a channel, so that a Run and a command
  fit between its two packets and between two of its values.
- **Buffer log**: files of five bytes, digits in base four, a size field of one digit,
  buffers of none to four bytes: a file takes two records, one, or one that is too
  long for it; four buffers, two commands, one failure. The base names `a` and `a1`
  share the second file of `a`.
- **Accumulator**: four buffers on a ring of two; nothing else is bounded.
- **Lockless queue**: one or two senders and three nodes, so that both senders can be between
  `m_last` and the link at once; a message is the name of its sender. Nothing else is bounded.
- Histories saturate: `StaleCap`, `CycleCap`, `CapLate`.

Deadlock is not checked where the system really may stop: a process that exited
or crashed for good, an assertion that failed, a sequencer with nothing to do, a
dispatcher whose bound on commands is used up.

### Fairness
- **HardSafeServer**: `SF` for the sender taking the lock: `state_lock` gives no
  turn, but the sender comes back every 50 ms. `SF` for a write that succeeds: the
  serial line does not fail for ever. `WF` for handlers and for clients reading
  replies (`motor_client_stage9.py` has a thread for that). Clients owe no
  command.
- **VescServer**: threads that can run do; used only to show that the stop command
  hangs in spite of it.
- **MotorLink**: the rate group calls `run`; `SF`, because its message waits its turn
  behind the commands when it has no thread of its own, and it cannot be handled
  while one of them waits in `send`. `WF` for `send`, which returns once there is room
  that lasts, and for the server's loop; `SF` for the failure of a write to a connection
  that is gone. Nobody has to command, start, stop or crash.
- **CmdDispatcher**: the thread runs while it has messages; a component
  answers what it was sent unless it drops it.
- **CmdSequencer**: time passes and `schedIn` is called. No command has to respond.
- **OsQueue**: a woken thread gets the lock (POSIX promises no order, but threads
  leave the lock after a bounded section); consumers loop on a blocking receive,
  as `ActiveComponentBase` does. Senders owe nothing and may never stop.
- **Health**: the rate group calls `Run`. Components need not answer.
- **FileDownlink**: the rate group calls `Run` again and again; a buffer that is
  not lost is returned. Any buffer may be lost. `RequestIsAnswered` excepts the
  case `Stranded`, which the code does not leave.
- **SocketTask**: the task's thread runs; `connect` returns, `accept` only when it is
  no longer listening; where a connection can be had again and again, one is had
  (strong); a `recv` from a peer that left reports it in the end (strong); an
  owner that begins a stop or shutdown goes on. Nobody has to send, leave or stop.
- **RateGroups**, **PriorityBufferQueue**, **UplinkPath**, **FileUplink**, **PrmDb**,
  **TlmChan**, **TlmPacketizer**, **BufferLogger**, **BufferAccumulator**,
  **LocklessQueue**: safety only. (A thread that stops between `m_last` and the link
  holds up the receiver for ever; the code promises nothing else.)

## 4. Proofs

Checked by TLAPS, for every value of the constants that satisfies the named
assumptions. TLC evaluates the assumptions in the runs.

**DataLemmas** is what the proofs about streams and files share. The library's
induction theorems take the property as an operator, which the provers here cannot
instantiate; so induction is over a *set*: a set of naturals that is not empty has a
least member (`HasLeast`, from the well-foundedness of `<`), the set of the numbers
where a claim fails has none, and is empty (`Induction`). The same gives induction on
the length of a sequence (`AgreeBySize`), and that a recursive function whose every
call is on something smaller exists and is given by its equation
(`RecursiveFunction`, and `RecursionUp` for the loops that count up). The rest is about
concatenations, subsequences, what the library's `FlattenSeq` makes of one more item
(`FlattenAppend`, `FlattenLast`), and remainders.

**ConnectionProofs**, the hard-safe server (from `ServerAssumption`). Four theorems: type
correctness, `StaleSendBound`, `AckTruthful` and `EnableRest`. None of the
properties is inductive. `IInv` adds to them:

- `RestWhenDisabled`: a cleared flag leaves no duty stored, so what the
  sender copies while disabled is zero, and what an enable starts from is zero;
- `StaleAccount`: the non-zero sends since the flag was cleared, plus the one duty
  that the sender may be holding (`Pending`), are at most one; this is the
  argument for the bound;
- `LockIsReplying`: a handler is between its change and its reply exactly while it
  holds the lock, so no other handler can change what the reply describes.

`StepInvariant` has one step per action. `EnableRest` is an action property: the
only action that raises the flag stores a zero in the same step.

**QueueProofs**, the message queue (from `QueueAssumption`, `ThreadsAssumption`). `TypeCorrect`, with the
part that a thread is in at most one call and keeps its argument, is
inductive. `NoLostWakeupCorrect` relates the number of woken threads to the work
there is for them: a signal either moves one waiting thread to `woken` or finds
nobody waiting; a thread that leaves `woken` either takes the message it was
woken for, or waits again on an empty queue. The lemma `LeaveCount` counts this
with `Cardinality`, `WakeupStep` carries it through every action. The one step
that breaks the balance is a woken receiver whose buffer is too small: it leaves
with the message still queued and without a signal. The history `wasted`
records it, and the theorem is unconditional because the invariant names it.

**QueueProofs**, the buffer queue (from `QueueAssumption`, `BufferAssumption` and
`CountersFit`): `BufferQueueIsFifo`, the refinement, and `SlotsAreKept`, which is
`PoolHoldsTheFreeSlots`, both for the array, the ring and the wrapping counters as they
are in the code; and the types. From the bottom up:

- *the heap*: `SinkInv` and `ClimbInv` are the invariants of its two loops. While a
  node sinks, the array is ordered but for the place where the node is, and the
  children there come after the node's parent. `Iteration` carries them through the
  turns, and `HeapPopIs` and `HeapPushIs` say what is left: the same nodes but for the
  root, or with the new one, ordered again. `RootFirst`: nothing comes before the root;
- *ages*: a push makes every queued node one older, which does not wrap within
  `AgeBound` pushes (`AgeNext`), so that two nodes keep their order (`PrecedesNext`).
  That `push` compares only the values is sound because the new node is the youngest;
- *ranks*: the nodes differ and are totally ordered, so each place belongs to one node
  (`PlaceIs`). Without the root all others move up by one (`FirstPlace`), a new node
  goes behind all of at least its value and moves only those after it (`NewPlace`);
- *the ring*: `RingInv` says that `stopIndex` is as far ahead of `startIndex` as there
  are free slots, and that these differ from each other and from the slots in the heap.
  A counter that wraps at a multiple of the depth leaves its remainder as it is
  (`CountsWrap`).

`BufferInv` joins them. Then `Push` is `Put`, `Pop` is `Take`, and `PopTooSmall` is
`Requeue` of the abstract queue, and that the slot of a push is free is why it changes
no other queued message. What `HeapPopIs` and `HeapPushIs` say of every heap, TLC
evaluates on those of up to five nodes (`HeapOperations`).

**QueueProofs**, the buffer accumulator (from `AccumulatorAssumption`, which allows a
ring without places): `DrainsInOrder`. `RingOf` says where in the ring the i-th stored
buffer lies and where the next one goes, with a place that wraps at most once
(`Behind`) instead of a remainder; `EnqueueKeeps` and `DequeueKeeps` show that the two
helpers keep it. `Settled` splits what draining means by the flag: set, nothing is
stored; clear, a buffer is out whose return sends the next.

**QueueProofs**, the lockless queue (from `LocklessAssumption`: any senders, two nodes or
more): `LocklessIsSound`, the whole of `NothingLostOrMixed`. The inductive `LocklessInv`
adds what each thread knows while it is between two of its accesses:

- `SenderKnows`: a filled node has no next and holds its sender's message until it is
  published; `LinksNext`: a sender that is to link has read a node of the queue whose next
  is still empty, and its own comes next in it. No two of them have read the same node: the
  queue's nodes differ, so the link of one is never overwritten by another's;
- `ReceiverKnows`: the node given back has the link that the receiver read, so a swap that
  succeeds puts it before the head of the free list. The receiver's swap needs no more: it
  does not matter if the head came and went in between;
- `KnowsAlone`: what a single sender has read of the free list is still so, because the
  receiver only puts nodes before it. This is what two senders lack.

`SenderMoves` and `ReceiverMoves` take the steps that only look; `WriteApart` is the frame
of the writes into a node that is in neither list; each swap and `Link` has a lemma.

**MotorProofs**, the server with minimum duty (from `VescAssumption`): types, and
`DisabledIsAtRest`. `RestUnlessFailed` says it of every moment, also inside the critical sections:
each step that clears the flag, and each turn of the sender while it is clear,
writes zero, or fails and is the last write. `PaceIsPaced` is the arithmetic, NaN included.

**MotorProofs**, the bridge and its server (from `LinkAssumption`): `LinkIsKept` and
`OneLinePublished`. `LinkInv` adds to the types:

- `Wiring`: which of the two connections, the one in the backlog and the one being
  served, is the bridge's, for every pair of states of the processes;
- `UnconnectedIdle`: without a connection none is at the server either, and its duty is
  zero;
- `AskedIsLast`: the last of the lines under way with a duty carries the last one sent,
  and when there is none the server has it. Sending appends to these lines and the
  server takes their head; `LastDutyWins` is the case of no lines;
- `InOneLine`: cells on the wire that are as far apart as their places in a line were
  written for the same line, and those that stand so to what `println` has yet to write
  were written for the line it is in the middle of. It is what a write that the kernel took in pieces, an aborted line
  and a new connection must not break.

`ParsedLine` then says of a buffer with these properties that every reading of it is the
beginning of its first cell's line, and `RunReads` that the buffer `run` took is one:
`OneLineIsPublished`.

**CommandProofs**, the sequencer (from `SequencerAssumption`: any files, delays, timeout and
commands): `RunInOrder` and `OwedIsAnswered`. A handler is a chain of helpers, so the
invariant `SeqInv` is an operator on the component's state, and a lemma says of each
helper which part it takes and which it leaves (`LoadIs`, `ClearedIs`, ...):

- `BufferOK`: the read position lies in the buffer, and a stopped sequencer with a
  valid file has not begun to read it;
- `Waits`: an undisturbed run waits for a response or for a time, never for both, and
  what it will dispatch next comes after all that it has dispatched. This is what makes
  "once each, in order" inductive. `Rests`: a run that is over has left no timer;
- `Excused`: a failed assertion has one of the named excuses;
- `Answerable`: the command that is remembered is open, or the run is one that the model
  names stale; somebody joins only while a run goes on; nobody was answered twice. `Held`:
  it is the only open one that no later command replaced.

**FileDownlinkProofs** (from `DownlinkAssumption`): types, `OneAnswerEach`,
`InFlightIntact` and `AssertionsHold`, the last from the further assumption
`FilesFit`: no file reaches within one packet of 2^32. Three groups of invariants
carry it:

- *who is owed an answer* (`QueueInOrder`, `TimedOutIsOver`): requests are taken in
  the order they were made and the one in work is none of those queued, so that
  answering it cannot answer another;
- *whose a buffer is* (`ContextsTell`, `OneInFlight`): a buffer that timed out has
  an old context as soon as the next file is sent, and at most one buffer is out
  that did not; hence the memory is only written while the component owns it;
- *data is left* (`DataIsLeft`): while the next packet is a DATA packet there are
  bytes for it, unless the requested range wraps.

`FileIsSent` is `PacketsAreTheFile`, from `FilesFit` too. What a sent packet holds is
its place and its bytes, so the inductive invariant counts: `Numbered` says that packet
i bears the number i - 1, that the first is START, and that what is sent is never
followed by anything after END or CANCEL; `SentSoFar` that the bytes of the packets up
to here, one after the other, are those from the requested offset up to `byteOffset`,
and that the checksum is over just these. A data packet moves `byteOffset` by the bytes
it adds (`DataInGrows`, with `FlattenAppend`).

**CommandProofs**, the dispatcher (from `DispatcherAssumption`): `TablesAreKept`,
`StatusFindsItsCommand` and `ServiceSpec`, the refinement. A dispatched command is
known by its *label*: number, place among the submitted ones, opcode. The
component that executes it, its statuses and its slot all bear the label.

- `LabelsAgree`: two labels with the same number or the same command are equal;
  this makes the opcode assertion true of a repeated or late status;
- `LabelsOld`, `InOrder`, `BuffsAhead`: queued commands wait in the order of their
  submission, and `mSeq` stays behind them, so that a new number is new. This is
  where `MaxSubmits < SeqMod` is used: it keeps `mSeq` from wrapping;
- `SlotsDiffer` and `NoSlotLeaks`: a slot in use has its command under way;
- `Told`: nothing was told of a command that is still queued, and a refused one is
  at no component. This gives the steps of the refinement: each step of the
  dispatcher is a step of `CommandService` or leaves its variables alone.

That the first free slot is free needs the least number of a set of naturals:
`FirstFreeIsFree` takes it from the well-foundedness of `<`.

**ConnectionProofs**, the TCP driver (from `SocketAssumption`): `SocketIsKept` and
`TaskClosesTheDead`, for messages of any length. The task's step "close what I
found dead" is not safe by itself, as `m_fd` may have changed since. `IInv` says
why it is: only the task publishes connections, so while its status is bad there is
no living one.

**ServiceProofs**, the uplink path (from `PathAssumption`: any ring, pool, bytes and chunk size).
`BuffersAreAccounted`: `Holders` says that every allocated buffer is in the hands of
the deframer or of one receiver, or was dropped by a receiver that is gone, and
`Flags` that the pool's flags and its count agree with it; `FrameInRing` keeps
the frame under the packet in the ring until it is routed. `AssertionsCorrect` needs
in addition that the ring holds a frame header: then a turn takes at least one of
the bytes left (`TurnsAreLeft`), there is room whenever bytes arrive (`RoomIsLeft`),
and no buffer is returned with more than its size (`SizesFit`), so that nothing but
a frame without a buffer ends the process.

`StreamIsDeframed` is `DeframesTheStream`, for streams of any length, cut in any way,
and any hash, from the assumption that the ring holds a header. `StreamInv` says it of
all that may still come: for every continuation `more`, what was handed on and the
packets in ring, chunk and `more` are the packets of the stream and `more`
(`StreamKept`). Only in this form is it inductive: a frame that is not complete yet
has no packet, but one with the right continuation. What the ring may rely on is that
its front decides by itself, whatever follows (`FrontStays`): a bad one is passed over
by one byte, a good one is a packet and its rest. `Serialized` and `Rotates` show that
the ring, wrapped or not, is a sequence to which data is appended and from whose front
it is cut. A stream that ends inside a frame keeps the frame in the ring: that is the
case of no continuation.

**ServiceProofs**, the telemetry store (from `TlmAssumption`: any channels, hash function
and buckets that hold them): `SendsTheSwap`. `TlmInv` adds to the types:

- `Indexed`: the first `free` buckets of a table hold different channels, each in the
  chain of its slot; so a lookup finds one bucket at most, and a new channel finds a
  free one, by the pigeonhole principle (`BucketsAreEnough`);
- `Reflects`: the flags of the active table are exactly the channels written since the
  swap, with their newest values;
- `SentOrToCome`: of the other table, every channel that was new at the swap has either
  one packet and no flagged bucket that Run has still to visit, or no packet and one
  such bucket.

`Reflects` becomes `SentOrToCome` at the swap; TlmRecv then leaves the other table alone
(`UpdateKeeps`), so it does not matter how writes and Run interleave.

**ServiceProofs**, the rate groups (from `RateGroupsAssumption`: any dividers with the
rollover that `configure` computes from them, any members, queues and throttle):
`TicksAreCycles`. `OnTime` says that the tick counter modulo a divider is the group's
age, and `RolloverIsMultiple` why it stays so when the counter rolls over: every
divider other than 0 divides the rollover, as `NextTick` needs. (The divider of the first
step where it did not would divide the step before; so the proof takes the least one.)
`Flagged` says that the flag a thread will check was set by a tick on record, and that
an overrun is reported or the flag for it is still to be checked.

**ServiceProofs**, the packetizer (from `PacketizerAssumption`: any packets, channels,
levels and update mode): `LatestIsSent`, a property of steps. `Filled`: a call has
filled the packets of its channel but those in `toFill`, and the calls before it all of
them; `SentAsItIs`: a packet without the `updated` flag was sent with what it holds;
`Growing`: values grow from what was sent through what is filled in to the newest;
`FlagsAreDue`: why the flags of a packet are set.

**ServiceProofs**, the buffer log (from `LoggerAssumption`: any buffers, base names, size
field, size of file and base of a byte): `LogIsReadBack` is `LogReadsBack`. It is a
statement about two loops, the writer's and the reader's:

- `SizeIsRead`: the digits that `writeSize` shifts out, lowest first, give the size again
  to a reader who takes them highest first, if the last shift leaves nothing;
- `Encodes` says of a file, without reading it, where each record begins and that its
  size and bytes are there; `ReadsBack` that the reader finds just these records, by
  induction from the last one, and `OneMoreRecord` what a write at the end adds;
- `Kept`, the inductive invariant: what was logged is parted among the files of the base
  name in order, each file encodes its part, and the next byte goes to the end of the
  newest. A file's name is never that of an earlier one (`NamesDiffer`), so a write
  leaves the others as they are. A file that is longer than `maxSize` holds one record,
  because it was empty before (`EmptyFile`).

A handler makes several calls on the file, so `Sound` is an operator on its record, and a
lemma says that each call leaves it sound (`OpenKeeps`, `WriteBufferKeeps`, ...).

**ServiceProofs**, the parameter database (from `PrmAssumption`: any parameters and values,
a table of any size that is not empty): `SavesAreLoaded` is `LoadIsSound`. A load follows
the cells of the file from record to record, whatever they are; `PrmInv`, the inductive
invariant, says what it can meet:

- `Packed`: the entries in use are the first ones of the table. So the n-th record of a
  save is that of entry n, and a start puts it back there (`WholeIsRead`);
- `Saving`: while a save runs, what the file begins with and the writes to come are
  together the cells of the table. When none is to come, the file begins with all of
  them, which is `WholeSave`, and it stays so until the next save;
- `SoundFrom`: wherever a record can be read behind the place that is being written, it
  holds a value that its parameter was given, or there is a place within it where a save
  was cut short (`torn`). A write moves that place on over cells of the table; where
  a save ends early, that place becomes torn.

`LoadShape` says, by induction over the turns of the loop, where each entry of the table
comes from: a record of its own, the records in order without overlap, and after the last
one at most one entry whose value was not read. Hence `DamageIsBounded`: a parameter with
a value that it was never given has a torn place in its record or is the one that met a
read error, and as records do not overlap, no two have the same (`OddAreCounted`, by an
injection).

**HealthProofs** (from `HealthAssumption`: any table, thresholds, commands, queue depth
and key width). `PingsMatched`: what a component that returns each ping once has to
return is in one place, with the component or in the queue, with the key that its
entry expects, or nowhere when the entry counts nothing (`Awaited`). Only its own
return and a check that finds nothing under way change the key, so the width of
the key does not matter: a wrapped key is still the one that is awaited. And
`NoneFalselyLate`: `Prompt` says that a return that a Run found queued is still among
the messages that this Run will take, or has been taken and the entry counts nothing.

**Only model-checked.** Liveness and everything else under fairness, which the
prover does not do: `DisabledComesToRest`, `TaskGoesOn`, `BothWaysFlow`,
`EveryCommandEnds`, `AutoEnds`, `RequestIsAnswered`, `UrgentIsDelivered` and
`SilenceIsReported`. And one safety property, `QuietFileIsWhole`, which is not true of
every checksum, as two prefixes of a file may have the same one.

## 5. Where the code and its documents disagree

Five of these are runs that must end in a violation (the `findings` of
`PROJECT.json`). The others were met while modelling: each was a violation of the
property named, which is now stated with the exception it needs, so that it still
says something about all other cases. Removing the exception shows them again.

Motor control

- *Stop locks the server up.* `vesc/vesc_tcp_server.py:122` calls `force_stop`
  with the non-reentrant lock held; line 4 promises "Enable/disable/stop safety".
  Run `vesc_stop`.
- *STOP is not understood.* `Stage9MotorBridge.cpp:99` sends `stop=0.000000`, the
  server knows `stop` (`julia_vesc_server.jl:86`); `Architecture.md:24` lists STOP
  under safety. Run `motorlink_stop`.
- *One stale duty after a stop.* `vesc_tcp_server.py:64` sends outside the lock what
  it copied inside; line 7 says "STOP always forces duty = 0 immediately".
  `AtMostOneStaleSend` bounds it by one.
- *A joined stop is swallowed.* `vesc_tcp_server.py:102` takes one `recv` for one
  command. In the model such a chunk is answered as an error or an unknown
  command.
- *Exit at speed.* `vesc_tcp_server.py:164` ends without a zero duty, after printing
  "Shutting down safely...".
- *A new bridge finds the motor running.* `julia_vesc_server.jl:111` goes back to
  accept with its duty; `Architecture.md:26` says otherwise.
- *Telemetry as zeros.* `Stage9MotorBridge.cpp:49` parses whatever one `recv`
  returned. A read that begins inside a line is published as zeros, one that ends inside
  it as the first fields, a number perhaps cut short, and zeros for the rest: a moving
  motor can be reported at rest. `OneLinePublished` says that nothing worse happens.
- *A bridge and a server that wait for each other.* `Architecture.md:25` lists
  "Non-blocking socket" under Safety. `Stage9MotorBridge.cpp:109` calls `send` without
  flags on a socket that blocks. If `run` is handled by the commands' thread, a command
  that waits for room reads no telemetry; the server, which reads a command only between
  two telemetry lines, waits in `println` (`julia_vesc_server.jl:102`) for that
  telemetry to be read. `Interlocked` is that state. TLC reaches it with `shared`, and
  `BothWaysFlow` excepts it; without the exception its parts are violated. With `run` on
  a thread of its own commands always return. The buffers of a real connection hold many
  lines, so this needs a bridge that sends faster than the server's 20 Hz for long.
- *The Julia server as a script* fails in its first turn (`julia_vesc_server.jl:84`,
  assignment to a global in soft scope); `TelemetryFlows` (in
  `BothWaysFlow`) is stated for an interactive server.

Commands and sequences

- *CMD_CLEAR_TRACKING is never answered*: it clears its own entry
  (`CommandDispatcherImpl.cpp:187`). `EveryCommandEnds` counts it as forgotten.
- *A file that failed its checks runs*: `CmdSequencerImpl.cpp:347`. Run
  `sequencer_invalid`.
- *A later command takes the place of one that waits*: CS_JOIN_WAIT (`:238`), and
  in manual mode CS_RUN and CS_START, overwrite whom to answer; the first is
  never answered. History `overtaken`.
- *A blocking CS_RUN whose file does not load is answered twice* (`:106`): the block
  mode stays set for the next run. History `stale`. *So is one of a sequence whose first
  record is END_OF_SEQUENCE*: the sequence is over inside `performCmd_Step` and the
  caller has its answer, after which `:128` finds the block mode cleared and answers
  again. The proof of `OwedIsAnswered` met this one; `AnsweredOnce` excepts both.
- *A response of a cancelled run counts for the next* (`:302`), and *CS_STEP in
  automatic mode, before a response or past the end* (`:330`, `:368`, `:369`)
  sends early, repeats a record, completes early or fails an assertion. History
  `disturbed`.
- *A valid file without records* loads and then fails an assertion (`:122`).
  `NextRecordSucceeds`, a part of `RunInOrder`, excepts it.

Framework

- *Ring counters wrap* (`PriorityBufferQueue.cpp:48`): with a depth that does not
  divide 2^32, the first wrap hands out a slot that is in use (`IndexMod = 4`,
  `Depth = 3` shows it).
- *Ages wrap* (`MaxHeap.cpp:236`): a message queued for a whole turn of the push
  counter counts as the youngest (`AgeBound` of at least `OrderMod` shows it).
- *A receive into a small buffer* moves the message behind those of its priority
  (`PriorityBufferQueue.cpp:167`; `Requeue` in `PriorityFifo`) and, if its thread was
  woken for it, loses the wakeup (`Queue.cpp:298`; `wasted`).
- *A pop may free a node that is in use* (`LocklessQueue.cpp:83`): between the read of
  the head's next node and the swap, other threads may take the head, use it and give it
  back; the swap then succeeds with the old next. Two senders and two nodes are
  enough. `NothingLostOrMixed` holds until then, and always with one sender.
- *send blocks* on a full queue with any mode but QUEUE_NONBLOCKING
  (`Queue.cpp:199`).
- *Equal or lowered thresholds silence Health* (`HealthComponentImpl.cpp:114`,
  `:202`): thresholds are compared with `==`, fatal only if not warning.
  `SilenceIsReported` is stated for different, unchanged ones.
- *Overruns of a queued cycle are not reported* (`ActiveRateGroup.cpp:66`): a tick
  that comes before the handler has begun is forgotten. `OverrunsAreReported` is
  stated for later ones.

File transfer, parameters and the uplink path

- *A late buffer ends the process*: `FileDownlink.cpp:203`, where the comment at
  `:196` promises to ignore it. Run `downlink_late`.
- *A cancelled file may wait for ever*: only WAIT has a timer
  (`FileDownlink.cpp:132`); a buffer lost after the cancel leaves the component in
  CANCEL with every later request queued. `Stranded` names it.
- *A range that wraps* (`:366`): offset and length are added in 32 bits; the file
  then starts past its end and an assertion fails. `AssertionsHold` names it.
- *A file that became shorter* while it is sent fails an assertion (`halted =
  "read"`).
- *A memory is reused after a timeout* (`:557`): the old buffer may still be with
  its receiver, with the next file's packets under it. `InFlightIntact` excepts
  buffers that timed out.
- *A failed load leaves a valid entry*: `PrmDbImpl.cpp:339`. Run `prm_torn`.
- *A save overwrites the old file from its beginning* (`PrmDbImpl.cpp:132`, `:150`)
  and never cuts it off: after a crash in it, old and new records meet.
  `LoadIsSound` bounds the damage (`DamageIsBounded`): a start gives at most as many
  parameters a value that they were never given as there are places in the file where a
  save was cut short and which no later one wrote over (`torn`), and one more if it meets
  a read error. Two of them can indeed be wrong: the run reaches a start after two cut
  saves, the second shorter than the first, that finds a spoilt record where each ended.
  There is no such bound when a saved value has a piece that reads as a field, because the
  rest of it may then be a record by accident (`plain`). Such values need not come from a
  component: a value that is half of one save and half of another may have the fields of
  a record in it, and the next save writes it again.
- *A buffer that comes back with size 0 stays allocated*
  (`BufferManagerComponentImpl.cpp:95`). A frame without a packet, or a file packet
  of nothing but its type (`Deframer.cpp:159`), costs the pool a buffer; when there
  is none left, an assertion ends the process. `dropped` holds them.
- *END does not name its file* (`FileUplink.cpp:150`): when everything from one START
  to the next is lost, the second file is stored under the first one's name, and
  no warning is issued if numbers and checksum fit. Bytes of an old, longer file
  stay behind it. `QuietFileIsWhole` is stated for the bytes that were sent.

Telemetry packets, logs and buffers

- *Not all packets*: `TlmPacketizer/docs/sdd.md:18` (TPK-005) lets a Run write all
  packets; it writes those up to the level that changed or were asked for, in the
  mode of the default configuration. `LatestIsSent` is the code's promise.
- *A new log need not be empty*: the files of a base name are opened without
  truncating (`BufferLoggerFile.cpp:151`), a name counts from 0 again after each
  BL_OpenFile, and the second file of `a` is the first of `a1`: new records lie over
  old ones and the rest of the old stays behind. `quiet` names it.
- *A failed write is not undone* (`BufferLoggerFile.cpp:174`): when the size is written
  and the buffer is not, all that follows in the file is read out of step.
- *Sizes are cut off* (`:187`): a buffer longer than its size field can say is written
  whole, under the low digits of its size. An empty buffer fails an assertion
  (`:204`).
- *ACCUMULATE does not hold*: a buffer that returns sends the next one in either
  mode (`BufferAccumulator.cpp:111`); BA_SetMode to DRAIN sends one while another is
  out (`:146`).
- *A buffer that finds the ring full* is neither stored nor given back
  (`BufferAccumulator.cpp:93`); its owner has lost it. `dropped` holds it.

TCP driver

- *send closes whatever connection there is* (`IpSocket.cpp:155`): by the time it
  does, that may be a new one, and the pieces of one message may go to two
  connections. `TaskClosesTheDead` is therefore about the read task only.
- *An interrupted read* leaves the size -1 in a buffer that is sent on
  (`SocketReadTask.cpp:88`); returned to static memory, it fails an assertion.
- *A stop does not wake a server's accept*: `stopSocketTask` sets the flag and closes
  the connection, not the listening socket. `StopEnds` asks for the shutdown too.
- *SIGPIPE*: `SOCKET_IP_SEND_FLAGS` is 0, so that a write to a connection that is gone
  ends the process unless the deployment ignores the signal.

## 6. What is not modelled

`PROJECT.json` lists every component with the reason.

- *Framing* (`Framer`, `UartFramer`): no state between packets.
- *Loggers other than BufferLogger* (`ActiveLogger`, `ComLogger`, text loggers): file
  output and filters; `ComLogger` rotates its files as `BufferLogger` does.
- *UDP, serial and device drivers, file manager, OS layer*: system calls with
  little control of their own.
- *Serialisation and base types* (`Serializable`, `PolyType`, strings): conversions of
  data that the models abstract; bytes and formats appear only where a property is
  about them (deframing, checksums, the parameter file).
- *Autocoder, build files, tests, generated topologies, CMake's compiler probes*: they
  do not run in the deployment, or contain no logic. They make up most of the
  repository's lines; so the map, which names only lines that a definition
  translates, covers a small part of the whole.
- *Other Stage9 servers and clients*: earlier or thinner versions of the modelled
  ones.
- In modelled components, event text, telemetry values, pings (other than
  Health's) and byte formats are left out.

## 7. Plan

Done: the motor servers and the bridge, the TCP driver, commands and sequences, the
queues, Health, rate groups, file transfer in both directions, the uplink path with its
buffers, the parameter database, both telemetry stores, the buffer log, the buffer
accumulator and the lockless queue; proofs for the hard-safe and minimum-duty servers,
the bridge and its server, the message queue and the buffer queue under it, the
accumulator, the lockless queue, the dispatcher and its refinement, the sequencer, the
file downlink, the read task, the uplink path's buffers and assertions, both telemetry
stores, the rate groups, the parameter database, the buffer log, and Health's pings and
late returns.

Left, in this order:

1. A composition of `CmdSequencer` with `CommandService`: the sequencer as one of the
   sources, statuses as its responses; and of `FileDownlink` with a receiver that
   shares a buffer queue with others.
2. `ComLogger`, with file names made of time tags; `ActiveLogger`'s filters.
3. An abstract file transfer that `FileUplink` implements where nothing is warned of.
