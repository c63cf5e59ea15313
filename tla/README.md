# RirePE in TLA+

RirePE is a DLL loaded into a game client. It hooks the functions that build,
send, receive and read the game's network packets, logs each of them to a
monitoring client over TCP, and injects packets such a client hands to it. This
directory models the parts of the DLL in which several threads meet, checks
them with TLC, and proves the most important facts about them with TLAPS.

1. [The system](#1-the-system)
2. [What is hard about it](#2-what-is-hard-about-it)
3. [The modules](#3-the-modules)
4. [The runs](#4-the-runs)
5. [The proofs](#5-the-proofs)
6. [Where the code and its documents disagree](#6-where-the-code-and-its-documents-disagree)
7. [What is not modelled](#7-what-is-not-modelled)
8. [Plan](#8-plan)

## 1. The system

Paths are relative to `src/`. Four kinds of threads run the code: the game's own
threads, on which every hook runs; the game's window thread, whose timer runs
the injector; the worker of the packet queue; and one TCP thread per connection,
besides the accept loop. The thread that loads or unloads the DLL runs
`DllMain`.

| component | source | state | operations | modelled by |
|---|---|---|---|---|
| buffer pool | `Packet/PacketQueue.cpp` 10-70 | 256 buffers with `in_use`; heap blocks beside them | `Allocate`, `Free` | `PacketQueue` |
| packet queue | `Packet/PacketQueue.cpp` 72-300 | `packet_queue`, `running`, `wake_event`, a response event per blocking packet | `QueuePacket`, `QueuePacketBlocking`, `ProcessQueue`, `Start`, `Stop` | `PacketQueue`, abstract: `PacketChannel` |
| packet logging | `Packet/PacketLogging.cpp` | `packet_id_out`, `packet_id_in`, `packet_tracking_map` | `AddExtra`, `AddExtraAll`, `AddSendPacket`, `AddRecvPacket` | ids, tracking, order of the messages: `PacketLog`; how one is made and pushed: `PacketQueue` |
| hooks | `Packet/PacketHook.cpp` | the game's packet objects | `SendPacket_Hook`, `ProcessPacket_Hook`, `COutPacket_Hook`, `Encode*`, `Decode*` | what they log: `PacketLog`; how they get there: `HookInstallation` |
| injection queues | `Packet/PacketSender.cpp` 65-448, `Packet/PacketDefs.h` | `queue_configs`, `packet_queues`, `incomplete_groups`, the injector's local lists | `RegisterQueue`, `UnregisterQueue`, `ClearAllQueues`, `PacketInjector` | `InjectionQueues`, abstract: `InjectionSchedule` |
| injection timer | `Packet/PacketSender.cpp` 450-516 | `bInjectorCallback`, the timer, `injection_queue_initialized` | `SetCallBackThread`, `SearchMaple`, `CreateWindowExA_Hook` | `InjectorStart` |
| TCP commands | `Packet/PacketTCP.cpp` 68-276 | none of its own | one handler per message type | their effects: `InjectionQueues`, `InjectorStart` |
| client sessions | `Packet/PacketTCP.cpp` 14-18, 68-75, 278-359, `Share/Simple/SimpleTCP.cpp` | `current_client`, the `TCPServerThread` objects on the threads' stacks | accept, `TCPCommunicate`, `SendPacketDataTCP` | `ClientSessions` |
| framing | `Share/Simple/SimpleTCP.cpp` 15-43, 64-125 | bytes on the wire | `Send`, `Recv`, `RecvExact` | `Framing`, abstract: `MessageChannel` |
| Python clients | `packet_monitor.py`, `tcp_inject_example.py` | receive buffers | `recv_message`, `send_message`, `_recv_exact` | `Framing` |
| start-up, configuration | `Packet/DllMain.cpp` | `gHookSettings`, globals read from the ini file | `DllMain` and what it calls | start and shutdown of the queue: `PacketQueue`; when the hooks and the injector start: `HookInstallation` |
| function hooking | `Share/Hook/SimpleHook.*` | patched machine code | `SHookFunction` | the order of its writes: `HookInstallation` |
| memory scan | `Share/Simple/SimpleMemory*.cpp`, `Packet/AobList.h` | none | `AobScan` | its outcome is a constant of `HookInstallation` |
| pipes, DLL injector, GUI, files | `Share/Simple/` | | | no, see section 7 |

How they interact:

    game threads --hooks--> PacketLogging --QueuePacket[Blocking]--> AsyncPacketQueue
                                                                          |  worker
                                                                          v
    clients <--frames-- TCPServerThread::Send <--current_client-- SendPacketDataTCP
    clients --frames--> TCPServerThread::Recv --> TCPCommunicate --+-- RegisterQueue ...
                                                                   +-- incomplete_groups
                                                                            |
    the game <--InjectSinglePacket-- PacketInjector (window timer) <-- packet_queues

What makes each of them correct:

* *Pool and queue.* No two holders of a buffer; a buffer is in use exactly while
  somebody holds it; the worker sends the bytes the hook wrote, in the order of
  the pushes; a blocked game thread is let go; a shutdown ends.
* *Logging.* A packet is logged once, with all its fields and no others; they
  carry the packet's id and none other does; outgoing ids are even, incoming ones
  odd.
* *Injection.* A group is injected whole, in order and not mixed with another
  of its queue; interval and delays are kept; nothing taken is lost unless a
  client says so; a queue gets its turn as long as ticks have room for it; a
  removed queue stays removed.
* *Sessions.* `current_client` never dangles; the last client to connect is the
  one served; a client that leaves takes nothing from the others; each client has
  one turn, in which it misses only packets whose send failed.
* *Framing.* What `Recv` returns is what `Send` was given, however TCP splits it.
* *Installation.* The game runs on while its functions are overwritten; no packet is
  logged twice, and none is missed once the hooks are in.
* *Injection timer.* One timer, which gets installed; the queues' critical section is
  initialised before anybody is inside.

## 2. What is hard about it

`PROJECT.json` lists every hazard at its line with the properties that cover it.
The ones that shaped the models:

* `PacketInjector` works in two critical sections per group with the injection
  between them, on copies; a client's command may come in between, and it reads
  the clock before it waits for the lock.
* The tick count is a DWORD: elapsed times are differences modulo 2^32, deadlines
  are compared as plain numbers.
* The pool has a fallback to the heap, on two conditions, and every path that
  ends a packet must tell the two kinds of buffer apart by the index -1.
* The worker loses its wake-up (the event is auto-reset and the batch is
  limited) and is saved by the 10 ms timeout of its wait.
* A blocking hook waits without a timeout while the worker, `Stop` with its 5 s
  timeout, and the failing `CreateEvent` decide whether anybody answers.
* `current_client` points to an object on the stack of another thread and is
  used after its lock was left.
* Fields of an outgoing packet wait under the address of an object the game uses
  again and again; the packet ids are counted by several threads without a lock,
  and read again for every message.
* A reader of the TCP stream knows where a message starts only from every byte
  before it: a short `recv`, a time-out or a failed `send` inside a frame would
  have it take data for a header.
* The hooks go in one after the other, each in several writes, into a game that is
  running, and each relies on pointers set by others before or after it.
* Two threads look for the window to put the timer on, and every first user of the
  critical section initialises it: both are tests that are followed by a set.

## 3. The modules

Each detailed module says in its header what a step is. Names are the source's.

### `PacketChannel` and `PacketQueue`

`PacketChannel` is what the queue promises the hooks: a first-in first-out
channel, with callers that wait until their packet is out, and a close that may
lose what is inside. `PacketQueue` is the code. A step is what a thread does
between two points at which another can run: each critical section is one step,
and so is each event operation, the filling of a buffer, and the send.

| code | model |
|---|---|
| `buffers[i].in_use`, `buffers[i].data` | `in_use`, `data` (the packet last written there) |
| `new BYTE[]` / `delete[]` | `heap`, the set of packets whose block is live |
| a game thread in `AddExtra`, `AddSendPacket`, `AddRecvPacket` | `pc[t]`: `filling`, `create_event`, `push`, `notify`, `waiting` |
| the handle in `QueuedPacket::response_event` | `response_event[t]`, one per thread: a thread blocks on one packet at a time |
| the worker in `ProcessQueue` | `worker`: `loop`, `wait`, `batch`, `pop`, `send`, `free`, `signal`, `exited`; `none` when `CreateThread` failed |
| `~AsyncPacketQueue`, `Stop`, `ShutdownPacketQueue` | `stop`, one step per effect |

The bytes of a packet are abstracted to its name, thread and number; `fits` stands
for the test against `BUFFER_SIZE`. `sent` is a history variable. A send that
fails is like one that succeeds here: the code neither retries nor answers
differently. What happens to a packet after `SendPacketData` is the business of
`ClientSessions`. A thread that would use a deleted queue or pool takes no
further step: nothing can be said of it.

### `InjectionSchedule` and `InjectionQueues`

`InjectionQueues` is the code: the three tables, the client's commands (each one critical section, hence one
step), and `PacketInjector` step by step: `TimerFires` reads the time before the
lock, `Scan` is the first critical section (which queues are ready, sorted by
interval, at most `MAX_QUEUES_PER_TICK`, their fronts made active), `Stamp` takes
the time written into next deadlines, `Inject` injects one packet outside the
lock, and `WriteBack` is the second critical section, through `operator[]`.
`clock` is the real time; the code sees `clock % TickModulus`. `TickModulus` is
2^32 in the code. `std::map` tables are functions on the names; `queue_configs`
has the names it has, and the other two are total, with an absent entry read as
an empty one, which is what every reader of them makes of it.

`epoch`, `registered`, `accepted` and `injected` are history: how often clients
changed a name, since when they want it, what was taken and what was injected.

These histories make the supply of packets finite, and with a finite supply no queue
can starve. `InjectionSchedule` is what is left when times, packets and histories are
taken away: of a queue its interval, the number of its waiting groups and whether one
is active, and of a tick the set of queues it finds ready, which are served by interval, the
first `MAX_QUEUES_PER_TICK` of them. Its clients never run out. `InjectionQueues`
implements it (`ImplementsSchedule`, with a refinement mapping; `Stamp` is a stutter).
`ready` is the set that the scan would find with the time the injector has
read; a command or a write-back changes that of its own queue only.

### `ClientSessions`

One thread per connection (`none`, `accepted`, `serving`, `leaving`, `returned`,
`gone`), `current_client`, and the worker's `SendPacketDataTCP`, whose copy of the
pointer and whose send are two steps because the lock is left in between. A send
through the pointer to a destroyed object has every outcome the build can
produce: the memory is another connection's stack by now and the bytes go there;
the socket it names is closed and the send fails; or the process dies. `Break` is
the environment: the peer or the network ends a connection at any time. `SendFails` is
possible on every connection, a live one included: `SendPacketDataTCP` logs the failure and
goes on, the client stays `current_client`, and the next packet is sent to it. `received`,
`failed` (what a connection missed because its send failed), `strayed` (connections that got
bytes meant for a destroyed object) and `order` are history.

### `PacketLog`

What the hooks log and under which ids. A packet goes out in the steps
`COutPacket`, `Encode`, `SendPacket` (the hook, up to the end of `AddExtraAll`'s
critical section), `AddExtra` for each field, `AddSendPacket` (the message itself),
`LoadOut` and `StoreOut` (`CountUpPacketID`), on 64 bit `LoadOut` and `StoreBumped`
(`packet_id_out++`), and `CallOriginal`. A reception is `ProcessPacket` (the load of the
id), `StoreIn`, `AddRecvPacket`; then the thread is in the game again, with the packet
on its stack `receiving`, where it may decode, send, or enter `ProcessPacket` once
more; and `ProcessPacketReturns`. An increment of a global DWORD is a load and a
store, because nothing makes it one; the load and the push of a message's id are one
step, since only its order in the queue could differ.

| code | model |
|---|---|
| `packet_tracking_map` and its entries | a function on the addresses, absent entries empty |
| an `OutPacket` at an address | `owner`, the thread using it, and `build`, the packet in it |
| return address equal to `uEnterSendPacket_ret` / `uSendPacket_EH_Ret` | `route`: the packet's outer hook is `EnterSendPacket`'s |
| messages in the order of their pushes | `log` |

Merged: `ClearQueue` and `AddQueue` in `COutPacket_Hook` (only the thread that owns the
object touches its entry), and the two messages of a decoded field. Every packet is
let through: `bBlock` is false whenever the hook has it. `ip->unk2` is 2, other
packets pass unlogged. An injected packet takes the same path, since
`InjectSinglePacket` calls the hooked functions. A message dropped for want of memory
is in `PacketQueue` only. `early`, `overlapped` and `overtaken` are history and name
the packets a property has to take out: begun before `InitTracking`, sent while
another thread was sending, received while another reception was going on or began.

### `MessageChannel` and `Framing`

`MessageChannel` is what a connection promises its two ends in one direction: messages
come out whole, in order, each once, until the reader gives up. `Framing` is the code on
both sides: `Send`, which loops over `send`, and `Recv`, which reads magic word, length and
data through `RecvExact`. Each call of `send` or `recv` is a step that moves any number of
bytes; what is done up to the next call is local and belongs to the step.

| code | model |
|---|---|
| the stream between the sockets | `written`, all of it, with the reader's place in it `start + total_received` |
| a DWORD of the header | a word of `WordSize` bytes, `Value` the number it stands for |
| the field `RecvExact` is reading | `phase`, with `start`, `total_received` and `length` |
| `1024 * 1024` | `MAX_LENGTH`, tested by readers, not by senders |
| `closesocket`, the process ends | `Close`; what was written can still be read |
| the connection breaks | `Reset`; what was not read is lost |

Two readers are modelled: the one of `SimpleTCP.cpp`, which `packet_monitor.py` repeats line
by line, and `tcp_inject_example.py`, which reads the header at once, has no limit on the
length, and whose `recv_message` may time out, also inside a frame. It then returns `None`,
upon which the program leaves its loop; so a time-out ends the reading in the model
too. Its header of 8 bytes is read as two fields of which the first is looked at with the
second. A `send` that fails while the connection lives on is possible because nobody closes
the connection for it; it sets the history variable `torn` when part of a frame is out.
`sent` counts a message from the step in which `Send` has handed over its last byte.

### `HookInstallation`

One thread runs `PacketHook_Thread` or `PacketHook_Conf` (`installer` is the step it is at)
while the game's threads call the functions that are being hooked. `image` says of each
function what this build of the game has there, which is what the scans and the
decoder find out: `missing`, `unhookable` (too short or not decodable), `hot` (room for a
short jump only) or `plain`. `Hook` is `SHookFunction`: the pointer to the copy, then the jump;
the jump of a hot patch on Win32 is one aligned word, every other one is
written in pieces, with the function `torn` in between.

A thread's call goes `entry` (about to execute the first instruction), `prologue` (past
it, but within what a jump overwrites), `hook`, `stub` (the machine code
`bEnterSendPacket` on Win64), `body`, `returned`. A thread that executes half a jump,
an unfilled stub, a null pointer or a copy that is not filled yet stops in `torncode`, `nostub` or
`nopointer`: the code gives it no other outcome that could be described. `InjectSinglePacket` calls
`COutPacket_Hook` first, on Win32 too, where its pointer is set before the copy is filled (`CopyBeingFilled`). `dropped` is the one refusal the code has
(`_EnterSendPacket_Original == NULL`). `CallTarget` and the calls the functions make
themselves are the game's. `logged` counts the log entries of the call, `late` says that it
began when the installation was over.

The hooks of `Encode*` and `Decode*`, the variants `SendPacket_2`, `COutPacket_2` and
`COutPacket_3` for old clients, and the values of the addresses are left out. `InjectorRuns` is the
loader lock: without `USE_THREAD` the hooks go in while `DllMain` runs, and no new thread
starts before it returns.

### `InjectorStart`

The polling thread, the hook of `CreateWindowExA` and the windows they find; then the
first uses of `injection_queue_cs`, by timer callbacks and clients. Every test and
every set is a step. The order of windows is abstracted to the one in `front`, because
`SearchMaple` ends the enumeration at the process's first window whatever its class.
`SetTimer` is taken to work for a window of another thread, and to fail for one that
is gone. A critical section that nobody initialised is all zero, and the thread
that enters it does not come out (`lost`); initialising it again forgets its owner, and leaving it as a
stranger frees it or breaks it (`STUCK`). `together` and `first_together` are history: two threads
tested the flag before either set it. `OneTimer` is what allows `InjectionQueues` to have
one injector, and `Exclusive` what allows it to take its critical sections as steps.

### How the modules fit together

`Send` of `PacketQueue` is the call that `ClientSessions` takes apart into
`LoadClient` and the outcomes of the send; an entry of `log` in `PacketLog` is a
`Push` of `PacketQueue`, whose order `SentInThreadOrder` and `ChannelSpec` carry to the
client; what a client thread does between two
`Recv` of `ClientSessions` are the actions of `Client` in `InjectionQueues`. `LoadClient`'s send
is a `Send` of `Framing`, and a connection of `ClientSessions` two instances of `Framing`, one
for each direction. `HookInstallation` ends where `PacketLog` begins, with the hooks in;
`InjectorStart` establishes what `InjectionQueues` assumes. The modules that meet do so in
one call of one thread or one after the other, and the others share no variable, which is
why they are checked apart.

The MC modules give the constants values and the symmetry; definitions written as
`Mutant:` before the operator they vary are plausible bugs, each of which breaks
one of the properties under the very run that checks it, which shows that the
property can fail.

## 4. The runs

Run them as `tlc -config X.cfg M`. None checks deadlock: in each system
everything may stop (no more packets within the bound, everybody disconnected,
the DLL unloaded, the game crashed).

| run | what it shows | bounds |
|---|---|---|
| `queue_safety` | `ExclusiveBuffers`, `InUseIsHeld`, `HeapIsHeld`, `ContentIntact`, `SentInThreadOrder`, and that `PacketQueue` implements `PacketChannel`, with hooks, worker and shutdown in every order | 2 threads with 2 packets each, 2 buffers, batches of 1 |
| `queue_liveness` | a packet pushed is sent, a blocked caller released, the worker ends after `Stop` | 2 threads with 1 packet each, 1 buffer, batches of 1 |
| `queue_shutdown` | violated: `CleanShutdown` | 1 thread, 1 packet |
| `injection_safety` | `IndexInBounds`, `InArrivalOrder`, `AtomicGroups`, `IntervalRespected`, `DelayRespected`, `NothingLost`, and that `InjectionQueues` implements `InjectionSchedule` | 2 names, groups of 1 and 2, 3 packets, 2 commands per name, 4 ticks to a wrap that happens after 2 |
| `injection_schedule` | `QueueIsServed` with clients that never stop | 3 names, 2 intervals, 2 places per tick, 1 waiting group per queue beside the active one; any number of groups, commands and ticks |
| `injection_removed` | violated: `UnregisteredIsGone` | 1 name, 2 commands |
| `sessions_safety` | `CurrentIsAlive`, `LatestIsCurrent`, `OneTurn` | 3 connections, 3 packets |
| `sessions_dangling` | violated: `SendsToLiveObject` | 2 connections, 1 packet |
| `log_safety` | `FormatsComplete`, `OutgoingIds`, `IncomingIds`, on 64 bit | 2 threads, 2 objects, 2 packets out and 2 in but 3 in all, 2 fields built and 1 decoded per packet, receptions 2 deep |
| `framing` | `Faithful`, `NothingLeftBehind`, that `Framing` implements `MessageChannel`, and `Arrives` | both readers, 3 messages out of 3, words of 2 bits, a limit of 2 |
| `hooks` | `LoggedOnce`, `CrashesForACause` | 1 game thread, which is also the injector's; both builds, all settings, all 256 images; any number of calls |
| `injector_start` | `OneTimer`, `Exclusive`, `LostForACause`, `InjectionStarts` | 2 game windows, 1 other window, 1 client; any number of ticks and commands |

Why the bounds are enough to be of interest. In `queue_safety` four packets meet
two buffers, so that the pool is exhausted and reused, oversized packets come
beside it, and each batch ends with packets left; two threads give every pair of
holders a buffer can have (two hooks, a hook and the queue, either and the
worker). In `queue_liveness` a pool of one makes one of the two packets a heap
block, and a batch of one makes the worker depend on its timeout. In
`injection_safety` two commands allow a name to be registered, then removed or
registered anew, at any point of a tick; three packets are a group of two and
another group; the clock passes the wrap while groups are active. In
`injection_schedule` three queues for two places are the smallest number that lets one
be left out, by others of a shorter interval or of the same, while one place is
free for it; supply and time have no end, which is what starvation takes. In the session
runs three connections are an older one, the current one and a newer one. `LoggedOnce` of
`PacketLog` is not among the properties of `log_safety`: that a packet is logged once follows
there mostly from the order of the steps, and for all parameters it is proved
(`PacketsLoggedOnce`); the return addresses by which the nested hooks tell each other apart are
checked in `hooks`. In
`log_safety` three packets are two that overlap, or a pair, and a third of the other
direction before, after or within them; two objects and two threads let an address be used again by the other thread
while the first one sends; 64 bit has every step 32 bit has and one more.
In
`framing` one message is above the limit, one is the magic word itself, and three fill the
stream with frames whose parts look like each other; every cut of the bytes is possible. In
`hooks` one thread is enough for TLC, since threads only read what the installer
writes. In `injector_start` two windows and the polling thread are the three that can be
between a test and a set, and a client with the two window threads the three that can be first inside;
with two clients TLC finds no error either (2.2 million states).
The proofs of section 5 remove the bounds for the properties they cover.

### Fairness

`PacketQueue!FairSpec` is weakly fair to the worker, to each hook thread once it
has begun a call, and to `Stop` once it has begun, except that the 5 s of its
wait need not run out before the worker has ended. The justification: the
operating system schedules runnable threads, critical sections are held for a
few instructions, and the worker's wait is bounded by 10 ms. No hook is obliged to log, and nobody to unload the DLL. `Send` is covered by the
worker's fairness: the properties hold as far as `send` returns; a client that
keeps its connection and reads nothing can hold the worker, which the model says
nothing about except in `StopJoinTimeout`.

`InjectionSchedule!FairSpec` is weakly fair to `PacketInjector`: the timer was set with a
period of 10 ms and the window handles its messages. And for each queue it says that
either clients change it for ever (`Changes`), or, if it has a group whenever the timer
comes, the timer finds it ready again and again (strong fairness of `TimerFinds`). This is
what is left of the times: interval and delays are finite, so that a queue that nobody
changes is ready when they have passed, and stays ready until it is served. Clients are
under no obligation, and neither is the timer to find two queues ready together or apart.
The one exception in the code is a value within one timer period of 2^32: a deadline just below
the wrap, or an interval that long, may be passed over between two ticks, and is waited for
another 49.7 days. `InjectionQueues` has no fairness of its own.

`Framing!FairSpec` is weakly fair to the reader only: a thread that sits in `recv` goes on
when there are bytes, or when the connection has ended. Nobody is obliged to send, nor the
network to fail or not to. `InjectorStart!FairSpec` is weakly fair to the polling thread,
which sleeps a second at a time, and to a thread inside `CreateWindowExA_Hook`. It obliges
nobody to install that hook, to open a window, to leave one in front, or to close it.
`HookInstallation` has no fairness and no liveness property.

## 5. The proofs

The modules `PacketQueueProofs`, `PacketQueueChannelProofs`, `InjectionQueuesProofs`,
`ClientSessionsProofs`, `PacketLogProofs`, `FramingProofs`, `HookInstallationProofs` and
`InjectorStartProofs` hold them.
They assume only the named assumptions of the constants: pool size a
natural number, batch size a positive one, bounds natural numbers, names finite,
configurations records of naturals, modulus and places per tick positive, a message not
empty and of a length some word stands for, windows, clients and the special values `NULL`,
`NONE` and `STUCK` distinct. Nothing bounds the number of threads, buffers,
packets, queues, connections, objects, messages, bytes or windows. One theorem has a
hypothesis of its own, `DirectionTold` (`~Win64`), because TLC refutes the property without it
(section 6).

Every safety property of a passing run is stated by one of these theorems.

**Queue.** `TypeCorrect` is `TypeOK`, which is inductive: it carries the two facts
about control the types need (a thread inside a call has made a packet; the worker
about to pop has room in its batch). `BuffersExclusive` and `BuffersHeld` are proved
together as `BufferInv == ExclusiveBuffers /\ InUseIsHeld`: neither is inductive
alone, since `Allocate` gives out a buffer that is not in use, which is nobody's
only by `InUseIsHeld`, and `Free` marks one as free that is nobody else's only by
`ExclusiveBuffers`. One lemma per way a buffer changes hands (`AllocateBuffer`,
`GiveUpBuffer`, `PushBuffer`, `PopBuffer`, `WorkerFreesBuffer`, `DrainBuffers`), and
`HoldersUnchanged` for every other step. `AllocatedIndexFree`, that the `CHOOSE` of the
lowest free index finds one, rests on the well-foundedness of the naturals.
`ContentStaysIntact` needs `BufferInv`: what is in a buffer survives because the only
thread that writes one holds it.

`HeapBlocksHeld` is proved in the same way from `HeapInv`: a heap block is known by its packet's
name, so that it is the holder of the packet that holds it, and `HeldOnce` says that no packet
is held twice, since a queued packet is older than the one its thread is making. There is one
lemma per hand-over again (`AllocateHeap`, `GiveUpHeap`, `PushHeap`, `PopHeap`,
`WorkerFreesHeap`, `DrainHeap`). `ThreadOrderKept` rests on `InOrder`, which orders all that
a thread ever pushed: what was sent before what the worker has, that before what is queued, and
that before what the thread is making. It needs `ContentStaysIntact` too, because what is
sent is what the buffer holds by then.

`PacketQueueChannelProofs` proves the refinement of `PacketChannel`
(`ImplementsChannelTheorem`): initial states map to initial states, and every step to a step or
a stutter. A push is an acceptance, `SendData` a delivery, the return of a blocking
call an answer or, when its event was closed under it, an abandonment; the first step of `Stop`
closes the channel and its drain discards what is left. What the event of a blocking call
says has to be known for it (`AnswerInv`): only the worker that sent the packet
sets it, and only the drain that took the packet out closes it unset.

**Injection.** `TypeCorrect` is inductive and has to show that every DWORD stays
below `TickModulus` (`ModulusType`), that the `operator[]` of an absent name yields a
configuration (`ConfigOfType`), and that served queues are ready ones, at least one of
them (`ServedAreReady`, `SomethingServed`). `IndexStaysInBounds` is inductive with it:
its three conjuncts follow a group from the queue to the active group to the
injector's list and back, and `WriteBack` keeps the invariant because a group is
active again only with a packet left, even if the client has replaced the queue.

What the injector does between its critical sections is known from
`InjectionInv == TypeOK /\ IndexInBounds /\ HandInv /\ FreshInv /\ EpochInv /\ OutInv`.
`HandInv` is the heart of it: the injector has one entry per queue in hand, and the entry is a
copy of the active group until a client changes the queue; from then on the queue has no active
group until the write-back. `FreshInv` says that queued groups have not been begun, `EpochInv`
that nothing taken or injected belongs to a later registration, `OutInv` that what is about to be
written back is what was injected last. On it rest:

* `NothingIsLost` (`NothingLost`): each step hands a packet on from the incomplete group to the
  queue, to the active group, to the injector and to `injected`, and the copy in hand makes sure
  that the write-back forgets none.
* `ArrivalOrderKept` (`InArrivalOrder`), from `ArrivalInv`: what waits does so in the order it
  came (`WaitingOrder`), the group being injected is ahead of all of it and what is left of the
  group is behind what was injected (`CurrentOrder`), and so is all that waits (`InjectedOrder`).
  `Gone` counts the packets of the group that are out, which before the write-back is one more
  than its index says.
* `GroupsStayAtomic` (`AtomicGroups`), from `LastInv`: the last injection of a queue is the
  packet before the next one of its current group, and where none is begun it ended its group,
  unless the queue was changed since.
* `IntervalsKept` (`IntervalRespected`), from `LastInv`, `ClockInv` (nothing was injected after
  the last stamp, and a scan uses a time that is not before it) and `TimeInv` (a queue that ended
  a group has the time of it, and a new group in hand has waited). It holds for every
  `TickModulus`: a difference modulo 2^32 is never more than the real one, when the later time
  comes second.
* `DelaysKept` (`DelayRespected`), from `DelayInv`: the deadline in the active group is
  the tick count of the last injection plus the delay of the next packet, and a copy in hand has
  waited that delay already. A scan that finds the deadline met has read a tick count that is not below it, and unless the deadline
  wrapped, the real time since is no less than the delay (`ShownLater`), whichever number of wraps
  is between. A deadline that wraps is taken out in the property, as section 6 says.
* `ImplementsScheduleTheorem` (`ImplementsSchedule`): initial states map to initial states, and
  each step to a step of `InjectionSchedule` or a stutter, with one lemma per action
  (`RegisterMapped` to `WriteBackMapped`). A group in hand has a name that is not in the
  rest of the list; a command on one queue leaves the readiness of the others alone (`SameReady`,
  `ReadinessMapped`), since all of it is in the queue's own entries; no queue has more groups
  waiting than packets were taken (`WaitingBound`).

**Sessions.** `CurrentStaysAlive` and `LatestStaysCurrent` are inductive with
`TypeOK` and with `SenderOK` (a packet in hand has a number). Both hold because
`ClearClient` compares before it clears, and because nothing else but
`StoreClient` writes the pointer. `OneTurnEach` (`OneTurn`) rests on three
invariants: `OrderInv` (connections are stored once each, one that got a packet has been
stored, and the client is the last one stored), `TurnInv` (what a connection got is in order, and
since its first packet it got or missed every packet as long as it is the
client) and `NewerInv` (what a connection got is before all that later ones got, and
while a packet is on its way to an older one, the later ones have none yet).

**Logging.** `TypeCorrect` is inductive. `DirectionTold` assumes `~Win64` and shows
that the increment of `SendPacket_Hook`, which 32 bit does not have, is all that
breaks `IdsTellDirection`: `ParityInv` says that the counters have their parity, that
what a thread has loaded and not yet stored has it too, and that no thread is in the
64-bit steps. Updates are lost in this model, and the parity survives them.

* `PacketsLoggedOnce` (`LoggedOnce`), from `OwnedInv` and `CallsInv`: an object is sent by the
  thread that owns it and two owned objects hold two packets; a packet with a message in the log
  is being sent or gone, and what is built in its object next has another number.
* `OutgoingTold` (`OutgoingIds`), from `AloneInv` and `CountInv`: a packet that no other was sent
  beside is the only one being sent, to its last step. The counter has its id until it is counted,
  and from then on the counter, and all that any thread has loaded to store it counted up, is
  past it. So an increment that is lost cannot bring back the id of such a packet.
* `IncomingTold` (`IncomingIds`), from `ReceivingInv` and `NumberedInv`: a reception nobody
  overtook is the only such one, the counter has its id from its message on, and the next of its
  kind counts past that id before it logs.
* `FormatsLogged` (`FormatsComplete`), from `TrackInv` and `FieldsInv`: the entry of an object
  being built lists the fields of that packet from the first on, and a thread in `AddExtraAll` has
  logged the first fields and lists the others. The object of a packet that is gone may have any
  entry, which is why `COutPacket` has to clear it.

`Apart` and `Aside` name the steps that do not touch what is being sent, and those that do not
touch what is being received; each invariant is shown to survive them in one lemma.

**Framing.** `FaithfulTheorem`, `NothingLeftBehindTheorem` and `ImplementsChannelTheorem`
rest on one invariant, `IInv`: `TypeOK`, and unless the stream is torn, `Layout` (what is
written is the frames of `sent`, one after the other at `ends`, and then the part of the
present frame that is out), `Agreement` (the reader's field is the field of that
very frame, in the place where it begins, and what it has returned is a prefix of `sent`)
and `Cause` (a reader that ended has read all there is, or met a message above
its limit, or a reset). Why it is needed: that the magic word was right says nothing, since a
message may contain it; only that reader and writer have agreed on every place before does.
The payload of a frame is read back because `Encoded` inverts `Value` on the lengths of
`Payloads`, an assumption on the constants. The refinement is proved as two facts, initial
states to initial states and steps to steps or stutters, where the step that tears the
stream is the one exception, in the property as in the theorem.

**Installation.** `LoggedOnceTheorem` and `CrashesForACauseTheorem` rest on `IInv`:
`Installed` ties the installer's step to what is hooked, copied and set (`Jumps`,
`Progress`, `Known`), and `Placed(t)` says of each thread where it can be (`Position`), how often
its call was logged there (`Counted`), that a call begun after the installation meets hooks only
(`Covered`), and why a crashed one crashed (`Excused`). A log entry is missed or doubled only if
the return address is known at the wrong time; `Known` gives the order that excludes it.

**Injection timer.** `IInv` adds to `TypeOK` what a pending step knows: `Pending`
(unless `together`, one thread at most is between its test and its `SetTimer`, and
while one is, there is no timer), `Known` (who is past the test found the
section initialised) and `First` (unless `first_together`, one thread at most is
initialising, and nobody is inside meanwhile).

**Only model-checked.** The liveness properties `QueuedIsSent`, `CallerIsReleased`,
`WorkerExits`, `QueueIsServed`, `Arrives` and `InjectionStarts`: a proof would need `ENABLED`
and the fairness of single actions, which the prover does not reach. The counterexamples of
section 6 are TLC's too.

## 6. Where the code and its documents disagree

Each of these is a run that TLC ends with a counterexample.

* `CleanShutdown`: "Clean shutdown of async queue" (`DllMain.cpp:235`). `Stop` drains
  a blocking packet and closes its event without setting it; the hook that already
  waits is never released.
* `UnregisteredIsGone`: "Remove a queue registration" (`PacketDefs.h:52`). The second
  critical section creates the entry again. The zeroed entry then takes packets.
* `SendsToLiveObject`: "All TCP operations are thread-safe"
  (`TCP_API_DOCUMENTATION.md:532`). The object is used after the lock was left.

These have no run of their own; TLC refutes each when it is made an invariant of the
configuration named.

* `DelayRespected` without its exception for a deadline that wraps (the conjunct with
  `TickModulus`), in `MCInjectionQueues.cfg`: "Delay BEFORE
  injecting each packet (in ms)" (`PacketSender.cpp:37`). The deadline
  `next_packet_time_ms` is compared with `>=` (line 289) and not modulo 2^32, so that one
  computed across the wrap is already met.
* `QueueIsServed` without its disjunct `[]<>Crowded(n)`, in `MCInjectionSchedule.cfg`: "Process
  ALL ready queues (not just one!) to maximize throughput" (`PacketSender.cpp:333`), which the
  next line limits to ten. While ten queues of the same or a shorter interval keep having groups
  that are ready, the eleventh is never served, and its groups pile up without a limit.
* `FirstInjectionWaits` in `MCInjectionQueues.cfg`: "Initialize to current time so first
  injection waits for the full interval" (`PacketSender.cpp:79`). The injector has read an earlier time, and the
  unsigned difference is huge.
* `IdsTellDirection` in `MCPacketLog.cfg`: outgoing packets "use even IDs starting from 2"
  (`TCP_API_DOCUMENTATION.md:156`). On 64 bit `SendPacket_Hook` adds one more after
  each packet, so that every other outgoing id is odd.

Read off the code without a run: `TCP_API_DOCUMENTATION.md:612` says that only one
client can connect at a time, while the accept loop serves any number;
`TCP_API_DOCUMENTATION.md:36` lets a client answer a packet with a byte that blocks it,
while the worker asks nobody; `Readme.md:110` says packets are broadcast to all
connected clients, and `TESTING_CHECKLIST.md:74` that "Both clients receive packets",
while each goes to `current_client` only; `TCP_API_DOCUMENTATION.md:518` says that
packets are queued until a client connects, while `SendPacketDataTCP` skips them;
`TCP_API_DOCUMENTATION.md:157` lets incoming ids start from 1, while
`ProcessPacket_Hook` counts up before it uses the first, which is 3.
`PacketSender.cpp:37` promises a delay before each packet, while the one of the first,
`packet_intervals_ms[0]`, is never used: a group's first deadline is the time its first packet came
(`PacketTCP.cpp:256`), and later ones take the delay of the packet after the one injected
(`PacketSender.cpp:416-420`); `DelayRespected` is about the others. `TESTING_CHECKLIST.md:76` asks for
"No packet loss between clients", while a packet whose send fails on a connection that lives on is
not sent again, and the next one goes to the same client (`PacketTCP.cpp:342-350`); `OneTurn` says that
a client misses nothing else in its turn. And `DECODE_END`
carries the id of the packet received last, which is not its own when the game entered
`ProcessPacket` again: `packet_monitor.py` makes no use of it. `RirePE.ini.example:44` calls
`USE_THREAD=1` "more stable", and `Ini-README.md:55` gives 0 as its default: what
`CrashesForACause` says is that a separate thread adds one way to crash, an injected
packet that comes before the hooks, and removes none, while
`TESTING_CHECKLIST.md:29` expects "No immediate crashes after injection". With an
`EnterSendPacket` that is found and cannot be overwritten, whatever goes through it is
not logged at all, for its return address is known all the same (`LoggedOnce`).

## 7. What is not modelled

* Pipes, the DLL injector, the GUI, files and the configuration reader
  (`Share/Simple`): wrappers of single system calls, most of them unused by the DLL.
* Zydis and Zycore (`Share/Hook`): vendored, and about three quarters of
  the repository's code.
* The lengths and relocations in `SimpleHook`, `AobScan` and `AobList.h`: sequential
  computations on machine code and byte patterns that share no state with anything.
* The installation of the `Encode*` and `Decode*` hooks and of the variants for old clients.
* Telling a queue command from a packet (`PacketTCP.cpp` 94-119): comparisons without state.
* Time stamps the injector writes into payloads, the logging, the parsing of
  messages into fields.
* Use of a deleted queue or pool after `ShutdownPacketQueue`, and the loader lock
  held by the thread that unloads the DLL. The timeout of `Stop` is there
  unconditionally, which covers a worker that cannot end because of it.
* `RestartTCPClient` and `RecvPacketDataTCP`, which have no callers.

## 8. Plan

In order of weight:

1. The members of a group by client, for a group that a client leaves incomplete.
2. The blocking protocol, should the worker come to ask: which copy of
   `block_result` is written.
3. `AobScan` and the relocation of `SimpleHook` as operators.

Theorems: the safety facts that the liveness properties lean on (that a queued packet is ahead
of finitely many steps of the worker, that the injector's list only gets shorter until the next
scan), so that fairness is all that is left to TLC.
