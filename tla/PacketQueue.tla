------------------------------ MODULE PacketQueue ------------------------------
(***************************************************************************)
(* The buffer pool and the asynchronous packet queue of                    *)
(* Packet/PacketQueue.cpp with the two kinds of hook that feed it          *)
(* (AddExtra, and AddSendPacket / AddRecvPacket, PacketLogging.cpp).       *)
(*                                                                         *)
(* A hook runs on a thread of the game: it takes a buffer, writes its      *)
(* message into it, pushes it and, for a blocking packet, waits for the    *)
(* worker.  The worker pops, sends, frees and signals.  Stop runs on the   *)
(* thread that unloads the DLL.  A step is what one thread does between    *)
(* two points where another can run: a critical section, an event, a call  *)
(* that may block.                                                         *)
(***************************************************************************)
EXTENDS Integers, Sequences, FiniteSets, SequencesExt

CONSTANTS
  Threads,          \* the game's threads that run hooks
  POOL_SIZE,        \* buffers in the pool (256 in the code)
  BATCH_SIZE,       \* packets between two waits of the worker (16 in the code)
  g_EnableBlocking, \* ENABLE_BLOCKING of the .ini file
  MaxPackets        \* bound: packets each thread logs

ASSUME PoolAssumption == POOL_SIZE \in Nat
ASSUME BatchAssumption == BATCH_SIZE \in Nat \ {0}
ASSUME BlockingAssumption == g_EnableBlocking \in BOOLEAN
ASSUME MaxPacketsAssumption == MaxPackets \in Nat

Index == 0 .. POOL_SIZE - 1
HEAP == -1                            \* (size_t)-1: the buffer came from new[]
Packets == Threads \X (1 .. MaxPackets)
NoPacket == <<>>

\* A packet is also the name of its heap block and of its response event: each
\* is made for one packet.
QueuedPacket == [packet : Packets,
                 buffer_index : Index \cup {HEAP},
                 needs_response : BOOLEAN]
NoQP == [packet |-> NoPacket, buffer_index |-> HEAP, needs_response |-> FALSE]

VARIABLES
  in_use,          \* PacketBufferPool: buffers[i].in_use
  data,            \* buffers[i].data: the packet last written there
  heap,            \* packets whose buffer is a live heap block
  packet_queue,    \* AsyncPacketQueue::packet_queue
  running,         \* AsyncPacketQueue::running
  wake_event,      \* auto-reset event the worker waits on
  response_event,  \* per thread: the event of its blocking packet
  pc,              \* where each hook thread is
  made,            \* how many packets it has made; the last one is the current
  buffer_index,    \* its local variable
  needs_response,  \* and whether it is in QueuePacketBlocking
  worker,          \* where the worker is
  qp,              \* its local copy of the packet it popped
  processed,       \* its count in the batch
  stop,            \* where ShutdownPacketQueue is
  sent             \* history: what SendPacketData was called with

poolVars == <<in_use, data, heap>>
queueVars == <<packet_queue, wake_event>>
hookVars == <<pc, made, buffer_index, needs_response>>
workerVars == <<worker, qp, processed, sent>>
vars == <<poolVars, queueVars, running, response_event, hookVars, workerVars, stop>>

Current(t) == <<t, made[t]>>

Init ==
  /\ in_use = [i \in Index |-> FALSE]
  /\ data = [i \in Index |-> NoPacket]
  /\ heap = {}
  /\ packet_queue = <<>>
  /\ running = FALSE
  /\ wake_event = FALSE
  /\ response_event = [t \in Threads |-> "none"]
  /\ pc = [t \in Threads |-> "idle"]
  /\ made = [t \in Threads |-> 0]
  /\ buffer_index = [t \in Threads |-> HEAP]
  /\ needs_response = [t \in Threads |-> FALSE]
  /\ worker = "unborn"
  /\ qp = NoQP
  /\ processed = 0
  /\ stop = "idle"
  /\ sent = <<>>

\* ShutdownPacketQueue deletes the queue first and the pool next.  What a thread
\* does with a deleted object is undefined: it takes no further step here.
QueueAlive == stop \notin {"queue_deleted", "pool_deleted"}
PoolAlive == stop # "pool_deleted"

\* InitializePacketQueue, before any hook is installed.  CreateThread may fail;
\* nobody looks at the result and the hooks go in all the same.
Start ==
  /\ worker = "unborn"
  /\ ~running
  /\ running' = TRUE
  /\ worker' \in {"loop", "none"}
  /\ UNCHANGED <<poolVars, queueVars, response_event, hookVars,
                 qp, processed, sent, stop>>

--------------------------------------------------------------------------------
(* The hook threads *)

FreeBuffers == {i \in Index : ~in_use[i]}

LowestFreeIndex == CHOOSE i \in FreeBuffers : \A j \in FreeBuffers : i <= j

\* Mutant: with the pool exhausted the last buffer is handed out again.
AllocatedIndexReused(fits) ==
  IF ~fits THEN HEAP ELSE IF FreeBuffers # {} THEN LowestFreeIndex ELSE POOL_SIZE - 1

\* PacketBufferPool::Allocate: an oversized packet and an exhausted pool fall
\* back to new[]; otherwise the first buffer that is not in use.
AllocatedIndex(fits) ==
  IF fits /\ FreeBuffers # {} THEN LowestFreeIndex ELSE HEAP

\* The null check of the globals, then Allocate.  `fits` says whether the
\* message is at most BUFFER_SIZE long; `waits` tells a send or recv packet
\* from a format message.
Allocate(t, fits, waits) ==
  /\ pc[t] = "idle"
  /\ worker # "unborn"
  /\ QueueAlive
  /\ made[t] < MaxPackets
  /\ made' = [made EXCEPT ![t] = @ + 1]
  /\ needs_response' = [needs_response EXCEPT ![t] = g_EnableBlocking /\ waits]
  /\ buffer_index' = [buffer_index EXCEPT ![t] = AllocatedIndex(fits)]
  /\ IF AllocatedIndex(fits) = HEAP
     THEN /\ heap' = heap \cup {<<t, made[t] + 1>>}
          /\ UNCHANGED in_use
     ELSE /\ in_use' = [in_use EXCEPT ![AllocatedIndex(fits)] = TRUE]
          /\ UNCHANGED heap
  /\ pc' = [pc EXCEPT ![t] = "filling"]
  /\ UNCHANGED <<data, queueVars, running, response_event, workerVars, stop>>

\* The hook writes its message into the buffer, outside any lock.
Fill(t) ==
  /\ pc[t] = "filling"
  /\ PoolAlive
  /\ data' = IF buffer_index[t] = HEAP THEN data
             ELSE [data EXCEPT ![buffer_index[t]] = Current(t)]
  /\ pc' = [pc EXCEPT ![t] = IF needs_response[t] THEN "create_event" ELSE "push"]
  /\ UNCHANGED <<in_use, heap, queueVars, running, response_event, made,
                 buffer_index, needs_response, workerVars, stop>>

\* Mutant: Free is trusted with heap blocks too, and returns early on them.
HeapAfterFreeKept(index, p) == heap

\* `if (buffer_index != -1) Free else delete[]`, once for each of its three users.
InUseAfterFree(index) ==
  IF index = HEAP THEN in_use ELSE [in_use EXCEPT ![index] = FALSE]
HeapAfterFree(index, p) == IF index = HEAP THEN heap \ {p} ELSE heap

\* Back in the hook: the locals are gone.
Leave(t) ==
  /\ pc' = [pc EXCEPT ![t] = "idle"]
  /\ buffer_index' = [buffer_index EXCEPT ![t] = HEAP]
  /\ needs_response' = [needs_response EXCEPT ![t] = FALSE]
  /\ UNCHANGED made

CreateResponseEvent(t) ==
  /\ pc[t] = "create_event"
  /\ response_event' = [response_event EXCEPT ![t] = "unset"]
  /\ pc' = [pc EXCEPT ![t] = "push"]
  /\ UNCHANGED <<poolVars, queueVars, running, made, buffer_index,
                 needs_response, workerVars, stop>>

\* Mutant: the early return forgets the buffer.
CreateResponseEventFailsLeaking(t) ==
  /\ pc[t] = "create_event"
  /\ PoolAlive
  /\ Leave(t)
  /\ UNCHANGED <<poolVars, queueVars, running, response_event, workerVars, stop>>

\* CreateEvent returned NULL: the packet is given up.
CreateResponseEventFails(t) ==
  /\ pc[t] = "create_event"
  /\ PoolAlive
  /\ in_use' = InUseAfterFree(buffer_index[t])
  /\ heap' = HeapAfterFree(buffer_index[t], Current(t))
  /\ Leave(t)
  /\ UNCHANGED <<data, queueVars, running, response_event, workerVars, stop>>

\* Mutant: a blocking packet overtakes the queue, its caller being stopped.
PushUrgentFirst(t) ==
  LET new == [packet |-> Current(t), buffer_index |-> buffer_index[t],
              needs_response |-> needs_response[t]]
  IN  /\ pc[t] = "push"
      /\ QueueAlive
      /\ packet_queue' = IF needs_response[t] THEN <<new>> \o packet_queue
                         ELSE Append(packet_queue, new)
      /\ pc' = [pc EXCEPT ![t] = "notify"]
      /\ UNCHANGED <<poolVars, wake_event, running, response_event, made,
                     buffer_index, needs_response, workerVars, stop>>

\* The push under queue_cs.  `running` is not consulted.
Push(t) ==
  /\ pc[t] = "push"
  /\ QueueAlive
  /\ packet_queue' = Append(packet_queue,
                            [packet |-> Current(t),
                             buffer_index |-> buffer_index[t],
                             needs_response |-> needs_response[t]])
  /\ pc' = [pc EXCEPT ![t] = "notify"]
  /\ UNCHANGED <<poolVars, wake_event, running, response_event, made,
                 buffer_index, needs_response, workerVars, stop>>

\* SetEvent(wake_event); an asynchronous caller then returns.  So does a blocking
\* one whose event the drain has closed already: the wait fails at once.
Notify(t) ==
  /\ pc[t] = "notify"
  /\ QueueAlive
  /\ wake_event' = TRUE
  /\ IF needs_response[t] /\ response_event[t] # "closed"
     THEN /\ pc' = [pc EXCEPT ![t] = "waiting"]
          /\ UNCHANGED <<response_event, made, buffer_index, needs_response>>
     ELSE Leave(t) /\ response_event' = [response_event EXCEPT ![t] = "none"]
  /\ UNCHANGED <<poolVars, packet_queue, running, workerVars, stop>>

\* Mutant: the caller's wait has a timeout.
ReturnAfterTimeout(t) ==
  /\ pc[t] = "waiting"
  /\ response_event' = [response_event EXCEPT ![t] = "none"]
  /\ Leave(t)
  /\ UNCHANGED <<poolVars, queueVars, running, workerVars, stop>>

\* WaitForSingleObject(response_event, INFINITE) returns, the caller reads the
\* block_result of its own copy, which nobody has written, and closes the event.
Return(t) ==
  /\ pc[t] = "waiting"
  /\ response_event[t] = "set"
  /\ response_event' = [response_event EXCEPT ![t] = "none"]
  /\ Leave(t)
  /\ UNCHANGED <<poolVars, queueVars, running, workerVars, stop>>

--------------------------------------------------------------------------------
(* The worker: AsyncPacketQueue::ProcessQueue *)

WorkerGoes(to) == worker' = to /\ UNCHANGED <<qp, processed, sent>>

\* Mutant: `while (true)`.
LoopTestForever ==
  /\ worker = "loop"
  /\ QueueAlive
  /\ WorkerGoes("wait")
  /\ UNCHANGED <<poolVars, queueVars, running, response_event, hookVars, stop>>

LoopTest ==
  /\ worker = "loop"
  /\ QueueAlive
  /\ WorkerGoes(IF running THEN "wait" ELSE "exited")
  /\ UNCHANGED <<poolVars, queueVars, running, response_event, hookVars, stop>>

\* Mutant: the wait for the event is INFINITE.
WaitWakeForever ==
  /\ worker = "wait"
  /\ QueueAlive
  /\ wake_event
  /\ wake_event' = FALSE
  /\ processed' = 0
  /\ worker' = "batch"
  /\ UNCHANGED <<poolVars, packet_queue, running, response_event, hookVars,
                 qp, sent, stop>>

\* The wait ends on the event, which resets it, or after 10 ms.
WaitWake ==
  /\ worker = "wait"
  /\ QueueAlive
  /\ wake_event' = FALSE
  /\ processed' = 0
  /\ worker' = "batch"
  /\ UNCHANGED <<poolVars, packet_queue, running, response_event, hookVars,
                 qp, sent, stop>>

\* Mutant: one packet too many in a batch.
BatchTestOffByOne ==
  /\ worker = "batch"
  /\ QueueAlive
  /\ WorkerGoes(IF running /\ processed <= BATCH_SIZE THEN "pop" ELSE "loop")
  /\ UNCHANGED <<poolVars, queueVars, running, response_event, hookVars, stop>>

BatchTest ==
  /\ worker = "batch"
  /\ QueueAlive
  /\ WorkerGoes(IF running /\ processed < BATCH_SIZE THEN "pop" ELSE "loop")
  /\ UNCHANGED <<poolVars, queueVars, running, response_event, hookVars, stop>>

\* Mutant: the buffer goes back to the pool as soon as its packet is popped.
PopFreesEarly ==
  /\ worker = "pop"
  /\ QueueAlive
  /\ packet_queue # <<>>
  /\ qp' = Head(packet_queue)
  /\ packet_queue' = Tail(packet_queue)
  /\ processed' = processed + 1
  /\ in_use' = InUseAfterFree(Head(packet_queue).buffer_index)
  /\ worker' = "send"
  /\ UNCHANGED <<data, heap, wake_event, running, response_event, hookVars, sent, stop>>

Pop ==
  /\ worker = "pop"
  /\ QueueAlive
  /\ packet_queue # <<>>
  /\ qp' = Head(packet_queue)
  /\ packet_queue' = Tail(packet_queue)
  /\ processed' = processed + 1
  /\ worker' = "send"
  /\ UNCHANGED <<poolVars, wake_event, running, response_event, hookVars, sent, stop>>

PopNothing ==
  /\ worker = "pop"
  /\ QueueAlive
  /\ packet_queue = <<>>
  /\ WorkerGoes("loop")
  /\ UNCHANGED <<poolVars, queueVars, running, response_event, hookVars, stop>>

\* What the bytes of a queued packet are at this moment.
Content(q) == IF q.buffer_index = HEAP THEN q.packet ELSE data[q.buffer_index]

\* SendPacketData, whether it succeeds or not: a packet that could not be sent
\* is not tried again, and the answer to the caller is "do not block" either way.
Send ==
  /\ worker = "send"
  /\ PoolAlive
  /\ sent' = Append(sent, Content(qp))
  /\ worker' = "free"
  /\ UNCHANGED <<poolVars, queueVars, running, response_event, hookVars,
                 qp, processed, stop>>

\* Mutant: the answer to a blocking caller is forgotten.
FreeBufferWithoutAnswer ==
  /\ worker = "free"
  /\ PoolAlive
  /\ in_use' = InUseAfterFree(qp.buffer_index)
  /\ heap' = HeapAfterFree(qp.buffer_index, qp.packet)
  /\ worker' = "batch"
  /\ qp' = NoQP
  /\ UNCHANGED <<data, queueVars, running, response_event, hookVars,
                 processed, sent, stop>>

FreeBuffer ==
  /\ worker = "free"
  /\ PoolAlive
  /\ in_use' = InUseAfterFree(qp.buffer_index)
  /\ heap' = HeapAfterFree(qp.buffer_index, qp.packet)
  /\ IF qp.needs_response
     THEN WorkerGoes("signal")
     ELSE worker' = "batch" /\ qp' = NoQP /\ UNCHANGED <<processed, sent>>
  /\ UNCHANGED <<data, queueVars, running, response_event, hookVars, stop>>

SignalResponse ==
  /\ worker = "signal"
  /\ response_event' = [response_event EXCEPT ![qp.packet[1]] =
                          IF @ = "unset" THEN "set" ELSE @]
  /\ worker' = "batch"
  /\ qp' = NoQP
  /\ UNCHANGED <<poolVars, queueVars, running, hookVars, processed, sent, stop>>

--------------------------------------------------------------------------------
(* ShutdownPacketQueue, from DllMain: ~AsyncPacketQueue calls Stop *)

StopBegin ==
  /\ stop = "idle"
  /\ running
  /\ running' = FALSE
  /\ stop' = "signal"
  /\ UNCHANGED <<poolVars, queueVars, response_event, hookVars, workerVars>>

StopSignal ==
  /\ stop = "signal"
  /\ wake_event' = TRUE
  /\ stop' = IF worker = "none" THEN "drain" ELSE "join"
  /\ UNCHANGED <<poolVars, packet_queue, running, response_event, hookVars, workerVars>>

StopJoin ==
  /\ stop = "join"
  /\ worker = "exited"
  /\ stop' = "drain"
  /\ UNCHANGED <<poolVars, queueVars, running, response_event, hookVars, workerVars>>

\* The wait is for 5 s; a send to a client that reads nothing takes longer.
StopJoinTimeout ==
  /\ stop = "join"
  /\ worker # "exited"
  /\ stop' = "drain"
  /\ UNCHANGED <<poolVars, queueVars, running, response_event, hookVars, workerVars>>

\* Under queue_cs every packet left is freed, and the event of a blocking one is
\* closed without having been set.
StopDrain ==
  LET left == ToSet(packet_queue)
  IN  /\ stop = "drain"
      /\ packet_queue' = <<>>
      /\ in_use' = [i \in Index |-> in_use[i] /\ \A q \in left : q.buffer_index # i]
      /\ heap' = heap \ {q.packet : q \in {r \in left : r.buffer_index = HEAP}}
      /\ response_event' = [t \in Threads |->
           IF \E q \in left : q.needs_response /\ q.packet[1] = t
           THEN "closed" ELSE response_event[t]]
      /\ stop' = "drained"
      /\ UNCHANGED <<data, wake_event, running, hookVars, workerVars>>

DeleteQueue ==
  /\ stop = "drained"
  /\ stop' = "queue_deleted"
  /\ UNCHANGED <<poolVars, queueVars, running, response_event, hookVars, workerVars>>

DeletePool ==
  /\ stop = "queue_deleted"
  /\ stop' = "pool_deleted"
  /\ UNCHANGED <<poolVars, queueVars, running, response_event, hookVars, workerVars>>

--------------------------------------------------------------------------------
HookStep(t) ==
  \/ Fill(t) \/ CreateResponseEvent(t) \/ CreateResponseEventFails(t)
  \/ Push(t) \/ Notify(t) \/ Return(t)

Hook(t) ==
  \/ \E fits, waits \in BOOLEAN : Allocate(t, fits, waits)
  \/ HookStep(t)

Worker ==
  \/ LoopTest \/ WaitWake \/ BatchTest \/ Pop \/ PopNothing
  \/ Send \/ FreeBuffer \/ SignalResponse

Stop ==
  \/ StopBegin \/ StopSignal \/ StopJoin \/ StopJoinTimeout
  \/ StopDrain \/ DeleteQueue \/ DeletePool

Next ==
  \/ Start
  \/ \E t \in Threads : Hook(t)
  \/ Worker
  \/ Stop

Spec == Init /\ [][Next]_vars

(* The scheduler lets every thread run on, and the worker's wait is bounded by  *)
(* 10 ms, so a step that stays possible is taken.  A hook is not obliged to log *)
(* and nobody is obliged to unload the DLL.  Stop, once called, goes on; whether *)
(* its 5 s run out before the worker has ended is left open.                    *)
Fairness ==
  /\ WF_vars(Worker)
  /\ \A t \in Threads : WF_vars(HookStep(t))
  /\ WF_vars(StopSignal \/ StopJoin \/ StopDrain \/ DeleteQueue \/ DeletePool)

FairSpec == Spec /\ Fairness

--------------------------------------------------------------------------------
(* Properties *)

\* Every variable has its type, and a thread inside a call has a packet.
TypeOK ==
  /\ in_use \in [Index -> BOOLEAN]
  /\ data \in [Index -> Packets \cup {NoPacket}]
  /\ heap \subseteq Packets
  /\ packet_queue \in Seq(QueuedPacket)
  /\ running \in BOOLEAN
  /\ wake_event \in BOOLEAN
  /\ response_event \in [Threads -> {"none", "unset", "set", "closed"}]
  /\ pc \in [Threads -> {"idle", "filling", "create_event", "push", "notify", "waiting"}]
  /\ made \in [Threads -> 0 .. MaxPackets]
  /\ \A t \in Threads : pc[t] # "idle" => made[t] # 0
  /\ buffer_index \in [Threads -> Index \cup {HEAP}]
  /\ needs_response \in [Threads -> BOOLEAN]
  /\ worker \in {"unborn", "none", "loop", "wait", "batch", "pop", "send",
                 "free", "signal", "exited"}
  /\ qp \in QueuedPacket \cup {NoQP}
  /\ worker \in {"send", "free", "signal"} => qp \in QueuedPacket
  /\ processed \in 0 .. BATCH_SIZE
  /\ worker = "pop" => processed < BATCH_SIZE
  /\ stop \in {"idle", "signal", "join", "drain", "drained", "queue_deleted", "pool_deleted"}
  /\ sent \in Seq(Packets \cup {NoPacket})

HoldsBuffer(t) == pc[t] \in {"filling", "create_event", "push"}
WorkerHolds == worker \in {"send", "free"}

\* Two holders of pool buffers never hold the same one: neither two hooks in the
\* middle of a call, nor a hook and an entry of the queue, nor two entries, nor
\* any of them and the worker.  Allocate and Free are the only places that keep
\* a buffer from being written by one thread while another sends it.
ExclusiveBuffers ==
  /\ \A t, u \in Threads :
       t # u /\ HoldsBuffer(t) /\ HoldsBuffer(u) /\ buffer_index[t] # HEAP
         => buffer_index[t] # buffer_index[u]
  /\ \A t \in Threads, k \in DOMAIN packet_queue :
       HoldsBuffer(t) /\ buffer_index[t] # HEAP
         => packet_queue[k].buffer_index # buffer_index[t]
  /\ \A j, k \in DOMAIN packet_queue :
       j # k /\ packet_queue[j].buffer_index # HEAP
         => packet_queue[j].buffer_index # packet_queue[k].buffer_index
  /\ WorkerHolds /\ qp.buffer_index # HEAP =>
       /\ \A t \in Threads : HoldsBuffer(t) => buffer_index[t] # qp.buffer_index
       /\ \A k \in DOMAIN packet_queue : packet_queue[k].buffer_index # qp.buffer_index

\* A pool buffer is marked in use exactly while somebody holds it: no holder's
\* buffer was given back under it, and none is lost to the pool for good, on any
\* path through the blocking and the non-blocking call, the failed CreateEvent,
\* the worker and the drain.
InUseIsHeld ==
  \A i \in Index :
    in_use[i] <=> \/ \E t \in Threads : HoldsBuffer(t) /\ buffer_index[t] = i
                  \/ \E k \in DOMAIN packet_queue : packet_queue[k].buffer_index = i
                  \/ WorkerHolds /\ qp.buffer_index = i

\* The same of the heap blocks the pool falls back to: every live block is held
\* by the one who must delete it, and every holder's block is live.
HeapIsHeld ==
  heap = {Current(t) : t \in {u \in Threads : HoldsBuffer(u) /\ buffer_index[u] = HEAP}}
         \cup {q.packet : q \in {r \in ToSet(packet_queue) : r.buffer_index = HEAP}}
         \cup (IF WorkerHolds /\ qp.buffer_index = HEAP THEN {qp.packet} ELSE {})

\* A buffer that is queued, or about to be, still holds the bytes its hook wrote.
ContentIntact ==
  /\ \A t \in Threads :
       pc[t] \in {"create_event", "push"} /\ buffer_index[t] # HEAP
         => data[buffer_index[t]] = Current(t)
  /\ \A k \in DOMAIN packet_queue : Content(packet_queue[k]) = packet_queue[k].packet
  /\ worker = "send" => Content(qp) = qp.packet

\* What one thread logs is sent in the order it logged it and never twice: a
\* client may rely on the format messages of a packet coming before the packet.
SentInThreadOrder ==
  \A j, k \in DOMAIN sent :
    j < k /\ sent[j][1] = sent[k][1] => sent[j][2] < sent[k][2]

\* The queue implements the first-in first-out channel its callers see, with the
\* packet the worker is about to send as the channel's oldest.
InFlight == IF worker = "send" THEN <<Content(qp)>> ELSE <<>>

Channel == INSTANCE PacketChannel WITH
  open <- stop = "idle",
  chan <- InFlight \o [k \in DOMAIN packet_queue |-> Content(packet_queue[k])],
  awaited <- {Current(t) : t \in {u \in Threads :
                needs_response[u] /\ pc[u] \in {"notify", "waiting"}}}

ChannelSpec == Channel!Spec

\* While the queue runs, the worker gets to every packet pushed.
QueuedIsSent ==
  \A p \in Packets :
    (\E q \in ToSet(packet_queue) : q.packet = p) /\ running /\ worker # "none"
      ~> p \in ToSet(sent) \/ ~running

\* While the queue runs, a blocking caller, which stops a thread of the game, is
\* let go.
CallerIsReleased ==
  \A t \in Threads :
    pc[t] = "waiting" ~> pc[t] # "waiting" \/ ~running \/ worker = "none"

\* Once Stop was called the worker leaves its loop, unless the queue is deleted
\* under it because the 5 s ran out.
WorkerExits ==
  ~running /\ worker # "unborn" ~> worker \in {"exited", "none"} \/ ~QueueAlive

\* "Clean shutdown of async queue" (DllMain.cpp:235): when the shutdown is over,
\* the worker having ended in time, no hook is left waiting for an answer nobody
\* will give.
CleanShutdown ==
  stop = "pool_deleted" /\ worker = "exited" =>
    \A t \in Threads : pc[t] = "waiting" => response_event[t] = "set"
================================================================================
