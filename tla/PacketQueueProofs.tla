--------------------------- MODULE PacketQueueProofs ---------------------------
(***************************************************************************)
(* Theorems about PacketQueue for every set of threads, every pool and     *)
(* batch size and every bound on what is logged.                           *)
(***************************************************************************)
EXTENDS PacketQueue, SequenceTheorems, WellFoundedInduction, TLAPS

USE PoolAssumption, BatchAssumption, BlockingAssumption, MaxPacketsAssumption
    DEF PoolAssumption, BatchAssumption, BlockingAssumption, MaxPacketsAssumption

\* A non-empty set of naturals has a least element: what the ascending scan of
\* Allocate relies on.
LEMMA LeastElement ==
  ASSUME NEW S \in SUBSET Nat, S # {}
  PROVE  \E i \in S : \A j \in S : i <= j
<1> DEFINE R == {ss \in Nat \X Nat : ss[1] < ss[2]}
<1>1. IsWellFoundedOn(R, Nat)
  BY NatLessThanWellFounded DEF OpToRel
<1>2. PICK i \in S : \A j \in S : ~(<<j, i>> \in R)
  <2> HIDE DEF R
  <2> QED
    BY <1>1, WFMin
<1>3. \A j \in S : ~(j < i)
  BY <1>2
<1> QED
  BY <1>3

\* Allocate returns a buffer that was not in use, or a heap block.
LEMMA AllocatedIndexFree ==
  ASSUME NEW fits \in BOOLEAN
  PROVE  \/ AllocatedIndex(fits) = HEAP
         \/ AllocatedIndex(fits) \in Index /\ ~in_use[AllocatedIndex(fits)]
<1>1. CASE fits /\ FreeBuffers # {}
  <2>1. \E i \in FreeBuffers : \A j \in FreeBuffers : i <= j
    <3>1. FreeBuffers \in SUBSET Nat
      BY DEF FreeBuffers, Index
    <3> QED
      BY <1>1, <3>1, LeastElement
  <2>2. LowestFreeIndex \in FreeBuffers
    BY <2>1 DEF LowestFreeIndex
  <2> QED
    BY <1>1, <2>2 DEF AllocatedIndex, FreeBuffers
<1>2. CASE ~(fits /\ FreeBuffers # {})
  BY <1>2 DEF AllocatedIndex
<1> QED
  BY <1>1, <1>2

\* Every reachable state has the types of TypeOK: in particular the worker never
\* counts past BATCH_SIZE and holds a packet whenever it sends, frees or signals.
THEOREM TypeCorrect == Spec => []TypeOK
<1> USE DEF poolVars, queueVars, hookVars, workerVars
<1>1. Init => TypeOK
  <2> SUFFICES ASSUME Init PROVE TypeOK
    OBVIOUS
  <2>1. 0 \in 0 .. MaxPackets /\ 0 \in 0 .. BATCH_SIZE
    OBVIOUS
  <2>2. made \in [Threads -> 0 .. MaxPackets]
    BY <2>1 DEF Init
  <2>3. packet_queue \in Seq(QueuedPacket) /\ sent \in Seq(Packets \cup {NoPacket})
    BY DEF Init
  <2>4. processed \in 0 .. BATCH_SIZE
    BY <2>1 DEF Init
  <2>5. /\ pc \in [Threads -> {"idle", "filling", "create_event", "push", "notify", "waiting"}]
        /\ \A t \in Threads : pc[t] # "idle" => made[t] # 0
    BY DEF Init
  <2>6. /\ buffer_index \in [Threads -> Index \cup {HEAP}]
        /\ response_event \in [Threads -> {"none", "unset", "set", "closed"}]
        /\ needs_response \in [Threads -> BOOLEAN]
        /\ in_use \in [Index -> BOOLEAN]
        /\ data \in [Index -> Packets \cup {NoPacket}]
    BY DEF Init
  <2> QED
    BY <2>2, <2>3, <2>4, <2>5, <2>6 DEF Init, TypeOK
<1>2. TypeOK /\ [Next]_vars => TypeOK'
  <2> SUFFICES ASSUME TypeOK, [Next]_vars
               PROVE  TypeOK'
    OBVIOUS
  <2> USE DEF TypeOK
  <2>1. CASE Start
    BY <2>1 DEF Start
  <2>2. ASSUME NEW t \in Threads, NEW fits \in BOOLEAN, NEW waits \in BOOLEAN,
               Allocate(t, fits, waits)
        PROVE  TypeOK'
    <3>1. made[t] + 1 \in 1 .. MaxPackets
      BY <2>2 DEF Allocate
    <3>2. made' \in [Threads -> 0 .. MaxPackets] /\ made'[t] # 0
      BY <2>2, <3>1 DEF Allocate
    <3>3. heap' \subseteq Packets
      BY <2>2, <3>1 DEF Allocate, Packets
    <3>4. in_use' \in [Index -> BOOLEAN] /\ buffer_index' \in [Threads -> Index \cup {HEAP}]
      BY <2>2, AllocatedIndexFree DEF Allocate
    <3> QED
      BY <2>2, <3>2, <3>3, <3>4 DEF Allocate
  <2>3. ASSUME NEW t \in Threads, Fill(t) PROVE TypeOK'
    BY <2>3 DEF Fill, Current, Packets
  <2>4. ASSUME NEW t \in Threads, CreateResponseEvent(t) PROVE TypeOK'
    BY <2>4 DEF CreateResponseEvent
  <2>5. ASSUME NEW t \in Threads, CreateResponseEventFails(t) PROVE TypeOK'
    BY <2>5 DEF CreateResponseEventFails, Leave, InUseAfterFree, HeapAfterFree
  <2>6. ASSUME NEW t \in Threads, Push(t) PROVE TypeOK'
    BY <2>6 DEF Push, Current, Packets, QueuedPacket
  <2>7. ASSUME NEW t \in Threads, Notify(t) PROVE TypeOK'
    <3>1. /\ pc' \in [Threads -> {"idle", "filling", "create_event", "push", "notify", "waiting"}]
          /\ \A u \in Threads : pc'[u] # "idle" => pc[u] # "idle"
      BY <2>7 DEF Notify, Leave
    <3>2. /\ response_event' \in [Threads -> {"none", "unset", "set", "closed"}]
          /\ wake_event' \in BOOLEAN
      BY <2>7 DEF Notify
    <3>3. /\ buffer_index' \in [Threads -> Index \cup {HEAP}]
          /\ needs_response' \in [Threads -> BOOLEAN]
      BY <2>7 DEF Notify, Leave
    <3>4. made' = made
      BY <2>7 DEF Notify, Leave
    <3> QED
      BY <2>7, <3>1, <3>2, <3>3, <3>4 DEF Notify
  <2>8. ASSUME NEW t \in Threads, Return(t) PROVE TypeOK'
    BY <2>8 DEF Return, Leave
  <2>9. CASE LoopTest
    BY <2>9 DEF LoopTest, WorkerGoes
  <2>10. CASE WaitWake
    <3>1. processed' \in 0 .. BATCH_SIZE
      BY <2>10 DEF WaitWake
    <3> QED
      BY <2>10, <3>1 DEF WaitWake
  <2>11. CASE BatchTest
    BY <2>11 DEF BatchTest, WorkerGoes
  <2>12. CASE Pop
    <3>1. Head(packet_queue) \in QueuedPacket /\ Tail(packet_queue) \in Seq(QueuedPacket)
      BY <2>12 DEF Pop
    <3>2. processed' \in 0 .. BATCH_SIZE
      BY <2>12 DEF Pop
    <3> QED
      BY <2>12, <3>1, <3>2 DEF Pop
  <2>13. CASE PopNothing
    BY <2>13 DEF PopNothing, WorkerGoes
  <2>14. CASE Send
    BY <2>14 DEF Send, Content, QueuedPacket
  <2>15. CASE FreeBuffer
    BY <2>15 DEF FreeBuffer, WorkerGoes, InUseAfterFree, HeapAfterFree, QueuedPacket
  <2>16. CASE SignalResponse
    BY <2>16 DEF SignalResponse, QueuedPacket, Packets
  <2>17. CASE StopBegin
    BY <2>17 DEF StopBegin
  <2>18. CASE StopSignal
    BY <2>18 DEF StopSignal
  <2>19. CASE StopJoin
    BY <2>19 DEF StopJoin
  <2>20. CASE StopJoinTimeout
    BY <2>20 DEF StopJoinTimeout
  <2>21. CASE StopDrain
    BY <2>21 DEF StopDrain
  <2>22. CASE DeleteQueue
    BY <2>22 DEF DeleteQueue
  <2>23. CASE DeletePool
    BY <2>23 DEF DeletePool
  <2>24. CASE UNCHANGED vars
    BY <2>24 DEF vars
  <2> QED
    BY <2>1, <2>2, <2>3, <2>4, <2>5, <2>6, <2>7, <2>8, <2>9, <2>10, <2>11, <2>12, <2>13, <2>14, <2>15, <2>16, <2>17, <2>18, <2>19, <2>20, <2>21, <2>22, <2>23, <2>24
       DEF Next, Hook, HookStep, Worker, Stop
<1> QED
  BY <1>1, <1>2, PTL DEF Spec

--------------------------------------------------------------------------------
(* Who holds which pool buffer *)

\* ExclusiveBuffers is not inductive alone: Allocate keeps it because a buffer
\* not in use has no holder, Free keeps that because the holder was the only one.
BufferInv == ExclusiveBuffers /\ InUseIsHeld

\* The steps that move no buffer from one holder to another.
LEMMA HoldersUnchanged ==
  ASSUME BufferInv, UNCHANGED <<in_use, packet_queue, buffer_index>>,
         \A t \in Threads : HoldsBuffer(t)' <=> HoldsBuffer(t),
         WorkerHolds' <=> WorkerHolds,
         WorkerHolds => qp' = qp
  PROVE  BufferInv'
BY DEF BufferInv, ExclusiveBuffers, InUseIsHeld

\* Allocate hands out a buffer that nobody held, and marks it.
LEMMA AllocateBuffer ==
  ASSUME TypeOK, BufferInv, NEW t \in Threads, NEW fits \in BOOLEAN, NEW waits \in BOOLEAN,
         Allocate(t, fits, waits)
  PROVE  BufferInv'
<1> DEFINE index == AllocatedIndex(fits)
<1>1. /\ index = HEAP \/ (index \in Index /\ ~in_use[index])
      /\ HEAP \notin Index
  BY AllocatedIndexFree DEF HEAP, Index
<1>2. /\ UNCHANGED <<packet_queue, worker, qp>>
      /\ buffer_index' = [buffer_index EXCEPT ![t] = index]
      /\ in_use' = IF index = HEAP THEN in_use ELSE [in_use EXCEPT ![index] = TRUE]
      /\ ~HoldsBuffer(t) /\ HoldsBuffer(t)'
      /\ \A u \in Threads \ {t} : HoldsBuffer(u)' <=> HoldsBuffer(u)
      /\ WorkerHolds' <=> WorkerHolds
  BY DEF Allocate, TypeOK, HoldsBuffer, WorkerHolds, queueVars, workerVars
<1>3. in_use \in [Index -> BOOLEAN] /\ buffer_index \in [Threads -> Index \cup {HEAP}]
  BY DEF TypeOK
<1> HIDE DEF index
<1>4. ExclusiveBuffers'
  BY <1>1, <1>2, <1>3 DEF BufferInv, ExclusiveBuffers, InUseIsHeld
<1>5. InUseIsHeld'
  BY <1>1, <1>2, <1>3 DEF BufferInv, InUseIsHeld
<1> QED
  BY <1>4, <1>5 DEF BufferInv

\* A hook gives its buffer back when CreateEvent failed.
LEMMA GiveUpBuffer ==
  ASSUME TypeOK, BufferInv, NEW t \in Threads, CreateResponseEventFails(t)
  PROVE  BufferInv'
<1>1. /\ UNCHANGED <<packet_queue, worker, qp>>
      /\ buffer_index' = [buffer_index EXCEPT ![t] = HEAP]
      /\ in_use' = IF buffer_index[t] = HEAP THEN in_use
                   ELSE [in_use EXCEPT ![buffer_index[t]] = FALSE]
      /\ HoldsBuffer(t) /\ ~HoldsBuffer(t)'
      /\ \A u \in Threads \ {t} : HoldsBuffer(u)' <=> HoldsBuffer(u)
      /\ WorkerHolds' <=> WorkerHolds
  BY DEF CreateResponseEventFails, Leave, InUseAfterFree, TypeOK, HoldsBuffer,
         WorkerHolds, queueVars, workerVars
<1>2. /\ in_use \in [Index -> BOOLEAN]
      /\ buffer_index \in [Threads -> Index \cup {HEAP}]
      /\ HEAP \notin Index
  BY DEF TypeOK, HEAP, Index
<1>3. ExclusiveBuffers'
  BY <1>1, <1>2 DEF BufferInv, ExclusiveBuffers
<1>4. InUseIsHeld'
  BY <1>1, <1>2 DEF BufferInv, ExclusiveBuffers, InUseIsHeld
<1> QED
  BY <1>3, <1>4 DEF BufferInv

\* Pushing hands the buffer from the hook to the new last entry of the queue.
LEMMA PushBuffer ==
  ASSUME TypeOK, BufferInv, NEW t \in Threads, Push(t)
  PROVE  BufferInv'
<1> DEFINE n == Len(packet_queue)
           last == [packet |-> Current(t), buffer_index |-> buffer_index[t],
                    needs_response |-> needs_response[t]]
<1>1. /\ UNCHANGED <<in_use, buffer_index, worker, qp>>
      /\ HoldsBuffer(t) /\ ~HoldsBuffer(t)'
      /\ \A u \in Threads \ {t} : HoldsBuffer(u)' <=> HoldsBuffer(u)
      /\ WorkerHolds' <=> WorkerHolds
  BY DEF Push, TypeOK, HoldsBuffer, WorkerHolds, poolVars, workerVars
<1>2. last \in QueuedPacket /\ packet_queue \in Seq(QueuedPacket)
  BY DEF Push, TypeOK, QueuedPacket, Current, Packets
<1>3. /\ n \in Nat
      /\ DOMAIN packet_queue = 1 .. n
      /\ DOMAIN packet_queue' = 1 .. n + 1
      /\ \A k \in 1 .. n : packet_queue'[k] = packet_queue[k]
      /\ packet_queue'[n + 1].buffer_index = buffer_index[t]
  <2> HIDE DEF last
  <2>1. packet_queue' = Append(packet_queue, last)
    BY DEF Push, last
  <2>2. packet_queue' \in Seq(QueuedPacket) /\ Len(packet_queue') = n + 1
    BY <1>2, <2>1, AppendProperties
  <2>3. packet_queue'[n + 1] = last
    BY <1>2, <2>1, AppendProperties
  <2> QED
    BY <1>2, <2>1, <2>2, <2>3, AppendProperties, LenProperties DEF last
<1>4. /\ buffer_index \in [Threads -> Index \cup {HEAP}]
      /\ HEAP \notin Index
  BY DEF TypeOK, HEAP, Index
<1> HIDE DEF n, last
<1>5. ExclusiveBuffers'
  <2>1. \A u \in Threads, k \in 1 .. n + 1 :
          HoldsBuffer(u)' /\ buffer_index[u] # HEAP
            => packet_queue'[k].buffer_index # buffer_index[u]
    BY <1>1, <1>3 DEF BufferInv, ExclusiveBuffers
  <2>2. \A j, k \in 1 .. n + 1 :
          j # k /\ packet_queue'[j].buffer_index # HEAP
            => packet_queue'[j].buffer_index # packet_queue'[k].buffer_index
    BY <1>1, <1>3 DEF BufferInv, ExclusiveBuffers
  <2>3. WorkerHolds' /\ qp.buffer_index # HEAP =>
          \A k \in 1 .. n + 1 : packet_queue'[k].buffer_index # qp.buffer_index
    BY <1>1, <1>3 DEF BufferInv, ExclusiveBuffers
  <2> QED
    BY <1>1, <1>3, <2>1, <2>2, <2>3 DEF BufferInv, ExclusiveBuffers
<1>6. InUseIsHeld'
  BY <1>1, <1>3, <1>4 DEF BufferInv, InUseIsHeld
<1> QED
  BY <1>5, <1>6 DEF BufferInv

\* Popping hands the buffer of the oldest entry to the worker.
LEMMA PopBuffer ==
  ASSUME TypeOK, BufferInv, Pop
  PROVE  BufferInv'
<1> DEFINE n == Len(packet_queue)
<1>1. /\ UNCHANGED <<in_use, buffer_index, pc>>
      /\ ~WorkerHolds /\ WorkerHolds'
      /\ \A u \in Threads : HoldsBuffer(u)' <=> HoldsBuffer(u)
  BY DEF Pop, HoldsBuffer, WorkerHolds, poolVars, hookVars
<1>2. /\ n \in Nat \ {0}
      /\ DOMAIN packet_queue = 1 .. n
      /\ DOMAIN packet_queue' = 1 .. n - 1
      /\ \A k \in 1 .. n - 1 : packet_queue'[k] = packet_queue[k + 1]
      /\ qp' = packet_queue[1]
  <2>1. packet_queue \in Seq(QueuedPacket) /\ packet_queue # <<>>
    BY DEF Pop, TypeOK
  <2>2. packet_queue' = Tail(packet_queue) /\ qp' = Head(packet_queue)
    BY DEF Pop
  <2> QED
    BY <2>1, <2>2, HeadTailProperties, LenProperties, EmptySeq
<1> HIDE DEF n
<1>3. ExclusiveBuffers'
  <2>1. \A k \in 1 .. n - 1 : k + 1 \in 1 .. n /\ k + 1 # 1
    BY <1>2
  <2>2. 1 \in 1 .. n
    BY <1>2
  <2>3. \A u \in Threads, k \in 1 .. n - 1 :
          HoldsBuffer(u) /\ buffer_index[u] # HEAP
            => packet_queue'[k].buffer_index # buffer_index[u]
    BY <1>2, <2>1 DEF BufferInv, ExclusiveBuffers
  <2>4. \A j, k \in 1 .. n - 1 :
          j # k /\ packet_queue'[j].buffer_index # HEAP
            => packet_queue'[j].buffer_index # packet_queue'[k].buffer_index
    <3>1. \A j, k \in 1 .. n - 1 : j # k => j + 1 # k + 1
      BY <1>2
    <3> QED
      BY <1>2, <2>1, <3>1 DEF BufferInv, ExclusiveBuffers
  <2>5. qp'.buffer_index # HEAP =>
          /\ \A u \in Threads : HoldsBuffer(u) => buffer_index[u] # qp'.buffer_index
          /\ \A k \in 1 .. n - 1 : packet_queue'[k].buffer_index # qp'.buffer_index
    BY <1>2, <2>1, <2>2 DEF BufferInv, ExclusiveBuffers
  <2> QED
    BY <1>1, <1>2, <2>3, <2>4, <2>5 DEF BufferInv, ExclusiveBuffers
<1>4. InUseIsHeld'
  <2>1. ASSUME NEW i \in Index, NEW k \in 1 .. n, packet_queue[k].buffer_index = i
        PROVE  \/ \E j \in 1 .. n - 1 : packet_queue'[j].buffer_index = i
               \/ qp'.buffer_index = i
    <3>1. CASE k = 1
      BY <1>2, <2>1, <3>1
    <3>2. CASE k # 1
      <4>1. k - 1 \in 1 .. n - 1 /\ packet_queue'[k - 1] = packet_queue[k]
        BY <1>2, <3>2
      <4> QED
        BY <2>1, <4>1
    <3> QED
      BY <3>1, <3>2
  <2>2. ASSUME NEW i \in Index,
               \/ \E j \in 1 .. n - 1 : packet_queue'[j].buffer_index = i
               \/ qp'.buffer_index = i
        PROVE  \E k \in 1 .. n : packet_queue[k].buffer_index = i
    BY <1>2, <2>2
  <2>3. ASSUME NEW i \in Index
        PROVE  (\E k \in 1 .. n : packet_queue[k].buffer_index = i) <=>
                 \/ \E j \in 1 .. n - 1 : packet_queue'[j].buffer_index = i
                 \/ qp'.buffer_index = i
    BY <2>1, <2>2
  <2>4. \A i \in Index :
          in_use[i] <=> \/ \E u \in Threads : HoldsBuffer(u) /\ buffer_index[u] = i
                        \/ \E k \in 1 .. n : packet_queue[k].buffer_index = i
    BY <1>1, <1>2 DEF BufferInv, InUseIsHeld
  <2>5. \A i \in Index :
          (\E u \in Threads : HoldsBuffer(u)' /\ buffer_index'[u] = i) <=>
             \E u \in Threads : HoldsBuffer(u) /\ buffer_index[u] = i
    BY <1>1
  <2>6. in_use' = in_use /\ DOMAIN packet_queue' = 1 .. n - 1 /\ WorkerHolds'
    BY <1>1, <1>2
  <2> QED
    BY <2>3, <2>4, <2>5, <2>6 DEF InUseIsHeld
<1> QED
  BY <1>3, <1>4 DEF BufferInv

\* The worker gives the buffer back.
LEMMA WorkerFreesBuffer ==
  ASSUME TypeOK, BufferInv, FreeBuffer
  PROVE  BufferInv'
<1>1. /\ UNCHANGED <<packet_queue, buffer_index, pc>>
      /\ in_use' = IF qp.buffer_index = HEAP THEN in_use
                   ELSE [in_use EXCEPT ![qp.buffer_index] = FALSE]
      /\ WorkerHolds /\ ~WorkerHolds'
      /\ \A u \in Threads : HoldsBuffer(u)' <=> HoldsBuffer(u)
  BY DEF FreeBuffer, WorkerGoes, InUseAfterFree, HoldsBuffer, WorkerHolds,
         hookVars, queueVars
<1>2. /\ in_use \in [Index -> BOOLEAN]
      /\ qp.buffer_index \in Index \cup {HEAP}
      /\ HEAP \notin Index
  BY DEF FreeBuffer, TypeOK, QueuedPacket, HEAP, Index
<1>3. ExclusiveBuffers'
  BY <1>1, <1>2 DEF BufferInv, ExclusiveBuffers
<1>4. InUseIsHeld'
  BY <1>1, <1>2 DEF BufferInv, ExclusiveBuffers, InUseIsHeld
<1> QED
  BY <1>3, <1>4 DEF BufferInv

\* The drain gives back the buffers of every entry.
LEMMA DrainBuffers ==
  ASSUME TypeOK, BufferInv, StopDrain
  PROVE  BufferInv'
<1>1. /\ UNCHANGED <<buffer_index, pc, worker, qp>>
      /\ packet_queue' = <<>>
      /\ in_use' = [i \in Index |-> in_use[i]
                     /\ \A q \in ToSet(packet_queue) : q.buffer_index # i]
      /\ WorkerHolds' <=> WorkerHolds
      /\ \A u \in Threads : HoldsBuffer(u)' <=> HoldsBuffer(u)
  BY DEF StopDrain, HoldsBuffer, WorkerHolds, hookVars, workerVars
<1>2. /\ DOMAIN packet_queue' = {}
      /\ \A i \in Index : in_use'[i] <=> in_use[i]
           /\ \A k \in DOMAIN packet_queue : packet_queue[k].buffer_index # i
  <2>1. DOMAIN packet_queue' = {}
    BY <1>1
  <2>2. ToSet(packet_queue) = {packet_queue[k] : k \in DOMAIN packet_queue}
    BY DEF ToSet
  <2>3. \A i \in Index : in_use'[i] <=> in_use[i]
          /\ \A q \in ToSet(packet_queue) : q.buffer_index # i
    BY <1>1, Zenon
  <2>4. \A i \in Index : (\A q \in ToSet(packet_queue) : q.buffer_index # i)
          <=> \A k \in DOMAIN packet_queue : packet_queue[k].buffer_index # i
    BY <2>2
  <2> QED
    BY <2>1, <2>3, <2>4
<1>3. buffer_index \in [Threads -> Index \cup {HEAP}] /\ HEAP \notin Index
  BY DEF TypeOK, HEAP, Index
<1>4. ExclusiveBuffers'
  BY <1>1, <1>2 DEF BufferInv, ExclusiveBuffers
<1>5. InUseIsHeld'
  BY <1>1, <1>2, <1>3 DEF BufferInv, ExclusiveBuffers, InUseIsHeld
<1> QED
  BY <1>4, <1>5 DEF BufferInv

\* A hook that leaves resets its local index; it held no buffer any more.
LEMMA LeaverHoldsNothing ==
  ASSUME TypeOK, BufferInv, NEW t \in Threads, ~HoldsBuffer(t), ~HoldsBuffer(t)',
         UNCHANGED <<in_use, packet_queue, worker, qp>>,
         \A u \in Threads \ {t} : /\ HoldsBuffer(u)' <=> HoldsBuffer(u)
                                  /\ buffer_index'[u] = buffer_index[u]
  PROVE  BufferInv'
<1>1. ExclusiveBuffers'
  BY DEF BufferInv, ExclusiveBuffers, WorkerHolds
<1>2. InUseIsHeld'
  BY DEF BufferInv, InUseIsHeld, WorkerHolds
<1> QED
  BY <1>1, <1>2 DEF BufferInv

\* Every step keeps both invariants of the buffers.
LEMMA BufferStep ==
  ASSUME TypeOK, BufferInv, [Next]_vars
  PROVE  BufferInv'
<1> USE DEF poolVars, queueVars, hookVars, workerVars
<1>1. CASE Start
  BY <1>1, HoldersUnchanged DEF Start, HoldsBuffer, WorkerHolds
<1>2. ASSUME NEW t \in Threads, Hook(t) PROVE BufferInv'
  <2>1. ASSUME NEW fits \in BOOLEAN, NEW waits \in BOOLEAN, Allocate(t, fits, waits)
        PROVE  BufferInv'
    BY <2>1, AllocateBuffer
  <2>2. CASE Fill(t)
    BY <2>2, HoldersUnchanged DEF Fill, HoldsBuffer, WorkerHolds, TypeOK
  <2>3. CASE CreateResponseEvent(t)
    BY <2>3, HoldersUnchanged DEF CreateResponseEvent, HoldsBuffer, WorkerHolds, TypeOK
  <2>4. CASE CreateResponseEventFails(t)
    BY <2>4, GiveUpBuffer
  <2>5. CASE Push(t)
    BY <2>5, PushBuffer
  <2>6. CASE Notify(t)
    <3>1. pc[t] = "notify" /\ pc' \in {[pc EXCEPT ![t] = "idle"], [pc EXCEPT ![t] = "waiting"]}
      BY <2>6 DEF Notify, Leave
    <3>2. /\ ~HoldsBuffer(t) /\ ~HoldsBuffer(t)'
          /\ \A u \in Threads \ {t} : HoldsBuffer(u)' <=> HoldsBuffer(u)
      BY <3>1 DEF HoldsBuffer, TypeOK
    <3>3. \A u \in Threads \ {t} : buffer_index'[u] = buffer_index[u]
      BY <2>6 DEF Notify, Leave, TypeOK
    <3>4. UNCHANGED <<in_use, packet_queue, worker, qp>>
      BY <2>6 DEF Notify
    <3> QED
      BY <3>2, <3>3, <3>4, LeaverHoldsNothing
  <2>7. CASE Return(t)
    BY <2>7, LeaverHoldsNothing DEF Return, Leave, HoldsBuffer, TypeOK
  <2> QED
    BY <1>2, <2>1, <2>2, <2>3, <2>4, <2>5, <2>6, <2>7 DEF Hook, HookStep
<1>3. CASE Worker
  <2>1. CASE Pop
    BY <2>1, PopBuffer
  <2>2. CASE FreeBuffer
    BY <2>2, WorkerFreesBuffer
  <2>3. CASE LoopTest \/ WaitWake \/ BatchTest \/ PopNothing \/ SignalResponse
    BY <2>3, HoldersUnchanged
       DEF LoopTest, WaitWake, BatchTest, PopNothing, SignalResponse, WorkerGoes,
           HoldsBuffer, WorkerHolds
  <2>4. CASE Send
    BY <2>4, HoldersUnchanged DEF Send, HoldsBuffer, WorkerHolds
  <2> QED
    BY <1>3, <2>1, <2>2, <2>3, <2>4 DEF Worker
<1>4. CASE Stop
  <2>1. CASE StopDrain
    BY <2>1, DrainBuffers
  <2>2. CASE StopBegin \/ StopSignal \/ StopJoin \/ StopJoinTimeout \/ DeleteQueue \/ DeletePool
    BY <2>2, HoldersUnchanged
       DEF StopBegin, StopSignal, StopJoin, StopJoinTimeout, DeleteQueue, DeletePool,
           HoldsBuffer, WorkerHolds
  <2> QED
    BY <1>4, <2>1, <2>2 DEF Stop
<1>5. CASE UNCHANGED vars
  BY <1>5, HoldersUnchanged DEF vars, HoldsBuffer, WorkerHolds
<1> QED
  BY <1>1, <1>2, <1>3, <1>4, <1>5 DEF Next

\* The inductive invariant of the buffers, for every value of the constants.
LEMMA BufferInvariant == Spec => []BufferInv
<1>1. Init => BufferInv
  <2> SUFFICES ASSUME Init PROVE BufferInv
    OBVIOUS
  <2>1. DOMAIN packet_queue = {} /\ ~WorkerHolds /\ \A t \in Threads : ~HoldsBuffer(t)
    BY DEF Init, WorkerHolds, HoldsBuffer
  <2>2. \A i \in Index : ~in_use[i]
    BY DEF Init
  <2> QED
    BY <2>1, <2>2 DEF BufferInv, ExclusiveBuffers, InUseIsHeld
<1>2. TypeOK /\ BufferInv /\ [Next]_vars => BufferInv'
  BY BufferStep
<1> QED
  BY <1>1, <1>2, TypeCorrect, PTL DEF Spec

\* No two holders ever hold the same pool buffer.
THEOREM BuffersExclusive == Spec => []ExclusiveBuffers
BY BufferInvariant, PTL DEF BufferInv

\* A pool buffer is in use exactly while somebody holds it: none is freed under
\* its holder and none leaks.
THEOREM BuffersHeld == Spec => []InUseIsHeld
BY BufferInvariant, PTL DEF BufferInv

--------------------------------------------------------------------------------
(* What is in the buffers *)

\* Only Fill writes into a buffer, and it writes into one its hook holds alone.
LEMMA FillContent ==
  ASSUME TypeOK, BufferInv, ContentIntact, NEW t \in Threads, Fill(t)
  PROVE  ContentIntact'
<1>1. /\ UNCHANGED <<packet_queue, buffer_index, made, worker, qp>>
      /\ data' = IF buffer_index[t] = HEAP THEN data
                 ELSE [data EXCEPT ![buffer_index[t]] = Current(t)]
      /\ HoldsBuffer(t)
      /\ pc' = [pc EXCEPT ![t] = IF needs_response[t] THEN "create_event" ELSE "push"]
  BY DEF Fill, HoldsBuffer, queueVars, workerVars
<1>2. /\ pc \in [Threads -> {"idle", "filling", "create_event", "push", "notify", "waiting"}]
      /\ buffer_index \in [Threads -> Index \cup {HEAP}]
      /\ data \in [Index -> Packets \cup {NoPacket}]
      /\ HEAP \notin Index
  BY DEF TypeOK, HEAP, Index
<1>3. \A u \in Threads : Current(u)' = Current(u)
  BY <1>1 DEF Current
<1>4. ASSUME NEW u \in Threads, pc'[u] \in {"create_event", "push"}, buffer_index[u] # HEAP
      PROVE  data'[buffer_index[u]] = Current(u)
  <2>1. CASE u = t
    BY <1>1, <1>2, <1>4, <2>1
  <2>2. CASE u # t
    <3>1. pc[u] = pc'[u] /\ HoldsBuffer(u)
      BY <1>1, <1>2, <1>4, <2>2 DEF HoldsBuffer
    <3>2. buffer_index[t] # HEAP => buffer_index[t] # buffer_index[u]
      BY <1>1, <2>2, <3>1 DEF BufferInv, ExclusiveBuffers
    <3>3. data[buffer_index[u]] = Current(u)
      BY <1>4, <3>1 DEF ContentIntact
    <3> QED
      BY <1>1, <1>2, <1>4, <3>2, <3>3
  <2> QED
    BY <2>1, <2>2
<1>5. ASSUME NEW k \in DOMAIN packet_queue
      PROVE  Content(packet_queue[k])' = packet_queue[k].packet
  <2>1. buffer_index[t] # HEAP => packet_queue[k].buffer_index # buffer_index[t]
    BY <1>1 DEF BufferInv, ExclusiveBuffers
  <2>2. Content(packet_queue[k]) = packet_queue[k].packet
    BY DEF ContentIntact
  <2> QED
    BY <1>1, <1>2, <2>1, <2>2 DEF Content
<1>6. worker = "send" => Content(qp)' = qp.packet
  <2>1. worker = "send" /\ buffer_index[t] # HEAP /\ qp.buffer_index # HEAP
          => buffer_index[t] # qp.buffer_index
    BY <1>1 DEF BufferInv, ExclusiveBuffers, WorkerHolds
  <2>2. worker = "send" => Content(qp) = qp.packet
    BY DEF ContentIntact
  <2> QED
    BY <1>1, <1>2, <2>1, <2>2 DEF Content
<1> QED
  BY <1>1, <1>3, <1>4, <1>5, <1>6 DEF ContentIntact

\* A buffer that is pushed takes its bytes into the queue.
LEMMA PushContent ==
  ASSUME TypeOK, ContentIntact, NEW t \in Threads, Push(t)
  PROVE  ContentIntact'
<1> DEFINE n == Len(packet_queue)
           last == [packet |-> Current(t), buffer_index |-> buffer_index[t],
                    needs_response |-> needs_response[t]]
<1>1. /\ UNCHANGED <<data, buffer_index, made, worker, qp>>
      /\ pc[t] = "push" /\ pc' = [pc EXCEPT ![t] = "notify"]
      /\ pc \in [Threads -> {"idle", "filling", "create_event", "push", "notify", "waiting"}]
  BY DEF Push, TypeOK, poolVars, workerVars
<1>2. /\ n \in Nat
      /\ DOMAIN packet_queue = 1 .. n
      /\ DOMAIN packet_queue' = 1 .. n + 1
      /\ \A k \in 1 .. n : packet_queue'[k] = packet_queue[k]
      /\ packet_queue'[n + 1] = last
  <2>1. last \in QueuedPacket /\ packet_queue \in Seq(QueuedPacket)
    BY DEF Push, TypeOK, QueuedPacket, Current, Packets
  <2> HIDE DEF last
  <2>2. packet_queue' = Append(packet_queue, last)
    BY DEF Push, last
  <2>3. packet_queue' \in Seq(QueuedPacket) /\ Len(packet_queue') = n + 1
    BY <2>1, <2>2, AppendProperties
  <2> QED
    BY <2>1, <2>2, <2>3, AppendProperties, LenProperties
<1>3. buffer_index[t] = HEAP \/ data[buffer_index[t]] = Current(t)
  BY <1>1 DEF ContentIntact
<1>4. Content(last) = last.packet
  BY <1>3 DEF Content
<1> HIDE DEF n, last
<1>5. \A k \in 1 .. n + 1 : Content(packet_queue'[k]) = packet_queue'[k].packet
  <2>1. \A k \in 1 .. n : Content(packet_queue[k]) = packet_queue[k].packet
    BY <1>2 DEF ContentIntact
  <2>2. \A k \in 1 .. n + 1 : k \in 1 .. n \/ k = n + 1
    BY <1>2
  <2> QED
    BY <1>2, <1>4, <2>1, <2>2
<1>6. \A u \in Threads : pc'[u] \in {"create_event", "push"} /\ buffer_index[u] # HEAP
        => data[buffer_index[u]] = Current(u)
  BY <1>1 DEF ContentIntact
<1>7. (worker = "send" => Content(qp) = qp.packet)' /\ \A u \in Threads : Current(u)' = Current(u)
  BY <1>1 DEF ContentIntact, Content, Current
<1> QED
  BY <1>1, <1>2, <1>5, <1>6, <1>7 DEF ContentIntact, Content, Current

\* The packet that is popped has the bytes it was queued with.
LEMMA PopContent ==
  ASSUME TypeOK, ContentIntact, Pop
  PROVE  ContentIntact'
<1> DEFINE n == Len(packet_queue)
<1>1. /\ UNCHANGED <<data, buffer_index, made, pc>>
      /\ packet_queue \in Seq(QueuedPacket) /\ packet_queue # <<>>
      /\ packet_queue' = Tail(packet_queue) /\ qp' = Head(packet_queue)
  BY DEF Pop, TypeOK, poolVars, hookVars
<1>2. /\ n \in Nat \ {0}
      /\ DOMAIN packet_queue = 1 .. n
      /\ DOMAIN packet_queue' = 1 .. n - 1
      /\ \A k \in 1 .. n - 1 : packet_queue'[k] = packet_queue[k + 1]
      /\ qp' = packet_queue[1]
  BY <1>1, HeadTailProperties, LenProperties, EmptySeq
<1> HIDE DEF n
<1>3. \A k \in 1 .. n : Content(packet_queue[k]) = packet_queue[k].packet
  BY <1>2 DEF ContentIntact
<1>4. 1 \in 1 .. n /\ \A k \in 1 .. n - 1 : k + 1 \in 1 .. n
  BY <1>2
<1>5. \A k \in 1 .. n - 1 : Content(packet_queue'[k]) = packet_queue'[k].packet
  BY <1>2, <1>3, <1>4
<1>6. Content(qp') = qp'.packet
  BY <1>2, <1>3, <1>4
<1> QED
  BY <1>1, <1>2, <1>5, <1>6 DEF ContentIntact, Current, Content

\* The steps that neither write a buffer nor queue one.
LEMMA ContentUnchanged ==
  ASSUME ContentIntact, UNCHANGED <<data, packet_queue>>,
         worker' = "send" => worker = "send" /\ qp' = qp,
         \A u \in Threads : pc'[u] \in {"create_event", "push"} =>
           /\ pc[u] \in {"create_event", "push"}
           /\ buffer_index'[u] = buffer_index[u] /\ made'[u] = made[u]
  PROVE  ContentIntact'
BY DEF ContentIntact, Content, Current

\* Every step leaves the bytes of every queued buffer alone.
LEMMA ContentStep ==
  ASSUME TypeOK, BufferInv, ContentIntact, [Next]_vars
  PROVE  ContentIntact'
<1> USE DEF poolVars, queueVars, hookVars, workerVars
<1>1. CASE Start
  BY <1>1, ContentUnchanged DEF Start
<1>2. ASSUME NEW t \in Threads, Hook(t) PROVE ContentIntact'
  <2>1. ASSUME NEW fits \in BOOLEAN, NEW waits \in BOOLEAN, Allocate(t, fits, waits)
        PROVE  ContentIntact'
    BY <2>1, ContentUnchanged DEF Allocate, TypeOK
  <2>2. CASE Fill(t)
    BY <2>2, FillContent
  <2>3. CASE CreateResponseEvent(t)
    BY <2>3, ContentUnchanged DEF CreateResponseEvent, TypeOK
  <2>4. CASE CreateResponseEventFails(t)
    BY <2>4, ContentUnchanged DEF CreateResponseEventFails, Leave, TypeOK
  <2>5. CASE Push(t)
    BY <2>5, PushContent
  <2>6. CASE Notify(t)
    BY <2>6, ContentUnchanged DEF Notify, Leave, TypeOK
  <2>7. CASE Return(t)
    BY <2>7, ContentUnchanged DEF Return, Leave, TypeOK
  <2> QED
    BY <1>2, <2>1, <2>2, <2>3, <2>4, <2>5, <2>6, <2>7 DEF Hook, HookStep
<1>3. CASE Worker
  <2>1. CASE Pop
    BY <2>1, PopContent
  <2>2. CASE FreeBuffer
    BY <2>2, ContentUnchanged DEF FreeBuffer, WorkerGoes
  <2>3. CASE LoopTest \/ WaitWake \/ BatchTest \/ PopNothing \/ SignalResponse \/ Send
    BY <2>3, ContentUnchanged
       DEF LoopTest, WaitWake, BatchTest, PopNothing, SignalResponse, Send, WorkerGoes
  <2> QED
    BY <1>3, <2>1, <2>2, <2>3 DEF Worker
<1>4. CASE Stop
  <2>1. CASE StopDrain
    <3>1. DOMAIN packet_queue' = {}
      BY <2>1 DEF StopDrain
    <3> QED
      BY <2>1, <3>1 DEF StopDrain, ContentIntact, Content, Current
  <2>2. CASE StopBegin \/ StopSignal \/ StopJoin \/ StopJoinTimeout \/ DeleteQueue \/ DeletePool
    BY <2>2, ContentUnchanged
       DEF StopBegin, StopSignal, StopJoin, StopJoinTimeout, DeleteQueue, DeletePool
  <2> QED
    BY <1>4, <2>1, <2>2 DEF Stop
<1>5. CASE UNCHANGED vars
  BY <1>5, ContentUnchanged DEF vars
<1> QED
  BY <1>1, <1>2, <1>3, <1>4, <1>5 DEF Next

\* From the moment a hook has written its message until the worker has sent it,
\* the buffer holds that message and nothing else.
THEOREM ContentStaysIntact == Spec => []ContentIntact
<1>1. Init => ContentIntact
  <2> SUFFICES ASSUME Init PROVE ContentIntact
    OBVIOUS
  <2>1. DOMAIN packet_queue = {} /\ worker # "send" /\ \A t \in Threads : pc[t] = "idle"
    BY DEF Init
  <2> QED
    BY <2>1 DEF ContentIntact
<1>2. TypeOK /\ BufferInv /\ ContentIntact /\ [Next]_vars => ContentIntact'
  BY ContentStep
<1> QED
  BY <1>1, <1>2, TypeCorrect, BufferInvariant, PTL DEF Spec

--------------------------------------------------------------------------------
(* Who holds which heap block *)

\* A heap block has the name of its packet, so what makes the blocks of two
\* holders different is that no packet is held twice: a queued packet is older
\* than the one its thread is making, and Allocate makes a newer one yet.
Older(p) ==
  /\ p[2] <= made[p[1]]
  /\ HoldsBuffer(p[1]) => p[2] < made[p[1]]

HeldOnce ==
  /\ \A k \in DOMAIN packet_queue : Older(packet_queue[k].packet)
  /\ \A j, k \in DOMAIN packet_queue :
       j # k => packet_queue[j].packet # packet_queue[k].packet
  /\ WorkerHolds => /\ Older(qp.packet)
                    /\ \A k \in DOMAIN packet_queue : packet_queue[k].packet # qp.packet

HookHeap(p) ==
  \E t \in Threads : HoldsBuffer(t) /\ buffer_index[t] = HEAP /\ p = Current(t)
QueueHeap(p) ==
  \E k \in DOMAIN packet_queue :
    packet_queue[k].buffer_index = HEAP /\ p = packet_queue[k].packet
WorkerHeap(p) == WorkerHolds /\ qp.buffer_index = HEAP /\ p = qp.packet

\* HeapIsHeld, packet by packet.
HeapMembers ==
  \A p \in Packets : p \in heap <=> HookHeap(p) \/ QueueHeap(p) \/ WorkerHeap(p)

HeapInv == HeldOnce /\ HeapMembers

\* What a queued packet is made of.
LEMMA PacketOf ==
  ASSUME NEW q \in QueuedPacket
  PROVE  q.packet \in Packets /\ q.packet[1] \in Threads /\ q.packet[2] \in Nat
BY DEF QueuedPacket, Packets

\* The packet a hook is making is not the one of another hook, not queued and
\* not with the worker.
LEMMA CurrentIsNew ==
  ASSUME TypeOK, HeldOnce, NEW t \in Threads
  PROVE  /\ \A u \in Threads : u # t => Current(u) # Current(t)
         /\ HoldsBuffer(t) =>
              /\ \A k \in DOMAIN packet_queue : packet_queue[k].packet # Current(t)
              /\ WorkerHolds => qp.packet # Current(t)
<1>1. Current(t)[1] = t /\ Current(t)[2] = made[t] /\ \A u \in Threads : Current(u)[1] = u
  BY DEF Current
<1>2. made[t] \in Nat
  BY DEF TypeOK
<1>3. ASSUME NEW p, Older(p), HoldsBuffer(t) PROVE p # Current(t)
  BY <1>1, <1>2, <1>3 DEF Older
<1> QED
  BY <1>1, <1>3 DEF HeldOnce

\* The steps that move no packet from one holder to another.
LEMMA HeapUnchanged ==
  ASSUME TypeOK, HeapInv, UNCHANGED <<heap, packet_queue, made>>,
         \A t \in Threads : /\ HoldsBuffer(t)' <=> HoldsBuffer(t)
                            /\ HoldsBuffer(t) => buffer_index'[t] = buffer_index[t],
         WorkerHolds' <=> WorkerHolds,
         WorkerHolds => qp' = qp
  PROVE  HeapInv'
<1>1. /\ \A k \in DOMAIN packet_queue : packet_queue[k].packet[1] \in Threads
      /\ WorkerHolds => qp.packet[1] \in Threads
  BY PacketOf, ElementOfSeq, LenProperties DEF TypeOK, WorkerHolds
<1>2. HeldOnce'
  BY <1>1 DEF HeapInv, HeldOnce, Older
<1>3. \A p : /\ HookHeap(p)' <=> HookHeap(p)
             /\ QueueHeap(p)' <=> QueueHeap(p)
             /\ WorkerHeap(p)' <=> WorkerHeap(p)
  BY DEF HookHeap, QueueHeap, WorkerHeap, Current
<1> QED
  BY <1>2, <1>3 DEF HeapInv, HeapMembers

\* What is older than its thread's packet is older than the next one too.
LEMMA OlderStill ==
  ASSUME TypeOK, NEW t \in Threads, NEW fits \in BOOLEAN, NEW waits \in BOOLEAN,
         Allocate(t, fits, waits), NEW p \in Packets, Older(p)
  PROVE  Older(p)'
<1>1. /\ made' = [made EXCEPT ![t] = @ + 1]
      /\ made \in [Threads -> Nat]
      /\ \A u \in Threads \ {t} : HoldsBuffer(u)' <=> HoldsBuffer(u)
  BY DEF Allocate, TypeOK, HoldsBuffer
<1>2. p[1] \in Threads /\ p[2] \in Nat
  BY DEF Packets
<1>3. CASE p[1] = t
  <2>1. p[2] <= made[t] /\ made'[t] = made[t] + 1 /\ made[t] \in Nat
    BY <1>1, <1>3 DEF Older
  <2>2. p[2] < made'[t]
    BY <1>2, <2>1
  <2> QED
    BY <1>2, <1>3, <2>1, <2>2 DEF Older
<1>4. CASE p[1] # t
  BY <1>1, <1>2, <1>4 DEF Older
<1> QED
  BY <1>3, <1>4

\* Allocate makes a packet nobody holds, and its block when there is no buffer.
LEMMA AllocateHeap ==
  ASSUME TypeOK, HeapInv, NEW t \in Threads, NEW fits \in BOOLEAN, NEW waits \in BOOLEAN,
         Allocate(t, fits, waits)
  PROVE  HeapInv'
<1> DEFINE index == AllocatedIndex(fits)
           new == <<t, made[t] + 1>>
<1>1. /\ UNCHANGED <<packet_queue, worker, qp>>
      /\ buffer_index' = [buffer_index EXCEPT ![t] = index]
      /\ made' = [made EXCEPT ![t] = @ + 1]
      /\ heap' = IF index = HEAP THEN heap \cup {new} ELSE heap
      /\ ~HoldsBuffer(t) /\ HoldsBuffer(t)'
      /\ \A u \in Threads \ {t} : HoldsBuffer(u)' <=> HoldsBuffer(u)
      /\ WorkerHolds' <=> WorkerHolds
  BY DEF Allocate, TypeOK, HoldsBuffer, WorkerHolds, queueVars, workerVars
<1>2. /\ made \in [Threads -> Nat]
      /\ buffer_index \in [Threads -> Index \cup {HEAP}]
      /\ made'[t] = made[t] + 1 /\ \A u \in Threads \ {t} : made'[u] = made[u]
  BY <1>1 DEF TypeOK
<1>3. ASSUME NEW p \in Packets, Older(p) PROVE Older(p)'
  BY <1>3, OlderStill
<1>4. /\ \A k \in DOMAIN packet_queue : packet_queue[k].packet \in Packets
      /\ WorkerHolds => qp.packet \in Packets
  BY PacketOf, ElementOfSeq, LenProperties DEF TypeOK, WorkerHolds
<1> HIDE DEF index, new
<1>5. HeldOnce'
  <2>1. \A k \in DOMAIN packet_queue : Older(packet_queue[k].packet)'
    BY <1>1, <1>3, <1>4 DEF HeapInv, HeldOnce
  <2>2. WorkerHolds => Older(qp.packet)'
    BY <1>1, <1>3, <1>4 DEF HeapInv, HeldOnce
  <2> QED
    BY <1>1, <2>1, <2>2 DEF HeapInv, HeldOnce
<1>6. \A p : (QueueHeap(p)' <=> QueueHeap(p)) /\ (WorkerHeap(p)' <=> WorkerHeap(p))
  BY <1>1 DEF QueueHeap, WorkerHeap
<1>7. \A p : HookHeap(p)' <=> HookHeap(p) \/ (index = HEAP /\ p = new)
  <2>1. Current(t)' = new /\ \A u \in Threads \ {t} : Current(u)' = Current(u)
    BY <1>2 DEF Current, new
  <2>2. buffer_index'[t] = index /\ \A u \in Threads \ {t} : buffer_index'[u] = buffer_index[u]
    BY <1>1, <1>2
  <2> QED
    BY <1>1, <2>1, <2>2 DEF HookHeap
<1>8. HeapMembers'
  BY <1>1, <1>6, <1>7 DEF HeapInv, HeapMembers
<1> QED
  BY <1>5, <1>8 DEF HeapInv

\* A hook deletes its block when CreateEvent failed.
LEMMA GiveUpHeap ==
  ASSUME TypeOK, HeapInv, NEW t \in Threads, CreateResponseEventFails(t)
  PROVE  HeapInv'
<1>1. /\ UNCHANGED <<packet_queue, worker, qp, made>>
      /\ buffer_index' = [buffer_index EXCEPT ![t] = HEAP]
      /\ heap' = IF buffer_index[t] = HEAP THEN heap \ {Current(t)} ELSE heap
      /\ HoldsBuffer(t) /\ ~HoldsBuffer(t)'
      /\ \A u \in Threads \ {t} : HoldsBuffer(u)' <=> HoldsBuffer(u)
      /\ WorkerHolds' <=> WorkerHolds
  BY DEF CreateResponseEventFails, Leave, HeapAfterFree, TypeOK, HoldsBuffer,
         WorkerHolds, queueVars, workerVars
<1>2. /\ buffer_index \in [Threads -> Index \cup {HEAP}]
      /\ \A k \in DOMAIN packet_queue : packet_queue[k].packet[1] \in Threads
      /\ WorkerHolds => qp.packet[1] \in Threads
  BY PacketOf, ElementOfSeq, LenProperties DEF TypeOK, WorkerHolds
<1>3. HeldOnce'
  BY <1>1, <1>2 DEF HeapInv, HeldOnce, Older
<1>4. \A p : (QueueHeap(p)' <=> QueueHeap(p)) /\ (WorkerHeap(p)' <=> WorkerHeap(p))
  BY <1>1 DEF QueueHeap, WorkerHeap
<1>5. \A p : HookHeap(p) <=> HookHeap(p)' \/ (buffer_index[t] = HEAP /\ p = Current(t))
  <2>1. \A u \in Threads : Current(u)' = Current(u)
    BY <1>1 DEF Current
  <2>2. \A u \in Threads \ {t} : buffer_index'[u] = buffer_index[u]
    BY <1>1, <1>2
  <2> QED
    BY <1>1, <2>1, <2>2 DEF HookHeap
<1>6. ASSUME NEW p, p = Current(t)
      PROVE  ~HookHeap(p)' /\ ~QueueHeap(p) /\ ~WorkerHeap(p)
  <2>1. HeldOnce
    BY DEF HeapInv
  <2>2. \A u \in Threads : Current(u)' = Current(u)
    BY <1>1 DEF Current
  <2> QED
    BY <1>1, <1>6, <2>1, <2>2, CurrentIsNew DEF HookHeap, QueueHeap, WorkerHeap
<1>7. ASSUME NEW p \in Packets
      PROVE  p \in heap' <=> HookHeap(p)' \/ QueueHeap(p)' \/ WorkerHeap(p)'
  <2>1. p \in heap <=> HookHeap(p) \/ QueueHeap(p) \/ WorkerHeap(p)
    BY DEF HeapInv, HeapMembers
  <2>2. CASE buffer_index[t] = HEAP /\ p = Current(t)
    BY <1>1, <1>4, <1>6, <2>2
  <2>3. CASE ~(buffer_index[t] = HEAP /\ p = Current(t))
    BY <1>1, <1>4, <1>5, <2>1, <2>3
  <2> QED
    BY <2>2, <2>3
<1> QED
  BY <1>3, <1>7 DEF HeapInv, HeapMembers

\* The new last entry of the queue takes the packet over from its hook.
LEMMA PushHeap ==
  ASSUME TypeOK, HeapInv, NEW t \in Threads, Push(t)
  PROVE  HeapInv'
<1> DEFINE n == Len(packet_queue)
           last == [packet |-> Current(t), buffer_index |-> buffer_index[t],
                    needs_response |-> needs_response[t]]
<1>1. /\ UNCHANGED <<heap, buffer_index, worker, qp, made>>
      /\ HoldsBuffer(t) /\ ~HoldsBuffer(t)'
      /\ \A u \in Threads \ {t} : HoldsBuffer(u)' <=> HoldsBuffer(u)
      /\ WorkerHolds' <=> WorkerHolds
  BY DEF Push, TypeOK, HoldsBuffer, WorkerHolds, poolVars, workerVars
<1>2. last \in QueuedPacket /\ packet_queue \in Seq(QueuedPacket)
  BY DEF Push, TypeOK, QueuedPacket, Current, Packets
<1>3. /\ n \in Nat
      /\ DOMAIN packet_queue = 1 .. n
      /\ DOMAIN packet_queue' = 1 .. n + 1
      /\ \A k \in 1 .. n : packet_queue'[k] = packet_queue[k]
      /\ packet_queue'[n + 1] = last
  <2> HIDE DEF last
  <2>1. packet_queue' = Append(packet_queue, last)
    BY DEF Push, last
  <2>2. packet_queue' \in Seq(QueuedPacket) /\ Len(packet_queue') = n + 1
    BY <1>2, <2>1, AppendProperties
  <2> QED
    BY <1>2, <2>1, <2>2, AppendProperties, LenProperties
<1>4. last.packet = Current(t) /\ last.buffer_index = buffer_index[t]
  OBVIOUS
<1>5. /\ \A k \in 1 .. n : packet_queue[k].packet[1] \in Threads
      /\ WorkerHolds => qp.packet[1] \in Threads
  BY <1>3, PacketOf, ElementOfSeq DEF TypeOK, WorkerHolds
<1> HIDE DEF n, last
<1>6. \A k \in 1 .. n + 1 : k \in 1 .. n \/ k = n + 1
  BY <1>3
<1>7. /\ \A k \in 1 .. n : packet_queue[k].packet # Current(t)
      /\ WorkerHolds => qp.packet # Current(t)
  BY <1>1, <1>3, CurrentIsNew DEF HeapInv
<1>8. HeldOnce'
  <2>1. \A k \in 1 .. n + 1 : Older(packet_queue[k].packet)'
    <3>1. \A k \in 1 .. n : Older(packet_queue[k].packet)
      BY <1>3 DEF HeapInv, HeldOnce
    <3>2. ASSUME NEW k \in 1 .. n + 1 PROVE Older(packet_queue[k].packet)'
      <4>1. CASE k \in 1 .. n
        <5>1. packet_queue'[k].packet = packet_queue[k].packet /\ packet_queue[k].packet[1] \in Threads
          BY <1>3, <1>5, <4>1
        <5> QED
          BY <1>1, <3>1, <4>1, <5>1 DEF Older
      <4>2. CASE k = n + 1
        <5>1. packet_queue'[k] = last
          BY <1>3, <4>2
        <5>2. last.packet[1] = t /\ last.packet[2] = made[t] /\ made[t] \in Nat
          BY <1>4 DEF Current, TypeOK
        <5> QED
          BY <1>1, <5>1, <5>2 DEF Older
      <4> QED
        BY <1>6, <4>1, <4>2
    <3> QED
      BY <3>2
  <2>2. \A j, k \in 1 .. n + 1 : j # k => packet_queue'[j].packet # packet_queue'[k].packet
    BY <1>3, <1>4, <1>6, <1>7 DEF HeapInv, HeldOnce
  <2>3. WorkerHolds => /\ Older(qp.packet)'
                       /\ \A k \in 1 .. n + 1 : packet_queue'[k].packet # qp.packet
    <3>1. WorkerHolds => Older(qp.packet)'
      BY <1>1, <1>5 DEF HeapInv, HeldOnce, Older
    <3> QED
      BY <1>3, <1>4, <1>6, <1>7, <3>1 DEF HeapInv, HeldOnce
  <2> QED
    BY <1>1, <1>3, <2>1, <2>2, <2>3 DEF HeldOnce
<1>9. \A p : /\ WorkerHeap(p)' <=> WorkerHeap(p)
             /\ HookHeap(p) <=> HookHeap(p)' \/ (buffer_index[t] = HEAP /\ p = Current(t))
  <2>1. \A u \in Threads : Current(u)' = Current(u)
    BY <1>1 DEF Current
  <2> QED
    BY <1>1, <2>1 DEF WorkerHeap, HookHeap
<1>10. \A p : QueueHeap(p)' <=> QueueHeap(p) \/ (buffer_index[t] = HEAP /\ p = Current(t))
  <2>1. n + 1 \in 1 .. n + 1 /\ \A k \in 1 .. n : k \in 1 .. n + 1
    BY <1>3
  <2> QED
    BY <1>3, <1>4, <1>6, <2>1 DEF QueueHeap
<1>11. ASSUME NEW p \in Packets
       PROVE  p \in heap' <=> HookHeap(p)' \/ QueueHeap(p)' \/ WorkerHeap(p)'
  <2>1. p \in heap <=> HookHeap(p) \/ QueueHeap(p) \/ WorkerHeap(p)
    BY DEF HeapInv, HeapMembers
  <2>2. heap' = heap
    BY <1>1
  <2> QED
    BY <1>9, <1>10, <2>1, <2>2
<1> QED
  BY <1>8, <1>11 DEF HeapInv, HeapMembers

\* The worker takes the packet over from the oldest entry.
LEMMA PopHeap ==
  ASSUME TypeOK, HeapInv, Pop
  PROVE  HeapInv'
<1> DEFINE n == Len(packet_queue)
<1>1. /\ UNCHANGED <<heap, buffer_index, pc, made>>
      /\ ~WorkerHolds /\ WorkerHolds'
      /\ \A u \in Threads : HoldsBuffer(u)' <=> HoldsBuffer(u)
      /\ packet_queue \in Seq(QueuedPacket) /\ packet_queue # <<>>
      /\ packet_queue' = Tail(packet_queue) /\ qp' = Head(packet_queue)
  BY DEF Pop, HoldsBuffer, WorkerHolds, poolVars, hookVars, TypeOK
<1>2. /\ n \in Nat \ {0}
      /\ DOMAIN packet_queue = 1 .. n
      /\ DOMAIN packet_queue' = 1 .. n - 1
      /\ \A k \in 1 .. n - 1 : packet_queue'[k] = packet_queue[k + 1]
      /\ qp' = packet_queue[1]
  BY <1>1, HeadTailProperties, LenProperties, EmptySeq
<1>3. \A k \in 1 .. n : packet_queue[k].packet[1] \in Threads
  BY <1>1, <1>2, PacketOf, ElementOfSeq
<1> HIDE DEF n
<1>4. 1 \in 1 .. n /\ \A k \in 1 .. n - 1 : k + 1 \in 1 .. n /\ k + 1 # 1
  BY <1>2
<1>5. /\ \A k \in 1 .. n : Older(packet_queue[k].packet)
      /\ \A j, k \in 1 .. n : j # k => packet_queue[j].packet # packet_queue[k].packet
  BY <1>2 DEF HeapInv, HeldOnce
<1>6. HeldOnce'
  <2>1. ASSUME NEW k \in 1 .. n - 1 PROVE Older(packet_queue[k].packet)'
    <3>1. packet_queue'[k] = packet_queue[k + 1]
      BY <1>2
    <3>2. k + 1 \in 1 .. n
      BY <1>4
    <3>3. /\ Older(packet_queue[k + 1].packet)
          /\ packet_queue[k + 1].packet[1] \in Threads
      BY <1>3, <1>5, <3>2
    <3> QED
      BY <1>1, <3>1, <3>3 DEF Older
  <2>2. \A j, k \in 1 .. n - 1 : j # k => packet_queue'[j].packet # packet_queue'[k].packet
    <3>1. \A j, k \in 1 .. n - 1 : j # k => j + 1 # k + 1
      BY <1>2
    <3> QED
      BY <1>2, <1>4, <1>5, <3>1
  <2>3. Older(qp.packet)'
    <3>1. Older(packet_queue[1].packet) /\ packet_queue[1].packet[1] \in Threads
      BY <1>3, <1>4, <1>5
    <3> QED
      BY <1>1, <1>2, <3>1 DEF Older
  <2>4. \A k \in 1 .. n - 1 : packet_queue'[k].packet # qp'.packet
    BY <1>2, <1>4, <1>5
  <2> QED
    BY <1>2, <2>1, <2>2, <2>3, <2>4 DEF HeldOnce
<1>7. \A p : HookHeap(p)' <=> HookHeap(p)
  <2>1. \A u \in Threads : Current(u)' = Current(u)
    BY <1>1 DEF Current
  <2> QED
    BY <1>1, <2>1 DEF HookHeap
<1>8. ASSUME NEW p PROVE QueueHeap(p) <=> QueueHeap(p)' \/ WorkerHeap(p)'
  <2>1. ASSUME NEW k \in 1 .. n, packet_queue[k].buffer_index = HEAP, p = packet_queue[k].packet
        PROVE  QueueHeap(p)' \/ WorkerHeap(p)'
    <3>1. CASE k = 1
      BY <1>1, <1>2, <2>1, <3>1 DEF WorkerHeap
    <3>2. CASE k # 1
      <4>1. k - 1 \in 1 .. n - 1 /\ (k - 1) + 1 = k
        BY <1>2, <3>2
      <4>2. packet_queue'[k - 1] = packet_queue[k]
        BY <1>2, <4>1
      <4> QED
        BY <1>2, <2>1, <4>1, <4>2 DEF QueueHeap
    <3> QED
      BY <3>1, <3>2
  <2>2. QueueHeap(p) => QueueHeap(p)' \/ WorkerHeap(p)'
    BY <1>2, <2>1 DEF QueueHeap
  <2>3. QueueHeap(p)' => QueueHeap(p)
    BY <1>2, <1>4 DEF QueueHeap
  <2>4. WorkerHeap(p)' => QueueHeap(p)
    BY <1>2, <1>4 DEF QueueHeap, WorkerHeap
  <2> QED
    BY <2>2, <2>3, <2>4
<1>9. ASSUME NEW p \in Packets
      PROVE  p \in heap' <=> HookHeap(p)' \/ QueueHeap(p)' \/ WorkerHeap(p)'
  <2>1. p \in heap <=> HookHeap(p) \/ QueueHeap(p) \/ WorkerHeap(p)
    BY DEF HeapInv, HeapMembers
  <2>2. heap' = heap /\ ~WorkerHeap(p)
    BY <1>1 DEF WorkerHeap
  <2> QED
    BY <1>7, <1>8, <2>1, <2>2
<1> QED
  BY <1>6, <1>9 DEF HeapInv, HeapMembers

\* The worker deletes the block of the packet it holds, which nobody else does.
LEMMA WorkerFreesHeap ==
  ASSUME TypeOK, HeapInv, FreeBuffer
  PROVE  HeapInv'
<1>1. /\ UNCHANGED <<packet_queue, buffer_index, pc, made>>
      /\ heap' = IF qp.buffer_index = HEAP THEN heap \ {qp.packet} ELSE heap
      /\ WorkerHolds /\ ~WorkerHolds'
      /\ \A u \in Threads : HoldsBuffer(u)' <=> HoldsBuffer(u)
  BY DEF FreeBuffer, WorkerGoes, HeapAfterFree, HoldsBuffer, WorkerHolds,
         hookVars, queueVars
<1>2. \A k \in DOMAIN packet_queue : packet_queue[k].packet[1] \in Threads
  BY PacketOf, ElementOfSeq, LenProperties DEF TypeOK
<1>3. HeldOnce'
  BY <1>1, <1>2 DEF HeapInv, HeldOnce, Older
<1>4. \A u \in Threads : Current(u)' = Current(u)
  BY <1>1 DEF Current
<1>5. \A p : (HookHeap(p)' <=> HookHeap(p)) /\ (QueueHeap(p)' <=> QueueHeap(p))
  BY <1>1, <1>4 DEF HookHeap, QueueHeap
<1>6. ASSUME NEW p, p = qp.packet PROVE ~HookHeap(p) /\ ~QueueHeap(p)
  BY <1>1, <1>6, CurrentIsNew DEF HeapInv, HeldOnce, HookHeap, QueueHeap
<1>7. ASSUME NEW p \in Packets
      PROVE  p \in heap' <=> HookHeap(p)' \/ QueueHeap(p)' \/ WorkerHeap(p)'
  <2>1. p \in heap <=> HookHeap(p) \/ QueueHeap(p) \/ WorkerHeap(p)
    BY DEF HeapInv, HeapMembers
  <2>2. ~WorkerHeap(p)'
    BY <1>1 DEF WorkerHeap
  <2>3. WorkerHeap(p) <=> qp.buffer_index = HEAP /\ p = qp.packet
    BY <1>1 DEF WorkerHeap
  <2>4. CASE qp.buffer_index = HEAP /\ p = qp.packet
    BY <1>1, <1>5, <1>6, <2>2, <2>4
  <2>5. CASE ~(qp.buffer_index = HEAP /\ p = qp.packet)
    BY <1>1, <1>5, <2>1, <2>2, <2>3, <2>5
  <2> QED
    BY <2>4, <2>5
<1> QED
  BY <1>3, <1>7 DEF HeapInv, HeapMembers

\* The drain deletes the blocks of the entries, which nobody else holds.
LEMMA DrainHeap ==
  ASSUME TypeOK, HeapInv, StopDrain
  PROVE  HeapInv'
<1>1. /\ UNCHANGED <<buffer_index, pc, made, worker, qp>>
      /\ DOMAIN packet_queue' = {}
      /\ WorkerHolds' <=> WorkerHolds
      /\ \A u \in Threads : HoldsBuffer(u)' <=> HoldsBuffer(u)
  BY DEF StopDrain, HoldsBuffer, WorkerHolds, hookVars, workerVars
<1>2. WorkerHolds => qp.packet[1] \in Threads
  BY PacketOf DEF TypeOK, WorkerHolds
<1>3. HeldOnce'
  BY <1>1, <1>2 DEF HeapInv, HeldOnce, Older
<1>4. \A u \in Threads : Current(u)' = Current(u)
  BY <1>1 DEF Current
<1>5. \A p : /\ HookHeap(p)' <=> HookHeap(p)
             /\ WorkerHeap(p)' <=> WorkerHeap(p)
             /\ ~QueueHeap(p)'
  BY <1>1, <1>4 DEF HookHeap, QueueHeap, WorkerHeap
<1>6. ASSUME NEW p PROVE p \in heap' <=> p \in heap /\ ~QueueHeap(p)
  <2>1. ToSet(packet_queue) = {packet_queue[k] : k \in DOMAIN packet_queue}
    BY DEF ToSet
  <2>2. heap' = heap \ {q.packet : q \in {r \in ToSet(packet_queue) : r.buffer_index = HEAP}}
    BY DEF StopDrain
  <2>3. p \in {q.packet : q \in {r \in ToSet(packet_queue) : r.buffer_index = HEAP}}
          <=> QueueHeap(p)
    BY <2>1 DEF QueueHeap
  <2> QED
    BY <2>2, <2>3
<1>7. ASSUME NEW p, QueueHeap(p) PROVE ~HookHeap(p) /\ ~WorkerHeap(p)
  BY <1>7, CurrentIsNew DEF HeapInv, HeldOnce, HookHeap, QueueHeap, WorkerHeap
<1>8. ASSUME NEW p \in Packets
      PROVE  p \in heap' <=> HookHeap(p)' \/ QueueHeap(p)' \/ WorkerHeap(p)'
  <2>1. p \in heap <=> HookHeap(p) \/ QueueHeap(p) \/ WorkerHeap(p)
    BY DEF HeapInv, HeapMembers
  <2> QED
    BY <1>5, <1>6, <1>7, <2>1
<1> QED
  BY <1>3, <1>8 DEF HeapInv, HeapMembers

\* Every step keeps every block with the one who must delete it.
LEMMA HeapStep ==
  ASSUME TypeOK, HeapInv, [Next]_vars
  PROVE  HeapInv'
<1> USE DEF poolVars, queueVars, hookVars, workerVars
<1>1. CASE Start
  BY <1>1, HeapUnchanged DEF Start, HoldsBuffer, WorkerHolds
<1>2. ASSUME NEW t \in Threads, Hook(t) PROVE HeapInv'
  <2>1. ASSUME NEW fits \in BOOLEAN, NEW waits \in BOOLEAN, Allocate(t, fits, waits)
        PROVE  HeapInv'
    BY <2>1, AllocateHeap
  <2>2. CASE Fill(t)
    BY <2>2, HeapUnchanged DEF Fill, HoldsBuffer, WorkerHolds, TypeOK
  <2>3. CASE CreateResponseEvent(t)
    BY <2>3, HeapUnchanged DEF CreateResponseEvent, HoldsBuffer, WorkerHolds, TypeOK
  <2>4. CASE CreateResponseEventFails(t)
    BY <2>4, GiveUpHeap
  <2>5. CASE Push(t)
    BY <2>5, PushHeap
  <2>6. CASE Notify(t)
    BY <2>6, HeapUnchanged DEF Notify, Leave, HoldsBuffer, WorkerHolds, TypeOK
  <2>7. CASE Return(t)
    BY <2>7, HeapUnchanged DEF Return, Leave, HoldsBuffer, WorkerHolds, TypeOK
  <2> QED
    BY <1>2, <2>1, <2>2, <2>3, <2>4, <2>5, <2>6, <2>7 DEF Hook, HookStep
<1>3. CASE Worker
  <2>1. CASE Pop
    BY <2>1, PopHeap
  <2>2. CASE FreeBuffer
    BY <2>2, WorkerFreesHeap
  <2>3. CASE LoopTest \/ WaitWake \/ BatchTest \/ PopNothing \/ SignalResponse
    BY <2>3, HeapUnchanged
       DEF LoopTest, WaitWake, BatchTest, PopNothing, SignalResponse, WorkerGoes,
           HoldsBuffer, WorkerHolds
  <2>4. CASE Send
    BY <2>4, HeapUnchanged DEF Send, HoldsBuffer, WorkerHolds
  <2> QED
    BY <1>3, <2>1, <2>2, <2>3, <2>4 DEF Worker
<1>4. CASE Stop
  <2>1. CASE StopDrain
    BY <2>1, DrainHeap
  <2>2. CASE StopBegin \/ StopSignal \/ StopJoin \/ StopJoinTimeout \/ DeleteQueue \/ DeletePool
    BY <2>2, HeapUnchanged
       DEF StopBegin, StopSignal, StopJoin, StopJoinTimeout, DeleteQueue, DeletePool,
           HoldsBuffer, WorkerHolds
  <2> QED
    BY <1>4, <2>1, <2>2 DEF Stop
<1>5. CASE UNCHANGED vars
  BY <1>5, HeapUnchanged DEF vars, HoldsBuffer, WorkerHolds
<1> QED
  BY <1>1, <1>2, <1>3, <1>4, <1>5 DEF Next

\* The inductive invariant of the heap blocks, for every value of the constants.
LEMMA HeapInvariant == Spec => []HeapInv
<1>1. Init => HeapInv
  <2> SUFFICES ASSUME Init PROVE HeapInv
    OBVIOUS
  <2>1. DOMAIN packet_queue = {} /\ ~WorkerHolds /\ \A t \in Threads : ~HoldsBuffer(t)
    BY DEF Init, WorkerHolds, HoldsBuffer
  <2>2. heap = {}
    BY DEF Init
  <2> QED
    BY <2>1, <2>2 DEF HeapInv, HeldOnce, HeapMembers, HookHeap, QueueHeap, WorkerHeap
<1>2. TypeOK /\ HeapInv /\ [Next]_vars => HeapInv'
  BY HeapStep
<1> QED
  BY <1>1, <1>2, TypeCorrect, PTL DEF Spec

\* Every heap block is live exactly while somebody holds it who will delete it:
\* none is deleted under its holder, none is deleted twice and none leaks.
THEOREM HeapBlocksHeld == Spec => []HeapIsHeld
<1>1. TypeOK /\ HeapInv => HeapIsHeld
  <2> SUFFICES ASSUME TypeOK, HeapInv PROVE HeapIsHeld
    OBVIOUS
  <2>1. ToSet(packet_queue) = {packet_queue[k] : k \in DOMAIN packet_queue}
    BY DEF ToSet
  <2>2. \A p : HookHeap(p) <=>
          p \in {Current(t) : t \in {u \in Threads : HoldsBuffer(u) /\ buffer_index[u] = HEAP}}
    BY DEF HookHeap
  <2>3. \A p : QueueHeap(p) <=>
          p \in {q.packet : q \in {r \in ToSet(packet_queue) : r.buffer_index = HEAP}}
    BY <2>1 DEF QueueHeap
  <2>4. \A p : WorkerHeap(p) <=>
          p \in (IF WorkerHolds /\ qp.buffer_index = HEAP THEN {qp.packet} ELSE {})
    BY DEF WorkerHeap
  <2>5. \A p : HookHeap(p) \/ QueueHeap(p) \/ WorkerHeap(p) => p \in Packets
    <3>1. \A t \in Threads : HoldsBuffer(t) => Current(t) \in Packets
      BY DEF HoldsBuffer, Current, Packets, TypeOK
    <3>2. /\ \A k \in DOMAIN packet_queue : packet_queue[k].packet \in Packets
          /\ WorkerHolds => qp.packet \in Packets
      BY PacketOf, ElementOfSeq, LenProperties DEF TypeOK, WorkerHolds
    <3> QED
      BY <3>1, <3>2 DEF HookHeap, QueueHeap, WorkerHeap
  <2>6. heap \subseteq Packets
    BY DEF TypeOK
  <2>7. \A p : p \in heap <=> HookHeap(p) \/ QueueHeap(p) \/ WorkerHeap(p)
    BY <2>5, <2>6 DEF HeapInv, HeapMembers
  <2> QED
    BY <2>2, <2>3, <2>4, <2>7 DEF HeapIsHeld
<1> QED
  BY <1>1, TypeCorrect, HeapInvariant, PTL

--------------------------------------------------------------------------------
(* The order of one thread's packets *)

Before(p, q) == p[1] = q[1] => p[2] < q[2]

\* What was sent comes before what the worker is about to send, that before what
\* is queued, and all of it before what the threads are making.
InOrder ==
  /\ sent \in Seq(Packets)
  /\ \A j \in DOMAIN sent : Older(sent[j])
  /\ \A j, k \in DOMAIN sent : j < k => Before(sent[j], sent[k])
  /\ \A j \in DOMAIN sent, k \in DOMAIN packet_queue :
       Before(sent[j], packet_queue[k].packet)
  /\ \A j, k \in DOMAIN packet_queue :
       j < k => Before(packet_queue[j].packet, packet_queue[k].packet)
  /\ worker = "send" =>
       /\ \A j \in DOMAIN sent : Before(sent[j], qp.packet)
       /\ \A k \in DOMAIN packet_queue : Before(qp.packet, packet_queue[k].packet)

\* The steps that make, queue and send nothing.
LEMMA OrderUnchanged ==
  ASSUME TypeOK, InOrder, UNCHANGED <<sent, packet_queue, made>>,
         \A t \in Threads : HoldsBuffer(t)' => HoldsBuffer(t),
         worker' = "send" => worker = "send" /\ qp' = qp
  PROVE  InOrder'
<1>1. \A j \in DOMAIN sent : sent[j][1] \in Threads
  BY ElementOfSeq, LenProperties DEF InOrder, Packets
<1>2. \A j \in DOMAIN sent : Older(sent[j])'
  BY <1>1 DEF InOrder, Older
<1> QED
  BY <1>2 DEF InOrder

\* A thread's next packet is newer than all it has sent.
LEMMA AllocateOrder ==
  ASSUME TypeOK, InOrder, NEW t \in Threads, NEW fits \in BOOLEAN, NEW waits \in BOOLEAN,
         Allocate(t, fits, waits)
  PROVE  InOrder'
<1>1. UNCHANGED <<sent, packet_queue, worker, qp>>
  BY DEF Allocate, queueVars, workerVars
<1>2. \A j \in DOMAIN sent : sent[j] \in Packets
  BY ElementOfSeq, LenProperties DEF InOrder
<1>3. ASSUME NEW p \in Packets, Older(p) PROVE Older(p)'
  BY <1>3, OlderStill
<1>4. \A j \in DOMAIN sent : Older(sent[j])'
  BY <1>1, <1>2, <1>3 DEF InOrder
<1> QED
  BY <1>1, <1>4 DEF InOrder

\* The packet pushed is newer than what its thread has sent or queued.
LEMMA PushOrder ==
  ASSUME TypeOK, HeldOnce, InOrder, NEW t \in Threads, Push(t)
  PROVE  InOrder'
<1> DEFINE n == Len(packet_queue)
           last == [packet |-> Current(t), buffer_index |-> buffer_index[t],
                    needs_response |-> needs_response[t]]
<1>1. /\ UNCHANGED <<sent, worker, qp, made>>
      /\ HoldsBuffer(t)
      /\ \A u \in Threads : HoldsBuffer(u)' => HoldsBuffer(u)
  BY DEF Push, TypeOK, HoldsBuffer, workerVars
<1>2. last \in QueuedPacket /\ packet_queue \in Seq(QueuedPacket)
  BY DEF Push, TypeOK, QueuedPacket, Current, Packets
<1>3. /\ n \in Nat
      /\ DOMAIN packet_queue = 1 .. n
      /\ DOMAIN packet_queue' = 1 .. n + 1
      /\ \A k \in 1 .. n : packet_queue'[k] = packet_queue[k]
      /\ packet_queue'[n + 1] = last
  <2> HIDE DEF last
  <2>1. packet_queue' = Append(packet_queue, last)
    BY DEF Push, last
  <2>2. packet_queue' \in Seq(QueuedPacket) /\ Len(packet_queue') = n + 1
    BY <1>2, <2>1, AppendProperties
  <2> QED
    BY <1>2, <2>1, <2>2, AppendProperties, LenProperties
<1>4. last.packet = Current(t)
  OBVIOUS
<1> HIDE DEF n, last
<1>5. ASSUME NEW p, Older(p) PROVE Before(p, Current(t))
  BY <1>1, <1>5 DEF Older, Before, Current
<1>6. /\ \A j \in DOMAIN sent : Before(sent[j], Current(t))
      /\ \A j \in 1 .. n : Before(packet_queue[j].packet, Current(t))
      /\ worker = "send" => Before(qp.packet, Current(t))
  BY <1>3, <1>5 DEF InOrder, HeldOnce, WorkerHolds
<1>7. \A k \in 1 .. n + 1 : k \in 1 .. n \/ k = n + 1
  BY <1>3
<1>8. \A j \in DOMAIN sent : Older(sent[j])'
  <2>1. \A j \in DOMAIN sent : sent[j][1] \in Threads
    BY ElementOfSeq, LenProperties DEF InOrder, Packets
  <2> QED
    BY <1>1, <2>1 DEF InOrder, Older
<1>9. \A j \in DOMAIN sent, k \in 1 .. n + 1 : Before(sent[j], packet_queue'[k].packet)
  BY <1>3, <1>4, <1>6, <1>7 DEF InOrder
<1>10. \A j, k \in 1 .. n + 1 :
         j < k => Before(packet_queue'[j].packet, packet_queue'[k].packet)
  <2>1. \A j, k \in 1 .. n + 1 : j < k => j \in 1 .. n
    BY <1>3
  <2> QED
    BY <1>3, <1>4, <1>6, <1>7, <2>1 DEF InOrder
<1>11. worker = "send" => \A k \in 1 .. n + 1 : Before(qp.packet, packet_queue'[k].packet)
  BY <1>3, <1>4, <1>6, <1>7 DEF InOrder
<1> QED
  BY <1>1, <1>3, <1>8, <1>9, <1>10, <1>11 DEF InOrder

\* The packet popped is the oldest of the queue.
LEMMA PopOrder ==
  ASSUME TypeOK, InOrder, Pop
  PROVE  InOrder'
<1> DEFINE n == Len(packet_queue)
<1>1. /\ UNCHANGED <<sent, made, pc>>
      /\ packet_queue \in Seq(QueuedPacket) /\ packet_queue # <<>>
      /\ packet_queue' = Tail(packet_queue) /\ qp' = Head(packet_queue)
  BY DEF Pop, TypeOK, hookVars
<1>2. /\ n \in Nat \ {0}
      /\ DOMAIN packet_queue = 1 .. n
      /\ DOMAIN packet_queue' = 1 .. n - 1
      /\ \A k \in 1 .. n - 1 : packet_queue'[k] = packet_queue[k + 1]
      /\ qp' = packet_queue[1]
  BY <1>1, HeadTailProperties, LenProperties, EmptySeq
<1> HIDE DEF n
<1>3. /\ 1 \in 1 .. n
      /\ \A k \in 1 .. n - 1 : k + 1 \in 1 .. n /\ 1 < k + 1
      /\ \A j, k \in 1 .. n - 1 : j < k => j + 1 < k + 1
  BY <1>2
<1>4. /\ \A j \in DOMAIN sent, k \in 1 .. n : Before(sent[j], packet_queue[k].packet)
      /\ \A j, k \in 1 .. n : j < k => Before(packet_queue[j].packet, packet_queue[k].packet)
  BY <1>2 DEF InOrder
<1>5. \A j \in DOMAIN sent : Older(sent[j])'
  BY <1>1 DEF InOrder, Older, HoldsBuffer
<1>6. \A j \in DOMAIN sent, k \in 1 .. n - 1 : Before(sent[j], packet_queue'[k].packet)
  BY <1>2, <1>3, <1>4
<1>7. \A j, k \in 1 .. n - 1 :
        j < k => Before(packet_queue'[j].packet, packet_queue'[k].packet)
  BY <1>2, <1>3, <1>4
<1>8. /\ \A j \in DOMAIN sent : Before(sent[j], qp'.packet)
      /\ \A k \in 1 .. n - 1 : Before(qp'.packet, packet_queue'[k].packet)
  BY <1>2, <1>3, <1>4
<1> QED
  BY <1>1, <1>2, <1>5, <1>6, <1>7, <1>8 DEF InOrder

\* The packet sent is the one that was popped, whatever its buffer went through.
LEMMA SendOrder ==
  ASSUME TypeOK, HeldOnce, ContentIntact, InOrder, Send
  PROVE  InOrder'
<1> DEFINE n == Len(sent)
<1>1. /\ UNCHANGED <<packet_queue, made, pc>>
      /\ worker = "send" /\ worker' = "free"
      /\ sent' = Append(sent, qp.packet)
  BY DEF Send, ContentIntact, queueVars, hookVars
<1>2. sent \in Seq(Packets) /\ qp.packet \in Packets
  BY <1>1, PacketOf DEF InOrder, TypeOK
<1>3. /\ n \in Nat
      /\ DOMAIN sent = 1 .. n
      /\ sent' \in Seq(Packets)
      /\ DOMAIN sent' = 1 .. n + 1
      /\ \A j \in 1 .. n : sent'[j] = sent[j]
      /\ sent'[n + 1] = qp.packet
  <2>1. sent' \in Seq(Packets) /\ Len(sent') = n + 1
    BY <1>1, <1>2, AppendProperties
  <2> QED
    BY <1>1, <1>2, <2>1, AppendProperties, LenProperties
<1> HIDE DEF n
<1>4. /\ \A j \in 1 .. n + 1 : j \in 1 .. n \/ j = n + 1
      /\ \A j, k \in 1 .. n + 1 : j < k => j \in 1 .. n
  BY <1>3
<1>5. ASSUME NEW p, Older(p) PROVE Older(p)'
  BY <1>1, <1>5 DEF Older, HoldsBuffer
<1>6. \A j \in 1 .. n + 1 : Older(sent'[j])
  BY <1>1, <1>3, <1>4 DEF InOrder, HeldOnce, WorkerHolds
<1>7. \A j \in 1 .. n + 1 : Older(sent[j])'
  BY <1>1, <1>6 DEF Older, HoldsBuffer
<1>8. \A j, k \in 1 .. n + 1 : j < k => Before(sent'[j], sent'[k])
  BY <1>1, <1>3, <1>4 DEF InOrder
<1>9. \A j \in 1 .. n + 1, k \in DOMAIN packet_queue : Before(sent'[j], packet_queue[k].packet)
  BY <1>1, <1>3, <1>4 DEF InOrder
<1> QED
  BY <1>1, <1>3, <1>7, <1>8, <1>9 DEF InOrder

\* Every step keeps each thread's packets in order.
LEMMA OrderStep ==
  ASSUME TypeOK, HeapInv, ContentIntact, InOrder, [Next]_vars
  PROVE  InOrder'
<1> USE DEF poolVars, queueVars, hookVars, workerVars
<1>0. HeldOnce
  BY DEF HeapInv
<1>1. CASE Start
  BY <1>1, OrderUnchanged DEF Start, HoldsBuffer
<1>2. ASSUME NEW t \in Threads, Hook(t) PROVE InOrder'
  <2>1. ASSUME NEW fits \in BOOLEAN, NEW waits \in BOOLEAN, Allocate(t, fits, waits)
        PROVE  InOrder'
    BY <2>1, AllocateOrder
  <2>2. CASE Fill(t)
    BY <2>2, OrderUnchanged DEF Fill, HoldsBuffer, TypeOK
  <2>3. CASE CreateResponseEvent(t)
    BY <2>3, OrderUnchanged DEF CreateResponseEvent, HoldsBuffer, TypeOK
  <2>4. CASE CreateResponseEventFails(t)
    BY <2>4, OrderUnchanged DEF CreateResponseEventFails, Leave, HoldsBuffer, TypeOK
  <2>5. CASE Push(t)
    BY <1>0, <2>5, PushOrder
  <2>6. CASE Notify(t)
    BY <2>6, OrderUnchanged DEF Notify, Leave, HoldsBuffer, TypeOK
  <2>7. CASE Return(t)
    BY <2>7, OrderUnchanged DEF Return, Leave, HoldsBuffer, TypeOK
  <2> QED
    BY <1>2, <2>1, <2>2, <2>3, <2>4, <2>5, <2>6, <2>7 DEF Hook, HookStep
<1>3. CASE Worker
  <2>1. CASE Pop
    BY <2>1, PopOrder
  <2>2. CASE FreeBuffer
    BY <2>2, OrderUnchanged DEF FreeBuffer, WorkerGoes, HoldsBuffer
  <2>3. CASE LoopTest \/ WaitWake \/ BatchTest \/ PopNothing \/ SignalResponse
    BY <2>3, OrderUnchanged
       DEF LoopTest, WaitWake, BatchTest, PopNothing, SignalResponse, WorkerGoes, HoldsBuffer
  <2>4. CASE Send
    BY <1>0, <2>4, SendOrder
  <2> QED
    BY <1>3, <2>1, <2>2, <2>3, <2>4 DEF Worker
<1>4. CASE Stop
  <2>1. CASE StopDrain
    <3>1. /\ DOMAIN packet_queue' = {}
          /\ UNCHANGED <<sent, made, pc, worker, qp>>
      BY <2>1 DEF StopDrain
    <3>2. \A j \in DOMAIN sent : Older(sent[j])'
      BY <3>1 DEF InOrder, Older, HoldsBuffer
    <3> QED
      BY <3>1, <3>2 DEF InOrder
  <2>2. CASE StopBegin \/ StopSignal \/ StopJoin \/ StopJoinTimeout \/ DeleteQueue \/ DeletePool
    BY <2>2, OrderUnchanged
       DEF StopBegin, StopSignal, StopJoin, StopJoinTimeout, DeleteQueue, DeletePool, HoldsBuffer
  <2> QED
    BY <1>4, <2>1, <2>2 DEF Stop
<1>5. CASE UNCHANGED vars
  BY <1>5, OrderUnchanged DEF vars, HoldsBuffer
<1> QED
  BY <1>1, <1>2, <1>3, <1>4, <1>5 DEF Next

\* The inductive invariant of the order, for every value of the constants.
LEMMA OrderInvariant == Spec => []InOrder
<1>1. Init => InOrder
  <2> SUFFICES ASSUME Init PROVE InOrder
    OBVIOUS
  <2>1. /\ DOMAIN packet_queue = {} /\ worker # "send"
        /\ DOMAIN sent = {} /\ sent \in Seq(Packets)
    BY EmptySeq DEF Init
  <2> QED
    BY <2>1 DEF InOrder
<1>2. TypeOK /\ HeapInv /\ ContentIntact /\ InOrder /\ [Next]_vars => InOrder'
  BY OrderStep
<1> QED
  BY <1>1, <1>2, TypeCorrect, HeapInvariant, ContentStaysIntact, PTL DEF Spec

\* What a thread logs is sent in the order it was logged, and never twice.
THEOREM ThreadOrderKept == Spec => []SentInThreadOrder
<1>1. InOrder => SentInThreadOrder
  BY DEF InOrder, Before, SentInThreadOrder
<1> QED
  BY <1>1, OrderInvariant, PTL
================================================================================
