----------------------- MODULE PacketQueueChannelProofs -----------------------
(***************************************************************************)
(* PacketQueue implements PacketChannel, for every set of threads, every   *)
(* pool and batch size and every bound on what is logged.                  *)
(***************************************************************************)
EXTENDS PacketQueueProofs

(* What the event of a blocking packet says *)

\* A blocking caller whose packet is queued or was.
Waits(t) == needs_response[t] /\ pc[t] \in {"notify", "waiting"}

\* An entry whose caller wants an answer has that caller waiting, for this packet
\* and with an event nobody has touched.
Asks(q) ==
  q.needs_response =>
    /\ Waits(q.packet[1])
    /\ q.packet = Current(q.packet[1])
    /\ response_event[q.packet[1]] = "unset"

Sent(p) == \E j \in DOMAIN sent : sent[j] = p
Queued(p) == \E k \in DOMAIN packet_queue : packet_queue[k].packet = p
AtWorker(p) == worker = "send" /\ qp.packet = p

\* An event is set only after its packet was sent, and closed only by the drain,
\* which took the packet out of the queue.
AnswerInv ==
  /\ \A k \in DOMAIN packet_queue : Asks(packet_queue[k])
  /\ worker \in {"send", "free", "signal"} => Asks(qp)
  /\ worker \in {"free", "signal"} => Sent(qp.packet)
  /\ worker = "signal" => qp.needs_response
  /\ \A t \in Threads :
       /\ pc[t] = "waiting" => needs_response[t]
       /\ pc[t] = "push" /\ needs_response[t] => response_event[t] = "unset"
       /\ response_event[t] = "set" => Waits(t) /\ Sent(Current(t))
       /\ response_event[t] = "closed" =>
            /\ stop # "idle"
            /\ Waits(t)
            /\ ~Sent(Current(t)) /\ ~Queued(Current(t)) /\ ~AtWorker(Current(t))

\* A packet is in one place at a time.
LEMMA OnePlace ==
  ASSUME TypeOK, InOrder, NEW p \in Packets
  PROVE  /\ Queued(p) => ~Sent(p) /\ ~AtWorker(p)
         /\ AtWorker(p) => ~Sent(p)
<1>1. p[2] \in Nat
  BY DEF Packets
<1>2. ~Before(p, p)
  BY <1>1 DEF Before
<1> QED
  BY <1>2 DEF InOrder, Queued, Sent, AtWorker

LEMMA EntriesOf ==
  ASSUME TypeOK
  PROVE  /\ \A k \in DOMAIN packet_queue :
              /\ packet_queue[k] \in QueuedPacket
              /\ packet_queue[k].packet \in Packets
              /\ packet_queue[k].packet[1] \in Threads
         /\ worker \in {"send", "free", "signal"} =>
              qp \in QueuedPacket /\ qp.packet \in Packets /\ qp.packet[1] \in Threads
BY PacketOf, ElementOfSeq, LenProperties DEF TypeOK

\* The steps of the worker and of Stop that neither queue, send nor answer.
LEMMA AnswerUnchanged ==
  ASSUME TypeOK, AnswerInv,
         UNCHANGED <<packet_queue, sent, made, response_event, needs_response, pc>>,
         worker' \in {"send", "free", "signal"} =>
           worker \in {"send", "free", "signal"} /\ qp' = qp,
         worker' \in {"free", "signal"} => worker \in {"free", "signal"},
         worker' = "send" => worker = "send",
         worker' = "signal" => qp.needs_response,
         stop # "idle" => stop' # "idle"
  PROVE  AnswerInv'
<1>1. \A t : (Waits(t)' <=> Waits(t)) /\ Current(t)' = Current(t)
  BY DEF Waits, Current
<1>2. \A k \in DOMAIN packet_queue : Asks(packet_queue[k])'
  BY <1>1 DEF AnswerInv, Asks
<1>3. worker' \in {"send", "free", "signal"} => Asks(qp)'
  BY <1>1 DEF AnswerInv, Asks
<1>4. /\ \A p : (Sent(p)' <=> Sent(p)) /\ (Queued(p)' <=> Queued(p))
      /\ \A p : AtWorker(p)' => AtWorker(p)
  BY DEF Sent, Queued, AtWorker
<1>5. worker' \in {"free", "signal"} => Sent(qp.packet)'
  BY DEF AnswerInv, Sent
<1>6. ASSUME NEW t \in Threads
      PROVE  /\ Sent(Current(t)) => Sent(Current(t))'
             /\ ~Sent(Current(t)) /\ ~Queued(Current(t)) /\ ~AtWorker(Current(t)) =>
                  ~Sent(Current(t))' /\ ~Queued(Current(t))' /\ ~AtWorker(Current(t))'
  BY <1>1 DEF Sent, Queued, AtWorker
<1> QED
  BY <1>1, <1>2, <1>3, <1>5, <1>6 DEF AnswerInv, Sent

\* The steps of a hook that queue nothing, and after which it does not wait.
LEMMA AnswerHook ==
  ASSUME TypeOK, AnswerInv, NEW t \in Threads,
         UNCHANGED <<packet_queue, sent, worker, qp, stop>>,
         \A u \in Threads \ {t} :
           /\ made'[u] = made[u] /\ pc'[u] = pc[u]
           /\ needs_response'[u] = needs_response[u]
           /\ response_event'[u] = response_event[u],
         Waits(t) => response_event[t] # "unset",
         response_event'[t] \notin {"set", "closed"},
         pc'[t] # "waiting",
         pc'[t] = "push" /\ needs_response'[t] => response_event'[t] = "unset"
  PROVE  AnswerInv'
<1>1. \A u \in Threads \ {t} : (Waits(u)' <=> Waits(u)) /\ Current(u)' = Current(u)
  BY DEF Waits, Current
<1>2. ASSUME NEW q, Asks(q), q.packet[1] \in Threads, q.needs_response
      PROVE  q.packet[1] # t
  BY <1>2 DEF Asks
<1>3. \A k \in DOMAIN packet_queue : Asks(packet_queue[k])'
  <2> SUFFICES ASSUME NEW k \in DOMAIN packet_queue PROVE Asks(packet_queue[k])'
    OBVIOUS
  <2>1. Asks(packet_queue[k]) /\ packet_queue[k].packet[1] \in Threads
    BY EntriesOf DEF AnswerInv
  <2>2. packet_queue[k].needs_response => packet_queue[k].packet[1] \in Threads \ {t}
    BY <1>2, <2>1
  <2> QED
    BY <1>1, <2>1, <2>2 DEF Asks
<1>4. worker \in {"send", "free", "signal"} => Asks(qp)'
  <2> SUFFICES ASSUME worker \in {"send", "free", "signal"} PROVE Asks(qp)'
    OBVIOUS
  <2>1. Asks(qp) /\ qp.packet[1] \in Threads
    BY EntriesOf DEF AnswerInv
  <2>2. qp.needs_response => qp.packet[1] \in Threads \ {t}
    BY <1>2, <2>1
  <2> QED
    BY <1>1, <2>1, <2>2 DEF Asks
<1>5. worker \in {"free", "signal"} => Sent(qp.packet)'
  BY DEF AnswerInv, Sent
<1>6. ASSUME NEW u \in Threads \ {t}
      PROVE  /\ Sent(Current(u))' <=> Sent(Current(u))
             /\ Queued(Current(u))' <=> Queued(Current(u))
             /\ AtWorker(Current(u))' <=> AtWorker(Current(u))
  BY <1>1 DEF Sent, Queued, AtWorker
<1> QED
  BY <1>1, <1>3, <1>4, <1>5, <1>6 DEF AnswerInv

\* The caller goes from the push into the wait.
LEMMA AnswerWait ==
  ASSUME TypeOK, AnswerInv, NEW t \in Threads,
         pc[t] = "notify", needs_response[t],
         pc' = [pc EXCEPT ![t] = "waiting"],
         UNCHANGED <<packet_queue, sent, made, response_event, needs_response,
                     worker, qp, stop>>
  PROVE  AnswerInv'
<1>1. \A u \in Threads : (Waits(u)' <=> Waits(u)) /\ Current(u)' = Current(u)
  BY DEF Waits, Current, TypeOK
<1>2. \A k \in DOMAIN packet_queue : Asks(packet_queue[k])'
  BY <1>1, EntriesOf DEF AnswerInv, Asks
<1>3. worker \in {"send", "free", "signal"} => Asks(qp)'
  BY <1>1, EntriesOf DEF AnswerInv, Asks
<1>4. worker \in {"free", "signal"} => Sent(qp.packet)'
  BY DEF AnswerInv, Sent
<1>5. ASSUME NEW u \in Threads
      PROVE  /\ Sent(Current(u))' <=> Sent(Current(u))
             /\ Queued(Current(u))' <=> Queued(Current(u))
             /\ AtWorker(Current(u))' <=> AtWorker(Current(u))
  BY <1>1 DEF Sent, Queued, AtWorker
<1>6. \A u \in Threads : /\ pc'[u] = "waiting" => needs_response[u]
                         /\ pc'[u] = "push" => pc[u] = "push"
  BY DEF AnswerInv, TypeOK
<1> QED
  BY <1>1, <1>2, <1>3, <1>4, <1>5, <1>6 DEF AnswerInv

\* A blocking packet is queued with its event unset and its caller on the way to
\* the wait.
LEMMA AnswerPush ==
  ASSUME TypeOK, AnswerInv, NEW t \in Threads, Push(t)
  PROVE  AnswerInv'
<1> DEFINE n == Len(packet_queue)
           last == [packet |-> Current(t), buffer_index |-> buffer_index[t],
                    needs_response |-> needs_response[t]]
<1>1. /\ UNCHANGED <<sent, worker, qp, made, stop, needs_response, response_event>>
      /\ pc[t] = "push" /\ pc' = [pc EXCEPT ![t] = "notify"]
  BY DEF Push, workerVars
<1>2. last \in QueuedPacket /\ packet_queue \in Seq(QueuedPacket)
  BY DEF Push, TypeOK, QueuedPacket, Current, Packets
<1>3. /\ n \in Nat
      /\ DOMAIN packet_queue = 1 .. n
      /\ DOMAIN packet_queue' = 1 .. n + 1
      /\ \A k \in 1 .. n : packet_queue'[k] = packet_queue[k]
      /\ packet_queue'[n + 1] = last
  <2> HIDE DEF last
  <2>1. packet_queue' = Append(packet_queue, last)
    BY DEF Push, last
  <2>2. packet_queue' \in Seq(QueuedPacket) /\ Len(packet_queue') = n + 1
    BY <1>2, <2>1, AppendProperties
  <2> QED
    BY <1>2, <2>1, <2>2, AppendProperties, LenProperties
<1>4. /\ last.packet = Current(t) /\ last.packet[1] = t
      /\ last.needs_response = needs_response[t]
  BY DEF Current
<1> HIDE DEF n, last
<1>5. \A k \in 1 .. n + 1 : k \in 1 .. n \/ k = n + 1
  BY <1>3
<1>6. /\ \A u \in Threads : Waits(u) => Waits(u)'
      /\ \A u \in Threads : Current(u)' = Current(u)
      /\ ~Waits(t)
      /\ needs_response[t] => Waits(t)'
  BY <1>1 DEF Waits, Current, TypeOK
<1>7. \A k \in 1 .. n + 1 : Asks(packet_queue[k])'
  <2> SUFFICES ASSUME NEW k \in 1 .. n + 1 PROVE Asks(packet_queue[k])'
    OBVIOUS
  <2>1. CASE k \in 1 .. n
    <3>1. Asks(packet_queue[k]) /\ packet_queue[k].packet[1] \in Threads
      BY <1>3, <2>1, EntriesOf DEF AnswerInv
    <3>2. packet_queue'[k] = packet_queue[k]
      BY <1>3, <2>1
    <3> QED
      BY <1>1, <1>6, <3>1, <3>2 DEF Asks
  <2>2. CASE k = n + 1
    <3>1. packet_queue'[k] = last
      BY <1>3, <2>2
    <3>2. needs_response[t] => response_event[t] = "unset"
      BY <1>1 DEF AnswerInv
    <3> QED
      BY <1>1, <1>4, <1>6, <3>1, <3>2 DEF Asks
  <2> QED
    BY <1>5, <2>1, <2>2
<1>8. worker \in {"send", "free", "signal"} => Asks(qp)'
  BY <1>1, <1>6, EntriesOf DEF AnswerInv, Asks
<1>9. worker \in {"free", "signal"} => Sent(qp.packet)'
  BY <1>1 DEF AnswerInv, Sent
<1>10. ASSUME NEW u \in Threads
       PROVE  /\ Sent(Current(u))' <=> Sent(Current(u))
              /\ AtWorker(Current(u))' <=> AtWorker(Current(u))
              /\ Queued(Current(u))' => Queued(Current(u)) \/ u = t
  <2>1. Current(u) = Current(t) => u = t
    BY DEF Current
  <2> QED
    BY <1>1, <1>3, <1>4, <1>5, <1>6, <2>1 DEF Sent, Queued, AtWorker
<1>11. ASSUME NEW u \in Threads
       PROVE  /\ pc'[u] = "waiting" => pc[u] = "waiting"
              /\ pc'[u] = "push" => pc[u] = "push"
              /\ response_event[u] \in {"set", "closed"} => u # t
  BY <1>1, <1>6 DEF AnswerInv, TypeOK
<1> QED
  BY <1>1, <1>3, <1>6, <1>7, <1>8, <1>9, <1>10, <1>11 DEF AnswerInv

\* The worker takes an entry over as it is.
LEMMA AnswerPop ==
  ASSUME TypeOK, AnswerInv, Pop
  PROVE  AnswerInv'
<1> DEFINE n == Len(packet_queue)
<1>1. /\ UNCHANGED <<sent, made, pc, needs_response, response_event, stop>>
      /\ packet_queue \in Seq(QueuedPacket) /\ packet_queue # <<>>
      /\ packet_queue' = Tail(packet_queue) /\ qp' = Head(packet_queue)
      /\ worker = "pop" /\ worker' = "send"
  BY DEF Pop, TypeOK, hookVars
<1>2. /\ n \in Nat \ {0}
      /\ DOMAIN packet_queue = 1 .. n
      /\ DOMAIN packet_queue' = 1 .. n - 1
      /\ \A k \in 1 .. n - 1 : packet_queue'[k] = packet_queue[k + 1]
      /\ qp' = packet_queue[1]
  BY <1>1, HeadTailProperties, LenProperties, EmptySeq
<1> HIDE DEF n
<1>3. 1 \in 1 .. n /\ \A k \in 1 .. n - 1 : k + 1 \in 1 .. n
  BY <1>2
<1>4. \A t : (Waits(t)' <=> Waits(t)) /\ Current(t)' = Current(t)
  BY <1>1 DEF Waits, Current
<1>5. \A k \in 1 .. n - 1 : Asks(packet_queue[k])'
  <2>1. ASSUME NEW k \in 1 .. n - 1 PROVE Asks(packet_queue[k])'
    <3>1. packet_queue'[k] = packet_queue[k + 1] /\ Asks(packet_queue[k + 1])
      BY <1>2, <1>3 DEF AnswerInv
    <3> QED
      BY <1>1, <1>4, <3>1 DEF Asks
  <2> QED
    BY <2>1
<1>6. Asks(qp)'
  <2>1. qp' = packet_queue[1] /\ Asks(packet_queue[1])
    BY <1>2, <1>3 DEF AnswerInv
  <2> QED
    BY <1>1, <1>4, <2>1 DEF Asks
<1>7. ASSUME NEW t \in Threads
      PROVE  /\ Sent(Current(t))' <=> Sent(Current(t))
             /\ Queued(Current(t))' => Queued(Current(t))
             /\ AtWorker(Current(t))' => Queued(Current(t))
  BY <1>1, <1>2, <1>3, <1>4 DEF Sent, Queued, AtWorker
<1> QED
  BY <1>1, <1>2, <1>4, <1>5, <1>6, <1>7 DEF AnswerInv

\* The packet at the worker counts as sent.
LEMMA AppendSent ==
  ASSUME TypeOK, ContentIntact, InOrder, Send
  PROVE  /\ sent' = Append(sent, qp.packet)
         /\ \A p : Sent(p)' <=> Sent(p) \/ p = qp.packet
<1> DEFINE n == Len(sent)
<1>1. worker = "send" /\ sent' = Append(sent, qp.packet)
  BY DEF Send, ContentIntact
<1>2. sent \in Seq(Packets) /\ qp.packet \in Packets
  BY <1>1, PacketOf DEF InOrder, TypeOK
<1>3. /\ n \in Nat
      /\ DOMAIN sent = 1 .. n
      /\ DOMAIN sent' = 1 .. n + 1
      /\ \A j \in 1 .. n : sent'[j] = sent[j]
      /\ sent'[n + 1] = qp.packet
  <2>1. sent' \in Seq(Packets) /\ Len(sent') = n + 1
    BY <1>1, <1>2, AppendProperties
  <2> QED
    BY <1>1, <1>2, <2>1, AppendProperties, LenProperties
<1> HIDE DEF n
<1>4. /\ n + 1 \in 1 .. n + 1 /\ \A j \in 1 .. n : j \in 1 .. n + 1
      /\ \A j \in 1 .. n + 1 : j \in 1 .. n \/ j = n + 1
  BY <1>3
<1> QED
  BY <1>1, <1>3, <1>4 DEF Sent

LEMMA AnswerSend ==
  ASSUME TypeOK, ContentIntact, InOrder, AnswerInv, Send
  PROVE  AnswerInv'
<1>1. /\ UNCHANGED <<packet_queue, made, pc, needs_response, response_event, stop, qp>>
      /\ worker = "send" /\ worker' = "free"
  BY DEF Send, queueVars, hookVars
<1>2. \A p : Sent(p)' <=> Sent(p) \/ p = qp.packet
  BY AppendSent
<1>3. \A t : (Waits(t)' <=> Waits(t)) /\ Current(t)' = Current(t)
  BY <1>1 DEF Waits, Current
<1>4. (\A k \in DOMAIN packet_queue : Asks(packet_queue[k])') /\ Asks(qp)'
  BY <1>1, <1>3 DEF AnswerInv, Asks
<1>5. Sent(qp.packet)'
  <2>1. ASSUME NEW p, p = qp.packet PROVE Sent(p)'
    BY <1>2, <2>1
  <2> QED
    BY <1>1, <2>1 DEF Sent
<1>6. ASSUME NEW t \in Threads
      PROVE  /\ Sent(Current(t)) => Sent(Current(t))'
             /\ Sent(Current(t))' => Sent(Current(t)) \/ AtWorker(Current(t))
             /\ Queued(Current(t))' <=> Queued(Current(t))
             /\ ~AtWorker(Current(t))'
  <2>1. ASSUME NEW p, p = Current(t)
        PROVE  /\ Sent(p) => Sent(p)'
               /\ Sent(p)' => Sent(p) \/ AtWorker(p)
               /\ Queued(p)' <=> Queued(p)
               /\ ~AtWorker(p)'
    BY <1>1, <1>2 DEF Queued, AtWorker
  <2> QED
    BY <1>3, <2>1 DEF Sent, Queued, AtWorker
<1> QED
  BY <1>1, <1>3, <1>4, <1>5, <1>6 DEF AnswerInv

\* The event signalled is that of the packet just sent, whose caller has no other
\* packet anywhere.
LEMMA AnswerSignal ==
  ASSUME TypeOK, InOrder, AnswerInv, SignalResponse
  PROVE  AnswerInv'
<1> DEFINE t == qp.packet[1]
<1>1. /\ UNCHANGED <<packet_queue, sent, made, pc, needs_response, stop>>
      /\ worker = "signal" /\ worker' = "batch"
  BY DEF SignalResponse, hookVars, queueVars
<1>2. /\ t \in Threads /\ Waits(t) /\ Sent(qp.packet)
      /\ qp.packet = Current(t) /\ response_event[t] = "unset"
  BY <1>1, EntriesOf DEF AnswerInv, Asks
<1>3. response_event' = [response_event EXCEPT ![t] = "set"]
  BY <1>2 DEF SignalResponse
<1> HIDE DEF t
<1>4. \A u : (Waits(u)' <=> Waits(u)) /\ Current(u)' = Current(u)
  BY <1>1 DEF Waits, Current
<1>5. ASSUME NEW k \in DOMAIN packet_queue PROVE Asks(packet_queue[k])'
  <2>1. Asks(packet_queue[k]) /\ packet_queue[k].packet[1] \in Threads
    BY EntriesOf DEF AnswerInv
  <2>2. packet_queue[k].packet # qp.packet
    <3>1. qp.packet \in Packets
      BY <1>1, EntriesOf
    <3>2. ~Queued(qp.packet)
      BY <1>2, <3>1, OnePlace
    <3> QED
      BY <3>2 DEF Queued
  <2>3. packet_queue[k].needs_response => packet_queue[k].packet[1] # t
    BY <1>2, <2>1, <2>2 DEF Asks
  <2> QED
    BY <1>1, <1>3, <1>4, <2>1, <2>3 DEF Asks, TypeOK
<1>6. ASSUME NEW u \in Threads
      PROVE  /\ Sent(Current(u))' <=> Sent(Current(u))
             /\ Queued(Current(u))' <=> Queued(Current(u))
             /\ AtWorker(Current(u))' => AtWorker(Current(u))
  BY <1>1, <1>4 DEF Sent, Queued, AtWorker
<1>7. ASSUME NEW u \in Threads
      PROVE  /\ u # t => response_event'[u] = response_event[u]
             /\ response_event'[t] = "set" /\ pc[t] # "push"
  BY <1>2, <1>3 DEF TypeOK, Waits
<1>8. Sent(Current(t))
  BY <1>2
<1> QED
  BY <1>1, <1>2, <1>4, <1>5, <1>6, <1>7, <1>8 DEF AnswerInv

\* The drain closes the events of the packets it drops, and no others.
LEMMA AnswerDrain ==
  ASSUME TypeOK, InOrder, AnswerInv, StopDrain
  PROVE  AnswerInv'
<1> DEFINE Dropped(t) == \E k \in DOMAIN packet_queue :
             packet_queue[k].needs_response /\ packet_queue[k].packet[1] = t
<1>1. /\ UNCHANGED <<sent, made, pc, needs_response, worker, qp>>
      /\ DOMAIN packet_queue' = {}
      /\ stop' = "drained"
  BY DEF StopDrain, hookVars, workerVars
<1>2. \A t \in Threads :
        response_event'[t] = IF Dropped(t) THEN "closed" ELSE response_event[t]
  <2>1. ToSet(packet_queue) = {packet_queue[k] : k \in DOMAIN packet_queue}
    BY DEF ToSet
  <2>2. \A t \in Threads :
          Dropped(t) <=> \E q \in ToSet(packet_queue) : q.needs_response /\ q.packet[1] = t
    BY <2>1
  <2>3. response_event' = [t \in Threads |->
           IF \E q \in ToSet(packet_queue) : q.needs_response /\ q.packet[1] = t
           THEN "closed" ELSE response_event[t]]
    BY DEF StopDrain
  <2> HIDE DEF Dropped
  <2> QED
    BY <2>2, <2>3
<1>3. \A t : (Waits(t)' <=> Waits(t)) /\ Current(t)' = Current(t)
  BY <1>1 DEF Waits, Current
<1>4. ASSUME NEW t \in Threads, Dropped(t)
      PROVE  /\ Waits(t) /\ Current(t) \in Packets /\ Queued(Current(t))
             /\ ~Sent(Current(t)) /\ ~AtWorker(Current(t))
  <2>1. PICK k \in DOMAIN packet_queue :
          packet_queue[k].needs_response /\ packet_queue[k].packet[1] = t
    BY <1>4
  <2>2. Waits(t) /\ packet_queue[k].packet = Current(t)
    BY <2>1 DEF AnswerInv, Asks
  <2>3. Current(t) \in Packets /\ Queued(Current(t))
    BY <2>2, EntriesOf DEF Queued
  <2> QED
    BY <2>2, <2>3, OnePlace
<1> HIDE DEF Dropped
<1>5. worker \in {"send", "free", "signal"} => Asks(qp)'
  <2> SUFFICES ASSUME worker \in {"send", "free", "signal"}, qp.needs_response
               PROVE  Asks(qp)'
    BY <1>1 DEF Asks
  <2>1. /\ Asks(qp) /\ qp.packet[1] \in Threads
        /\ worker = "send" \/ Sent(qp.packet)
    BY EntriesOf DEF AnswerInv
  <2>2. qp.packet = Current(qp.packet[1])
    BY <2>1 DEF Asks
  <2>3. ~Dropped(qp.packet[1])
    <3>1. worker = "send" => AtWorker(qp.packet)
      BY DEF AtWorker
    <3>2. Dropped(qp.packet[1]) => ~Sent(qp.packet) /\ ~AtWorker(qp.packet)
      BY <1>4, <2>1, <2>2
    <3> QED
      BY <2>1, <3>1, <3>2
  <2> QED
    BY <1>1, <1>2, <1>3, <2>1, <2>3 DEF Asks
<1>6. worker \in {"free", "signal"} => Sent(qp.packet)'
  BY <1>1 DEF AnswerInv, Sent
<1>7. ASSUME NEW t \in Threads
      PROVE  /\ Sent(Current(t))' <=> Sent(Current(t))
             /\ ~Queued(Current(t))'
             /\ AtWorker(Current(t))' <=> AtWorker(Current(t))
  BY <1>1, <1>3 DEF Sent, Queued, AtWorker
<1>8. ASSUME NEW t \in Threads, pc[t] = "push" PROVE ~Dropped(t)
  BY <1>4, <1>8 DEF Waits
<1> QED
  BY <1>1, <1>2, <1>3, <1>4, <1>5, <1>6, <1>7, <1>8 DEF AnswerInv

LEMMA AnswerStep ==
  ASSUME TypeOK, ContentIntact, InOrder, AnswerInv, [Next]_vars
  PROVE  AnswerInv'
<1> USE DEF poolVars, queueVars, hookVars, workerVars
<1>0. worker = "signal" => qp.needs_response
  BY DEF AnswerInv
<1>1. CASE Start
  BY <1>1, AnswerUnchanged DEF Start
<1>2. ASSUME NEW t \in Threads, Hook(t) PROVE AnswerInv'
  <2>0. /\ Waits(t) => pc[t] \in {"notify", "waiting"}
        /\ response_event[t] \in {"set", "closed"} => Waits(t)
    BY DEF AnswerInv, Waits
  <2>1. ASSUME NEW fits \in BOOLEAN, NEW waits \in BOOLEAN, Allocate(t, fits, waits)
        PROVE  AnswerInv'
    BY <2>0, <2>1, AnswerHook DEF Allocate, TypeOK
  <2>2. CASE Fill(t)
    <3>1. pc'[t] \in {"create_event", "push"} /\ (needs_response[t] => pc'[t] # "push")
      BY <2>2 DEF Fill, TypeOK
    <3>2. \A u \in Threads \ {t} : pc'[u] = pc[u]
      BY <2>2 DEF Fill, TypeOK
    <3>3. /\ UNCHANGED <<packet_queue, sent, worker, qp, stop, made, needs_response, response_event>>
          /\ pc[t] = "filling"
      BY <2>2 DEF Fill
    <3> QED
      BY <2>0, <3>1, <3>2, <3>3, AnswerHook
  <2>3. CASE CreateResponseEvent(t)
    BY <2>0, <2>3, AnswerHook DEF CreateResponseEvent, TypeOK
  <2>4. CASE CreateResponseEventFails(t)
    BY <2>0, <2>4, AnswerHook DEF CreateResponseEventFails, Leave, TypeOK
  <2>5. CASE Push(t)
    BY <2>5, AnswerPush
  <2>6. CASE Notify(t)
    <3>1. CASE needs_response[t] /\ response_event[t] # "closed"
      BY <2>6, <3>1, AnswerWait DEF Notify
    <3>2. CASE ~(needs_response[t] /\ response_event[t] # "closed")
      <4>1. Leave(t) /\ response_event' = [response_event EXCEPT ![t] = "none"]
        BY <2>6, <3>2 DEF Notify
      <4>2. Waits(t) => response_event[t] # "unset"
        BY <3>2 DEF Waits
      <4>3. UNCHANGED <<packet_queue, sent, worker, qp, stop>>
        BY <2>6 DEF Notify
      <4> QED
        BY <4>1, <4>2, <4>3, AnswerHook DEF Leave, TypeOK
    <3> QED
      BY <3>1, <3>2
  <2>7. CASE Return(t)
    <3>1. Waits(t) => response_event[t] # "unset"
      BY <2>7 DEF Return
    <3> QED
      BY <2>7, <3>1, AnswerHook DEF Return, Leave, TypeOK
  <2> QED
    BY <1>2, <2>1, <2>2, <2>3, <2>4, <2>5, <2>6, <2>7 DEF Hook, HookStep
<1>3. CASE Worker
  <2>1. CASE Pop
    BY <2>1, AnswerPop
  <2>2. CASE Send
    BY <2>2, AnswerSend
  <2>3. CASE SignalResponse
    BY <2>3, AnswerSignal
  <2>4. CASE LoopTest \/ WaitWake \/ BatchTest \/ PopNothing
    BY <2>4, AnswerUnchanged DEF LoopTest, WaitWake, BatchTest, PopNothing, WorkerGoes
  <2>5. CASE FreeBuffer
    BY <2>5, AnswerUnchanged DEF FreeBuffer, WorkerGoes
  <2> QED
    BY <1>3, <2>1, <2>2, <2>3, <2>4, <2>5 DEF Worker
<1>4. CASE Stop
  <2>1. CASE StopDrain
    BY <2>1, AnswerDrain
  <2>2. CASE StopBegin \/ StopSignal \/ StopJoin \/ StopJoinTimeout \/ DeleteQueue \/ DeletePool
    BY <1>0, <2>2, AnswerUnchanged
       DEF StopBegin, StopSignal, StopJoin, StopJoinTimeout, DeleteQueue, DeletePool
  <2> QED
    BY <1>4, <2>1, <2>2 DEF Stop
<1>5. CASE UNCHANGED vars
  BY <1>0, <1>5, AnswerUnchanged DEF vars
<1> QED
  BY <1>1, <1>2, <1>3, <1>4, <1>5 DEF Next

ChannelInv == TypeOK /\ HeapInv /\ ContentIntact /\ InOrder /\ AnswerInv

LEMMA ChannelInvariant == Spec => []ChannelInv
<1>1. Init => AnswerInv
  <2> SUFFICES ASSUME Init PROVE AnswerInv
    OBVIOUS
  <2>1. /\ DOMAIN packet_queue = {} /\ worker = "unborn"
        /\ \A t \in Threads : pc[t] = "idle" /\ response_event[t] = "none"
    BY DEF Init
  <2> QED
    BY <2>1 DEF AnswerInv
<1>2. TypeOK /\ ContentIntact /\ InOrder /\ AnswerInv /\ [Next]_vars => AnswerInv'
  BY AnswerStep
<1> QED
  BY <1>1, <1>2, TypeCorrect, HeapInvariant, ContentStaysIntact, OrderInvariant, PTL
     DEF Spec, ChannelInv

--------------------------------------------------------------------------------
(* The refinement *)

\* The channel's packets and callers, as PacketQueue instantiates them, and the
\* same packets without a look at the buffers.
Chan == InFlight \o [k \in DOMAIN packet_queue |-> Content(packet_queue[k])]
Awaited == {Current(t) : t \in {u \in Threads :
              needs_response[u] /\ pc[u] \in {"notify", "waiting"}}}
Names == [k \in DOMAIN packet_queue |-> packet_queue[k].packet]
Flow == IF worker = "send" THEN <<qp.packet>> \o Names ELSE Names

LEMMA NamesOf ==
  ASSUME TypeOK
  PROVE  /\ Names \in Seq(Packets) /\ Len(Names) = Len(packet_queue)
         /\ Len(packet_queue) \in Nat
         /\ DOMAIN packet_queue = 1 .. Len(packet_queue)
         /\ \A k \in 1 .. Len(packet_queue) : Names[k] = packet_queue[k].packet
<1>1. packet_queue \in Seq(QueuedPacket)
  BY DEF TypeOK
<1>2. DOMAIN packet_queue = 1 .. Len(packet_queue) /\ Len(packet_queue) \in Nat
  BY <1>1, LenProperties
<1>3. Names \in [1 .. Len(packet_queue) -> Packets]
  BY <1>2, EntriesOf DEF Names
<1>4. Names \in Seq(Packets) /\ Len(Names) = Len(packet_queue)
  BY <1>2, <1>3, IsASeq
<1> QED
  BY <1>2, <1>4 DEF Names

\* One element in front of a sequence.
LEMMA InFront ==
  ASSUME NEW S, NEW x \in S, NEW s \in Seq(S)
  PROVE  /\ <<x>> \o s \in Seq(S) /\ Len(<<x>> \o s) = Len(s) + 1
         /\ (<<x>> \o s)[1] = x
         /\ \A k \in 1 .. Len(s) : (<<x>> \o s)[k + 1] = s[k]
         /\ <<x>> \o s # <<>>
         /\ Head(<<x>> \o s) = x /\ Tail(<<x>> \o s) = s
<1>1. <<x>> \in Seq(S) /\ Len(<<x>>) = 1 /\ <<x>>[1] = x
  OBVIOUS
<1>2. Len(s) \in Nat
  BY LenProperties
<1> DEFINE c == <<x>> \o s
<1>3. /\ c \in Seq(S) /\ Len(c) = 1 + Len(s)
      /\ \A i \in 1 .. 1 + Len(s) : c[i] = IF i <= 1 THEN <<x>>[i] ELSE s[i - 1]
  BY <1>1, ConcatProperties
<1> HIDE DEF c
<1>4. c[1] = x
  <2>1. 1 \in 1 .. 1 + Len(s) /\ 1 <= 1
    BY <1>2
  <2> QED
    BY <1>1, <1>3, <2>1
<1>5. \A k \in 1 .. Len(s) : c[k + 1] = s[k]
  <2>1. \A k \in 1 .. Len(s) : k + 1 \in 1 .. 1 + Len(s) /\ ~(k + 1 <= 1) /\ (k + 1) - 1 = k
    BY <1>2
  <2> QED
    BY <1>3, <2>1
<1>6. c # <<>>
  BY <1>2, <1>3, EmptySeq
<1>7. /\ Head(c) = c[1] /\ Tail(c) \in Seq(S) /\ Len(Tail(c)) = Len(c) - 1
      /\ \A i \in 1 .. Len(Tail(c)) : Tail(c)[i] = c[i + 1]
  BY <1>3, <1>6, HeadTailProperties
<1>8. Len(Tail(c)) = Len(s)
  BY <1>2, <1>3, <1>7
<1>9. Tail(c) = s
  BY <1>5, <1>7, <1>8, SeqEqual
<1>10. Len(c) = Len(s) + 1
  BY <1>2, <1>3
<1> QED
  BY <1>3, <1>4, <1>5, <1>6, <1>7, <1>9, <1>10 DEF c

\* The bytes in flight are those of the packets in flight.
LEMMA ChanIsFlow == TypeOK /\ ContentIntact => Chan = Flow
<1> SUFFICES ASSUME TypeOK, ContentIntact PROVE Chan = Flow
  OBVIOUS
<1>1. [k \in DOMAIN packet_queue |-> Content(packet_queue[k])] = Names
  BY DEF ContentIntact, Names
<1>2. worker = "send" => InFlight = <<qp.packet>>
  BY DEF ContentIntact, InFlight
<1>3. worker # "send" => InFlight = <<>>
  BY DEF InFlight
<1>4. <<>> \o Names = Names
  BY NamesOf, ConcatEmptySeq
<1> QED
  BY <1>1, <1>2, <1>3, <1>4 DEF Chan, Flow

LEMMA FlowOf ==
  ASSUME TypeOK
  PROVE  /\ Flow \in Seq(Packets)
         /\ \A p : p \in ToSet(Flow) => Queued(p) \/ AtWorker(p)
         /\ \A p : Queued(p) \/ AtWorker(p) => p \in ToSet(Flow)
<1>1. \A s : ToSet(s) = {s[k] : k \in DOMAIN s}
  BY DEF ToSet
<1>2. \A p : p \in ToSet(Names) <=> Queued(p)
  BY <1>1, NamesOf DEF Queued, Names
<1>3. CASE worker = "send"
  <2>1. qp.packet \in Packets
    BY <1>3, EntriesOf
  <2> DEFINE n == Len(Names)  c == <<qp.packet>> \o Names
  <2>2. /\ c \in Seq(Packets) /\ Len(c) = n + 1 /\ c[1] = qp.packet
        /\ \A k \in 1 .. n : c[k + 1] = Names[k]
    BY <2>1, NamesOf, InFront
  <2>3. n \in Nat /\ DOMAIN Names = 1 .. n /\ DOMAIN c = 1 .. n + 1
    BY <2>2, NamesOf, LenProperties
  <2>4. Flow = c
    BY <1>3 DEF Flow
  <2> HIDE DEF c, n
  <2>5. /\ 1 \in 1 .. n + 1 /\ \A k \in 1 .. n : k + 1 \in 1 .. n + 1
        /\ \A j \in 1 .. n + 1 : j = 1 \/ \E k \in 1 .. n : j = k + 1
    <3>1. \A j \in 1 .. n + 1 : j # 1 => j - 1 \in 1 .. n /\ j = (j - 1) + 1
      BY <2>3
    <3> QED
      BY <2>3, <3>1
  <2>6. \A p : p \in ToSet(c) <=> p \in ToSet(Names) \/ p = qp.packet
    <3>1. ASSUME NEW p, p \in ToSet(c) PROVE p \in ToSet(Names) \/ p = qp.packet
      <4>1. PICK j \in 1 .. n + 1 : p = c[j]
        BY <1>1, <2>3, <3>1
      <4>2. CASE j = 1
        BY <2>2, <4>1, <4>2
      <4>3. ASSUME NEW k \in 1 .. n, j = k + 1 PROVE p \in ToSet(Names)
        <5>1. p = Names[k]
          BY <2>2, <4>1, <4>3
        <5> QED
          BY <1>1, <2>3, <5>1
      <4> QED
        BY <2>5, <4>2, <4>3
    <3>2. ASSUME NEW p, p \in ToSet(Names) PROVE p \in ToSet(c)
      <4>1. PICK k \in 1 .. n : p = Names[k]
        BY <1>1, <2>3, <3>2
      <4>2. p = c[k + 1] /\ k + 1 \in DOMAIN c
        BY <2>2, <2>3, <2>5, <4>1
      <4> QED
        BY <1>1, <4>2
    <3>3. qp.packet \in ToSet(c)
      <4>1. 1 \in DOMAIN c
        BY <2>3, <2>5
      <4> QED
        BY <1>1, <2>2, <4>1
    <3> QED
      BY <3>1, <3>2, <3>3
  <2> QED
    BY <1>2, <1>3, <2>2, <2>4, <2>6 DEF AtWorker
<1>4. CASE worker # "send"
  BY <1>2, <1>4, NamesOf DEF Flow, AtWorker
<1> QED
  BY <1>3, <1>4

LEMMA NamesNext ==
  ASSUME TypeOK'
  PROVE  /\ Names' \in Seq(Packets) /\ Len(Names') = Len(packet_queue')
         /\ \A k \in 1 .. Len(packet_queue') : Names'[k] = packet_queue'[k].packet
<1>1. DOMAIN packet_queue' = 1 .. Len(packet_queue') /\ Len(packet_queue') \in Nat
  BY LenProperties DEF TypeOK
<1>2. \A k \in DOMAIN packet_queue' : packet_queue'[k].packet \in Packets
  BY <1>1, PacketOf, ElementOfSeq DEF TypeOK
<1>3. Names' \in [1 .. Len(packet_queue') -> Packets]
  BY <1>1, <1>2 DEF Names
<1>4. Names' \in Seq(Packets) /\ Len(Names') = Len(packet_queue')
  BY <1>1, <1>3, IsASeq
<1> QED
  BY <1>1, <1>4 DEF Names

\* The packets in flight after each step that changes them.
LEMMA FlowPush ==
  ASSUME TypeOK, TypeOK', NEW t \in Threads, Push(t)
  PROVE  Flow' = Append(Flow, Current(t))
<1> DEFINE n == Len(packet_queue)
           last == [packet |-> Current(t), buffer_index |-> buffer_index[t],
                    needs_response |-> needs_response[t]]
<1>1. worker' = worker /\ qp' = qp
  BY DEF Push, workerVars
<1>2. last \in QueuedPacket /\ packet_queue \in Seq(QueuedPacket) /\ Current(t) \in Packets
  BY DEF Push, TypeOK, QueuedPacket, Current, Packets
<1>3. /\ Len(packet_queue') = n + 1
      /\ \A k \in 1 .. n : packet_queue'[k] = packet_queue[k]
      /\ packet_queue'[n + 1] = last
  <2> HIDE DEF last
  <2>1. packet_queue' = Append(packet_queue, last)
    BY DEF Push, last
  <2> QED
    BY <1>2, <2>1, AppendProperties
<1>4. last.packet = Current(t)
  OBVIOUS
<1>5. /\ Names \in Seq(Packets) /\ Len(Names) = n /\ n \in Nat
      /\ \A k \in 1 .. n : Names[k] = packet_queue[k].packet
  BY NamesOf
<1>6. /\ Names' \in Seq(Packets) /\ Len(Names') = Len(packet_queue')
      /\ \A k \in 1 .. Len(packet_queue') : Names'[k] = packet_queue'[k].packet
  BY NamesNext
<1> HIDE DEF n, last
<1>7. Names' = Append(Names, Current(t))
  <2> DEFINE a == Append(Names, Current(t))
  <2>1. /\ a \in Seq(Packets) /\ Len(a) = n + 1 /\ a[n + 1] = Current(t)
        /\ \A k \in 1 .. n : a[k] = Names[k]
    BY <1>2, <1>5, AppendProperties
  <2> HIDE DEF a
  <2>2. \A k \in 1 .. n + 1 : Names'[k] = a[k]
    <3>1. \A k \in 1 .. n + 1 : k \in 1 .. n \/ k = n + 1
      BY <1>5
    <3> QED
      BY <1>3, <1>4, <1>5, <1>6, <2>1, <3>1
  <2>3. Names' = a
    BY <1>3, <1>6, <2>1, <2>2, SeqEqual
  <2> QED
    BY <2>3 DEF a
<1>8. CASE worker = "send"
  <2>1. qp.packet \in Packets
    BY <1>8, EntriesOf
  <2>2. /\ Names' = Names \o <<Current(t)>>
        /\ <<Current(t)>> \in Seq(Packets) /\ <<qp.packet>> \in Seq(Packets)
    BY <1>2, <1>5, <1>7, <2>1, AppendIsConcat
  <2>3. <<qp.packet>> \o (Names \o <<Current(t)>>) = (<<qp.packet>> \o Names) \o <<Current(t)>>
    BY <1>5, <2>2, ConcatAssociative
  <2>4. <<qp.packet>> \o Names \in Seq(Packets)
    BY <1>5, <2>1, InFront
  <2>5. Append(<<qp.packet>> \o Names, Current(t)) = (<<qp.packet>> \o Names) \o <<Current(t)>>
    BY <1>2, <2>4, AppendIsConcat
  <2> QED
    BY <1>1, <1>8, <2>2, <2>3, <2>5 DEF Flow
<1>9. CASE worker # "send"
  BY <1>1, <1>7, <1>9 DEF Flow
<1> QED
  BY <1>8, <1>9

LEMMA FlowPop ==
  ASSUME TypeOK, TypeOK', Pop
  PROVE  Flow' = Flow
<1> DEFINE n == Len(packet_queue)
<1>1. /\ packet_queue \in Seq(QueuedPacket) /\ packet_queue # <<>>
      /\ packet_queue' = Tail(packet_queue) /\ qp' = Head(packet_queue)
      /\ worker = "pop" /\ worker' = "send"
  BY DEF Pop, TypeOK
<1>2. /\ n \in Nat \ {0} /\ Len(packet_queue') = n - 1
      /\ \A k \in 1 .. n - 1 : packet_queue'[k] = packet_queue[k + 1]
      /\ qp' = packet_queue[1]
  BY <1>1, HeadTailProperties, LenProperties, EmptySeq
<1>3. /\ Names \in Seq(Packets) /\ Len(Names) = n
      /\ \A k \in 1 .. n : Names[k] = packet_queue[k].packet
  BY NamesOf
<1>4. /\ Names' \in Seq(Packets) /\ Len(Names') = n - 1
      /\ \A k \in 1 .. n - 1 : Names'[k] = packet_queue'[k].packet
  BY <1>2, NamesNext
<1> HIDE DEF n
<1>5. qp'.packet \in Packets /\ qp'.packet = Names[1]
  BY <1>2, <1>3, ElementOfSeq
<1> DEFINE c == <<qp'.packet>> \o Names'
<1>6. /\ c \in Seq(Packets) /\ Len(c) = (n - 1) + 1 /\ c[1] = qp'.packet
      /\ \A k \in 1 .. n - 1 : c[k + 1] = Names'[k]
  BY <1>4, <1>5, InFront
<1> HIDE DEF c
<1>7. \A j \in 1 .. n : c[j] = Names[j]
  <2> SUFFICES ASSUME NEW j \in 1 .. n PROVE c[j] = Names[j]
    OBVIOUS
  <2>1. CASE j = 1
    BY <1>5, <1>6, <2>1
  <2>2. CASE j # 1
    <3>1. j - 1 \in 1 .. n - 1 /\ (j - 1) + 1 = j
      BY <1>2, <2>2
    <3>2. c[j] = Names'[j - 1]
      BY <1>6, <3>1
    <3>3. Names'[j - 1] = packet_queue'[j - 1].packet
      BY <1>4, <3>1
    <3>4. packet_queue'[j - 1] = packet_queue[j]
      BY <1>2, <3>1
    <3> QED
      BY <1>3, <3>2, <3>3, <3>4
  <2> QED
    BY <2>1, <2>2
<1>8. Len(c) = n
  BY <1>2, <1>6
<1>9. c = Names
  BY <1>3, <1>6, <1>7, <1>8, SeqEqual
<1> QED
  BY <1>1, <1>9 DEF Flow, c

LEMMA FlowDrain ==
  ASSUME TypeOK, TypeOK', StopDrain
  PROVE  Flow' = IF worker = "send" THEN <<qp.packet>> ELSE <<>>
<1>1. worker' = worker /\ qp' = qp /\ packet_queue' = <<>>
  BY DEF StopDrain, workerVars
<1>2. Names' = <<>>
  <2>1. Len(packet_queue') = 0
    BY <1>1
  <2> QED
    BY <2>1, NamesNext, EmptySeq
<1>3. worker = "send" => <<qp.packet>> \o <<>> = <<qp.packet>>
  <2>1. worker = "send" => <<qp.packet>> \in Seq(Packets)
    BY EntriesOf
  <2> QED
    BY <2>1, ConcatEmptySeq
<1> QED
  BY <1>1, <1>2, <1>3 DEF Flow

LEMMA FlowSend ==
  ASSUME TypeOK, Send
  PROVE  Flow # <<>> /\ Head(Flow) = qp.packet /\ Tail(Flow) = Flow'
<1>1. worker = "send" /\ worker' = "free" /\ packet_queue' = packet_queue
  BY DEF Send, queueVars
<1>2. Flow' = Names
  BY <1>1 DEF Flow, Names
<1>3. qp.packet \in Packets /\ Names \in Seq(Packets)
  BY <1>1, EntriesOf, NamesOf
<1>4. Flow = <<qp.packet>> \o Names
  BY <1>1 DEF Flow
<1> QED
  BY <1>2, <1>3, <1>4, InFront

LEMMA SameToSet == \A s : Channel!ToSet(s) = ToSet(s)
BY DEF ToSet, Channel!ToSet

\* The actions of the channel, in terms of Chan and Awaited.
LEMMA ChannelAccepts ==
  ASSUME NEW p \in Packets, p \notin ToSet(Chan) \cup ToSet(sent),
         Chan' = Append(Chan, p), Awaited' \in {Awaited, Awaited \cup {p}},
         stop' = stop, sent' = sent
  PROVE  Channel!Next
<1>1. Channel!Accept(p)
  BY SameToSet DEF Channel!Accept, Channel!Fresh, Chan, Awaited
<1> QED
  BY <1>1 DEF Channel!Next

LEMMA ChannelDelivers ==
  ASSUME Chan # <<>>, sent' = Append(sent, Head(Chan)), Chan' = Tail(Chan),
         Awaited' = Awaited, stop' = stop
  PROVE  Channel!Next
BY DEF Channel!Next, Channel!Deliver, Chan, Awaited

LEMMA ChannelAnswers ==
  ASSUME NEW p \in Packets, p \in Awaited, p \in ToSet(sent),
         Awaited' = Awaited \ {p}, Chan' = Chan, stop' = stop, sent' = sent
  PROVE  Channel!Next
<1>1. Channel!Answer(p)
  BY SameToSet DEF Channel!Answer, Chan, Awaited
<1> QED
  BY <1>1 DEF Channel!Next

LEMMA ChannelAbandons ==
  ASSUME NEW p \in Packets, stop # "idle", p \in Awaited,
         p \notin ToSet(Chan) \cup ToSet(sent),
         Awaited' = Awaited \ {p}, Chan' = Chan, stop' = stop, sent' = sent
  PROVE  Channel!Next
<1>1. Channel!Abandon(p)
  BY SameToSet DEF Channel!Abandon, Chan, Awaited
<1> QED
  BY <1>1 DEF Channel!Next

LEMMA ChannelCloses ==
  ASSUME stop = "idle", stop' # "idle", Chan' = Chan, Awaited' = Awaited, sent' = sent
  PROVE  Channel!Next
BY DEF Channel!Next, Channel!Close, Chan, Awaited

LEMMA ChannelDiscards ==
  ASSUME stop # "idle", stop' # "idle", Chan # <<>>, Chan' \in {<<>>, <<Head(Chan)>>},
         Awaited' = Awaited, sent' = sent
  PROVE  Channel!Next
BY DEF Channel!Next, Channel!Discard, Chan, Awaited

LEMMA ChannelStutters ==
  ASSUME stop' = "idle" <=> stop = "idle", Chan' = Chan, Awaited' = Awaited, sent' = sent
  PROVE  UNCHANGED Channel!vars
BY DEF Channel!vars, Chan, Awaited

LEMMA ChanIsFlowNext ==
  ASSUME TypeOK', ContentIntact'
  PROVE  Chan' = Flow'
<1>1. (TypeOK /\ ContentIntact => Chan = Flow)'
  BY ChanIsFlow, PTL
<1> QED
  BY <1>1

\* The packets in flight, when nothing is queued, taken or sent.
LEMMA FlowStays ==
  ASSUME packet_queue' = packet_queue, worker' = "send" <=> worker = "send",
         worker = "send" => qp' = qp
  PROVE  Flow' = Flow
BY DEF Flow, Names

LEMMA AwaitedOf == \A p : p \in Awaited <=> \E t \in Threads : Waits(t) /\ p = Current(t)
BY DEF Awaited, Waits

\* The callers that wait, after a step of each kind.
LEMMA AwaitedStays ==
  ASSUME \A u \in Threads : Waits(u)' <=> Waits(u),
         \A u \in Threads : Waits(u) => made'[u] = made[u]
  PROVE  Awaited' = Awaited
BY DEF Awaited, Waits, Current

LEMMA AwaitedMore ==
  ASSUME NEW t \in Threads, made' = made, Waits(t)',
         \A u \in Threads \ {t} : Waits(u)' <=> Waits(u)
  PROVE  Awaited' = Awaited \cup {Current(t)}
<1>1. \A u : Current(u)' = Current(u)
  BY DEF Current
<1> QED
  BY <1>1 DEF Awaited, Waits

LEMMA AwaitedLess ==
  ASSUME NEW t \in Threads, made' = made, ~Waits(t)',
         \A u \in Threads \ {t} : Waits(u)' <=> Waits(u)
  PROVE  Awaited' = Awaited \ {Current(t)}
<1>1. \A u : Current(u)' = Current(u)
  BY DEF Current
<1>2. \A u : Current(u)[1] = u
  BY DEF Current
<1> QED
  BY <1>1, <1>2 DEF Awaited, Waits

\* A hook enters the channel by pushing, and leaves it by getting its answer or by
\* finding its event closed.
LEMMA HookOnChannel ==
  ASSUME ChannelInv, ChannelInv', NEW t \in Threads, Hook(t)
  PROVE  [Channel!Next]_(Channel!vars)
<1>a. TypeOK /\ TypeOK' /\ ContentIntact /\ ContentIntact' /\ InOrder /\ HeldOnce /\ AnswerInv
  BY DEF ChannelInv, HeapInv
<1>b. Chan = Flow /\ Chan' = Flow'
  BY <1>a, ChanIsFlow, ChanIsFlowNext
<1>c. /\ ToSet(sent) = {sent[j] : j \in DOMAIN sent}
      /\ \A p : p \in ToSet(sent) <=> Sent(p)
  BY DEF ToSet, Sent
<1> USE DEF poolVars, queueVars, hookVars, workerVars
<1>1. ASSUME UNCHANGED <<packet_queue, worker, qp, sent, stop>>,
             ~Waits(t), ~Waits(t)',
             \A u \in Threads \ {t} : (Waits(u)' <=> Waits(u)) /\ made'[u] = made[u]
      PROVE  UNCHANGED Channel!vars
  <2>1. Chan' = Chan
    BY <1>1, <1>b, FlowStays
  <2>2. \A u \in Threads : Waits(u)' <=> Waits(u)
    BY <1>1
  <2>3. \A u \in Threads : Waits(u) => made'[u] = made[u]
    BY <1>1
  <2>4. Awaited' = Awaited
    BY <2>2, <2>3, AwaitedStays
  <2> QED
    BY <1>1, <2>1, <2>4, ChannelStutters
<1>2. ASSUME NEW fits \in BOOLEAN, NEW waits \in BOOLEAN, Allocate(t, fits, waits)
      PROVE  UNCHANGED Channel!vars
  BY <1>1, <1>2, <1>a DEF Allocate, TypeOK, Waits
<1>3. CASE Fill(t)
  BY <1>1, <1>3, <1>a DEF Fill, TypeOK, Waits
<1>4. CASE CreateResponseEvent(t)
  BY <1>1, <1>4, <1>a DEF CreateResponseEvent, TypeOK, Waits
<1>5. CASE CreateResponseEventFails(t)
  BY <1>1, <1>5, <1>a DEF CreateResponseEventFails, Leave, TypeOK, Waits
<1>6. CASE Push(t)
  <2>1. /\ pc[t] = "push" /\ pc' = [pc EXCEPT ![t] = "notify"]
        /\ UNCHANGED <<sent, stop, made, needs_response>>
        /\ HoldsBuffer(t) /\ ~Waits(t) /\ Current(t) \in Packets
    BY <1>6, <1>a DEF Push, HoldsBuffer, Waits, Current, Packets, TypeOK
  <2>2. Chan' = Append(Chan, Current(t))
    BY <1>6, <1>a, <1>b, FlowPush
  <2>3. Current(t) \notin ToSet(Chan)
    <3>1. ~Queued(Current(t)) /\ ~AtWorker(Current(t))
      BY <1>a, <2>1, CurrentIsNew DEF Queued, AtWorker, WorkerHolds
    <3> QED
      BY <1>a, <1>b, <3>1, FlowOf
  <2>4. Current(t) \notin ToSet(sent)
    <3>1. ~Older(Current(t))
      <4>1. Current(t)[1] = t /\ Current(t)[2] = made[t] /\ made[t] \in Nat
        BY <1>a DEF Current, TypeOK
      <4> QED
        BY <2>1, <4>1 DEF Older
    <3> QED
      BY <1>a, <1>c, <3>1 DEF InOrder, Sent
  <2>5. Awaited' \in {Awaited, Awaited \cup {Current(t)}}
    <3>1. \A u \in Threads \ {t} : Waits(u)' <=> Waits(u)
      BY <1>a, <2>1 DEF Waits, TypeOK
    <3>2. CASE Waits(t)'
      BY <2>1, <3>1, <3>2, AwaitedMore
    <3>3. CASE ~Waits(t)'
      <4>1. \A u \in Threads : Waits(u)' <=> Waits(u)
        BY <2>1, <3>1, <3>3
      <4>2. Awaited' = Awaited
        BY <2>1, <4>1, AwaitedStays
      <4> QED
        BY <4>2
    <3> QED
      BY <3>2, <3>3
  <2> QED
    BY <2>1, <2>2, <2>3, <2>4, <2>5, ChannelAccepts
<1>7. ASSUME UNCHANGED <<packet_queue, worker, qp, sent, stop>>, Leave(t),
             pc[t] \in {"notify", "waiting"}
      PROVE  /\ Chan' = Chan /\ Awaited' = Awaited \ {Current(t)}
             /\ ~Waits(t) => UNCHANGED Channel!vars
             /\ Waits(t) => Current(t) \in Awaited /\ Current(t) \in Packets
  <2>1. Chan' = Chan
    BY <1>7, <1>b, FlowStays
  <2>2. /\ made' = made /\ ~Waits(t)'
        /\ \A u \in Threads \ {t} : Waits(u)' <=> Waits(u)
    BY <1>7, <1>a DEF Leave, Waits, TypeOK
  <2>3. Awaited' = Awaited \ {Current(t)}
    BY <2>2, AwaitedLess
  <2>4. ~Waits(t) => UNCHANGED Channel!vars
    <3>1. \A u \in Threads \ {t} : made'[u] = made[u]
      BY <2>2
    <3> QED
      BY <1>1, <1>7, <2>2, <3>1
  <2>5. Current(t) \in Packets
    BY <1>7, <1>a DEF Current, Packets, TypeOK
  <2>6. Waits(t) => Current(t) \in Awaited
    BY AwaitedOf
  <2> QED
    BY <2>1, <2>3, <2>4, <2>5, <2>6
<1>8. CASE Notify(t)
  <2>1. UNCHANGED <<packet_queue, worker, qp, sent, stop>> /\ pc[t] = "notify"
    BY <1>8 DEF Notify
  <2>2. CASE needs_response[t] /\ response_event[t] # "closed"
    <3>1. pc' = [pc EXCEPT ![t] = "waiting"] /\ UNCHANGED <<made, needs_response>>
      BY <1>8, <2>2 DEF Notify
    <3>2. \A u \in Threads : Waits(u)' <=> Waits(u)
      BY <1>a, <2>1, <3>1 DEF Waits, TypeOK
    <3>3. Awaited' = Awaited
      BY <3>1, <3>2, AwaitedStays
    <3>4. Chan' = Chan
      BY <1>b, <2>1, FlowStays
    <3> QED
      BY <2>1, <3>3, <3>4, ChannelStutters
  <2>3. CASE ~(needs_response[t] /\ response_event[t] # "closed")
    <3>1. Leave(t)
      BY <1>8, <2>3 DEF Notify
    <3>2. CASE ~Waits(t)
      BY <1>7, <2>1, <3>1, <3>2
    <3>3. CASE Waits(t)
      <4>1. response_event[t] = "closed"
        BY <2>3, <3>3 DEF Waits
      <4>2. /\ stop # "idle"
            /\ ~Sent(Current(t)) /\ ~Queued(Current(t)) /\ ~AtWorker(Current(t))
        BY <1>a, <4>1 DEF AnswerInv
      <4>3. Current(t) \notin ToSet(Chan) \cup ToSet(sent)
        BY <1>a, <1>b, <1>c, <4>2, FlowOf
      <4> QED
        BY <1>7, <2>1, <3>1, <3>3, <4>2, <4>3, ChannelAbandons
    <3> QED
      BY <3>2, <3>3
  <2> QED
    BY <2>2, <2>3
<1>9. CASE Return(t)
  <2>1. /\ UNCHANGED <<packet_queue, worker, qp, sent, stop>> /\ pc[t] = "waiting"
        /\ Leave(t) /\ response_event[t] = "set"
    BY <1>9 DEF Return
  <2>2. Waits(t) /\ Sent(Current(t))
    BY <1>a, <2>1 DEF AnswerInv
  <2>3. Current(t) \in ToSet(sent)
    BY <1>c, <2>2
  <2> QED
    BY <1>7, <2>1, <2>2, <2>3, ChannelAnswers
<1> QED
  BY <1>2, <1>3, <1>4, <1>5, <1>6, <1>8, <1>9 DEF Hook, HookStep

\* The worker delivers when it sends; the thread that unloads the DLL closes the
\* channel and drops what is queued.
LEMMA WorkerOnChannel ==
  ASSUME ChannelInv, ChannelInv', Worker
  PROVE  [Channel!Next]_(Channel!vars)
<1>a. TypeOK /\ TypeOK' /\ ContentIntact /\ ContentIntact' /\ InOrder
  BY DEF ChannelInv
<1>b. Chan = Flow /\ Chan' = Flow'
  BY <1>a, ChanIsFlow, ChanIsFlowNext
<1>c. /\ UNCHANGED <<pc, made, needs_response, stop>>
      /\ Awaited' = Awaited
  <2>1. UNCHANGED <<pc, made, needs_response, stop>>
    BY DEF Worker, LoopTest, WaitWake, BatchTest, Pop, PopNothing, Send, FreeBuffer,
           SignalResponse, hookVars
  <2> QED
    BY <2>1 DEF Awaited, Current
<1> USE DEF poolVars, queueVars, hookVars, workerVars
<1>1. CASE Pop
  <2>1. Chan' = Chan /\ sent' = sent
    BY <1>1, <1>a, <1>b, FlowPop DEF Pop
  <2> QED
    BY <1>c, <2>1, ChannelStutters
<1>2. CASE Send
  <2>1. Chan # <<>> /\ Head(Chan) = qp.packet /\ Tail(Chan) = Chan'
    BY <1>2, <1>a, <1>b, FlowSend
  <2>2. sent' = Append(sent, Head(Chan))
    BY <1>2, <1>a, <2>1, AppendSent
  <2> QED
    BY <1>c, <2>1, <2>2, ChannelDelivers
<1>3. CASE LoopTest \/ WaitWake \/ BatchTest \/ PopNothing \/ FreeBuffer \/ SignalResponse
  <2>1. UNCHANGED <<packet_queue, sent>> /\ worker # "send" /\ worker' # "send"
    BY <1>3 DEF LoopTest, WaitWake, BatchTest, PopNothing, FreeBuffer, SignalResponse, WorkerGoes
  <2>2. Chan' = Chan
    BY <1>b, <2>1, FlowStays
  <2> QED
    BY <1>c, <2>1, <2>2, ChannelStutters
<1> QED
  BY <1>1, <1>2, <1>3 DEF Worker

LEMMA StopOnChannel ==
  ASSUME ChannelInv, ChannelInv', Stop
  PROVE  [Channel!Next]_(Channel!vars)
<1>a. TypeOK /\ TypeOK' /\ ContentIntact /\ ContentIntact' /\ InOrder
  BY DEF ChannelInv
<1>b. Chan = Flow /\ Chan' = Flow'
  BY <1>a, ChanIsFlow, ChanIsFlowNext
<1>c. /\ UNCHANGED <<pc, made, needs_response, worker, qp, sent>>
      /\ Awaited' = Awaited
  <2>1. UNCHANGED <<pc, made, needs_response, worker, qp, sent>>
    BY DEF Stop, StopBegin, StopSignal, StopJoin, StopJoinTimeout, StopDrain, DeleteQueue,
           DeletePool, hookVars, workerVars
  <2> QED
    BY <2>1 DEF Awaited, Current
<1> USE DEF poolVars, queueVars, hookVars, workerVars
<1>1. CASE StopBegin
  <2>1. stop = "idle" /\ stop' # "idle" /\ packet_queue' = packet_queue
    BY <1>1 DEF StopBegin
  <2>2. Chan' = Chan
    BY <1>b, <1>c, <2>1, FlowStays
  <2> QED
    BY <1>c, <2>1, <2>2, ChannelCloses
<1>2. CASE StopDrain
  <2>1. stop # "idle" /\ stop' # "idle"
    BY <1>2 DEF StopDrain
  <2>2. Chan' = IF worker = "send" THEN <<qp.packet>> ELSE <<>>
    BY <1>2, <1>a, <1>b, FlowDrain
  <2>3. CASE Chan = <<>>
    <3>1. worker # "send"
      <4>1. worker = "send" => Chan = <<qp.packet>> \o Names /\ qp.packet \in Packets
        BY <1>a, <1>b, EntriesOf DEF Flow
      <4> QED
        BY <1>a, <2>3, <4>1, NamesOf, InFront
    <3> QED
      BY <1>c, <2>1, <2>2, <2>3, <3>1, ChannelStutters
  <2>4. CASE Chan # <<>>
    <3>1. worker = "send" => Head(Chan) = qp.packet
      <4>1. worker = "send" => Chan = <<qp.packet>> \o Names /\ qp.packet \in Packets
        BY <1>a, <1>b, EntriesOf DEF Flow
      <4> QED
        BY <1>a, <4>1, NamesOf, InFront
    <3>2. Chan' \in {<<>>, <<Head(Chan)>>}
      BY <2>2, <3>1
    <3> QED
      BY <1>c, <2>1, <2>4, <3>2, ChannelDiscards
  <2> QED
    BY <2>3, <2>4
<1>3. CASE StopSignal \/ StopJoin \/ StopJoinTimeout \/ DeleteQueue \/ DeletePool
  <2>1. stop # "idle" /\ stop' # "idle" /\ packet_queue' = packet_queue
    BY <1>3 DEF StopSignal, StopJoin, StopJoinTimeout, DeleteQueue, DeletePool
  <2>2. Chan' = Chan
    BY <1>b, <1>c, <2>1, FlowStays
  <2> QED
    BY <1>c, <2>1, <2>2, ChannelStutters
<1> QED
  BY <1>1, <1>2, <1>3 DEF Stop

\* The queue of the hooks and the worker is a first-in first-out channel.
THEOREM ImplementsChannelTheorem == Spec => ChannelSpec
<1>1. Init => Channel!Init
  <2> SUFFICES ASSUME Init PROVE Channel!Init
    OBVIOUS
  <2>1. stop = "idle" /\ sent = <<>>
    BY DEF Init
  <2>2. InFlight = <<>>
    BY DEF Init, InFlight
  <2>3. [k \in DOMAIN packet_queue |-> Content(packet_queue[k])] = <<>>
    <3>1. packet_queue = <<>>
      BY DEF Init
    <3> DEFINE c == [k \in DOMAIN packet_queue |-> Content(packet_queue[k])]
    <3>2. c \in Seq({}) /\ Len(c) = 0
      BY <3>1, IsASeq
    <3> QED
      BY <3>2, EmptySeq
  <2>4. {Current(t) : t \in {u \in Threads :
           needs_response[u] /\ pc[u] \in {"notify", "waiting"}}} = {}
    BY DEF Init
  <2>5. <<>> \o <<>> = <<>>
    BY EmptySeq, ConcatEmptySeq
  <2> QED
    BY <2>1, <2>2, <2>3, <2>4, <2>5 DEF Channel!Init
<1>2. ChannelInv /\ ChannelInv' /\ [Next]_vars => [Channel!Next]_(Channel!vars)
  <2> SUFFICES ASSUME ChannelInv, ChannelInv', [Next]_vars
               PROVE  [Channel!Next]_(Channel!vars)
    OBVIOUS
  <2>1. CASE Start
    <3>1. /\ UNCHANGED <<packet_queue, sent, stop, pc, made, needs_response>>
          /\ worker # "send" /\ worker' # "send"
      BY <2>1 DEF Start, queueVars, hookVars
    <3>2. Chan' = Chan
      BY <3>1, ChanIsFlow, ChanIsFlowNext, FlowStays DEF ChannelInv
    <3>3. Awaited' = Awaited
      BY <3>1 DEF Awaited, Current
    <3> QED
      BY <3>1, <3>2, <3>3, ChannelStutters
  <2>2. ASSUME NEW t \in Threads, Hook(t) PROVE [Channel!Next]_(Channel!vars)
    BY <2>2, HookOnChannel
  <2>3. CASE Worker
    BY <2>3, WorkerOnChannel
  <2>4. CASE Stop
    BY <2>4, StopOnChannel
  <2>5. CASE UNCHANGED vars
    BY <2>5 DEF vars, poolVars, queueVars, hookVars, workerVars, Channel!vars, InFlight,
                Content, Current
  <2> QED
    BY <2>1, <2>2, <2>3, <2>4, <2>5 DEF Next
<1> QED
  BY <1>1, <1>2, ChannelInvariant, PTL DEF Spec, ChannelSpec, Channel!Spec
================================================================================
