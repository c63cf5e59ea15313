----------------------------- MODULE PacketLogProofs ----------------------------
(***************************************************************************)
(* What is proved of the packet log for every number of threads, objects   *)
(* and packets and every depth of receptions: the types; that on 32 bit    *)
(* ids tell the direction; that a packet is logged once, with all its      *)
(* fields and no others; and that ids hold the messages of a packet        *)
(* together, for what goes out and for what comes in.  OwnedInv, CallsInv, *)
(* AloneInv, CountInv, ReceivingInv, NumberedInv, TrackInv and FieldsInv   *)
(* are what the steps keep for that; one lemma each shows it.              *)
(***************************************************************************)
EXTENDS PacketLog, TLAPS, SequenceTheorems

\* Front and Last stay within the elements of the sequence they are taken from.
LEMMA FrontLastType ==
  ASSUME NEW S, NEW s \in Seq(S), s # <<>>
  PROVE  Front(s) \in Seq(S) /\ Last(s) \in S
<1>1. Len(s) \in Nat /\ Len(s) # 0
  BY EmptySeq
<1>2. Last(s) \in S
  BY <1>1, ElementOfSeq DEF Last
<1>3. SubSeq(s, 1, Len(s) - 1) \in Seq(S)
  <2>1. Len(s) - 1 \in 1 - 1 .. Len(s)
    BY <1>1
  <2>2. \A i \in 1 .. Len(s) - 1 : s[i] \in S
    BY <1>1, ElementOfSeq
  <2> QED BY <1>1, <2>1, <2>2, SubSeqProperties
<1> QED BY <1>2, <1>3 DEF Front

\* A message appended to the log leaves it a sequence of messages.
LEMMA LogType ==
  ASSUME log \in Seq(Message), NEW m \in Message, log' = Append(log, m)
  PROVE  log' \in Seq(Message)
BY AppendProperties

\* Every step that logs about a reception logs a message.
LEMMA ReceivedType ==
  ASSUME NEW kind \in {"recv", "decode", "decode_end"}, NEW id \in Nat, NEW n \in Nat
  PROVE  Received(kind, id, n) \in Message
BY DEF Received, Message, Kinds

\* AddQueue keeps the type of the tracking map.
LEMMA AddQueueType ==
  ASSUME packet_tracking_map \in [OutPackets -> Seq(Field)],
         NEW o \in OutPackets, NEW s \in Seq(Field), NEW f \in Field, AddQueue(o, s, f)
  PROVE  packet_tracking_map' \in [OutPackets -> Seq(Field)]
<1>1. Append(s, f) \in Seq(Field)
  BY AppendProperties
<1> QED BY <1>1 DEF AddQueue

\* No step of the game's threads or of the start-up breaks the types.
LEMMA TypeStep == TypeOK /\ [Next]_vars => TypeOK'
<1> SUFFICES ASSUME TypeOK, [Next]_vars
             PROVE  TypeOK'
  OBVIOUS
<1> USE DEF idVars, trackVars, objectVars, sendVars, recvVars
<1>1. CASE InitTracking
  BY <1>1 DEF InitTracking, TypeOK, Sending, Built
<1>2. ASSUME NEW t \in Threads, NEW o \in OutPackets, COutPacket(t, o)
      PROVE  TypeOK'
  <2>1. /\ Built \in Nat
        /\ fields' \in Seq(Nat)
        /\ Built' = Built + 1
    BY <1>2, AppendProperties, LenProperties DEF COutPacket, TypeOK, Built
  <2>2. <<>> \in Seq(Field) /\ [of |-> Built + 1, pos |-> 0] \in Field
    BY <2>1, EmptySeq DEF Field
  <2>3. packet_tracking_map' \in [OutPackets -> Seq(Field)]
    BY <1>2, <2>2, AddQueueType DEF COutPacket, TypeOK
  <2>4. build' \in [OutPackets -> 0 .. Built']
    BY <1>2, <2>1 DEF COutPacket, TypeOK
  <2>5. \A x \in OutPackets : owner'[x] # NULL => build'[x] # 0
    BY <1>2, <2>1 DEF COutPacket, TypeOK
  <2>6. early' \subseteq Nat
    BY <1>2, <2>1 DEF COutPacket, TypeOK
  <2> QED BY <1>2, <2>1, <2>3, <2>4, <2>5, <2>6 DEF COutPacket, TypeOK, Sending
<1>3. ASSUME NEW t \in Threads, NEW o \in OutPackets, Encode(t, o)
      PROVE  TypeOK'
  <2>1. build[o] \in 1 .. Len(fields)
    BY <1>3, NullAssumption DEF Encode, TypeOK, Built
  <2>2. fields[build[o]] \in Nat
    BY <2>1, ElementOfSeq DEF TypeOK
  <2>3. fields' \in Seq(Nat) /\ Len(fields') = Len(fields)
    BY <1>3, <2>1, <2>2, ExceptSeq DEF Encode, TypeOK
  <2>4. [of |-> build[o], pos |-> fields[build[o]]] \in Field
    BY <2>1, <2>2 DEF Field
  <2>5. packet_tracking_map' \in [OutPackets -> Seq(Field)]
    BY <1>3, <2>4, AddQueueType DEF Encode, TypeOK
  <2> QED BY <1>3, <2>3, <2>5 DEF Encode, TypeOK, Sending, Built
<1>4. ASSUME NEW t \in Threads, NEW o \in OutPackets, Abandon(t, o)
      PROVE  TypeOK'
  BY <1>4 DEF Abandon, TypeOK, Sending, Built
<1>5. ASSUME NEW t \in Threads, NEW o \in OutPackets, NEW r \in Routes, SendPacket(t, o, r)
      PROVE  TypeOK'
  <2>1. \A x \in OutPackets : build[x] \in Nat
    BY LenProperties DEF TypeOK, Built
  <2>2. \A u \in SendersBut(t) : op[u] \in OutPackets
    BY DEF SendersBut, TypeOK
  <2>3. overlapped' \subseteq Nat
    <3>1. \/ overlapped' = overlapped
          \/ overlapped' = overlapped \cup {build[o]} \cup {build[op[u]] : u \in SendersBut(t)}
      BY <1>5 DEF SendPacket
    <3>2. build[o] \in Nat /\ \A u \in SendersBut(t) : build[op[u]] \in Nat
      BY <2>1, <2>2
    <3>3. overlapped \subseteq Nat
      BY DEF TypeOK
    <3> DEFINE more == {build[op[u]] : u \in SendersBut(t)}
    <3>4. more \subseteq Nat
      BY <3>2
    <3>5. overlapped' = overlapped \/ overlapped' = overlapped \cup {build[o]} \cup more
      BY <3>1
    <3> HIDE DEF more
    <3> QED
      BY <3>2, <3>3, <3>4, <3>5
  <2>4. items' \in [Threads -> Seq(Field)]
    BY <1>5 DEF SendPacket, TypeOK
  <2>5. packet_tracking_map' \in [OutPackets -> Seq(Field)]
    <3>1. <<>> \in Seq(Field)
      BY EmptySeq
    <3>2. [packet_tracking_map EXCEPT ![o] = <<>>] \in [OutPackets -> Seq(Field)]
      BY <3>1 DEF TypeOK
    <3> QED BY <1>5, <3>2 DEF SendPacket, TypeOK
  <2> QED BY <1>5, <2>3, <2>4, <2>5 DEF SendPacket, Goes, TypeOK, Sending, Built
<1>6. ASSUME NEW t \in Threads, AddExtra(t)
      PROVE  TypeOK'
  <2>1. Head(items[t]) \in Field /\ Tail(items[t]) \in Seq(Field)
    BY <1>6, HeadTailProperties DEF AddExtra, TypeOK
  <2>2. build[op[t]] \in Nat
    BY <1>6, LenProperties DEF AddExtra, TypeOK, Sending, Built
  <2>3. [kind |-> "encode", id |-> packet_id_out, of |-> Head(items[t]).of,
         pos |-> Head(items[t]).pos, call |-> build[op[t]]] \in Message
    BY <2>1, <2>2 DEF TypeOK, Message, Kinds, Field
  <2>4. log' \in Seq(Message)
    BY <1>6, <2>3, LogType DEF AddExtra, TypeOK
  <2> QED BY <1>6, <2>1, <2>4 DEF AddExtra, TypeOK, Sending, Built
<1>7. ASSUME NEW t \in Threads, AddSendPacket(t)
      PROVE  TypeOK'
  <2>1. build[op[t]] \in Nat
    BY <1>7, LenProperties DEF AddSendPacket, Goes, TypeOK, Sending, Built
  <2>2. [kind |-> "send", id |-> packet_id_out, of |-> build[op[t]],
         pos |-> 0, call |-> build[op[t]]] \in Message
    BY <2>1 DEF TypeOK, Message, Kinds
  <2>3. log' \in Seq(Message)
    BY <1>7, <2>2, LogType DEF AddSendPacket, TypeOK
  <2> QED BY <1>7, <2>3 DEF AddSendPacket, Goes, TypeOK, Sending, Built
<1>8. ASSUME NEW t \in Threads, LoadOut(t)
      PROVE  TypeOK'
  BY <1>8 DEF LoadOut, Goes, TypeOK, Sending, Built
<1>9. ASSUME NEW t \in Threads, StoreOut(t)
      PROVE  TypeOK'
  <2>1. packet_id_out' \in Nat /\ loaded' \in [Threads -> Nat]
    BY <1>9 DEF StoreOut, TypeOK
  <2> QED
    BY <1>9, <2>1 DEF StoreOut, Goes, TypeOK, Sending, Built
<1>10. ASSUME NEW t \in Threads, StoreBumped(t)
       PROVE  TypeOK'
  BY <1>10 DEF StoreBumped, Goes, TypeOK, Sending, Built
<1>11. ASSUME NEW t \in Threads, CallOriginal(t)
       PROVE  TypeOK'
  BY <1>11 DEF CallOriginal, Goes, TypeOK, Sending, Routes, Built
<1>12. ASSUME NEW t \in Threads, ProcessPacket(t)
       PROVE  TypeOK'
  <2>1. /\ received' \in Nat
        /\ Append(receiving[t], received + 1) \in Seq(Nat)
        /\ Append(receiving[t], received + 1) # <<>>
    <3> DEFINE n == received + 1
    <3>1. n \in Nat /\ received' = n /\ receiving[t] \in Seq(Nat)
      BY <1>12 DEF ProcessPacket, TypeOK
    <3> HIDE DEF n
    <3>2. Append(receiving[t], n) \in Seq(Nat) /\ Append(receiving[t], n) # <<>>
      BY <3>1, AppendProperties
    <3> QED BY <3>1, <3>2 DEF n
  <2>2. \A u \in Threads : ToSet(receiving[u]) \subseteq Nat
    BY ElementOfSeq DEF TypeOK, ToSet
  <2>3. overtaken' \subseteq Nat
    <3>1. Ongoing \subseteq Nat
      BY <2>2 DEF Ongoing
    <3>2. Contended \subseteq Nat
      <4>1. received + 1 \in Nat
        BY DEF TypeOK
      <4> QED BY <4>1 DEF Contended
    <3>3. overtaken' = overtaken \cup Ongoing \cup Contended
      BY <1>12 DEF ProcessPacket
    <3> QED BY <3>1, <3>2, <3>3 DEF TypeOK
  <2>4. receiving' \in [Threads -> Seq(Nat)]
    BY <1>12, <2>1 DEF ProcessPacket, TypeOK
  <2>5. \A u \in Threads : pc'[u] \in {"in_store", "in_log"} => receiving'[u] # <<>>
    BY <1>12, <2>1 DEF ProcessPacket, Goes, TypeOK
  <2> QED BY <1>12, <2>1, <2>3, <2>4, <2>5 DEF ProcessPacket, Goes, TypeOK, Sending, Built
<1>13. ASSUME NEW t \in Threads, StoreIn(t)
       PROVE  TypeOK'
  <2>1. packet_id_in' \in Nat /\ loaded' \in [Threads -> Nat]
    BY <1>13 DEF StoreIn, TypeOK
  <2> QED
    BY <1>13, <2>1 DEF StoreIn, Goes, TypeOK, Sending, Built
<1>14. ASSUME NEW t \in Threads, receiving[t] # <<>>, NEW kind \in {"recv", "decode", "decode_end"},
              log' = Append(log, Received(kind, packet_id_in, Innermost(t)))
       PROVE  /\ log' \in Seq(Message)
              /\ Front(receiving[t]) \in Seq(Nat)
  <2>1. Innermost(t) \in Nat /\ Front(receiving[t]) \in Seq(Nat)
    BY <1>14, FrontLastType DEF Innermost, TypeOK
  <2> QED BY <1>14, <2>1, ReceivedType, LogType DEF TypeOK
<1>15. ASSUME NEW t \in Threads, AddRecvPacket(t)
       PROVE  TypeOK'
  <2>1. log' \in Seq(Message)
    BY <1>14, <1>15 DEF AddRecvPacket, Goes, TypeOK
  <2> QED BY <1>15, <2>1 DEF AddRecvPacket, Goes, TypeOK, Sending, Built
<1>16. ASSUME NEW t \in Threads, Decode(t)
       PROVE  TypeOK'
  <2>1. log' \in Seq(Message)
    BY <1>14, <1>16 DEF Decode, InProcess
  <2> QED BY <1>16, <2>1 DEF Decode, TypeOK, Sending, Built
<1>17. ASSUME NEW t \in Threads, ProcessPacketReturns(t)
       PROVE  TypeOK'
  <2>1. log' \in Seq(Message) /\ receiving' \in [Threads -> Seq(Nat)]
    BY <1>14, <1>17 DEF ProcessPacketReturns, InProcess, TypeOK
  <2>2. \A u \in Threads : pc'[u] \in {"in_store", "in_log"} => receiving'[u] # <<>>
    BY <1>17 DEF ProcessPacketReturns, TypeOK
  <2> QED BY <1>17, <2>1, <2>2 DEF ProcessPacketReturns, TypeOK, Sending, Built
<1>18. CASE UNCHANGED vars
  BY <1>18 DEF vars, TypeOK, Sending, Built
<1> QED
  BY <1>1, <1>2, <1>3, <1>4, <1>5, <1>6, <1>7, <1>8, <1>9, <1>10, <1>11, <1>12, <1>13,
     <1>15, <1>16, <1>17, <1>18 DEF Next, Outgoing, Incoming

\* The types hold at the start.
LEMMA TypeInit == Init => TypeOK
<1> SUFFICES ASSUME Init PROVE TypeOK
  OBVIOUS
<1>1. <<>> \in Seq(Field) /\ <<>> \in Seq(Message) /\ <<>> \in Seq(Nat) /\ Len(<<>>) = 0
  BY EmptySeq
<1>2. build \in [OutPackets -> 0 .. Built]
  BY <1>1 DEF Init, Built
<1> QED BY <1>1, <1>2 DEF Init, TypeOK, Sending, Routes

\* Every variable of the packet log has its type, always.
THEOREM TypeCorrect == Spec => []TypeOK
BY TypeInit, TypeStep, PTL DEF Spec

--------------------------------------------------------------------------------
(***************************************************************************)
(* On 32 bit the ids tell which way a packet went.  Increments may be      *)
(* lost, but never an odd number of them: what a thread has loaded to      *)
(* count an id up has the id's parity, and so has what it stores.          *)
(***************************************************************************)
Direction(m) == m.id % 2 = (IF m.kind \in {"encode", "send"} THEN 0 ELSE 1)

ParityInv ==
  /\ packet_id_out % 2 = 0
  /\ packet_id_in % 2 = 1
  /\ \A t \in Threads : pc[t] \notin {"bump", "bumped"}
  /\ \A t \in Threads : pc[t] = "store" => loaded[t] % 2 = 0
  /\ \A t \in Threads : pc[t] = "in_store" => loaded[t] % 2 = 1

\* Counting by two keeps the parity.
LEMMA EvenStep == ASSUME NEW n \in Nat PROVE (n + 2) % 2 = n % 2
OBVIOUS

\* A message that tells its direction leaves a log whose messages do.
LEMMA DirectionAppend ==
  ASSUME log \in Seq(Message), NEW m \in Message, log' = Append(log, m),
         IdsTellDirection, Direction(m)
  PROVE  IdsTellDirection'
<1> SUFFICES ASSUME NEW k \in DOMAIN log'
             PROVE  log'[k].id % 2 = (IF log'[k].kind \in {"encode", "send"} THEN 0 ELSE 1)
  BY DEF IdsTellDirection
<1>1. DOMAIN log' = 1 .. Len(log) + 1 /\ DOMAIN log = 1 .. Len(log) /\ Len(log) \in Nat
  BY AppendProperties, LenProperties
<1>2. CASE k = Len(log) + 1
  BY <1>2, AppendProperties DEF Direction
<1>3. CASE k \in 1 .. Len(log)
  BY <1>1, <1>3, AppendProperties DEF IdsTellDirection
<1> QED BY <1>1, <1>2, <1>3

\* Without the increment of SendPacket_Hook on 64 bit, every step keeps the parities.
LEMMA ParityStep ==
  ASSUME ~Win64, TypeOK, ParityInv, [Next]_vars
  PROVE  ParityInv'
<1> USE DEF idVars, trackVars, objectVars, sendVars, recvVars
<1>1. ASSUME NEW t \in Threads, NEW from, NEW to \in {"extra", "count", "call", "game", "in_log"},
             Goes(t, from, to), UNCHANGED <<idVars, loaded>>
      PROVE  ParityInv'
  BY <1>1 DEF ParityInv, Goes, TypeOK
<1>2. CASE UNCHANGED <<idVars, pc, loaded>>
  BY <1>2 DEF ParityInv
<1>3. ASSUME NEW t \in Threads, LoadOut(t)
      PROVE  ParityInv'
  BY <1>3 DEF LoadOut, Goes, ParityInv, TypeOK
<1>4. ASSUME NEW t \in Threads, StoreOut(t)
      PROVE  ParityInv'
  <2>1. packet_id_out' % 2 = 0
    BY <1>4, EvenStep DEF StoreOut, Goes, ParityInv, TypeOK
  <2> QED BY <1>4, <2>1 DEF StoreOut, Goes, ParityInv, TypeOK
<1>5. ASSUME NEW t \in Threads, StoreBumped(t)
      PROVE  ParityInv'
  BY <1>5 DEF StoreBumped, Goes, ParityInv
<1>6. ASSUME NEW t \in Threads, ProcessPacket(t)
      PROVE  ParityInv'
  BY <1>6 DEF ProcessPacket, Goes, ParityInv, TypeOK
<1>7. ASSUME NEW t \in Threads, StoreIn(t)
      PROVE  ParityInv'
  <2>1. packet_id_in' % 2 = 1
    BY <1>7, EvenStep DEF StoreIn, Goes, ParityInv, TypeOK
  <2> QED BY <1>7, <2>1 DEF StoreIn, Goes, ParityInv, TypeOK
<1>8. ASSUME NEW t \in Threads, Outgoing(t)
      PROVE  ParityInv'
  <2>1. ASSUME NEW o \in OutPackets, COutPacket(t, o) \/ Encode(t, o) \/ Abandon(t, o)
        PROVE  ParityInv'
    BY <1>2, <2>1 DEF COutPacket, Encode, Abandon
  <2>2. ASSUME NEW o \in OutPackets, NEW r \in Routes, SendPacket(t, o, r)
        PROVE  ParityInv'
    BY <1>1, <2>2 DEF SendPacket
  <2>3. CASE AddExtra(t)
    BY <1>2, <2>3 DEF AddExtra
  <2>4. CASE AddSendPacket(t)
    BY <1>1, <2>4 DEF AddSendPacket
  <2>5. CASE CallOriginal(t)
    BY <1>1, <2>5 DEF CallOriginal
  <2> QED BY <1>3, <1>4, <1>5, <1>8, <2>1, <2>2, <2>3, <2>4, <2>5 DEF Outgoing
<1>9. ASSUME NEW t \in Threads, Incoming(t)
      PROVE  ParityInv'
  <2>1. CASE AddRecvPacket(t)
    BY <1>1, <2>1 DEF AddRecvPacket
  <2>2. CASE Decode(t)
    BY <1>2, <2>2 DEF Decode
  <2>3. CASE ProcessPacketReturns(t)
    BY <1>2, <2>3 DEF ProcessPacketReturns
  <2> QED BY <1>6, <1>7, <1>9, <2>1, <2>2, <2>3 DEF Incoming
<1>10. CASE InitTracking
  BY <1>2, <1>10 DEF InitTracking
<1>11. CASE UNCHANGED vars
  BY <1>2, <1>11 DEF vars
<1> QED BY <1>8, <1>9, <1>10, <1>11 DEF Next

\* Every message is logged under an id of the right parity.
LEMMA DirectionStep ==
  ASSUME TypeOK, TypeOK', ParityInv, IdsTellDirection, [Next]_vars
  PROVE  IdsTellDirection'
<1> USE DEF idVars, trackVars, objectVars, sendVars, recvVars
<1>1. CASE UNCHANGED log
  BY <1>1 DEF IdsTellDirection
<1>2. ASSUME NEW m, log' = Append(log, m), Direction(m)
      PROVE  IdsTellDirection'
  <2>1. /\ log \in Seq(Message)
        /\ log' \in Seq(Message)
    BY DEF TypeOK
  <2>2. Len(log) + 1 \in DOMAIN log' /\ log'[Len(log) + 1] = m
    BY <1>2, <2>1, LenProperties
  <2>3. m \in Message
    BY <2>1, <2>2, ElementOfSeq, LenProperties
  <2> QED BY <1>2, <2>1, <2>3, DirectionAppend
<1>3. ASSUME NEW t \in Threads, Outgoing(t)
      PROVE  IdsTellDirection'
  <2>1. CASE AddExtra(t)
    BY <1>2, <2>1 DEF AddExtra, Direction, ParityInv
  <2>2. CASE AddSendPacket(t)
    BY <1>2, <2>2 DEF AddSendPacket, Direction, ParityInv
  <2>3. CASE UNCHANGED log
    BY <1>1, <2>3
  <2> QED
    BY <1>3, <2>1, <2>2, <2>3 DEF Outgoing, COutPacket, Encode, Abandon, SendPacket,
       LoadOut, StoreOut, StoreBumped, CallOriginal
<1>4. ASSUME NEW kind \in {"recv", "decode", "decode_end"}, NEW n,
             log' = Append(log, Received(kind, packet_id_in, n))
      PROVE  IdsTellDirection'
  <2>1. Direction(Received(kind, packet_id_in, n))
    BY DEF Direction, Received, ParityInv
  <2> QED BY <1>2, <1>4, <2>1
<1>5. ASSUME NEW t \in Threads, Incoming(t)
      PROVE  IdsTellDirection'
  <2>1. CASE UNCHANGED log
    BY <1>1, <2>1
  <2>2. CASE AddRecvPacket(t)
    BY <1>4, <2>2 DEF AddRecvPacket
  <2>3. CASE Decode(t)
    BY <1>4, <2>3 DEF Decode
  <2>4. CASE ProcessPacketReturns(t)
    BY <1>4, <2>4 DEF ProcessPacketReturns
  <2> QED BY <1>5, <2>1, <2>2, <2>3, <2>4 DEF Incoming, ProcessPacket, StoreIn
<1> QED BY <1>1, <1>3, <1>5 DEF Next, InitTracking, vars

\* On 32 bit every message carries an even id if its packet goes out and an odd one
\* if it comes in, whatever increments the threads take from each other.
THEOREM DirectionTold == ASSUME ~Win64 PROVE Spec => []IdsTellDirection
<1> DEFINE DInv == TypeOK /\ ParityInv /\ IdsTellDirection
<1>1. Init => DInv
  <2>1. Init => TypeOK
    BY TypeInit
  <2> QED BY <2>1 DEF Init, ParityInv, IdsTellDirection
<1>2. DInv /\ [Next]_vars => DInv'
  BY TypeStep, ParityStep, DirectionStep
<1>3. DInv => IdsTellDirection
  OBVIOUS
<1> HIDE DEF DInv
<1> QED BY <1>1, <1>2, <1>3, PTL DEF Spec

--------------------------------------------------------------------------------
(***************************************************************************)
(* Every packet is logged once.  An object is sent by the thread that owns *)
(* it, two owned objects hold two packets, and once a message of a packet  *)
(* is in the log the packet is being sent or gone: its object is owned by  *)
(* nobody, and what is built there next has another number.                *)
(***************************************************************************)
Leaving(m) == m.kind \in {"encode", "send"}
Owned(o) == owner[o] # NULL

OwnedInv ==
  /\ \A t \in Threads : Sending(t) => owner[op[t]] = t
  /\ \A o, p \in OutPackets : Owned(o) /\ Owned(p) /\ build[o] = build[p] => o = p

\* A message of the packet in an object that is owned.
Names(m, o) == Leaving(m) /\ Owned(o) /\ build[o] = m.call

CallsInv ==
  /\ \A j \in DOMAIN log : Leaving(log[j]) => log[j].call \in 1 .. Built
  /\ \A j \in DOMAIN log : log[j].kind = "send" => log[j].of = log[j].call
  /\ \A j \in DOMAIN log, o \in OutPackets : Names(log[j], o) =>
       /\ Sending(owner[o])
       /\ op[owner[o]] = o
       /\ log[j].kind = "send" => pc[owner[o]] # "extra"

\* What a step that logs leaves in the log.
LEMMA LogGrows ==
  ASSUME TypeOK, NEW m, log' = Append(log, m)
  PROVE  /\ Len(log) \in Nat /\ DOMAIN log = 1 .. Len(log)
         /\ DOMAIN log' = 1 .. Len(log) + 1
         /\ log'[Len(log) + 1] = m
         /\ \A j \in DOMAIN log : j \in DOMAIN log' /\ log'[j] = log[j]
         /\ \A j \in DOMAIN log' : j = Len(log) + 1 \/ j \in DOMAIN log
<1>1. log \in Seq(Message)
  BY DEF TypeOK
<1>2. Len(log) \in Nat /\ DOMAIN log = 1 .. Len(log)
  BY <1>1, LenProperties
<1> QED BY <1>1, <1>2

\* No step lets an object be sent by another thread than its owner's, or two hold one packet.
LEMMA OwnedStep == TypeOK /\ OwnedInv /\ [Next]_vars => OwnedInv'
<1> SUFFICES ASSUME TypeOK, OwnedInv, [Next]_vars
             PROVE  OwnedInv'
  OBVIOUS
<1> USE DEF idVars, trackVars, objectVars, sendVars, recvVars
<1>1. ASSUME UNCHANGED <<owner, build, op>>, \A t \in Threads : Sending(t)' => Sending(t)
      PROVE  OwnedInv'
  BY <1>1 DEF OwnedInv, Owned
<1>2. ASSUME NEW t \in Threads, NEW o \in OutPackets, COutPacket(t, o)
      PROVE  OwnedInv'
  <2>1. /\ Built \in Nat
        /\ \A x \in OutPackets : build[x] \in 0 .. Built
    BY LenProperties DEF TypeOK, Built
  <2>2. /\ owner' = [owner EXCEPT ![o] = t]
        /\ build' = [build EXCEPT ![o] = Built + 1]
        /\ owner[o] = NULL
        /\ UNCHANGED <<op, pc>>
    BY <1>2 DEF COutPacket
  <2>3. ASSUME NEW u \in Threads, Sending(u)'
        PROVE  owner'[op'[u]] = u
    <3>1. Sending(u) /\ owner[op[u]] = u /\ op[u] \in OutPackets
      BY <2>2, <2>3 DEF Sending, OwnedInv, TypeOK
    <3>2. op[u] # o
      BY <2>2, <3>1, NullAssumption
    <3> QED BY <2>2, <3>1, <3>2 DEF TypeOK
  <2>4. ASSUME NEW x \in OutPackets, NEW y \in OutPackets,
               owner'[x] # NULL, owner'[y] # NULL, build'[x] = build'[y]
        PROVE  x = y
    <3>1. \A z \in OutPackets : z # o => owner'[z] = owner[z] /\ build'[z] = build[z]
      BY <2>2 DEF TypeOK
    <3>2. build'[o] = Built + 1
      BY <2>2 DEF TypeOK
    <3> QED BY <2>1, <2>4, <3>1, <3>2 DEF OwnedInv, Owned
  <2> QED BY <2>3, <2>4 DEF OwnedInv, Owned
<1>3. ASSUME NEW t \in Threads, NEW o \in OutPackets, Abandon(t, o)
      PROVE  OwnedInv'
  <2>1. /\ owner' = [owner EXCEPT ![o] = NULL]
        /\ owner[o] = t /\ pc[t] = "game"
        /\ UNCHANGED <<op, pc, build>>
    BY <1>3 DEF Abandon
  <2>2. ASSUME NEW u \in Threads, Sending(u)'
        PROVE  owner'[op'[u]] = u
    <3>1. Sending(u) /\ owner[op[u]] = u /\ op[u] \in OutPackets
      BY <2>1, <2>2 DEF Sending, OwnedInv, TypeOK
    <3>2. op[u] # o
      BY <2>1, <3>1 DEF Sending
    <3> QED BY <2>1, <3>1, <3>2 DEF TypeOK
  <2>3. \A x \in OutPackets : owner'[x] # NULL => owner[x] # NULL
    BY <2>1 DEF TypeOK
  <2> QED BY <2>1, <2>2, <2>3 DEF OwnedInv, Owned
<1>4. ASSUME NEW t \in Threads, NEW o \in OutPackets, NEW r \in Routes, SendPacket(t, o, r)
      PROVE  OwnedInv'
  <2>1. /\ op' = [op EXCEPT ![t] = o] /\ pc' = [pc EXCEPT ![t] = "extra"]
        /\ owner[o] = t
        /\ UNCHANGED <<owner, build>>
    BY <1>4 DEF SendPacket, Goes
  <2>2. ASSUME NEW u \in Threads, Sending(u)'
        PROVE  owner'[op'[u]] = u
    BY <2>1, <2>2 DEF Sending, OwnedInv, TypeOK
  <2> QED BY <2>1, <2>2 DEF OwnedInv, Owned
<1>5. ASSUME NEW t \in Threads, CallOriginal(t)
      PROVE  OwnedInv'
  <2>1. /\ owner' = [owner EXCEPT ![op[t]] = NULL] /\ op' = [op EXCEPT ![t] = NULL]
        /\ pc[t] = "call" /\ pc' = [pc EXCEPT ![t] = "game"]
        /\ UNCHANGED build
    BY <1>5 DEF CallOriginal, Goes
  <2>2. ASSUME NEW u \in Threads, Sending(u)'
        PROVE  owner'[op'[u]] = u
    <3>1. u # t /\ Sending(u)
      BY <2>1, <2>2 DEF Sending, TypeOK
    <3>2. owner[op[u]] = u /\ owner[op[t]] = t /\ op[u] \in OutPackets
      BY <2>1, <3>1 DEF Sending, OwnedInv, TypeOK
    <3> QED BY <2>1, <3>1, <3>2 DEF TypeOK
  <2>3. \A x \in OutPackets : owner'[x] # NULL => owner[x] # NULL
    BY <2>1 DEF TypeOK
  <2> QED BY <2>1, <2>2, <2>3 DEF OwnedInv, Owned
<1>6. ASSUME NEW t \in Threads, Outgoing(t)
      PROVE  OwnedInv'
  <2>1. ASSUME NEW o \in OutPackets, Encode(t, o)
        PROVE  OwnedInv'
    BY <1>1, <2>1 DEF Encode, Sending
  <2>2. CASE AddExtra(t)
    BY <1>1, <2>2 DEF AddExtra, Sending
  <2>3. CASE AddSendPacket(t)
    BY <1>1, <2>3 DEF AddSendPacket, Sending, Goes, TypeOK
  <2>4. CASE LoadOut(t)
    BY <1>1, <2>4 DEF LoadOut, Sending, Goes, TypeOK
  <2>5. CASE StoreOut(t)
    BY <1>1, <2>5 DEF StoreOut, Sending, Goes, TypeOK
  <2>6. CASE StoreBumped(t)
    BY <1>1, <2>6 DEF StoreBumped, Sending, Goes, TypeOK
  <2> QED BY <1>2, <1>3, <1>4, <1>5, <1>6, <2>1, <2>2, <2>3, <2>4, <2>5, <2>6 DEF Outgoing
<1>7. ASSUME NEW t \in Threads, Incoming(t)
      PROVE  OwnedInv'
  <2>1. CASE ProcessPacket(t)
    BY <1>1, <2>1 DEF ProcessPacket, Sending, Goes, TypeOK
  <2>2. CASE StoreIn(t)
    BY <1>1, <2>2 DEF StoreIn, Sending, Goes, TypeOK
  <2>3. CASE AddRecvPacket(t)
    BY <1>1, <2>3 DEF AddRecvPacket, Sending, Goes, TypeOK
  <2>4. CASE Decode(t)
    BY <1>1, <2>4 DEF Decode, Sending
  <2>5. CASE ProcessPacketReturns(t)
    BY <1>1, <2>5 DEF ProcessPacketReturns, Sending
  <2> QED BY <1>7, <2>1, <2>2, <2>3, <2>4, <2>5 DEF Incoming
<1>8. CASE InitTracking
  BY <1>1, <1>8 DEF InitTracking, Sending
<1>9. CASE UNCHANGED vars
  BY <1>1, <1>9 DEF vars, Sending
<1> QED BY <1>6, <1>7, <1>8, <1>9 DEF Next

\* A step that sends nothing: what is built and sent, by whom and under which id
\* stays, and what is logged came in.
Apart ==
  /\ UNCHANGED <<packet_id_out, packet_tracking_map, objectVars, op, items, overlapped>>
  /\ tracking_cs_initialized => tracking_cs_initialized'
  /\ \A t \in Threads : Sending(t)' <=> Sending(t)
  /\ \A t \in Threads : Sending(t) => pc'[t] = pc[t] /\ loaded'[t] = loaded[t]
  /\ \A j \in DOMAIN log : j \in DOMAIN log' /\ log'[j] = log[j]
  /\ \A j \in DOMAIN log' : j \in DOMAIN log \/ ~Leaving(log'[j])

\* The steps of a reception are such steps, and so are InitTracking and stuttering.
LEMMA IncomingApart ==
  ASSUME TypeOK
  PROVE  /\ \A t \in Threads : Incoming(t) => Apart
         /\ InitTracking => Apart
         /\ UNCHANGED vars => Apart
<1> USE DEF idVars, trackVars, sendVars, recvVars
<1>1. UNCHANGED vars => Apart
  BY DEF vars, Apart, Sending
<1>2. InitTracking => Apart
  BY DEF InitTracking, Apart, Sending
<1>3. ASSUME NEW t \in Threads, NEW m, ~Leaving(m), log' = Append(log, m)
      PROVE  /\ \A j \in DOMAIN log : j \in DOMAIN log' /\ log'[j] = log[j]
             /\ \A j \in DOMAIN log' : j \in DOMAIN log \/ ~Leaving(log'[j])
  BY <1>3, LogGrows
<1>4. \A kind, id, n : kind \in {"recv", "decode", "decode_end"} => ~Leaving(Received(kind, id, n))
  BY DEF Leaving, Received
<1>5. ASSUME NEW t \in Threads, Incoming(t)
      PROVE  Apart
  <2>1. CASE ProcessPacket(t)
    BY <2>1 DEF ProcessPacket, Goes, Apart, Sending, TypeOK
  <2>2. CASE StoreIn(t)
    BY <2>2 DEF StoreIn, Goes, Apart, Sending, TypeOK
  <2>3. CASE AddRecvPacket(t)
    <3>1. /\ log' = Append(log, Received("recv", packet_id_in, Innermost(t)))
          /\ ~Leaving(Received("recv", packet_id_in, Innermost(t)))
      BY <2>3, <1>4 DEF AddRecvPacket
    <3>2. /\ \A j \in DOMAIN log : j \in DOMAIN log' /\ log'[j] = log[j]
          /\ \A j \in DOMAIN log' : j \in DOMAIN log \/ ~Leaving(log'[j])
      BY <3>1, <1>3
    <3> QED BY <2>3, <3>2 DEF AddRecvPacket, Goes, Apart, Sending, TypeOK
  <2>4. CASE Decode(t)
    <3>1. /\ log' = Append(log, Received("decode", packet_id_in, Innermost(t)))
          /\ ~Leaving(Received("decode", packet_id_in, Innermost(t)))
      BY <2>4, <1>4 DEF Decode
    <3>2. /\ \A j \in DOMAIN log : j \in DOMAIN log' /\ log'[j] = log[j]
          /\ \A j \in DOMAIN log' : j \in DOMAIN log \/ ~Leaving(log'[j])
      BY <3>1, <1>3
    <3> QED BY <2>4, <3>2 DEF Decode, Apart, Sending, TypeOK
  <2>5. CASE ProcessPacketReturns(t)
    <3>1. /\ log' = Append(log, Received("decode_end", packet_id_in, Innermost(t)))
          /\ ~Leaving(Received("decode_end", packet_id_in, Innermost(t)))
      BY <2>5, <1>4 DEF ProcessPacketReturns
    <3>2. /\ \A j \in DOMAIN log : j \in DOMAIN log' /\ log'[j] = log[j]
          /\ \A j \in DOMAIN log' : j \in DOMAIN log \/ ~Leaving(log'[j])
      BY <3>1, <1>3
    <3> QED BY <2>5, <3>2 DEF ProcessPacketReturns, Apart, Sending, TypeOK
  <2> QED BY <1>5, <2>1, <2>2, <2>3, <2>4, <2>5 DEF Incoming
<1> QED BY <1>1, <1>2, <1>5

\* What counts the id up for a thread that is sending a packet.
Counts(t) == LoadOut(t) \/ StoreOut(t) \/ StoreBumped(t)

\* A message logged in a call of AddSendPacket is of the packet it sends, and only
\* that packet's object names it.
LEMMA NamedOnce ==
  ASSUME TypeOK, OwnedInv, NEW t \in Threads, Sending(t),
         NEW m, m.call = build[op[t]]
  PROVE  /\ op[t] \in OutPackets /\ owner[op[t]] = t
         /\ build[op[t]] \in 1 .. Built
         /\ \A o \in OutPackets : Names(m, o) => o = op[t]
<1>1. op[t] \in OutPackets /\ owner[op[t]] = t
  BY DEF TypeOK, OwnedInv
<1>2. owner[op[t]] # NULL
  BY <1>1, NullAssumption
<1>3. build[op[t]] \in 1 .. Built
  BY <1>1, <1>2, LenProperties DEF TypeOK, Built
<1> QED BY <1>1, <1>2, <1>3 DEF OwnedInv, Names, Owned

\* No step gives the packet of a message that is logged to an object not being sent.
LEMMA CallsStep == TypeOK /\ TypeOK' /\ OwnedInv /\ CallsInv /\ [Next]_vars => CallsInv'
<1> SUFFICES ASSUME TypeOK, TypeOK', OwnedInv, CallsInv, [Next]_vars
             PROVE  CallsInv'
  OBVIOUS
<1> USE DEF idVars, trackVars, objectVars, sendVars, recvVars
<1>1. CASE Apart
  <2>1. UNCHANGED <<owner, build, op, fields>>
    BY <1>1 DEF Apart
  <2>2. ASSUME NEW j \in DOMAIN log', Leaving(log'[j])
        PROVE  j \in DOMAIN log /\ log'[j] = log[j]
    BY <1>1, <2>2 DEF Apart
  <2>3. ASSUME NEW j \in DOMAIN log', NEW x \in OutPackets, Names(log[j], x)'
        PROVE  j \in DOMAIN log /\ log'[j] = log[j] /\ Names(log[j], x)
    BY <2>1, <2>2, <2>3 DEF Names, Owned, Leaving
  <2>4. \A j \in DOMAIN log' : Leaving(log'[j]) => log'[j].call \in 1 .. Built'
    BY <2>1, <2>2 DEF CallsInv, Built
  <2>5. \A j \in DOMAIN log' : log'[j].kind = "send" => log'[j].of = log'[j].call
    BY <2>2 DEF CallsInv, Leaving
  <2>6. ASSUME NEW j \in DOMAIN log', NEW x \in OutPackets, Names(log[j], x)'
        PROVE  /\ Sending(owner[x])'
               /\ op'[owner'[x]] = x
               /\ log'[j].kind = "send" => pc'[owner'[x]] # "extra"
    <3>1. /\ Sending(owner[x]) /\ op[owner[x]] = x /\ owner[x] \in Threads
          /\ log'[j].kind = "send" => pc[owner[x]] # "extra"
      <4>1. owner[x] \in Threads
        BY <2>3, <2>6 DEF Names, Owned, TypeOK
      <4> QED BY <2>3, <2>6, <4>1 DEF CallsInv
    <3>2. Sending(owner[x])' /\ pc'[owner[x]] = pc[owner[x]]
      BY <1>1, <2>1, <3>1 DEF Apart, Sending
    <3> QED BY <2>1, <3>1, <3>2
  <2> QED BY <2>4, <2>5, <2>6 DEF CallsInv, Leaving, Built
<1>2. Built \in Nat /\ Built' \in Nat /\ \A x \in OutPackets : build[x] \in 0 .. Built
  BY LenProperties DEF TypeOK, Built
<1>3. ASSUME UNCHANGED log, Built' >= Built,
             \A j \in DOMAIN log, o \in OutPackets : Names(log[j], o)' =>
               /\ Sending(owner[o])'
               /\ op'[owner'[o]] = o
               /\ log[j].kind = "send" => pc'[owner'[o]] # "extra"
      PROVE  CallsInv'
  BY <1>2, <1>3 DEF CallsInv, Names, Owned, Leaving, Sending
<1>4. ASSUME NEW t \in Threads, NEW o \in OutPackets, COutPacket(t, o)
      PROVE  CallsInv'
  <2>1. /\ owner' = [owner EXCEPT ![o] = t]
        /\ build' = [build EXCEPT ![o] = Built + 1]
        /\ UNCHANGED <<op, pc, log>>
        /\ fields' = Append(fields, 1)
    BY <1>4 DEF COutPacket
  <2>2. Built' = Built + 1
    BY <2>1, AppendProperties DEF Built, TypeOK
  <2>3. ASSUME NEW j \in DOMAIN log, NEW x \in OutPackets, Names(log[j], x)'
        PROVE  /\ Sending(owner[x])'
               /\ op'[owner'[x]] = x
               /\ log[j].kind = "send" => pc'[owner'[x]] # "extra"
    <3>1. Leaving(log[j]) /\ log[j].call \in 1 .. Built
      BY <2>1, <2>3 DEF Names, Leaving, CallsInv
    <3>2. x # o
      <4>1. build'[o] = Built + 1 /\ build'[x] = log[j].call
        BY <2>1, <2>3 DEF Names, TypeOK
      <4> QED BY <1>2, <3>1, <4>1
    <3>3. Names(log[j], x) /\ owner'[x] = owner[x]
      BY <2>1, <2>3, <3>1, <3>2 DEF Names, Owned, TypeOK
    <3> QED BY <2>1, <3>3 DEF CallsInv, Sending
  <2> QED BY <1>2, <1>3, <2>1, <2>2, <2>3
<1>5. ASSUME NEW t \in Threads, NEW o \in OutPackets, Encode(t, o)
      PROVE  CallsInv'
  <2>1. UNCHANGED <<owner, build, op, pc, log>>
    BY <1>5 DEF Encode
  <2>2. Built' = Built
    <3>1. fields' = [fields EXCEPT ![build[o]] = @ + 1]
      BY <1>5 DEF Encode
    <3> QED BY <3>1, LenProperties DEF Built, TypeOK
  <2> QED BY <1>2, <2>1, <2>2, <1>3 DEF CallsInv, Names, Owned, Leaving, Sending
<1>6. ASSUME NEW t \in Threads, NEW o \in OutPackets, Abandon(t, o)
      PROVE  CallsInv'
  <2>1. /\ owner' = [owner EXCEPT ![o] = NULL]
        /\ UNCHANGED <<op, pc, build, fields, log>>
    BY <1>6 DEF Abandon
  <2>2. ASSUME NEW j \in DOMAIN log, NEW x \in OutPackets, Names(log[j], x)'
        PROVE  Names(log[j], x) /\ owner'[x] = owner[x]
    BY <2>1, <2>2 DEF Names, Owned, Leaving, TypeOK
  <2> QED BY <1>2, <1>3, <2>1, <2>2 DEF CallsInv, Sending, Built
<1>7. ASSUME NEW t \in Threads, NEW o \in OutPackets, NEW r \in Routes, SendPacket(t, o, r)
      PROVE  CallsInv'
  <2>1. /\ op' = [op EXCEPT ![t] = o] /\ pc[t] = "game" /\ pc' = [pc EXCEPT ![t] = "extra"]
        /\ UNCHANGED <<owner, build, fields, log>>
    BY <1>7 DEF SendPacket, Goes
  <2>2. ASSUME NEW j \in DOMAIN log, NEW x \in OutPackets, Names(log[j], x)'
        PROVE  /\ Sending(owner[x])'
               /\ op'[owner'[x]] = x
               /\ log[j].kind = "send" => pc'[owner'[x]] # "extra"
    <3>1. Names(log[j], x)
      BY <2>1, <2>2 DEF Names, Owned, Leaving
    <3>2. owner[x] # t /\ owner[x] \in Threads
      <4>1. Sending(owner[x]) /\ owner[x] \in Threads
        <5>1. owner[x] \in Threads
          BY <3>1 DEF Names, Owned, TypeOK
        <5> QED BY <3>1, <5>1 DEF CallsInv
      <4> QED BY <2>1, <4>1 DEF Sending
    <3>3. /\ Sending(owner[x]) /\ op[owner[x]] = x
          /\ log[j].kind = "send" => pc[owner[x]] # "extra"
      BY <3>1 DEF CallsInv
    <3>4. owner'[x] = owner[x] /\ op'[owner[x]] = op[owner[x]] /\ pc'[owner[x]] = pc[owner[x]]
      BY <2>1, <3>2 DEF TypeOK
    <3> QED BY <3>3, <3>4 DEF Sending
  <2> QED BY <1>2, <1>3, <2>1, <2>2 DEF Built
<1>8. ASSUME NEW t \in Threads, Counts(t)
      PROVE  CallsInv'
  <2>1. /\ UNCHANGED <<owner, build, fields, op, log>>
        /\ \A u \in Threads : Sending(u) => Sending(u)'
        /\ \A u \in Threads : pc'[u] = "extra" => pc[u] = "extra"
    BY <1>8 DEF Counts, LoadOut, StoreOut, StoreBumped, Goes, Sending, TypeOK
  <2>2. ASSUME NEW j \in DOMAIN log, NEW x \in OutPackets, Names(log[j], x)'
        PROVE  Names(log[j], x) /\ owner[x] \in Threads
    BY <2>1, <2>2 DEF Names, Owned, Leaving, TypeOK
  <2> QED BY <1>2, <1>3, <2>1, <2>2 DEF CallsInv, Built, Sending
<1>9. ASSUME NEW t \in Threads, CallOriginal(t)
      PROVE  CallsInv'
  <2>1. /\ owner' = [owner EXCEPT ![op[t]] = NULL] /\ op' = [op EXCEPT ![t] = NULL]
        /\ pc[t] = "call" /\ pc' = [pc EXCEPT ![t] = "game"]
        /\ UNCHANGED <<build, fields, log>>
    BY <1>9 DEF CallOriginal, Goes
  <2>2. ASSUME NEW j \in DOMAIN log, NEW x \in OutPackets, Names(log[j], x)'
        PROVE  /\ Sending(owner[x])'
               /\ op'[owner'[x]] = x
               /\ log[j].kind = "send" => pc'[owner'[x]] # "extra"
    <3>1. /\ Names(log[j], x) /\ owner'[x] = owner[x] /\ x # op[t]
          /\ owner[x] \in Threads
      BY <2>1, <2>2 DEF Names, Owned, Leaving, TypeOK
    <3>2. /\ Sending(owner[x]) /\ op[owner[x]] = x
          /\ log[j].kind = "send" => pc[owner[x]] # "extra"
      BY <3>1 DEF CallsInv
    <3>3. owner[x] # t
      BY <3>1, <3>2
    <3>4. op'[owner[x]] = op[owner[x]] /\ pc'[owner[x]] = pc[owner[x]]
      BY <2>1, <3>1, <3>3 DEF TypeOK
    <3> QED BY <3>1, <3>2, <3>4 DEF Sending
  <2> QED BY <1>2, <1>3, <2>1, <2>2 DEF Built
<1>10. ASSUME NEW t \in Threads, pc[t] = "extra", NEW m, log' = Append(log, m),
              m.call = build[op[t]], m.kind = "encode" \/ (m.kind = "send" /\ m.of = m.call),
              UNCHANGED <<owner, build, fields, op>>,
              \A u \in Threads : Sending(u) => Sending(u)',
              \A u \in Threads : pc'[u] = "extra" => pc[u] = "extra",
              m.kind = "send" => pc'[t] = "count"
       PROVE  CallsInv'
  <2>1. /\ op[t] \in OutPackets /\ owner[op[t]] = t
        /\ build[op[t]] \in 1 .. Built
        /\ \A o \in OutPackets : Names(m, o) => o = op[t]
    BY <1>10, NamedOnce DEF Sending
  <2>2. /\ log'[Len(log) + 1] = m
        /\ \A j \in DOMAIN log : j \in DOMAIN log' /\ log'[j] = log[j]
        /\ \A j \in DOMAIN log' : j = Len(log) + 1 \/ j \in DOMAIN log
    BY <1>10, LogGrows
  <2>3. \A j \in DOMAIN log' : Leaving(log'[j]) => log'[j].call \in 1 .. Built'
    BY <1>10, <2>1, <2>2 DEF CallsInv, Built
  <2>4. \A j \in DOMAIN log' : log'[j].kind = "send" => log'[j].of = log'[j].call
    BY <1>10, <2>2 DEF CallsInv
  <2>5. ASSUME NEW j \in DOMAIN log', NEW x \in OutPackets, Names(log[j], x)'
        PROVE  /\ Sending(owner[x])'
               /\ op'[owner'[x]] = x
               /\ log'[j].kind = "send" => pc'[owner'[x]] # "extra"
    <3>1. CASE j \in DOMAIN log
      <4>1. Names(log[j], x) /\ owner[x] \in Threads /\ log'[j] = log[j]
        BY <1>10, <2>2, <2>5, <3>1 DEF Names, Owned, Leaving, TypeOK
      <4> QED BY <1>10, <3>1, <4>1 DEF CallsInv, Sending
    <3>2. CASE j = Len(log) + 1
      <4>1. x = op[t] /\ log'[j] = m
        BY <1>10, <2>1, <2>2, <2>5, <3>2 DEF Names, Owned, Leaving
      <4>2. Sending(t)'
        BY <1>10 DEF Sending
      <4> QED BY <1>10, <2>1, <4>1, <4>2 DEF Sending
    <3> QED BY <2>2, <2>5, <3>1, <3>2
  <2> QED BY <2>3, <2>4, <2>5 DEF CallsInv, Leaving, Names, Owned, Sending, Built
<1>11. ASSUME NEW t \in Threads, AddExtra(t)
       PROVE  CallsInv'
  <2> DEFINE m == [kind |-> "encode", id |-> packet_id_out, of |-> Head(items[t]).of,
                   pos |-> Head(items[t]).pos, call |-> build[op[t]]]
  <2>1. /\ pc[t] = "extra" /\ log' = Append(log, m) /\ m.kind = "encode" /\ m.call = build[op[t]]
        /\ UNCHANGED <<owner, build, fields, op, pc>>
    BY <1>11 DEF AddExtra
  <2> HIDE DEF m
  <2> QED BY <1>10, <2>1 DEF Sending
<1>12. ASSUME NEW t \in Threads, AddSendPacket(t)
       PROVE  CallsInv'
  <2> DEFINE m == [kind |-> "send", id |-> packet_id_out, of |-> build[op[t]],
                   pos |-> 0, call |-> build[op[t]]]
  <2>1. /\ pc[t] = "extra" /\ log' = Append(log, m) /\ m.kind = "send" /\ m.call = build[op[t]]
        /\ m.of = m.call
        /\ UNCHANGED <<owner, build, fields, op>>
        /\ pc' = [pc EXCEPT ![t] = "count"]
    BY <1>12 DEF AddSendPacket, Goes
  <2> HIDE DEF m
  <2>2. /\ \A u \in Threads : Sending(u) => Sending(u)'
        /\ \A u \in Threads : pc'[u] = "extra" => pc[u] = "extra"
        /\ pc'[t] = "count"
    BY <2>1 DEF Sending, TypeOK
  <2> QED BY <1>10, <2>1, <2>2
<1>13. ASSUME NEW t \in Threads, Outgoing(t)
       PROVE  CallsInv'
  BY <1>4, <1>5, <1>6, <1>7, <1>8, <1>9, <1>11, <1>12, <1>13 DEF Outgoing, Counts
<1> QED BY <1>1, <1>13, IncomingApart DEF Next

\* A packet that is logged was not logged before.
LEMMA OnceStep ==
  ASSUME TypeOK, OwnedInv, CallsInv, LoggedOnce, [Next]_vars
  PROVE  LoggedOnce'
<1> USE DEF idVars, trackVars, objectVars, sendVars, recvVars
<1>1. CASE UNCHANGED log
  BY <1>1 DEF LoggedOnce
<1>2. CASE Apart
  BY <1>2 DEF Apart, LoggedOnce, Leaving
<1>3. ASSUME NEW t \in Threads, AddExtra(t)
      PROVE  LoggedOnce'
  <2> DEFINE m == [kind |-> "encode", id |-> packet_id_out, of |-> Head(items[t]).of,
                   pos |-> Head(items[t]).pos, call |-> build[op[t]]]
  <2>1. log' = Append(log, m) /\ m.kind = "encode"
    BY <1>3 DEF AddExtra
  <2> HIDE DEF m
  <2>2. /\ log'[Len(log) + 1] = m
        /\ \A j \in DOMAIN log' : j = Len(log) + 1 \/ (j \in DOMAIN log /\ log'[j] = log[j])
    <3>1. /\ log'[Len(log) + 1] = m
          /\ \A j \in DOMAIN log : log'[j] = log[j]
          /\ \A j \in DOMAIN log' : j = Len(log) + 1 \/ j \in DOMAIN log
      BY <2>1, LogGrows
    <3> QED BY <3>1
  <2> QED BY <2>1, <2>2 DEF LoggedOnce
<1>4. ASSUME NEW t \in Threads, AddSendPacket(t)
      PROVE  LoggedOnce'
  <2> DEFINE m == [kind |-> "send", id |-> packet_id_out, of |-> build[op[t]],
                   pos |-> 0, call |-> build[op[t]]]
  <2>1. /\ pc[t] = "extra" /\ log' = Append(log, m) /\ m.kind = "send" /\ m.call = build[op[t]]
        /\ m.of = m.call
    BY <1>4 DEF AddSendPacket, Goes
  <2> HIDE DEF m
  <2>2. op[t] \in OutPackets /\ owner[op[t]] = t
    BY <2>1, NamedOnce DEF Sending
  <2>3. \A j \in DOMAIN log : log[j].kind = "send" => log[j].of # m.of
    <3> SUFFICES ASSUME NEW j \in DOMAIN log, log[j].kind = "send", log[j].of = m.of
                 PROVE  FALSE
      OBVIOUS
    <3>1. Names(log[j], op[t])
      BY <2>1, <2>2, NullAssumption DEF Names, Leaving, Owned, CallsInv
    <3> QED BY <2>1, <2>2, <3>1 DEF CallsInv
  <2>4. /\ log'[Len(log) + 1] = m
        /\ \A j \in DOMAIN log' : j = Len(log) + 1 \/ (j \in DOMAIN log /\ log'[j] = log[j])
    <3>1. /\ log'[Len(log) + 1] = m
          /\ \A j \in DOMAIN log : log'[j] = log[j]
          /\ \A j \in DOMAIN log' : j = Len(log) + 1 \/ j \in DOMAIN log
      BY <2>1, LogGrows
    <3> QED BY <3>1
  <2> QED BY <2>1, <2>3, <2>4 DEF LoggedOnce
<1>5. ASSUME NEW t \in Threads, Outgoing(t)
      PROVE  LoggedOnce'
  BY <1>1, <1>3, <1>4, <1>5 DEF Outgoing, COutPacket, Encode, Abandon, SendPacket,
     LoadOut, StoreOut, StoreBumped, CallOriginal
<1> QED BY <1>2, <1>5, IncomingApart DEF Next

\* Who owns and sends what, and which packets are logged, is always in order.
LEMMA CallsHold == Spec => [](TypeOK /\ OwnedInv /\ CallsInv)
<1> DEFINE CInv == TypeOK /\ OwnedInv /\ CallsInv
<1>1. Init => CInv
  <2>1. Init => TypeOK
    BY TypeInit
  <2> QED BY <2>1 DEF Init, OwnedInv, CallsInv, Sending, Owned
<1>2. CInv /\ [Next]_vars => CInv'
  BY TypeStep, OwnedStep, CallsStep
<1> HIDE DEF CInv
<1>3. Init /\ [][Next]_vars => []CInv
  BY <1>1, <1>2, PTL
<1> QED BY <1>3, PTL DEF Spec, CInv

\* Whichever of the nested hooks a packet passes, however objects are given up and
\* used again and whatever the other threads do, it is logged once.
THEOREM PacketsLoggedOnce == Spec => []LoggedOnce
<1> DEFINE CInv == TypeOK /\ OwnedInv /\ CallsInv
<1>1. Init => LoggedOnce
  BY DEF Init, LoggedOnce
<1>2. CInv /\ LoggedOnce /\ [Next]_vars => LoggedOnce'
  BY OnceStep
<1>3. Spec => []CInv
  BY CallsHold
<1> HIDE DEF CInv
<1> QED BY <1>1, <1>2, <1>3, PTL DEF Spec

--------------------------------------------------------------------------------
(***************************************************************************)
(* The ids of what leaves.  A packet that no other was sent beside is, to  *)
(* its last step, the only one that is being sent: until its id is counted *)
(* up the counter has it, and from then on the counter, and whatever a     *)
(* thread loads from it to store it counted up, is past it.                *)
(***************************************************************************)
AloneInv ==
  \A t, u \in Threads :
    Sending(t) /\ Sending(u) /\ build[op[t]] \notin overlapped => u = t

Sends(t, b) == Sending(t) /\ build[op[t]] = b

\* Where the counter and the thread that sends it are with the packet of message m.
Counting(t, m) ==
  /\ pc[t] \in {"extra", "count", "store"} => packet_id_out = m.id
  /\ pc[t] = "store" => loaded[t] = m.id
  /\ pc[t] \in {"bump", "bumped", "call"} => packet_id_out > m.id
  /\ pc[t] = "bumped" => loaded[t] > m.id

Counted(m) ==
  /\ \A t \in Threads : Sends(t, m.call) => Counting(t, m)
  /\ \A t \in Threads : pc[t] \in {"store", "bumped"} /\ ~Sends(t, m.call) => loaded[t] > m.id
  /\ (\A t \in Threads : ~Sends(t, m.call)) => packet_id_out > m.id

CountInv ==
  \A j \in DOMAIN log : Leaving(log[j]) /\ log[j].call \notin overlapped => Counted(log[j])

\* A packet built does not change what is being sent.
LEMMA SendsApart ==
  ASSUME TypeOK, OwnedInv, NEW t \in Threads, NEW o \in OutPackets, COutPacket(t, o)
  PROVE  \A u \in Threads : Sending(u) => op'[u] = op[u] /\ build'[op[u]] = build[op[u]]
<1>1. owner[o] = NULL /\ op' = op /\ build' = [build EXCEPT ![o] = Built + 1]
  BY DEF COutPacket, sendVars
<1>2. \A u \in Threads : Sending(u) => op[u] \in OutPackets /\ op[u] # o
  BY <1>1, NullAssumption DEF OwnedInv, TypeOK
<1> QED BY <1>1, <1>2 DEF TypeOK

\* A thread that begins to send while others do marks all their packets.
LEMMA AloneStep == TypeOK /\ OwnedInv /\ AloneInv /\ [Next]_vars => AloneInv'
<1> SUFFICES ASSUME TypeOK, OwnedInv, AloneInv, [Next]_vars
             PROVE  AloneInv'
  OBVIOUS
<1> USE DEF idVars, trackVars, objectVars, sendVars, recvVars
<1>1. ASSUME overlapped \subseteq overlapped',
             \A u \in Threads : Sending(u)' => /\ Sending(u)
                                               /\ build'[op'[u]] = build[op[u]]
      PROVE  AloneInv'
  BY <1>1 DEF AloneInv
<1>2. CASE Apart
  BY <1>1, <1>2 DEF Apart
<1>3. ASSUME NEW t \in Threads, NEW o \in OutPackets, COutPacket(t, o)
      PROVE  AloneInv'
  <2>1. \A u \in Threads : Sending(u) => op'[u] = op[u] /\ build'[op[u]] = build[op[u]]
    BY <1>3, SendsApart
  <2>2. \A u \in Threads : Sending(u)' <=> Sending(u)
    BY <1>3 DEF COutPacket, Sending
  <2>3. overlapped' = overlapped
    BY <1>3 DEF COutPacket
  <2> QED BY <1>1, <2>1, <2>2, <2>3
<1>4. ASSUME NEW t \in Threads, NEW o \in OutPackets, NEW r \in Routes, SendPacket(t, o, r)
      PROVE  AloneInv'
  <2>1. /\ op' = [op EXCEPT ![t] = o] /\ pc' = [pc EXCEPT ![t] = "extra"]
        /\ pc[t] = "game"
        /\ UNCHANGED build
        /\ overlapped' = IF SendersBut(t) = {} THEN overlapped
                   ELSE overlapped \cup {build[o]} \cup {build[op[u]] : u \in SendersBut(t)}
    BY <1>4 DEF SendPacket, Goes
  <2>2. \A u \in Threads \ {t} : (Sending(u)' <=> Sending(u)) /\ op'[u] = op[u]
    BY <2>1 DEF Sending, TypeOK
  <2>3. CASE SendersBut(t) = {}
    <3>1. \A u \in Threads \ {t} : ~Sending(u)
      BY <2>3 DEF SendersBut
    <3> QED BY <2>2, <3>1 DEF AloneInv
  <2>4. CASE SendersBut(t) # {}
    <3>1. build'[op'[t]] \in overlapped'
      BY <2>1, <2>4 DEF TypeOK
    <3>2. ASSUME NEW u \in Threads, Sending(u)', u # t
          PROVE  build'[op'[u]] \in overlapped'
      <4>1. u \in SendersBut(t) /\ op'[u] = op[u]
        BY <2>2, <3>2 DEF SendersBut
      <4>2. build[op[u]] \in {build[op[v]] : v \in SendersBut(t)}
        BY <4>1
      <4> QED BY <2>1, <2>4, <4>1, <4>2
    <3> QED BY <3>1, <3>2 DEF AloneInv
  <2> QED BY <2>3, <2>4
<1>5. ASSUME NEW t \in Threads, CallOriginal(t)
      PROVE  AloneInv'
  <2>1. /\ op' = [op EXCEPT ![t] = NULL]
        /\ pc' = [pc EXCEPT ![t] = "game"]
        /\ UNCHANGED <<build, overlapped>>
    BY <1>5 DEF CallOriginal, Goes
  <2>2. \A u \in Threads : Sending(u)' => Sending(u) /\ op'[u] = op[u]
    BY <2>1 DEF Sending, TypeOK
  <2> QED BY <1>1, <2>1, <2>2
<1>6. ASSUME NEW t \in Threads, Outgoing(t)
      PROVE  AloneInv'
  <2>1. ASSUME NEW o \in OutPackets, Encode(t, o) \/ Abandon(t, o)
        PROVE  AloneInv'
    BY <1>1, <2>1 DEF Encode, Abandon, Sending
  <2>2. CASE AddExtra(t)
    BY <1>1, <2>2 DEF AddExtra, Sending
  <2>3. CASE AddSendPacket(t)
    BY <1>1, <2>3 DEF AddSendPacket, Sending, Goes, TypeOK
  <2>4. CASE LoadOut(t)
    BY <1>1, <2>4 DEF LoadOut, Sending, Goes, TypeOK
  <2>5. CASE StoreOut(t)
    BY <1>1, <2>5 DEF StoreOut, Sending, Goes, TypeOK
  <2>6. CASE StoreBumped(t)
    BY <1>1, <2>6 DEF StoreBumped, Sending, Goes, TypeOK
  <2> QED BY <1>3, <1>4, <1>5, <1>6, <2>1, <2>2, <2>3, <2>4, <2>5, <2>6 DEF Outgoing
<1> QED BY <1>2, <1>6, IncomingApart DEF Next

\* No step of a sender leaves the counter, or what it is about to store, behind a
\* packet that was sent alone.
LEMMA CountedStep ==
  ASSUME TypeOK, OwnedInv, CallsInv, AloneInv, NEW t \in Threads, Outgoing(t),
         NEW j \in DOMAIN log, NEW m \in Message, m = log[j], Leaving(m),
         m.call \notin overlapped, Counted(m)
  PROVE  Counted(m)'
<1> USE DEF idVars, trackVars, objectVars, sendVars, recvVars
<1>1. m.id \in Nat /\ packet_id_out \in Nat /\ \A u \in Threads : loaded[u] \in Nat
  BY DEF TypeOK, Message
<1>2. \A u \in Threads : Sends(u, m.call) => \A v \in Threads : Sending(v) => v = u
  BY DEF AloneInv, Sends
<1>3. ASSUME UNCHANGED <<packet_id_out, pc, loaded>>,
             \A u \in Threads : Sending(u) => build'[op'[u]] = build[op[u]]
      PROVE  Counted(m)'
  <2>1. \A u \in Threads : Sends(u, m.call)' <=> Sends(u, m.call)
    BY <1>3 DEF Sends, Sending
  <2> QED BY <1>3, <2>1 DEF Counted, Counting
<1>4. ASSUME NEW o \in OutPackets, NEW r \in Routes, SendPacket(t, o, r)
      PROVE  Counted(m)'
  <2>1. /\ op' = [op EXCEPT ![t] = o] /\ pc' = [pc EXCEPT ![t] = "extra"]
        /\ pc[t] = "game" /\ owner[o] = t
        /\ UNCHANGED <<build, packet_id_out, loaded>>
    BY <1>4 DEF SendPacket, Goes
  <2>2. build[o] # m.call
    <3>1. ~Names(m, o)
      BY <2>1 DEF CallsInv, Sending
    <3> QED BY <2>1, <3>1, NullAssumption DEF Names, Owned
  <2>3. ~Sends(t, m.call) /\ ~Sends(t, m.call)'
    BY <2>1, <2>2 DEF Sends, Sending, TypeOK
  <2>4. ASSUME NEW u \in Threads, u # t
        PROVE  pc'[u] = pc[u] /\ (Sends(u, m.call)' <=> Sends(u, m.call))
    BY <2>1, <2>4 DEF Sends, Sending, TypeOK
  <2>5. pc'[t] = "extra"
    BY <2>1 DEF TypeOK
  <2>6. \A u \in Threads : Sends(u, m.call)' => Counting(u, m)'
    BY <2>1, <2>3, <2>4 DEF Counted, Counting
  <2>7. \A u \in Threads : pc'[u] \in {"store", "bumped"} /\ ~Sends(u, m.call)' => loaded'[u] > m.id
    BY <2>1, <2>4, <2>5 DEF Counted
  <2>8. (\A u \in Threads : ~Sends(u, m.call)') => packet_id_out' > m.id
    BY <2>1, <2>3, <2>4 DEF Counted
  <2> QED BY <2>6, <2>7, <2>8 DEF Counted
<1>5. ASSUME UNCHANGED <<build, op>>, Sending(t), Sending(t)',
             \A u \in Threads \ {t} : pc'[u] = pc[u] /\ loaded'[u] = loaded[u],
             Sends(t, m.call) => Counting(t, m)',
             ~Sends(t, m.call) /\ (\A u \in Threads : ~Sends(u, m.call)) =>
               /\ packet_id_out' > m.id
               /\ pc'[t] \in {"store", "bumped"} => loaded'[t] > m.id
      PROVE  Counted(m)'
  <2>1. \A u \in Threads : Sends(u, m.call)' <=> Sends(u, m.call)
    BY <1>5 DEF Sends, Sending
  <2>2. \A u \in Threads : Sends(u, m.call) => u = t
    BY <1>2, <1>5
  <2>3. \A u \in Threads : Sends(u, m.call)' => Counting(u, m)'
    BY <1>5, <2>1, <2>2
  <2>4. \A u \in Threads : pc'[u] \in {"store", "bumped"} /\ ~Sends(u, m.call)' => loaded'[u] > m.id
    <3> SUFFICES ASSUME NEW u \in Threads, pc'[u] \in {"store", "bumped"}, ~Sends(u, m.call)
                 PROVE  loaded'[u] > m.id
      BY <2>1
    <3>1. CASE u = t
      BY <1>5, <2>2, <3>1
    <3>2. CASE u # t
      BY <1>5, <3>2 DEF Counted
    <3> QED BY <3>1, <3>2
  <2>5. (\A u \in Threads : ~Sends(u, m.call)') => packet_id_out' > m.id
    BY <1>5, <2>1
  <2> QED BY <2>3, <2>4, <2>5 DEF Counted
<1>6. CASE AddSendPacket(t)
  <2>1. /\ pc[t] = "extra" /\ pc' = [pc EXCEPT ![t] = "count"]
        /\ UNCHANGED <<build, op, loaded, packet_id_out>>
    BY <1>6 DEF AddSendPacket, Goes
  <2>2. pc'[t] = "count" /\ \A u \in Threads \ {t} : pc'[u] = pc[u]
    BY <2>1 DEF TypeOK
  <2>3. Sends(t, m.call) => Counting(t, m)'
    BY <2>1, <2>2 DEF Counted, Counting
  <2> QED BY <1>5, <2>1, <2>2, <2>3 DEF Counted, Sending
<1>7. CASE LoadOut(t)
  <2>1. /\ UNCHANGED <<build, op, packet_id_out>>
        /\ loaded' = [loaded EXCEPT ![t] = packet_id_out]
        /\ \/ pc[t] = "count" /\ pc' = [pc EXCEPT ![t] = "store"]
           \/ pc[t] = "bump" /\ pc' = [pc EXCEPT ![t] = "bumped"]
    BY <1>7 DEF LoadOut, Goes
  <2>2. /\ \/ pc[t] = "count" /\ pc'[t] = "store"
           \/ pc[t] = "bump" /\ pc'[t] = "bumped"
        /\ loaded'[t] = packet_id_out
        /\ \A u \in Threads \ {t} : pc'[u] = pc[u] /\ loaded'[u] = loaded[u]
    BY <2>1 DEF TypeOK
  <2>3. Sends(t, m.call) => Counting(t, m)'
    BY <2>1, <2>2 DEF Counted, Counting
  <2>4. Sending(t) /\ Sending(t)'
    BY <2>2 DEF Sending
  <2>5. (\A u \in Threads : ~Sends(u, m.call)) => packet_id_out' > m.id /\ loaded'[t] > m.id
    BY <2>1, <2>2 DEF Counted
  <2> QED BY <1>5, <2>1, <2>2, <2>3, <2>4, <2>5
<1>8. ASSUME NEW n \in {1, 2}, packet_id_out' = loaded[t] + n, loaded' = [loaded EXCEPT ![t] = 0],
             UNCHANGED <<build, op>>, pc[t] \in {"store", "bumped"},
             NEW q \in {"bump", "call"}, pc' = [pc EXCEPT ![t] = q]
      PROVE  Counted(m)'
  <2>1. /\ pc'[t] = q
        /\ \A u \in Threads \ {t} : pc'[u] = pc[u] /\ loaded'[u] = loaded[u]
    BY <1>8 DEF TypeOK
  <2>2. Sends(t, m.call) => Counting(t, m)'
    <3> SUFFICES ASSUME Sends(t, m.call) PROVE Counting(t, m)'
      OBVIOUS
    <3>1. loaded[t] >= m.id
      BY <1>1, <1>8 DEF Counted, Counting
    <3>2. packet_id_out' > m.id
      BY <1>1, <1>8, <3>1
    <3> QED BY <2>1, <3>2 DEF Counting
  <2>3. Sending(t) /\ Sending(t)'
    BY <1>8, <2>1 DEF Sending
  <2>4. ~Sends(t, m.call) => packet_id_out' > m.id
    <3>1. ~Sends(t, m.call) => loaded[t] > m.id
      BY <1>8 DEF Counted
    <3> QED BY <1>1, <1>8, <3>1
  <2> QED BY <1>5, <1>8, <2>1, <2>2, <2>3, <2>4
<1>9. CASE StoreOut(t)
  BY <1>8, <1>9 DEF StoreOut, Goes
<1>10. CASE StoreBumped(t)
  BY <1>8, <1>10 DEF StoreBumped, Goes
<1>11. CASE CallOriginal(t)
  <2>1. /\ op' = [op EXCEPT ![t] = NULL]
        /\ pc[t] = "call" /\ pc' = [pc EXCEPT ![t] = "game"]
        /\ UNCHANGED <<build, loaded, packet_id_out>>
    BY <1>11 DEF CallOriginal, Goes
  <2>2. pc'[t] = "game" /\ ~Sends(t, m.call)'
    BY <2>1 DEF Sends, Sending, TypeOK
  <2>3. ASSUME NEW u \in Threads, u # t
        PROVE  pc'[u] = pc[u] /\ (Sends(u, m.call)' <=> Sends(u, m.call))
    BY <2>1, <2>3 DEF Sends, Sending, TypeOK
  <2>4. \A u \in Threads : Sends(u, m.call)' => Counting(u, m)'
    BY <2>1, <2>2, <2>3 DEF Counted, Counting
  <2>5. \A u \in Threads : pc'[u] \in {"store", "bumped"} /\ ~Sends(u, m.call)' => loaded'[u] > m.id
    BY <2>1, <2>2, <2>3 DEF Counted
  <2>6. (\A u \in Threads : ~Sends(u, m.call)') => packet_id_out' > m.id
    <3>1. CASE Sends(t, m.call)
      BY <2>1, <3>1 DEF Counted, Counting
    <3>2. CASE ~Sends(t, m.call)
      BY <2>1, <2>3, <3>2 DEF Counted
    <3> QED BY <3>1, <3>2
  <2> QED BY <2>4, <2>5, <2>6 DEF Counted
<1>12. ASSUME NEW o \in OutPackets, COutPacket(t, o)
       PROVE  Counted(m)'
  <2>1. \A u \in Threads : Sending(u) => build'[op'[u]] = build[op[u]]
    BY <1>12, SendsApart
  <2> QED BY <1>3, <1>12, <2>1 DEF COutPacket
<1>13. ASSUME NEW o \in OutPackets, Encode(t, o) \/ Abandon(t, o)
       PROVE  Counted(m)'
  BY <1>3, <1>13 DEF Encode, Abandon
<1>14. CASE AddExtra(t)
  BY <1>3, <1>14 DEF AddExtra
<1> QED BY <1>4, <1>6, <1>7, <1>9, <1>10, <1>11, <1>12, <1>13, <1>14 DEF Outgoing

\* What a thread in AddSendPacket logs has the counter's id, and its packet, if no
\* other is sent beside it, is the only one that is being sent.
LEMMA CountedNew ==
  ASSUME TypeOK, OwnedInv, AloneInv, NEW t \in Threads, pc[t] = "extra",
         NEW m, m.id = packet_id_out, m.call = build[op[t]], m.call \notin overlapped,
         UNCHANGED <<build, op, packet_id_out>>,
         NEW q \in {"extra", "count"}, pc' = [pc EXCEPT ![t] = q]
  PROVE  Counted(m)'
<1>1. Sending(t) /\ Sends(t, m.call)'
  BY DEF Sends, Sending, TypeOK
<1>2. \A u \in Threads : Sending(u) => u = t
  BY <1>1 DEF AloneInv
<1>3. \A u \in Threads : u # t => ~Sending(u)'
  BY <1>2 DEF Sending, TypeOK
<1>4. pc'[t] = q
  BY DEF TypeOK
<1>5. \A u \in Threads : Sends(u, m.call)' => Counting(u, m)'
  <2>1. Counting(t, m)'
    BY <1>4 DEF Counting
  <2> QED BY <1>3, <2>1 DEF Sends
<1>6. \A u \in Threads : pc'[u] \notin {"store", "bumped"}
  BY <1>3, <1>4 DEF Sending
<1> QED BY <1>1, <1>5, <1>6 DEF Counted

\* The two messages a thread logs in AddSendPacket.
LEMMA SendLogs ==
  ASSUME TypeOK, TypeOK', NEW t \in Threads, AddExtra(t) \/ AddSendPacket(t)
  PROVE  /\ pc[t] = "extra" /\ \E q \in {"extra", "count"} : pc' = [pc EXCEPT ![t] = q]
         /\ UNCHANGED <<build, op, packet_id_out, owner, overlapped>>
         /\ \E m \in Message : /\ log' = Append(log, m)
                               /\ Leaving(m)
                               /\ m.id = packet_id_out
                               /\ m.call = build[op[t]]
                               /\ m.kind = "send" => m.of = m.call
                               /\ AddSendPacket(t) => m.kind = "send"
                               /\ AddExtra(t) => m.kind = "encode"
<1> USE DEF idVars, trackVars, objectVars, sendVars, recvVars
<1>1. build[op[t]] \in Nat
  BY LenProperties DEF AddExtra, AddSendPacket, Goes, TypeOK, Sending, Built
<1>2. CASE AddExtra(t)
  <2> DEFINE m == [kind |-> "encode", id |-> packet_id_out, of |-> Head(items[t]).of,
                   pos |-> Head(items[t]).pos, call |-> build[op[t]]]
  <2>1. Head(items[t]) \in Field
    BY <1>2, HeadTailProperties DEF AddExtra, TypeOK
  <2>2. m \in Message
    BY <1>1, <2>1 DEF TypeOK, Message, Kinds, Field
  <2>3. log' = Append(log, m) /\ Leaving(m) /\ m.kind = "encode"
        /\ m.id = packet_id_out /\ m.call = build[op[t]]
    BY <1>2 DEF AddExtra, Leaving
  <2> HIDE DEF m
  <2>4. pc[t] = "extra" /\ pc' = [pc EXCEPT ![t] = "extra"]
    BY <1>2 DEF AddExtra, TypeOK
  <2>5. UNCHANGED <<build, op, packet_id_out, owner, overlapped>>
    BY <1>2 DEF AddExtra
  <2>6. ~AddSendPacket(t)
    BY <1>2, <2>4 DEF AddExtra, AddSendPacket, Goes
  <2> QED BY <2>2, <2>3, <2>4, <2>5, <2>6
<1>3. CASE AddSendPacket(t)
  <2> DEFINE m == [kind |-> "send", id |-> packet_id_out, of |-> build[op[t]],
                   pos |-> 0, call |-> build[op[t]]]
  <2>2. m \in Message
    BY <1>1 DEF TypeOK, Message, Kinds
  <2>3. log' = Append(log, m) /\ Leaving(m) /\ m.kind = "send" /\ m.of = m.call
        /\ m.id = packet_id_out /\ m.call = build[op[t]]
    BY <1>3 DEF AddSendPacket, Leaving
  <2> HIDE DEF m
  <2>4. pc[t] = "extra" /\ pc' = [pc EXCEPT ![t] = "count"]
    BY <1>3 DEF AddSendPacket, Goes
  <2>5. UNCHANGED <<build, op, packet_id_out, owner, overlapped>>
    BY <1>3 DEF AddSendPacket
  <2>6. ~AddExtra(t)
    BY <1>3 DEF AddExtra, AddSendPacket
  <2> QED BY <2>2, <2>3, <2>4, <2>5, <2>6
<1> QED BY <1>2, <1>3

\* A step apart from the senders leaves the ids where they are.
LEMMA CountedApart ==
  ASSUME TypeOK, Apart, NEW m, Counted(m)
  PROVE  Counted(m)'
<1>1. \A u \in Threads : Sends(u, m.call)' <=> Sends(u, m.call)
  BY DEF Apart, Sends, objectVars
<1>2. \A u \in Threads : Sends(u, m.call)' => Counting(u, m)'
  BY <1>1 DEF Apart, Counted, Counting, Sends
<1>3. ASSUME NEW u \in Threads, pc'[u] \in {"store", "bumped"}, ~Sends(u, m.call)'
      PROVE  loaded'[u] > m.id
  <2>1. Sending(u)
    BY <1>3 DEF Apart, Sending
  <2> QED BY <1>1, <1>3, <2>1 DEF Apart, Counted
<1>4. (\A u \in Threads : ~Sends(u, m.call)') => packet_id_out' > m.id
  BY <1>1 DEF Apart, Counted
<1> QED BY <1>2, <1>3, <1>4 DEF Counted

\* A step does not take back that a packet was sent beside another.
LEMMA OverlappedGrows ==
  ASSUME TypeOK, [Next]_vars
  PROVE  overlapped \subseteq overlapped'
<1> USE DEF sendVars, objectVars
<1>1. CASE Apart
  BY <1>1 DEF Apart
<1>2. ASSUME NEW t \in Threads, Outgoing(t)
      PROVE  overlapped \subseteq overlapped'
  <2>1. ASSUME NEW o \in OutPackets, NEW r \in Routes, SendPacket(t, o, r)
        PROVE  overlapped \subseteq overlapped'
    BY <2>1 DEF SendPacket
  <2>2. CASE overlapped' = overlapped
    BY <2>2
  <2> QED
    BY <1>2, <2>1, <2>2 DEF Outgoing, COutPacket, Encode, Abandon, AddExtra, AddSendPacket,
       LoadOut, StoreOut, StoreBumped, CallOriginal
<1> QED BY <1>1, <1>2, IncomingApart DEF Next

\* What a sender's step leaves in the log: what was there, and at most one message.
LEMMA OutgoingLog ==
  ASSUME NEW t \in Threads, Outgoing(t)
  PROVE  UNCHANGED log \/ AddExtra(t) \/ AddSendPacket(t)
BY DEF Outgoing, COutPacket, Encode, Abandon, SendPacket, LoadOut, StoreOut, StoreBumped,
   CallOriginal

\* So every step keeps the counter past every packet that was sent alone.
LEMMA CountStep ==
  ASSUME TypeOK, TypeOK', OwnedInv, CallsInv, AloneInv, CountInv, [Next]_vars
  PROVE  CountInv'
<1> SUFFICES ASSUME NEW j \in DOMAIN log', Leaving(log'[j]), log'[j].call \notin overlapped'
             PROVE  Counted(log[j])'
  BY DEF CountInv, Leaving
<1>1. PICK m : m = log'[j]
  OBVIOUS
<1> SUFFICES Counted(m)'
  BY <1>1
<1>2. Leaving(m) /\ m.call \notin overlapped
  BY <1>1, OverlappedGrows DEF Leaving
<1>3. j \in DOMAIN log /\ log[j] = m => Counted(m) /\ m \in Message
  <2>1. SUFFICES ASSUME j \in DOMAIN log, log[j] = m
                 PROVE  Counted(m) /\ m \in Message
    OBVIOUS
  <2>2. m \in Message
    BY <2>1, ElementOfSeq, LenProperties DEF TypeOK
  <2> QED BY <1>2, <2>1, <2>2 DEF CountInv
<1>4. CASE Apart
  <2>1. j \in DOMAIN log /\ log[j] = m
    BY <1>1, <1>2, <1>4 DEF Apart, Leaving
  <2> QED BY <1>3, <1>4, <2>1, CountedApart
<1>5. ASSUME NEW t \in Threads, Outgoing(t)
      PROVE  Counted(m)'
  <2>1. CASE j \in DOMAIN log /\ log[j] = m
    BY <1>2, <1>3, <1>5, <2>1, CountedStep
  <2>2. CASE UNCHANGED log
    BY <1>1, <2>1, <2>2
  <2>3. CASE AddExtra(t) \/ AddSendPacket(t)
    <3>1. PICK n \in Message : /\ log' = Append(log, n)
                               /\ n.id = packet_id_out
                               /\ n.call = build[op[t]]
      BY <2>3, SendLogs
    <3>2. (j \in DOMAIN log /\ log[j] = m) \/ m = n
      <4>1. /\ log'[Len(log) + 1] = n
            /\ \A i \in DOMAIN log : log'[i] = log[i]
            /\ \A i \in DOMAIN log' : i = Len(log) + 1 \/ i \in DOMAIN log
        BY <3>1, LogGrows
      <4> QED BY <1>1, <4>1
    <3>3. CASE m = n
      <4>1. /\ pc[t] = "extra" /\ \E q \in {"extra", "count"} : pc' = [pc EXCEPT ![t] = q]
            /\ UNCHANGED <<build, op, packet_id_out, owner, overlapped>>
        BY <2>3, SendLogs
      <4> QED BY <1>2, <3>1, <3>3, <4>1, CountedNew
    <3> QED BY <2>1, <3>2, <3>3
  <2> QED BY <1>5, <2>2, <2>3, OutgoingLog
<1> QED BY <1>4, <1>5, IncomingApart DEF Next

\* A packet is logged with its fields' id, and with no other
\* outgoing packet's.
LEMMA OutgoingStep ==
  ASSUME TypeOK, TypeOK', OwnedInv, CallsInv, AloneInv, CountInv, OutgoingIds, [Next]_vars
  PROVE  OutgoingIds'
<1> SUFFICES ASSUME NEW j \in DOMAIN log', NEW k \in DOMAIN log',
                    log'[k].kind = "send", Leaving(log'[j]), j < k,
                    log'[j].call \notin overlapped', log'[k].of \notin overlapped'
             PROVE  log'[j].id = log'[k].id <=> log'[j].call = log'[k].of
  BY DEF OutgoingIds, Leaving
<1>1. log'[j].call \notin overlapped /\ log'[k].of \notin overlapped
  BY OverlappedGrows
<1>2. CASE j \in DOMAIN log /\ k \in DOMAIN log /\ log'[j] = log[j] /\ log'[k] = log[k]
  BY <1>1, <1>2 DEF OutgoingIds, Leaving
<1>3. CASE Apart
  BY <1>2, <1>3 DEF Apart, Leaving
<1>4. ASSUME NEW t \in Threads, Outgoing(t)
      PROVE  log'[j].id = log'[k].id <=> log'[j].call = log'[k].of
  <2>1. CASE UNCHANGED log
    BY <1>2, <2>1
  <2>2. CASE AddExtra(t) \/ AddSendPacket(t)
    <3>1. PICK m \in Message : /\ log' = Append(log, m)
                               /\ m.id = packet_id_out
                               /\ m.call = build[op[t]]
                               /\ m.kind = "send" => m.of = m.call
      BY <2>2, SendLogs
    <3>2. /\ Len(log) \in Nat /\ DOMAIN log = 1 .. Len(log)
          /\ log'[Len(log) + 1] = m
          /\ \A i \in DOMAIN log : log'[i] = log[i]
          /\ \A i \in DOMAIN log' : i = Len(log) + 1 \/ i \in DOMAIN log
      BY <3>1, LogGrows
    <3>3. j \in DOMAIN log /\ log'[j] = log[j]
      BY <3>2
    <3>4. CASE k \in DOMAIN log
      BY <1>2, <3>2, <3>3, <3>4
    <3>5. CASE k = Len(log) + 1
      <4>1. log'[k] = m /\ m.of = build[op[t]] /\ pc[t] = "extra" /\ Sending(t)
        BY <2>2, <3>1, <3>2, <3>5, SendLogs DEF Sending
      <4>2. PICK n : n = log[j]
        OBVIOUS
      <4>3. n \in Message /\ n.id \in Nat /\ packet_id_out \in Nat
        <5>1. n \in Message
          BY <3>3, <4>2, ElementOfSeq, LenProperties DEF TypeOK
        <5> QED BY <5>1 DEF Message, TypeOK
      <4>4. Counted(n)
        BY <1>1, <3>3, <4>2 DEF CountInv, Leaving
      <4>5. CASE n.call = m.of
        <5>1. Sends(t, n.call)
          BY <4>1, <4>5 DEF Sends
        <5>2. packet_id_out = n.id
          BY <4>1, <4>4, <5>1 DEF Counted, Counting
        <5> QED BY <3>1, <3>3, <4>1, <4>2, <4>5, <5>2
      <4>6. CASE n.call # m.of
        <5>1. \A u \in Threads : ~Sends(u, n.call)
          <6> SUFFICES ASSUME NEW u \in Threads, Sends(u, n.call)
                       PROVE  FALSE
            OBVIOUS
          <6>1. build[op[t]] \notin overlapped
            BY <1>1, <4>1
          <6>2. u = t
            BY <4>1, <6>1 DEF AloneInv, Sends
          <6> QED BY <4>1, <4>6, <6>2 DEF Sends
        <5>2. packet_id_out > n.id
          BY <4>4, <5>1 DEF Counted
        <5> QED BY <3>1, <3>3, <4>1, <4>2, <4>3, <4>6, <5>2
      <4> QED BY <4>5, <4>6
    <3> QED BY <3>2, <3>4, <3>5
  <2> QED BY <1>4, <2>1, <2>2, OutgoingLog
<1> QED BY <1>3, <1>4, IncomingApart DEF Next

\* The messages of a packet that was sent while no other was have one id, and no two
\* such packets have the same: a client that puts them together by the id is right.
THEOREM OutgoingTold == Spec => []OutgoingIds
<1> DEFINE CInv == TypeOK /\ OwnedInv /\ CallsInv
           OInv == AloneInv /\ CountInv /\ OutgoingIds
<1>1. Init => OInv
  BY DEF Init, AloneInv, CountInv, OutgoingIds, Sending
<1>2. CInv /\ CInv' /\ OInv /\ [Next]_vars => OInv'
  BY AloneStep, CountStep, OutgoingStep
<1>3. Spec => []CInv
  BY CallsHold
<1>4. OInv => OutgoingIds
  OBVIOUS
<1> HIDE DEF CInv, OInv
<1> QED BY <1>1, <1>2, <1>3, <1>4, PTL DEF Spec

--------------------------------------------------------------------------------
(***************************************************************************)
(* The ids of what comes in.  A reception nobody overtook is the only such *)
(* one, no other thread is counting the id up beside it, and from its      *)
(* message on the counter has its id; when it is over, every reception     *)
(* that begins, and is not overtaken, counts past that id first.           *)
(***************************************************************************)
In(t, n) == n \in ToSet(receiving[t]) /\ n \notin overtaken

ReceivingInv ==
  /\ \A t \in Threads : \A n \in ToSet(receiving[t]) : n <= received
  /\ \A j \in DOMAIN log : log[j].kind = "recv" => log[j].of <= received
  /\ \A t, u \in Threads : (\E n : In(t, n)) /\ pc[u] = "in_store" => u = t
  /\ \A t, u \in Threads : \A n, o : In(t, n) /\ In(u, o) => n = o

Numbered(m) ==
  /\ packet_id_in >= m.id
  /\ \A t \in Threads : pc[t] = "in_store" => loaded[t] >= m.id
  /\ \A t \in Threads : In(t, m.of) => /\ packet_id_in = m.id
                                       /\ \A u \in Threads : pc[u] # "in_store"
  /\ \A t \in Threads : \A n :
       In(t, n) /\ n # m.of /\ pc[t] # "in_store" => packet_id_in > m.id

NumberedInv ==
  \A j \in DOMAIN log : log[j].kind = "recv" /\ log[j].of \notin overtaken => Numbered(log[j])

\* What is in a stack of receptions after a packet is pushed or the last one popped.
LEMMA StackSets ==
  ASSUME NEW S, NEW s \in Seq(S)
  PROVE  /\ \A e \in S : ToSet(Append(s, e)) = ToSet(s) \cup {e}
         /\ s # <<>> => ToSet(Front(s)) \subseteq ToSet(s) /\ Last(s) \in ToSet(s)
<1>1. Len(s) \in Nat /\ DOMAIN s = 1 .. Len(s)
  BY LenProperties
<1>2. ASSUME NEW e \in S
      PROVE  ToSet(Append(s, e)) = ToSet(s) \cup {e}
  <2>1. /\ DOMAIN Append(s, e) = 1 .. Len(s) + 1
        /\ \A i \in 1 .. Len(s) : Append(s, e)[i] = s[i]
        /\ Append(s, e)[Len(s) + 1] = e
    BY <1>1, <1>2, AppendProperties, LenProperties
  <2>2. ASSUME NEW x \in ToSet(Append(s, e))
        PROVE  x \in ToSet(s) \cup {e}
    <3>1. PICK i \in 1 .. Len(s) + 1 : x = Append(s, e)[i]
      BY <2>1, <2>2 DEF ToSet
    <3>2. CASE i = Len(s) + 1
      BY <2>1, <3>1, <3>2
    <3>3. CASE i \in 1 .. Len(s)
      BY <1>1, <2>1, <3>1, <3>3 DEF ToSet
    <3> QED BY <1>1, <3>1, <3>2, <3>3
  <2>3. ASSUME NEW x \in ToSet(s)
        PROVE  x \in ToSet(Append(s, e))
    <3>1. PICK i \in 1 .. Len(s) : x = s[i]
      BY <1>1, <2>3 DEF ToSet
    <3>2. i \in DOMAIN Append(s, e) /\ Append(s, e)[i] = x
      BY <1>1, <2>1, <3>1
    <3> QED BY <3>2 DEF ToSet
  <2>4. e \in ToSet(Append(s, e))
    <3>1. Len(s) + 1 \in DOMAIN Append(s, e)
      BY <1>1, <2>1
    <3> QED BY <2>1, <3>1 DEF ToSet
  <2> QED BY <2>2, <2>3, <2>4
<1>3. ASSUME s # <<>>
      PROVE  ToSet(Front(s)) \subseteq ToSet(s) /\ Last(s) \in ToSet(s)
  <2>1. Len(s) # 0
    BY <1>3, EmptySeq
  <2>2. Len(s) - 1 \in 1 - 1 .. Len(s)
    BY <1>1, <2>1
  <2>3. \A i \in 1 .. Len(s) - 1 : s[i] \in S
    BY <1>1, ElementOfSeq
  <2>4. /\ DOMAIN Front(s) = 1 .. Len(s) - 1
        /\ \A i \in 1 .. Len(s) - 1 : Front(s)[i] = s[i]
    <3>1. /\ SubSeq(s, 1, Len(s) - 1) \in Seq(S)
          /\ Len(SubSeq(s, 1, Len(s) - 1)) = Len(s) - 1
          /\ \A i \in 1 .. Len(s) - 1 : SubSeq(s, 1, Len(s) - 1)[i] = s[i]
      BY <1>1, <2>1, <2>2, <2>3, SubSeqProperties
    <3> QED BY <3>1, LenProperties DEF Front
  <2>5. Last(s) \in ToSet(s)
    BY <1>1, <2>1 DEF Last, ToSet
  <2> QED BY <1>1, <2>4, <2>5 DEF ToSet
<1> QED BY <1>2, <1>3

\* A step that receives nothing: what is received, by whom and under which id stays,
\* and what is logged goes out.
Aside ==
  /\ UNCHANGED <<packet_id_in, receiving, received, overtaken>>
  /\ \A t \in Threads : pc'[t] = "in_store" <=> pc[t] = "in_store"
  /\ \A t \in Threads : pc[t] = "in_store" => loaded'[t] = loaded[t]
  /\ \A j \in DOMAIN log : j \in DOMAIN log' /\ log'[j] = log[j]
  /\ \A j \in DOMAIN log' : j \in DOMAIN log \/ Leaving(log'[j])

\* The steps of a sender are such steps, and so are InitTracking and stuttering.
LEMMA OutgoingAside ==
  ASSUME TypeOK, TypeOK'
  PROVE  /\ \A t \in Threads : Outgoing(t) => Aside
         /\ InitTracking => Aside
         /\ UNCHANGED vars => Aside
<1> USE DEF idVars, recvVars
<1>1. UNCHANGED vars => Aside
  BY DEF vars, Aside
<1>2. InitTracking => Aside
  BY DEF InitTracking, Aside
<1>3. ASSUME NEW t \in Threads, Outgoing(t)
      PROVE  Aside
  <2>1. ASSUME NEW o \in OutPackets, COutPacket(t, o) \/ Encode(t, o) \/ Abandon(t, o)
        PROVE  Aside
    BY <2>1 DEF COutPacket, Encode, Abandon, Aside
  <2>2. ASSUME NEW o \in OutPackets, NEW r \in Routes, SendPacket(t, o, r)
        PROVE  Aside
    BY <2>2 DEF SendPacket, Goes, Aside, TypeOK
  <2>3. CASE AddExtra(t) \/ AddSendPacket(t)
    <3>1. PICK m \in Message : log' = Append(log, m) /\ Leaving(m)
      BY <2>3, SendLogs
    <3>2. /\ \A j \in DOMAIN log : j \in DOMAIN log' /\ log'[j] = log[j]
          /\ \A j \in DOMAIN log' : j \in DOMAIN log \/ Leaving(log'[j])
      BY <3>1, LogGrows
    <3>3. /\ UNCHANGED <<packet_id_in, receiving, received, overtaken, loaded>>
          /\ \A u \in Threads : pc'[u] = "in_store" <=> pc[u] = "in_store"
      BY <2>3 DEF AddExtra, AddSendPacket, Goes, TypeOK
    <3> QED BY <3>2, <3>3 DEF Aside
  <2>4. CASE LoadOut(t)
    BY <2>4 DEF LoadOut, Goes, Aside, TypeOK
  <2>5. CASE StoreOut(t)
    BY <2>5 DEF StoreOut, Goes, Aside, TypeOK
  <2>6. CASE StoreBumped(t)
    BY <2>6 DEF StoreBumped, Goes, Aside, TypeOK
  <2>7. CASE CallOriginal(t)
    BY <2>7 DEF CallOriginal, Goes, Aside, TypeOK
  <2> QED BY <1>3, <2>1, <2>2, <2>3, <2>4, <2>5, <2>6, <2>7 DEF Outgoing
<1> QED BY <1>1, <1>2, <1>3

\* Of a thread in a reception the innermost packet is one it received.
LEMMA InnermostIn ==
  ASSUME TypeOK, NEW t \in Threads, receiving[t] # <<>>
  PROVE  /\ Innermost(t) \in Nat /\ Innermost(t) \in ToSet(receiving[t])
         /\ ToSet(Front(receiving[t])) \subseteq ToSet(receiving[t])
<1>1. receiving[t] \in Seq(Nat)
  BY DEF TypeOK
<1> QED BY <1>1, StackSets, FrontLastType DEF Innermost

\* A reception that begins overtakes those that go on, and is overtaken itself if
\* another thread has not counted the id up yet.
LEMMA BeginsAlone ==
  ASSUME TypeOK, NEW t \in Threads, ProcessPacket(t)
  PROVE  \A u \in Threads : \A n : In(u, n)' =>
           u = t /\ n = received + 1 /\ \A v \in Threads : pc[v] # "in_store"
<1> SUFFICES ASSUME NEW u \in Threads, NEW n, In(u, n)'
             PROVE  u = t /\ n = received + 1 /\ \A v \in Threads : pc[v] # "in_store"
  OBVIOUS
<1>1. /\ receiving' = [receiving EXCEPT ![t] = Append(@, received + 1)]
      /\ overtaken' = overtaken \cup Ongoing \cup Contended
      /\ receiving[t] \in Seq(Nat) /\ received + 1 \in Nat
  BY DEF ProcessPacket, TypeOK
<1>2. \A v \in Threads : n \notin ToSet(receiving[v])
  BY <1>1 DEF In, Ongoing
<1>3. u = t
  BY <1>1, <1>2 DEF In, TypeOK
<1>4. n = received + 1
  <2>1. n \in ToSet(Append(receiving[t], received + 1))
    BY <1>1, <1>3 DEF In, TypeOK
  <2> QED BY <1>1, <1>2, <2>1, StackSets
<1>5. \A v \in Threads : pc[v] # "in_store"
  BY <1>1, <1>4 DEF In, Contended
<1> QED BY <1>3, <1>4, <1>5

\* What the steps of a reception log.
LEMMA ReceptionLogs ==
  ASSUME TypeOK, NEW t \in Threads,
         AddRecvPacket(t) \/ Decode(t) \/ ProcessPacketReturns(t)
  PROVE  /\ pc[t] # "in_store" /\ receiving[t] # <<>>
         /\ \A u \in Threads : pc'[u] = "in_store" <=> pc[u] = "in_store"
         /\ UNCHANGED <<packet_id_in, received, overtaken, loaded>>
         /\ \A u \in Threads : ToSet(receiving'[u]) \subseteq ToSet(receiving[u])
         /\ \E m \in Message : /\ log' = Append(log, m)
                               /\ ~Leaving(m)
                               /\ m.kind = "recv" => AddRecvPacket(t)
                               /\ m.id = packet_id_in
                               /\ m.of = Innermost(t)
<1> USE DEF idVars, recvVars
<1>1. receiving[t] # <<>>
  BY DEF AddRecvPacket, Goes, Decode, ProcessPacketReturns, InProcess, TypeOK
<1>2. Innermost(t) \in Nat /\ ToSet(Front(receiving[t])) \subseteq ToSet(receiving[t])
  BY <1>1, InnermostIn
<1>3. ASSUME NEW kind \in {"recv", "decode", "decode_end"}, kind = "recv" => AddRecvPacket(t),
             log' = Append(log, Received(kind, packet_id_in, Innermost(t)))
      PROVE  \E m \in Message : /\ log' = Append(log, m)
                                /\ ~Leaving(m)
                                /\ m.kind = "recv" => AddRecvPacket(t)
                                /\ m.id = packet_id_in
                                /\ m.of = Innermost(t)
  <2>1. packet_id_in \in Nat
    BY DEF TypeOK
  <2>2. Received(kind, packet_id_in, Innermost(t)) \in Message
    BY <1>2, <2>1, ReceivedType
  <2>3. PICK m \in Message : m = Received(kind, packet_id_in, Innermost(t))
    BY <2>2
  <2>4. m.kind = kind /\ m.id = packet_id_in /\ m.of = Innermost(t)
    BY <2>3 DEF Received
  <2> QED BY <1>3, <2>3, <2>4 DEF Leaving
<1>4. CASE AddRecvPacket(t)
  <2>1. /\ pc[t] = "in_log" /\ pc' = [pc EXCEPT ![t] = "game"]
        /\ UNCHANGED <<packet_id_in, received, overtaken, loaded, receiving>>
        /\ log' = Append(log, Received("recv", packet_id_in, Innermost(t)))
    BY <1>4 DEF AddRecvPacket, Goes
  <2> QED BY <1>1, <1>3, <1>4, <2>1 DEF TypeOK
<1>5. CASE Decode(t)
  <2>1. /\ pc[t] = "game"
        /\ UNCHANGED <<packet_id_in, received, overtaken, loaded, receiving, pc>>
        /\ log' = Append(log, Received("decode", packet_id_in, Innermost(t)))
    BY <1>5 DEF Decode
  <2> QED BY <1>1, <1>3, <2>1
<1>6. CASE ProcessPacketReturns(t)
  <2>1. /\ pc[t] = "game"
        /\ UNCHANGED <<packet_id_in, received, overtaken, loaded, pc>>
        /\ receiving' = [receiving EXCEPT ![t] = Front(@)]
        /\ log' = Append(log, Received("decode_end", packet_id_in, Innermost(t)))
    BY <1>6 DEF ProcessPacketReturns
  <2>2. \A u \in Threads : ToSet(receiving'[u]) \subseteq ToSet(receiving[u])
    BY <1>2, <2>1 DEF TypeOK
  <2> QED BY <1>1, <1>3, <2>1, <2>2
<1> QED BY <1>4, <1>5, <1>6

\* No step lets a second reception go on that is not overtaken.
LEMMA ReceivingStep ==
  ASSUME TypeOK, TypeOK', ReceivingInv, [Next]_vars
  PROVE  ReceivingInv'
<1> USE DEF idVars, trackVars, objectVars, sendVars, recvVars
<1>1. CASE Aside
  <2>1. \A u \in Threads : \A n : In(u, n)' <=> In(u, n)
    BY <1>1 DEF Aside, In
  <2> QED BY <1>1, <2>1 DEF Aside, ReceivingInv, Leaving
<1>2. received \in Nat
  BY DEF TypeOK
<1>3. ASSUME NEW t \in Threads, ProcessPacket(t)
      PROVE  ReceivingInv'
  <2>1. /\ receiving' = [receiving EXCEPT ![t] = Append(@, received + 1)]
        /\ received' = received + 1
        /\ pc' = [pc EXCEPT ![t] = "in_store"]
        /\ UNCHANGED log
    BY <1>3 DEF ProcessPacket, Goes
  <2>2. ASSUME NEW u \in Threads, NEW n \in ToSet(receiving'[u])
        PROVE  n <= received'
    <3>1. receiving[t] \in Seq(Nat) /\ received + 1 \in Nat
      BY DEF TypeOK
    <3>2. ToSet(Append(receiving[t], received + 1)) = ToSet(receiving[t]) \cup {received + 1}
      BY <3>1, StackSets
    <3>3. n \in ToSet(receiving[u]) \/ n = received + 1
      BY <2>1, <2>2, <3>2 DEF TypeOK
    <3>4. n \in ToSet(receiving[u]) => n <= received /\ n \in Nat
      <4>1. ToSet(receiving[u]) \subseteq Nat
        <5>1. receiving[u] \in Seq(Nat)
          BY DEF TypeOK
        <5> QED BY <5>1, ElementOfSeq, LenProperties DEF ToSet
      <4> QED BY <4>1 DEF ReceivingInv
    <3> QED BY <1>2, <2>1, <3>3, <3>4
  <2>3. \A j \in DOMAIN log' : log'[j].kind = "recv" => log'[j].of <= received'
    <3> SUFFICES ASSUME NEW j \in DOMAIN log, log[j].kind = "recv"
                 PROVE  log[j].of <= received + 1
      BY <2>1
    <3>1. log[j] \in Message
      BY ElementOfSeq, LenProperties DEF TypeOK
    <3>2. log[j].of \in Nat /\ log[j].of <= received
      BY <3>1 DEF Message, ReceivingInv
    <3> QED BY <1>2, <3>2
  <2>4. \A u \in Threads : pc'[u] = "in_store" => u = t \/ pc[u] = "in_store"
    BY <2>1 DEF TypeOK
  <2>5. \A u \in Threads : \A n : In(u, n)' =>
          u = t /\ n = received + 1 /\ \A v \in Threads : pc[v] # "in_store"
    BY <1>3, BeginsAlone
  <2>6. \A v, u \in Threads : (\E n : In(v, n)') /\ pc'[u] = "in_store" => u = v
    BY <2>4, <2>5
  <2>7. \A v, u \in Threads : \A n, o : In(v, n)' /\ In(u, o)' => n = o
    BY <2>5
  <2> QED BY <2>2, <2>3, <2>6, <2>7 DEF ReceivingInv
<1>4. ASSUME NEW t \in Threads, StoreIn(t)
      PROVE  ReceivingInv'
  <2>1. /\ UNCHANGED <<receiving, received, overtaken, log>>
        /\ \A u \in Threads : pc'[u] = "in_store" => pc[u] = "in_store"
    BY <1>4 DEF StoreIn, Goes, TypeOK
  <2>2. \A u \in Threads : \A n : In(u, n)' <=> In(u, n)
    BY <2>1 DEF In
  <2> QED BY <2>1, <2>2 DEF ReceivingInv
<1>5. ASSUME NEW t \in Threads, AddRecvPacket(t) \/ Decode(t) \/ ProcessPacketReturns(t)
      PROVE  ReceivingInv'
  <2>1. /\ receiving[t] # <<>>
        /\ \A u \in Threads : pc'[u] = "in_store" <=> pc[u] = "in_store"
        /\ UNCHANGED <<packet_id_in, received, overtaken, loaded>>
        /\ \A u \in Threads : ToSet(receiving'[u]) \subseteq ToSet(receiving[u])
    BY <1>5, ReceptionLogs
  <2>2. PICK m \in Message : log' = Append(log, m) /\ m.of = Innermost(t)
    BY <1>5, ReceptionLogs
  <2>3. \A u \in Threads : \A n : In(u, n)' => In(u, n)
    BY <2>1 DEF In
  <2>4. m.of <= received
    BY <2>1, <2>2, InnermostIn DEF ReceivingInv
  <2>5. \A j \in DOMAIN log' : log'[j].kind = "recv" => log'[j].of <= received'
    <3>1. /\ log'[Len(log) + 1] = m
          /\ \A j \in DOMAIN log : log'[j] = log[j]
          /\ \A j \in DOMAIN log' : j = Len(log) + 1 \/ j \in DOMAIN log
      BY <2>2, LogGrows
    <3> QED BY <2>1, <2>4, <3>1 DEF ReceivingInv
  <2>6. \A u \in Threads : \A n \in ToSet(receiving'[u]) : n <= received'
    BY <2>1 DEF ReceivingInv
  <2> QED BY <2>1, <2>3, <2>5, <2>6 DEF ReceivingInv
<1>6. ASSUME NEW t \in Threads, Incoming(t)
      PROVE  ReceivingInv'
  BY <1>3, <1>4, <1>5, <1>6 DEF Incoming
<1> QED BY <1>1, <1>6, OutgoingAside DEF Next

\* A step that changes neither the counter nor who counts, and lets nobody begin to
\* receive, keeps the counter past a message.
LEMMA NumberedKept ==
  ASSUME NEW m, Numbered(m), UNCHANGED packet_id_in,
         \A u \in Threads : pc'[u] = "in_store" <=> pc[u] = "in_store",
         \A u \in Threads : pc[u] = "in_store" => loaded'[u] = loaded[u],
         \A u \in Threads : \A n : In(u, n)' => In(u, n)
  PROVE  Numbered(m)'
<1>1. \A u \in Threads : pc'[u] = "in_store" => loaded'[u] >= m.id
  BY DEF Numbered
<1>2. \A u \in Threads : In(u, m.of)' => /\ packet_id_in' = m.id
                                         /\ \A v \in Threads : pc'[v] # "in_store"
  BY DEF Numbered
<1>3. \A u \in Threads : \A n :
        In(u, n)' /\ n # m.of /\ pc'[u] # "in_store" => packet_id_in' > m.id
  BY DEF Numbered
<1> QED BY <1>1, <1>2, <1>3 DEF Numbered

\* No step of a reception takes the counter back behind one that was not overtaken.
LEMMA NumberedStep ==
  ASSUME TypeOK, TypeOK', ReceivingInv, NumberedInv, [Next]_vars
  PROVE  NumberedInv'
<1> USE DEF idVars, trackVars, objectVars, sendVars, recvVars
<1> SUFFICES ASSUME NEW j \in DOMAIN log', log'[j].kind = "recv", log'[j].of \notin overtaken'
             PROVE  Numbered(log[j])'
  BY DEF NumberedInv
<1>1. PICK m : m = log'[j]
  OBVIOUS
<1> SUFFICES Numbered(m)'
  BY <1>1
<1>2. m.kind = "recv" /\ m.of \notin overtaken' /\ ~Leaving(m)
  BY <1>1 DEF Leaving
<1>3. m \in Message
  BY <1>1, ElementOfSeq, LenProperties DEF TypeOK
<1>4. m.id \in Nat /\ m.of \in Nat
  BY <1>3 DEF Message
<1>5. packet_id_in \in Nat /\ \A u \in Threads : loaded[u] \in Nat
  BY DEF TypeOK
<1>6. CASE Aside
  <2>1. j \in DOMAIN log /\ log[j] = m /\ m.of \notin overtaken
    BY <1>1, <1>2, <1>6 DEF Aside
  <2>2. Numbered(m)
    BY <1>2, <2>1 DEF NumberedInv
  <2>3. \A u \in Threads : \A n : In(u, n)' => In(u, n)
    BY <1>6 DEF Aside, In
  <2> QED BY <1>6, <2>2, <2>3, NumberedKept DEF Aside
<1>7. ASSUME NEW t \in Threads, ProcessPacket(t)
      PROVE  Numbered(m)'
  <2>1. /\ UNCHANGED <<packet_id_in, log>>
        /\ overtaken \subseteq overtaken'
        /\ pc' = [pc EXCEPT ![t] = "in_store"]
        /\ loaded' = [loaded EXCEPT ![t] = packet_id_in]
    BY <1>7 DEF ProcessPacket, Goes
  <2>2. Numbered(m) /\ m.of <= received
    BY <1>1, <1>2, <2>1 DEF NumberedInv, ReceivingInv
  <2>3. \A u \in Threads : \A n : In(u, n)' => u = t /\ n = received + 1
    BY <1>7, BeginsAlone
  <2>4. pc'[t] = "in_store" /\ loaded'[t] = packet_id_in
        /\ \A u \in Threads \ {t} : pc'[u] = pc[u] /\ loaded'[u] = loaded[u]
    BY <2>1 DEF TypeOK
  <2>5. \A u \in Threads : pc'[u] = "in_store" => loaded'[u] >= m.id
    BY <2>2, <2>4 DEF Numbered
  <2>6. \A u \in Threads : ~In(u, m.of)'
    <3>1. m.of # received + 1
      <4>1. received \in Nat
        BY DEF TypeOK
      <4> QED BY <1>4, <2>2, <4>1
    <3> QED BY <2>3, <3>1
  <2>7. \A u \in Threads : \A n :
          In(u, n)' /\ n # m.of /\ pc'[u] # "in_store" => packet_id_in' > m.id
    BY <2>3, <2>4
  <2>8. packet_id_in' >= m.id
    BY <2>1, <2>2 DEF Numbered
  <2> QED BY <2>5, <2>6, <2>7, <2>8 DEF Numbered
<1>8. ASSUME NEW t \in Threads, StoreIn(t)
      PROVE  Numbered(m)'
  <2>1. /\ UNCHANGED <<receiving, overtaken, log>>
        /\ pc[t] = "in_store" /\ pc' = [pc EXCEPT ![t] = "in_log"]
        /\ packet_id_in' = loaded[t] + 2
        /\ loaded' = [loaded EXCEPT ![t] = 0]
    BY <1>8 DEF StoreIn, Goes
  <2>2. Numbered(m)
    BY <1>1, <1>2, <2>1 DEF NumberedInv
  <2>3. \A u \in Threads : \A n : In(u, n)' <=> In(u, n)
    BY <2>1 DEF In
  <2>4. packet_id_in' > m.id
    <3>1. loaded[t] >= m.id
      BY <2>1, <2>2 DEF Numbered
    <3> QED BY <1>4, <1>5, <2>1, <3>1
  <2>5. packet_id_in' >= m.id
    <3>1. packet_id_in' \in Nat
      BY <1>5, <2>1
    <3> QED BY <1>4, <2>4, <3>1
  <2>6. \A u \in Threads : ~In(u, m.of)'
    BY <2>1, <2>2, <2>3 DEF Numbered
  <2>7. \A u \in Threads : pc'[u] = "in_store" => loaded'[u] >= m.id
    <3>1. \A u \in Threads : pc'[u] = "in_store" =>
            u # t /\ pc[u] = "in_store" /\ loaded'[u] = loaded[u]
      BY <2>1 DEF TypeOK
    <3> QED BY <2>2, <3>1 DEF Numbered
  <2> QED BY <2>4, <2>5, <2>6, <2>7 DEF Numbered
<1>9. ASSUME NEW t \in Threads, AddRecvPacket(t) \/ Decode(t) \/ ProcessPacketReturns(t)
      PROVE  Numbered(m)'
  <2>1. /\ pc[t] # "in_store" /\ receiving[t] # <<>>
        /\ \A u \in Threads : pc'[u] = "in_store" <=> pc[u] = "in_store"
        /\ UNCHANGED <<packet_id_in, received, overtaken, loaded>>
        /\ \A u \in Threads : ToSet(receiving'[u]) \subseteq ToSet(receiving[u])
    BY <1>9, ReceptionLogs
  <2>2. PICK n \in Message : log' = Append(log, n) /\ n.id = packet_id_in /\ n.of = Innermost(t)
    BY <1>9, ReceptionLogs
  <2>3. \A u \in Threads : \A o : In(u, o)' => In(u, o)
    BY <2>1 DEF In
  <2>4. (j \in DOMAIN log /\ log[j] = m) \/ m = n
    <3>1. /\ log'[Len(log) + 1] = n
          /\ \A i \in DOMAIN log : log'[i] = log[i]
          /\ \A i \in DOMAIN log' : i = Len(log) + 1 \/ i \in DOMAIN log
      BY <2>2, LogGrows
    <3> QED BY <1>1, <3>1
  <2>5. Numbered(m)
    <3>1. CASE j \in DOMAIN log /\ log[j] = m
      BY <1>2, <2>1, <3>1 DEF NumberedInv
    <3>2. CASE m = n
      <4>1. m.id = packet_id_in /\ In(t, m.of)
        BY <1>2, <2>1, <2>2, <3>2, InnermostIn DEF In
      <4>2. \A u \in Threads : pc[u] # "in_store"
        BY <2>1, <4>1 DEF ReceivingInv
      <4>3. \A u \in Threads : \A o : In(u, o) => o = m.of
        BY <4>1 DEF ReceivingInv
      <4> QED BY <1>5, <4>1, <4>2, <4>3 DEF Numbered
    <3> QED BY <2>4, <3>1, <3>2
  <2> QED BY <2>1, <2>3, <2>5, NumberedKept
<1>10. ASSUME NEW t \in Threads, Incoming(t)
       PROVE  Numbered(m)'
  BY <1>7, <1>8, <1>9, <1>10 DEF Incoming
<1> QED BY <1>6, <1>10, OutgoingAside DEF Next

\* What is logged of a reception has the id of its first message, and no other's.
LEMMA IncomingStep ==
  ASSUME TypeOK, TypeOK', ReceivingInv, NumberedInv, IncomingIds, [Next]_vars
  PROVE  IncomingIds'
<1> USE DEF idVars, trackVars, objectVars, sendVars, recvVars
<1> SUFFICES ASSUME NEW j \in DOMAIN log', NEW k \in DOMAIN log',
                    log'[j].kind = "recv", log'[k].kind \in {"recv", "decode", "decode_end"},
                    j < k, log'[j].of \notin overtaken', log'[k].of \notin overtaken'
             PROVE  log'[j].id = log'[k].id <=> log'[j].of = log'[k].of
  BY DEF IncomingIds
<1>1. CASE /\ j \in DOMAIN log /\ k \in DOMAIN log
           /\ log'[j] = log[j] /\ log'[k] = log[k]
           /\ overtaken \subseteq overtaken'
  BY <1>1 DEF IncomingIds
<1>2. CASE Aside
  BY <1>1, <1>2 DEF Aside, Leaving
<1>3. ASSUME NEW t \in Threads, ProcessPacket(t) \/ StoreIn(t)
      PROVE  log'[j].id = log'[k].id <=> log'[j].of = log'[k].of
  <2>1. UNCHANGED log /\ overtaken \subseteq overtaken'
    BY <1>3 DEF ProcessPacket, StoreIn
  <2> QED BY <1>1, <2>1
<1>4. ASSUME NEW t \in Threads, AddRecvPacket(t) \/ Decode(t) \/ ProcessPacketReturns(t)
      PROVE  log'[j].id = log'[k].id <=> log'[j].of = log'[k].of
  <2>1. pc[t] # "in_store" /\ receiving[t] # <<>> /\ overtaken' = overtaken
    BY <1>4, ReceptionLogs
  <2>2. PICK m \in Message : log' = Append(log, m) /\ m.id = packet_id_in /\ m.of = Innermost(t)
    BY <1>4, ReceptionLogs
  <2>3. /\ Len(log) \in Nat /\ DOMAIN log = 1 .. Len(log)
        /\ log'[Len(log) + 1] = m
        /\ \A i \in DOMAIN log : log'[i] = log[i]
        /\ \A i \in DOMAIN log' : i = Len(log) + 1 \/ i \in DOMAIN log
    BY <2>2, LogGrows
  <2>4. j \in DOMAIN log /\ log'[j] = log[j]
    BY <2>3
  <2>5. CASE k \in DOMAIN log
    BY <1>1, <2>1, <2>3, <2>4, <2>5
  <2>6. CASE k = Len(log) + 1
    <3>1. log'[k] = m
      BY <2>3, <2>6
    <3>2. PICK n : n = log[j]
      OBVIOUS
    <3>3. Numbered(n) /\ n.of \notin overtaken
      BY <2>1, <2>4, <3>2 DEF NumberedInv
    <3>4. n.id \in Nat /\ packet_id_in \in Nat
      <4>1. n \in Message
        BY <2>4, <3>2, ElementOfSeq, LenProperties DEF TypeOK
      <4> QED BY <4>1 DEF Message, TypeOK
    <3>5. In(t, m.of)
      BY <2>1, <2>2, <3>1, InnermostIn DEF In
    <3>6. n.of = m.of => n.id = m.id
      BY <2>2, <3>3, <3>5 DEF Numbered
    <3>7. n.of # m.of => n.id # m.id
      <4>1. n.of # m.of => packet_id_in > n.id
        BY <2>1, <3>3, <3>5 DEF Numbered
      <4> QED BY <2>2, <3>4, <4>1
    <3> QED BY <2>4, <3>1, <3>2, <3>6, <3>7
  <2> QED BY <2>3, <2>5, <2>6
<1>5. ASSUME NEW t \in Threads, Incoming(t)
      PROVE  log'[j].id = log'[k].id <=> log'[j].of = log'[k].of
  BY <1>3, <1>4, <1>5 DEF Incoming
<1> QED BY <1>2, <1>5, OutgoingAside DEF Next

\* What is decoded from a packet, and its end, carry the packet's id and no other
\* incoming packet has it, as long as the game does not begin another reception meanwhile.
THEOREM IncomingTold == Spec => []IncomingIds
<1> DEFINE RInv == TypeOK /\ ReceivingInv /\ NumberedInv /\ IncomingIds
<1>1. Init => RInv
  <2> SUFFICES ASSUME Init PROVE RInv
    OBVIOUS
  <2>1. TypeOK
    BY TypeInit
  <2>2. \A t \in Threads : ToSet(receiving[t]) = {}
    BY DEF Init, ToSet
  <2>3. ReceivingInv
    BY <2>2 DEF Init, ReceivingInv, In
  <2>4. NumberedInv /\ IncomingIds
    BY DEF Init, NumberedInv, IncomingIds
  <2> QED BY <2>1, <2>3, <2>4
<1>2. RInv /\ [Next]_vars => RInv'
  BY TypeStep, ReceivingStep, NumberedStep, IncomingStep
<1>3. RInv => IncomingIds
  OBVIOUS
<1> HIDE DEF RInv
<1> QED BY <1>1, <1>2, <1>3, PTL DEF Spec

--------------------------------------------------------------------------------
(***************************************************************************)
(* The fields of what leaves.  While a packet is built its object's entry  *)
(* of the tracking map lists its fields from the first on, once the        *)
(* tracking is on; a thread in AddExtraAll has logged the first of them    *)
(* and lists the others.  An object owned by nobody may have any entry:    *)
(* the packet built there next begins by clearing it.                      *)
(***************************************************************************)
Collects(o) == Owned(o) /\ ~(Sending(owner[o]) /\ op[owner[o]] = o)

\* A list of fields of packet b, and one of the fields from number p on.
FieldsOf(s, b) == \A i \in DOMAIN s : s[i].of = b
RunFrom(s, p) == \A i \in DOMAIN s : s[i].pos = p + i - 1

Tracked(o) ==
  /\ FieldsOf(packet_tracking_map[o], build[o])
  /\ build[o] \notin early /\ Collects(o) =>
       /\ Len(packet_tracking_map[o]) = fields[build[o]]
       /\ RunFrom(packet_tracking_map[o], 0)

TrackInv ==
  /\ ~tracking_cs_initialized => /\ 1 .. Built \subseteq early
                                 /\ \A o \in OutPackets : packet_tracking_map[o] = <<>>
  /\ \A t \in Threads : pc[t] # "extra" => items[t] = <<>>
  /\ \A o \in OutPackets : Owned(o) => Tracked(o)

\* The fields logged of packet b: the first n, in their order.
Extras(b) == {i \in DOMAIN log : log[i].kind = "encode" /\ log[i].call = b}
FirstLogged(b, n) ==
  /\ {log[i].pos : i \in Extras(b)} = 0 .. n - 1
  /\ \A h, i \in Extras(b) : h < i => log[h].pos < log[i].pos

Listing(t, b) ==
  /\ FieldsOf(items[t], b)
  /\ b \notin early =>
       /\ Len(items[t]) <= fields[b]
       /\ RunFrom(items[t], fields[b] - Len(items[t]))
       /\ FirstLogged(b, fields[b] - Len(items[t]))

FieldsInv ==
  /\ \A i \in DOMAIN log : log[i].kind = "encode" => log[i].of = log[i].call
  /\ \A t \in Threads : pc[t] = "extra" => Listing(t, build[op[t]])

\* A field appended to a list of fields of its packet, and to one that runs up to it.
LEMMA ListGrows ==
  ASSUME NEW s \in Seq(Field), NEW f \in Field
  PROVE  /\ Len(Append(s, f)) = Len(s) + 1
         /\ \A b : FieldsOf(s, b) /\ f.of = b => FieldsOf(Append(s, f), b)
         /\ \A p \in Nat : RunFrom(s, p) /\ f.pos = p + Len(s) => RunFrom(Append(s, f), p)
<1>1. Len(s) \in Nat /\ DOMAIN s = 1 .. Len(s)
  BY LenProperties
<1>2. /\ DOMAIN Append(s, f) = 1 .. Len(s) + 1 /\ Len(Append(s, f)) = Len(s) + 1
      /\ \A i \in 1 .. Len(s) : Append(s, f)[i] = s[i]
      /\ Append(s, f)[Len(s) + 1] = f
  BY <1>1, AppendProperties, LenProperties
<1>3. \A i \in DOMAIN Append(s, f) : i \in DOMAIN s \/ i = Len(s) + 1
  BY <1>1, <1>2
<1>4. \A b : FieldsOf(s, b) /\ f.of = b => FieldsOf(Append(s, f), b)
  BY <1>1, <1>2, <1>3 DEF FieldsOf
<1>5. ASSUME NEW p \in Nat, RunFrom(s, p), f.pos = p + Len(s)
      PROVE  RunFrom(Append(s, f), p)
  <2> SUFFICES ASSUME NEW i \in DOMAIN Append(s, f)
               PROVE  Append(s, f)[i].pos = p + i - 1
    BY DEF RunFrom
  <2>1. CASE i \in DOMAIN s
    BY <1>1, <1>2, <1>5, <2>1 DEF RunFrom
  <2>2. CASE i = Len(s) + 1
    BY <1>1, <1>2, <1>5, <2>2
  <2> QED BY <1>3, <2>1, <2>2
<1> QED BY <1>2, <1>4, <1>5

\* The list without its first field.
LEMMA ListShrinks ==
  ASSUME NEW s \in Seq(Field), s # <<>>
  PROVE  /\ Len(s) \in Nat \ {0} /\ Len(Tail(s)) = Len(s) - 1
         /\ \A b : FieldsOf(s, b) => Head(s).of = b /\ FieldsOf(Tail(s), b)
         /\ \A p \in Nat : RunFrom(s, p) => Head(s).pos = p /\ RunFrom(Tail(s), p + 1)
<1>1. Len(s) \in Nat \ {0} /\ DOMAIN s = 1 .. Len(s)
  BY LenProperties, EmptySeq
<1>2. /\ Tail(s) \in Seq(Field) /\ Len(Tail(s)) = Len(s) - 1
      /\ \A i \in 1 .. Len(Tail(s)) : Tail(s)[i] = s[i + 1]
      /\ Head(s) = s[1]
  BY HeadTailProperties
<1>3. DOMAIN Tail(s) = 1 .. Len(s) - 1
  BY <1>2, LenProperties
<1>4. \A i \in DOMAIN Tail(s) : i \in Nat /\ i + 1 \in DOMAIN s /\ Tail(s)[i] = s[i + 1]
  BY <1>1, <1>2, <1>3
<1>5. 1 \in DOMAIN s
  BY <1>1
<1>6. \A b : FieldsOf(s, b) => Head(s).of = b /\ FieldsOf(Tail(s), b)
  BY <1>2, <1>4, <1>5 DEF FieldsOf
<1>7. ASSUME NEW p \in Nat, RunFrom(s, p)
      PROVE  Head(s).pos = p /\ RunFrom(Tail(s), p + 1)
  <2>1. Head(s).pos = p
    BY <1>2, <1>5, <1>7 DEF RunFrom
  <2>2. ASSUME NEW i \in DOMAIN Tail(s)
        PROVE  Tail(s)[i].pos = p + 1 + i - 1
    <3>1. s[i + 1].pos = p + (i + 1) - 1
      BY <1>4, <1>7 DEF RunFrom
    <3> QED BY <1>4, <3>1
  <2> QED BY <2>1, <2>2 DEF RunFrom
<1> QED BY <1>1, <1>2, <1>6, <1>7

\* The owned object holds a packet that has been begun.
LEMMA OwnedBuild ==
  ASSUME TypeOK, NEW o \in OutPackets, Owned(o)
  PROVE  /\ owner[o] \in Threads
         /\ build[o] \in 1 .. Len(fields) /\ Len(fields) \in Nat /\ DOMAIN fields = 1 .. Len(fields)
         /\ fields[build[o]] \in Nat
<1>1. fields \in Seq(Nat)
  BY DEF TypeOK
<1>2. Len(fields) \in Nat /\ DOMAIN fields = 1 .. Len(fields)
  BY <1>1, LenProperties
<1>3. build[o] \in 1 .. Len(fields) /\ owner[o] \in Threads
  BY <1>2 DEF TypeOK, Built, Owned
<1> QED BY <1>1, <1>2, <1>3, ElementOfSeq

\* A packet whose object keeps its entry, and whose fields stay, stays tracked.
LEMMA TrackedKept ==
  ASSUME NEW o, Owned(o) => Tracked(o), Owned(o)' => Owned(o), Collects(o)' => Collects(o),
         packet_tracking_map'[o] = packet_tracking_map[o], build'[o] = build[o],
         fields'[build[o]] = fields[build[o]], early \subseteq early'
  PROVE  Owned(o)' => Tracked(o)'
BY DEF Tracked

\* Every entry of the tracking map lists the fields of the packet in its object.
LEMMA TrackStep ==
  ASSUME TypeOK, TypeOK', OwnedInv, TrackInv, [Next]_vars
  PROVE  TrackInv'
<1> USE DEF idVars, trackVars, objectVars, sendVars, recvVars
<1>1. CASE Apart
  <2>1. UNCHANGED <<packet_tracking_map, owner, build, fields, early, op, items>>
        /\ (tracking_cs_initialized => tracking_cs_initialized')
    BY <1>1 DEF Apart
  <2>2. \A t \in Threads : Sending(t)' <=> Sending(t)
    BY <1>1 DEF Apart
  <2>3. \A t \in Threads : pc'[t] # "extra" => pc[t] # "extra"
    BY <1>1 DEF Apart, Sending
  <2>4. \A o \in OutPackets : Owned(o)' => Owned(o)
    BY <2>1 DEF Owned
  <2>5. \A o \in OutPackets : Collects(o)' => Collects(o)
    BY <2>1, <2>2, OwnedBuild DEF Collects, Owned
  <2>6. \A o \in OutPackets : Owned(o)' => Tracked(o)'
    BY <2>1, <2>4, <2>5, TrackedKept DEF TrackInv
  <2> QED BY <2>1, <2>3, <2>6 DEF TrackInv, Built
<1>2. ASSUME NEW t \in Threads, NEW o \in OutPackets, COutPacket(t, o)
      PROVE  TrackInv'
  <2>1. /\ owner' = [owner EXCEPT ![o] = t]
        /\ build' = [build EXCEPT ![o] = Built + 1]
        /\ fields' = Append(fields, 1)
        /\ early' = IF tracking_cs_initialized THEN early ELSE early \cup {Built + 1}
        /\ AddQueue(o, <<>>, [of |-> Built + 1, pos |-> 0])
        /\ UNCHANGED <<tracking_cs_initialized, pc, op, items>>
    BY <1>2 DEF COutPacket
  <2>2. /\ fields \in Seq(Nat) /\ Len(fields) \in Nat /\ Built = Len(fields)
        /\ Built' = Built + 1 /\ fields'[Built + 1] = 1
        /\ \A i \in 1 .. Built : fields'[i] = fields[i]
    BY <2>1, AppendProperties, LenProperties DEF TypeOK, Built
  <2>3. PICK f \in Field : f = [of |-> Built + 1, pos |-> 0]
    <3>1. Built + 1 \in Nat /\ 0 \in Nat
      BY <2>2
    <3> QED BY <3>1 DEF Field
  <2>4. f.of = Built + 1 /\ f.pos = 0
    BY <2>3
  <2>5. ~tracking_cs_initialized' => /\ 1 .. Built' \subseteq early'
                                     /\ \A x \in OutPackets : packet_tracking_map'[x] = <<>>
    <3> SUFFICES ASSUME ~tracking_cs_initialized
                 PROVE  /\ 1 .. Built' \subseteq early'
                        /\ \A x \in OutPackets : packet_tracking_map'[x] = <<>>
      BY <2>1
    <3>1. early' = early \cup {Built + 1} /\ packet_tracking_map' = packet_tracking_map
      BY <2>1 DEF AddQueue
    <3>2. 1 .. Built + 1 = 1 .. Built \cup {Built + 1}
      BY <2>2
    <3> QED BY <2>2, <3>1, <3>2 DEF TrackInv
  <2>6. ASSUME NEW x \in OutPackets, x # o
        PROVE  Owned(x)' => Tracked(x)'
    <3>1. /\ owner'[x] = owner[x] /\ build'[x] = build[x]
          /\ packet_tracking_map'[x] = packet_tracking_map[x]
      BY <2>1, <2>6 DEF TypeOK, AddQueue
    <3>2. early \subseteq early'
      BY <2>1
    <3>3. Owned(x)' => Owned(x) /\ fields'[build[x]] = fields[build[x]]
      BY <2>2, <3>1, OwnedBuild DEF Owned
    <3>4. Collects(x)' => Collects(x)
      BY <2>1, <3>1 DEF Collects, Owned, Sending
    <3> QED BY <3>1, <3>2, <3>3, <3>4, TrackedKept DEF TrackInv
  <2>7. Tracked(o)'
    <3>1. build'[o] = Built + 1
      BY <2>1 DEF TypeOK
    <3>2. CASE tracking_cs_initialized
      <4>1. packet_tracking_map'[o] = Append(<<>>, f)
        BY <2>1, <2>3, <3>2 DEF AddQueue, TypeOK
      <4>2. <<>> \in Seq(Field) /\ Len(<<>>) = 0 /\ FieldsOf(<<>>, Built + 1) /\ RunFrom(<<>>, 0)
        BY EmptySeq DEF FieldsOf, RunFrom
      <4>3. /\ FieldsOf(Append(<<>>, f), Built + 1)
            /\ RunFrom(Append(<<>>, f), 0)
            /\ Len(Append(<<>>, f)) = 1
        <5>1. PICK e \in Seq(Field) : /\ e = <<>> /\ Len(e) = 0
                                      /\ FieldsOf(e, Built + 1) /\ RunFrom(e, 0)
          BY <4>2
        <5>2. Len(Append(e, f)) = 0 + 1 /\ FieldsOf(Append(e, f), Built + 1)
          BY <2>4, <5>1, ListGrows
        <5>3. RunFrom(Append(e, f), 0)
          <6>1. f.pos = 0 + Len(e)
            BY <2>4, <5>1
          <6> QED BY <5>1, <6>1, ListGrows
        <5> QED BY <5>1, <5>2, <5>3
      <4> QED BY <2>2, <3>1, <4>1, <4>3 DEF Tracked, FieldsOf, RunFrom
    <3>3. CASE ~tracking_cs_initialized
      <4>1. packet_tracking_map'[o] = <<>> /\ Built + 1 \in early'
        BY <2>1, <2>5, <3>3
      <4> QED BY <3>1, <4>1 DEF Tracked, FieldsOf
    <3> QED BY <3>2, <3>3
  <2>8. \A u \in Threads : pc'[u] # "extra" => items'[u] = <<>>
    BY <2>1 DEF TrackInv
  <2> QED BY <2>5, <2>6, <2>7, <2>8 DEF TrackInv
<1>3. ASSUME NEW t \in Threads, NEW o \in OutPackets, Encode(t, o)
      PROVE  TrackInv'
  <2>1. /\ owner[o] = t /\ pc[t] = "game"
        /\ fields' = [fields EXCEPT ![build[o]] = @ + 1]
        /\ AddQueue(o, packet_tracking_map[o], [of |-> build[o], pos |-> fields[build[o]]])
        /\ UNCHANGED <<tracking_cs_initialized, owner, build, early, pc, op, items>>
    BY <1>3 DEF Encode
  <2>2. Owned(o) /\ Collects(o)
    BY <2>1, NullAssumption DEF Owned, Collects, Sending
  <2>3. /\ build[o] \in 1 .. Len(fields) /\ DOMAIN fields = 1 .. Len(fields)
        /\ fields[build[o]] \in Nat
    BY <2>2, OwnedBuild
  <2>4. /\ Built' = Built /\ fields'[build[o]] = fields[build[o]] + 1
        /\ \A i \in 1 .. Len(fields) : i # build[o] => fields'[i] = fields[i]
    <3>1. fields \in Seq(Nat)
      BY DEF TypeOK
    <3>2. Len(fields') = Len(fields)
      BY <2>1, <2>3, <3>1, ExceptSeq
    <3> QED BY <2>1, <2>3, <3>2 DEF Built
  <2>5. ~tracking_cs_initialized' => /\ 1 .. Built' \subseteq early'
                                     /\ \A x \in OutPackets : packet_tracking_map'[x] = <<>>
    BY <2>1, <2>4 DEF TrackInv, AddQueue
  <2>6. ASSUME NEW x \in OutPackets, x # o
        PROVE  Owned(x)' => Tracked(x)'
    <3>1. packet_tracking_map'[x] = packet_tracking_map[x]
      BY <2>1, <2>6 DEF TypeOK, AddQueue
    <3>2. Owned(x)' => Owned(x)
      BY <2>1 DEF Owned
    <3>3. Owned(x) => fields'[build[x]] = fields[build[x]]
      <4>1. Owned(x) => build[x] # build[o]
        BY <2>2, <2>6 DEF OwnedInv
      <4> QED BY <2>4, <4>1, OwnedBuild
    <3>4. Collects(x)' => Collects(x)
      BY <2>1 DEF Collects, Owned, Sending
    <3>5. Owned(x) => Tracked(x)
      BY DEF TrackInv
    <3> QED BY <2>1, <3>1, <3>2, <3>3, <3>4, <3>5 DEF Tracked
  <2>7. Tracked(o)'
    <3>1. PICK s \in Seq(Field) : s = packet_tracking_map[o]
      BY DEF TypeOK
    <3>2. PICK b \in Nat : b = build[o]
      BY <2>3
    <3>3. PICK f \in Field : f = [of |-> b, pos |-> fields[b]]
      BY <2>3, <3>2 DEF Field
    <3>4. /\ FieldsOf(s, b)
          /\ b \notin early => Len(s) = fields[b] /\ RunFrom(s, 0)
      BY <2>2, <3>1, <3>2 DEF TrackInv, Tracked
    <3>5. build'[o] = b /\ early' = early
      BY <2>1, <3>2
    <3>6. CASE tracking_cs_initialized
      <4>1. packet_tracking_map'[o] = Append(s, f)
        BY <2>1, <3>1, <3>2, <3>3, <3>6 DEF AddQueue, TypeOK
      <4>2. FieldsOf(Append(s, f), b) /\ Len(Append(s, f)) = Len(s) + 1
        BY <3>3, <3>4, ListGrows
      <4>3. b \notin early => RunFrom(Append(s, f), 0)
        <5>1. b \notin early => f.pos = 0 + Len(s)
          BY <2>3, <3>2, <3>3, <3>4
        <5> QED BY <3>4, <5>1, ListGrows
      <4>4. b \notin early => Len(Append(s, f)) = fields'[b]
        BY <2>4, <3>2, <3>4, <4>2
      <4> QED BY <3>5, <4>1, <4>2, <4>3, <4>4 DEF Tracked
    <3>7. CASE ~tracking_cs_initialized
      <4>1. packet_tracking_map'[o] = <<>> /\ b \in early
        BY <2>1, <2>3, <2>5, <3>2, <3>7 DEF TrackInv, Built
      <4> QED BY <3>5, <4>1 DEF Tracked, FieldsOf
    <3> QED BY <3>6, <3>7
  <2> QED BY <2>1, <2>5, <2>6, <2>7 DEF TrackInv
<1>4. ASSUME UNCHANGED <<tracking_cs_initialized, build, fields, early, packet_tracking_map>>,
             \A t \in Threads : pc'[t] # "extra" => items'[t] = <<>>,
             \A o \in OutPackets : Owned(o)' => Owned(o),
             \A o \in OutPackets : Collects(o)' => Collects(o)
      PROVE  TrackInv'
  <2>1. \A o \in OutPackets : Owned(o)' => Tracked(o)'
    BY <1>4, TrackedKept DEF TrackInv
  <2> QED BY <1>4, <2>1 DEF TrackInv, Built
<1>5. ASSUME NEW t \in Threads, NEW o \in OutPackets, Abandon(t, o)
      PROVE  TrackInv'
  <2>1. /\ owner' = [owner EXCEPT ![o] = NULL]
        /\ UNCHANGED <<tracking_cs_initialized, build, fields, early, packet_tracking_map,
                       pc, op, items>>
    BY <1>5 DEF Abandon
  <2>2. \A x \in OutPackets : Owned(x)' => Owned(x) /\ owner'[x] = owner[x]
    BY <2>1 DEF Owned, TypeOK
  <2>3. \A x \in OutPackets : Collects(x)' => Collects(x)
    BY <2>1, <2>2 DEF Collects, Sending
  <2>4. \A u \in Threads : pc'[u] # "extra" => items'[u] = <<>>
    BY <2>1 DEF TrackInv
  <2> QED BY <1>4, <2>1, <2>2, <2>3, <2>4
<1>6. ASSUME NEW t \in Threads, NEW o \in OutPackets, NEW r \in Routes, SendPacket(t, o, r)
      PROVE  TrackInv'
  <2>1. /\ pc[t] = "game" /\ pc' = [pc EXCEPT ![t] = "extra"]
        /\ owner[o] = t /\ op' = [op EXCEPT ![t] = o]
        /\ UNCHANGED <<tracking_cs_initialized, build, fields, early, owner>>
        /\ IF tracking_cs_initialized
           THEN /\ items' = [items EXCEPT ![t] = packet_tracking_map[o]]
                /\ packet_tracking_map' = [packet_tracking_map EXCEPT ![o] = <<>>]
           ELSE UNCHANGED <<items, packet_tracking_map>>
    BY <1>6 DEF SendPacket, Goes
  <2>2. ASSUME NEW u \in Threads, pc'[u] # "extra"
        PROVE  items'[u] = <<>>
    <3>1. u # t /\ pc[u] # "extra"
      BY <2>1, <2>2 DEF TypeOK
    <3>2. items'[u] = items[u]
      BY <2>1, <3>1 DEF TypeOK
    <3> QED BY <3>1, <3>2 DEF TrackInv
  <2>3. ASSUME NEW x \in OutPackets, x # o
        PROVE  Owned(x)' => Tracked(x)'
    <3>1. packet_tracking_map'[x] = packet_tracking_map[x]
      BY <2>1, <2>3 DEF TypeOK
    <3>2. Owned(x)' => Owned(x)
      BY <2>1 DEF Owned
    <3>3. Collects(x)' => Collects(x)
      <4> SUFFICES ASSUME Owned(x), ~(Sending(owner[x])' /\ op'[owner[x]] = x)
                   PROVE  ~(Sending(owner[x]) /\ op[owner[x]] = x)
        BY <2>1 DEF Collects, Owned, Sending
      <4>1. owner[x] \in Threads
        BY OwnedBuild
      <4>2. CASE owner[x] = t
        BY <2>1, <4>2 DEF Sending
      <4>3. CASE owner[x] # t
        <5>1. op'[owner[x]] = op[owner[x]] /\ pc'[owner[x]] = pc[owner[x]]
          BY <2>1, <4>1, <4>3 DEF TypeOK
        <5>2. Sending(owner[x]) => Sending(owner[x])'
          BY <2>1, <5>1 DEF Sending
        <5> QED BY <5>1, <5>2
      <4> QED BY <4>2, <4>3
    <3>4. Owned(x) => Tracked(x)
      BY DEF TrackInv
    <3> QED BY <2>1, <3>1, <3>2, <3>3, <3>4 DEF Tracked
  <2>4. Tracked(o)'
    <3>1. ~Collects(o)'
      <4>1. owner'[o] = t /\ op'[t] = o /\ pc'[t] = "extra"
        BY <2>1 DEF TypeOK
      <4> QED BY <4>1 DEF Collects, Sending
    <3>2. packet_tracking_map'[o] = <<>>
      BY <2>1 DEF TypeOK, TrackInv
    <3> QED BY <3>1, <3>2 DEF Tracked, FieldsOf
  <2>5. ~tracking_cs_initialized' => /\ 1 .. Built' \subseteq early'
                                     /\ \A x \in OutPackets : packet_tracking_map'[x] = <<>>
    BY <2>1 DEF TrackInv, Built
  <2> QED BY <2>2, <2>3, <2>4, <2>5 DEF TrackInv
<1>7. ASSUME NEW t \in Threads, Counts(t) \/ AddExtra(t) \/ AddSendPacket(t)
      PROVE  TrackInv'
  <2>1. /\ UNCHANGED <<tracking_cs_initialized, build, fields, early, packet_tracking_map,
                       owner, op>>
        /\ \A u \in Threads : Sending(u)' <=> Sending(u)
    BY <1>7 DEF Counts, LoadOut, StoreOut, StoreBumped, AddExtra, AddSendPacket, Goes,
       Sending, TypeOK
  <2>2. \A u \in Threads : pc'[u] # "extra" => items'[u] = <<>>
    <3>1. CASE AddExtra(t)
      BY <3>1 DEF AddExtra, TrackInv, TypeOK
    <3>2. CASE AddSendPacket(t)
      BY <3>2 DEF AddSendPacket, Goes, TrackInv, TypeOK
    <3>3. CASE Counts(t)
      BY <3>3 DEF Counts, LoadOut, StoreOut, StoreBumped, Goes, TrackInv, TypeOK
    <3> QED BY <1>7, <3>1, <3>2, <3>3
  <2>3. \A o \in OutPackets : Owned(o)' => Owned(o)
    BY <2>1 DEF Owned
  <2>4. \A o \in OutPackets : Collects(o)' => Collects(o)
    BY <2>1, OwnedBuild DEF Collects, Owned
  <2> QED BY <1>4, <2>1, <2>2, <2>3, <2>4
<1>8. ASSUME NEW t \in Threads, CallOriginal(t)
      PROVE  TrackInv'
  <2>1. /\ owner' = [owner EXCEPT ![op[t]] = NULL] /\ op' = [op EXCEPT ![t] = NULL]
        /\ pc[t] = "call" /\ pc' = [pc EXCEPT ![t] = "game"]
        /\ UNCHANGED <<tracking_cs_initialized, build, fields, early, packet_tracking_map, items>>
    BY <1>8 DEF CallOriginal, Goes
  <2>2. \A x \in OutPackets : Owned(x)' => Owned(x) /\ owner'[x] = owner[x] /\ x # op[t]
    BY <2>1 DEF Owned, TypeOK
  <2>3. \A u \in Threads : pc'[u] # "extra" => items'[u] = <<>>
    BY <2>1 DEF TrackInv, TypeOK
  <2>4. ASSUME NEW x \in OutPackets, Collects(x)'
        PROVE  Collects(x)
    <3>1. Owned(x) /\ owner'[x] = owner[x] /\ x # op[t] /\ owner[x] \in Threads
      BY <2>2, <2>4, OwnedBuild DEF Collects
    <3>2. CASE owner[x] = t
      BY <3>1, <3>2 DEF Collects
    <3>3. CASE owner[x] # t
      <4>1. op'[owner[x]] = op[owner[x]] /\ pc'[owner[x]] = pc[owner[x]]
        BY <2>1, <3>1, <3>3 DEF TypeOK
      <4> QED BY <2>4, <3>1, <4>1 DEF Collects, Sending
    <3> QED BY <3>2, <3>3
  <2> QED BY <1>4, <2>1, <2>2, <2>3, <2>4
<1>9. ASSUME NEW t \in Threads, Outgoing(t)
      PROVE  TrackInv'
  BY <1>2, <1>3, <1>5, <1>6, <1>7, <1>8, <1>9 DEF Outgoing, Counts
<1> QED BY <1>1, <1>9, IncomingApart DEF Next

\* Two threads that send send two packets.
LEMMA SendersDiffer ==
  ASSUME TypeOK, OwnedInv, NEW t \in Threads, NEW u \in Threads, t # u, Sending(t), Sending(u)
  PROVE  op[t] # op[u] /\ build[op[t]] # build[op[u]]
<1>1. /\ op[t] \in OutPackets /\ op[u] \in OutPackets
      /\ owner[op[t]] = t /\ owner[op[u]] = u
  BY DEF TypeOK, OwnedInv
<1>2. Owned(op[t]) /\ Owned(op[u])
  BY <1>1, NullAssumption DEF Owned
<1> QED BY <1>1, <1>2 DEF OwnedInv

\* The log has what it had, and no new field of packet b.
SameExtras(b) ==
  /\ \A j \in DOMAIN log : j \in DOMAIN log' /\ log'[j] = log[j]
  /\ \A j \in DOMAIN log' : j \in DOMAIN log \/ log'[j].kind # "encode" \/ log'[j].call # b

\* Then the fields logged of the packet are the ones there were.
LEMMA ExtrasKept ==
  ASSUME NEW b, SameExtras(b)
  PROVE  /\ Extras(b)' = Extras(b)
         /\ \A n : FirstLogged(b, n) => FirstLogged(b, n)'
<1>1. Extras(b)' = Extras(b)
  BY DEF SameExtras, Extras
<1>2. \A i \in Extras(b) : log'[i] = log[i]
  BY DEF SameExtras, Extras
<1>3. {log'[i].pos : i \in Extras(b)} = {log[i].pos : i \in Extras(b)}
  BY <1>2
<1> QED BY <1>1, <1>2, <1>3 DEF FirstLogged

\* A thread whose list and packet stay while no field of the packet is logged.
LEMMA ListingKept ==
  ASSUME FieldsInv, NEW u \in Threads, pc[u] = "extra",
         build'[op'[u]] = build[op[u]], items'[u] = items[u],
         fields'[build[op[u]]] = fields[build[op[u]]], early \subseteq early',
         SameExtras(build[op[u]])
  PROVE  Listing(u, build[op[u]])'
<1>1. PICK b : b = build[op[u]]
  OBVIOUS
<1>2. Listing(u, b) /\ b = build'[op'[u]] /\ fields'[b] = fields[b] /\ SameExtras(b)
  BY <1>1 DEF FieldsInv
<1>3. PICK n : n = fields[b] - Len(items[u])
  OBVIOUS
<1>4. FirstLogged(b, n) => FirstLogged(b, n)'
  BY <1>2, ExtrasKept
<1>5. FieldsOf(items'[u], b)
  BY <1>2 DEF Listing
<1>6. b \notin early' =>
        /\ Len(items'[u]) <= fields'[b]
        /\ RunFrom(items'[u], fields'[b] - Len(items'[u]))
        /\ FirstLogged(b, n)'
  BY <1>2, <1>3, <1>4 DEF Listing
<1> QED BY <1>2, <1>3, <1>5, <1>6 DEF Listing, FirstLogged, FieldsOf, RunFrom, Extras

\* A message logged in a call is of one kind or of another call's packet.
LEMMA SameExtrasAppend ==
  ASSUME TypeOK, NEW m, log' = Append(log, m), NEW b, m.kind # "encode" \/ m.call # b
  PROVE  SameExtras(b)
BY LogGrows DEF SameExtras

\* What a thread takes of a field's list to log it is the packet's next field.
LEMMA ListingLogs ==
  ASSUME TypeOK, TypeOK', OwnedInv, FieldsInv, NEW t \in Threads, AddExtra(t)
  PROVE  /\ Listing(t, build[op[t]])'
         /\ Head(items[t]).of = build[op[t]]
<1>1. PICK b : b = build[op[t]]
  OBVIOUS
<1>2. /\ pc[t] = "extra" /\ items[t] # <<>>
      /\ items' = [items EXCEPT ![t] = Tail(@)]
      /\ log' = Append(log, [kind |-> "encode", id |-> packet_id_out, of |-> Head(items[t]).of,
                             pos |-> Head(items[t]).pos, call |-> b])
      /\ UNCHANGED <<build, op, fields, early>>
  BY <1>1 DEF AddExtra, objectVars
<1>3. PICK s \in Seq(Field) : s = items[t]
  BY DEF TypeOK
<1>4. PICK m : m = [kind |-> "encode", id |-> packet_id_out, of |-> Head(s).of,
                    pos |-> Head(s).pos, call |-> b]
  OBVIOUS
<1>5. log' = Append(log, m) /\ m.kind = "encode" /\ m.call = b /\ m.pos = Head(s).pos
  BY <1>2, <1>3, <1>4
<1>6. items'[t] = Tail(s) /\ s # <<>>
  BY <1>2, <1>3 DEF TypeOK
<1>7. Listing(t, b)
  BY <1>1, <1>2 DEF FieldsInv
<1>8. FieldsOf(s, b) /\ Len(s) \in Nat \ {0} /\ Len(Tail(s)) = Len(s) - 1
  BY <1>3, <1>6, <1>7, ListShrinks DEF Listing
<1>9. Head(s).of = b /\ FieldsOf(Tail(s), b)
  BY <1>6, <1>8, ListShrinks
<1>10. ASSUME b \notin early
       PROVE  /\ Len(Tail(s)) <= fields[b]
              /\ RunFrom(Tail(s), fields[b] - Len(Tail(s)))
              /\ FirstLogged(b, fields[b] - Len(Tail(s)))'
  <2>1. fields[b] \in Nat
    <3>1. b \in 0 .. Len(fields) /\ Len(fields) \in Nat /\ fields \in Seq(Nat)
      BY <1>1, <1>2, LenProperties DEF TypeOK, Sending, Built
    <3>2. op[t] \in OutPackets
      BY <1>2 DEF TypeOK, Sending
    <3>3. b # 0
      <4>1. owner[op[t]] = t
        BY <1>2 DEF OwnedInv, Sending
      <4> QED BY <1>1, <3>2, <4>1, NullAssumption DEF TypeOK
    <3> QED BY <3>1, <3>3, ElementOfSeq
  <2>2. PICK n \in Nat : n = fields[b] - Len(s)
    BY <1>3, <1>7, <1>8, <1>10, <2>1 DEF Listing
  <2>3. RunFrom(s, n) /\ FirstLogged(b, n)
    BY <1>3, <1>7, <1>10, <2>2 DEF Listing
  <2>4. m.pos = n /\ RunFrom(Tail(s), n + 1)
    BY <1>5, <1>6, <2>3, ListShrinks
  <2>5. fields[b] - Len(Tail(s)) = n + 1 /\ Len(Tail(s)) <= fields[b]
    BY <1>8, <2>1, <2>2
  <2>6. /\ Len(log) \in Nat /\ DOMAIN log = 1 .. Len(log)
        /\ DOMAIN log' = 1 .. Len(log) + 1
        /\ log'[Len(log) + 1] = m
        /\ \A j \in DOMAIN log : log'[j] = log[j]
    BY <1>5, LogGrows
  <2>7. Extras(b)' = Extras(b) \cup {Len(log) + 1}
    BY <1>5, <2>6 DEF Extras
  <2>8. Extras(b) \subseteq 1 .. Len(log)
    BY <2>6 DEF Extras
  <2>9. {log'[i].pos : i \in Extras(b)'} = 0 .. n
    <3>1. {log'[i].pos : i \in Extras(b)'} = {log[i].pos : i \in Extras(b)} \cup {m.pos}
      BY <2>6, <2>7, <2>8
    <3>2. {log[i].pos : i \in Extras(b)} = 0 .. n - 1
      BY <2>3 DEF FirstLogged
    <3>3. 0 .. n = (0 .. n - 1) \cup {n}
      OBVIOUS
    <3> QED BY <2>4, <3>1, <3>2, <3>3
  <2>10. ASSUME NEW h \in Extras(b)', NEW i \in Extras(b)', h < i
         PROVE  log'[h].pos < log'[i].pos
    <3>1. h \in Extras(b) /\ log'[h] = log[h]
      BY <2>6, <2>7, <2>8, <2>10
    <3>2. CASE i \in Extras(b)
      BY <2>3, <2>6, <2>8, <2>10, <3>1, <3>2 DEF FirstLogged
    <3>3. CASE i = Len(log) + 1
      <4>1. log[h].pos \in 0 .. n - 1
        BY <2>3, <3>1 DEF FirstLogged
      <4> QED BY <2>4, <2>6, <3>1, <3>3, <4>1
    <3> QED BY <2>7, <2>10, <3>2, <3>3
  <2>11. FirstLogged(b, n + 1)'
    <3>1. 0 .. (n + 1) - 1 = 0 .. n
      OBVIOUS
    <3> QED BY <2>9, <2>10, <3>1 DEF FirstLogged
  <2>12. fields'[b] - Len(Tail(s)) = n + 1
    BY <1>2, <2>5
  <2>13. FirstLogged(b, fields[b] - Len(Tail(s)))'
    BY <2>11, <2>12 DEF FirstLogged
  <2> QED BY <2>4, <2>5, <2>13
<1>11. Listing(t, b)'
  BY <1>2, <1>6, <1>9, <1>10 DEF Listing, FieldsOf, RunFrom, FirstLogged, Extras
<1>12. b = build'[op'[t]]
  BY <1>1, <1>2
<1>13. Listing(t, build[op[t]])'
  BY <1>11, <1>12 DEF Listing
<1> QED BY <1>1, <1>3, <1>9, <1>13

\* The list a thread begins to log is the whole packet's: nothing of it is logged yet.
LEMMA ListingBegins ==
  ASSUME TypeOK, TypeOK', OwnedInv, CallsInv, TrackInv,
         NEW t \in Threads, NEW o \in OutPackets, NEW r \in Routes, SendPacket(t, o, r)
  PROVE  Listing(t, build[op[t]])'
<1>1. PICK b : b = build[o]
  OBVIOUS
<1>2. /\ pc[t] = "game" /\ owner[o] = t /\ op' = [op EXCEPT ![t] = o]
      /\ UNCHANGED <<build, fields, early, log>>
      /\ IF tracking_cs_initialized
         THEN items' = [items EXCEPT ![t] = packet_tracking_map[o]]
         ELSE UNCHANGED <<items, packet_tracking_map>>
  BY DEF SendPacket, Goes, objectVars
<1>3. Owned(o) /\ Collects(o)
  BY <1>2, NullAssumption DEF Owned, Collects, Sending
<1>4. op'[t] = o /\ build'[op'[t]] = b
  BY <1>1, <1>2 DEF TypeOK
<1>5. PICK s \in Seq(Field) : s = items'[t]
  BY DEF TypeOK
<1>6. FieldsOf(s, b)
  <2>1. CASE tracking_cs_initialized
    <3>1. s = packet_tracking_map[o]
      BY <1>2, <1>5, <2>1 DEF TypeOK
    <3> QED BY <1>1, <1>3, <3>1 DEF TrackInv, Tracked
  <2>2. CASE ~tracking_cs_initialized
    <3>1. s = <<>>
      BY <1>2, <1>5, <2>2 DEF TrackInv
    <3> QED BY <3>1 DEF FieldsOf
  <2> QED BY <2>1, <2>2
<1>7. ASSUME b \notin early
      PROVE  Len(s) = fields[b] /\ RunFrom(s, 0) /\ fields[b] \in Nat
  <2>1. b \in 1 .. Built /\ fields[b] \in Nat
    BY <1>1, <1>3, OwnedBuild DEF Built
  <2>2. tracking_cs_initialized
    BY <1>7, <2>1 DEF TrackInv
  <2>3. s = packet_tracking_map[o]
    BY <1>2, <1>5, <2>2 DEF TypeOK
  <2> QED BY <1>1, <1>3, <1>7, <2>1, <2>3 DEF TrackInv, Tracked
<1>8. Extras(b)' = {}
  <2>1. \A j \in DOMAIN log : ~Names(log[j], o)
    BY <1>2 DEF CallsInv, Sending
  <2> QED BY <1>1, <1>2, <1>3, <2>1 DEF Names, Leaving, Extras
<1>9. FirstLogged(b, 0)'
  <2>1. 0 .. 0 - 1 = {}
    OBVIOUS
  <2>2. {log'[i].pos : i \in Extras(b)'} = {}
    BY <1>8
  <2> QED BY <1>8, <2>1, <2>2 DEF FirstLogged
<1>10. b \notin early' => /\ Len(s) <= fields'[b]
                          /\ fields'[b] - Len(s) = 0
                          /\ RunFrom(s, 0)
  BY <1>2, <1>7
<1>11. b \notin early' => /\ RunFrom(s, fields'[b] - Len(s))
                          /\ FirstLogged(b, fields[b] - Len(items[t]))'
  <2> SUFFICES ASSUME b \notin early'
               PROVE  RunFrom(s, fields'[b] - Len(s)) /\ FirstLogged(b, fields[b] - Len(items[t]))'
    OBVIOUS
  <2>1. fields'[b] - Len(s) = 0 /\ fields'[b] - Len(items'[t]) = 0
    BY <1>5, <1>10
  <2> QED BY <1>9, <1>10, <2>1 DEF FirstLogged
<1>12. Listing(t, b)'
  BY <1>5, <1>6, <1>10, <1>11 DEF Listing
<1> QED BY <1>4, <1>12 DEF Listing

\* Every list of fields that is being logged stays the rest of its packet's.
LEMMA FieldsStep ==
  ASSUME TypeOK, TypeOK', OwnedInv, CallsInv, TrackInv, FieldsInv, [Next]_vars
  PROVE  FieldsInv'
<1> USE DEF idVars, trackVars, objectVars, sendVars, recvVars
<1>1. ASSUME \A j \in DOMAIN log' : (j \in DOMAIN log /\ log'[j] = log[j]) \/ ~Leaving(log'[j]),
             \A u \in Threads : pc'[u] = "extra" => Listing(u, build[op[u]])'
      PROVE  FieldsInv'
  <2>1. \A i \in DOMAIN log' : log'[i].kind = "encode" => log'[i].of = log'[i].call
    BY <1>1 DEF Leaving, FieldsInv
  <2> QED BY <1>1, <2>1 DEF FieldsInv
<1>2. UNCHANGED log => \A b : SameExtras(b)
  BY DEF SameExtras
<1>3. CASE Apart
  <2>1. \A b : SameExtras(b)
    BY <1>3 DEF Apart, SameExtras, Leaving
  <2>2. ASSUME NEW u \in Threads, pc'[u] = "extra"
        PROVE  Listing(u, build[op[u]])'
    <3>1. pc[u] = "extra"
      BY <1>3, <2>2 DEF Apart, Sending
    <3>2. UNCHANGED <<build, op, items, fields, early>>
      BY <1>3 DEF Apart
    <3> QED BY <2>1, <3>1, <3>2, ListingKept
  <2>3. \A j \in DOMAIN log' : (j \in DOMAIN log /\ log'[j] = log[j]) \/ ~Leaving(log'[j])
    BY <1>3 DEF Apart, Leaving
  <2> QED BY <1>1, <2>2, <2>3
<1>4. ASSUME NEW t \in Threads, NEW o \in OutPackets, COutPacket(t, o)
      PROVE  FieldsInv'
  <2>1. UNCHANGED <<log, pc, items>> /\ early \subseteq early' /\ fields' = Append(fields, 1)
    BY <1>4 DEF COutPacket
  <2>2. ASSUME NEW u \in Threads, pc'[u] = "extra"
        PROVE  Listing(u, build[op[u]])'
    <3>1. pc[u] = "extra" /\ Sending(u)
      BY <2>1, <2>2 DEF Sending
    <3>2. build'[op'[u]] = build[op[u]]
      BY <1>4, <3>1, SendsApart
    <3>3. fields'[build[op[u]]] = fields[build[op[u]]]
      <4>1. op[u] \in OutPackets /\ Owned(op[u])
        BY <3>1, NullAssumption DEF TypeOK, OwnedInv, Owned
      <4>2. build[op[u]] \in 1 .. Len(fields) /\ fields \in Seq(Nat)
        BY <4>1, OwnedBuild DEF TypeOK
      <4> QED BY <2>1, <4>2, AppendProperties
    <3> QED BY <1>2, <2>1, <3>1, <3>2, <3>3, ListingKept
  <2> QED BY <1>1, <2>1, <2>2
<1>5. ASSUME NEW t \in Threads, NEW o \in OutPackets, Encode(t, o)
      PROVE  FieldsInv'
  <2>1. /\ UNCHANGED <<log, pc, items, op, build, early>>
        /\ owner[o] = t /\ pc[t] = "game"
        /\ fields' = [fields EXCEPT ![build[o]] = @ + 1]
    BY <1>5 DEF Encode
  <2>2. ASSUME NEW u \in Threads, pc'[u] = "extra"
        PROVE  Listing(u, build[op[u]])'
    <3>1. pc[u] = "extra" /\ Sending(u) /\ u # t
      BY <2>1, <2>2 DEF Sending
    <3>2. op[u] \in OutPackets /\ owner[op[u]] = u
      BY <3>1 DEF TypeOK, OwnedInv
    <3>3. Owned(op[u]) /\ Owned(o) /\ op[u] # o
      BY <2>1, <3>1, <3>2, NullAssumption DEF Owned
    <3>4. build[op[u]] # build[o] /\ build[op[u]] \in DOMAIN fields
      BY <3>2, <3>3, OwnedBuild DEF OwnedInv
    <3>5. fields'[build[op[u]]] = fields[build[op[u]]]
      BY <2>1, <3>4
    <3> QED BY <1>2, <2>1, <3>1, <3>5, ListingKept
  <2> QED BY <1>1, <2>1, <2>2
<1>6. ASSUME NEW t \in Threads, UNCHANGED <<fields, early, build, log>>,
             \A u \in Threads : u # t /\ pc'[u] = "extra" =>
               pc[u] = "extra" /\ op'[u] = op[u] /\ items'[u] = items[u],
             pc'[t] = "extra" => Listing(t, build[op[t]])'
      PROVE  FieldsInv'
  <2>1. ASSUME NEW u \in Threads, pc'[u] = "extra", u # t
        PROVE  Listing(u, build[op[u]])'
    BY <1>2, <1>6, <2>1, ListingKept
  <2> QED BY <1>1, <1>6, <2>1
<1>7. ASSUME NEW t \in Threads, NEW o \in OutPackets, Abandon(t, o)
      PROVE  FieldsInv'
  <2>1. UNCHANGED <<fields, early, build, log, pc, op, items>> /\ pc[t] = "game"
    BY <1>7 DEF Abandon
  <2> QED BY <1>6, <2>1
<1>8. ASSUME NEW t \in Threads, NEW o \in OutPackets, NEW r \in Routes, SendPacket(t, o, r)
      PROVE  FieldsInv'
  <2>1. Listing(t, build[op[t]])'
    BY <1>8, ListingBegins
  <2>2. /\ UNCHANGED <<fields, early, build, log>>
        /\ \A u \in Threads : u # t => pc'[u] = pc[u] /\ op'[u] = op[u] /\ items'[u] = items[u]
    BY <1>8 DEF SendPacket, Goes, TypeOK
  <2> QED BY <1>6, <2>1, <2>2
<1>9. ASSUME NEW t \in Threads, Counts(t) \/ CallOriginal(t)
      PROVE  FieldsInv'
  <2>1. /\ UNCHANGED <<fields, early, build, log>>
        /\ \A u \in Threads : u # t => pc'[u] = pc[u] /\ op'[u] = op[u] /\ items'[u] = items[u]
        /\ pc'[t] # "extra"
    BY <1>9 DEF Counts, LoadOut, StoreOut, StoreBumped, CallOriginal, Goes, TypeOK
  <2> QED BY <1>6, <2>1
<1>10. ASSUME NEW t \in Threads, AddExtra(t) \/ AddSendPacket(t)
       PROVE  FieldsInv'
  <2>1. PICK m \in Message : /\ log' = Append(log, m) /\ m.call = build[op[t]]
                             /\ AddSendPacket(t) => m.kind = "send"
    BY <1>10, SendLogs
  <2>2. pc[t] = "extra" /\ Sending(t)
    BY <1>10, SendLogs DEF Sending
  <2>3. /\ UNCHANGED <<build, op, fields, early>>
        /\ \A u \in Threads : u # t => pc'[u] = pc[u] /\ items'[u] = items[u]
        /\ AddSendPacket(t) => pc'[t] # "extra"
    BY <1>10 DEF AddExtra, AddSendPacket, Goes, TypeOK
  <2>4. ASSUME NEW u \in Threads, pc'[u] = "extra"
        PROVE  Listing(u, build[op[u]])'
    <3>1. CASE u = t
      BY <1>10, <2>3, <2>4, <3>1, ListingLogs
    <3>2. CASE u # t
      <4>1. pc[u] = "extra" /\ Sending(u) /\ items'[u] = items[u]
        BY <2>3, <2>4, <3>2 DEF Sending
      <4>2. m.call # build[op[u]]
        BY <2>1, <2>2, <3>2, <4>1, SendersDiffer
      <4>3. SameExtras(build[op[u]])
        BY <2>1, <4>2, SameExtrasAppend
      <4> QED BY <2>3, <4>1, <4>3, ListingKept
    <3> QED BY <3>1, <3>2
  <2>5. \A i \in DOMAIN log' : log'[i].kind = "encode" => log'[i].of = log'[i].call
    <3>1. /\ log'[Len(log) + 1] = m
          /\ \A j \in DOMAIN log : log'[j] = log[j]
          /\ \A j \in DOMAIN log' : j = Len(log) + 1 \/ j \in DOMAIN log
      BY <2>1, LogGrows
    <3>2. m.kind = "encode" => m.of = m.call
      <4>1. CASE AddExtra(t)
        <5>1. /\ log' = Append(log, [kind |-> "encode", id |-> packet_id_out,
                                     of |-> Head(items[t]).of,
                                     pos |-> Head(items[t]).pos, call |-> build[op[t]]])
              /\ Head(items[t]).of = build[op[t]]
          BY <4>1, ListingLogs DEF AddExtra
        <5>2. PICK n : n = [kind |-> "encode", id |-> packet_id_out, of |-> Head(items[t]).of,
                            pos |-> Head(items[t]).pos, call |-> build[op[t]]]
          OBVIOUS
        <5>3. log'[Len(log) + 1] = n
          BY <5>1, <5>2, LogGrows
        <5>4. m = n
          BY <3>1, <5>3
        <5> QED BY <2>1, <5>1, <5>2, <5>4
      <4>2. CASE AddSendPacket(t)
        BY <2>1, <4>2
      <4> QED BY <1>10, <4>1, <4>2
    <3> QED BY <3>1, <3>2 DEF FieldsInv
  <2> QED BY <2>4, <2>5 DEF FieldsInv
<1>11. ASSUME NEW t \in Threads, Outgoing(t)
       PROVE  FieldsInv'
  BY <1>4, <1>5, <1>7, <1>8, <1>9, <1>10, <1>11 DEF Outgoing, Counts
<1> QED BY <1>3, <1>11, IncomingApart DEF Next

\* What is in the log before a place is still there, and the packet logged at the
\* place has the fields it had: nothing is encoded into a packet that is being sent.
LEMMA SentStays ==
  ASSUME TypeOK, TypeOK', OwnedInv, CallsInv, [Next]_vars,
         NEW k \in DOMAIN log, log[k].kind = "send"
  PROVE  /\ \A j \in DOMAIN log : j \in DOMAIN log' /\ log'[j] = log[j]
         /\ fields'[log[k].of] = fields[log[k].of]
         /\ early \subseteq early'
<1> USE DEF idVars, trackVars, objectVars, sendVars, recvVars
<1>1. CASE Apart
  BY <1>1 DEF Apart
<1>2. PICK b : b = log[k].of
  OBVIOUS
<1>3. b \in 1 .. Built /\ b = log[k].call /\ Leaving(log[k])
  BY <1>2 DEF CallsInv, Leaving
<1>4. ASSUME NEW t \in Threads, NEW o \in OutPackets, COutPacket(t, o)
      PROVE  UNCHANGED log /\ fields'[b] = fields[b] /\ early \subseteq early'
  <2>1. UNCHANGED log /\ early \subseteq early' /\ fields' = Append(fields, 1)
    BY <1>4 DEF COutPacket
  <2>2. fields \in Seq(Nat)
    BY DEF TypeOK
  <2> QED BY <1>3, <2>1, <2>2, AppendProperties DEF Built
<1>5. ASSUME NEW t \in Threads, NEW o \in OutPackets, Encode(t, o)
      PROVE  UNCHANGED log /\ fields'[b] = fields[b] /\ early \subseteq early'
  <2>1. /\ UNCHANGED <<log, early>> /\ owner[o] = t /\ pc[t] = "game"
        /\ fields' = [fields EXCEPT ![build[o]] = @ + 1]
    BY <1>5 DEF Encode
  <2>2. build[o] # b
    <3>1. ~Names(log[k], o)
      BY <2>1 DEF CallsInv, Sending
    <3> QED BY <1>3, <2>1, <3>1, NullAssumption DEF Names, Owned
  <2>3. b \in DOMAIN fields
    BY <1>3, LenProperties DEF Built, TypeOK
  <2> QED BY <2>1, <2>2, <2>3
<1>6. ASSUME NEW t \in Threads, AddExtra(t) \/ AddSendPacket(t)
      PROVE  /\ \A j \in DOMAIN log : j \in DOMAIN log' /\ log'[j] = log[j]
             /\ UNCHANGED <<fields, early>>
  <2>1. PICK m \in Message : log' = Append(log, m)
    BY <1>6, SendLogs
  <2>2. \A j \in DOMAIN log : j \in DOMAIN log' /\ log'[j] = log[j]
    BY <2>1, LogGrows
  <2> QED BY <1>6, <2>2 DEF AddExtra, AddSendPacket
<1>7. ASSUME NEW t \in Threads, Outgoing(t)
      PROVE  /\ \A j \in DOMAIN log : j \in DOMAIN log' /\ log'[j] = log[j]
             /\ fields'[b] = fields[b] /\ early \subseteq early'
  <2>1. CASE UNCHANGED <<log, fields, early>>
    BY <2>1
  <2> QED
    BY <1>4, <1>5, <1>6, <1>7, <2>1 DEF Outgoing, Abandon, SendPacket, LoadOut, StoreOut,
       StoreBumped, CallOriginal
<1> QED BY <1>1, <1>2, <1>7, IncomingApart DEF Next

\* Before place k of the log are all the fields of packet b, and they are its own.
FieldsBefore(k, b) ==
  LET logged == {i \in 1 .. k - 1 : log[i].kind = "encode" /\ log[i].call = b}
  IN  /\ \A i \in logged : log[i].of = b
      /\ b \notin early =>
           /\ {log[i].pos : i \in logged} = 0 .. fields[b] - 1
           /\ \A h, i \in logged : h < i => log[h].pos < log[i].pos

\* When a packet is logged, all its fields have been.
LEMMA FormatsStep ==
  ASSUME TypeOK, TypeOK', OwnedInv, CallsInv, TrackInv, FieldsInv, FormatsComplete, [Next]_vars
  PROVE  FormatsComplete'
<1> USE DEF idVars, trackVars, objectVars, sendVars, recvVars
<1> SUFFICES ASSUME NEW k \in DOMAIN log', log'[k].kind = "send"
             PROVE  FieldsBefore(k, log[k].of)'
  BY DEF FormatsComplete, FieldsBefore
<1>1. CASE k \in DOMAIN log /\ log'[k] = log[k]
  <2>1. PICK b : b = log[k].of
    OBVIOUS
  <2>2. FieldsBefore(k, b)
    BY <1>1, <2>1 DEF FormatsComplete, FieldsBefore
  <2>3. /\ \A j \in DOMAIN log : j \in DOMAIN log' /\ log'[j] = log[j]
        /\ fields'[b] = fields[b]
        /\ early \subseteq early'
    BY <1>1, <2>1, SentStays
  <2>4. \A i \in 1 .. k - 1 : log'[i] = log[i]
    <3>1. DOMAIN log = 1 .. Len(log) /\ Len(log) \in Nat
      BY LenProperties DEF TypeOK
    <3>2. 1 .. k - 1 \subseteq DOMAIN log
      BY <1>1, <3>1
    <3> QED BY <2>3, <3>2
  <2> DEFINE logged == {i \in 1 .. k - 1 : log[i].kind = "encode" /\ log[i].call = b}
             loggedAfter == {i \in 1 .. k - 1 : log'[i].kind = "encode" /\ log'[i].call = b}
  <2>5. loggedAfter = logged /\ \A i \in logged : log'[i] = log[i]
    BY <2>4
  <2>6. {log'[i].pos : i \in logged} = {log[i].pos : i \in logged}
    BY <2>5
  <2>7. /\ \A i \in logged : log[i].of = b
        /\ b \notin early =>
             /\ {log[i].pos : i \in logged} = 0 .. fields[b] - 1
             /\ \A h, i \in logged : h < i => log[h].pos < log[i].pos
    BY <2>2 DEF FieldsBefore
  <2>8. /\ \A i \in loggedAfter : log'[i].of = b
        /\ b \notin early' =>
             /\ {log'[i].pos : i \in loggedAfter} = 0 .. fields'[b] - 1
             /\ \A h, i \in loggedAfter : h < i => log'[h].pos < log'[i].pos
    <3> HIDE DEF logged, loggedAfter
    <3> QED BY <2>3, <2>5, <2>6, <2>7
  <2>9. log'[k].of = b
    BY <1>1, <2>1
  <2> QED BY <2>8, <2>9 DEF FieldsBefore
<1>2. CASE Apart
  BY <1>1, <1>2 DEF Apart, Leaving
<1>3. ASSUME NEW t \in Threads, AddSendPacket(t)
      PROVE  FieldsBefore(k, log[k].of)'
  <2>1. PICK m \in Message : /\ log' = Append(log, m) /\ m.call = build[op[t]]
                             /\ m.of = m.call
    BY <1>3, SendLogs
  <2>2. /\ Len(log) \in Nat /\ DOMAIN log = 1 .. Len(log)
        /\ log'[Len(log) + 1] = m
        /\ \A j \in DOMAIN log : log'[j] = log[j]
        /\ \A j \in DOMAIN log' : j = Len(log) + 1 \/ j \in DOMAIN log
    BY <2>1, LogGrows
  <2>3. CASE k \in DOMAIN log
    BY <1>1, <2>2, <2>3
  <2>4. CASE k = Len(log) + 1
    <3>1. PICK b : b = build[op[t]]
      OBVIOUS
    <3>2. log'[k].of = b
      BY <2>1, <2>2, <2>4, <3>1
    <3>3. items[t] = <<>> /\ pc[t] = "extra" /\ UNCHANGED <<fields, early>>
      BY <1>3 DEF AddSendPacket, Goes
    <3>4. Listing(t, b) /\ Len(items[t]) = 0
      BY <3>1, <3>3, EmptySeq DEF FieldsInv
    <3>5. {i \in 1 .. k - 1 : log'[i].kind = "encode" /\ log'[i].call = b} = Extras(b)
      <4>1. 1 .. k - 1 = DOMAIN log
        BY <2>2, <2>4
      <4> QED BY <2>2, <4>1 DEF Extras
    <3>6. \A i \in Extras(b) : log'[i] = log[i] /\ log[i].of = b
      BY <2>2 DEF Extras, FieldsInv
    <3>7. {log'[i].pos : i \in Extras(b)} = {log[i].pos : i \in Extras(b)}
      BY <3>6
    <3>8. b \notin early => FirstLogged(b, fields[b])
      <4> SUFFICES ASSUME b \notin early
                   PROVE  FirstLogged(b, fields[b])
        OBVIOUS
      <4>1. fields[b] - Len(items[t]) = fields[b]
        <5>1. op[t] \in OutPackets /\ owner[op[t]] = t
          BY <3>3 DEF TypeOK, OwnedInv, Sending
        <5>2. fields[b] \in Nat
          BY <3>1, <5>1, NullAssumption, OwnedBuild DEF Owned
        <5> QED BY <3>4, <5>2
      <4> QED BY <3>4, <4>1 DEF Listing
    <3>9. /\ \A i \in Extras(b) : log'[i].of = b
          /\ b \notin early' =>
               /\ {log'[i].pos : i \in Extras(b)} = 0 .. fields'[b] - 1
               /\ \A h, i \in Extras(b) : h < i => log'[h].pos < log'[i].pos
      BY <3>3, <3>6, <3>7, <3>8 DEF FirstLogged
    <3> QED BY <3>2, <3>5, <3>9 DEF FieldsBefore
  <2> QED BY <2>2, <2>3, <2>4
<1>4. ASSUME NEW t \in Threads, AddExtra(t)
      PROVE  FieldsBefore(k, log[k].of)'
  <2>1. PICK m \in Message : log' = Append(log, m) /\ m.kind = "encode"
    BY <1>4, SendLogs
  <2>2. k \in DOMAIN log /\ log'[k] = log[k]
    <3>1. /\ log'[Len(log) + 1] = m
          /\ \A j \in DOMAIN log : log'[j] = log[j]
          /\ \A j \in DOMAIN log' : j = Len(log) + 1 \/ j \in DOMAIN log
      BY <2>1, LogGrows
    <3> QED BY <2>1, <3>1
  <2> QED BY <1>1, <2>2
<1>5. ASSUME NEW t \in Threads, Outgoing(t)
      PROVE  FieldsBefore(k, log[k].of)'
  <2>1. CASE UNCHANGED log
    BY <1>1, <2>1
  <2> QED BY <1>3, <1>4, <1>5, <2>1, OutgoingLog
<1> QED BY <1>2, <1>5, IncomingApart DEF Next

\* A packet begun after InitTracking is logged with all the fields that were encoded
\* into it, in their order, and no packet is logged with another's, although objects
\* are given up unsent and their addresses are used again.
THEOREM FormatsLogged == Spec => []FormatsComplete
<1> DEFINE CInv == TypeOK /\ OwnedInv /\ CallsInv
           FInv == TrackInv /\ FieldsInv /\ FormatsComplete
<1>1. Init => FInv
  <2> SUFFICES ASSUME Init PROVE FInv
    OBVIOUS
  <2>1. 1 .. Built \subseteq early
    <3>1. Built = 0
      BY EmptySeq DEF Init, Built
    <3>2. 1 .. 0 = {}
      OBVIOUS
    <3> QED BY <3>1, <3>2
  <2>2. TrackInv
    BY <2>1 DEF Init, TrackInv, Owned
  <2>3. FieldsInv /\ FormatsComplete
    BY DEF Init, FieldsInv, FormatsComplete
  <2> QED BY <2>2, <2>3
<1>2. CInv /\ CInv' /\ FInv /\ [Next]_vars => FInv'
  BY TrackStep, FieldsStep, FormatsStep
<1>3. Spec => []CInv
  BY CallsHold
<1>4. FInv => FormatsComplete
  OBVIOUS
<1> HIDE DEF CInv, FInv
<1> QED BY <1>1, <1>2, <1>3, <1>4, PTL DEF Spec
================================================================================
