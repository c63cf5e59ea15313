------------------------- MODULE InjectionQueuesProofs -------------------------
(***************************************************************************)
(* What is proved of the injection queues for every set of names, every    *)
(* configuration, tick modulus, start time and bound: types and indices    *)
(* first, then that no packet is lost or overtaken, that groups stay       *)
(* whole, that intervals and delays are kept, and that the queues          *)
(* implement InjectionSchedule.                                            *)
(*                                                                         *)
(* The proofs rest on what the injector has in hand between its two        *)
(* critical sections (HandInv): a copy of the queue's active group, or,    *)
(* after a client changed the queue meanwhile, of a group the queue has    *)
(* forgotten, and then the queue has no active group until the next scan.  *)
(***************************************************************************)
EXTENDS InjectionQueues, TLAPS, FiniteSetTheorems, SequenceTheorems

USE DEF Known

\* A DWORD is a DWORD whatever it was computed from.
LEMMA ModulusType ==
  ASSUME NEW x \in Int
  PROVE  x % TickModulus \in Tick
<1> DEFINE m == TickModulus
<1>1. m \in Nat \ {0}
  BY TickAssumption
<1>2. x % m \in 0 .. m - 1
  <2> HIDE DEF m
  <2> QED BY <1>1
<1> QED BY <1>2 DEF Tick

\* The empty group is a group.
LEMMA NoGroupType == NoGroup \in Group
<1>1. 0 \in Tick
  BY TickAssumption DEF Tick
<1>2. <<>> \in Seq(Packets)
  OBVIOUS
<1> QED BY <1>1, <1>2 DEF NoGroup, Group

\* queue_configs[n] of the code is a configuration, also for a name that is gone.
LEMMA ConfigOfType ==
  ASSUME TypeOK, NEW n \in Names
  PROVE  ConfigOf(n) \in QueueConfig
<1>1. CASE n \in Known
  BY <1>1 DEF TypeOK, ConfigOf
<1>2. CASE n \notin Known
  <2>1. 0 \in Tick
    BY TickAssumption DEF Tick
  <2>2. <<>> \in Seq(Nat)
    OBVIOUS
  <2> QED BY <1>2, <2>1, <2>2, NoGroupType DEF ConfigOf, QueueConfig
<1> QED BY <1>1, <1>2

\* The tables stay typed when a typed configuration is put in.
LEMMA WithConfigType ==
  ASSUME TypeOK, NEW n \in Names, NEW c \in QueueConfig
  PROVE  /\ WithConfig(n, c) \in [Known \cup {n} -> QueueConfig]
         /\ Known \cup {n} \subseteq Names
BY DEF TypeOK, WithConfig

\* The next packet of a group that has one more.
LEMMA AdvancedType ==
  ASSUME TypeOK, NEW h \in GroupInHand
  PROVE  Advanced(h) \in Group
<1> DEFINE index == h.group.current_packet_index + 1
           delay == Delay(h.packet_intervals_ms, index)
<1>1. index \in Nat \ {0}
  BY DEF GroupInHand, Group
<1>2. delay \in Nat
  <2>1. h.packet_intervals_ms \in Seq(Nat)
    BY DEF GroupInHand
  <2>2. CASE index < Len(h.packet_intervals_ms)
    <3>1. index + 1 \in 1 .. Len(h.packet_intervals_ms)
      BY <1>1, <2>1, <2>2
    <3>2. h.packet_intervals_ms[index + 1] \in Nat
      BY <2>1, <3>1, ElementOfSeq
    <3> QED BY <2>2, <3>2 DEF Delay
  <2>3. CASE ~(index < Len(h.packet_intervals_ms))
    BY <2>3 DEF Delay
  <2> QED BY <2>2, <2>3
<1>3. new_timestamp \in Nat
  <2>1. stamped \in Int
    BY DEF TypeOK
  <2>2. new_timestamp \in Tick
    BY <2>1, ModulusType DEF new_timestamp
  <2> QED BY <2>2, TickAssumption DEF Tick
<1>4. (new_timestamp + delay) % TickModulus \in Tick
  BY <1>2, <1>3, ModulusType
<1>5. h.group \in Group
  BY DEF GroupInHand
<1>6. Advanced(h) = [h.group EXCEPT !.current_packet_index = index,
                       !.next_packet_time_ms = (new_timestamp + delay) % TickModulus]
  BY DEF Advanced
<1> HIDE DEF index, delay
<1> QED BY <1>1, <1>4, <1>5, <1>6 DEF Group

\* The group the scan looks at is a group, and has a packet left.
LEMMA GroupToCheckType ==
  ASSUME TypeOK, NEW n \in Known, HasGroup(n)
  PROVE  GroupToCheck(n) \in Group
<1>1. n \in Names /\ queue_configs[n] \in QueueConfig /\ packet_queues[n] \in Seq(Group)
  BY DEF TypeOK
<1>2. CASE queue_configs[n].has_active_group
  BY <1>1, <1>2 DEF GroupToCheck, QueueConfig
<1>3. CASE ~queue_configs[n].has_active_group
  <2>1. packet_queues[n] # <<>>
    BY <1>3 DEF HasGroup
  <2>2. Head(packet_queues[n]) \in Group
    BY <1>1, <2>1, HeadTailProperties
  <2> QED BY <1>3, <2>2 DEF GroupToCheck
<1> QED BY <1>2, <1>3

\* So is the injector's copy of it.
LEMMA ToInjectType ==
  ASSUME TypeOK, NEW n \in Known, HasGroup(n)
  PROVE  ToInject(n) \in GroupInHand
<1>1. n \in Names /\ queue_configs[n] \in QueueConfig
  BY DEF TypeOK
<1>2. epoch[n] \in Nat /\ registered[n] \in Nat \cup {NONE}
  BY <1>1 DEF TypeOK
<1>3. GroupToCheck(n) \in Group
  BY GroupToCheckType
<1> QED BY <1>1, <1>2, <1>3 DEF ToInject, GroupInHand, QueueConfig

\* How many queues a tick serves, and that they are ready ones.
LEMMA ServedAreReady ==
  ASSUME TypeOK, NEW s \in SortedByInterval(ReadyQueues)
  PROVE  /\ QueuesServed \in Nat
         /\ QueuesServed <= Cardinality(ReadyQueues)
         /\ \A i \in 1 .. QueuesServed : s[i] \in ReadyQueues
         /\ Served(s) \subseteq ReadyQueues
<1>1. IsFiniteSet(ReadyQueues)
  <2>1. ReadyQueues \subseteq Names
    BY DEF ReadyQueues, TypeOK
  <2> QED BY <2>1, NamesAssumption, FS_Subset
<1>2. Cardinality(ReadyQueues) \in Nat
  BY <1>1, FS_CardinalityType
<1>3. QueuesServed \in Nat /\ QueuesServed <= Cardinality(ReadyQueues)
  BY <1>2, TickAssumption DEF QueuesServed
<1>4. s \in [1 .. Cardinality(ReadyQueues) -> ReadyQueues]
  BY DEF SortedByInterval
<1>5. \A i \in 1 .. QueuesServed : s[i] \in ReadyQueues
  BY <1>2, <1>3, <1>4
<1> QED BY <1>3, <1>5 DEF Served

\* When a queue is ready, a tick serves one at least.
LEMMA SomethingServed ==
  ASSUME TypeOK, ReadyQueues # {}
  PROVE  QueuesServed \in Nat \ {0}
<1>1. IsFiniteSet(ReadyQueues)
  <2>1. ReadyQueues \subseteq Names
    BY DEF ReadyQueues, TypeOK
  <2> QED BY <2>1, NamesAssumption, FS_Subset
<1>2. Cardinality(ReadyQueues) \in Nat /\ Cardinality(ReadyQueues) # 0
  BY <1>1, FS_CardinalityType, FS_EmptySet
<1> QED BY <1>2, TickAssumption DEF QueuesServed

\* A packet that arrives is within the bound, and joins a sequence of packets.
LEMMA ArrivalType ==
  ASSUME TypeOK, NEW n \in Names, Len(accepted) < MaxPackets
  PROVE  LET packets == Append(incomplete_groups[n].packets, Len(accepted) + 1)
         IN  /\ packets \in Seq(Packets)
             /\ Len(packets) = Len(incomplete_groups[n].packets) + 1
<1>1. Len(accepted) + 1 \in Packets
  BY BoundsAssumption, LenProperties DEF TypeOK, Packets
<1>2. incomplete_groups[n].packets \in Seq(Packets)
  BY DEF TypeOK
<1> QED BY <1>1, <1>2, AppendProperties

\* The type invariant is inductive: every step keeps it.
LEMMA TypeStep == TypeOK /\ [Next]_vars => TypeOK'
<1> SUFFICES ASSUME TypeOK, [Next]_vars
             PROVE  TypeOK'
  OBVIOUS
<1>1. CASE TimePasses
  BY <1>1 DEF TimePasses, TypeOK, tables, injectorVars, clientVars
<1>2. ASSUME NEW n \in Names, NEW c \in Configs, RegisterQueue(n, c)
      PROVE  TypeOK'
  <2> DEFINE new == [injection_interval_ms |-> c.injection_interval_ms,
                     last_injection_time_ms |-> GetTickCount,
                     packet_count |-> c.packet_count,
                     packet_intervals_ms |-> c.packet_intervals_ms,
                     has_active_group |-> FALSE,
                     active_group |-> NoGroup]
  <2>1. new \in QueueConfig
    <3>1. GetTickCount \in Tick
      BY ModulusType DEF GetTickCount, TypeOK
    <3>2. c \in [injection_interval_ms : Nat, packet_count : Nat, packet_intervals_ms : Seq(Nat)]
      BY ConfigsAssumption
    <3> QED BY <3>1, <3>2, NoGroupType DEF QueueConfig
  <2>2. queue_configs' = WithConfig(n, new)
    BY <1>2 DEF RegisterQueue
  <2> HIDE DEF new
  <2>3. Known' \subseteq Names /\ queue_configs' \in [Known' -> QueueConfig]
    BY <2>1, <2>2, WithConfigType
  <2>4. epoch' \in [Names -> Nat] /\ registered' \in [Names -> Nat \cup {NONE}]
    BY <1>2 DEF RegisterQueue, TypeOK
  <2> QED BY <1>2, <2>3, <2>4 DEF RegisterQueue, TypeOK, injectorVars
<1>3. ASSUME NEW n \in Names, UnregisterQueue(n)
      PROVE  TypeOK'
  <2>1. Known' \subseteq Names /\ queue_configs' \in [Known' -> QueueConfig]
    BY <1>3 DEF UnregisterQueue, TypeOK
  <2>2. <<>> \in Seq(Group) /\ <<>> \in Seq(Packets) /\ 0 \in Tick
    BY TickAssumption DEF Tick
  <2>3. packet_queues' \in [Names -> Seq(Group)]
    BY <1>3, <2>2 DEF UnregisterQueue, TypeOK
  <2>4. incomplete_groups' \in [Names -> [packets : Seq(Packets), start_time_ms : Tick]]
    BY <1>3, <2>2 DEF UnregisterQueue, TypeOK, NoPackets
  <2>5. epoch' \in [Names -> Nat] /\ registered' \in [Names -> Nat \cup {NONE}]
    BY <1>3 DEF UnregisterQueue, TypeOK
  <2> QED BY <1>3, <2>1, <2>3, <2>4, <2>5 DEF UnregisterQueue, TypeOK, injectorVars
<1>4. CASE ClearAllQueues
  <2>1. Known' \subseteq Names /\ queue_configs' \in [Known' -> QueueConfig]
    BY <1>4 DEF ClearAllQueues
  <2>2. <<>> \in Seq(Group) /\ <<>> \in Seq(Packets) /\ 0 \in Tick
    BY TickAssumption DEF Tick
  <2>3. packet_queues' \in [Names -> Seq(Group)]
    BY <1>4, <2>2 DEF ClearAllQueues
  <2>4. incomplete_groups' \in [Names -> [packets : Seq(Packets), start_time_ms : Tick]]
    BY <1>4, <2>2 DEF ClearAllQueues, NoPackets
  <2>5. epoch' \in [Names -> Nat] /\ registered' \in [Names -> Nat \cup {NONE}]
    BY <1>4 DEF ClearAllQueues, TypeOK
  <2> QED BY <1>4, <2>1, <2>3, <2>4, <2>5 DEF ClearAllQueues, TypeOK, injectorVars
<1>5. ASSUME NEW n \in Names, InjectPacket(n)
      PROVE  TypeOK'
  <2> DEFINE start == IF incomplete_groups[n].packets = <<>> THEN GetTickCount
                      ELSE incomplete_groups[n].start_time_ms
             packets == Append(incomplete_groups[n].packets, Len(accepted) + 1)
             complete == Len(packets) >= queue_configs[n].packet_count
  <2>1. packets \in Seq(Packets)
    BY <1>5, ArrivalType DEF InjectPacket
  <2>2. start \in Tick
    <3>1. GetTickCount \in Tick
      BY ModulusType DEF GetTickCount, TypeOK
    <3> QED BY <3>1 DEF TypeOK
  <2>3. incomplete_groups' = [incomplete_groups EXCEPT ![n] =
           [packets |-> IF complete THEN <<>> ELSE packets, start_time_ms |-> start]]
    BY <1>5 DEF InjectPacket
  <2>4. packet_queues' =
           IF ~complete THEN packet_queues
           ELSE [packet_queues EXCEPT ![n] = Append(@,
                  [packets |-> packets, current_packet_index |-> 0,
                   next_packet_time_ms |-> start])]
    BY <1>5 DEF InjectPacket
  <2> HIDE DEF start, packets, complete
  <2>5. incomplete_groups' \in [Names -> [packets : Seq(Packets), start_time_ms : Tick]]
    BY <2>1, <2>2, <2>3 DEF TypeOK
  <2>6. packet_queues' \in [Names -> Seq(Group)]
    <3>1. [packets |-> packets, current_packet_index |-> 0,
           next_packet_time_ms |-> start] \in Group
      BY <2>1, <2>2 DEF Group
    <3>2. packet_queues[n] \in Seq(Group)
      BY DEF TypeOK
    <3>3. Append(packet_queues[n], [packets |-> packets, current_packet_index |-> 0,
                                    next_packet_time_ms |-> start]) \in Seq(Group)
      BY <3>1, <3>2, AppendProperties
    <3> QED BY <2>4, <3>3 DEF TypeOK
  <2>7. accepted' \in Seq([name : Names, epoch : Nat]) /\ Len(accepted') <= MaxPackets
    <3>1. [name |-> n, epoch |-> epoch[n]] \in [name : Names, epoch : Nat]
      BY DEF TypeOK
    <3>2. accepted' = Append(accepted, [name |-> n, epoch |-> epoch[n]])
          /\ Len(accepted) < MaxPackets
      BY <1>5 DEF InjectPacket
    <3>3. Len(accepted') = Len(accepted) + 1 /\ accepted' \in Seq([name : Names, epoch : Nat])
      BY <3>1, <3>2, AppendProperties DEF TypeOK
    <3> QED BY <3>2, <3>3, BoundsAssumption, LenProperties DEF TypeOK
  <2> QED BY <1>5, <2>5, <2>6, <2>7 DEF InjectPacket, TypeOK, injectorVars
<1>6. CASE TimerFires
  <2>1. current_time_ms' \in Tick
    BY <1>6, ModulusType DEF TimerFires, GetTickCount, TypeOK
  <2> QED BY <1>6, <2>1 DEF TimerFires, TypeOK, tables, clientVars
<1>7. CASE ScanNothingReady
  BY <1>7 DEF ScanNothingReady, TypeOK, tables, clientVars
<1>8. CASE Scan
  <2>1. PICK s \in SortedByInterval(ReadyQueues) :
       /\ groups_to_inject' = [i \in 1 .. QueuesServed |-> ToInject(s[i])]
       /\ queue_configs' = [n \in Known |->
            IF n \in Served(s)
            THEN [queue_configs[n] EXCEPT !.has_active_group = TRUE,
                                          !.active_group = GroupToCheck(n)]
            ELSE queue_configs[n]]
       /\ packet_queues' = [n \in Names |->
            IF n \in Served(s) /\ ~queue_configs[n].has_active_group
            THEN Tail(packet_queues[n]) ELSE packet_queues[n]]
    BY <1>8 DEF Scan
  <2>2. \A n \in ReadyQueues : n \in Known /\ HasGroup(n)
    BY DEF ReadyQueues, Ready
  <2>3. groups_to_inject' \in Seq(GroupInHand)
    <3>1. \A i \in 1 .. QueuesServed : ToInject(s[i]) \in GroupInHand
      BY <2>2, ServedAreReady, ToInjectType
    <3>2. QueuesServed \in Nat
      BY ServedAreReady
    <3>3. groups_to_inject' \in [1 .. QueuesServed -> GroupInHand]
      <4>1. groups_to_inject' = [i \in 1 .. QueuesServed |-> ToInject(s[i])]
        BY <2>1
      <4> QED BY <3>1, <4>1
    <3> QED BY <3>2, <3>3, SeqDef
  <2>6. groups_to_inject' # <<>>
    <3>1. QueuesServed \in Nat /\ QueuesServed # 0
      BY <1>8, SomethingServed DEF Scan
    <3>2. DOMAIN groups_to_inject' = 1 .. QueuesServed
      BY <2>1
    <3>3. Len(groups_to_inject') = QueuesServed
      BY <2>3, <3>1, <3>2, LenProperties
    <3> QED BY <3>1, <3>3, EmptySeq
  <2>4. Known' \subseteq Names /\ queue_configs' \in [Known' -> QueueConfig]
    <3>1. ASSUME NEW n \in Known
          PROVE  (IF n \in Served(s)
                  THEN [queue_configs[n] EXCEPT !.has_active_group = TRUE,
                                                !.active_group = GroupToCheck(n)]
                  ELSE queue_configs[n]) \in QueueConfig
      <4>1. queue_configs[n] \in QueueConfig
        BY DEF TypeOK
      <4>2. n \in Served(s) => GroupToCheck(n) \in Group
        BY <2>2, ServedAreReady, GroupToCheckType
      <4> QED BY <4>1, <4>2 DEF QueueConfig
    <3> QED BY <2>1, <3>1 DEF TypeOK
  <2>5. packet_queues' \in [Names -> Seq(Group)]
    <3>1. ASSUME NEW n \in Served(s), ~queue_configs[n].has_active_group
          PROVE  Tail(packet_queues[n]) \in Seq(Group)
      <4>1. n \in ReadyQueues
        BY ServedAreReady
      <4>2. n \in Known /\ packet_queues[n] # <<>>
        BY <2>2, <3>1, <4>1 DEF HasGroup
      <4>3. packet_queues[n] \in Seq(Group)
        BY <4>2 DEF TypeOK
      <4> QED BY <4>2, <4>3, HeadTailProperties
    <3> QED BY <2>1, <3>1 DEF TypeOK
  <2> QED BY <1>8, <2>3, <2>6, <2>4, <2>5 DEF Scan, TypeOK, clientVars
<1>9. CASE Stamp
  BY <1>9 DEF Stamp, TypeOK, tables, clientVars

<1>10. CASE Inject
  <2> DEFINE h == Head(groups_to_inject)
             new == [name |-> h.name, packets |-> h.group.packets,
                     index |-> h.group.current_packet_index, at |-> stamped,
                     injection_interval_ms |-> h.injection_interval_ms,
                     packet_intervals_ms |-> h.packet_intervals_ms,
                     epoch |-> h.epoch, since |-> h.since]
  <2>1. h \in GroupInHand
    BY <1>10, HeadTailProperties DEF Inject, TypeOK
  <2>2. injected' = Append(injected, new)
    BY <1>10 DEF Inject
  <2>3. new \in InjectionRecord
    BY <2>1 DEF TypeOK, GroupInHand, Group, InjectionRecord
  <2> HIDE DEF h, new
  <2>4. injected' \in Seq(InjectionRecord)
    BY <2>2, <2>3, AppendProperties DEF TypeOK
  <2> QED BY <1>10, <2>4 DEF Inject, TypeOK, tables, clientVars
<1>11. CASE WriteBack
  <2> DEFINE h == Head(groups_to_inject)
             new == IF h.group.current_packet_index + 1 < Len(h.group.packets)
                    THEN [ConfigOf(h.name) EXCEPT !.active_group = Advanced(h)]
                    ELSE [ConfigOf(h.name) EXCEPT !.has_active_group = FALSE,
                                                  !.last_injection_time_ms = new_timestamp]
  <2>1. groups_to_inject # <<>> /\ groups_to_inject \in Seq(GroupInHand)
    BY <1>11 DEF WriteBack, TypeOK
  <2>2. h \in GroupInHand /\ Tail(groups_to_inject) \in Seq(GroupInHand)
        /\ Len(Tail(groups_to_inject)) = Len(groups_to_inject) - 1
    BY <2>1, HeadTailProperties
  <2>3. new \in QueueConfig
    <3>1. h.name \in Names
      BY <2>2 DEF GroupInHand
    <3>2. ConfigOf(h.name) \in QueueConfig
      BY <3>1, ConfigOfType
    <3>3. Advanced(h) \in Group
      BY <2>2, AdvancedType
    <3>4. new_timestamp \in Tick
      BY ModulusType DEF new_timestamp, TypeOK
    <3> HIDE DEF h
    <3> QED BY <3>2, <3>3, <3>4 DEF QueueConfig
  <2>4. queue_configs' = WithConfig(h.name, new)
    BY <1>11 DEF WriteBack
  <2>5. Known' \subseteq Names /\ queue_configs' \in [Known' -> QueueConfig]
    <3>1. h.name \in Names
      BY <2>2 DEF GroupInHand
    <3> HIDE DEF h, new
    <3> QED BY <2>3, <2>4, <3>1, WithConfigType
  <2>6. groups_to_inject' = Tail(groups_to_inject)
        /\ injector' = (IF Len(groups_to_inject) > 1 THEN "inject" ELSE "idle")
    BY <1>11 DEF WriteBack, NextInList
  <2>7. injector' = "inject" => groups_to_inject' # <<>>
    <3>1. Len(groups_to_inject) > 1 => Len(Tail(groups_to_inject)) # 0
      BY <2>1, <2>2, LenProperties
    <3> QED BY <2>1, <2>6, <3>1, EmptySeq
  <2> HIDE DEF h, new
  <2> QED BY <1>11, <2>2, <2>5, <2>6, <2>7 DEF WriteBack, NextInList, TypeOK, clientVars
<1>12. CASE UNCHANGED vars
  BY <1>12 DEF TypeOK, vars
<1> QED BY <1>1, <1>2, <1>3, <1>4, <1>5, <1>6, <1>7, <1>8, <1>9, <1>10, <1>11, <1>12
       DEF Next, Client, PacketInjector

--------------------------------------------------------------------------------
\* A scan makes only groups with a packet left active, and hands out only such.
LEMMA ReadyHasPacketLeft ==
  ASSUME TypeOK, IndexInBounds, NEW n \in Known, HasGroup(n)
  PROVE  HasPacketLeft(GroupToCheck(n))
<1>1. CASE queue_configs[n].has_active_group
  BY <1>1 DEF GroupToCheck, IndexInBounds
<1>2. CASE ~queue_configs[n].has_active_group
  <2>1. n \in Names /\ packet_queues[n] \in Seq(Group) /\ packet_queues[n] # <<>>
    BY <1>2 DEF HasGroup, TypeOK
  <2>2. 1 \in DOMAIN packet_queues[n] /\ Head(packet_queues[n]) = packet_queues[n][1]
    BY <2>1, EmptySeq, LenProperties, HeadTailProperties
  <2> QED BY <1>2, <2>1, <2>2 DEF GroupToCheck, IndexInBounds
<1> QED BY <1>1, <1>2

\* Every step keeps the index of every group within the group.
LEMMA IndexStep == TypeOK /\ IndexInBounds /\ [Next]_vars => IndexInBounds'
<1> SUFFICES ASSUME TypeOK, IndexInBounds, [Next]_vars
             PROVE  IndexInBounds'
  OBVIOUS
<1> USE DEF HasPacketLeft
<1>1. CASE TimePasses \/ TimerFires \/ ScanNothingReady \/ Stamp \/ Inject \/ UNCHANGED vars
  BY <1>1 DEF TimePasses, TimerFires, ScanNothingReady, Stamp, Inject, vars,
              IndexInBounds, tables, injectorVars
<1>2. ASSUME NEW n \in Names, NEW c \in Configs, RegisterQueue(n, c)
      PROVE  IndexInBounds'
  BY <1>2 DEF RegisterQueue, WithConfig, IndexInBounds, injectorVars
<1>3. ASSUME NEW n \in Names, UnregisterQueue(n)
      PROVE  IndexInBounds'
  <2>1. DOMAIN packet_queues'[n] = {}
    BY <1>3 DEF UnregisterQueue, TypeOK
  <2>2. \A m \in Names \ {n} : packet_queues'[m] = packet_queues[m]
    BY <1>3 DEF UnregisterQueue, TypeOK
  <2> QED BY <1>3, <2>1, <2>2 DEF UnregisterQueue, IndexInBounds, injectorVars
<1>4. CASE ClearAllQueues
  BY <1>4 DEF ClearAllQueues, IndexInBounds, injectorVars
<1>5. ASSUME NEW n \in Names, InjectPacket(n)
      PROVE  IndexInBounds'
  <2> DEFINE start == IF incomplete_groups[n].packets = <<>> THEN GetTickCount
                      ELSE incomplete_groups[n].start_time_ms
             packets == Append(incomplete_groups[n].packets, Len(accepted) + 1)
             new == [packets |-> packets, current_packet_index |-> 0,
                     next_packet_time_ms |-> start]
  <2>1. incomplete_groups[n].packets \in Seq(Packets)
    BY DEF TypeOK
  <2>2. packets \in Seq(Packets)
    BY <1>5, ArrivalType DEF InjectPacket
  <2>3. Len(packets) = Len(incomplete_groups[n].packets) + 1
    BY <1>5, ArrivalType DEF InjectPacket
  <2>4. new.current_packet_index < Len(new.packets)
    BY <2>1, <2>3, LenProperties
  <2>5. packet_queues[n] \in Seq(Group)
    BY DEF TypeOK
  <2>6. new \in Group
    <3>1. start \in Tick
      BY ModulusType DEF GetTickCount, TypeOK
    <3> QED BY <2>2, <3>1 DEF Group
  <2>7. \/ packet_queues' = packet_queues
        \/ packet_queues' = [packet_queues EXCEPT ![n] = Append(@, new)]
    BY <1>5 DEF InjectPacket
  <2> HIDE DEF new
  <2>8. \A k \in DOMAIN Append(packet_queues[n], new) :
          HasPacketLeft(Append(packet_queues[n], new)[k])
    BY <2>4, <2>5, <2>6, AppendProperties DEF IndexInBounds
  <2>9. \A m \in Names : \A k \in DOMAIN packet_queues'[m] : HasPacketLeft(packet_queues'[m][k])
    BY <2>7, <2>8 DEF IndexInBounds, TypeOK
  <2> QED BY <1>5, <2>9 DEF InjectPacket, IndexInBounds, injectorVars
<1>6. CASE Scan
  <2>1. PICK s \in SortedByInterval(ReadyQueues) :
       /\ groups_to_inject' = [i \in 1 .. QueuesServed |-> ToInject(s[i])]
       /\ queue_configs' = [n \in Known |->
            IF n \in Served(s)
            THEN [queue_configs[n] EXCEPT !.has_active_group = TRUE,
                                          !.active_group = GroupToCheck(n)]
            ELSE queue_configs[n]]
       /\ packet_queues' = [n \in Names |->
            IF n \in Served(s) /\ ~queue_configs[n].has_active_group
            THEN Tail(packet_queues[n]) ELSE packet_queues[n]]
    BY <1>6 DEF Scan
  <2>2. \A n \in ReadyQueues : n \in Known /\ HasPacketLeft(GroupToCheck(n))
    BY ReadyHasPacketLeft DEF ReadyQueues, Ready
  <2>3. \A k \in DOMAIN groups_to_inject' : HasPacketLeft(groups_to_inject'[k].group)
    <3>1. ASSUME NEW k \in DOMAIN groups_to_inject'
          PROVE  HasPacketLeft(groups_to_inject'[k].group)
      <4>1. k \in 1 .. QueuesServed /\ groups_to_inject'[k] = ToInject(s[k])
        BY <2>1
      <4>2. s[k] \in ReadyQueues
        BY <4>1, ServedAreReady
      <4>3. groups_to_inject'[k].group = GroupToCheck(s[k])
        BY <4>1 DEF ToInject
      <4> QED BY <2>2, <4>2, <4>3
    <3> QED BY <3>1
  <2>4. \A n \in Known' :
          queue_configs'[n].has_active_group => HasPacketLeft(queue_configs'[n].active_group)
    <3>1. ASSUME NEW n \in Known', queue_configs'[n].has_active_group
          PROVE  HasPacketLeft(queue_configs'[n].active_group)
      <4>1. n \in Known /\ queue_configs[n] \in QueueConfig
        BY <2>1 DEF TypeOK
      <4>2. CASE n \in Served(s)
        <5>1. queue_configs'[n].active_group = GroupToCheck(n)
          BY <2>1, <4>1, <4>2 DEF QueueConfig
        <5>2. n \in ReadyQueues
          BY <4>2, ServedAreReady
        <5> QED BY <2>2, <5>1, <5>2
      <4>3. CASE n \notin Served(s)
        BY <2>1, <3>1, <4>1, <4>3 DEF IndexInBounds
      <4> QED BY <4>2, <4>3
    <3> QED BY <3>1
  <2>5. \A n \in Names : \A k \in DOMAIN packet_queues'[n] : HasPacketLeft(packet_queues'[n][k])
    <3>1. ASSUME NEW n \in Names, NEW k \in DOMAIN packet_queues'[n]
          PROVE  HasPacketLeft(packet_queues'[n][k])
      <4>1. CASE n \in Served(s) /\ ~queue_configs[n].has_active_group
        <5>1. packet_queues'[n] = Tail(packet_queues[n])
          BY <2>1, <4>1
        <5>2. n \in ReadyQueues
          BY <4>1, ServedAreReady
        <5>3. packet_queues[n] # <<>> /\ packet_queues[n] \in Seq(Group)
          BY <4>1, <5>2 DEF ReadyQueues, Ready, HasGroup, TypeOK
        <5>4. /\ k \in 1 .. Len(packet_queues[n]) - 1
              /\ packet_queues'[n][k] = packet_queues[n][k + 1]
          BY <5>1, <5>3, HeadTailProperties, LenProperties
        <5>5. k + 1 \in DOMAIN packet_queues[n]
          BY <5>3, <5>4, LenProperties
        <5> QED BY <5>4, <5>5 DEF IndexInBounds
      <4>2. CASE ~(n \in Served(s) /\ ~queue_configs[n].has_active_group)
        BY <2>1, <3>1, <4>2 DEF IndexInBounds
      <4> QED BY <4>1, <4>2
    <3> QED BY <3>1
  <2> QED BY <2>3, <2>4, <2>5 DEF IndexInBounds
<1>7. CASE WriteBack
  <2> DEFINE h == Head(groups_to_inject)
             more == h.group.current_packet_index + 1 < Len(h.group.packets)
             new == IF more
                    THEN [ConfigOf(h.name) EXCEPT !.active_group = Advanced(h)]
                    ELSE [ConfigOf(h.name) EXCEPT !.has_active_group = FALSE,
                                                  !.last_injection_time_ms = new_timestamp]
  <2>1. groups_to_inject # <<>> /\ groups_to_inject \in Seq(GroupInHand)
    BY <1>7 DEF WriteBack, TypeOK
  <2>2. h \in GroupInHand
    BY <2>1, HeadTailProperties
  <2>3. queue_configs' = WithConfig(h.name, new)
    BY <1>7 DEF WriteBack
  <2>4. new.has_active_group => HasPacketLeft(new.active_group)
    <3>1. ConfigOf(h.name) \in QueueConfig
      BY <2>2, ConfigOfType DEF GroupInHand
    <3>2. CASE more
      <4>1. new.active_group = Advanced(h)
        BY <3>1, <3>2 DEF QueueConfig
      <4>2. /\ Advanced(h).current_packet_index = h.group.current_packet_index + 1
            /\ Advanced(h).packets = h.group.packets
        <5>1. h.group \in Group
          BY <2>2 DEF GroupInHand
        <5> HIDE DEF h
        <5> QED BY <5>1 DEF Advanced, Group
      <4> QED BY <3>2, <4>1, <4>2
    <3>3. CASE ~more
      BY <3>1, <3>3 DEF QueueConfig
    <3> QED BY <3>2, <3>3
  <2> HIDE DEF h, more, new
  <2>5. \A n \in Known' :
          queue_configs'[n].has_active_group => HasPacketLeft(queue_configs'[n].active_group)
    BY <2>3, <2>4 DEF WithConfig, IndexInBounds
  <2>6. \A k \in DOMAIN groups_to_inject' : HasPacketLeft(groups_to_inject'[k].group)
    <3>1. groups_to_inject' = Tail(groups_to_inject)
      BY <1>7 DEF WriteBack, NextInList
    <3>2. ASSUME NEW k \in DOMAIN groups_to_inject'
          PROVE  HasPacketLeft(groups_to_inject'[k].group)
      <4>1. /\ k \in 1 .. Len(groups_to_inject) - 1
            /\ groups_to_inject'[k] = groups_to_inject[k + 1]
        BY <2>1, <3>1, HeadTailProperties, LenProperties
      <4>2. k + 1 \in DOMAIN groups_to_inject
        BY <2>1, <4>1, LenProperties
      <4> QED BY <4>1, <4>2 DEF IndexInBounds
    <3> QED BY <3>2
  <2> QED BY <1>7, <2>5, <2>6 DEF WriteBack, NextInList, IndexInBounds
<1> QED BY <1>1, <1>2, <1>3, <1>4, <1>5, <1>6, <1>7 DEF Next, Client, PacketInjector

\* The initial state is typed and has no groups.
LEMMA InitHolds == Init => TypeOK /\ IndexInBounds
<1> SUFFICES ASSUME Init
             PROVE  TypeOK /\ IndexInBounds
  OBVIOUS
<1>1. 0 \in Tick /\ <<>> \in Seq(Group) /\ <<>> \in Seq(Packets)
  BY TickAssumption DEF Tick
<1>2. Known = {}
  BY DEF Init
<1>3. packet_queues \in [Names -> Seq(Group)]
      /\ incomplete_groups \in [Names -> [packets : Seq(Packets), start_time_ms : Tick]]
  BY <1>1 DEF Init
<1>4. accepted \in Seq([name : Names, epoch : Nat]) /\ Len(accepted) <= MaxPackets
  BY BoundsAssumption, EmptySeq DEF Init
<1>5. epoch \in [Names -> Nat] /\ registered \in [Names -> Nat \cup {NONE}]
  BY DEF Init
<1>6. TypeOK
  BY <1>1, <1>2, <1>3, <1>4, <1>5, BoundsAssumption DEF Init, TypeOK
<1>7. IndexInBounds
  BY <1>2 DEF Init, IndexInBounds
<1> QED BY <1>6, <1>7

\* The invariant TypeOK, for every value of the constants.
THEOREM TypeCorrect == Spec => []TypeOK
<1>1. Init => TypeOK
  BY InitHolds
<1>2. TypeOK /\ [Next]_vars => TypeOK'
  BY TypeStep
<1> QED BY <1>1, <1>2, PTL DEF Spec

\* PacketInjector never reads a packet past the end of its group, whatever the
\* clients' threads do to the queue between its two critical sections.
THEOREM IndexStaysInBounds == Spec => []IndexInBounds
<1>1. Init => TypeOK /\ IndexInBounds
  BY InitHolds
<1>2. (TypeOK /\ IndexInBounds) /\ [Next]_vars => (TypeOK /\ IndexInBounds)'
  BY TypeStep, IndexStep
<1> QED BY <1>1, <1>2, PTL DEF Spec

--------------------------------------------------------------------------------
(* What the injector has in hand *)

\* The groups the injector works on.
Hand == {groups_to_inject[k] : k \in DOMAIN groups_to_inject}

HasActive(n) == n \in Known /\ queue_configs[n].has_active_group

\* The injector has injected the packet of n it has in hand.
IsOut(n) == injector = "write_back" /\ Head(groups_to_inject).name = n

\* One entry per queue is in hand, and until a client changes the queue it is
\* a copy of the active group; after that the queue has no active group.
HandInv ==
  /\ injector \in {"idle", "scan"} => groups_to_inject = <<>>
  /\ \A k, l \in DOMAIN groups_to_inject :
       k # l => groups_to_inject[k].name # groups_to_inject[l].name
  /\ \A h \in Hand :
       /\ h.epoch <= epoch[h.name]
       /\ h.epoch = epoch[h.name] =>
            HasActive(h.name) /\ queue_configs[h.name].active_group = h.group
       /\ h.epoch # epoch[h.name] => ~HasActive(h.name)
  /\ \A n \in Names : HasActive(n) =>
       \/ queue_configs[n].active_group.current_packet_index > 0
       \/ \E h \in Hand : h.name = n

\* The entries in hand have their type.
LEMMA HandType == ASSUME TypeOK PROVE Hand \subseteq GroupInHand
BY LenProperties DEF TypeOK, Hand

\* The first entry is alone with its name, and what follows it is the rest.
LEMMA HandTail ==
  ASSUME TypeOK, HandInv, groups_to_inject # <<>>
  PROVE  /\ Head(groups_to_inject) \in Hand
         /\ Tail(groups_to_inject) \in Seq(GroupInHand)
         /\ {Tail(groups_to_inject)[k] : k \in DOMAIN Tail(groups_to_inject)}
              = Hand \ {Head(groups_to_inject)}
         /\ \A h \in Hand : h.name = Head(groups_to_inject).name => h = Head(groups_to_inject)
         /\ \A k, l \in DOMAIN Tail(groups_to_inject) :
              k # l => Tail(groups_to_inject)[k].name # Tail(groups_to_inject)[l].name
<1> DEFINE s == groups_to_inject
<1>1. s \in Seq(GroupInHand) /\ s # <<>>
  BY DEF TypeOK
<1>2. Len(s) \in Nat \ {0} /\ DOMAIN s = 1 .. Len(s)
  BY <1>1, EmptySeq, LenProperties
<1>3. Tail(s) \in Seq(GroupInHand) /\ Len(Tail(s)) = Len(s) - 1
      /\ \A i \in 1 .. Len(Tail(s)) : Tail(s)[i] = s[i + 1]
  BY <1>1, HeadTailProperties
<1>4. DOMAIN Tail(s) = 1 .. Len(s) - 1
  BY <1>3, LenProperties
<1>5. Head(s) = s[1]
  BY <1>1, HeadTailProperties
<1>6. \A k, l \in DOMAIN s : k # l => s[k].name # s[l].name
  BY DEF HandInv
<1> HIDE DEF s
<1>7. Head(s) \in {s[k] : k \in DOMAIN s}
  BY <1>2, <1>5
<1>8. \A h \in {s[k] : k \in DOMAIN s} : h.name = Head(s).name => h = Head(s)
  BY <1>2, <1>5, <1>6
<1>9. \A k, l \in DOMAIN Tail(s) : k # l => Tail(s)[k].name # Tail(s)[l].name
  BY <1>2, <1>3, <1>4, <1>6
<1>10. {Tail(s)[k] : k \in DOMAIN Tail(s)} = {s[k] : k \in DOMAIN s} \ {Head(s)}
  <2>1. ASSUME NEW k \in DOMAIN Tail(s)
        PROVE  Tail(s)[k] \in {s[i] : i \in DOMAIN s} \ {Head(s)}
    <3>1. k + 1 \in DOMAIN s /\ Tail(s)[k] = s[k + 1] /\ k + 1 # 1 /\ 1 \in DOMAIN s
      BY <1>2, <1>3, <1>4
    <3> QED BY <3>1, <1>5, <1>6
  <2>2. ASSUME NEW k \in DOMAIN s, s[k] # Head(s)
        PROVE  s[k] \in {Tail(s)[i] : i \in DOMAIN Tail(s)}
    <3>1. k - 1 \in DOMAIN Tail(s)
      BY <1>2, <1>4, <1>5, <2>2
    <3>2. Tail(s)[k - 1] = s[k]
      BY <1>2, <1>3, <1>4, <3>1
    <3> QED BY <3>1, <3>2
  <2> QED BY <2>1, <2>2
<1> QED BY <1>3, <1>7, <1>8, <1>9, <1>10 DEF s, Hand

\* A scan that serves the queues S.
Scanned(S) ==
  /\ Hand' = {ToInject(n) : n \in S}
  /\ \A k, l \in DOMAIN groups_to_inject' :
       k # l => groups_to_inject'[k].name # groups_to_inject'[l].name
  /\ Known' = Known
  /\ \A n \in Known : queue_configs'[n] =
       IF n \in S THEN [queue_configs[n] EXCEPT !.has_active_group = TRUE,
                                                !.active_group = GroupToCheck(n)]
       ELSE queue_configs[n]
  /\ \A n \in Names : packet_queues'[n] =
       IF n \in S /\ ~queue_configs[n].has_active_group
       THEN Tail(packet_queues[n]) ELSE packet_queues[n]

\* A scan serves some of the ready queues.
LEMMA ScanEffect ==
  ASSUME TypeOK, Scan
  PROVE  \E S \in SUBSET ReadyQueues : Scanned(S)
<1>1. PICK s \in SortedByInterval(ReadyQueues) :
       /\ groups_to_inject' = [i \in 1 .. QueuesServed |-> ToInject(s[i])]
       /\ queue_configs' = [n \in Known |->
            IF n \in Served(s)
            THEN [queue_configs[n] EXCEPT !.has_active_group = TRUE,
                                          !.active_group = GroupToCheck(n)]
            ELSE queue_configs[n]]
       /\ packet_queues' = [n \in Names |->
            IF n \in Served(s) /\ ~queue_configs[n].has_active_group
            THEN Tail(packet_queues[n]) ELSE packet_queues[n]]
  BY DEF Scan
<1>2. /\ QueuesServed \in Nat
      /\ \A i \in 1 .. QueuesServed : s[i] \in ReadyQueues
      /\ Served(s) \in SUBSET ReadyQueues
  BY ServedAreReady
<1>3. Hand' = {ToInject(n) : n \in Served(s)}
  BY <1>1 DEF Hand, Served
<1>4. \A i, j \in 1 .. QueuesServed : i # j => s[i] # s[j]
  <2>1. IsFiniteSet(ReadyQueues)
    <3>1. ReadyQueues \subseteq Names
      BY DEF ReadyQueues, TypeOK
    <3> QED BY <3>1, NamesAssumption, FS_Subset
  <2>2. Cardinality(ReadyQueues) \in Nat /\ QueuesServed <= Cardinality(ReadyQueues)
    BY <2>1, FS_CardinalityType, ServedAreReady
  <2>3. DOMAIN s = 1 .. Cardinality(ReadyQueues)
        /\ \A i, j \in DOMAIN s : i < j => s[i] # s[j]
    BY DEF SortedByInterval
  <2> QED BY <1>2, <2>2, <2>3
<1>5. \A k, l \in DOMAIN groups_to_inject' :
        k # l => groups_to_inject'[k].name # groups_to_inject'[l].name
  <2>1. /\ \A k \in 1 .. QueuesServed : groups_to_inject'[k] = ToInject(s[k])
        /\ DOMAIN groups_to_inject' = 1 .. QueuesServed
    BY <1>1
  <2>2. \A n : ToInject(n).name = n
    BY DEF ToInject
  <2> QED BY <1>4, <2>1, <2>2
<1> QED BY <1>1, <1>2, <1>3, <1>5 DEF Scanned

HasMore(h) == h.group.current_packet_index + 1 < Len(h.group.packets)

\* Progress of the entry h is written back: nothing happens to other queues; the
\* queue of h has an active group only if it had, and the group has more packets.
WrittenBack(h) ==
  /\ h \in Hand /\ h \in GroupInHand
  /\ Hand' = Hand \ {h}
  /\ \A g \in Hand : g.name = h.name => g = h
  /\ \A k, l \in DOMAIN groups_to_inject' :
       k # l => groups_to_inject'[k].name # groups_to_inject'[l].name
  /\ \A m \in Names : m # h.name =>
       /\ m \in Known' <=> m \in Known
       /\ m \in Known => queue_configs'[m] = queue_configs[m]
  /\ h.name \in Known'
  /\ queue_configs'[h.name].has_active_group <=> HasActive(h.name) /\ HasMore(h)
  /\ HasMore(h) => queue_configs'[h.name].active_group = Advanced(h)
  /\ ~HasMore(h) => queue_configs'[h.name].last_injection_time_ms = new_timestamp
  /\ HasMore(h) /\ h.name \in Known =>
       queue_configs'[h.name].last_injection_time_ms
         = queue_configs[h.name].last_injection_time_ms

\* WriteBack writes the first entry in hand back.
LEMMA WriteBackEffect ==
  ASSUME TypeOK, HandInv, WriteBack
  PROVE  WrittenBack(Head(groups_to_inject))
<1> DEFINE h == Head(groups_to_inject)
           more == HasMore(h)
           new == IF more
                  THEN [ConfigOf(h.name) EXCEPT !.active_group = Advanced(h)]
                  ELSE [ConfigOf(h.name) EXCEPT !.has_active_group = FALSE,
                                                !.last_injection_time_ms = new_timestamp]
<1>1. groups_to_inject # <<>>
  BY DEF WriteBack, TypeOK
<1>2. /\ h \in Hand /\ h \in GroupInHand
      /\ Hand' = Hand \ {h}
      /\ \A g \in Hand : g.name = h.name => g = h
      /\ \A k, l \in DOMAIN groups_to_inject' :
           k # l => groups_to_inject'[k].name # groups_to_inject'[l].name
  <2>1. groups_to_inject' = Tail(groups_to_inject)
    BY DEF WriteBack, NextInList
  <2> QED BY <1>1, <2>1, HandTail, HandType DEF Hand
<1>3. queue_configs' = WithConfig(h.name, new)
  BY DEF WriteBack, HasMore
<1>4. h.name \in Names
  BY <1>2 DEF GroupInHand
<1>5. ConfigOf(h.name) \in QueueConfig
  BY <1>4, ConfigOfType
<1> HIDE DEF h, more
<1>6. /\ new.has_active_group <=> ConfigOf(h.name).has_active_group /\ more
      /\ more => new.active_group = Advanced(h)
      /\ more => new.last_injection_time_ms = ConfigOf(h.name).last_injection_time_ms
      /\ ~more => new.last_injection_time_ms = new_timestamp
  BY <1>5 DEF QueueConfig
<1>7. ConfigOf(h.name).has_active_group <=> HasActive(h.name)
  BY <1>4 DEF ConfigOf, HasActive, TypeOK
<1>8. h.name \in Known => ConfigOf(h.name) = queue_configs[h.name]
  BY DEF ConfigOf
<1> HIDE DEF new
<1>9. /\ Known' = Known \cup {h.name}
      /\ queue_configs'[h.name] = new
      /\ \A m \in Known : m # h.name => queue_configs'[m] = queue_configs[m]
  BY <1>3 DEF WithConfig
<1> QED BY <1>2, <1>6, <1>7, <1>8, <1>9 DEF h, more, WrittenBack

--------------------------------------------------------------------------------
(* Kinds of steps *)

\* The steps that only move the clock or the injector.
Quiet == TimePasses \/ TimerFires \/ ScanNothingReady \/ Stamp \/ UNCHANGED vars

\* A client's command about queues.
Command == \/ \E n \in Names, c \in Configs : RegisterQueue(n, c)
           \/ \E n \in Names : UnregisterQueue(n)
           \/ ClearAllQueues

\* Every step is of one of these kinds.
LEMMA Steps ==
  ASSUME [Next]_vars
  PROVE  Quiet \/ Command \/ (\E n \in Names : InjectPacket(n)) \/ Scan \/ Inject \/ WriteBack
BY DEF Next, Client, PacketInjector, Quiet, Command

\* Quiet steps leave the queues, the list and the history.
LEMMA QuietEffect ==
  ASSUME Quiet
  PROVE  /\ UNCHANGED <<queue_configs, packet_queues, incomplete_groups, groups_to_inject,
                        injected, accepted, epoch>>
         /\ injector' = "write_back" <=> injector = "write_back"
         /\ injector' \in {"idle", "scan"} => injector \in {"idle", "scan"}
BY DEF Quiet, TimePasses, TimerFires, ScanNothingReady, Stamp, vars, tables, injectorVars, clientVars

\* A command about the queues S: each starts a new epoch without an active group,
\* with its groups as they are or with none; the other queues are left alone.
Commanded(S) ==
  /\ \A m \in Names : epoch'[m] = IF m \in S THEN epoch[m] + 1 ELSE epoch[m]
  /\ \A m \in S : ~HasActive(m)'
  /\ \A m \in Names \ S :
       /\ m \in Known' <=> m \in Known
       /\ m \in Known => queue_configs'[m] = queue_configs[m]
       /\ packet_queues'[m] = packet_queues[m]
       /\ incomplete_groups'[m] = incomplete_groups[m]
  /\ \A m \in Names :
       /\ packet_queues'[m] = packet_queues[m] \/ packet_queues'[m] = <<>>
       /\ \/ incomplete_groups'[m].packets = incomplete_groups[m].packets
          \/ incomplete_groups'[m].packets = <<>>
  /\ UNCHANGED <<clock, injectorVars, accepted>>

\* Every command is about some queues.
LEMMA CommandEffect ==
  ASSUME TypeOK, Command
  PROVE  \E S \in SUBSET Names : Commanded(S)
<1>1. ASSUME NEW n \in Names, NEW c \in Configs, RegisterQueue(n, c)
      PROVE  /\ \A m \in Names : epoch'[m] = IF m \in {n} THEN epoch[m] + 1 ELSE epoch[m]
             /\ \A m \in {n} : ~HasActive(m)'
             /\ \A m \in Names \ {n} :
                  /\ m \in Known' <=> m \in Known
                  /\ m \in Known => queue_configs'[m] = queue_configs[m]
             /\ UNCHANGED <<clock, injectorVars, accepted, packet_queues, incomplete_groups>>
  BY <1>1 DEF RegisterQueue, WithConfig, HasActive, TypeOK
<1>2. ASSUME NEW n \in Names, UnregisterQueue(n)
      PROVE  /\ \A m \in Names : epoch'[m] = IF m \in {n} THEN epoch[m] + 1 ELSE epoch[m]
             /\ \A m \in {n} : ~HasActive(m)'
             /\ \A m \in Names \ {n} :
                  /\ m \in Known' <=> m \in Known
                  /\ m \in Known => queue_configs'[m] = queue_configs[m]
                  /\ packet_queues'[m] = packet_queues[m]
                  /\ incomplete_groups'[m] = incomplete_groups[m]
             /\ packet_queues'[n] = <<>> /\ incomplete_groups'[n].packets = <<>>
             /\ UNCHANGED <<clock, injectorVars, accepted>>
  BY <1>2 DEF UnregisterQueue, HasActive, TypeOK, NoPackets
<1>3. ASSUME ClearAllQueues
      PROVE  /\ \A m \in Names : epoch'[m] = epoch[m] + 1
             /\ \A m \in Names : ~HasActive(m)'
             /\ \A m \in Names : /\ packet_queues'[m] = <<>>
                                 /\ incomplete_groups'[m].packets = <<>>
             /\ UNCHANGED <<clock, injectorVars, accepted>>
  BY <1>3 DEF ClearAllQueues, HasActive, NoPackets
<1>4. ASSUME NEW n \in Names, \E c \in Configs : RegisterQueue(n, c)
      PROVE  \E S \in SUBSET Names : Commanded(S)
  <2> WITNESS {n} \in SUBSET Names
  <2> QED BY <1>1, <1>4 DEF Commanded
<1>5. ASSUME NEW n \in Names, UnregisterQueue(n)
      PROVE  \E S \in SUBSET Names : Commanded(S)
  <2> WITNESS {n} \in SUBSET Names
  <2> QED BY <1>2, <1>5 DEF Commanded
<1>6. ASSUME ClearAllQueues
      PROVE  \E S \in SUBSET Names : Commanded(S)
  <2> WITNESS Names \in SUBSET Names
  <2> QED BY <1>3, <1>6 DEF Commanded
<1> QED BY <1>4, <1>5, <1>6 DEF Command

\* Every step keeps HandInv: commands come while groups are in hand.
LEMMA HandStep == TypeOK /\ HandInv /\ [Next]_vars => HandInv'
<1> SUFFICES ASSUME TypeOK, HandInv, [Next]_vars
             PROVE  HandInv'
  OBVIOUS
<1>1. CASE Quiet
  <2>1. Hand' = Hand /\ \A n \in Names : HasActive(n)' <=> HasActive(n)
    BY <1>1, QuietEffect DEF Hand, HasActive
  <2>2. injector' \in {"idle", "scan"} => groups_to_inject' = <<>>
    BY <1>1, QuietEffect DEF HandInv
  <2>3. \A h \in Hand : h.name \in Names
    BY HandType DEF GroupInHand
  <2> QED BY <1>1, <2>1, <2>2, <2>3, QuietEffect DEF HandInv
<1>2. CASE Command
  <2>1. PICK S \in SUBSET Names : Commanded(S)
    BY <1>2, CommandEffect
  <2>2. UNCHANGED <<injector, groups_to_inject>> /\ Hand' = Hand
    BY <2>1 DEF Commanded, injectorVars, Hand
  <2>3. ASSUME NEW h \in Hand
        PROVE  /\ h.epoch <= epoch'[h.name]
               /\ h.epoch = epoch'[h.name] =>
                    HasActive(h.name)' /\ queue_configs'[h.name].active_group = h.group
               /\ h.epoch # epoch'[h.name] => ~HasActive(h.name)'
    <3>1. h.name \in Names /\ h.epoch \in Nat /\ epoch[h.name] \in Nat
      BY HandType DEF GroupInHand, TypeOK
    <3>2. h.epoch <= epoch[h.name]
      BY DEF HandInv
    <3>3. CASE h.name \in S
      <4>1. epoch'[h.name] = epoch[h.name] + 1
        BY <2>1, <3>1, <3>3 DEF Commanded
      <4>2. \A m \in S : ~HasActive(m)'
        BY <2>1 DEF Commanded
      <4> QED BY <3>1, <3>2, <3>3, <4>1, <4>2
    <3>4. CASE h.name \notin S
      <4>1. epoch'[h.name] = epoch[h.name]
        BY <2>1, <3>1, <3>4 DEF Commanded
      <4>2. /\ HasActive(h.name) => queue_configs'[h.name] = queue_configs[h.name]
            /\ HasActive(h.name)' <=> HasActive(h.name)
        BY <2>1, <3>1, <3>4 DEF Commanded, HasActive
      <4> QED BY <3>1, <4>1, <4>2 DEF HandInv
    <3> QED BY <3>3, <3>4
  <2>4. \A n \in Names : HasActive(n)' =>
          HasActive(n) /\ queue_configs'[n] = queue_configs[n]
    BY <2>1 DEF Commanded, HasActive
  <2> QED BY <2>2, <2>3, <2>4 DEF HandInv
<1>3. ASSUME NEW n \in Names, InjectPacket(n)
      PROVE  HandInv'
  <2>1. UNCHANGED <<queue_configs, injector, groups_to_inject, epoch>>
    BY <1>3 DEF InjectPacket, injectorVars
  <2> QED BY <2>1 DEF HandInv, Hand, HasActive
<1>4. CASE Scan
  <2>1. PICK S \in SUBSET ReadyQueues : Scanned(S)
    BY <1>4, ScanEffect
  <2>2. injector = "scan" /\ injector' = "stamp" /\ epoch' = epoch
    BY <1>4 DEF Scan, clientVars
  <2>3. Hand = {}
    BY <2>2 DEF HandInv, Hand
  <2>4. \A n \in S : n \in Known /\ queue_configs[n] \in QueueConfig /\ epoch[n] \in Nat
    BY DEF ReadyQueues, TypeOK
  <2>5. \A n \in S : HasActive(n)' /\ queue_configs'[n].active_group = GroupToCheck(n)
    BY <2>1, <2>4 DEF Scanned, HasActive, QueueConfig
  <2>6. ASSUME NEW h \in Hand'
        PROVE  /\ h.epoch <= epoch'[h.name]
               /\ HasActive(h.name)' /\ queue_configs'[h.name].active_group = h.group
               /\ h.epoch = epoch'[h.name]
    <3>1. PICK n \in S : h = ToInject(n)
      BY <2>1 DEF Scanned
    <3>2. h.name = n /\ h.epoch = epoch[n] /\ h.group = GroupToCheck(n)
      BY <3>1 DEF ToInject
    <3> QED BY <2>2, <2>4, <2>5, <3>2
  <2>7. ASSUME NEW n \in Names, HasActive(n)'
        PROVE  \/ queue_configs'[n].active_group.current_packet_index > 0
               \/ \E h \in Hand' : h.name = n
    <3>1. CASE n \in S
      <4>1. ToInject(n) \in Hand' /\ ToInject(n).name = n
        BY <2>1, <3>1 DEF Scanned, ToInject
      <4> QED BY <4>1
    <3>2. CASE n \notin S
      BY <2>1, <2>3, <2>7, <3>2 DEF Scanned, HandInv, HasActive
    <3> QED BY <3>1, <3>2
  <2>8. \A k, l \in DOMAIN groups_to_inject' :
          k # l => groups_to_inject'[k].name # groups_to_inject'[l].name
    BY <2>1 DEF Scanned
  <2> QED BY <2>2, <2>6, <2>7, <2>8 DEF HandInv
<1>5. CASE Inject
  <2>1. UNCHANGED <<queue_configs, groups_to_inject, epoch>> /\ injector' = "write_back"
    BY <1>5 DEF Inject, tables, clientVars
  <2> QED BY <2>1 DEF HandInv, Hand, HasActive
<1>6. CASE WriteBack
  <2> DEFINE h == Head(groups_to_inject)
  <2>1. WrittenBack(h)
    BY <1>6, WriteBackEffect
  <2>2. epoch' = epoch
    BY <1>6 DEF WriteBack, NextInList, clientVars
  <2>3. injector' \in {"idle", "scan"} => groups_to_inject' = <<>>
    <3>1. groups_to_inject' = Tail(groups_to_inject)
          /\ injector' = (IF Len(groups_to_inject) > 1 THEN "inject" ELSE "idle")
      BY <1>6 DEF WriteBack, NextInList
    <3>2. groups_to_inject # <<>> /\ groups_to_inject \in Seq(GroupInHand)
      BY <1>6 DEF WriteBack, TypeOK
    <3>3. Tail(groups_to_inject) \in Seq(GroupInHand)
          /\ Len(Tail(groups_to_inject)) = Len(groups_to_inject) - 1
          /\ Len(groups_to_inject) \in Nat \ {0}
      BY <3>2, HeadTailProperties, EmptySeq
    <3>4. Tail(groups_to_inject) # <<>> => Len(Tail(groups_to_inject)) \in Nat \ {0}
      BY <3>3, EmptySeq
    <3> QED BY <3>1, <3>3, <3>4
  <2> HIDE DEF h
  <2>4. h.name \in Names /\ h.group \in Group
    BY <2>1 DEF WrittenBack, GroupInHand
  <2>5. ASSUME NEW m \in Names, m # h.name
        PROVE  /\ HasActive(m)' <=> HasActive(m)
               /\ HasActive(m) => queue_configs'[m] = queue_configs[m]
    BY <2>1, <2>5 DEF WrittenBack, HasActive
  <2>6. \A g \in Hand' : g \in Hand /\ g.name # h.name /\ g.name \in Names
    BY <2>1, HandType DEF WrittenBack, GroupInHand
  <2>7. ASSUME NEW n \in Names, HasActive(n)'
        PROVE  \/ queue_configs'[n].active_group.current_packet_index > 0
               \/ \E g \in Hand' : g.name = n
    <3>1. CASE n = h.name
      <4>1. HasMore(h)
        BY <2>1, <2>7, <3>1 DEF WrittenBack, HasActive
      <4>2. queue_configs'[n].active_group = Advanced(h)
        BY <2>1, <3>1, <4>1 DEF WrittenBack
      <4>3. Advanced(h).current_packet_index > 0
        BY <2>4 DEF Advanced, Group
      <4> QED BY <4>2, <4>3
    <3>2. CASE n # h.name
      BY <2>1, <2>5, <2>7, <3>2 DEF HandInv, WrittenBack
    <3> QED BY <3>1, <3>2
  <2>8. \A k, l \in DOMAIN groups_to_inject' :
          k # l => groups_to_inject'[k].name # groups_to_inject'[l].name
    BY <2>1 DEF WrittenBack
  <2>9. \A g \in Hand' :
       /\ g.epoch <= epoch'[g.name]
       /\ g.epoch = epoch'[g.name] =>
            HasActive(g.name)' /\ queue_configs'[g.name].active_group = g.group
       /\ g.epoch # epoch'[g.name] => ~HasActive(g.name)'
    BY <2>2, <2>5, <2>6 DEF HandInv
  <2> QED BY <2>3, <2>7, <2>8, <2>9 DEF HandInv
<1> QED BY <1>1, <1>2, <1>3, <1>4, <1>5, <1>6, Steps

--------------------------------------------------------------------------------
(* Queued groups, epochs and records *)

\* Queued groups have not been begun.
FreshInv ==
  \A n \in Names : \A k \in DOMAIN packet_queues[n] :
    packet_queues[n][k].current_packet_index = 0

\* What was taken or injected was so under this registration or an earlier one.
EpochInv ==
  /\ \A p \in DOMAIN accepted : accepted[p].epoch <= epoch[accepted[p].name]
  /\ \A k \in DOMAIN injected : injected[k].epoch <= epoch[injected[k].name]

\* The history record of an entry in hand.
RecordOf(h) ==
  [name |-> h.name, packets |-> h.group.packets,
   index |-> h.group.current_packet_index, at |-> stamped,
   injection_interval_ms |-> h.injection_interval_ms,
   packet_intervals_ms |-> h.packet_intervals_ms,
   epoch |-> h.epoch, since |-> h.since]

\* What is written back is what was injected last.
OutInv ==
  injector = "write_back" =>
    /\ injected # <<>>
    /\ injected[Len(injected)] = RecordOf(Head(groups_to_inject))

\* A packet for n arrives: it joins the incomplete group, which may be queued.
Arrived(n) ==
  LET packets == Append(incomplete_groups[n].packets, Len(accepted) + 1)
  IN  /\ packets \in Seq(Packets)
      /\ accepted' = Append(accepted, [name |-> n, epoch |-> epoch[n]])
      /\ \A m \in Names : m # n => /\ packet_queues'[m] = packet_queues[m]
                                   /\ incomplete_groups'[m] = incomplete_groups[m]
      /\ \/ /\ packet_queues'[n] = packet_queues[n]
            /\ incomplete_groups'[n].packets = packets
         \/ /\ incomplete_groups'[n].packets = <<>>
            /\ \E g \in Group : /\ g.packets = packets
                                /\ g.current_packet_index = 0
                                /\ packet_queues'[n] = Append(packet_queues[n], g)
      /\ UNCHANGED <<clock, queue_configs, injectorVars, epoch>>

\* InjectPacket lets a packet arrive.
LEMMA InjectPacketEffect ==
  ASSUME TypeOK, NEW n \in Names, InjectPacket(n)
  PROVE  Arrived(n)
<1> DEFINE start == IF incomplete_groups[n].packets = <<>> THEN GetTickCount
                    ELSE incomplete_groups[n].start_time_ms
           packets == Append(incomplete_groups[n].packets, Len(accepted) + 1)
           complete == Len(packets) >= queue_configs[n].packet_count
           new == [packets |-> packets, current_packet_index |-> 0,
                   next_packet_time_ms |-> start]
<1>1. packets \in Seq(Packets)
  BY ArrivalType DEF InjectPacket
<1>2. start \in Tick
  BY ModulusType DEF GetTickCount, TypeOK
<1>3. incomplete_groups' = [incomplete_groups EXCEPT ![n] =
         [packets |-> IF complete THEN <<>> ELSE packets, start_time_ms |-> start]]
      /\ packet_queues' = IF ~complete THEN packet_queues
                          ELSE [packet_queues EXCEPT ![n] = Append(@, new)]
  BY DEF InjectPacket
<1>4. accepted' = Append(accepted, [name |-> n, epoch |-> epoch[n]])
      /\ UNCHANGED <<clock, queue_configs, injectorVars, epoch>>
  BY DEF InjectPacket
<1>5. new \in Group /\ new.packets = packets /\ new.current_packet_index = 0
  <2> HIDE DEF start, packets
  <2> QED BY <1>1, <1>2 DEF Group
<1>6. incomplete_groups'[n].packets = (IF complete THEN <<>> ELSE packets)
      /\ packet_queues'[n] = (IF complete THEN Append(packet_queues[n], new)
                              ELSE packet_queues[n])
  <2> HIDE DEF start, packets, complete, new
  <2> QED BY <1>3 DEF TypeOK
<1>7. \A m \in Names : m # n => /\ packet_queues'[m] = packet_queues[m]
                                /\ incomplete_groups'[m] = incomplete_groups[m]
  <2> HIDE DEF start, packets, complete, new
  <2> QED BY <1>3 DEF TypeOK
<1> HIDE DEF complete, new
<1> QED BY <1>1, <1>4, <1>5, <1>6, <1>7 DEF Arrived

\* The packet of the first entry in hand leaves.
Left(h) ==
  /\ h \in Hand /\ h \in GroupInHand /\ h = Head(groups_to_inject)
  /\ RecordOf(h) \in InjectionRecord
  /\ injected' = Append(injected, RecordOf(h))
  /\ injector = "inject" /\ injector' = "write_back"
  /\ UNCHANGED <<clock, tables, current_time_ms, stamped, groups_to_inject, clientVars>>

\* Inject lets the packet of the first entry leave.
LEMMA InjectEffect ==
  ASSUME TypeOK, HandInv, Inject
  PROVE  Left(Head(groups_to_inject))
<1> DEFINE h == Head(groups_to_inject)
<1>1. groups_to_inject # <<>>
  BY DEF Inject, TypeOK
<1>2. h \in Hand /\ h \in GroupInHand
  BY <1>1, HandTail, HandType
<1>3. injected' = Append(injected, RecordOf(h))
  BY DEF Inject, RecordOf
<1>4. /\ injector = "inject" /\ injector' = "write_back"
      /\ UNCHANGED <<clock, tables, current_time_ms, stamped, groups_to_inject, clientVars>>
  BY DEF Inject
<1>5. RecordOf(h) \in InjectionRecord
  <2> HIDE DEF h
  <2> QED BY <1>2 DEF RecordOf, TypeOK, GroupInHand, Group, InjectionRecord
<1> QED BY <1>2, <1>3, <1>4, <1>5 DEF Left

\* Every step keeps FreshInv.
LEMMA FreshStep == TypeOK /\ HandInv /\ FreshInv /\ [Next]_vars => FreshInv'
<1> SUFFICES ASSUME TypeOK, HandInv, FreshInv, [Next]_vars, NEW n \in Names
             PROVE  \A k \in DOMAIN packet_queues'[n] :
                      packet_queues'[n][k].current_packet_index = 0
  BY DEF FreshInv
<1>0. packet_queues[n] \in Seq(Group)
  BY DEF TypeOK
<1>1. CASE UNCHANGED packet_queues
  BY <1>1 DEF FreshInv
<1>2. CASE Command
  <2>1. packet_queues'[n] = packet_queues[n] \/ packet_queues'[n] = <<>>
    BY <1>2, CommandEffect DEF Commanded
  <2> QED BY <2>1 DEF FreshInv
<1>3. ASSUME NEW m \in Names, InjectPacket(m)
      PROVE  \A k \in DOMAIN packet_queues'[n] :
               packet_queues'[n][k].current_packet_index = 0
  <2>1. CASE packet_queues'[n] = packet_queues[n]
    BY <2>1 DEF FreshInv
  <2>2. CASE \E g \in Group : /\ g.current_packet_index = 0
                              /\ packet_queues'[n] = Append(packet_queues[n], g)
    BY <2>2, <1>0, AppendProperties, LenProperties DEF FreshInv
  <2> QED BY <1>3, <2>1, <2>2, InjectPacketEffect DEF Arrived
<1>4. CASE Scan
  <2>1. PICK S \in SUBSET ReadyQueues : Scanned(S)
    BY <1>4, ScanEffect
  <2>2. CASE n \in S /\ ~queue_configs[n].has_active_group
    <3>1. packet_queues'[n] = Tail(packet_queues[n]) /\ packet_queues[n] # <<>>
      BY <2>1, <2>2 DEF Scanned, ReadyQueues, Ready, HasGroup
    <3>2. /\ Tail(packet_queues[n]) \in Seq(Group)
          /\ Len(Tail(packet_queues[n])) = Len(packet_queues[n]) - 1
          /\ \A k \in 1 .. Len(Tail(packet_queues[n])) :
               Tail(packet_queues[n])[k] = packet_queues[n][k + 1]
      BY <1>0, <3>1, HeadTailProperties
    <3> QED BY <1>0, <3>1, <3>2, LenProperties DEF FreshInv
  <2>3. CASE ~(n \in S /\ ~queue_configs[n].has_active_group)
    <3>1. packet_queues'[n] = packet_queues[n]
      BY <2>1, <2>3 DEF Scanned
    <3> QED BY <3>1 DEF FreshInv
  <2> QED BY <2>2, <2>3
<1>5. Quiet \/ Inject \/ WriteBack => UNCHANGED packet_queues
  BY QuietEffect DEF Inject, WriteBack, NextInList, tables
<1> QED BY <1>1, <1>2, <1>3, <1>4, <1>5, Steps

\* The elements of a sequence, by their index.
LEMMA Elements ==
  ASSUME NEW S, NEW s \in Seq(S)
  PROVE  \A i \in DOMAIN s : s[i] \in S
BY LenProperties

\* Every step keeps EpochInv.
LEMMA EpochStep == TypeOK /\ HandInv /\ EpochInv /\ [Next]_vars => EpochInv'
<1> SUFFICES ASSUME TypeOK, HandInv, EpochInv, [Next]_vars
             PROVE  EpochInv'
  OBVIOUS
<1>0. /\ \A p \in DOMAIN accepted : accepted[p].name \in Names /\ accepted[p].epoch \in Nat
      /\ \A k \in DOMAIN injected : injected[k].name \in Names /\ injected[k].epoch \in Nat
      /\ \A n \in Names : epoch[n] \in Nat
  <2>1. \A p \in DOMAIN accepted : accepted[p] \in [name : Names, epoch : Nat]
    <3>1. accepted \in Seq([name : Names, epoch : Nat])
      BY DEF TypeOK
    <3> QED BY <3>1, Elements
  <2>2. \A k \in DOMAIN injected : injected[k] \in InjectionRecord
    BY LenProperties DEF TypeOK
  <2>3. \A n \in Names : epoch[n] \in Nat
    BY DEF TypeOK
  <2> QED BY <2>1, <2>2, <2>3 DEF InjectionRecord
<1>1. CASE UNCHANGED <<accepted, injected, epoch>>
  BY <1>1 DEF EpochInv
<1>2. CASE Command
  <2>1. UNCHANGED <<accepted, injected>>
        /\ \A n \in Names : epoch'[n] \in Nat /\ epoch[n] <= epoch'[n]
    BY <1>0, <1>2, CommandEffect DEF Commanded, injectorVars
  <2> QED BY <1>0, <2>1 DEF EpochInv
<1>3. ASSUME NEW n \in Names, InjectPacket(n)
      PROVE  EpochInv'
  <2>1. /\ accepted' = Append(accepted, [name |-> n, epoch |-> epoch[n]])
        /\ UNCHANGED <<injected, epoch>>
    BY <1>3, InjectPacketEffect DEF Arrived, injectorVars
  <2>2. [name |-> n, epoch |-> epoch[n]] \in [name : Names, epoch : Nat]
        /\ accepted \in Seq([name : Names, epoch : Nat])
    BY <1>0 DEF TypeOK
  <2> DEFINE new == [name |-> n, epoch |-> epoch[n]]
  <2>3. new.epoch <= epoch[new.name]
    BY <1>0
  <2> HIDE DEF new
  <2>4. \A p \in DOMAIN Append(accepted, new) :
          Append(accepted, new)[p].epoch <= epoch[Append(accepted, new)[p].name]
    BY <2>2, <2>3, AppendProperties, LenProperties DEF EpochInv, new
  <2> QED BY <2>1, <2>4 DEF EpochInv, new
<1>4. CASE Inject
  <2> DEFINE h == Head(groups_to_inject)
  <2>1. Left(h)
    BY <1>4, InjectEffect
  <2> HIDE DEF h
  <2>2. /\ injected' = Append(injected, RecordOf(h))
        /\ RecordOf(h) \in InjectionRecord
        /\ injected \in Seq(InjectionRecord)
        /\ UNCHANGED <<accepted, epoch>>
    BY <2>1 DEF Left, clientVars, TypeOK
  <2>3. RecordOf(h).epoch <= epoch[RecordOf(h).name]
    BY <2>1 DEF Left, HandInv, RecordOf
  <2>4. \A k \in DOMAIN Append(injected, RecordOf(h)) :
          Append(injected, RecordOf(h))[k].epoch <= epoch[Append(injected, RecordOf(h))[k].name]
    BY <2>2, <2>3, AppendProperties, LenProperties DEF EpochInv
  <2> QED BY <2>2, <2>4 DEF EpochInv
<1>5. Quiet \/ Scan \/ WriteBack => UNCHANGED <<accepted, injected, epoch>>
  BY QuietEffect DEF Scan, WriteBack, NextInList, clientVars
<1> QED BY <1>1, <1>2, <1>3, <1>4, <1>5, Steps

\* Every step keeps OutInv.
LEMMA OutStep == TypeOK /\ HandInv /\ OutInv /\ [Next]_vars => OutInv'
<1> SUFFICES ASSUME TypeOK, HandInv, OutInv, [Next]_vars, injector' = "write_back"
             PROVE  injected' # <<>> /\ injected'[Len(injected')] = RecordOf(Head(groups_to_inject))'
  BY DEF OutInv
<1>1. CASE Inject
  <2> DEFINE h == Head(groups_to_inject)
  <2>1. Left(h)
    BY <1>1, InjectEffect
  <2>2. RecordOf(Head(groups_to_inject))' = RecordOf(h)
    BY <2>1 DEF Left, RecordOf
  <2> HIDE DEF h
  <2> QED BY <2>1, <2>2, AppendProperties DEF Left, TypeOK
<1>2. CASE injector = "write_back" /\ UNCHANGED <<groups_to_inject, injected, stamped>>
  BY <1>2 DEF OutInv, RecordOf
<1>3. Quiet => injector = "write_back" /\ UNCHANGED <<groups_to_inject, injected, stamped>>
  <2>1. Stamp => injector' = "inject"
    BY DEF Stamp
  <2>2. Quiet /\ ~Stamp => UNCHANGED stamped
    BY DEF Quiet, TimePasses, TimerFires, ScanNothingReady, vars, injectorVars
  <2> QED BY <2>1, <2>2, QuietEffect
<1>4. Command => injector = "write_back" /\ UNCHANGED <<groups_to_inject, injected, stamped>>
  BY CommandEffect DEF Commanded, injectorVars
<1>5. ASSUME NEW n \in Names
      PROVE  InjectPacket(n) =>
               injector = "write_back" /\ UNCHANGED <<groups_to_inject, injected, stamped>>
  BY DEF InjectPacket, injectorVars
<1>6. ~Scan /\ ~WriteBack
  BY DEF Scan, WriteBack, NextInList
<1> QED BY <1>1, <1>2, <1>3, <1>4, <1>5, <1>6, Steps

--------------------------------------------------------------------------------
(* Nothing is lost *)

\* What is put behind a sequence is in it, and so is all that was.
LEMMA ToSetAppend ==
  ASSUME NEW S, NEW s \in Seq(S), NEW e \in S
  PROVE  /\ ToSet(s) \subseteq ToSet(Append(s, e))
         /\ e \in ToSet(Append(s, e))
BY AppendProperties, LenProperties DEF ToSet

\* A sequence is its first element and the rest.
LEMMA ToSetTail ==
  ASSUME NEW S, NEW s \in Seq(S), s # <<>>
  PROVE  ToSet(s) = {Head(s)} \cup ToSet(Tail(s))
<1>1. Len(s) \in Nat \ {0} /\ DOMAIN s = 1 .. Len(s)
  BY EmptySeq, LenProperties
<1>2. /\ Tail(s) \in Seq(S) /\ Len(Tail(s)) = Len(s) - 1
      /\ \A i \in 1 .. Len(Tail(s)) : Tail(s)[i] = s[i + 1]
  BY HeadTailProperties
<1>3. DOMAIN Tail(s) = 1 .. Len(s) - 1
  BY <1>2, LenProperties
<1>4. Head(s) = s[1]
  BY HeadTailProperties
<1>5. \A i \in DOMAIN s : i # 1 => i - 1 \in DOMAIN Tail(s) /\ Tail(s)[i - 1] = s[i]
  BY <1>1, <1>2, <1>3
<1>6. \A i \in DOMAIN Tail(s) : i + 1 \in DOMAIN s /\ Tail(s)[i] = s[i + 1]
  BY <1>1, <1>2, <1>3
<1>7. 1 \in DOMAIN s
  BY <1>1
<1>8. ASSUME NEW x \in ToSet(s)
      PROVE  x \in {Head(s)} \cup ToSet(Tail(s))
  BY <1>4, <1>5 DEF ToSet
<1>9. ASSUME NEW x \in ToSet(Tail(s))
      PROVE  x \in ToSet(s)
  BY <1>6 DEF ToSet
<1>10. Head(s) \in ToSet(s)
  BY <1>4, <1>7 DEF ToSet
<1> QED BY <1>8, <1>9, <1>10

LastPending(g) == {g.packets[i] : i \in g.current_packet_index + 1 .. Len(g.packets)}

\* What it is for a packet to be pending.
LEMMA InPending ==
  ASSUME NEW n, NEW p
  PROVE  p \in Pending(n) <=>
           \/ p \in ToSet(incomplete_groups[n].packets)
           \/ \E g \in ToSet(packet_queues[n]) : p \in ToSet(g.packets)
           \/ HasActive(n) /\ p \in LastPending(queue_configs[n].active_group)
<1>1. CASE HasActive(n)
  <2>1. Pending(n) = ToSet(incomplete_groups[n].packets)
                     \cup (UNION {ToSet(g.packets) : g \in ToSet(packet_queues[n])})
                     \cup LastPending(queue_configs[n].active_group)
    BY <1>1 DEF Pending, HasActive, LastPending
  <2>2. p \in UNION {ToSet(g.packets) : g \in ToSet(packet_queues[n])}
          <=> \E g \in ToSet(packet_queues[n]) : p \in ToSet(g.packets)
    OBVIOUS
  <2>3. p \in Pending(n) <=>
          \/ p \in ToSet(incomplete_groups[n].packets)
          \/ p \in UNION {ToSet(g.packets) : g \in ToSet(packet_queues[n])}
          \/ p \in LastPending(queue_configs[n].active_group)
    BY <2>1
  <2> QED BY <1>1, <2>2, <2>3
<1>2. CASE ~HasActive(n)
  <2>1. Pending(n) = ToSet(incomplete_groups[n].packets)
                     \cup (UNION {ToSet(g.packets) : g \in ToSet(packet_queues[n])})
    BY <1>2 DEF Pending, HasActive
  <2> QED BY <1>2, <2>1
<1> QED BY <1>1, <1>2

\* What it is for a packet to be pending after a step.
LEMMA InPendingNext ==
  ASSUME NEW n, NEW p
  PROVE  p \in Pending(n)' <=>
           \/ p \in ToSet(incomplete_groups'[n].packets)
           \/ \E g \in ToSet(packet_queues'[n]) : p \in ToSet(g.packets)
           \/ HasActive(n)' /\ p \in LastPending(queue_configs'[n].active_group)
<1>1. CASE HasActive(n)'
  <2>1. Pending(n)' = ToSet(incomplete_groups'[n].packets)
                      \cup (UNION {ToSet(g.packets) : g \in ToSet(packet_queues'[n])})
                      \cup LastPending(queue_configs'[n].active_group)
    BY <1>1 DEF Pending, HasActive, LastPending
  <2>2. p \in UNION {ToSet(g.packets) : g \in ToSet(packet_queues'[n])}
          <=> \E g \in ToSet(packet_queues'[n]) : p \in ToSet(g.packets)
    OBVIOUS
  <2>3. p \in Pending(n)' <=>
          \/ p \in ToSet(incomplete_groups'[n].packets)
          \/ p \in UNION {ToSet(g.packets) : g \in ToSet(packet_queues'[n])}
          \/ p \in LastPending(queue_configs'[n].active_group)
    BY <2>1
  <2> QED BY <1>1, <2>2, <2>3
<1>2. CASE ~HasActive(n)'
  <2>1. Pending(n)' = ToSet(incomplete_groups'[n].packets)
                      \cup (UNION {ToSet(g.packets) : g \in ToSet(packet_queues'[n])})
    BY <1>2 DEF Pending, HasActive
  <2> QED BY <1>2, <2>1
<1> QED BY <1>1, <1>2

\* Every step keeps NothingLost.
LEMMA LostStep ==
  ASSUME TypeOK, HandInv, FreshInv, EpochInv, OutInv, NothingLost, [Next]_vars
  PROVE  NothingLost'
<1> SUFFICES ASSUME NEW p \in DOMAIN accepted', NEW n \in Names, n = accepted'[p].name,
                    epoch'[n] = accepted'[p].epoch
             PROVE  p \in InjectedPackets' \/ p \in Pending(n)'
  <2>1. accepted' \in Seq([name : Names, epoch : Nat])
    BY TypeStep DEF TypeOK
  <2>2. \A p \in DOMAIN accepted' : accepted'[p].name \in Names
    <3>1. \A p \in DOMAIN accepted' : accepted'[p] \in [name : Names, epoch : Nat]
      BY <2>1, Elements
    <3> QED BY <3>1
  <2> QED BY <2>2 DEF NothingLost
<1>1. accepted \in Seq([name : Names, epoch : Nat]) /\ epoch[n] \in Nat
  BY DEF TypeOK
<1>2. ASSUME accepted' = accepted, epoch'[n] = epoch[n]
      PROVE  p \in InjectedPackets \/ p \in Pending(n)
  BY <1>2 DEF NothingLost
<1>3. CASE Quiet
  <2>1. InjectedPackets' = InjectedPackets /\ Pending(n)' = Pending(n)
    BY <1>3, QuietEffect DEF InjectedPackets, Pending
  <2> QED BY <1>2, <1>3, <2>1, QuietEffect
<1>4. CASE Command
  <2>1. PICK S \in SUBSET Names : Commanded(S)
    BY <1>4, CommandEffect
  <2>2. accepted' = accepted /\ injected' = injected
    BY <2>1 DEF Commanded, injectorVars
  <2>3. n \notin S
    <3>1. accepted[p].epoch <= epoch[n] /\ accepted[p].epoch \in Nat
      <4>1. p \in DOMAIN accepted /\ n = accepted[p].name
        BY <2>2
      <4>2. accepted[p] \in [name : Names, epoch : Nat]
        BY <1>1, <4>1, Elements
      <4> QED BY <4>1, <4>2 DEF EpochInv
    <3>2. n \in S => epoch'[n] = epoch[n] + 1
      BY <2>1 DEF Commanded
    <3> QED BY <1>1, <2>2, <3>1, <3>2
  <2>4. /\ epoch'[n] = epoch[n]
        /\ packet_queues'[n] = packet_queues[n]
        /\ incomplete_groups'[n] = incomplete_groups[n]
        /\ HasActive(n)' <=> HasActive(n)
        /\ HasActive(n) => queue_configs'[n] = queue_configs[n]
    BY <2>1, <2>3 DEF Commanded, HasActive
  <2>5. p \in InjectedPackets \/ p \in Pending(n)
    BY <1>2, <2>2, <2>4
  <2>6. InjectedPackets' = InjectedPackets
    BY <2>2 DEF InjectedPackets
  <2> QED BY <2>4, <2>5, <2>6, InPending, InPendingNext
<1>5. ASSUME NEW m \in Names, InjectPacket(m)
      PROVE  p \in InjectedPackets' \/ p \in Pending(n)'
  <2>1. Arrived(m)
    BY <1>5, InjectPacketEffect
  <2> DEFINE packets == Append(incomplete_groups[m].packets, Len(accepted) + 1)
  <2>2. UNCHANGED <<queue_configs, injected, epoch>>
    BY <2>1 DEF Arrived, injectorVars
  <2>3. ASSUME NEW q \in ToSet(packets), m = n
        PROVE  q \in Pending(n)'
    <3>1. CASE incomplete_groups'[n].packets = packets
      BY <2>3, <3>1, InPendingNext
    <3>2. CASE \E g \in Group : g.packets = packets
                                /\ packet_queues'[n] = Append(packet_queues[n], g)
      <4>1. packet_queues[n] \in Seq(Group)
        BY DEF TypeOK
      <4>2. \E g \in ToSet(packet_queues'[n]) : g.packets = packets
        BY <3>2, <4>1, ToSetAppend
      <4> QED BY <2>3, <4>2, InPendingNext
    <3> QED BY <2>1, <2>3, <3>1, <3>2 DEF Arrived
  <2>4. incomplete_groups[m].packets \in Seq(Packets) /\ Len(accepted) + 1 \in Packets
    <3>1. incomplete_groups[m].packets \in Seq(Packets)
      BY DEF TypeOK
    <3>2. Len(accepted) < MaxPackets /\ Len(accepted) \in Nat
      BY <1>1, <1>5, LenProperties DEF InjectPacket
    <3> QED BY <3>1, <3>2, BoundsAssumption DEF Packets
  <2>5. accepted' = Append(accepted, [name |-> m, epoch |-> epoch[m]])
    BY <2>1 DEF Arrived
  <2>6. /\ DOMAIN accepted' = 1 .. Len(accepted) + 1
        /\ \A q \in 1 .. Len(accepted) : accepted'[q] = accepted[q]
        /\ accepted'[Len(accepted) + 1].name = m
    <3>1. [name |-> m, epoch |-> epoch[m]] \in [name : Names, epoch : Nat]
      BY DEF TypeOK
    <3> QED BY <1>1, <2>5, <3>1, AppendProperties, LenProperties
  <2>7. CASE p = Len(accepted) + 1
    <3>1. p \in ToSet(packets) /\ m = n
      BY <2>4, <2>6, <2>7, ToSetAppend
    <3> QED BY <2>3, <3>1
  <2>8. CASE p # Len(accepted) + 1
    <3>1. p \in DOMAIN accepted /\ accepted'[p] = accepted[p]
      BY <1>1, <2>6, <2>8, LenProperties
    <3>2. p \in InjectedPackets \/ p \in Pending(n)
      BY <2>2, <3>1 DEF NothingLost
    <3>3. InjectedPackets' = InjectedPackets
      BY <2>2 DEF InjectedPackets
    <3>4. ASSUME p \in Pending(n)
          PROVE  p \in Pending(n)'
      <4>1. CASE p \in ToSet(incomplete_groups[n].packets) /\ m = n
        BY <2>3, <2>4, <4>1, ToSetAppend
      <4>2. CASE p \in ToSet(incomplete_groups[n].packets) /\ m # n
        BY <2>1, <4>2, InPendingNext DEF Arrived
      <4>3. CASE \E g \in ToSet(packet_queues[n]) : p \in ToSet(g.packets)
        <5>1. ToSet(packet_queues[n]) \subseteq ToSet(packet_queues'[n])
          <6>1. packet_queues[n] \in Seq(Group)
            BY DEF TypeOK
          <6>2. \/ packet_queues'[n] = packet_queues[n]
                \/ \E g \in Group : packet_queues'[n] = Append(packet_queues[n], g)
            BY <2>1 DEF Arrived
          <6> QED BY <6>1, <6>2, ToSetAppend
        <5> QED BY <4>3, <5>1, InPendingNext
      <4>4. CASE HasActive(n) /\ p \in LastPending(queue_configs[n].active_group)
        <5>1. HasActive(n)' /\ queue_configs'[n] = queue_configs[n]
          BY <2>2, <4>4 DEF HasActive
        <5> QED BY <4>4, <5>1, InPendingNext
      <4> QED BY <3>4, <4>1, <4>2, <4>3, <4>4, InPending
    <3> QED BY <3>2, <3>3, <3>4
  <2> QED BY <2>7, <2>8
<1>6. CASE Scan
  <2>1. PICK S \in SUBSET ReadyQueues : Scanned(S)
    BY <1>6, ScanEffect
  <2>2. UNCHANGED <<accepted, epoch, injected, incomplete_groups>>
    BY <1>6 DEF Scan, clientVars
  <2>3. InjectedPackets' = InjectedPackets
    BY <2>2 DEF InjectedPackets
  <2>4. ASSUME p \in Pending(n)
        PROVE  p \in Pending(n)'
    <3>1. CASE n \notin S
      <4>1. /\ packet_queues'[n] = packet_queues[n]
            /\ HasActive(n)' <=> HasActive(n)
            /\ HasActive(n) => queue_configs'[n] = queue_configs[n]
        BY <2>1, <3>1 DEF Scanned, HasActive
      <4> QED BY <2>2, <2>4, <4>1, InPending, InPendingNext
    <3>2. CASE n \in S
      <4>1. n \in Known /\ HasGroup(n) /\ queue_configs[n] \in QueueConfig
            /\ packet_queues[n] \in Seq(Group)
        BY <3>2 DEF ReadyQueues, Ready, TypeOK
      <4>2. HasActive(n)' /\ queue_configs'[n].active_group = GroupToCheck(n)
        BY <2>1, <3>2, <4>1 DEF Scanned, HasActive, QueueConfig
      <4>3. CASE queue_configs[n].has_active_group
        <5>1. /\ GroupToCheck(n) = queue_configs[n].active_group
              /\ packet_queues'[n] = packet_queues[n]
          BY <2>1, <4>3 DEF GroupToCheck, Scanned
        <5> QED BY <2>2, <2>4, <4>2, <5>1, InPending, InPendingNext
      <4>4. CASE ~queue_configs[n].has_active_group
        <5>1. /\ GroupToCheck(n) = Head(packet_queues[n])
              /\ packet_queues'[n] = Tail(packet_queues[n])
              /\ packet_queues[n] # <<>>
          BY <2>1, <3>2, <4>1, <4>4 DEF GroupToCheck, Scanned, HasGroup
        <5>2. ToSet(packet_queues[n])
                = {Head(packet_queues[n])} \cup ToSet(Tail(packet_queues[n]))
          BY <4>1, <5>1, ToSetTail
        <5>3. ToSet(Head(packet_queues[n]).packets) = LastPending(Head(packet_queues[n]))
          <6>1. Head(packet_queues[n]) \in Group /\ Head(packet_queues[n]) = packet_queues[n][1]
            BY <4>1, <5>1, HeadTailProperties
          <6>2. 1 \in DOMAIN packet_queues[n]
            BY <4>1, <5>1, EmptySeq, LenProperties
          <6>3. Head(packet_queues[n]).current_packet_index = 0
            BY <6>1, <6>2 DEF FreshInv
          <6>4. DOMAIN Head(packet_queues[n]).packets = 1 .. Len(Head(packet_queues[n]).packets)
            BY <6>1, LenProperties DEF Group
          <6> QED BY <6>3, <6>4 DEF ToSet, LastPending
        <5>4. ~HasActive(n)
          BY <4>4 DEF HasActive
        <5> QED BY <2>2, <2>4, <4>2, <5>1, <5>2, <5>3, <5>4, InPending, InPendingNext
      <4> QED BY <4>3, <4>4
    <3> QED BY <3>1, <3>2
  <2> QED BY <1>2, <2>2, <2>3, <2>4
<1>7. CASE Inject
  <2> DEFINE h == Head(groups_to_inject)
  <2>1. Left(h)
    BY <1>7, InjectEffect
  <2> HIDE DEF h
  <2>2. /\ injected' = Append(injected, RecordOf(h)) /\ RecordOf(h) \in InjectionRecord
        /\ injected \in Seq(InjectionRecord)
    BY <2>1 DEF Left, TypeOK
  <2>3. InjectedPackets \subseteq InjectedPackets'
    <3>1. /\ DOMAIN injected \subseteq DOMAIN injected'
          /\ \A k \in DOMAIN injected : injected'[k] = injected[k]
      BY <2>2, AppendProperties, LenProperties
    <3> QED BY <3>1 DEF InjectedPackets
  <2>4. UNCHANGED <<accepted, epoch>> /\ Pending(n)' = Pending(n)
    BY <2>1 DEF Left, clientVars, tables, Pending
  <2> QED BY <1>2, <2>3, <2>4
<1>8. CASE WriteBack
  <2> DEFINE h == Head(groups_to_inject)
  <2>1. WrittenBack(h)
    BY <1>8, WriteBackEffect
  <2>2. UNCHANGED <<accepted, epoch, injected, packet_queues, incomplete_groups>>
    BY <1>8 DEF WriteBack, NextInList, clientVars
  <2>3. InjectedPackets' = InjectedPackets
    BY <2>2 DEF InjectedPackets
  <2>4. PacketOf(RecordOf(h)) \in InjectedPackets
    <3>1. injector = "write_back"
      BY <1>8 DEF WriteBack
    <3>2. injected \in Seq(InjectionRecord) /\ injected # <<>>
          /\ injected[Len(injected)] = RecordOf(h)
      BY <3>1 DEF OutInv, TypeOK
    <3>3. Len(injected) \in DOMAIN injected
      BY <3>2, EmptySeq, LenProperties
    <3> QED BY <3>2, <3>3 DEF InjectedPackets
  <2>5. h.group \in Group
    BY <2>1 DEF WrittenBack, GroupInHand
  <2>6. PacketOf(RecordOf(h)) = h.group.packets[h.group.current_packet_index + 1]
    BY DEF PacketOf, RecordOf
  <2> HIDE DEF h
  <2>7. ASSUME p \in Pending(n)
        PROVE  p \in InjectedPackets \/ p \in Pending(n)'
    <3>1. CASE n # h.name
      <4>1. /\ HasActive(n)' <=> HasActive(n)
            /\ HasActive(n) => queue_configs'[n] = queue_configs[n]
        BY <2>1, <3>1 DEF WrittenBack, HasActive
      <4> QED BY <2>2, <2>7, <4>1, InPending, InPendingNext
    <3>2. CASE n = h.name /\ ~HasActive(n)
      BY <2>2, <2>7, <3>2, InPending, InPendingNext
    <3>3. CASE n = h.name /\ HasActive(n)
      <4>1. queue_configs[n].active_group = h.group
        BY <2>1, <3>3 DEF WrittenBack, HandInv
      <4>2. ASSUME p \in LastPending(h.group), p # PacketOf(RecordOf(h))
            PROVE  p \in Pending(n)'
        <5>1. PICK i \in h.group.current_packet_index + 1 .. Len(h.group.packets) :
                p = h.group.packets[i]
          BY <4>2 DEF LastPending
        <5>2. i # h.group.current_packet_index + 1
          BY <2>6, <4>2, <5>1
        <5>3. h.group.current_packet_index \in Nat /\ Len(h.group.packets) \in Nat
          BY <2>5, LenProperties DEF Group
        <5>4. HasMore(h) /\ i \in h.group.current_packet_index + 1 + 1 .. Len(h.group.packets)
          BY <5>1, <5>2, <5>3 DEF HasMore
        <5>5. HasActive(n)' /\ queue_configs'[n].active_group = Advanced(h)
          BY <2>1, <3>3, <5>4 DEF WrittenBack, HasActive
        <5>6. /\ Advanced(h).packets = h.group.packets
              /\ Advanced(h).current_packet_index = h.group.current_packet_index + 1
          BY <2>5 DEF Advanced, Group
        <5>7. p \in LastPending(Advanced(h))
          BY <5>1, <5>4, <5>6 DEF LastPending
        <5> QED BY <5>5, <5>7, InPendingNext
      <4> QED BY <2>2, <2>4, <2>7, <3>3, <4>1, <4>2, InPending, InPendingNext
    <3> QED BY <3>1, <3>2, <3>3
  <2> QED BY <1>2, <2>2, <2>3, <2>7
<1> QED BY <1>3, <1>4, <1>5, <1>6, <1>7, <1>8, Steps

--------------------------------------------------------------------------------
(* The group being injected *)

\* The group of n that is being injected, in hand, active or both; at most one.
CurrentGroups(n) ==
  {h.group : h \in {g \in Hand : g.name = n}}
  \cup (IF HasActive(n) THEN {queue_configs[n].active_group} ELSE {})

\* How many packets of it have been injected.
Gone(n, g) == g.current_packet_index + (IF IsOut(n) THEN 1 ELSE 0)

\* A current group has its type.
LEMMA CurrentType ==
  ASSUME TypeOK, NEW n \in Names
  PROVE  CurrentGroups(n) \subseteq Group
<1>1. \A h \in Hand : h.group \in Group
  BY HandType DEF GroupInHand
<1>2. HasActive(n) => queue_configs[n].active_group \in Group
  BY DEF HasActive, TypeOK, QueueConfig
<1> QED BY <1>1, <1>2 DEF CurrentGroups

\* An entry in hand is all there is of its queue's current group.
LEMMA InHandIsCurrent ==
  ASSUME TypeOK, HandInv, NEW h \in Hand
  PROVE  CurrentGroups(h.name) = {h.group}
<1>1. \A g \in Hand : g.name = h.name => g = h
  BY DEF HandInv, Hand
<1>2. HasActive(h.name) => queue_configs[h.name].active_group = h.group
  BY DEF HandInv
<1> QED BY <1>1, <1>2 DEF CurrentGroups

\* A command forgets active groups and leaves the rest.
LEMMA CurrentCommanded ==
  ASSUME TypeOK, HandInv, NEW S \in SUBSET Names, Commanded(S), NEW n \in Names
  PROVE  /\ CurrentGroups(n)' \subseteq CurrentGroups(n)
         /\ n \notin S => CurrentGroups(n)' = CurrentGroups(n)
         /\ \A g : Gone(n, g)' = Gone(n, g)
<1>1. Hand' = Hand /\ \A g : Gone(n, g)' = Gone(n, g)
  BY DEF Commanded, injectorVars, Hand, Gone, IsOut
<1>2. HasActive(n)' => HasActive(n) /\ queue_configs'[n] = queue_configs[n]
  BY DEF Commanded, HasActive
<1>3. n \notin S => /\ HasActive(n)' <=> HasActive(n)
                    /\ HasActive(n) => queue_configs'[n] = queue_configs[n]
  BY DEF Commanded, HasActive
<1> QED BY <1>1, <1>2, <1>3 DEF CurrentGroups

\* A scan makes the first group of a queue it serves the current one.
LEMMA CurrentScanned ==
  ASSUME TypeOK, HandInv, Scan, NEW S \in SUBSET ReadyQueues, Scanned(S), NEW n \in Names
  PROVE  /\ n \in S => CurrentGroups(n)' = {GroupToCheck(n)}
         /\ n \notin S => CurrentGroups(n)' = CurrentGroups(n)
         /\ CurrentGroups(n) = IF HasActive(n) THEN {queue_configs[n].active_group} ELSE {}
         /\ \A g : Gone(n, g) = g.current_packet_index + 0
         /\ \A g : Gone(n, g)' = g.current_packet_index + 0
<1>1. injector = "scan" /\ injector' = "stamp" /\ Hand = {}
  <2>1. injector = "scan" /\ injector' = "stamp"
    BY DEF Scan
  <2>2. groups_to_inject = <<>>
    BY <2>1 DEF HandInv
  <2> QED BY <2>1, <2>2 DEF Hand
<1>2. \A g : /\ Gone(n, g) = g.current_packet_index + 0
             /\ Gone(n, g)' = g.current_packet_index + 0
  BY <1>1 DEF Gone, IsOut
<1>3. \A m \in S : m \in Known /\ queue_configs[m] \in QueueConfig
  BY DEF ReadyQueues, TypeOK
<1>4. Hand' = {ToInject(m) : m \in S}
  BY DEF Scanned
<1>5. \A m : ToInject(m).name = m /\ ToInject(m).group = GroupToCheck(m)
  BY DEF ToInject
<1>6. CASE n \in S
  <2>1. HasActive(n)' /\ queue_configs'[n].active_group = GroupToCheck(n)
    BY <1>3, <1>6 DEF Scanned, HasActive, QueueConfig
  <2>2. {h.group : h \in {g \in Hand' : g.name = n}} = {GroupToCheck(n)}
    BY <1>4, <1>5, <1>6
  <2>3. CurrentGroups(n)' = {GroupToCheck(n)}
    BY <2>1, <2>2 DEF CurrentGroups
  <2> QED BY <1>1, <1>2, <1>6, <2>3 DEF CurrentGroups
<1>7. CASE n \notin S
  <2>1. /\ HasActive(n)' <=> HasActive(n)
        /\ HasActive(n) => queue_configs'[n] = queue_configs[n]
    BY <1>7 DEF Scanned, HasActive
  <2>2. {h.group : h \in {g \in Hand' : g.name = n}} = {}
    BY <1>4, <1>5, <1>7
  <2>3. {h.group : h \in {g \in Hand : g.name = n}} = {}
    BY <1>1
  <2> QED BY <1>2, <1>7, <2>1, <2>2, <2>3 DEF CurrentGroups
<1> QED BY <1>6, <1>7

\* The injection of a packet leaves the groups and counts the packet.
LEMMA CurrentLeft ==
  ASSUME TypeOK, HandInv, NEW h, Left(h), NEW n \in Names
  PROVE  /\ CurrentGroups(n)' = CurrentGroups(n)
         /\ \A g : Gone(n, g) = g.current_packet_index + 0
         /\ \A g : Gone(n, g)' = g.current_packet_index + (IF n = h.name THEN 1 ELSE 0)
<1>1. CurrentGroups(n)' = CurrentGroups(n)
  BY DEF Left, tables, CurrentGroups, Hand, HasActive
<1>2. ~IsOut(n)
  BY DEF Left, IsOut
<1>3. IsOut(n)' <=> n = h.name
  BY DEF Left, IsOut
<1> QED BY <1>1, <1>2, <1>3 DEF Gone

\* The write-back replaces the group by its advanced form, or forgets it.
LEMMA CurrentWrittenBack ==
  ASSUME TypeOK, HandInv, WriteBack, NEW n \in Names
  PROVE  LET h == Head(groups_to_inject)
         IN  /\ n # h.name => CurrentGroups(n)' = CurrentGroups(n)
             /\ n # h.name => \A g : Gone(n, g) = g.current_packet_index + 0
             /\ n = h.name => CurrentGroups(n) = {h.group}
             /\ n = h.name => CurrentGroups(n)' =
                  IF HasActive(n) /\ HasMore(h) THEN {Advanced(h)} ELSE {}
             /\ n = h.name => \A g : Gone(n, g) = g.current_packet_index + 1
             /\ \A g : Gone(n, g)' = g.current_packet_index + 0
<1> DEFINE h == Head(groups_to_inject)
<1>1. WrittenBack(h)
  BY WriteBackEffect
<1>2. injector = "write_back" /\ injector' # "write_back"
  BY DEF WriteBack, NextInList
<1>3. /\ \A g : Gone(n, g)' = g.current_packet_index + 0
      /\ n # h.name => \A g : Gone(n, g) = g.current_packet_index + 0
      /\ n = h.name => \A g : Gone(n, g) = g.current_packet_index + 1
  BY <1>2 DEF Gone, IsOut
<1> HIDE DEF h
<1>4. CASE n # h.name
  <2>1. {g \in Hand' : g.name = n} = {g \in Hand : g.name = n}
    BY <1>1, <1>4 DEF WrittenBack
  <2>2. /\ HasActive(n)' <=> HasActive(n)
        /\ HasActive(n) => queue_configs'[n] = queue_configs[n]
    BY <1>1, <1>4 DEF WrittenBack, HasActive
  <2>3. CurrentGroups(n)' = CurrentGroups(n)
    BY <2>1, <2>2 DEF CurrentGroups
  <2> QED BY <1>3, <1>4, <2>3 DEF h
<1>5. CASE n = h.name
  <2>1. {g \in Hand' : g.name = n} = {}
    BY <1>1, <1>5 DEF WrittenBack
  <2>2. /\ HasActive(n)' <=> HasActive(n) /\ HasMore(h)
        /\ HasMore(h) => queue_configs'[n].active_group = Advanced(h)
    BY <1>1, <1>5 DEF WrittenBack, HasActive
  <2>3. CurrentGroups(n)' = IF HasActive(n) /\ HasMore(h) THEN {Advanced(h)} ELSE {}
    BY <2>1, <2>2 DEF CurrentGroups
  <2>4. CurrentGroups(n) = {h.group}
    BY <1>1, <1>5, InHandIsCurrent DEF WrittenBack
  <2> QED BY <1>3, <1>5, <2>3, <2>4 DEF h
<1> QED BY <1>4, <1>5 DEF h

\* Steps that leave the injector's list and the configurations leave the groups.
LEMMA CurrentSame ==
  ASSUME TypeOK, NEW n \in Names,
         UNCHANGED <<queue_configs, groups_to_inject>>,
         injector' = "write_back" <=> injector = "write_back"
  PROVE  CurrentGroups(n)' = CurrentGroups(n) /\ \A g : Gone(n, g)' = Gone(n, g)
BY DEF CurrentGroups, Hand, HasActive, Gone, IsOut

--------------------------------------------------------------------------------
(* The order of arrival *)

Increasing(s) == \A i, j \in DOMAIN s : i < j => s[i] < s[j]

\* p came before all that waits for n.
Ahead(n, p) ==
  /\ p <= Len(accepted)
  /\ \A k \in DOMAIN packet_queues[n] : \A i \in DOMAIN packet_queues[n][k].packets :
       p < packet_queues[n][k].packets[i]
  /\ \A i \in DOMAIN incomplete_groups[n].packets : p < incomplete_groups[n].packets[i]

\* What waits for n does so in the order it came.
WaitingOrder(n) ==
  /\ Increasing(incomplete_groups[n].packets)
  /\ \A i \in DOMAIN incomplete_groups[n].packets :
       incomplete_groups[n].packets[i] <= Len(accepted)
  /\ \A k \in DOMAIN packet_queues[n] :
       /\ Increasing(packet_queues[n][k].packets)
       /\ \A i \in DOMAIN packet_queues[n][k].packets :
            /\ packet_queues[n][k].packets[i] <= Len(accepted)
            /\ \A l \in DOMAIN packet_queues[n] : k < l =>
                 \A j \in DOMAIN packet_queues[n][l].packets :
                   packet_queues[n][k].packets[i] < packet_queues[n][l].packets[j]
            /\ \A j \in DOMAIN incomplete_groups[n].packets :
                 packet_queues[n][k].packets[i] < incomplete_groups[n].packets[j]

\* The group being injected is ahead of what waits, and what is left of it is
\* behind what was injected.
CurrentOrder(n) ==
  \A g \in CurrentGroups(n) :
    /\ Increasing(g.packets)
    /\ \A i \in DOMAIN g.packets : Ahead(n, g.packets[i])
    /\ \A k \in DOMAIN injected : injected[k].name = n =>
         \A i \in Gone(n, g) + 1 .. Len(g.packets) :
           PacketOf(injected[k]) < g.packets[i]

InjectedOrder(n) ==
  \A k \in DOMAIN injected : injected[k].name = n =>
    PacketOf(injected[k]) \in Packets /\ Ahead(n, PacketOf(injected[k]))

ArrivalInv == \A n \in Names : WaitingOrder(n) /\ CurrentOrder(n) /\ InjectedOrder(n)

\* The first group of a queue is taken from it.
LEMMA QueueTail ==
  ASSUME TypeOK, NEW S \in SUBSET ReadyQueues, Scanned(S), NEW n \in Names
  PROVE  \/ packet_queues'[n] = packet_queues[n]
         \/ /\ n \in S /\ ~HasActive(n) /\ GroupToCheck(n) = packet_queues[n][1]
            /\ 1 \in DOMAIN packet_queues[n]
            /\ \A k \in DOMAIN packet_queues'[n] :
                 k + 1 \in DOMAIN packet_queues[n] /\ packet_queues'[n][k] = packet_queues[n][k + 1]
<1>1. CASE n \in S /\ ~queue_configs[n].has_active_group
  <2>1. packet_queues'[n] = Tail(packet_queues[n]) /\ packet_queues[n] # <<>>
        /\ packet_queues[n] \in Seq(Group) /\ GroupToCheck(n) = Head(packet_queues[n])
    BY <1>1 DEF Scanned, ReadyQueues, Ready, HasGroup, GroupToCheck, TypeOK
  <2>2. Head(packet_queues[n]) = packet_queues[n][1]
        /\ Len(packet_queues[n]) \in Nat \ {0}
        /\ DOMAIN packet_queues[n] = 1 .. Len(packet_queues[n])
    BY <2>1, HeadTailProperties, EmptySeq, LenProperties
  <2>3. /\ Tail(packet_queues[n]) \in Seq(Group)
        /\ Len(Tail(packet_queues[n])) = Len(packet_queues[n]) - 1
        /\ \A k \in 1 .. Len(Tail(packet_queues[n])) :
             Tail(packet_queues[n])[k] = packet_queues[n][k + 1]
    BY <2>1, HeadTailProperties
  <2>4. DOMAIN Tail(packet_queues[n]) = 1 .. Len(packet_queues[n]) - 1
    BY <2>3, LenProperties
  <2> QED BY <1>1, <2>1, <2>2, <2>3, <2>4 DEF HasActive
<1>2. CASE ~(n \in S /\ ~queue_configs[n].has_active_group)
  BY <1>2 DEF Scanned
<1> QED BY <1>1, <1>2

\* The packets are the incomplete group of n now, or the last group of its queue.
Joined(n, packets) ==
  \/ /\ packet_queues'[n] = packet_queues[n]
     /\ incomplete_groups'[n].packets = packets
  \/ /\ incomplete_groups'[n].packets = <<>>
     /\ DOMAIN packet_queues'[n] = DOMAIN packet_queues[n] \cup {Len(packet_queues[n]) + 1}
     /\ DOMAIN packet_queues[n] = 1 .. Len(packet_queues[n])
     /\ Len(packet_queues[n]) \in Nat
     /\ \A k \in DOMAIN packet_queues[n] : packet_queues'[n][k] = packet_queues[n][k]
     /\ packet_queues'[n][Len(packet_queues[n]) + 1].packets = packets

\* What the arrival of a packet for n does to the numbers of packets.
LEMMA Arrival ==
  ASSUME TypeOK, NEW n \in Names, Arrived(n), NEW packets,
         packets = Append(incomplete_groups[n].packets, Len(accepted) + 1)
  PROVE  /\ Len(accepted) \in Nat /\ Len(accepted') = Len(accepted) + 1
         /\ packets \in Seq(Packets)
         /\ incomplete_groups[n].packets \in Seq(Packets)
         /\ DOMAIN packets = DOMAIN incomplete_groups[n].packets \cup {Len(packets)}
         /\ DOMAIN incomplete_groups[n].packets = 1 .. Len(packets) - 1
         /\ Len(packets) \in Nat \ {0}
         /\ packets[Len(packets)] = Len(accepted) + 1
         /\ \A i \in DOMAIN incomplete_groups[n].packets :
              packets[i] = incomplete_groups[n].packets[i]
         /\ Joined(n, packets)
<1> DEFINE old == incomplete_groups[n].packets
<1>1. old \in Seq(Packets) /\ packets \in Seq(Packets)
  BY DEF TypeOK, Arrived
<1>2. accepted \in Seq([name : Names, epoch : Nat])
      /\ accepted' = Append(accepted, [name |-> n, epoch |-> epoch[n]])
  BY DEF TypeOK, Arrived
<1>3. Len(accepted) \in Nat /\ Len(accepted') = Len(accepted) + 1
  <2>1. [name |-> n, epoch |-> epoch[n]] \in [name : Names, epoch : Nat]
    BY DEF TypeOK
  <2> QED BY <1>2, <2>1, LenProperties, AppendProperties
<1>4. Len(packets) = Len(old) + 1 /\ Len(old) \in Nat
      /\ \A i \in 1 .. Len(old) : packets[i] = old[i]
      /\ packets[Len(old) + 1] = Len(accepted) + 1
  <2>1. Append(old, Len(accepted) + 1) \in Seq(Packets \cup {Len(accepted) + 1})
        /\ old \in Seq(Packets \cup {Len(accepted) + 1})
        /\ Len(accepted) + 1 \in Packets \cup {Len(accepted) + 1}
    BY <1>1, SeqMonotonic, AppendProperties
  <2> QED BY <1>3, <2>1, AppendProperties, LenProperties
<1>5. DOMAIN packets = 1 .. Len(old) + 1 /\ DOMAIN old = 1 .. Len(old)
  BY <1>1, <1>4, LenProperties
<1>6. ASSUME NEW g \in Group, g.packets = packets,
             packet_queues'[n] = Append(packet_queues[n], g)
      PROVE  /\ DOMAIN packet_queues'[n] = DOMAIN packet_queues[n] \cup {Len(packet_queues[n]) + 1}
             /\ DOMAIN packet_queues[n] = 1 .. Len(packet_queues[n])
             /\ Len(packet_queues[n]) \in Nat
             /\ \A k \in DOMAIN packet_queues[n] : packet_queues'[n][k] = packet_queues[n][k]
             /\ packet_queues'[n][Len(packet_queues[n]) + 1].packets = packets
  <2>1. packet_queues[n] \in Seq(Group)
    BY DEF TypeOK
  <2>2. DOMAIN packet_queues[n] = 1 .. Len(packet_queues[n]) /\ Len(packet_queues[n]) \in Nat
    BY <2>1, LenProperties
  <2>3. /\ packet_queues'[n] \in Seq(Group)
        /\ Len(packet_queues'[n]) = Len(packet_queues[n]) + 1
        /\ \A k \in 1 .. Len(packet_queues[n]) : packet_queues'[n][k] = packet_queues[n][k]
        /\ packet_queues'[n][Len(packet_queues[n]) + 1] = g
    BY <1>6, <2>1, AppendProperties
  <2>4. DOMAIN packet_queues'[n] = 1 .. Len(packet_queues[n]) + 1
    BY <2>3, LenProperties
  <2> QED BY <1>6, <2>2, <2>3, <2>4
<1>7. \/ /\ packet_queues'[n] = packet_queues[n]
         /\ incomplete_groups'[n].packets = packets
      \/ /\ incomplete_groups'[n].packets = <<>>
         /\ \E g \in Group : g.packets = packets
                             /\ packet_queues'[n] = Append(packet_queues[n], g)
  BY DEF Arrived
<1>8. /\ DOMAIN packets = DOMAIN old \cup {Len(packets)}
      /\ DOMAIN old = 1 .. Len(packets) - 1
      /\ Len(packets) \in Nat \ {0}
      /\ packets[Len(packets)] = Len(accepted) + 1
      /\ \A i \in DOMAIN old : packets[i] = old[i]
  BY <1>4, <1>5
<1>9. CASE packet_queues'[n] = packet_queues[n] /\ incomplete_groups'[n].packets = packets
  BY <1>1, <1>3, <1>8, <1>9 DEF Joined
<1>10. CASE /\ incomplete_groups'[n].packets = <<>>
            /\ \E g \in Group : g.packets = packets
                                /\ packet_queues'[n] = Append(packet_queues[n], g)
  <2>1. Joined(n, packets)
    BY <1>6, <1>10 DEF Joined
  <2> QED BY <1>1, <1>3, <1>8, <2>1
<1> QED BY <1>7, <1>9, <1>10

\* No step puts anything before what is ahead.
LEMMA AheadStep ==
  ASSUME TypeOK, [Next]_vars, NEW n \in Names, NEW p \in Packets, Ahead(n, p)
  PROVE  Ahead(n, p)'
<1>1. CASE UNCHANGED <<packet_queues, incomplete_groups, accepted>>
  BY <1>1 DEF Ahead
<1>2. CASE Command
  <2>1. /\ packet_queues'[n] = packet_queues[n] \/ packet_queues'[n] = <<>>
        /\ \/ incomplete_groups'[n].packets = incomplete_groups[n].packets
           \/ incomplete_groups'[n].packets = <<>>
        /\ accepted' = accepted
    BY <1>2, CommandEffect DEF Commanded
  <2> QED BY <2>1 DEF Ahead
<1>3. ASSUME NEW m \in Names, InjectPacket(m)
      PROVE  Ahead(n, p)'
  <2>1. Arrived(m)
    BY <1>3, InjectPacketEffect
  <2>2. Len(accepted) \in Nat /\ Len(accepted') = Len(accepted) + 1
    BY <2>1, Arrival
  <2>3. CASE m # n
    <3>1. packet_queues'[n] = packet_queues[n] /\ incomplete_groups'[n] = incomplete_groups[n]
      BY <2>1, <2>3 DEF Arrived
    <3> QED BY <2>2, <3>1 DEF Ahead, Packets
  <2>4. CASE m = n
    <3> DEFINE packets == Append(incomplete_groups[n].packets, Len(accepted) + 1)
    <3>1. p < Len(accepted) + 1 /\ \A i \in DOMAIN incomplete_groups[n].packets :
                                     p < incomplete_groups[n].packets[i]
      BY <2>2 DEF Ahead, Packets
    <3>2. \A i \in DOMAIN packets : p < packets[i]
      BY <2>1, <2>4, <3>1, Arrival
    <3>3. p <= Len(accepted')
      BY <2>2, <3>1 DEF Packets
    <3> HIDE DEF packets
    <3>4. Joined(n, packets)
      BY <2>1, <2>4, Arrival DEF packets
    <3>5. \A i \in DOMAIN incomplete_groups'[n].packets : p < incomplete_groups'[n].packets[i]
      BY <3>2, <3>4 DEF Joined
    <3>6. \A k \in DOMAIN packet_queues'[n] : \A i \in DOMAIN packet_queues'[n][k].packets :
            p < packet_queues'[n][k].packets[i]
      BY <3>2, <3>4 DEF Joined, Ahead
    <3> QED BY <3>3, <3>5, <3>6 DEF Ahead
  <2> QED BY <2>3, <2>4
<1>4. CASE Scan
  <2>1. PICK S \in SUBSET ReadyQueues : Scanned(S)
    BY <1>4, ScanEffect
  <2>2. UNCHANGED <<incomplete_groups, accepted>>
    BY <1>4 DEF Scan, clientVars
  <2> QED BY <2>1, <2>2, QueueTail DEF Ahead
<1>5. Quiet \/ Inject \/ WriteBack => UNCHANGED <<packet_queues, incomplete_groups, accepted>>
  BY QuietEffect DEF Inject, WriteBack, NextInList, tables, clientVars
<1> QED BY <1>1, <1>2, <1>3, <1>4, <1>5, Steps

\* A later packet behind packets in order.
LEMMA AppendLater ==
  ASSUME NEW old \in Seq(Nat), NEW q \in Nat, Increasing(old),
         \A i \in DOMAIN old : old[i] < q
  PROVE  /\ Increasing(Append(old, q))
         /\ \A i \in DOMAIN Append(old, q) : Append(old, q)[i] <= q
         /\ \A r \in Nat : (r < q /\ \A i \in DOMAIN old : r < old[i])
              => \A i \in DOMAIN Append(old, q) : r < Append(old, q)[i]
<1>0. PICK s : s = Append(old, q)
  OBVIOUS
<1>1. Len(old) \in Nat /\ DOMAIN old = 1 .. Len(old) /\ \A i \in DOMAIN old : old[i] \in Nat
  BY LenProperties
<1>2. /\ s \in Seq(Nat) /\ Len(s) = Len(old) + 1
      /\ \A i \in 1 .. Len(old) : s[i] = old[i]
      /\ s[Len(old) + 1] = q
  BY <1>0, AppendProperties
<1>3. DOMAIN s = 1 .. Len(old) + 1
  BY <1>2, LenProperties
<1>4. ASSUME NEW i \in DOMAIN s
      PROVE  \/ i \in DOMAIN old /\ s[i] = old[i]
             \/ i = Len(old) + 1 /\ s[i] = q
  <2>1. i \in 1 .. Len(old) \/ i = Len(old) + 1
    BY <1>1, <1>3, <1>4
  <2> QED BY <1>1, <1>2, <2>1
<1>5. Increasing(s)
  BY <1>1, <1>4 DEF Increasing
<1>6. \A i \in DOMAIN s : s[i] <= q
  BY <1>1, <1>4
<1>7. ASSUME NEW r \in Nat, r < q, \A i \in DOMAIN old : r < old[i], NEW i \in DOMAIN s
      PROVE  r < s[i]
  BY <1>4, <1>7
<1> QED BY <1>0, <1>5, <1>6, <1>7

\* Every step keeps the order of what waits.
LEMMA WaitingStep ==
  ASSUME TypeOK, [Next]_vars, NEW n \in Names, WaitingOrder(n)
  PROVE  WaitingOrder(n)'
<1>1. CASE UNCHANGED <<packet_queues, incomplete_groups, accepted>>
  BY <1>1 DEF WaitingOrder
<1>2. CASE Command
  <2>1. /\ packet_queues'[n] = packet_queues[n] \/ packet_queues'[n] = <<>>
        /\ \/ incomplete_groups'[n].packets = incomplete_groups[n].packets
           \/ incomplete_groups'[n].packets = <<>>
        /\ accepted' = accepted
    BY <1>2, CommandEffect DEF Commanded
  <2> QED BY <2>1 DEF WaitingOrder, Increasing
<1>3. ASSUME NEW m \in Names, InjectPacket(m)
      PROVE  WaitingOrder(n)'
  <2>1. Arrived(m)
    BY <1>3, InjectPacketEffect
  <2>2. Len(accepted) \in Nat /\ Len(accepted') = Len(accepted) + 1
    BY <2>1, Arrival
  <2>3. incomplete_groups[n].packets \in Seq(Packets)
    BY DEF TypeOK
  <2>4. \A i \in DOMAIN incomplete_groups[n].packets : incomplete_groups[n].packets[i] \in Packets
    BY <2>3, Elements
  <2>5. \A k \in DOMAIN packet_queues[n] : \A i \in DOMAIN packet_queues[n][k].packets :
          packet_queues[n][k].packets[i] \in Packets
    <3>1. packet_queues[n] \in Seq(Group)
      BY DEF TypeOK
    <3>2. \A k \in DOMAIN packet_queues[n] : packet_queues[n][k] \in Group
      BY <3>1, Elements
    <3>3. \A k \in DOMAIN packet_queues[n] : packet_queues[n][k].packets \in Seq(Packets)
      BY <3>2 DEF Group
    <3> QED BY <3>3, Elements
  <2>6. CASE m # n
    <3>1. packet_queues'[n] = packet_queues[n] /\ incomplete_groups'[n] = incomplete_groups[n]
      BY <2>1, <2>6 DEF Arrived
    <3>2. \A q \in Packets : q <= Len(accepted) => q <= Len(accepted')
      BY <2>2 DEF Packets
    <3> QED BY <2>4, <2>5, <3>1, <3>2 DEF WaitingOrder
  <2>7. CASE m = n
    <3>0. PICK old, packets, queue : /\ old = incomplete_groups[n].packets
                                     /\ packets = Append(old, Len(accepted) + 1)
                                     /\ queue = packet_queues[n]
      OBVIOUS
    <3>1. \/ /\ packet_queues'[n] = queue
             /\ incomplete_groups'[n].packets = packets
          \/ /\ incomplete_groups'[n].packets = <<>>
             /\ DOMAIN packet_queues'[n] = DOMAIN queue \cup {Len(queue) + 1}
             /\ DOMAIN queue = 1 .. Len(queue)
             /\ Len(queue) \in Nat
             /\ \A k \in DOMAIN queue : packet_queues'[n][k] = queue[k]
             /\ packet_queues'[n][Len(queue) + 1].packets = packets
      <4>1. Arrived(n) /\ packets = Append(incomplete_groups[n].packets, Len(accepted) + 1)
        BY <2>1, <2>7, <3>0
      <4>2. Joined(n, packets)
        BY <4>1, Arrival
      <4> QED BY <3>0, <4>2 DEF Joined
    <3>2. /\ \A i \in DOMAIN old : old[i] \in Packets /\ old[i] <= Len(accepted)
          /\ \A i, j \in DOMAIN old : i < j => old[i] < old[j]
      BY <2>4, <3>0 DEF WaitingOrder, Increasing
    <3>3. /\ \A k \in DOMAIN queue : Increasing(queue[k].packets)
          /\ \A k \in DOMAIN queue : \A i \in DOMAIN queue[k].packets :
               /\ queue[k].packets[i] <= Len(accepted)
               /\ queue[k].packets[i] \in Packets
               /\ \A j \in DOMAIN old : queue[k].packets[i] < old[j]
          /\ \A k, l \in DOMAIN queue : k < l =>
               \A i \in DOMAIN queue[k].packets : \A j \in DOMAIN queue[l].packets :
                 queue[k].packets[i] < queue[l].packets[j]
      BY <2>5, <3>0 DEF WaitingOrder
    <3>9. /\ Increasing(packets)
          /\ \A i \in DOMAIN packets : packets[i] <= Len(accepted) + 1
          /\ \A p \in Nat : (p < Len(accepted) + 1 /\ \A i \in DOMAIN old : p < old[i])
               => \A i \in DOMAIN packets : p < packets[i]
      <4>1. old \in Seq(Nat)
        <5>1. old \in Seq(Packets) /\ Packets \subseteq Nat
          BY <2>3, <3>0 DEF Packets
        <5> QED BY <5>1, SeqMonotonic
      <4>2. Increasing(old) /\ \A i \in DOMAIN old : old[i] < Len(accepted) + 1
        BY <2>2, <3>2 DEF Increasing, Packets
      <4>3. Len(accepted) + 1 \in Nat
        BY <2>2
      <4> QED BY <3>0, <4>1, <4>2, <4>3, AppendLater
    <3>4. Increasing(packets)
      BY <3>9
    <3>5. \A i \in DOMAIN packets : packets[i] <= Len(accepted')
      BY <2>2, <3>9
    <3>6. \A k \in DOMAIN queue : \A i \in DOMAIN queue[k].packets :
            /\ queue[k].packets[i] <= Len(accepted')
            /\ \A j \in DOMAIN packets : queue[k].packets[i] < packets[j]
      <4> SUFFICES ASSUME NEW k \in DOMAIN queue, NEW i \in DOMAIN queue[k].packets
                   PROVE  /\ queue[k].packets[i] <= Len(accepted')
                          /\ \A j \in DOMAIN packets : queue[k].packets[i] < packets[j]
        OBVIOUS
      <4>1. /\ queue[k].packets[i] \in Nat /\ queue[k].packets[i] <= Len(accepted)
            /\ \A j \in DOMAIN old : queue[k].packets[i] < old[j]
        BY <3>3 DEF Packets
      <4>2. queue[k].packets[i] < Len(accepted) + 1 /\ queue[k].packets[i] <= Len(accepted')
        BY <2>2, <4>1
      <4> QED BY <3>9, <4>1, <4>2
    <3>7. CASE packet_queues'[n] = queue /\ incomplete_groups'[n].packets = packets
      BY <3>3, <3>4, <3>5, <3>6, <3>7 DEF WaitingOrder
    <3>8. CASE /\ incomplete_groups'[n].packets = <<>>
               /\ DOMAIN packet_queues'[n] = DOMAIN queue \cup {Len(queue) + 1}
               /\ DOMAIN queue = 1 .. Len(queue)
               /\ Len(queue) \in Nat
               /\ \A k \in DOMAIN queue : packet_queues'[n][k] = queue[k]
               /\ packet_queues'[n][Len(queue) + 1].packets = packets
      <4>1. \A k \in DOMAIN packet_queues'[n] : Increasing(packet_queues'[n][k].packets)
        <5> SUFFICES ASSUME NEW k \in DOMAIN packet_queues'[n]
                     PROVE  Increasing(packet_queues'[n][k].packets)
          OBVIOUS
        <5>1. CASE k \in DOMAIN queue
          BY <3>3, <3>8, <5>1
        <5>2. CASE k = Len(queue) + 1
          <6>1. packet_queues'[n][k].packets = packets
            BY <3>8, <5>2
          <6> QED BY <3>4, <6>1 DEF Increasing
        <5> QED BY <3>8, <5>1, <5>2
      <4>2. \A k \in DOMAIN packet_queues'[n] : \A i \in DOMAIN packet_queues'[n][k].packets :
              packet_queues'[n][k].packets[i] <= Len(accepted')
        <5> SUFFICES ASSUME NEW k \in DOMAIN packet_queues'[n],
                            NEW i \in DOMAIN packet_queues'[n][k].packets
                     PROVE  packet_queues'[n][k].packets[i] <= Len(accepted')
          OBVIOUS
        <5>1. CASE k \in DOMAIN queue
          BY <3>6, <3>8, <5>1
        <5>2. CASE k = Len(queue) + 1
          <6>1. packet_queues'[n][k].packets = packets
            BY <3>8, <5>2
          <6> QED BY <3>5, <6>1
        <5> QED BY <3>8, <5>1, <5>2
      <4>3. \A k, l \in DOMAIN packet_queues'[n] : k < l =>
              \A i \in DOMAIN packet_queues'[n][k].packets :
                \A j \in DOMAIN packet_queues'[n][l].packets :
                  packet_queues'[n][k].packets[i] < packet_queues'[n][l].packets[j]
        <5> SUFFICES ASSUME NEW k \in DOMAIN packet_queues'[n],
                            NEW l \in DOMAIN packet_queues'[n], k < l
                     PROVE  \A i \in DOMAIN packet_queues'[n][k].packets :
                              \A j \in DOMAIN packet_queues'[n][l].packets :
                                packet_queues'[n][k].packets[i] < packet_queues'[n][l].packets[j]
          OBVIOUS
        <5>1. k \in DOMAIN queue /\ packet_queues'[n][k] = queue[k]
          BY <3>8
        <5>2. CASE l \in DOMAIN queue
          BY <3>3, <3>8, <5>1, <5>2
        <5>3. CASE l = Len(queue) + 1
          BY <3>6, <3>8, <5>1, <5>3
        <5> QED BY <3>8, <5>2, <5>3
      <4>4. DOMAIN incomplete_groups'[n].packets = {}
        BY <3>8
      <4> QED BY <4>1, <4>2, <4>3, <4>4 DEF WaitingOrder, Increasing
    <3> QED BY <3>1, <3>7, <3>8
  <2> QED BY <2>6, <2>7
<1>4. CASE Scan
  <2>1. PICK S \in SUBSET ReadyQueues : Scanned(S)
    BY <1>4, ScanEffect
  <2>2. UNCHANGED <<incomplete_groups, accepted>>
    BY <1>4 DEF Scan, clientVars
  <2>3. CASE packet_queues'[n] = packet_queues[n]
    BY <2>2, <2>3 DEF WaitingOrder
  <2>4. CASE \A k \in DOMAIN packet_queues'[n] : /\ k + 1 \in DOMAIN packet_queues[n]
                                                 /\ packet_queues'[n][k] = packet_queues[n][k + 1]
    <3>1. \A k \in DOMAIN packet_queues'[n] : k \in Int
      <4>1. packet_queues'[n] \in Seq(Group)
        BY TypeStep DEF TypeOK
      <4> QED BY <4>1, LenProperties
    <3>2. \A k, l \in DOMAIN packet_queues'[n] : k < l => k + 1 < l + 1
      BY <3>1
    <3> QED BY <2>2, <2>4, <3>2 DEF WaitingOrder
  <2> QED BY <2>1, <2>3, <2>4, QueueTail
<1>5. Quiet \/ Inject \/ WriteBack => UNCHANGED <<packet_queues, incomplete_groups, accepted>>
  BY QuietEffect DEF Inject, WriteBack, NextInList, tables, clientVars
<1> QED BY <1>1, <1>2, <1>3, <1>4, <1>5, Steps

\* Every step keeps the order of the group being injected.
LEMMA CurrentStep ==
  ASSUME TypeOK, HandInv, IndexInBounds, FreshInv, [Next]_vars, NEW n \in Names,
         WaitingOrder(n), CurrentOrder(n), InjectedOrder(n)
  PROVE  CurrentOrder(n)'
<1>1. \A g \in CurrentGroups(n) :
        /\ g \in Group /\ g.packets \in Seq(Packets)
        /\ \A i \in DOMAIN g.packets : g.packets[i] \in Packets /\ Ahead(n, g.packets[i])'
  <2> SUFFICES ASSUME NEW g \in CurrentGroups(n)
               PROVE  /\ g \in Group /\ g.packets \in Seq(Packets)
                      /\ \A i \in DOMAIN g.packets :
                           g.packets[i] \in Packets /\ Ahead(n, g.packets[i])'
    OBVIOUS
  <2>1. g \in Group /\ g.packets \in Seq(Packets)
    BY CurrentType DEF Group
  <2>2. \A i \in DOMAIN g.packets : g.packets[i] \in Packets
    BY <2>1, Elements
  <2>3. \A i \in DOMAIN g.packets : Ahead(n, g.packets[i])
    BY DEF CurrentOrder
  <2>4. \A p \in Packets : Ahead(n, p) => Ahead(n, p)'
    BY AheadStep
  <2> QED BY <2>1, <2>2, <2>3, <2>4
\* Steps that at most forget the group.
<1>2. ASSUME CurrentGroups(n)' \subseteq CurrentGroups(n), injected' = injected,
             \A g : Gone(n, g)' = Gone(n, g)
      PROVE  CurrentOrder(n)'
  BY <1>1, <1>2 DEF CurrentOrder
<1>3. CASE Quiet
  BY <1>2, <1>3, QuietEffect, CurrentSame
<1>4. CASE Command
  <2>1. PICK S \in SUBSET Names : Commanded(S)
    BY <1>4, CommandEffect
  <2> QED BY <1>2, <2>1, CurrentCommanded DEF Commanded, injectorVars
<1>5. ASSUME NEW m \in Names, InjectPacket(m)
      PROVE  CurrentOrder(n)'
  <2>1. UNCHANGED <<queue_configs, injectorVars>>
    BY <1>5 DEF InjectPacket
  <2> QED BY <1>2, <2>1, CurrentSame DEF injectorVars
<1>6. CASE Scan
  <2>1. PICK S \in SUBSET ReadyQueues : Scanned(S)
    BY <1>6, ScanEffect
  <2>2. /\ n \in S => CurrentGroups(n)' = {GroupToCheck(n)}
        /\ n \notin S => CurrentGroups(n)' = CurrentGroups(n)
        /\ CurrentGroups(n) = IF HasActive(n) THEN {queue_configs[n].active_group} ELSE {}
        /\ \A g : Gone(n, g) = g.current_packet_index + 0
        /\ \A g : Gone(n, g)' = g.current_packet_index + 0
    BY <1>6, <2>1, CurrentScanned
  <2>3. injected' = injected
    BY <1>6 DEF Scan
  <2>4. CASE n \in S /\ ~HasActive(n)
    <3>0. PICK g : g = GroupToCheck(n)
      OBVIOUS
    <3>1. n \in Known /\ HasGroup(n) /\ packet_queues[n] \in Seq(Group) /\ packet_queues[n] # <<>>
      BY <2>4 DEF ReadyQueues, Ready, HasGroup, HasActive, TypeOK
    <3>2. g = Head(packet_queues[n]) /\ packet_queues'[n] = Tail(packet_queues[n])
      BY <2>1, <2>4, <3>0, <3>1 DEF HasActive, GroupToCheck, Scanned
    <3>3. g = packet_queues[n][1] /\ 1 \in DOMAIN packet_queues[n] /\ g \in Group
      BY <3>1, <3>2, HeadTailProperties, EmptySeq, LenProperties
    <3>4. \A k \in DOMAIN packet_queues'[n] : /\ k + 1 \in DOMAIN packet_queues[n] /\ 1 < k + 1
                                              /\ packet_queues'[n][k] = packet_queues[n][k + 1]
      <4>1. /\ Tail(packet_queues[n]) \in Seq(Group)
            /\ Len(Tail(packet_queues[n])) = Len(packet_queues[n]) - 1
            /\ \A k \in 1 .. Len(Tail(packet_queues[n])) :
                 Tail(packet_queues[n])[k] = packet_queues[n][k + 1]
        BY <3>1, HeadTailProperties
      <4> QED BY <3>1, <3>2, <4>1, LenProperties
    <3>5. UNCHANGED <<incomplete_groups, accepted>>
      BY <1>6 DEF Scan, clientVars
    <3>6. \A i \in DOMAIN g.packets : Ahead(n, g.packets[i])'
      <4> SUFFICES ASSUME NEW i \in DOMAIN g.packets
                   PROVE  Ahead(n, g.packets[i])'
        OBVIOUS
      <4>1. /\ g.packets[i] <= Len(accepted)
            /\ \A l \in DOMAIN packet_queues[n] : 1 < l =>
                 \A j \in DOMAIN packet_queues[n][l].packets :
                   g.packets[i] < packet_queues[n][l].packets[j]
            /\ \A j \in DOMAIN incomplete_groups[n].packets :
                 g.packets[i] < incomplete_groups[n].packets[j]
        BY <3>3 DEF WaitingOrder
      <4> QED BY <3>4, <3>5, <4>1 DEF Ahead
    <3>7. g.current_packet_index = 0 /\ DOMAIN g.packets = 1 .. Len(g.packets)
      <4>1. g.packets \in Seq(Packets)
        BY <3>3 DEF Group
      <4> QED BY <3>3, <4>1, LenProperties DEF FreshInv
    <3>8. \A k \in DOMAIN injected : injected[k].name = n =>
            \A i \in DOMAIN g.packets : PacketOf(injected[k]) < g.packets[i]
      BY <3>3 DEF InjectedOrder, Ahead
    <3>9. Increasing(g.packets)
      BY <3>3 DEF WaitingOrder
    <3>10. \A i \in Gone(n, g)' + 1 .. Len(g.packets) : i \in DOMAIN g.packets
      BY <2>2, <3>7
    <3>11. CurrentGroups(n)' = {g}
      BY <2>2, <2>4, <3>0
    <3> QED BY <2>3, <3>6, <3>8, <3>9, <3>10, <3>11 DEF CurrentOrder
  <2>5. CASE n \in S /\ HasActive(n)
    <3>1. GroupToCheck(n) = queue_configs[n].active_group
      BY <2>5 DEF HasActive, GroupToCheck
    <3> QED BY <1>2, <2>2, <2>3, <2>5, <3>1
  <2>6. CASE n \notin S
    BY <1>2, <2>2, <2>3, <2>6
  <2> QED BY <2>4, <2>5, <2>6
<1>7. CASE Inject
  <2> DEFINE h == Head(groups_to_inject)
  <2>1. Left(h)
    BY <1>7, InjectEffect
  <2> HIDE DEF h
  <2>2. /\ CurrentGroups(n)' = CurrentGroups(n)
        /\ \A g : Gone(n, g) = g.current_packet_index + 0
        /\ \A g : Gone(n, g)' = g.current_packet_index + (IF n = h.name THEN 1 ELSE 0)
    BY <2>1, CurrentLeft
  <2>3. /\ DOMAIN injected' = DOMAIN injected \cup {Len(injected) + 1}
        /\ \A k \in DOMAIN injected : injected'[k] = injected[k]
        /\ injected'[Len(injected) + 1] = RecordOf(h)
    <3>1. injected \in Seq(InjectionRecord) /\ RecordOf(h) \in InjectionRecord
          /\ injected' = Append(injected, RecordOf(h))
      BY <2>1 DEF Left, TypeOK
    <3> QED BY <3>1, AppendProperties, LenProperties
  <2>4. ASSUME NEW g \in CurrentGroups(n), NEW k \in DOMAIN injected', injected'[k].name = n,
               NEW i \in Gone(n, g)' + 1 .. Len(g.packets)
        PROVE  PacketOf(injected'[k]) < g.packets[i]
    <3>1. g \in Group /\ g.current_packet_index \in Nat /\ Len(g.packets) \in Nat
          /\ DOMAIN g.packets = 1 .. Len(g.packets)
      BY <1>1, LenProperties DEF Group
    <3>2. i \in Gone(n, g) + 1 .. Len(g.packets)
      BY <2>2, <3>1
    <3>3. CASE k \in DOMAIN injected
      BY <2>3, <2>4, <3>2, <3>3 DEF CurrentOrder
    <3>4. CASE k = Len(injected) + 1
      <4>1. n = h.name
        BY <2>3, <2>4, <3>4 DEF RecordOf
      <4>2. g = h.group
        BY <2>1, <4>1, InHandIsCurrent DEF Left
      <4>3. PacketOf(injected'[k]) = g.packets[g.current_packet_index + 1]
        BY <2>3, <3>4, <4>2 DEF PacketOf, RecordOf
      <4>4. i \in g.current_packet_index + 1 + 1 .. Len(g.packets)
        BY <2>2, <4>1
      <4>5. /\ i \in DOMAIN g.packets /\ g.current_packet_index + 1 \in DOMAIN g.packets
            /\ g.current_packet_index + 1 < i
        BY <3>1, <4>4
      <4>6. Increasing(g.packets)
        BY DEF CurrentOrder
      <4> QED BY <4>3, <4>5, <4>6 DEF Increasing
    <3> QED BY <2>3, <3>3, <3>4
  <2> QED BY <1>1, <2>2, <2>4 DEF CurrentOrder
<1>8. CASE WriteBack
  <2> DEFINE h == Head(groups_to_inject)
  <2>1. /\ n # h.name => CurrentGroups(n)' = CurrentGroups(n)
        /\ n # h.name => \A g : Gone(n, g) = g.current_packet_index + 0
        /\ n = h.name => CurrentGroups(n) = {h.group}
        /\ n = h.name => CurrentGroups(n)' =
             IF HasActive(n) /\ HasMore(h) THEN {Advanced(h)} ELSE {}
        /\ n = h.name => \A g : Gone(n, g) = g.current_packet_index + 1
        /\ \A g : Gone(n, g)' = g.current_packet_index + 0
    BY <1>8, CurrentWrittenBack
  <2>2. injected' = injected
    BY <1>8 DEF WriteBack, NextInList
  <2> HIDE DEF h
  <2>3. CASE n # h.name
    BY <1>2, <2>1, <2>2, <2>3
  <2>4. CASE n = h.name
    <3>1. h.group \in CurrentGroups(n) /\ h.group \in Group
      BY <1>1, <2>1, <2>4
    <3>2. /\ Advanced(h).packets = h.group.packets
          /\ Advanced(h).current_packet_index = h.group.current_packet_index + 1
      BY <3>1 DEF Advanced, Group
    <3>0. PICK a : a = Advanced(h)
      OBVIOUS
    <3>3. Gone(n, a)' = h.group.current_packet_index + 1
      <4>1. Gone(n, a)' = a.current_packet_index + 0
        BY <2>1
      <4> QED BY <3>0, <3>1, <3>2, <4>1 DEF Group
    <3>4. \A g \in CurrentGroups(n)' : g = a
      BY <2>1, <2>4, <3>0
    <3>5. \A k \in DOMAIN injected : injected[k].name = n =>
            \A i \in h.group.current_packet_index + 1 + 1 .. Len(a.packets) :
              PacketOf(injected[k]) < a.packets[i]
      <4>1. Gone(n, h.group) = h.group.current_packet_index + 1
        BY <2>1, <2>4
      <4> QED BY <3>0, <3>1, <3>2, <4>1 DEF CurrentOrder
    <3>6. Increasing(a.packets) /\ \A i \in DOMAIN a.packets : Ahead(n, a.packets[i])'
      <4>1. a.packets = h.group.packets
        BY <3>0, <3>2
      <4>2. PICK g \in CurrentGroups(n) : g.packets = a.packets
        BY <3>1, <4>1
      <4>3. Increasing(g.packets) /\ \A i \in DOMAIN g.packets : Ahead(n, g.packets[i])'
        BY <1>1 DEF CurrentOrder
      <4>4. PICK s : s = g.packets
        OBVIOUS
      <4> QED BY <4>2, <4>3
    <3> QED BY <2>2, <3>3, <3>4, <3>5, <3>6 DEF CurrentOrder
  <2> QED BY <2>3, <2>4
<1> QED BY <1>3, <1>4, <1>5, <1>6, <1>7, <1>8, Steps

\* Only Inject adds to what was injected.
LEMMA InjectedGrows ==
  ASSUME [Next]_vars
  PROVE  Inject \/ injected' = injected
<1>1. Quiet => injected' = injected
  BY QuietEffect
<1>2. Command => injected' = injected
  BY DEF Command, RegisterQueue, UnregisterQueue, ClearAllQueues, injectorVars
<1>3. Scan \/ WriteBack \/ (\E n \in Names : InjectPacket(n)) => injected' = injected
  BY DEF Scan, WriteBack, NextInList, InjectPacket, injectorVars
<1> QED BY <1>1, <1>2, <1>3, Steps

\* The record of the entry in hand comes last.
LEMMA Appended ==
  ASSUME TypeOK, NEW h, Left(h)
  PROVE  /\ Len(injected) \in Nat /\ DOMAIN injected = 1 .. Len(injected)
         /\ Len(injected') = Len(injected) + 1
         /\ DOMAIN injected' = DOMAIN injected \cup {Len(injected) + 1}
         /\ \A k \in DOMAIN injected : injected'[k] = injected[k] /\ k < Len(injected) + 1
         /\ injected'[Len(injected) + 1] = RecordOf(h)
<1>1. /\ injected \in Seq(InjectionRecord) /\ RecordOf(h) \in InjectionRecord
      /\ injected' = Append(injected, RecordOf(h))
  BY DEF Left, TypeOK
<1>2. Len(injected) \in Nat /\ DOMAIN injected = 1 .. Len(injected)
  BY <1>1, LenProperties
<1>3. /\ injected' \in Seq(InjectionRecord) /\ Len(injected') = Len(injected) + 1
      /\ \A k \in 1 .. Len(injected) : injected'[k] = injected[k]
      /\ injected'[Len(injected) + 1] = RecordOf(h)
  BY <1>1, AppendProperties
<1>4. DOMAIN injected' = 1 .. Len(injected) + 1
  BY <1>3, LenProperties
<1> QED BY <1>2, <1>3, <1>4

\* The packet that leaves is one of the current group of its queue.
LEMMA LeavingPacket ==
  ASSUME TypeOK, HandInv, IndexInBounds, NEW h, Left(h)
  PROVE  /\ h.name \in Names /\ h.group \in CurrentGroups(h.name) /\ h.group \in Group
         /\ h.group.current_packet_index \in Nat
         /\ h.group.current_packet_index + 1 \in DOMAIN h.group.packets
         /\ PacketOf(RecordOf(h)) = h.group.packets[h.group.current_packet_index + 1]
         /\ PacketOf(RecordOf(h)) \in Packets
<1>1. h \in Hand /\ h.name \in Names /\ h.group \in Group
  BY DEF Left, GroupInHand
<1>2. HasPacketLeft(h.group)
  BY <1>1 DEF Hand, IndexInBounds
<1>3. h.group.packets \in Seq(Packets) /\ h.group.current_packet_index \in Nat
  BY <1>1 DEF Group
<1>4. DOMAIN h.group.packets = 1 .. Len(h.group.packets) /\ Len(h.group.packets) \in Nat
  BY <1>3, LenProperties
<1>5. h.group.current_packet_index + 1 \in DOMAIN h.group.packets
  BY <1>2, <1>3, <1>4 DEF HasPacketLeft
<1>6. PacketOf(RecordOf(h)) = h.group.packets[h.group.current_packet_index + 1]
  BY DEF PacketOf, RecordOf
<1>7. h.group.packets[h.group.current_packet_index + 1] \in Packets
  BY <1>3, <1>5, Elements
<1> QED BY <1>1, <1>3, <1>5, <1>6, <1>7, InHandIsCurrent

\* Every step keeps what was injected ahead of what waits.
LEMMA InjectedStep ==
  ASSUME TypeOK, HandInv, IndexInBounds, [Next]_vars, NEW n \in Names,
         CurrentOrder(n), InjectedOrder(n)
  PROVE  InjectedOrder(n)'
<1> SUFFICES ASSUME NEW k \in DOMAIN injected', injected'[k].name = n,
                    NEW p, p = PacketOf(injected'[k])
             PROVE  p \in Packets /\ Ahead(n, p)'
  BY DEF InjectedOrder, PacketOf, Ahead
<1>3. p \in Packets /\ Ahead(n, p) => Ahead(n, p)'
  BY AheadStep
<1>4. CASE k \in DOMAIN injected /\ injected'[k] = injected[k]
  BY <1>3, <1>4 DEF InjectedOrder
<1>5. CASE Inject
  <2> DEFINE h == Head(groups_to_inject)
  <2>1. Left(h)
    BY <1>5, InjectEffect
  <2> HIDE DEF h
  <2>2. CASE k = Len(injected) + 1
    <3>1. injected'[k] = RecordOf(h) /\ h.name = n
      BY <2>1, <2>2, Appended DEF RecordOf
    <3>2. p \in Packets /\ Ahead(n, p)
      BY <2>1, <3>1, LeavingPacket DEF CurrentOrder
    <3> QED BY <1>3, <3>2
  <2> QED BY <1>4, <2>1, <2>2, Appended
<1> QED BY <1>4, <1>5, InjectedGrows

\* Every step keeps ArrivalInv.
LEMMA ArrivalStep ==
  TypeOK /\ HandInv /\ IndexInBounds /\ FreshInv /\ ArrivalInv /\ [Next]_vars => ArrivalInv'
<1> SUFFICES ASSUME TypeOK, HandInv, IndexInBounds, FreshInv, ArrivalInv, [Next]_vars,
                    NEW n \in Names
             PROVE  WaitingOrder(n)' /\ CurrentOrder(n)' /\ InjectedOrder(n)'
  BY DEF ArrivalInv
<1>1. WaitingOrder(n) /\ CurrentOrder(n) /\ InjectedOrder(n)
  BY DEF ArrivalInv
<1> QED BY <1>1, WaitingStep, CurrentStep, InjectedStep

\* Every step keeps InArrivalOrder.
LEMMA OrderStep ==
  TypeOK /\ HandInv /\ IndexInBounds /\ ArrivalInv /\ InArrivalOrder /\ [Next]_vars
    => InArrivalOrder'
<1> SUFFICES ASSUME TypeOK, HandInv, IndexInBounds, ArrivalInv, InArrivalOrder, [Next]_vars,
                    Inject
             PROVE  InArrivalOrder'
  BY InjectedGrows DEF InArrivalOrder
<1> DEFINE h == Head(groups_to_inject)
<1>1. Left(h)
  BY InjectEffect
<1> HIDE DEF h
<1> SUFFICES ASSUME NEW j \in DOMAIN injected', NEW k \in DOMAIN injected', j < k,
                    injected'[j].name = injected'[k].name
             PROVE  PacketOf(injected'[j]) < PacketOf(injected'[k])
  BY DEF InArrivalOrder
<1>2. /\ j \in DOMAIN injected /\ injected'[j] = injected[j]
      /\ k \in DOMAIN injected \/ k = Len(injected) + 1
  BY <1>1, Appended
<1>3. CASE k \in DOMAIN injected
  BY <1>1, <1>2, <1>3, Appended DEF InArrivalOrder
<1>4. CASE k = Len(injected) + 1
  <2>1. injected'[k] = RecordOf(h) /\ injected[j].name = h.name
    BY <1>1, <1>2, <1>4, Appended DEF RecordOf
  <2>2. h.name \in Names /\ h.group \in CurrentGroups(h.name)
    BY <1>1, LeavingPacket
  <2>3. Gone(h.name, h.group) = h.group.current_packet_index + 0
    BY <1>1, <2>2, CurrentLeft
  <2>4. h.group.current_packet_index + 1
          \in h.group.current_packet_index + 0 + 1 .. Len(h.group.packets)
    <3>1. h.group.packets \in Seq(Packets)
      BY <1>1, LeavingPacket DEF Group
    <3> QED BY <1>1, <3>1, LeavingPacket, LenProperties
  <2>5. CurrentOrder(h.name)
    BY <2>2 DEF ArrivalInv
  <2> QED BY <1>1, <1>2, <2>1, <2>2, <2>3, <2>4, <2>5, LeavingPacket DEF CurrentOrder
<1> QED BY <1>2, <1>3, <1>4

--------------------------------------------------------------------------------
(* The last injection of a queue *)

\* The k-th injection is the last from n.
IsLast(n, k) ==
  /\ k \in DOMAIN injected /\ injected[k].name = n
  /\ \A i \in DOMAIN injected : i > k => injected[i].name # n

Finished(r) == r.index + 1 = Len(r.packets)

\* r, the last injection from n, is the packet before the next of the current
\* group; where that one begins or there is none, r ended its group, unless the
\* queue was changed since.
LastOrder(n, r) ==
  /\ \A g \in CurrentGroups(n) : Gone(n, g) > 0 =>
       r.packets = g.packets /\ r.index + 1 = Gone(n, g)
  /\ \A h \in Hand : h.name = n /\ Gone(n, h.group) = 0 => Finished(r) \/ r.epoch # h.epoch
  /\ CurrentGroups(n) = {} => Finished(r) \/ r.epoch # epoch[n]

LastInv == \A n \in Names, k \in DOMAIN injected : IsLast(n, k) => LastOrder(n, injected[k])

\* The last injection from n is the one there was, or the one that a step makes.
LEMMA LastRecord ==
  ASSUME TypeOK, HandInv, [Next]_vars, NEW n, NEW k, IsLast(n, k)'
  PROVE  \/ /\ IsLast(n, k) /\ injected'[k] = injected[k]
            /\ Inject => n # Head(groups_to_inject).name
         \/ /\ Inject /\ n = Head(groups_to_inject).name
            /\ injected'[k] = RecordOf(Head(groups_to_inject))
<1>1. CASE injected' = injected /\ ~Inject
  BY <1>1 DEF IsLast
<1>2. CASE Inject
  <2> DEFINE h == Head(groups_to_inject)
  <2>1. Left(h)
    BY <1>2, InjectEffect
  <2>2. RecordOf(h).name = h.name
    BY DEF RecordOf
  <2> HIDE DEF h
  <2>3. CASE k \in DOMAIN injected
    <3>1. n # h.name
      <4>1. Len(injected) + 1 \in DOMAIN injected' /\ Len(injected) + 1 > k
            /\ injected'[Len(injected) + 1].name = h.name
        BY <2>1, <2>2, <2>3, Appended
      <4> QED BY <4>1 DEF IsLast
    <3>2. IsLast(n, k) /\ injected'[k] = injected[k]
      BY <2>1, <2>3, Appended DEF IsLast
    <3> QED BY <3>1, <3>2 DEF h
  <2>4. CASE k = Len(injected) + 1
    <3>1. injected'[k] = RecordOf(h) /\ injected'[k].name = n
      BY <2>1, <2>4, Appended DEF IsLast
    <3> QED BY <1>2, <2>2, <3>1 DEF h
  <2>5. k \in DOMAIN injected'
    BY DEF IsLast
  <2> QED BY <2>1, <2>3, <2>4, <2>5, Appended
<1> QED BY <1>1, <1>2, InjectedGrows

\* Two consecutive injections are two that there were, or the last one from the
\* queue and the one that a step makes.
LEMMA ConsecutiveNext ==
  ASSUME TypeOK, NEW h, Left(h), NEW j \in DOMAIN injected', NEW k \in DOMAIN injected',
         Consecutive(j, k)'
  PROVE  /\ j \in DOMAIN injected /\ injected'[j] = injected[j]
         /\ \/ /\ k \in DOMAIN injected /\ injected'[k] = injected[k]
               /\ Consecutive(j, k)
            \/ injected'[k] = RecordOf(h) /\ IsLast(h.name, j)
<1>1. /\ DOMAIN injected = 1 .. Len(injected) /\ Len(injected) \in Nat
      /\ DOMAIN injected' = DOMAIN injected \cup {Len(injected) + 1}
      /\ \A i \in DOMAIN injected : injected'[i] = injected[i] /\ i < Len(injected) + 1
      /\ injected'[Len(injected) + 1] = RecordOf(h)
  BY Appended
<1>2. /\ j < k /\ injected'[j].name = injected'[k].name
      /\ \A i \in j + 1 .. k - 1 : injected'[i].name # injected'[k].name
  BY DEF Consecutive
<1>3. j \in DOMAIN injected /\ injected'[j] = injected[j]
  BY <1>1, <1>2
<1>4. CASE k \in DOMAIN injected
  <2>1. \A i \in j + 1 .. k - 1 : i \in DOMAIN injected
    BY <1>1, <1>3, <1>4
  <2>2. Consecutive(j, k)
    BY <1>1, <1>2, <1>3, <1>4, <2>1 DEF Consecutive
  <2> QED BY <1>1, <1>3, <1>4, <2>2
<1>5. CASE k = Len(injected) + 1
  <2>1. injected'[k] = RecordOf(h) /\ RecordOf(h).name = h.name
    BY <1>1, <1>5 DEF RecordOf
  <2>2. \A i \in DOMAIN injected : i > j => i \in j + 1 .. k - 1
    BY <1>1, <1>3, <1>5
  <2>3. IsLast(h.name, j)
    BY <1>1, <1>2, <1>3, <2>1, <2>2 DEF IsLast
  <2> QED BY <1>3, <2>1, <2>3
<1> QED BY <1>1, <1>4, <1>5

\* What is written back for n was the last injection from n.
LEMMA WrittenIsLast ==
  ASSUME TypeOK, OutInv, injector = "write_back", NEW k,
         IsLast(Head(groups_to_inject).name, k)
  PROVE  injected[k] = RecordOf(Head(groups_to_inject))
<1> DEFINE h == Head(groups_to_inject)
<1>1. injected # <<>> /\ injected[Len(injected)] = RecordOf(h) /\ RecordOf(h).name = h.name
  BY DEF OutInv, RecordOf
<1>2. injected \in Seq(InjectionRecord)
  BY DEF TypeOK
<1>3. DOMAIN injected = 1 .. Len(injected) /\ Len(injected) \in Nat \ {0}
  BY <1>1, <1>2, LenProperties, EmptySeq
<1> HIDE DEF h
<1>4. k \in DOMAIN injected /\ ~(Len(injected) > k)
  BY <1>1, <1>3 DEF IsLast, h
<1>5. k = Len(injected)
  BY <1>3, <1>4
<1> QED BY <1>1, <1>5 DEF h

\* The order after the last injection survives a step that injects nothing of n.
LEMMA LastKept ==
  ASSUME TypeOK, HandInv, IndexInBounds, FreshInv, EpochInv, OutInv, [Next]_vars, NEW n \in Names,
         NEW k, IsLast(n, k), NEW r, r = injected[k], LastOrder(n, r),
         Inject => n # Head(groups_to_inject).name
  PROVE  LastOrder(n, r)'
\* Steps that at most forget the group and the entries in hand.
<1>1. ASSUME CurrentGroups(n)' = CurrentGroups(n), \A g : Gone(n, g)' = Gone(n, g),
             {h \in Hand' : h.name = n} \subseteq Hand, epoch'[n] = epoch[n]
      PROVE  LastOrder(n, r)'
  BY <1>1 DEF LastOrder
<1>2. CASE Quiet
  <2>1. Hand' = Hand /\ epoch' = epoch
    BY <1>2, QuietEffect DEF Hand
  <2> QED BY <1>1, <1>2, <2>1, QuietEffect, CurrentSame
<1>3. CASE Command
  <2>1. PICK S \in SUBSET Names : Commanded(S)
    BY <1>3, CommandEffect
  <2>2. Hand' = Hand
    BY <2>1 DEF Commanded, injectorVars, Hand
  <2>3. CASE n \notin S
    <3>1. epoch'[n] = epoch[n]
      BY <2>1, <2>3 DEF Commanded
    <3> QED BY <1>1, <2>1, <2>2, <2>3, <3>1, CurrentCommanded
  <2>4. CASE n \in S
    <3>1. epoch'[n] = epoch[n] + 1 /\ epoch[n] \in Nat
      BY <2>1, <2>4 DEF Commanded, TypeOK
    <3>2. r.epoch <= epoch[n] /\ r.epoch \in Nat
      <4>1. injected \in Seq(InjectionRecord)
        BY DEF TypeOK
      <4>2. r \in InjectionRecord /\ r.name = n
        BY <4>1, Elements DEF IsLast
      <4> QED BY <4>2 DEF IsLast, EpochInv, InjectionRecord
    <3>3. r.epoch # epoch'[n]
      BY <3>1, <3>2
    <3>4. CurrentGroups(n)' \subseteq CurrentGroups(n) /\ \A g : Gone(n, g)' = Gone(n, g)
      BY <2>1, CurrentCommanded
    <3> QED BY <2>2, <3>3, <3>4 DEF LastOrder
  <2> QED BY <2>3, <2>4
<1>4. ASSUME NEW m \in Names, InjectPacket(m)
      PROVE  LastOrder(n, r)'
  <2>1. UNCHANGED <<queue_configs, injectorVars, epoch>> /\ Hand' = Hand
    BY <1>4 DEF InjectPacket, injectorVars, Hand
  <2>2. CurrentGroups(n)' = CurrentGroups(n) /\ \A g : Gone(n, g)' = Gone(n, g)
    BY <2>1, CurrentSame DEF injectorVars
  <2> QED BY <1>1, <2>1, <2>2
<1>5. CASE Scan
  <2>1. PICK S \in SUBSET ReadyQueues : Scanned(S)
    BY <1>5, ScanEffect
  <2>2. /\ n \in S => CurrentGroups(n)' = {GroupToCheck(n)}
        /\ n \notin S => CurrentGroups(n)' = CurrentGroups(n)
        /\ CurrentGroups(n) = IF HasActive(n) THEN {queue_configs[n].active_group} ELSE {}
        /\ \A g : Gone(n, g) = g.current_packet_index + 0
        /\ \A g : Gone(n, g)' = g.current_packet_index + 0
    BY <1>5, <2>1, CurrentScanned
  <2>3. epoch' = epoch /\ Hand' = {ToInject(m) : m \in S} /\ Hand = {}
    <3>1. epoch' = epoch /\ groups_to_inject = <<>>
      BY <1>5 DEF Scan, clientVars, HandInv
    <3>2. Hand = {}
      BY <3>1 DEF Hand
    <3> QED BY <2>1, <3>1, <3>2 DEF Scanned
  <2>4. \A m : /\ ToInject(m).name = m /\ ToInject(m).group = GroupToCheck(m)
               /\ ToInject(m).epoch = epoch[m]
    BY DEF ToInject
  <2>5. CASE n \notin S
    <3>1. {h \in Hand' : h.name = n} = {}
      BY <2>3, <2>4, <2>5
    <3> QED BY <1>1, <2>2, <2>3, <2>5, <3>1
  <2>6. CASE n \in S /\ HasActive(n)
    <3>0. PICK g : g = GroupToCheck(n)
      OBVIOUS
    <3>1. g = queue_configs[n].active_group /\ CurrentGroups(n) = {g} /\ CurrentGroups(n)' = {g}
      BY <2>2, <2>6, <3>0 DEF GroupToCheck, HasActive
    <3>2. g.current_packet_index > 0 /\ g.current_packet_index \in Nat
      <4>1. g.current_packet_index > 0
        BY <2>3, <2>6, <3>1 DEF HandInv
      <4> QED BY <3>1, <4>1, CurrentType DEF Group
    <3>3. \A h \in Hand' : h.name = n => h.group = g
      BY <2>3, <2>4, <3>0
    <3>4. r.packets = g.packets /\ r.index + 1 = g.current_packet_index + 0
      <4>1. Gone(n, g) = g.current_packet_index + 0 /\ g \in CurrentGroups(n)
        BY <2>2, <3>1
      <4>2. Gone(n, g) > 0
        BY <3>2, <4>1
      <4> QED BY <4>1, <4>2 DEF LastOrder
    <3>5. Gone(n, g)' = g.current_packet_index /\ Gone(n, g)' # 0
      <4>1. Gone(n, g)' = g.current_packet_index + 0
        BY <2>2
      <4> QED BY <3>2, <4>1
    <3>6. \A f \in CurrentGroups(n)' : r.packets = f.packets /\ r.index + 1 = Gone(n, f)'
      BY <3>1, <3>2, <3>4, <3>5
    <3>7. \A h \in Hand' : h.name = n => Gone(n, h.group)' # 0
      BY <3>3, <3>5
    <3> QED BY <3>1, <3>6, <3>7 DEF LastOrder
  <2>7. CASE n \in S /\ ~HasActive(n)
    <3>0. PICK g : g = GroupToCheck(n)
      OBVIOUS
    <3>1. g.current_packet_index = 0
      <4>1. n \in Known /\ HasGroup(n) /\ packet_queues[n] \in Seq(Group) /\ packet_queues[n] # <<>>
        BY <2>7 DEF ReadyQueues, Ready, HasGroup, HasActive, TypeOK
      <4>2. g = packet_queues[n][1] /\ 1 \in DOMAIN packet_queues[n]
        BY <2>7, <3>0, <4>1, HeadTailProperties, EmptySeq, LenProperties
           DEF HasActive, GroupToCheck
      <4> QED BY <4>2 DEF FreshInv
    <3>2. CurrentGroups(n)' = {g} /\ CurrentGroups(n) = {}
      BY <2>2, <2>7, <3>0
    <3>3. Finished(r) \/ r.epoch # epoch[n]
      BY <3>2 DEF LastOrder
    <3>4. \A h \in Hand' : h.name = n => h.epoch = epoch[n]
      BY <2>3, <2>4
    <3>5. Gone(n, g)' = 0
      BY <2>2, <3>1
    <3> QED BY <3>2, <3>3, <3>4, <3>5 DEF LastOrder, Finished
  <2> QED BY <2>5, <2>6, <2>7
<1>6. CASE Inject
  <2> DEFINE h == Head(groups_to_inject)
  <2>1. Left(h)
    BY <1>6, InjectEffect
  <2>2. n # h.name
    BY <1>6
  <2> HIDE DEF h
  <2>3. CurrentGroups(n)' = CurrentGroups(n) /\ \A g : Gone(n, g)' = Gone(n, g)
    BY <2>1, <2>2, CurrentLeft
  <2>4. Hand' = Hand /\ epoch' = epoch
    BY <2>1 DEF Left, clientVars, Hand
  <2> QED BY <1>1, <2>3, <2>4
<1>7. CASE WriteBack
  <2> DEFINE h == Head(groups_to_inject)
  <2>1. WrittenBack(h)
    BY <1>7, WriteBackEffect
  <2>2. /\ n # h.name => CurrentGroups(n)' = CurrentGroups(n)
        /\ n # h.name => \A g : Gone(n, g) = g.current_packet_index + 0
        /\ n = h.name => CurrentGroups(n)' =
             IF HasActive(n) /\ HasMore(h) THEN {Advanced(h)} ELSE {}
        /\ \A g : Gone(n, g)' = g.current_packet_index + 0
    BY <1>7, CurrentWrittenBack
  <2>3. n = h.name => r = RecordOf(h)
    BY <1>7, WrittenIsLast DEF WriteBack
  <2>4. epoch' = epoch
    BY <1>7 DEF WriteBack, NextInList, clientVars
  <2> HIDE DEF h
  <2>5. CASE n # h.name
    <3>1. {g \in Hand' : g.name = n} \subseteq Hand
      BY <2>1 DEF WrittenBack
    <3> QED BY <1>1, <2>2, <2>4, <2>5, <3>1
  <2>6. CASE n = h.name
    <3>1. \A g \in Hand' : g.name # n
      BY <2>1, <2>6 DEF WrittenBack
    <3>2. h \in Hand /\ h.group \in Group
      BY <2>1 DEF WrittenBack, GroupInHand
    <3>3. r.packets = h.group.packets /\ r.index = h.group.current_packet_index
          /\ r.epoch = h.epoch
      BY <2>3, <2>6 DEF RecordOf
    <3>4. CASE HasActive(n) /\ HasMore(h)
      <4>0. PICK a : a = Advanced(h)
        OBVIOUS
      <4>1. CurrentGroups(n)' = {a}
        BY <2>2, <2>6, <3>4, <4>0
      <4>2. a.packets = h.group.packets /\ a.current_packet_index = h.group.current_packet_index + 1
        BY <3>2, <4>0 DEF Advanced, Group
      <4>3. Gone(n, a)' = r.index + 1
        <5>1. Gone(n, a)' = a.current_packet_index + 0
          BY <2>2
        <5> QED BY <3>2, <3>3, <4>2, <5>1 DEF Group
      <4> QED BY <3>1, <3>3, <4>1, <4>2, <4>3 DEF LastOrder
    <3>5. CASE ~(HasActive(n) /\ HasMore(h))
      <4>1. CurrentGroups(n)' = {}
        BY <2>2, <2>6, <3>5
      <4>2. CASE ~HasMore(h)
        <5>1. HasPacketLeft(h.group)
          BY <3>2 DEF Hand, IndexInBounds
        <5>2. Len(h.group.packets) \in Nat
          BY <3>2, LenProperties DEF Group
        <5>3. Finished(r)
          BY <3>2, <3>3, <4>2, <5>1, <5>2 DEF Group, HasMore, HasPacketLeft, Finished
        <5> QED BY <3>1, <4>1, <5>3 DEF LastOrder, Finished
      <4>3. CASE ~HasActive(n)
        <5>1. r.epoch # epoch'[n]
          BY <2>4, <2>6, <3>2, <3>3, <4>3 DEF HandInv
        <5> QED BY <3>1, <4>1, <5>1 DEF LastOrder
      <4> QED BY <3>5, <4>2, <4>3
    <3> QED BY <3>4, <3>5
  <2> QED BY <2>5, <2>6
<1> QED BY <1>2, <1>3, <1>4, <1>5, <1>6, <1>7, Steps

\* Every step keeps LastInv.
LEMMA LastStep ==
  TypeOK /\ HandInv /\ IndexInBounds /\ FreshInv /\ EpochInv /\ OutInv /\ LastInv /\ [Next]_vars
    => LastInv'
<1> SUFFICES ASSUME TypeOK, HandInv, IndexInBounds, FreshInv, EpochInv, OutInv, LastInv,
                    [Next]_vars, NEW n \in Names, NEW k, IsLast(n, k)',
                    NEW r, r = injected'[k]
             PROVE  LastOrder(n, r)'
  BY DEF LastInv, LastOrder, Finished
<1>1. CASE /\ IsLast(n, k) /\ injected'[k] = injected[k]
           /\ Inject => n # Head(groups_to_inject).name
  <2>1. r = injected[k] /\ LastOrder(n, r)
    BY <1>1 DEF LastInv, IsLast
  <2> QED BY <1>1, <2>1, LastKept
<1>2. CASE /\ Inject /\ n = Head(groups_to_inject).name
           /\ injected'[k] = RecordOf(Head(groups_to_inject))
  <2> DEFINE h == Head(groups_to_inject)
  <2>1. Left(h)
    BY <1>2, InjectEffect
  <2>2. n = h.name /\ r = RecordOf(h)
    BY <1>2
  <2> HIDE DEF h
  <2>3. h \in Hand /\ Hand' = Hand /\ h.group.current_packet_index \in Nat
    BY <2>1, LeavingPacket DEF Left, Hand
  <2>4. CurrentGroups(n)' = {h.group}
        /\ \A g : Gone(n, g)' = g.current_packet_index + 1
    BY <2>1, <2>2, <2>3, CurrentLeft, InHandIsCurrent
  <2>5. r.packets = h.group.packets /\ r.index = h.group.current_packet_index
    BY <2>2 DEF RecordOf
  <2>6. \A g \in Hand : g.name = n => g = h
    BY <2>2, <2>3 DEF HandInv, Hand
  <2> QED BY <2>3, <2>4, <2>5, <2>6 DEF LastOrder
<1> QED BY <1>1, <1>2, LastRecord

\* Every step keeps AtomicGroups.
LEMMA AtomicStep ==
  TypeOK /\ HandInv /\ IndexInBounds /\ LastInv /\ AtomicGroups /\ [Next]_vars => AtomicGroups'
<1> SUFFICES ASSUME TypeOK, HandInv, IndexInBounds, LastInv, AtomicGroups, Inject
             PROVE  AtomicGroups'
  BY InjectedGrows DEF AtomicGroups, Consecutive
<1> DEFINE h == Head(groups_to_inject)
<1>1. Left(h)
  BY InjectEffect
<1> HIDE DEF h
<1> SUFFICES ASSUME NEW j \in DOMAIN injected', NEW k \in DOMAIN injected', Consecutive(j, k)'
             PROVE  \/ /\ injected'[k].packets = injected'[j].packets
                       /\ injected'[k].index = injected'[j].index + 1
                    \/ /\ injected'[k].index = 0
                       /\ \/ injected'[j].index + 1 = Len(injected'[j].packets)
                          \/ injected'[j].epoch # injected'[k].epoch
  BY DEF AtomicGroups
<1>2. j \in DOMAIN injected /\ injected'[j] = injected[j]
  BY <1>1, ConsecutiveNext
<1>3. CASE k \in DOMAIN injected /\ injected'[k] = injected[k] /\ Consecutive(j, k)
  BY <1>2, <1>3 DEF AtomicGroups
<1>4. CASE injected'[k] = RecordOf(h) /\ IsLast(h.name, j)
  <2>1. h \in Hand /\ h.name \in Names /\ h.group \in CurrentGroups(h.name)
        /\ h.group.current_packet_index \in Nat
    BY <1>1, LeavingPacket DEF Left
  <2>2. Gone(h.name, h.group) = h.group.current_packet_index
    BY <1>1, <2>1, CurrentLeft
  <2>3. LastOrder(h.name, injected[j])
    BY <1>2, <1>4, <2>1 DEF LastInv
  <2>4. /\ injected'[k].packets = h.group.packets
        /\ injected'[k].index = h.group.current_packet_index
        /\ injected'[k].epoch = h.epoch
    BY <1>4 DEF RecordOf
  <2>5. CASE h.group.current_packet_index = 0
    <3>1. Finished(injected[j]) \/ injected[j].epoch # h.epoch
      BY <2>1, <2>2, <2>3, <2>5 DEF LastOrder
    <3> QED BY <1>2, <2>4, <2>5, <3>1 DEF Finished
  <2>6. CASE h.group.current_packet_index > 0
    BY <1>2, <2>1, <2>2, <2>3, <2>4, <2>6 DEF LastOrder
  <2> QED BY <2>1, <2>5, <2>6
<1> QED BY <1>1, <1>3, <1>4, ConsecutiveNext

--------------------------------------------------------------------------------
(* Times *)

\* Division with remainder.
LEMMA DivMod ==
  ASSUME NEW m \in Nat \ {0}, NEW x \in Nat
  PROVE  x = m * (x \div m) + (x % m) /\ x \div m \in Int /\ x % m \in 0 .. m - 1
OBVIOUS

\* The quotient grows with the dividend.
LEMMA QuotientGrows ==
  ASSUME NEW m \in Nat \ {0}, NEW x \in Nat, NEW y \in Nat, NEW p \in Int, NEW q \in Int,
         NEW r \in 0 .. m - 1, NEW s \in 0 .. m - 1,
         x = m * p + r, y = m * q + s, x <= y
  PROVE  p <= q
<1> SUFFICES ASSUME p >= q + 1
             PROVE  FALSE
  OBVIOUS
<1>1. m * (p - (q + 1)) >= 0
  OBVIOUS
<1>2. m * p >= m * q + m
  BY <1>1
<1> QED BY <1>2

\* The difference of two times modulo m is at most what is between them.
LEMMA Wrap ==
  ASSUME NEW m \in Nat \ {0}, NEW a \in Nat, NEW c \in Nat, a <= c
  PROVE  ((c % m) - (a % m)) % m <= c - a
<1> DEFINE p == a \div m
           q == c \div m
           r == a % m
           s == c % m
<1>1. a = m * p + r /\ p \in Int /\ r \in 0 .. m - 1
  BY DivMod
<1>2. c = m * q + s /\ q \in Int /\ s \in 0 .. m - 1
  BY DivMod
<1> HIDE DEF p, q, r, s
<1>3. p <= q
  BY <1>1, <1>2, QuotientGrows
<1>4. CASE s >= r
  <2>1. (s - r) % m = s - r
    BY <1>1, <1>2, <1>4
  <2>2. m * (q - p) >= 0
    BY <1>1, <1>2, <1>3
  <2>3. m * q >= m * p
    BY <1>1, <1>2, <2>2
  <2> QED BY <1>1, <1>2, <2>1, <2>3 DEF r, s
<1>5. CASE s < r
  <2>1. (s - r) % m = s - r + m
    BY <1>1, <1>2, <1>5
  <2>2. p # q
    BY <1>1, <1>2, <1>5
  <2>3. m * (q - p - 1) >= 0
    BY <1>1, <1>2, <1>3, <2>2
  <2>4. m * q >= m * p + m
    BY <1>1, <1>2, <2>3
  <2> QED BY <1>1, <1>2, <2>1, <2>4 DEF r, s
<1> QED BY <1>1, <1>2, <1>4, <1>5

\* When the group in hand is injected, at the earliest.
Moment == IF injector = "stamp" THEN clock ELSE stamped

\* Nothing was injected after the last stamp, and a scan works with a time that
\* is not before it.
ClockInv ==
  /\ stamped <= clock
  /\ \A k \in DOMAIN injected : injected[k].at <= stamped
  /\ injector = "scan" => \E c \in stamped .. clock : current_time_ms = c % TickModulus

\* r, the last injection from n: if it ended its group, the queue has the time of
\* it; if a new group is in hand, the queue's interval has passed.
LastTime(n, r) ==
  /\ Finished(r) /\ r.epoch = epoch[n] /\ ~IsOut(n) =>
       n \in Known /\ queue_configs[n].last_injection_time_ms = r.at % TickModulus
  /\ \A h \in Hand : h.name = n /\ Gone(n, h.group) = 0 /\ r.epoch = h.epoch =>
       Moment - r.at >= h.injection_interval_ms

TimeInv == \A n \in Names, k \in DOMAIN injected : IsLast(n, k) => LastTime(n, injected[k])

\* Every step keeps ClockInv.
LEMMA ClockStep == TypeOK /\ HandInv /\ ClockInv /\ [Next]_vars => ClockInv'
<1> SUFFICES ASSUME TypeOK, HandInv, ClockInv, [Next]_vars
             PROVE  ClockInv'
  OBVIOUS
<1>0. /\ clock \in Nat /\ stamped \in Nat
      /\ \A k \in DOMAIN injected : injected[k].at \in Nat
  <2>1. injected \in Seq(InjectionRecord)
    BY DEF TypeOK
  <2>2. \A k \in DOMAIN injected : injected[k] \in InjectionRecord
    BY <2>1, Elements
  <2> QED BY <2>2 DEF TypeOK, InjectionRecord
\* Steps at which at most time passes.
<1>1. ASSUME UNCHANGED <<stamped, injected, current_time_ms>>, clock' \in Nat, clock <= clock',
             injector' = "scan" => injector = "scan"
      PROVE  ClockInv'
  <2>1. stamped' <= clock' /\ \A k \in DOMAIN injected' : injected'[k].at <= stamped'
    BY <1>0, <1>1 DEF ClockInv
  <2>2. stamped .. clock \subseteq stamped .. clock'
    BY <1>0, <1>1
  <2> QED BY <1>1, <2>1, <2>2 DEF ClockInv
<1>2. CASE TimePasses
  BY <1>0, <1>1, <1>2 DEF TimePasses, injectorVars
<1>3. CASE TimerFires
  <2>1. UNCHANGED <<clock, stamped, injected>> /\ current_time_ms' = clock % TickModulus
    BY <1>3 DEF TimerFires, GetTickCount
  <2>2. clock \in stamped .. clock
    BY <1>0 DEF ClockInv
  <2> QED BY <2>1, <2>2 DEF ClockInv
<1>4. CASE Stamp
  <2>1. stamped' = clock /\ UNCHANGED <<clock, injected>> /\ injector' = "inject"
    BY <1>4 DEF Stamp
  <2>2. \A k \in DOMAIN injected : injected[k].at <= clock
    BY <1>0 DEF ClockInv
  <2> QED BY <1>0, <2>1, <2>2 DEF ClockInv
<1>5. CASE Inject
  <2> DEFINE h == Head(groups_to_inject)
  <2>1. Left(h)
    BY <1>5, InjectEffect
  <2> HIDE DEF h
  <2>2. \A k \in DOMAIN injected' : injected'[k].at <= stamped
    <3>1. RecordOf(h).at <= stamped
      BY <1>0 DEF RecordOf
    <3> QED BY <2>1, <3>1, Appended DEF ClockInv
  <2>3. UNCHANGED <<clock, stamped>> /\ injector' = "write_back"
    BY <2>1 DEF Left
  <2> QED BY <2>2, <2>3 DEF ClockInv
<1>6. CASE Command
  BY <1>0, <1>1, <1>6, CommandEffect DEF Commanded, injectorVars
<1>7. ASSUME NEW n \in Names, InjectPacket(n)
      PROVE  ClockInv'
  BY <1>0, <1>1, <1>7 DEF InjectPacket, injectorVars
<1>8. CASE ScanNothingReady \/ Scan \/ WriteBack
  <2>1. UNCHANGED <<clock, stamped, injected, current_time_ms>> /\ injector' # "scan"
    BY <1>8 DEF ScanNothingReady, Scan, WriteBack, NextInList
  <2> QED BY <1>0, <1>1, <2>1
<1>9. CASE UNCHANGED vars
  BY <1>0, <1>1, <1>9 DEF vars, injectorVars
<1> QED BY <1>2, <1>3, <1>4, <1>5, <1>6, <1>7, <1>8, <1>9, Steps DEF Quiet

\* A group in hand does not become too early for its injection.
LEMMA MomentStep ==
  ASSUME TypeOK, HandInv, ClockInv, [Next]_vars, ~Scan, NEW h, h \in Hand'
  PROVE  h \in Hand /\ Moment \in Nat /\ Moment' \in Nat /\ Moment <= Moment'
<1>1. Moment \in Nat /\ Moment' \in Nat
  BY TypeStep DEF TypeOK, Moment
<1>2. CASE Quiet
  <2>1. Hand' = Hand
    BY <1>2, QuietEffect DEF Hand
  <2>2. groups_to_inject # <<>>
    BY <2>1 DEF Hand
  <2>3. injector \notin {"idle", "scan"}
    BY <2>2 DEF HandInv
  <2>4. Moment <= Moment'
    BY <1>1, <1>2, <2>3 DEF Quiet, TimePasses, TimerFires, ScanNothingReady, Stamp, Moment,
       ClockInv, TypeOK, vars, injectorVars
  <2> QED BY <1>1, <2>1, <2>4
<1>3. CASE Command \/ (\E n \in Names : InjectPacket(n))
  <2>1. UNCHANGED <<clock, injector, stamped, groups_to_inject>>
    BY <1>3, CommandEffect DEF Commanded, InjectPacket, injectorVars
  <2> QED BY <1>1, <2>1 DEF Hand, Moment
<1>4. CASE Inject
  <2>1. UNCHANGED <<clock, stamped, groups_to_inject>> /\ injector = "inject"
        /\ injector' = "write_back"
    BY <1>4 DEF Inject
  <2> QED BY <1>1, <2>1 DEF Hand, Moment
<1>5. CASE WriteBack
  <2>1. UNCHANGED <<clock, stamped>> /\ injector = "write_back" /\ injector' # "stamp"
    BY <1>5 DEF WriteBack, NextInList
  <2>2. Hand' \subseteq Hand
    BY <1>5, WriteBackEffect DEF WrittenBack
  <2> QED BY <1>1, <2>1, <2>2 DEF Moment
<1> QED BY <1>2, <1>3, <1>4, <1>5, Steps

\* The times a and c as tick counts show at most what is between them.
LEMMA WrapShown ==
  ASSUME NEW a \in Nat, NEW c \in Nat, a <= c,
         NEW x, x = c % TickModulus, NEW y, y = a % TickModulus
  PROVE  (x - y) % TickModulus \in Int /\ (x - y) % TickModulus <= c - a
<1> DEFINE m == TickModulus
<1>1. m \in Nat \ {0}
  BY TickAssumption
<1>2. x = c % m /\ y = a % m
  OBVIOUS
<1> HIDE DEF m
<1>3. ((c % m) - (a % m)) % m <= c - a
  BY <1>1, Wrap
<1>4. x \in Int /\ y \in Int
  BY <1>1, <1>2
<1>5. (x - y) % m \in Int
  BY <1>1, <1>4
<1>6. (x - y) % m <= c - a
  BY <1>2, <1>3
<1> QED BY <1>5, <1>6 DEF m

\* An entry a scan takes begins its group only if the queue's interval has passed.
LEMMA ScanInterval ==
  ASSUME TypeOK, ClockInv, Scan, NEW n \in ReadyQueues,
         GroupToCheck(n).current_packet_index = 0,
         NEW at \in Nat, at <= stamped,
         queue_configs[n].last_injection_time_ms = at % TickModulus
  PROVE  Moment' - at >= queue_configs[n].injection_interval_ms
<1> DEFINE d == (current_time_ms - queue_configs[n].last_injection_time_ms) % TickModulus
<1>1. n \in Known /\ Ready(n)
  BY DEF ReadyQueues
<1>2. queue_configs[n].injection_interval_ms \in Nat
  BY <1>1 DEF TypeOK, QueueConfig
<1>3. d >= queue_configs[n].injection_interval_ms
  BY <1>1 DEF Ready
<1>4. PICK c \in stamped .. clock : current_time_ms = c % TickModulus
  BY DEF ClockInv, Scan
<1>5. clock \in Nat /\ stamped \in Nat /\ c \in Nat /\ at <= c /\ c <= clock
  BY <1>4 DEF TypeOK
<1>6. d \in Int /\ d <= c - at
  BY <1>4, <1>5, WrapShown
<1>7. Moment' = clock
  BY DEF Scan, Moment
<1> HIDE DEF d
<1> QED BY <1>2, <1>3, <1>5, <1>6, <1>7

\* The times after the last injection survive a step that injects nothing of n.
LEMMA TimeKept ==
  ASSUME TypeOK, HandInv, IndexInBounds, FreshInv, EpochInv, OutInv, ClockInv, [Next]_vars,
         NEW n \in Names, NEW k, IsLast(n, k), NEW r, r = injected[k],
         LastOrder(n, r)', LastTime(n, r), Inject => n # Head(groups_to_inject).name
  PROVE  LastTime(n, r)'
<1>0. r \in InjectionRecord /\ r.name = n /\ r.at \in Nat /\ r.at <= stamped
      /\ r.epoch \in Nat /\ r.epoch <= epoch[n]
  <2>1. injected \in Seq(InjectionRecord)
    BY DEF TypeOK
  <2>2. r \in InjectionRecord /\ r.name = n
    BY <2>1, Elements DEF IsLast
  <2> QED BY <2>2 DEF IsLast, EpochInv, InjectionRecord, ClockInv
\* The entries in hand that were so before.
<1>1. ASSUME ~Scan, \A h \in Hand' : h.name = n => Gone(n, h.group)' = Gone(n, h.group)
      PROVE  \A h \in Hand' : h.name = n /\ Gone(n, h.group)' = 0 /\ r.epoch = h.epoch =>
               Moment' - r.at >= h.injection_interval_ms
  <2> SUFFICES ASSUME NEW h \in Hand', h.name = n, Gone(n, h.group)' = 0, r.epoch = h.epoch
               PROVE  Moment' - r.at >= h.injection_interval_ms
    OBVIOUS
  <2>1. h \in Hand /\ Moment \in Nat /\ Moment' \in Nat /\ Moment <= Moment'
    BY <1>1, MomentStep
  <2>2. Moment - r.at >= h.injection_interval_ms
    BY <1>1, <2>1 DEF LastTime
  <2>3. h.injection_interval_ms \in Nat
    BY <2>1, HandType DEF GroupInHand
  <2> QED BY <1>0, <2>1, <2>2, <2>3
<1>2. ASSUME ~Scan, \A h \in Hand' : h.name = n => Gone(n, h.group)' = Gone(n, h.group),
             epoch'[n] = epoch[n], IsOut(n)' <=> IsOut(n), n \in Known => n \in Known',
             n \in Known => queue_configs'[n].last_injection_time_ms
                              = queue_configs[n].last_injection_time_ms
      PROVE  LastTime(n, r)'
  BY <1>1, <1>2 DEF LastTime, Finished
<1>3. CASE Quiet
  <2>1. UNCHANGED <<epoch, queue_configs, groups_to_inject>> /\ ~Scan
        /\ (injector' = "write_back" <=> injector = "write_back")
    BY <1>3, QuietEffect DEF Quiet, TimePasses, TimerFires, ScanNothingReady, Stamp, vars, Scan,
       injectorVars
  <2>2. \A g : Gone(n, g)' = Gone(n, g)
    BY <2>1, CurrentSame
  <2>3. IsOut(n)' <=> IsOut(n)
    BY <2>1 DEF IsOut
  <2> QED BY <1>2, <2>1, <2>2, <2>3
<1>4. CASE Command
  <2>1. PICK S \in SUBSET Names : Commanded(S)
    BY <1>4, CommandEffect
  <2>2. (\A g : Gone(n, g)' = Gone(n, g)) /\ (IsOut(n)' <=> IsOut(n)) /\ ~Scan
    BY <2>1, CurrentCommanded DEF Commanded, injectorVars, IsOut, Scan
  <2>3. CASE n \notin S
    <3>1. /\ epoch'[n] = epoch[n]
          /\ n \in Known => n \in Known'
          /\ n \in Known => queue_configs'[n] = queue_configs[n]
      BY <2>1, <2>3 DEF Commanded
    <3> QED BY <1>2, <2>2, <3>1
  <2>4. CASE n \in S
    <3>1. epoch'[n] = epoch[n] + 1 /\ epoch[n] \in Nat
      BY <2>1, <2>4 DEF Commanded, TypeOK
    <3>2. r.epoch # epoch'[n]
      BY <1>0, <3>1
    <3> QED BY <1>1, <2>2, <3>2 DEF LastTime
  <2> QED BY <2>3, <2>4
<1>5. ASSUME NEW m \in Names, InjectPacket(m)
      PROVE  LastTime(n, r)'
  <2>1. UNCHANGED <<epoch, queue_configs, groups_to_inject, injector>> /\ ~Scan
    BY <1>5 DEF InjectPacket, injectorVars, Scan
  <2>2. \A g : Gone(n, g)' = Gone(n, g)
    BY <2>1, CurrentSame
  <2>3. IsOut(n)' <=> IsOut(n)
    BY <2>1 DEF IsOut
  <2> QED BY <1>2, <2>1, <2>2, <2>3
<1>6. CASE Scan
  <2>1. PICK S \in SUBSET ReadyQueues : Scanned(S)
    BY <1>6, ScanEffect
  <2>2. epoch' = epoch /\ ~IsOut(n) /\ ~IsOut(n)'
    BY <1>6 DEF Scan, clientVars, IsOut
  <2>3. n \in Known => n \in Known' /\ queue_configs'[n].last_injection_time_ms
                                         = queue_configs[n].last_injection_time_ms
    BY <2>1 DEF Scanned, TypeOK, QueueConfig
  <2>4. Finished(r) /\ r.epoch = epoch'[n] /\ ~IsOut(n)' =>
          n \in Known' /\ queue_configs'[n].last_injection_time_ms = r.at % TickModulus
    BY <2>2, <2>3 DEF LastTime
  <2>5. ASSUME NEW h \in Hand', h.name = n, Gone(n, h.group)' = 0, r.epoch = h.epoch
        PROVE  Moment' - r.at >= h.injection_interval_ms
    <3>1. n \in S /\ h = ToInject(n)
      <4>1. PICK m \in S : h = ToInject(m)
        BY <2>1, <2>5 DEF Scanned
      <4>2. m = n
        BY <2>5, <4>1 DEF ToInject
      <4> QED BY <4>1, <4>2
    <3>2. h.group = GroupToCheck(n) /\ h.epoch = epoch[n]
          /\ h.injection_interval_ms = queue_configs[n].injection_interval_ms
      BY <3>1 DEF ToInject
    <3>3. Finished(r)
      BY <2>5 DEF LastOrder, Finished
    <3>4. queue_configs[n].last_injection_time_ms = r.at % TickModulus
      BY <2>2, <2>5, <3>2, <3>3 DEF LastTime
    <3>5. GroupToCheck(n).current_packet_index = 0
      <4>1. \A g : Gone(n, g)' = g.current_packet_index + 0
        BY <1>6, <2>1, CurrentScanned
      <4>2. h.group \in Group
        <5>1. n \in Known /\ HasGroup(n)
          BY <3>1 DEF ReadyQueues, Ready
        <5> QED BY <3>2, <5>1, GroupToCheckType
      <4> QED BY <2>5, <3>2, <4>1, <4>2 DEF Group
    <3> QED BY <1>0, <1>6, <3>1, <3>2, <3>4, <3>5, ScanInterval
  <2> QED BY <2>4, <2>5 DEF LastTime, Finished
<1>7. CASE Inject
  <2> DEFINE h == Head(groups_to_inject)
  <2>1. Left(h)
    BY <1>7, InjectEffect
  <2>2. n # h.name
    BY <1>7
  <2>3. ~IsOut(n) /\ ~IsOut(n)' /\ ~Scan
    BY <2>1, <2>2 DEF Left, IsOut, Scan
  <2> HIDE DEF h
  <2>4. \A g : Gone(n, g)' = Gone(n, g)
    BY <2>1, <2>2, CurrentLeft
  <2>5. UNCHANGED <<epoch, queue_configs>>
    BY <2>1 DEF Left, clientVars, tables
  <2> QED BY <1>2, <2>3, <2>4, <2>5
<1>8. CASE WriteBack
  <2> DEFINE h == Head(groups_to_inject)
  <2>1. WrittenBack(h)
    BY <1>8, WriteBackEffect
  <2>2. n = h.name => r = RecordOf(h)
    BY <1>8, WrittenIsLast DEF WriteBack
  <2>3. epoch' = epoch /\ ~IsOut(n)' /\ (n # h.name => ~IsOut(n)) /\ ~Scan
    BY <1>8 DEF WriteBack, NextInList, clientVars, IsOut, Scan
  <2>4. /\ n # h.name => \A g : Gone(n, g) = g.current_packet_index + 0
        /\ \A g : Gone(n, g)' = g.current_packet_index + 0
    BY <1>8, CurrentWrittenBack
  <2> HIDE DEF h
  <2>5. CASE n # h.name
    <3>1. n \in Known => n \in Known' /\ queue_configs'[n] = queue_configs[n]
      BY <2>1, <2>5 DEF WrittenBack
    <3> QED BY <1>2, <2>3, <2>4, <2>5, <3>1
  <2>6. CASE n = h.name
    <3>1. \A g \in Hand' : g.name # n
      BY <2>1, <2>6 DEF WrittenBack
    <3>2. r.packets = h.group.packets /\ r.index = h.group.current_packet_index
          /\ r.at = stamped
      BY <2>2, <2>6 DEF RecordOf
    <3>3. n \in Known' /\ (Finished(r) =>
                             queue_configs'[n].last_injection_time_ms = r.at % TickModulus)
      <4>1. Finished(r) => ~HasMore(h)
        <5>1. h.group \in Group
          BY <2>1 DEF WrittenBack, GroupInHand
        <5>2. Len(h.group.packets) \in Nat
          BY <5>1, LenProperties DEF Group
        <5> QED BY <3>2, <5>1, <5>2 DEF Finished, HasMore, Group
      <4> QED BY <2>1, <2>6, <3>2, <4>1 DEF WrittenBack, new_timestamp
    <3> QED BY <3>1, <3>3 DEF LastTime, Finished
  <2> QED BY <2>5, <2>6
<1> QED BY <1>3, <1>4, <1>5, <1>6, <1>7, <1>8, Steps

\* The times after the last injection from n, whether it is new or not.
LEMMA TimeNext ==
  ASSUME TypeOK, HandInv, IndexInBounds, FreshInv, EpochInv, OutInv, LastInv,
         ClockInv, TimeInv, [Next]_vars, NEW n \in Names, NEW k, IsLast(n, k)',
         NEW r, r = injected'[k]
  PROVE  LastTime(n, r)'
<1>1. CASE /\ IsLast(n, k) /\ injected'[k] = injected[k]
           /\ Inject => n # Head(groups_to_inject).name
  <2>1. r = injected[k] /\ LastOrder(n, r) /\ LastTime(n, r)
    BY <1>1 DEF LastInv, TimeInv, IsLast
  <2>2. LastOrder(n, r)'
    BY <1>1, <2>1, LastKept
  <2> QED BY <1>1, <2>1, <2>2, TimeKept
<1>2. CASE /\ Inject /\ n = Head(groups_to_inject).name
           /\ injected'[k] = RecordOf(Head(groups_to_inject))
  <2>0. PICK h : h = Head(groups_to_inject)
    OBVIOUS
  <2>1. Left(h)
    BY <1>2, <2>0, InjectEffect
  <2>2. n = h.name /\ IsOut(n)'
    BY <1>2, <2>0, <2>1 DEF Left, IsOut
  <2>3. h \in Hand /\ Hand' = Hand /\ h.group.current_packet_index \in Nat
    BY <2>1, LeavingPacket DEF Left, Hand
  <2>4. \A g : Gone(n, g)' = g.current_packet_index + 1
    BY <2>1, <2>2, <2>3, CurrentLeft
  <2>5. \A g \in Hand : g.name = n => g = h
    BY <2>2, <2>3 DEF HandInv, Hand
  <2>6. Gone(n, h.group)' # 0
    <3>1. Gone(n, h.group)' = h.group.current_packet_index + 1
      BY <2>4
    <3> QED BY <2>3, <3>1
  <2> QED BY <2>2, <2>3, <2>5, <2>6 DEF LastTime
<1> QED BY <1>1, <1>2, LastRecord

\* Every step keeps TimeInv.
LEMMA TimeStep ==
  TypeOK /\ HandInv /\ IndexInBounds /\ FreshInv /\ EpochInv /\ OutInv
    /\ LastInv /\ ClockInv /\ TimeInv /\ [Next]_vars => TimeInv'
<1> SUFFICES ASSUME TypeOK, HandInv, IndexInBounds, FreshInv, EpochInv, OutInv, LastInv,
                    ClockInv, TimeInv, [Next]_vars
             PROVE  TimeInv'
  OBVIOUS
<1>1. ASSUME NEW n \in Names, NEW k \in DOMAIN injected', IsLast(n, k)'
      PROVE  LastTime(n, injected[k])'
  <2>1. PICK r : r = injected'[k]
    OBVIOUS
  <2>2. LastTime(n, r)'
    BY <1>1, <2>1, TimeNext
  <2> QED BY <2>1, <2>2 DEF LastTime, Finished
<1> QED BY <1>1 DEF TimeInv, LastTime, Finished

\* Every step keeps IntervalRespected.
LEMMA IntervalStep ==
  TypeOK /\ HandInv /\ IndexInBounds /\ TimeInv /\ IntervalRespected /\ [Next]_vars
    => IntervalRespected'
<1> SUFFICES ASSUME TypeOK, HandInv, IndexInBounds, TimeInv, IntervalRespected, Inject
             PROVE  IntervalRespected'
  BY InjectedGrows DEF IntervalRespected, Consecutive
<1> DEFINE h == Head(groups_to_inject)
<1>1. Left(h)
  BY InjectEffect
<1> HIDE DEF h
<1> SUFFICES ASSUME NEW j \in DOMAIN injected', NEW k \in DOMAIN injected', Consecutive(j, k)',
                    injected'[k].index = 0, injected'[j].epoch = injected'[k].epoch
             PROVE  injected'[k].at - injected'[j].at >= injected'[k].injection_interval_ms
  BY DEF IntervalRespected
<1>2. j \in DOMAIN injected /\ injected'[j] = injected[j]
  BY <1>1, ConsecutiveNext
<1>3. CASE k \in DOMAIN injected /\ injected'[k] = injected[k] /\ Consecutive(j, k)
  BY <1>2, <1>3 DEF IntervalRespected
<1>4. CASE injected'[k] = RecordOf(h) /\ IsLast(h.name, j)
  <2>1. h \in Hand /\ h.name \in Names
    BY <1>1, LeavingPacket DEF Left
  <2>2. /\ injected'[k].at = stamped /\ injected'[k].index = h.group.current_packet_index
        /\ injected'[k].epoch = h.epoch
        /\ injected'[k].injection_interval_ms = h.injection_interval_ms
    BY <1>4 DEF RecordOf
  <2>3. Gone(h.name, h.group) = 0
    <3>1. Gone(h.name, h.group) = h.group.current_packet_index + 0
      BY <1>1, <2>1, CurrentLeft
    <3> QED BY <2>2, <3>1
  <2>4. LastTime(h.name, injected[j])
    BY <1>2, <1>4, <2>1 DEF TimeInv
  <2>5. Moment = stamped
    BY <1>1 DEF Left, Moment
  <2>6. Moment - injected[j].at >= h.injection_interval_ms
    BY <1>2, <2>1, <2>2, <2>3, <2>4 DEF LastTime
  <2> QED BY <1>2, <2>2, <2>5, <2>6
<1> QED BY <1>1, <1>3, <1>4, ConsecutiveNext

--------------------------------------------------------------------------------
(* Delays *)

\* The delay before the packet at index, after the injection r.
Wait(r, index) == Delay(r.packet_intervals_ms, index)

\* It ends before the tick count wraps.
Unwrapped(r, index) == (r.at % TickModulus) + Wait(r, index) < TickModulus

\* r, the last injection from n: the next packet of its group is due, or in hand,
\* when the delay before that packet has passed.
LastDelay(n, r) ==
  /\ HasActive(n) /\ ~(\E h \in Hand : h.name = n)
       /\ Unwrapped(r, queue_configs[n].active_group.current_packet_index) =>
       queue_configs[n].active_group.next_packet_time_ms =
         (r.at % TickModulus) + Wait(r, queue_configs[n].active_group.current_packet_index)
  /\ \A h \in Hand :
       /\ h.name = n /\ ~IsOut(n) /\ h.group.current_packet_index > 0
       /\ Unwrapped(r, h.group.current_packet_index)
       => Moment - r.at >= Wait(r, h.group.current_packet_index)

DelayInv == \A n \in Names, k \in DOMAIN injected : IsLast(n, k) => LastDelay(n, injected[k])

\* A delay of a configured list.
LEMMA WaitType ==
  ASSUME NEW r \in InjectionRecord, NEW index \in Nat
  PROVE  Wait(r, index) \in Nat
<1>1. PICK d \in Seq(Nat) : d = r.packet_intervals_ms
  BY DEF InjectionRecord
<1>2. CASE index < Len(d)
  <2>1. index + 1 \in DOMAIN d
    BY <1>2, LenProperties
  <2>2. d[index + 1] \in Nat
    BY <2>1, Elements
  <2> QED BY <1>1, <1>2, <2>2 DEF Wait, Delay
<1> QED BY <1>1, <1>2 DEF Wait, Delay

\* A time that is shown later by d, with no wrap in d, is later by d.
LEMMA ShownLater ==
  ASSUME NEW m \in Nat \ {0}, NEW a \in Nat, NEW c \in Nat, a <= c, NEW d \in Nat,
         c % m >= (a % m) + d
  PROVE  c - a >= d
<1> DEFINE p == a \div m
           q == c \div m
           r == a % m
           s == c % m
<1>1. a = m * p + r /\ p \in Int /\ r \in 0 .. m - 1
  BY DivMod
<1>2. c = m * q + s /\ q \in Int /\ s \in 0 .. m - 1
  BY DivMod
<1>3. s >= r + d
  OBVIOUS
<1> HIDE DEF p, q, r, s
<1>4. p <= q
  BY <1>1, <1>2, QuotientGrows
<1>5. m * (q - p) >= 0
  BY <1>1, <1>2, <1>4
<1>6. m * q >= m * p
  BY <1>1, <1>2, <1>5
<1> QED BY <1>1, <1>2, <1>3, <1>6

\* A sum below the modulus is shown as it is.
LEMMA SumShown ==
  ASSUME NEW m \in Nat \ {0}, NEW x \in Nat, NEW d \in Nat, x + d < m
  PROVE  (x + d) % m = x + d
OBVIOUS

\* The delay after the last injection survives a step that injects nothing of n.
LEMMA DelayKept ==
  ASSUME TypeOK, HandInv, FreshInv, OutInv, ClockInv, [Next]_vars,
         NEW n \in Names, NEW k, IsLast(n, k), NEW r, r = injected[k], LastDelay(n, r),
         Inject => n # Head(groups_to_inject).name
  PROVE  LastDelay(n, r)'
<1>0. r.name = n /\ r.at \in Nat /\ r.at <= stamped /\ stamped <= clock /\ clock \in Nat
      /\ stamped \in Nat /\ r \in InjectionRecord
  <2>1. injected \in Seq(InjectionRecord)
    BY DEF TypeOK
  <2>2. r \in InjectionRecord /\ r.name = n
    BY <2>1, Elements DEF IsLast
  <2> QED BY <2>2 DEF IsLast, InjectionRecord, ClockInv, TypeOK
<1> DEFINE held == \E h \in Hand : h.name = n
\* The entries in hand that were so before.
<1>1. ASSUME ~Scan, IsOut(n)' <=> IsOut(n)
      PROVE  \A h \in Hand' :
               /\ h.name = n /\ ~IsOut(n)' /\ h.group.current_packet_index > 0
               /\ Unwrapped(r, h.group.current_packet_index)
               => Moment' - r.at >= Wait(r, h.group.current_packet_index)
  <2> SUFFICES ASSUME NEW h \in Hand', h.name = n, ~IsOut(n)', h.group.current_packet_index > 0,
                      Unwrapped(r, h.group.current_packet_index)
               PROVE  Moment' - r.at >= Wait(r, h.group.current_packet_index)
    OBVIOUS
  <2>1. h \in Hand /\ Moment \in Nat /\ Moment' \in Nat /\ Moment <= Moment'
    BY <1>1, MomentStep
  <2>2. Moment - r.at >= Wait(r, h.group.current_packet_index)
    BY <1>1, <2>1 DEF LastDelay
  <2>3. h.group.current_packet_index \in Nat
    BY <2>1, HandType DEF GroupInHand, Group
  <2>4. Wait(r, h.group.current_packet_index) \in Nat
    BY <1>0, <2>3, WaitType
  <2> QED BY <1>0, <2>1, <2>2, <2>4
<1>2. ASSUME ~Scan, IsOut(n)' <=> IsOut(n),
             HasActive(n)' /\ ~held' => /\ HasActive(n) /\ ~held
                                        /\ queue_configs'[n].active_group
                                             = queue_configs[n].active_group
      PROVE  LastDelay(n, r)'
  BY <1>1, <1>2 DEF LastDelay, Unwrapped, Wait
<1>3. CASE Quiet
  <2>1. UNCHANGED <<queue_configs, groups_to_inject>> /\ ~Scan
        /\ (injector' = "write_back" <=> injector = "write_back")
    BY <1>3, QuietEffect DEF Quiet, TimePasses, TimerFires, ScanNothingReady, Stamp, vars, Scan,
       injectorVars
  <2>2. (IsOut(n)' <=> IsOut(n)) /\ Hand' = Hand /\ (HasActive(n)' <=> HasActive(n))
    BY <2>1 DEF IsOut, Hand, HasActive
  <2> QED BY <1>2, <2>1, <2>2
<1>4. CASE Command
  <2>1. PICK S \in SUBSET Names : Commanded(S)
    BY <1>4, CommandEffect
  <2>2. (IsOut(n)' <=> IsOut(n)) /\ ~Scan /\ Hand' = Hand
    BY <2>1 DEF Commanded, injectorVars, IsOut, Scan, Hand
  <2>3. HasActive(n)' => HasActive(n) /\ queue_configs'[n] = queue_configs[n]
    BY <2>1 DEF Commanded, HasActive
  <2> QED BY <1>2, <2>2, <2>3
<1>5. ASSUME NEW m \in Names, InjectPacket(m)
      PROVE  LastDelay(n, r)'
  <2>1. UNCHANGED <<queue_configs, groups_to_inject, injector>> /\ ~Scan
    BY <1>5 DEF InjectPacket, injectorVars, Scan
  <2>2. (IsOut(n)' <=> IsOut(n)) /\ Hand' = Hand /\ (HasActive(n)' <=> HasActive(n))
    BY <2>1 DEF IsOut, Hand, HasActive
  <2> QED BY <1>2, <2>1, <2>2
<1>6. CASE Scan
  <2>1. PICK S \in SUBSET ReadyQueues : Scanned(S)
    BY <1>6, ScanEffect
  <2>2. groups_to_inject = <<>> /\ Hand = {} /\ Hand' = {ToInject(m) : m \in S}
    <3>1. groups_to_inject = <<>>
      BY <1>6 DEF Scan, HandInv
    <3>2. Hand = {}
      BY <3>1 DEF Hand
    <3> QED BY <2>1, <3>1, <3>2 DEF Scanned
  <2>3. Moment' = clock
    BY <1>6 DEF Scan, Moment
  <2>4. ASSUME HasActive(n)', ~held',
               Unwrapped(r, queue_configs'[n].active_group.current_packet_index)
        PROVE  queue_configs'[n].active_group.next_packet_time_ms =
                 (r.at % TickModulus)
                   + Wait(r, queue_configs'[n].active_group.current_packet_index)
    <3>1. n \notin S
      <4>1. ToInject(n).name = n
        BY DEF ToInject
      <4> QED BY <2>2, <2>4, <4>1
    <3>2. HasActive(n) /\ ~held /\ queue_configs'[n] = queue_configs[n]
      BY <2>1, <2>2, <2>4, <3>1 DEF Scanned, HasActive
    <3> QED BY <2>4, <3>2 DEF LastDelay
  <2>5. ASSUME NEW h \in Hand', h.name = n, h.group.current_packet_index > 0,
               Unwrapped(r, h.group.current_packet_index)
        PROVE  Moment' - r.at >= Wait(r, h.group.current_packet_index)
    <3>1. n \in S /\ h.group = GroupToCheck(n)
      <4>1. PICK m \in S : h = ToInject(m)
        BY <2>2
      <4> QED BY <2>5, <4>1 DEF ToInject
    <3>2. n \in Known /\ HasGroup(n) /\ current_time_ms >= h.group.next_packet_time_ms
      BY <3>1 DEF ReadyQueues, Ready
    <3>3. HasActive(n)
      <4> SUFFICES ASSUME ~HasActive(n)
                   PROVE  FALSE
        OBVIOUS
      <4>1. /\ packet_queues[n] \in Seq(Group) /\ packet_queues[n] # <<>>
            /\ h.group = Head(packet_queues[n])
        BY <3>1, <3>2 DEF TypeOK, HasGroup, HasActive, GroupToCheck
      <4>2. h.group = packet_queues[n][1] /\ 1 \in DOMAIN packet_queues[n]
        BY <4>1, HeadTailProperties, EmptySeq, LenProperties
      <4> QED BY <2>5, <4>2 DEF FreshInv
    <3>4. h.group = queue_configs[n].active_group
      BY <3>1, <3>3 DEF GroupToCheck, HasActive
    <3>5. h.group.next_packet_time_ms
            = (r.at % TickModulus) + Wait(r, h.group.current_packet_index)
      BY <2>2, <2>5, <3>3, <3>4 DEF LastDelay
    <3>6. h.group.current_packet_index \in Nat
      BY <3>1, <3>2, GroupToCheckType DEF Group
    <3>7. Wait(r, h.group.current_packet_index) \in Nat
      BY <1>0, <3>6, WaitType
    <3>8. PICK c \in stamped .. clock : current_time_ms = c % TickModulus
      BY <1>6 DEF ClockInv, Scan
    <3>9. c \in Nat /\ r.at <= c /\ c <= clock
      BY <1>0, <3>8
    <3>10. c - r.at >= Wait(r, h.group.current_packet_index)
      BY <1>0, <3>2, <3>5, <3>7, <3>8, <3>9, ShownLater, TickAssumption
    <3> QED BY <1>0, <2>3, <3>7, <3>9, <3>10
  <2> QED BY <2>4, <2>5 DEF LastDelay, Unwrapped, Wait
<1>7. CASE Inject
  <2>0. PICK h : h = Head(groups_to_inject)
    OBVIOUS
  <2>1. Left(h)
    BY <1>7, <2>0, InjectEffect
  <2>2. UNCHANGED <<queue_configs, groups_to_inject>> /\ ~Scan
    BY <2>1 DEF Left, tables, Scan
  <2>3. ~IsOut(n) /\ ~IsOut(n)'
    BY <1>7, <2>0, <2>1, <2>2 DEF Left, IsOut
  <2>4. Hand' = Hand /\ (HasActive(n)' <=> HasActive(n))
    BY <2>2 DEF Hand, HasActive
  <2> QED BY <1>2, <2>2, <2>3, <2>4
<1>8. CASE WriteBack
  <2>0. PICK h : h = Head(groups_to_inject)
    OBVIOUS
  <2>1. WrittenBack(h)
    BY <1>8, <2>0, WriteBackEffect
  <2>2. n = h.name => r = RecordOf(h)
    BY <1>8, <2>0, WrittenIsLast DEF WriteBack
  <2>3. ~IsOut(n)' /\ (n # h.name => ~IsOut(n)) /\ ~Scan
    BY <1>8, <2>0 DEF WriteBack, NextInList, IsOut, Scan
  <2>4. CASE n # h.name
    <3>1. /\ HasActive(n)' <=> HasActive(n)
          /\ HasActive(n) => queue_configs'[n] = queue_configs[n]
      BY <2>1, <2>4 DEF WrittenBack, HasActive
    <3>2. held' <=> held
      BY <2>1, <2>4 DEF WrittenBack
    <3> QED BY <1>2, <2>3, <2>4, <3>1, <3>2
  <2>5. CASE n = h.name
    <3>1. \A g \in Hand' : g.name # n
      BY <2>1, <2>5 DEF WrittenBack
    <3>2. r.packet_intervals_ms = h.packet_intervals_ms /\ r.at = stamped
      BY <2>2, <2>5 DEF RecordOf
    <3>3. ASSUME HasActive(n)',
                 Unwrapped(r, queue_configs'[n].active_group.current_packet_index)
          PROVE  queue_configs'[n].active_group.next_packet_time_ms =
                   (r.at % TickModulus)
                     + Wait(r, queue_configs'[n].active_group.current_packet_index)
      <4>1. queue_configs'[n].active_group = Advanced(h)
        BY <2>1, <2>5, <3>3 DEF WrittenBack, HasActive
      <4>2. h.group \in Group /\ h.group.current_packet_index + 1 \in Nat
        BY <2>1 DEF WrittenBack, GroupInHand, Group
      <4> DEFINE index == h.group.current_packet_index + 1
                 delay == Wait(r, index)
      <4>3. Advanced(h).current_packet_index = index
            /\ Advanced(h).next_packet_time_ms = (new_timestamp + delay) % TickModulus
        BY <3>2, <4>2 DEF Advanced, Group, Wait
      <4>4. delay \in Nat
        BY <1>0, <4>2, WaitType
      <4>5. new_timestamp = r.at % TickModulus /\ new_timestamp \in Nat
        BY <1>0, <3>2, ModulusType DEF new_timestamp, Tick
      <4>6. new_timestamp + delay < TickModulus
        BY <3>3, <4>1, <4>3, <4>5 DEF Unwrapped
      <4> HIDE DEF index, delay
      <4>7. (new_timestamp + delay) % TickModulus = new_timestamp + delay
        BY <4>4, <4>5, <4>6, SumShown, TickAssumption
      <4> QED BY <4>1, <4>3, <4>5, <4>7 DEF delay
    <3> QED BY <3>1, <3>3 DEF LastDelay, Unwrapped, Wait
  <2> QED BY <2>4, <2>5
<1> QED BY <1>3, <1>4, <1>5, <1>6, <1>7, <1>8, Steps

\* The delay after the last injection from n, whether it is new or not.
LEMMA DelayNext ==
  ASSUME TypeOK, HandInv, IndexInBounds, FreshInv, OutInv, ClockInv, DelayInv,
         [Next]_vars, NEW n \in Names, NEW k, IsLast(n, k)',
         NEW r, r = injected'[k]
  PROVE  LastDelay(n, r)'
<1>1. CASE /\ IsLast(n, k) /\ injected'[k] = injected[k]
           /\ Inject => n # Head(groups_to_inject).name
  <2>1. r = injected[k] /\ LastDelay(n, r)
    BY <1>1 DEF DelayInv, IsLast
  <2> QED BY <1>1, <2>1, DelayKept
<1>2. CASE /\ Inject /\ n = Head(groups_to_inject).name
           /\ injected'[k] = RecordOf(Head(groups_to_inject))
  <2>0. PICK h : h = Head(groups_to_inject)
    OBVIOUS
  <2>1. Left(h)
    BY <1>2, <2>0, InjectEffect
  <2>2. n = h.name /\ IsOut(n)'
    BY <1>2, <2>0, <2>1 DEF Left, IsOut
  <2>3. h \in Hand /\ Hand' = Hand
    BY <2>1 DEF Left, Hand
  <2> QED BY <2>2, <2>3 DEF LastDelay
<1> QED BY <1>1, <1>2, LastRecord

\* Every step keeps DelayInv.
LEMMA DelayStep ==
  TypeOK /\ HandInv /\ IndexInBounds /\ FreshInv /\ OutInv /\ ClockInv /\ DelayInv
    /\ [Next]_vars => DelayInv'
<1> SUFFICES ASSUME TypeOK, HandInv, IndexInBounds, FreshInv, OutInv, ClockInv, DelayInv,
                    [Next]_vars
             PROVE  DelayInv'
  OBVIOUS
<1>1. ASSUME NEW n \in Names, NEW k \in DOMAIN injected', IsLast(n, k)'
      PROVE  LastDelay(n, injected[k])'
  <2>1. PICK r : r = injected'[k]
    OBVIOUS
  <2>2. LastDelay(n, r)'
    BY <1>1, <2>1, DelayNext
  <2> QED BY <2>1, <2>2 DEF LastDelay, Unwrapped, Wait
<1> QED BY <1>1 DEF DelayInv, LastDelay, Unwrapped, Wait

\* Every step keeps DelayRespected.
LEMMA RespectedStep ==
  TypeOK /\ HandInv /\ IndexInBounds /\ DelayInv /\ DelayRespected /\ [Next]_vars
    => DelayRespected'
<1> SUFFICES ASSUME TypeOK, HandInv, IndexInBounds, DelayInv, DelayRespected, Inject
             PROVE  DelayRespected'
  BY InjectedGrows DEF DelayRespected, Consecutive
<1> DEFINE h == Head(groups_to_inject)
<1>1. Left(h)
  BY InjectEffect
<1> HIDE DEF h
<1> SUFFICES ASSUME NEW j \in DOMAIN injected', NEW k \in DOMAIN injected', Consecutive(j, k)',
                    injected'[k].index > 0, Unwrapped(injected'[j], injected'[k].index)
             PROVE  injected'[k].at - injected'[j].at >= Wait(injected'[j], injected'[k].index)
  BY DEF DelayRespected, Delay, Unwrapped, Wait
<1>2. j \in DOMAIN injected /\ injected'[j] = injected[j]
  BY <1>1, ConsecutiveNext
<1>3. CASE k \in DOMAIN injected /\ injected'[k] = injected[k] /\ Consecutive(j, k)
  BY <1>2, <1>3 DEF DelayRespected, Unwrapped, Wait
<1>4. CASE injected'[k] = RecordOf(h) /\ IsLast(h.name, j)
  <2>1. h \in Hand /\ h.name \in Names
    BY <1>1, LeavingPacket DEF Left
  <2>2. injected'[k].at = stamped /\ injected'[k].index = h.group.current_packet_index
    BY <1>4 DEF RecordOf
  <2>3. Moment = stamped /\ ~IsOut(h.name)
    BY <1>1 DEF Left, Moment, IsOut
  <2>4. LastDelay(h.name, injected[j])
    BY <1>2, <1>4, <2>1 DEF DelayInv
  <2>5. Moment - injected[j].at >= Wait(injected[j], h.group.current_packet_index)
    BY <1>2, <2>1, <2>2, <2>3, <2>4 DEF LastDelay
  <2> QED BY <1>2, <2>2, <2>3, <2>5
<1> QED BY <1>1, <1>3, <1>4, ConsecutiveNext

--------------------------------------------------------------------------------
(* The invariants hold *)

\* What is in hand, active, queued and recorded fits together.
InjectionInv ==
  TypeOK /\ IndexInBounds /\ HandInv /\ FreshInv /\ EpochInv /\ OutInv

\* At the start there is nothing.
LEMMA InitEmpty ==
  ASSUME Init
  PROVE  /\ DOMAIN accepted = {} /\ DOMAIN injected = {} /\ DOMAIN groups_to_inject = {}
         /\ \A n \in Names : /\ DOMAIN packet_queues[n] = {} /\ ~HasActive(n)
                             /\ DOMAIN incomplete_groups[n].packets = {}
         /\ Hand = {} /\ Known = {} /\ injector = "idle" /\ groups_to_inject = <<>>
         /\ clock = StartTime /\ stamped = clock
BY DEF Init, HasActive, Hand

\* The parts of InjectionInv hold together.
LEMMA InjectionHolds == Spec => []InjectionInv
<1>1. Init => InjectionInv
  BY InitHolds, InitEmpty DEF InjectionInv, HandInv, FreshInv, EpochInv, OutInv
<1>2. InjectionInv /\ [Next]_vars => InjectionInv'
  BY TypeStep, IndexStep, HandStep, FreshStep, EpochStep, OutStep DEF InjectionInv
<1> QED BY <1>1, <1>2, PTL DEF Spec

\* A packet a queue took is injected or waits for its turn until a client changes
\* the queue: NothingLost.
THEOREM NothingIsLost == Spec => []NothingLost
<1>1. Init => NothingLost
  BY InitEmpty DEF NothingLost
<1>2. InjectionInv /\ NothingLost /\ [Next]_vars => NothingLost'
  BY LostStep DEF InjectionInv
<1> QED BY <1>1, <1>2, InjectionHolds, PTL DEF Spec

\* The packets of a queue leave in the order they came: InArrivalOrder.
THEOREM ArrivalOrderKept == Spec => []InArrivalOrder
<1>1. Init => ArrivalInv /\ InArrivalOrder
  <2>1. Init => InArrivalOrder
    BY InitEmpty DEF InArrivalOrder
  <2> SUFFICES ASSUME Init, NEW n \in Names
               PROVE  WaitingOrder(n) /\ CurrentOrder(n) /\ InjectedOrder(n)
    BY <2>1 DEF ArrivalInv
  <2>2. CurrentGroups(n) = {}
    BY InitEmpty DEF CurrentGroups
  <2> QED BY <2>2, InitEmpty DEF WaitingOrder, CurrentOrder, InjectedOrder, Increasing
<1>2. InjectionInv /\ ArrivalInv /\ InArrivalOrder /\ [Next]_vars => (ArrivalInv /\ InArrivalOrder)'
  BY ArrivalStep, OrderStep DEF InjectionInv
<1> QED BY <1>1, <1>2, InjectionHolds, PTL DEF Spec

\* LastInv holds, given InjectionInv.
LEMMA LastHolds == Spec => []LastInv
<1>1. Init => LastInv
  BY InitEmpty DEF LastInv
<1>2. InjectionInv /\ LastInv /\ [Next]_vars => LastInv'
  BY LastStep DEF InjectionInv
<1> QED BY <1>1, <1>2, InjectionHolds, PTL DEF Spec

\* A group of packets is not interleaved with another of its queue: AtomicGroups.
THEOREM GroupsStayAtomic == Spec => []AtomicGroups
<1>1. Init => AtomicGroups
  BY InitEmpty DEF AtomicGroups
<1>2. InjectionInv /\ LastInv /\ AtomicGroups /\ [Next]_vars => AtomicGroups'
  BY AtomicStep DEF InjectionInv
<1> QED BY <1>1, <1>2, InjectionHolds, LastHolds, PTL DEF Spec

\* ClockInv holds, given InjectionInv.
LEMMA ClockHolds == Spec => []ClockInv
<1>1. Init => ClockInv
  <2> SUFFICES ASSUME Init
               PROVE  ClockInv
    OBVIOUS
  <2>1. clock = stamped /\ clock \in Nat /\ DOMAIN injected = {} /\ injector = "idle"
    BY InitEmpty, BoundsAssumption
  <2> QED BY <2>1 DEF ClockInv
<1>2. InjectionInv /\ ClockInv /\ [Next]_vars => ClockInv'
  BY ClockStep DEF InjectionInv
<1> QED BY <1>1, <1>2, InjectionHolds, PTL DEF Spec

\* Two groups of one registration are apart by the queue's interval, whatever the
\* tick count wraps: IntervalRespected.
THEOREM IntervalsKept == Spec => []IntervalRespected
<1>1. Init => TimeInv /\ IntervalRespected
  BY InitEmpty DEF TimeInv, IntervalRespected
<1>2. InjectionInv /\ LastInv /\ ClockInv /\ TimeInv /\ IntervalRespected /\ [Next]_vars
        => (TimeInv /\ IntervalRespected)'
  BY TimeStep, IntervalStep DEF InjectionInv
<1> QED BY <1>1, <1>2, InjectionHolds, LastHolds, ClockHolds, PTL DEF Spec

\* A packet of a group follows the one before it by its delay, unless its deadline
\* is beyond a wrap of the tick count: DelayRespected.
THEOREM DelaysKept == Spec => []DelayRespected
<1>1. Init => DelayInv /\ DelayRespected
  BY InitEmpty DEF DelayInv, DelayRespected
<1>2. InjectionInv /\ ClockInv /\ DelayInv /\ DelayRespected /\ [Next]_vars
        => (DelayInv /\ DelayRespected)'
  BY DelayStep, RespectedStep DEF InjectionInv
<1> QED BY <1>1, <1>2, InjectionHolds, ClockHolds, PTL DEF Spec

--------------------------------------------------------------------------------
(* The queues implement InjectionSchedule *)

\* A queue has a group here when it has one there.
LEMMA GroupMapped ==
  TypeOK => \A n \in Names : Schedule!HasGroup(n) <=> n \in Known /\ HasGroup(n)
<1> SUFFICES ASSUME TypeOK, NEW n \in Names
             PROVE  Schedule!HasGroup(n) <=> n \in Known /\ HasGroup(n)
  OBVIOUS
<1>1. packet_queues[n] \in Seq(Group) /\ (Len(packet_queues[n]) > 0 <=> packet_queues[n] # <<>>)
  BY EmptySeq, LenProperties DEF TypeOK
<1> QED BY <1>1 DEF Schedule!HasGroup, Schedule!Known, HasGroup

\* No queue is ready without a group.
ReadyAreWithGroup == ReadyQueues \subseteq Schedule!WithGroup

\* It holds.
LEMMA ReadyMapped == TypeOK => ReadyAreWithGroup
BY GroupMapped DEF ReadyAreWithGroup, ReadyQueues, Ready, Schedule!WithGroup, TypeOK

\* The same after a step.
LEMMA ReadyMappedNext == TypeOK' => ReadyAreWithGroup'
BY ReadyMapped, PTL

\* The queue m is as it was.
Same(m) ==
  /\ m \in Known' <=> m \in Known
  /\ m \in Known => queue_configs'[m] = queue_configs[m]
  /\ packet_queues'[m] = packet_queues[m]

\* Whether it is ready depends on nothing else but the time.
LEMMA SameReady ==
  ASSUME UNCHANGED current_time_ms, NEW m, Same(m)
  PROVE  m \in ReadyQueues' <=> m \in ReadyQueues
BY DEF Same, ReadyQueues, Ready, HasGroup, GroupToCheck

\* A step that concerns n alone makes n ready or not, and no other queue.
LEMMA ReadinessMapped ==
  ASSUME TypeOK, TypeOK', UNCHANGED current_time_ms, NEW n \in Names,
         \A m \in Names \ {n} : Same(m)
  PROVE  Schedule!OnlyReadiness(n)
<1>1. \A m \in Names \ {n} : m \in ReadyQueues' <=> m \in ReadyQueues
  BY SameReady
<1>2. ReadyQueues \subseteq Names /\ ReadyQueues' \subseteq Names
  BY DEF ReadyQueues, TypeOK
<1>3. ReadyQueues' \in {ReadyQueues \ {n}, ReadyQueues \cup {n}}
  BY <1>1, <1>2
<1>4. ReadyQueues' \subseteq Schedule!WithGroup'
  BY ReadyMappedNext DEF ReadyAreWithGroup
<1> QED BY <1>3, <1>4 DEF Schedule!OnlyReadiness

\* A queue that is registered is registered there.
LEMMA RegisterMapped ==
  ASSUME TypeOK, TypeOK', NEW n \in Names, NEW c \in Configs, RegisterQueue(n, c)
  PROVE  Schedule!RegisterQueue(n, c.injection_interval_ms)
<1>1. /\ Known' = Known \cup {n}
      /\ queue_configs'[n].injection_interval_ms = c.injection_interval_ms
      /\ queue_configs'[n].has_active_group = FALSE
      /\ \A m \in Known \ {n} : queue_configs'[m] = queue_configs[m]
      /\ UNCHANGED <<packet_queues, injectorVars>>
  BY DEF RegisterQueue, WithConfig
<1>2. \A m \in Names \ {n} : Same(m)
  BY <1>1 DEF Same
<1>3. Schedule!OnlyReadiness(n)
  BY <1>1, <1>2, ReadinessMapped DEF injectorVars
<1>4. [m \in Known' |-> queue_configs'[m].injection_interval_ms]
        = [m \in Known \cup {n} |-> IF m = n THEN c.injection_interval_ms
                                    ELSE queue_configs[m].injection_interval_ms]
  BY <1>1
<1>5. {m \in Known' : queue_configs'[m].has_active_group}
        = {m \in Known : queue_configs[m].has_active_group} \ {n}
  BY <1>1
<1> QED BY <1>1, <1>3, <1>4, <1>5
        DEF Schedule!RegisterQueue, Schedule!WithInterval, Schedule!Known, injectorVars

\* A queue that is unregistered is unregistered there.
LEMMA UnregisterMapped ==
  ASSUME TypeOK, TypeOK', NEW n \in Names, UnregisterQueue(n)
  PROVE  Schedule!UnregisterQueue(n)
<1>1. /\ n \in Known /\ Known' = Known \ {n}
      /\ \A m \in Known \ {n} : queue_configs'[m] = queue_configs[m]
      /\ packet_queues' = [packet_queues EXCEPT ![n] = <<>>]
      /\ UNCHANGED injectorVars
  BY DEF UnregisterQueue
<1>2. packet_queues'[n] = <<>> /\ \A m \in Names \ {n} : packet_queues'[m] = packet_queues[m]
  BY <1>1 DEF TypeOK
<1>3. ReadyQueues' = ReadyQueues \ {n}
  <2>1. \A m \in Names \ {n} : m \in ReadyQueues' <=> m \in ReadyQueues
    BY <1>1, <1>2, SameReady DEF Same, injectorVars
  <2>2. n \notin ReadyQueues'
    BY <1>1 DEF ReadyQueues
  <2>3. ReadyQueues \subseteq Names /\ ReadyQueues' \subseteq Names
    BY DEF ReadyQueues, TypeOK
  <2> QED BY <2>1, <2>2, <2>3
<1>4. [m \in Known' |-> queue_configs'[m].injection_interval_ms]
        = [m \in Known \ {n} |-> queue_configs[m].injection_interval_ms]
  BY <1>1
<1>5. {m \in Known' : queue_configs'[m].has_active_group}
        = {m \in Known : queue_configs[m].has_active_group} \ {n}
  BY <1>1
<1>6. [m \in Names |-> Len(packet_queues'[m])]
        = [[m \in Names |-> Len(packet_queues[m])] EXCEPT ![n] = 0]
  <2>1. Len(packet_queues'[n]) = 0
    BY <1>2, EmptySeq
  <2> QED BY <1>2, <2>1
<1>7. Schedule!Known = Known
  BY DEF Schedule!Known
<1> QED BY <1>1, <1>3, <1>4, <1>5, <1>6, <1>7 DEF Schedule!UnregisterQueue, injectorVars

\* All of them.
LEMMA ClearMapped ==
  ASSUME TypeOK, TypeOK', ClearAllQueues
  PROVE  Schedule!ClearAllQueues
<1>1. /\ Known' = {} /\ queue_configs' = <<>> /\ packet_queues' = [n \in Names |-> <<>>]
      /\ UNCHANGED injectorVars
  BY DEF ClearAllQueues
<1>2. ReadyQueues' = {} /\ {m \in Known' : queue_configs'[m].has_active_group} = {}
  BY <1>1 DEF ReadyQueues
<1>3. [m \in Known' |-> queue_configs'[m].injection_interval_ms] = <<>>
  BY <1>1
<1>4. [m \in Names |-> Len(packet_queues'[m])] = [m \in Names |-> 0]
  BY <1>1
<1> QED BY <1>1, <1>2, <1>3, <1>4 DEF Schedule!ClearAllQueues, injectorVars

\* No more groups wait in a queue than packets came.
WaitingBound == \A n \in Names : Len(packet_queues[n]) <= Len(accepted)

\* Every step keeps WaitingBound.
LEMMA WaitingBoundStep == TypeOK /\ WaitingBound /\ [Next]_vars => WaitingBound'
<1> SUFFICES ASSUME TypeOK, WaitingBound, [Next]_vars, NEW n \in Names
             PROVE  Len(packet_queues'[n]) <= Len(accepted')
  BY DEF WaitingBound
<1>1. /\ packet_queues[n] \in Seq(Group) /\ Len(packet_queues[n]) \in Nat /\ Len(accepted) \in Nat
      /\ Len(packet_queues[n]) <= Len(accepted)
  BY LenProperties DEF TypeOK, WaitingBound
<1>2. CASE UNCHANGED <<packet_queues, accepted>>
  BY <1>1, <1>2
<1>3. CASE Command
  <2>1. UNCHANGED accepted /\ (packet_queues'[n] = packet_queues[n] \/ packet_queues'[n] = <<>>)
    BY <1>3, CommandEffect DEF Commanded
  <2> QED BY <1>1, <2>1, EmptySeq
<1>4. ASSUME NEW m \in Names, InjectPacket(m)
      PROVE  Len(packet_queues'[n]) <= Len(accepted')
  <2>1. accepted' = Append(accepted, [name |-> m, epoch |-> epoch[m]])
    BY <1>4 DEF InjectPacket
  <2>2. Len(accepted') = Len(accepted) + 1
    BY <2>1, AppendProperties DEF TypeOK
  <2>3. packet_queues'[n] = packet_queues[n] \/ \E g : packet_queues'[n] = Append(packet_queues[n], g)
    BY <1>4 DEF InjectPacket, TypeOK
  <2>4. \A g : Len(Append(packet_queues[n], g)) = Len(packet_queues[n]) + 1
    BY <1>1
  <2> QED BY <1>1, <2>2, <2>3, <2>4
<1>5. CASE Scan
  <2>1. UNCHANGED accepted
    BY <1>5 DEF Scan, clientVars
  <2>2. PICK S \in SUBSET ReadyQueues : Scanned(S)
    BY <1>5, ScanEffect
  <2>3. CASE packet_queues'[n] = packet_queues[n]
    BY <1>1, <2>1, <2>3
  <2>4. CASE packet_queues'[n] # packet_queues[n]
    <3>1. packet_queues'[n] = Tail(packet_queues[n]) /\ n \in ReadyQueues
          /\ ~queue_configs[n].has_active_group
      BY <2>2, <2>4 DEF Scanned
    <3>2. packet_queues[n] # <<>>
      BY <3>1 DEF ReadyQueues, Ready, HasGroup
    <3>3. Len(Tail(packet_queues[n])) = Len(packet_queues[n]) - 1
      BY <1>1, <3>2, HeadTailProperties
    <3> QED BY <1>1, <2>1, <3>1, <3>3
  <2> QED BY <2>3, <2>4
<1>6. CASE Inject \/ WriteBack
  BY <1>2, <1>6 DEF Inject, WriteBack, NextInList, tables, clientVars
<1>7. CASE Quiet
  BY <1>2, <1>7, QuietEffect
<1> QED BY <1>3, <1>4, <1>5, <1>6, <1>7, Steps

\* A packet that makes its group complete is a new group, another is nothing.
LEMMA InjectPacketMapped ==
  ASSUME TypeOK, TypeOK', WaitingBound, NEW n \in Names, InjectPacket(n)
  PROVE  Schedule!NewGroup(n) \/ UNCHANGED Schedule!vars
<1>1. n \in Known /\ UNCHANGED <<queue_configs, injectorVars>> /\ Len(accepted) < MaxPackets
  BY DEF InjectPacket
<1>2. CASE packet_queues' = packet_queues
  <2>1. ReadyQueues' = ReadyQueues
    BY <1>1, <1>2 DEF ReadyQueues, Ready, HasGroup, GroupToCheck, injectorVars
  <2> QED BY <1>1, <1>2, <2>1 DEF Schedule!vars, injectorVars
<1>3. ASSUME NEW g, packet_queues' = [packet_queues EXCEPT ![n] = Append(@, g)]
      PROVE  Schedule!NewGroup(n)
  <2>1. /\ packet_queues'[n] = Append(packet_queues[n], g)
        /\ \A m \in Names \ {n} : packet_queues'[m] = packet_queues[m]
    BY <1>3 DEF TypeOK
  <2>2. /\ packet_queues[n] \in Seq(Group) /\ Len(packet_queues[n]) \in Nat
        /\ Len(packet_queues'[n]) = Len(packet_queues[n]) + 1
    BY <2>1, LenProperties DEF TypeOK
  <2>3. Len(packet_queues[n]) < MaxPackets
    BY <1>1, <2>2, BoundsAssumption, LenProperties DEF WaitingBound, TypeOK
  <2>4. [m \in Names |-> Len(packet_queues'[m])]
          = [[m \in Names |-> Len(packet_queues[m])]
               EXCEPT ![n] = [m \in Names |-> Len(packet_queues[m])][n] + 1]
    BY <2>1, <2>2
  <2>5. Schedule!OnlyReadiness(n)
    BY <1>1, <2>1, ReadinessMapped DEF Same, injectorVars
  <2>6. Schedule!Known = Known
    BY DEF Schedule!Known
  <2> QED BY <1>1, <2>3, <2>4, <2>5, <2>6 DEF Schedule!NewGroup, injectorVars
<1> QED BY <1>2, <1>3 DEF InjectPacket

\* The steps of the injector that leave the queues alone.
LEMMA QuietMapped ==
  ASSUME TypeOK, TypeOK', HandInv, Quiet
  PROVE  [Schedule!Next]_(Schedule!vars)
<1>1. CASE TimePasses \/ Stamp \/ UNCHANGED vars
  <2>1. UNCHANGED <<queue_configs, packet_queues, current_time_ms, groups_to_inject>>
    BY <1>1 DEF TimePasses, Stamp, vars, tables, injectorVars
  <2>2. ReadyQueues' = ReadyQueues
    BY <2>1 DEF ReadyQueues, Ready, HasGroup, GroupToCheck
  <2>3. (IF injector = "stamp" THEN "inject" ELSE injector)'
          = IF injector = "stamp" THEN "inject" ELSE injector
    BY <1>1 DEF TimePasses, Stamp, vars, injectorVars
  <2> QED BY <2>1, <2>2, <2>3 DEF Schedule!vars
<1>2. CASE TimerFires
  <2>1. UNCHANGED <<queue_configs, packet_queues, groups_to_inject>>
        /\ injector = "idle" /\ injector' = "scan"
    BY <1>2 DEF TimerFires, tables
  <2>2. ReadyQueues' \subseteq Schedule!WithGroup'
    BY ReadyMappedNext DEF ReadyAreWithGroup
  <2>3. Schedule!WithGroup' = Schedule!WithGroup
    BY <2>1 DEF Schedule!WithGroup, Schedule!HasGroup, Schedule!Known
  <2>4. Schedule!TimerFires
    BY <2>1, <2>2, <2>3 DEF Schedule!TimerFires, Schedule!queueVars
  <2> QED BY <2>4 DEF Schedule!Next, Schedule!PacketInjector
<1>3. CASE ScanNothingReady
  <2>1. /\ UNCHANGED <<queue_configs, packet_queues, current_time_ms, groups_to_inject>>
        /\ injector = "scan" /\ injector' = "idle" /\ ReadyQueues = {}
    BY <1>3 DEF ScanNothingReady, tables
  <2>2. ReadyQueues' = ReadyQueues
    BY <2>1 DEF ReadyQueues, Ready, HasGroup, GroupToCheck
  <2>3. Schedule!ScanNothingReady
    BY <2>1, <2>2 DEF Schedule!ScanNothingReady, Schedule!queueVars
  <2> QED BY <2>3 DEF Schedule!Next, Schedule!PacketInjector
<1> QED BY <1>1, <1>2, <1>3 DEF Quiet

\* The packet in hand leaves.
LEMMA InjectMapped ==
  ASSUME Inject
  PROVE  Schedule!Inject
<1>1. /\ UNCHANGED <<queue_configs, packet_queues, current_time_ms, groups_to_inject>>
      /\ injector = "inject" /\ injector' = "write_back"
  BY DEF Inject, tables
<1>2. ReadyQueues' = ReadyQueues
  BY <1>1 DEF ReadyQueues, Ready, HasGroup, GroupToCheck
<1> QED BY <1>1, <1>2 DEF Schedule!Inject, Schedule!queueVars

\* A served queue is as ready after the scan as it was before.
LEMMA ServedReady ==
  ASSUME TypeOK, UNCHANGED current_time_ms, NEW n \in ReadyQueues, n \in Known',
         queue_configs'[n] = [queue_configs[n] EXCEPT !.has_active_group = TRUE,
                                                      !.active_group = GroupToCheck(n)]
  PROVE  n \in ReadyQueues'
<1>1. queue_configs[n] \in QueueConfig
  BY DEF ReadyQueues, TypeOK
<1>2. /\ queue_configs'[n].has_active_group
      /\ queue_configs'[n].active_group = GroupToCheck(n)
      /\ queue_configs'[n].last_injection_time_ms = queue_configs[n].last_injection_time_ms
      /\ queue_configs'[n].injection_interval_ms = queue_configs[n].injection_interval_ms
  BY <1>1 DEF QueueConfig
<1>3. HasGroup(n)' /\ GroupToCheck(n)' = GroupToCheck(n)
  BY <1>2 DEF HasGroup, GroupToCheck
<1>4. Ready(n)
  BY DEF ReadyQueues
<1>5. Ready(n)'
  BY <1>2, <1>3, <1>4 DEF Ready
<1> QED BY <1>5 DEF ReadyQueues

\* Cardinality is the same here and there.
LEMMA SameCardinality == \A S : Schedule!Cardinality(S) = Cardinality(S)
BY DEF Schedule!Cardinality, Cardinality

\* A scan with something ready.
LEMMA ScanMapped ==
  ASSUME TypeOK, TypeOK', Scan
  PROVE  Schedule!Scan
<1>1. PICK s \in SortedByInterval(ReadyQueues) :
       /\ groups_to_inject' = [i \in 1 .. QueuesServed |-> ToInject(s[i])]
       /\ queue_configs' = [n \in Known |->
            IF n \in Served(s)
            THEN [queue_configs[n] EXCEPT !.has_active_group = TRUE,
                                          !.active_group = GroupToCheck(n)]
            ELSE queue_configs[n]]
       /\ packet_queues' = [n \in Names |->
            IF n \in Served(s) /\ ~queue_configs[n].has_active_group
            THEN Tail(packet_queues[n]) ELSE packet_queues[n]]
  BY DEF Scan
<1>2. /\ injector = "scan" /\ injector' = "stamp" /\ ReadyQueues # {}
      /\ UNCHANGED current_time_ms
  BY DEF Scan
<1>3. Served(s) \subseteq ReadyQueues /\ Served(s) = {s[i] : i \in 1 .. QueuesServed}
  BY ServedAreReady DEF Served
<1>4. ReadyQueues \subseteq Known /\ Known \subseteq Names /\ Known' = Known
  BY <1>1 DEF ReadyQueues, TypeOK
<1>5. \A n \in Known : queue_configs[n] \in QueueConfig
  BY DEF TypeOK
<1> DEFINE Interval == [n \in Known |-> queue_configs[n].injection_interval_ms]
           Active == {n \in Known : queue_configs[n].has_active_group}
           Waiting == [n \in Names |-> Len(packet_queues[n])]
           HandNames == [i \in DOMAIN groups_to_inject |-> groups_to_inject[i].name]
<1>6. s \in Schedule!SortedByInterval(ReadyQueues)
  <2>1. s \in [1 .. Cardinality(ReadyQueues) -> ReadyQueues]
    BY DEF SortedByInterval
  <2>2. ASSUME NEW i \in DOMAIN s, NEW j \in DOMAIN s, i < j
        PROVE  s[i] # s[j] /\ Interval[s[i]] <= Interval[s[j]]
    <3>1. s[i] \in Known /\ s[j] \in Known
      BY <1>4, <2>1
    <3> QED BY <2>2, <3>1 DEF SortedByInterval
  <2> QED BY <2>1, <2>2, SameCardinality DEF Schedule!SortedByInterval
<1>7. Schedule!QueuesServed = QueuesServed
  BY SameCardinality DEF Schedule!QueuesServed, QueuesServed
<1>8. HandNames' = [i \in 1 .. QueuesServed |-> s[i]]
  BY <1>1 DEF ToInject
<1>9. Interval' = Interval
  BY <1>1, <1>4, <1>5 DEF QueueConfig
<1>10. Active' = Active \cup Served(s)
  BY <1>1, <1>3, <1>4, <1>5 DEF QueueConfig
<1>11. Waiting' = [n \in Names |-> IF n \in Served(s) \ Active THEN Waiting[n] - 1
                                   ELSE Waiting[n]]
  <2>1. ASSUME NEW n \in Served(s), ~queue_configs[n].has_active_group
        PROVE  Len(Tail(packet_queues[n])) = Len(packet_queues[n]) - 1
    <3>1. packet_queues[n] \in Seq(Group) /\ packet_queues[n] # <<>>
      BY <1>3, <1>4, <2>1 DEF TypeOK, ReadyQueues, Ready, HasGroup
    <3> QED BY <3>1, HeadTailProperties
  <2>2. ASSUME NEW n \in Names
        PROVE  Waiting'[n] = IF n \in Served(s) \ Active THEN Waiting[n] - 1 ELSE Waiting[n]
    BY <1>1, <1>3, <1>4, <2>1
  <2> QED BY <2>2
<1>12. ReadyQueues' = ReadyQueues
  <2>1. ASSUME NEW n \in Served(s)
        PROVE  n \in ReadyQueues' /\ n \in ReadyQueues
    BY <1>1, <1>2, <1>3, <1>4, ServedReady
  <2>2. ASSUME NEW n \in Names \ Served(s)
        PROVE  n \in ReadyQueues' <=> n \in ReadyQueues
    BY <1>1, <1>2, <1>4, SameReady DEF Same
  <2>3. ReadyQueues' \subseteq Names
    BY <1>4 DEF ReadyQueues
  <2> QED BY <1>4, <2>1, <2>2, <2>3
<1> QED BY <1>2, <1>3, <1>6, <1>7, <1>8, <1>9, <1>10, <1>11, <1>12 DEF Schedule!Scan

\* The names of a list, its first and the others.
LEMMA NamesOf ==
  ASSUME NEW s \in Seq(GroupInHand), s # <<>>
  PROVE  LET names(t) == [i \in DOMAIN t |-> t[i].name]
         IN  /\ Head(names(s)) = Head(s).name
             /\ Tail(names(s)) = names(Tail(s))
             /\ Len(names(s)) = Len(s)
<1> DEFINE names(t) == [i \in DOMAIN t |-> t[i].name]
<1>1. Len(s) \in Nat \ {0} /\ DOMAIN s = 1 .. Len(s)
  BY EmptySeq, LenProperties
<1>2. \A i \in DOMAIN s : s[i].name \in Names
  <2>1. \A i \in DOMAIN s : s[i] \in GroupInHand
    BY Elements
  <2> QED BY <2>1 DEF GroupInHand
<1>3. names(s) \in Seq(Names) /\ Len(names(s)) = Len(s)
  BY <1>1, <1>2
<1>4. names(s) # <<>>
  BY <1>1, <1>3, EmptySeq
<1>5. Head(names(s)) = Head(s).name
  BY <1>1, <1>3, <1>4, HeadTailProperties
<1>6. /\ Tail(s) \in Seq(GroupInHand) /\ Len(Tail(s)) = Len(s) - 1
      /\ \A i \in 1 .. Len(Tail(s)) : Tail(s)[i] = s[i + 1]
  BY HeadTailProperties
<1>7. /\ Tail(names(s)) \in Seq(Names) /\ Len(Tail(names(s))) = Len(s) - 1
      /\ \A i \in 1 .. Len(Tail(names(s))) : Tail(names(s))[i] = names(s)[i + 1]
  BY <1>3, <1>4, HeadTailProperties
<1>8. DOMAIN Tail(s) = 1 .. Len(s) - 1 /\ DOMAIN Tail(names(s)) = 1 .. Len(s) - 1
  BY <1>1, <1>6, <1>7, LenProperties
<1>9. \A i \in 1 .. Len(s) - 1 : Tail(names(s))[i] = Tail(s)[i].name
  BY <1>1, <1>6, <1>7
<1>10. Tail(names(s)) = [i \in 1 .. Len(s) - 1 |-> Tail(names(s))[i]]
  BY <1>7, <1>8
<1>11. Tail(names(s)) = names(Tail(s))
  BY <1>8, <1>9, <1>10
<1> QED BY <1>3, <1>5, <1>11

\* Progress is written back, to a queue that may be gone.
LEMMA WriteBackMapped ==
  ASSUME TypeOK, TypeOK', HandInv, WriteBack
  PROVE  Schedule!WriteBack
<1> DEFINE Interval == [n \in Known |-> queue_configs[n].injection_interval_ms]
           Active == {n \in Known : queue_configs[n].has_active_group}
           HandNames == [i \in DOMAIN groups_to_inject |-> groups_to_inject[i].name]
<1>1. /\ groups_to_inject # <<>> /\ groups_to_inject \in Seq(GroupInHand)
      /\ injector = "write_back" /\ groups_to_inject' = Tail(groups_to_inject)
      /\ injector' = IF Len(groups_to_inject) > 1 THEN "inject" ELSE "idle"
      /\ UNCHANGED <<packet_queues, current_time_ms>>
  BY DEF WriteBack, NextInList, TypeOK
<1>2. PICK h : h = Head(groups_to_inject)
  OBVIOUS
<1>3. WrittenBack(h)
  BY <1>2, WriteBackEffect
<1>4. h.name \in Names /\ ConfigOf(h.name) \in QueueConfig
  BY <1>3, ConfigOfType DEF WrittenBack, GroupInHand
<1>5. Known' = Known \cup {h.name}
      /\ \A m \in Known \ {h.name} : queue_configs'[m] = queue_configs[m]
  BY <1>2 DEF WriteBack, WithConfig
<1>6. queue_configs'[h.name].injection_interval_ms
        = IF h.name \in Known THEN queue_configs[h.name].injection_interval_ms ELSE 0
  <2>1. queue_configs'[h.name].injection_interval_ms = ConfigOf(h.name).injection_interval_ms
    BY <1>2, <1>4 DEF WriteBack, WithConfig, QueueConfig
  <2> QED BY <2>1 DEF ConfigOf
<1>7. /\ Head(HandNames) = h.name /\ Len(HandNames) = Len(groups_to_inject)
      /\ HandNames' = Tail(HandNames)
  BY <1>1, <1>2, NamesOf
<1>8. Interval' = IF h.name \in Known THEN Interval
                  ELSE [m \in Known \cup {h.name} |-> IF m = h.name THEN 0 ELSE Interval[m]]
  <2>1. CASE h.name \in Known
    <3>1. Known' = Known
      BY <1>5, <2>1
    <3>2. \A m \in Known : queue_configs'[m].injection_interval_ms
                              = queue_configs[m].injection_interval_ms
      BY <1>5, <1>6, <2>1
    <3> QED BY <2>1, <3>1, <3>2
  <2>2. CASE h.name \notin Known
    BY <1>5, <1>6, <2>2
  <2> QED BY <2>1, <2>2
<1>9. Active' \in {Active, Active \ {h.name}}
  <2>1. queue_configs'[h.name].has_active_group <=> HasActive(h.name) /\ HasMore(h)
    BY <1>3 DEF WrittenBack
  <2>2. \A m : m # h.name => (m \in Active' <=> m \in Active)
    BY <1>5
  <2>3. h.name \in Active' => h.name \in Active
    BY <2>1 DEF HasActive
  <2>4. CASE h.name \in Active'
    <3>1. Active' = Active
      BY <2>2, <2>3, <2>4
    <3> QED BY <3>1
  <2>5. CASE h.name \notin Active'
    <3>1. Active' = Active \ {h.name}
      BY <2>2, <2>5
    <3> QED BY <3>1
  <2> QED BY <2>4, <2>5
<1>10. Schedule!OnlyReadiness(h.name)
  <2>1. \A m \in Names \ {h.name} : Same(m)
    BY <1>1, <1>5 DEF Same
  <2> QED BY <1>1, <1>4, <2>1, ReadinessMapped
<1>11. Schedule!Known = Known
  BY DEF Schedule!Known
<1>12. Interval' = IF h.name \in Schedule!Known THEN Interval
                   ELSE Schedule!WithInterval(h.name, 0)
  BY <1>8, <1>11 DEF Schedule!WithInterval
<1>13. (IF injector = "stamp" THEN "inject" ELSE injector)'
          = IF Len(HandNames) > 1 THEN "inject" ELSE "idle"
  BY <1>1, <1>7
<1>14. UNCHANGED [n \in Names |-> Len(packet_queues[n])]
  BY <1>1
<1> QED BY <1>1, <1>7, <1>9, <1>10, <1>12, <1>13, <1>14 DEF Schedule!WriteBack

\* What PacketInjector does, its critical sections apart, with the clients between
\* them and the wrap of the tick count, is what InjectionSchedule says: each tick
\* serves the ready queues by interval, as many as it may.
THEOREM ImplementsScheduleTheorem == Spec => ImplementsSchedule
<1>1. Init => Schedule!Init /\ WaitingBound
  <2> SUFFICES ASSUME Init
               PROVE  Schedule!Init /\ WaitingBound
    OBVIOUS
  <2>1. /\ queue_configs = <<>> /\ packet_queues = [n \in Names |-> <<>>] /\ accepted = <<>>
        /\ injector = "idle" /\ groups_to_inject = <<>> /\ Known = {}
    BY DEF Init
  <2>2. [n \in Known |-> queue_configs[n].injection_interval_ms] = <<>>
        /\ [i \in DOMAIN groups_to_inject |-> groups_to_inject[i].name] = <<>>
    BY <2>1
  <2>3. {n \in Known : queue_configs[n].has_active_group} = {} /\ ReadyQueues = {}
    BY <2>1 DEF ReadyQueues
  <2>4. \A n \in Names : Len(packet_queues[n]) = 0
    BY <2>1
  <2>5. [n \in Names |-> Len(packet_queues[n])] = [n \in Names |-> 0]
    BY <2>4
  <2> QED BY <2>1, <2>2, <2>3, <2>4, <2>5 DEF Schedule!Init, WaitingBound
<1>2. InjectionInv /\ WaitingBound /\ [Next]_vars
        => WaitingBound' /\ [Schedule!Next]_(Schedule!vars)
  <2> SUFFICES ASSUME TypeOK, HandInv, WaitingBound, [Next]_vars
               PROVE  [Schedule!Next]_(Schedule!vars)
    BY WaitingBoundStep DEF InjectionInv
  <2>1. TypeOK'
    BY TypeStep
  <2>2. CASE Quiet
    BY <2>1, <2>2, QuietMapped
  <2>3. ASSUME NEW n \in Names, NEW c \in Configs, RegisterQueue(n, c)
        PROVE  Schedule!Next
    <3>1. Schedule!RegisterQueue(n, c.injection_interval_ms)
      BY <2>1, <2>3, RegisterMapped
    <3>2. c.injection_interval_ms \in {d.injection_interval_ms : d \in Configs}
      OBVIOUS
    <3> QED BY <3>1, <3>2 DEF Schedule!Next
  <2>4. ASSUME NEW n \in Names, UnregisterQueue(n)
        PROVE  Schedule!Next
    BY <2>1, <2>4, UnregisterMapped DEF Schedule!Next
  <2>5. ASSUME ClearAllQueues
        PROVE  Schedule!Next
    BY <2>1, <2>5, ClearMapped DEF Schedule!Next
  <2>6. ASSUME NEW n \in Names, InjectPacket(n)
        PROVE  [Schedule!Next]_(Schedule!vars)
    BY <2>1, <2>6, InjectPacketMapped DEF Schedule!Next
  <2>7. CASE Scan
    BY <2>1, <2>7, ScanMapped DEF Schedule!Next, Schedule!PacketInjector
  <2>8. CASE Inject
    BY <2>8, InjectMapped DEF Schedule!Next, Schedule!PacketInjector
  <2>9. CASE WriteBack
    BY <2>1, <2>9, WriteBackMapped DEF Schedule!Next, Schedule!PacketInjector
  <2>10. Command => Schedule!Next
    BY <2>3, <2>4, <2>5 DEF Command
  <2> QED BY <2>2, <2>6, <2>7, <2>8, <2>9, <2>10, Steps
<1> QED BY <1>1, <1>2, InjectionHolds, PTL DEF Spec, ImplementsSchedule, Schedule!Spec
================================================================================
