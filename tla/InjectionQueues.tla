---------------------------- MODULE InjectionQueues ----------------------------
(***************************************************************************)
(* The injection queues of Packet/PacketSender.cpp with the commands and   *)
(* packets that Packet/PacketTCP.cpp takes from its clients.               *)
(*                                                                         *)
(* A client names queues, each with an interval between its groups and a   *)
(* delay before each packet of a group, and hands packets to them one at a *)
(* time.  The game's window timer calls PacketInjector, which picks the    *)
(* queues that are ready under injection_queue_cs, injects one packet of   *)
(* each outside the lock, and takes the lock again to write the progress   *)
(* of the group back.  The clients' commands, each one critical section,   *)
(* come between any two of those steps, and so does the passage of time.   *)
(*                                                                         *)
(* A packet is named by its place in the order of arrival.  Time stamps    *)
(* in packets, logging and the parsing of messages are left out.           *)
(***************************************************************************)
EXTENDS Integers, Sequences, FiniteSets, SequencesExt

CONSTANTS
  Names,                \* queue names the clients use
  Configs,              \* what they register: see ConfigsAssumption
  MAX_QUEUES_PER_TICK,  \* queues served per timer tick (10 in the code)
  TickModulus,          \* GetTickCount wraps here (2^32 in the code)
  StartTime,            \* time since the machine started when the DLL is loaded
  MaxClock,             \* bound: the last moment modelled
  MaxPackets,           \* bound: packets handed to all queues
  MaxCommands           \* bound: register, unregister and clear per name

ASSUME NamesAssumption == IsFiniteSet(Names)
ASSUME ConfigsAssumption ==
  Configs \subseteq [injection_interval_ms : Nat, packet_count : Nat,
                     packet_intervals_ms : Seq(Nat)]
ASSUME TickAssumption == /\ MAX_QUEUES_PER_TICK \in Nat \ {0}
                         /\ TickModulus \in Nat \ {0}
ASSUME BoundsAssumption == /\ StartTime \in Nat /\ MaxClock \in Nat
                           /\ MaxPackets \in Nat /\ MaxCommands \in Nat

Packets == 1 .. MaxPackets
Tick == 0 .. TickModulus - 1
NONE == -1

Group == [packets : Seq(Packets), current_packet_index : Nat, next_packet_time_ms : Tick]
NoGroup == [packets |-> <<>>, current_packet_index |-> 0, next_packet_time_ms |-> 0]

QueueConfig ==
  [injection_interval_ms : Nat, last_injection_time_ms : Tick, packet_count : Nat,
   packet_intervals_ms : Seq(Nat), has_active_group : BOOLEAN, active_group : Group]

\* An element of groups_to_inject, with the registration it was copied under.
GroupInHand ==
  [name : Names, group : Group, injection_interval_ms : Nat,
   packet_intervals_ms : Seq(Nat), epoch : Nat, since : Nat \cup {NONE}]

InjectionRecord ==
  [name : Names, packets : Seq(Packets), index : Nat, at : Nat,
   injection_interval_ms : Nat, packet_intervals_ms : Seq(Nat),
   epoch : Nat, since : Nat \cup {NONE}]

VARIABLES
  clock,              \* the real time, which GetTickCount shows modulo TickModulus
  queue_configs,      \* queue_configs, by name, for the names it has
  packet_queues,      \* packet_queues; a missing entry is an empty queue
  incomplete_groups,  \* incomplete_groups; a missing entry has no packets
  injector,           \* where PacketInjector is
  current_time_ms,    \* its local variable
  stamped,            \* the real time at which it took new_timestamp
  groups_to_inject,   \* its local list, from the one in hand on
  accepted,           \* history: queue and epoch of each packet taken
  injected,           \* history: what was injected
  epoch,              \* history: commands that changed each name so far
  registered          \* history: since when the clients want the name, or NONE

vars == <<clock, queue_configs, packet_queues, incomplete_groups, injector,
          current_time_ms, stamped, groups_to_inject, accepted, injected,
          epoch, registered>>
tables == <<queue_configs, packet_queues, incomplete_groups>>
injectorVars == <<injector, current_time_ms, stamped, groups_to_inject, injected>>
clientVars == <<accepted, epoch, registered>>

GetTickCount == clock % TickModulus

Init ==
  /\ clock = StartTime
  /\ queue_configs = <<>>
  /\ packet_queues = [n \in Names |-> <<>>]
  /\ incomplete_groups = [n \in Names |-> [packets |-> <<>>, start_time_ms |-> 0]]
  /\ injector = "idle"
  /\ current_time_ms = 0
  /\ stamped = StartTime
  /\ groups_to_inject = <<>>
  /\ accepted = <<>>
  /\ injected = <<>>
  /\ epoch = [n \in Names |-> 0]
  /\ registered = [n \in Names |-> NONE]

TimePasses ==
  /\ clock < MaxClock
  /\ clock' = clock + 1
  /\ UNCHANGED <<tables, injectorVars, clientVars>>

Known == DOMAIN queue_configs

\* queue_configs[n] = c
WithConfig(n, c) == [m \in Known \cup {n} |-> IF m = n THEN c ELSE queue_configs[m]]

--------------------------------------------------------------------------------
(* What a client asks for, each inside one critical section *)

\* RegisterQueue: a new configuration under a new or an old name.  The groups
\* and the incomplete group an old name has stay; its active group is forgotten.
RegisterQueue(n, c) ==
  /\ epoch[n] < MaxCommands
  /\ queue_configs' = WithConfig(n,
       [injection_interval_ms |-> c.injection_interval_ms,
        last_injection_time_ms |-> GetTickCount,
        packet_count |-> c.packet_count,
        packet_intervals_ms |-> c.packet_intervals_ms,
        has_active_group |-> FALSE,
        active_group |-> NoGroup])
  /\ epoch' = [epoch EXCEPT ![n] = @ + 1]
  /\ registered' = [registered EXCEPT ![n] = clock]
  /\ UNCHANGED <<clock, packet_queues, incomplete_groups, injectorVars, accepted>>

NoPackets == [packets |-> <<>>, start_time_ms |-> 0]

UnregisterQueue(n) ==
  /\ epoch[n] < MaxCommands
  /\ n \in Known
  /\ queue_configs' = [m \in Known \ {n} |-> queue_configs[m]]
  /\ packet_queues' = [packet_queues EXCEPT ![n] = <<>>]
  /\ incomplete_groups' = [incomplete_groups EXCEPT ![n] = NoPackets]
  /\ epoch' = [epoch EXCEPT ![n] = @ + 1]
  /\ registered' = [registered EXCEPT ![n] = NONE]
  /\ UNCHANGED <<clock, injectorVars, accepted>>

ClearAllQueues ==
  /\ \A n \in Names : epoch[n] < MaxCommands
  /\ queue_configs' = <<>>
  /\ packet_queues' = [n \in Names |-> <<>>]
  /\ incomplete_groups' = [n \in Names |-> NoPackets]
  /\ epoch' = [n \in Names |-> epoch[n] + 1]
  /\ registered' = [n \in Names |-> NONE]
  /\ UNCHANGED <<clock, injectorVars, accepted>>

\* Mutant: a complete group is queued and its packets are kept for the next one.
InjectPacketKeepingGroup(n) ==
  LET start == IF incomplete_groups[n].packets = <<>> THEN GetTickCount
               ELSE incomplete_groups[n].start_time_ms
      packets == Append(incomplete_groups[n].packets, Len(accepted) + 1)
  IN  /\ Len(accepted) < MaxPackets
      /\ n \in Known
      /\ accepted' = Append(accepted, [name |-> n, epoch |-> epoch[n]])
      /\ incomplete_groups' = [incomplete_groups EXCEPT ![n] =
           [packets |-> packets, start_time_ms |-> start]]
      /\ packet_queues' =
           IF Len(packets) < queue_configs[n].packet_count THEN packet_queues
           ELSE [packet_queues EXCEPT ![n] = Append(@,
                  [packets |-> packets, current_packet_index |-> 0,
                   next_packet_time_ms |-> start])]
      /\ UNCHANGED <<clock, queue_configs, injectorVars, epoch, registered>>

\* The packet joins the incomplete group of its queue; a group that reaches the
\* queue's packet_count is queued.  A packet for an unknown queue is dropped.
InjectPacket(n) ==
  LET start == IF incomplete_groups[n].packets = <<>> THEN GetTickCount
               ELSE incomplete_groups[n].start_time_ms
      packets == Append(incomplete_groups[n].packets, Len(accepted) + 1)
      complete == Len(packets) >= queue_configs[n].packet_count
  IN  /\ Len(accepted) < MaxPackets
      /\ n \in Known
      /\ accepted' = Append(accepted, [name |-> n, epoch |-> epoch[n]])
      /\ incomplete_groups' = [incomplete_groups EXCEPT ![n] =
           [packets |-> IF complete THEN <<>> ELSE packets, start_time_ms |-> start]]
      /\ packet_queues' =
           IF ~complete THEN packet_queues
           ELSE [packet_queues EXCEPT ![n] = Append(@,
                  [packets |-> packets, current_packet_index |-> 0,
                   next_packet_time_ms |-> start])]
      /\ UNCHANGED <<clock, queue_configs, injectorVars, epoch, registered>>

--------------------------------------------------------------------------------
(* PacketInjector, the timer's callback *)

\* The time is read before the lock is taken.
TimerFires ==
  /\ injector = "idle"
  /\ injector' = "scan"
  /\ current_time_ms' = GetTickCount
  /\ UNCHANGED <<clock, tables, stamped, groups_to_inject, injected, clientVars>>

HasGroup(n) == queue_configs[n].has_active_group \/ packet_queues[n] # <<>>

GroupToCheck(n) ==
  IF queue_configs[n].has_active_group THEN queue_configs[n].active_group
  ELSE Head(packet_queues[n])

\* Mutant: the interval is forgotten.
ReadyWithoutInterval(n) ==
  HasGroup(n) /\ current_time_ms >= GroupToCheck(n).next_packet_time_ms

\* DWORDs are subtracted modulo TickModulus and compared as they are.
Ready(n) ==
  /\ HasGroup(n)
  /\ current_time_ms >= GroupToCheck(n).next_packet_time_ms
  /\ GroupToCheck(n).current_packet_index = 0 =>
       (current_time_ms - queue_configs[n].last_injection_time_ms) % TickModulus
         >= queue_configs[n].injection_interval_ms

ReadyQueues == {n \in Known : Ready(n)}

\* Mutant: longer intervals come first.
SortedByPatience(S) ==
  {s \in [1 .. Cardinality(S) -> S] :
     \A i, j \in DOMAIN s : i < j =>
       /\ s[i] # s[j]
       /\ queue_configs[s[i]].injection_interval_ms
            >= queue_configs[s[j]].injection_interval_ms}

\* The ready queues by interval; std::sort leaves equal ones in any order.
SortedByInterval(S) ==
  {s \in [1 .. Cardinality(S) -> S] :
     \A i, j \in DOMAIN s : i < j =>
       /\ s[i] # s[j]
       /\ queue_configs[s[i]].injection_interval_ms
            <= queue_configs[s[j]].injection_interval_ms}

QueuesServed == IF Cardinality(ReadyQueues) < MAX_QUEUES_PER_TICK
                THEN Cardinality(ReadyQueues) ELSE MAX_QUEUES_PER_TICK

Served(s) == {s[i] : i \in 1 .. QueuesServed}

\* The copy of the queue's configuration and of its group that the injector
\* works on, with the registration they belong to.
ToInject(n) ==
  [name |-> n, group |-> GroupToCheck(n),
   injection_interval_ms |-> queue_configs[n].injection_interval_ms,
   packet_intervals_ms |-> queue_configs[n].packet_intervals_ms,
   epoch |-> epoch[n], since |-> registered[n]]

ScanNothingReady ==
  /\ injector = "scan"
  /\ ReadyQueues = {}
  /\ injector' = "idle"
  /\ UNCHANGED <<clock, tables, current_time_ms, stamped, groups_to_inject,
                 injected, clientVars>>

\* Mutant: the front group is taken without becoming the active one.
ScanWithoutActivating ==
  /\ injector = "scan"
  /\ ReadyQueues # {}
  /\ \E s \in SortedByInterval(ReadyQueues) :
       /\ groups_to_inject' = [i \in 1 .. QueuesServed |-> ToInject(s[i])]
       /\ packet_queues' = [n \in Names |->
            IF n \in Served(s) /\ ~queue_configs[n].has_active_group
            THEN Tail(packet_queues[n]) ELSE packet_queues[n]]
  /\ injector' = "stamp"
  /\ UNCHANGED <<clock, queue_configs, incomplete_groups, current_time_ms, stamped,
                 injected, clientVars>>

\* Under the lock: the first ready queues are served.  One without an active
\* group makes the front of its queue the active one.
Scan ==
  /\ injector = "scan"
  /\ ReadyQueues # {}
  /\ \E s \in SortedByInterval(ReadyQueues) :
       /\ groups_to_inject' = [i \in 1 .. QueuesServed |-> ToInject(s[i])]
       /\ queue_configs' = [n \in Known |->
            IF n \in Served(s)
            THEN [queue_configs[n] EXCEPT !.has_active_group = TRUE,
                                          !.active_group = GroupToCheck(n)]
            ELSE queue_configs[n]]
       /\ packet_queues' = [n \in Names |->
            IF n \in Served(s) /\ ~queue_configs[n].has_active_group
            THEN Tail(packet_queues[n]) ELSE packet_queues[n]]
  /\ injector' = "stamp"
  /\ UNCHANGED <<clock, incomplete_groups, current_time_ms, stamped, injected, clientVars>>

\* new_timestamp, one for the whole list.
Stamp ==
  /\ injector = "stamp"
  /\ injector' = "inject"
  /\ stamped' = clock
  /\ UNCHANGED <<clock, tables, current_time_ms, groups_to_inject, injected, clientVars>>

new_timestamp == stamped % TickModulus

\* InjectSinglePacket, outside the lock.
Inject ==
  /\ injector = "inject"
  /\ injector' = "write_back"
  /\ LET h == Head(groups_to_inject) IN
       injected' = Append(injected,
         [name |-> h.name, packets |-> h.group.packets,
          index |-> h.group.current_packet_index, at |-> stamped,
          injection_interval_ms |-> h.injection_interval_ms,
          packet_intervals_ms |-> h.packet_intervals_ms,
          epoch |-> h.epoch, since |-> h.since])
  /\ UNCHANGED <<clock, tables, current_time_ms, stamped, groups_to_inject, clientVars>>

\* operator[] of std::map: a name that is gone comes back zero-initialised.
ConfigOf(n) ==
  IF n \in Known THEN queue_configs[n]
  ELSE [injection_interval_ms |-> 0, last_injection_time_ms |-> 0, packet_count |-> 0,
        packet_intervals_ms |-> <<>>, has_active_group |-> FALSE, active_group |-> NoGroup]

\* The delay before the packet at `index`, 0 for one beyond the list.
Delay(packet_intervals_ms, index) ==
  IF index < Len(packet_intervals_ms) THEN packet_intervals_ms[index + 1] ELSE 0

\* Mutant: the time of the next packet is the time of this one.
AdvancedWithoutDelay(h) ==
  [h.group EXCEPT !.current_packet_index = @ + 1, !.next_packet_time_ms = new_timestamp]

\* Mutant: the time of the next packet is kept in 64 bits.
AdvancedPastWrap(h) ==
  LET index == h.group.current_packet_index + 1
  IN  [h.group EXCEPT !.current_packet_index = index,
         !.next_packet_time_ms = new_timestamp + Delay(h.packet_intervals_ms, index)]

\* The group with its next packet and the time for it, a DWORD.
Advanced(h) ==
  LET index == h.group.current_packet_index + 1
  IN  [h.group EXCEPT !.current_packet_index = index,
         !.next_packet_time_ms =
            (new_timestamp + Delay(h.packet_intervals_ms, index)) % TickModulus]

NextInList ==
  /\ groups_to_inject' = Tail(groups_to_inject)
  /\ injector' = IF Len(groups_to_inject) > 1 THEN "inject" ELSE "idle"
  /\ UNCHANGED <<clock, packet_queues, incomplete_groups, current_time_ms, stamped,
                 injected, clientVars>>

\* Mutant: a finished group is written back as an unfinished one is.
WriteBackEverything ==
  /\ injector = "write_back"
  /\ LET h == Head(groups_to_inject)
     IN  queue_configs' = WithConfig(h.name,
           [ConfigOf(h.name) EXCEPT !.active_group = Advanced(h)])
  /\ NextInList

\* Mutant: an unfinished group clears the active group too.
WriteBackClearingAlways ==
  /\ injector = "write_back"
  /\ LET h == Head(groups_to_inject)
     IN  queue_configs' = WithConfig(h.name,
           [ConfigOf(h.name) EXCEPT !.has_active_group = FALSE,
                                    !.last_injection_time_ms = new_timestamp])
  /\ NextInList

\* Under the lock again: an unfinished group stays active with its next packet,
\* a finished one makes room.  The name may be gone, or registered anew.
WriteBack ==
  /\ injector = "write_back"
  /\ LET h == Head(groups_to_inject)
     IN  queue_configs' = WithConfig(h.name,
           IF h.group.current_packet_index + 1 < Len(h.group.packets)
           THEN [ConfigOf(h.name) EXCEPT !.active_group = Advanced(h)]
           ELSE [ConfigOf(h.name) EXCEPT !.has_active_group = FALSE,
                                         !.last_injection_time_ms = new_timestamp])
  /\ NextInList

--------------------------------------------------------------------------------
Client ==
  \/ \E n \in Names, c \in Configs : RegisterQueue(n, c)
  \/ \E n \in Names : UnregisterQueue(n)
  \/ ClearAllQueues
  \/ \E n \in Names : InjectPacket(n)

PacketInjector ==
  \/ TimerFires \/ ScanNothingReady \/ Scan \/ Stamp \/ Inject \/ WriteBack

Next == TimePasses \/ Client \/ PacketInjector

Spec == Init /\ [][Next]_vars

--------------------------------------------------------------------------------
(* Properties *)

\* Every variable has its type, and the injector has a group while it injects.
TypeOK ==
  /\ clock \in Nat
  /\ Known \subseteq Names
  /\ queue_configs \in [Known -> QueueConfig]
  /\ packet_queues \in [Names -> Seq(Group)]
  /\ incomplete_groups \in [Names -> [packets : Seq(Packets), start_time_ms : Tick]]
  /\ injector \in {"idle", "scan", "stamp", "inject", "write_back"}
  /\ current_time_ms \in Tick
  /\ stamped \in Nat
  /\ groups_to_inject \in Seq(GroupInHand)
  /\ injector \in {"stamp", "inject", "write_back"} => groups_to_inject # <<>>
  /\ accepted \in Seq([name : Names, epoch : Nat]) /\ Len(accepted) <= MaxPackets
  /\ injected \in Seq(InjectionRecord)
  /\ epoch \in [Names -> Nat]
  /\ registered \in [Names -> Nat \cup {NONE}]

HasPacketLeft(g) == g.current_packet_index < Len(g.packets)

\* group.packets[packet_idx] is never read past the end, whatever the clients
\* did to the queue while the injector was working on a copy of its group.
IndexInBounds ==
  /\ \A n \in Known :
       queue_configs[n].has_active_group => HasPacketLeft(queue_configs[n].active_group)
  /\ \A n \in Names : \A k \in DOMAIN packet_queues[n] : HasPacketLeft(packet_queues[n][k])
  /\ \A k \in DOMAIN groups_to_inject : HasPacketLeft(groups_to_inject[k].group)

PacketOf(e) == e.packets[e.index + 1]

\* j and k are injections from one queue with none of that queue between them.
Consecutive(j, k) ==
  /\ j < k
  /\ injected[j].name = injected[k].name
  /\ \A i \in j + 1 .. k - 1 : injected[i].name # injected[k].name

\* The packets of a queue leave in the order they came, and none leaves twice,
\* across registrations, re-registrations and groups cut short.
InArrivalOrder ==
  \A j, k \in DOMAIN injected :
    j < k /\ injected[j].name = injected[k].name
      => PacketOf(injected[j]) < PacketOf(injected[k])

\* "Active group being injected (for atomic group injection)" (PacketSender.cpp:39):
\* after a packet of a queue comes the next of its group; another group starts
\* only after its last packet, unless a client changed the queue.
AtomicGroups ==
  \A j, k \in DOMAIN injected :
    Consecutive(j, k) =>
      \/ /\ injected[k].packets = injected[j].packets
         /\ injected[k].index = injected[j].index + 1
      \/ /\ injected[k].index = 0
         /\ \/ injected[j].index + 1 = Len(injected[j].packets)
            \/ injected[j].epoch # injected[k].epoch

\* Two groups of one registration are apart by the queue's interval at least,
\* even when the tick count wraps between them.
IntervalRespected ==
  \A j, k \in DOMAIN injected :
    Consecutive(j, k) /\ injected[k].index = 0 /\ injected[j].epoch = injected[k].epoch
      => injected[k].at - injected[j].at >= injected[k].injection_interval_ms

\* "Delay BEFORE injecting each packet (in ms)" (PacketSender.cpp:37): a packet
\* of a group follows the one before it by its own delay at least, across wraps
\* of the tick count too, unless its deadline itself wraps and looks long past.
DelayRespected ==
  \A j, k \in DOMAIN injected :
    LET delay == Delay(injected[j].packet_intervals_ms, injected[k].index)
    IN  /\ Consecutive(j, k) /\ injected[k].index > 0
        /\ (injected[j].at % TickModulus) + delay < TickModulus
        => injected[k].at - injected[j].at >= delay

InjectedPackets == {PacketOf(injected[k]) : k \in DOMAIN injected}

\* The packets of a queue that are still to be injected.
Pending(n) ==
  ToSet(incomplete_groups[n].packets)
  \cup (UNION {ToSet(g.packets) : g \in ToSet(packet_queues[n])})
  \cup (IF n \in Known /\ queue_configs[n].has_active_group
        THEN LET g == queue_configs[n].active_group
             IN  {g.packets[i] : i \in g.current_packet_index + 1 .. Len(g.packets)}
        ELSE {})

\* A packet a queue took is injected or still to be, unless a client has
\* registered the name anew, unregistered it or cleared all queues since.
NothingLost ==
  \A p \in DOMAIN accepted :
    epoch[accepted[p].name] = accepted[p].epoch =>
      p \in InjectedPackets \cup Pending(accepted[p].name)

\* "Initialize to current time so first injection waits for the full interval"
\* (PacketSender.cpp:79).  It need not: a queue registered while the timer's
\* callback waits for the lock is younger than the time the callback has read.
FirstInjectionWaits ==
  \A k \in DOMAIN injected :
    injected[k].index = 0 /\ injected[k].since # NONE
      => injected[k].at - injected[k].since >= injected[k].injection_interval_ms

\* "Remove a queue registration" (PacketDefs.h:52): only queues that a client
\* has registered and not removed since are known.
UnregisteredIsGone == \A n \in Known : registered[n] # NONE

(* The queues as InjectionSchedule has them: no times, packets or histories, *)
(* and the stamp is taken while the first queue is in hand.                  *)
Schedule == INSTANCE InjectionSchedule WITH
  Intervals <- {c.injection_interval_ms : c \in Configs},
  MaxWaiting <- MaxPackets,
  interval <- [n \in Known |-> queue_configs[n].injection_interval_ms],
  active <- {n \in Known : queue_configs[n].has_active_group},
  waiting <- [n \in Names |-> Len(packet_queues[n])],
  ready <- ReadyQueues,
  injector <- IF injector = "stamp" THEN "inject" ELSE injector,
  hand <- [i \in DOMAIN groups_to_inject |-> groups_to_inject[i].name]

\* What the injector does, with its two critical sections, the clients between
\* them and its stale copies of time and groups, is what InjectionSchedule says:
\* each tick serves the queues that are ready, by interval, and changes no other.
ImplementsSchedule == Schedule!Spec
================================================================================
