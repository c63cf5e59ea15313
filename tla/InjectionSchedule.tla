--------------------------- MODULE InjectionSchedule ---------------------------
(***************************************************************************)
(* Which queue PacketInjector (Packet/PacketSender.cpp) serves when, with  *)
(* clients that never run out of packets.                                  *)
(*                                                                         *)
(* InjectionQueues has times, packets and histories and hence a finite     *)
(* supply, with which no queue can starve.  Here a queue is its interval,  *)
(* the number of its waiting groups and whether one is active.  Times are  *)
(* left out but for what comes of them: `ready` has the queues that are    *)
(* ready at the time the injector has read.  InjectionQueues implements    *)
(* this module.                                                            *)
(***************************************************************************)
EXTENDS Integers, Sequences, FiniteSets

CONSTANTS
  Names,                \* queue names the clients use
  Intervals,            \* the intervals they register
  MAX_QUEUES_PER_TICK,  \* queues served per timer tick (10 in the code)
  MaxWaiting            \* bound: complete groups waiting in one queue

ASSUME ScheduleAssumption ==
  /\ IsFiniteSet(Names) /\ Intervals \subseteq Nat
  /\ MAX_QUEUES_PER_TICK \in Nat \ {0} /\ MaxWaiting \in Nat

VARIABLES
  interval,  \* injection_interval_ms of the queues in queue_configs
  active,    \* the queues with an active group
  waiting,   \* the number of groups in each of packet_queues
  ready,     \* the queues that are ready by the time the injector has read
  injector,  \* where PacketInjector is
  hand       \* groups_to_inject, from the queue in hand on

vars == <<interval, active, waiting, ready, injector, hand>>
queueVars == <<interval, active, waiting>>

Known == DOMAIN interval
HasGroup(n) == n \in active \/ (n \in Known /\ waiting[n] > 0)
WithGroup == {n \in Names : HasGroup(n)}

Init ==
  /\ interval = <<>>
  /\ active = {}
  /\ waiting = [n \in Names |-> 0]
  /\ ready = {}
  /\ injector = "idle"
  /\ hand = <<>>

WithInterval(n, i) == [m \in Known \cup {n} |-> IF m = n THEN i ELSE interval[m]]

\* What happens to n may make it ready or not, and no other queue.
OnlyReadiness(n) ==
  /\ ready' \in {ready \ {n}, ready \cup {n}}
  /\ ready' \subseteq WithGroup'

--------------------------------------------------------------------------------
(* The clients *)

RegisterQueue(n, i) ==
  /\ interval' = WithInterval(n, i)
  /\ active' = active \ {n}
  /\ UNCHANGED <<waiting, injector, hand>>
  /\ OnlyReadiness(n)

UnregisterQueue(n) ==
  /\ n \in Known
  /\ interval' = [m \in Known \ {n} |-> interval[m]]
  /\ active' = active \ {n}
  /\ waiting' = [waiting EXCEPT ![n] = 0]
  /\ ready' = ready \ {n}
  /\ UNCHANGED <<injector, hand>>

ClearAllQueues ==
  /\ interval' = <<>>
  /\ active' = {}
  /\ waiting' = [n \in Names |-> 0]
  /\ ready' = {}
  /\ UNCHANGED <<injector, hand>>

\* The last packet of a group comes: InjectPacket queues it.
NewGroup(n) ==
  /\ n \in Known
  /\ waiting[n] < MaxWaiting
  /\ waiting' = [waiting EXCEPT ![n] = @ + 1]
  /\ UNCHANGED <<interval, active, injector, hand>>
  /\ OnlyReadiness(n)

--------------------------------------------------------------------------------
(* PacketInjector *)

\* The time is read: any of the queues with a group may be ready by now.
TimerFires ==
  /\ injector = "idle"
  /\ injector' = "scan"
  /\ ready' \in SUBSET WithGroup
  /\ UNCHANGED <<queueVars, hand>>

ScanNothingReady ==
  /\ injector = "scan"
  /\ ready = {}
  /\ injector' = "idle"
  /\ UNCHANGED <<queueVars, ready, hand>>

\* Mutant: the ready queues are left in the order of their names, which is any.
InAnyOrder(S) ==
  {s \in [1 .. Cardinality(S) -> S] : \A i, j \in DOMAIN s : i < j => s[i] # s[j]}

\* The ready queues by interval; std::sort leaves equal ones in any order.
SortedByInterval(S) ==
  {s \in [1 .. Cardinality(S) -> S] :
     \A i, j \in DOMAIN s : i < j => s[i] # s[j] /\ interval[s[i]] <= interval[s[j]]}

QueuesServed == IF Cardinality(ready) < MAX_QUEUES_PER_TICK
                THEN Cardinality(ready) ELSE MAX_QUEUES_PER_TICK

\* The first of them are served.  One without an active group takes a waiting one.
Scan ==
  /\ injector = "scan"
  /\ ready # {}
  /\ injector' = "inject"
  /\ \E s \in SortedByInterval(ready) :
       LET served == {s[i] : i \in 1 .. QueuesServed}
       IN  /\ hand' = [i \in 1 .. QueuesServed |-> s[i]]
           /\ active' = active \cup served
           /\ waiting' = [n \in Names |-> IF n \in served \ active THEN waiting[n] - 1
                                          ELSE waiting[n]]
  /\ UNCHANGED <<interval, ready>>

Inject ==
  /\ injector = "inject"
  /\ injector' = "write_back"
  /\ UNCHANGED <<queueVars, ready, hand>>

\* The group goes on or is finished.  A queue that is gone comes back, zeroed.
WriteBack ==
  /\ injector = "write_back"
  /\ LET n == Head(hand)
     IN  /\ interval' = IF n \in Known THEN interval ELSE WithInterval(n, 0)
         /\ active' \in {active, active \ {n}}
         /\ UNCHANGED waiting
         /\ OnlyReadiness(n)
  /\ hand' = Tail(hand)
  /\ injector' = IF Len(hand) > 1 THEN "inject" ELSE "idle"

--------------------------------------------------------------------------------
PacketInjector == TimerFires \/ ScanNothingReady \/ Scan \/ Inject \/ WriteBack

Next ==
  \/ \E n \in Names, i \in Intervals : RegisterQueue(n, i)
  \/ \E n \in Names : UnregisterQueue(n) \/ NewGroup(n)
  \/ ClearAllQueues
  \/ PacketInjector

Spec == Init /\ [][Next]_vars

\* A client registers n anew, unregisters it or clears all queues.
Changes(n) == (\E i \in Intervals : RegisterQueue(n, i)) \/ UnregisterQueue(n) \/ ClearAllQueues

\* The timer finds n ready.
TimerFinds(n) == TimerFires /\ n \in ready'

(* The game's window goes on handling its timer, and time passes: a queue  *)
(* that keeps a group and is not for ever changed is found ready again and *)
(* again, for its interval and its delays are finite.                      *)
FairSpec ==
  /\ Spec
  /\ WF_vars(PacketInjector)
  /\ \A n \in Names : SF_vars(TimerFinds(n)) \/ []<><<Changes(n)>>_vars

--------------------------------------------------------------------------------
(* Properties *)

\* As many other queues as a tick serves have groups and go before n, or may.
Crowded(n) ==
  n \in Known /\
  Cardinality({m \in WithGroup \ {n} : interval[m] <= interval[n]}) >= MAX_QUEUES_PER_TICK

\* "Process ALL ready queues (not just one!)", "Limit to max 10 queues per tick"
\* (PacketSender.cpp:333): a queue with a group has its next packet injected,
\* however much the other queues have to inject, unless clients change it for
\* ever or it is again and again behind a tick's full number of other queues.
QueueIsServed ==
  \A n \in Names :
    \/ []<>Crowded(n)
    \/ []<><<Changes(n)>>_vars
    \/ HasGroup(n) ~> \/ injector = "write_back" /\ Head(hand) = n
                      \/ ~HasGroup(n)
================================================================================
