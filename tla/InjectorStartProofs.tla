--------------------------- MODULE InjectorStartProofs --------------------------
(***************************************************************************)
(* InjectorStart, proved for any windows and clients: the types, that      *)
(* there is one timer and one thread in the critical section unless two    *)
(* tests overlapped, and that only a removal can be lost in a critical     *)
(* section nobody has initialised.                                         *)
(*                                                                         *)
(* Both flags are tested and set in different steps.  Pending and First    *)
(* say what holds between the two for as long as no other thread has been  *)
(* between them as well.                                                   *)
(***************************************************************************)
EXTENDS InjectorStart, TLAPS

\* Whoever got past the test is alone, and there is no timer yet.
Pending ==
  /\ poller = "timer" \/ timers # {} \/ (\E w \in Windows : thread[w] = "timer")
       => bInjectorCallback
  /\ ~together =>
       /\ \A v, w \in Windows :
            thread[v] \in {"set", "timer"} /\ thread[w] \in {"set", "timer"} => v = w
       /\ \A w \in Windows :
            thread[w] \in {"set", "timer"} => poller \notin {"set", "timer"} /\ timers = {}
       /\ poller \in {"set", "timer"} => timers = {}
       /\ \A v, w \in timers : v = w

\* What a user's place says of the critical section.
Known ==
  /\ injection_queue_initialized => ready
  /\ \A u \in Users :
       /\ user[u] \in {"flag", "inside"} => ready
       /\ user[u] = "enter" => ready \/ u \in removing
       /\ user[u] = "lost" => u \in removing
       /\ u \in removing => user[u] \in {"enter", "inside", "lost"}

\* The first user is alone until the flag is set, and nobody is inside yet.
First ==
  ~first_together =>
    /\ \A u, v \in Users :
         user[u] \in {"init", "flag"} /\ user[v] \in {"init", "flag"} => u = v
    /\ \A u \in Users :
         /\ user[u] = "init" => ~ready
         /\ user[u] \in {"init", "flag"} => ~injection_queue_initialized
         /\ user[u] = "inside" => owner = u
    /\ ready => injection_queue_initialized \/ \E u \in Users : user[u] = "flag"

IInv == TypeOK /\ Pending /\ Known /\ First

--------------------------------------------------------------------------------
(* The windows and the timer *)

WindowStep == \E w \in Top : Open(w) \/ ComeToFront(w) \/ Close(w)

TimerStep ==
  HookCreateWindow \/ Poller \/ \E w \in Windows : CreateWindowExA_Hook(w)

LEMMA Apart ==
  /\ \A w \in Windows : w \in Top /\ w \in Users /\ w # NONE
  /\ \A c \in Clients : c \in Users /\ c \notin Windows
  /\ NONE \notin Top /\ NONE \notin Users /\ STUCK \notin Users
  /\ Top = Windows \cup Others
BY DistinctAssumption DEF Top, Users

LEMMA WindowSteps == TypeOK /\ Pending /\ WindowStep => TypeOK' /\ Pending'
<1> SUFFICES ASSUME TypeOK, Pending, WindowStep PROVE TypeOK' /\ Pending' OBVIOUS
<1>1. PICK w \in Top : Open(w) \/ ComeToFront(w) \/ Close(w) BY DEF WindowStep
<1> USE Apart DEF lockVars
<1>2. CASE Open(w)
  <2>1. front' \in FrontOf({v \in Top : window'[v] = "open"})
    BY <1>2 DEF Open, FrontOf, TypeOK
  <2>2. window' \in [Top -> {"none", "open", "closed"}] BY <1>2 DEF Open, TypeOK
  <2>3. timers' \subseteq {v \in Windows : window'[v] = "open"} BY <1>2 DEF Open, TypeOK
  <2>4. /\ thread' \in [Windows -> {"none", "test", "set", "timer", "loop"}]
        /\ \A v \in Windows : thread'[v] \in {"test", "set", "timer"} => window'[v] = "open"
    BY <1>2 DEF Open, TypeOK
  <2>5. TypeOK' BY <1>2, <2>1, <2>2, <2>3, <2>4 DEF Open, TypeOK
  <2>6. \A v \in Windows : thread'[v] \in {"set", "timer"} => thread'[v] = thread[v]
    BY <1>2 DEF Open, TypeOK
  <2>7. Pending' BY <1>2, <2>6 DEF Open, Pending
  <2> QED BY <2>5, <2>7
<1>3. CASE ComeToFront(w)
  <2>1. front' \in FrontOf({v \in Top : window'[v] = "open"})
    BY <1>3 DEF ComeToFront, FrontOf, TypeOK
  <2>2. TypeOK' BY <1>3, <2>1 DEF ComeToFront, TypeOK
  <2>3. Pending' BY <1>3 DEF ComeToFront, Pending
  <2> QED BY <2>2, <2>3
<1>4. CASE Close(w)
  <2>1. front' \in FrontOf({v \in Top : window'[v] = "open"})
    <3>1. {v \in Top : window'[v] = "open"} = {v \in Top \ {w} : window[v] = "open"}
      BY <1>4 DEF Close, TypeOK
    <3>2. CASE front = w BY <1>4, <3>1, <3>2 DEF Close
    <3>3. CASE front # w
      <4>1. front' = front BY <1>4, <3>3 DEF Close
      <4>2. w \in {v \in Top : window[v] = "open"} BY <1>4 DEF Close
      <4>3. front \in {v \in Top : window[v] = "open"} BY <4>2 DEF TypeOK, FrontOf
      <4>4. front \in {v \in Top \ {w} : window[v] = "open"} BY <3>3, <4>3
      <4> QED BY <3>1, <4>1, <4>4 DEF FrontOf
    <3> QED BY <3>2, <3>3
  <2>2. window' \in [Top -> {"none", "open", "closed"}] BY <1>4 DEF Close, TypeOK
  <2>3. timers' \subseteq {v \in Windows : window'[v] = "open"} BY <1>4 DEF Close, TypeOK
  <2>4. \A v \in Windows : thread'[v] \in {"test", "set", "timer"} => window'[v] = "open"
    BY <1>4 DEF Close, TypeOK
  <2>5. TypeOK' BY <1>4, <2>1, <2>2, <2>3, <2>4 DEF Close, TypeOK
  <2>6. Pending' BY <1>4 DEF Close, Pending
  <2> QED BY <2>5, <2>6
<1> QED BY <1>1, <1>2, <1>3, <1>4

LEMMA PollerSteps == TypeOK /\ Pending /\ Poller => TypeOK' /\ Pending'
<1> SUFFICES ASSUME TypeOK, Pending, Poller PROVE TypeOK' /\ Pending' OBVIOUS
<1> USE Apart DEF lockVars
<1>1. CASE Poll
  <2>1. TypeOK' BY <1>1 DEF Poll, TypeOK, GameInFront
  <2>2. Pending' BY <1>1 DEF Poll, Pending
  <2> QED BY <2>1, <2>2
<1>2. CASE SearchTest
  <2>0. together' \in BOOLEAN BY <1>2 DEF SearchTest, TypeOK, BetweenTestAndSet
  <2>1. TypeOK' BY <1>2, <2>0 DEF SearchTest, TypeOK
  <2>2. Pending'
    <3>1. CASE bInjectorCallback BY <1>2, <3>1 DEF SearchTest, Pending
    <3>2. CASE ~bInjectorCallback
      <4>1. /\ timers = {} /\ \A w \in Windows : thread[w] # "timer"
        BY <3>2 DEF Pending
      <4>2. ~together' => ~together /\ \A w \in Windows : thread[w] # "set"
        BY <1>2, <3>2 DEF SearchTest, BetweenTestAndSet
      <4> QED BY <1>2, <3>2, <4>1, <4>2 DEF SearchTest, Pending
    <3> QED BY <3>1, <3>2
  <2> QED BY <2>1, <2>2
<1>3. CASE SearchSet
  <2>1. TypeOK' BY <1>3 DEF SearchSet, TypeOK
  <2>2. Pending' BY <1>3 DEF SearchSet, Pending
  <2> QED BY <2>1, <2>2
<1>4. CASE SearchSetTimer
  <2>1. TypeOK' BY <1>4 DEF SearchSetTimer, TypeOK
  <2>2. Pending' BY <1>4 DEF SearchSetTimer, Pending
  <2> QED BY <2>1, <2>2
<1> QED BY <1>1, <1>2, <1>3, <1>4 DEF Poller

LEMMA HookSteps ==
  ASSUME TypeOK, Pending, NEW w \in Windows, CreateWindowExA_Hook(w)
  PROVE  TypeOK' /\ Pending'
<1> USE Apart DEF lockVars
<1>1. CASE HookTest(w)
  <2>0. together' \in BOOLEAN BY <1>1 DEF HookTest, TypeOK, BetweenTestAndSet
  <2>1. TypeOK' BY <1>1, <2>0 DEF HookTest, TypeOK
  <2>2. Pending'
    <3>1. CASE bInjectorCallback BY <1>1, <3>1 DEF HookTest, Pending, TypeOK
    <3>2. CASE ~bInjectorCallback
      <4>1. /\ timers = {} /\ poller # "timer" /\ \A v \in Windows : thread[v] # "timer"
        BY <3>2 DEF Pending
      <4>2. ~together' => poller # "set" /\ \A v \in Windows : thread[v] # "set"
        BY <1>1, <3>2 DEF HookTest, BetweenTestAndSet
      <4> QED BY <1>1, <3>2, <4>1, <4>2 DEF HookTest, Pending, TypeOK
    <3> QED BY <3>1, <3>2
  <2> QED BY <2>1, <2>2
<1>2. CASE HookSet(w)
  <2>1. TypeOK' BY <1>2 DEF HookSet, TypeOK
  <2>2. Pending' BY <1>2 DEF HookSet, Pending, TypeOK
  <2> QED BY <2>1, <2>2
<1>3. CASE HookSetTimer(w)
  <2>1. TypeOK' BY <1>3 DEF HookSetTimer, TypeOK
  <2>2. Pending' BY <1>3 DEF HookSetTimer, Pending, TypeOK
  <2> QED BY <2>1, <2>2
<1> QED BY <1>1, <1>2, <1>3 DEF CreateWindowExA_Hook

--------------------------------------------------------------------------------
(* The critical section *)

Where == {"idle", "test", "init", "flag", "enter", "inside", "lost"}

\* The part of TypeOK, and of the invariant, that is about the critical section.
LockType ==
  /\ ready \in BOOLEAN /\ injection_queue_initialized \in BOOLEAN
  /\ owner \in Users \cup {NONE, STUCK}
  /\ user \in [Users -> Where]
  /\ removing \subseteq Clients
  /\ first_together \in BOOLEAN

LInv == LockType /\ Known /\ First

LEMMA StartSteps ==
  ASSUME LInv, NEW u \in Users, NEW to \in {"test", "enter"}, At(u, "idle", to),
         removing' = removing \cup (IF to = "enter" THEN {u} ELSE {}),
         to = "enter" => u \in Clients,
         UNCHANGED <<ready, owner, injection_queue_initialized, first_together>>
  PROVE  LInv'
<1>1. LockType' BY DEF LInv, LockType, At, Where
<1>2. Known' BY DEF LInv, LockType, Known, At
<1>3. First' BY DEF LInv, LockType, First, At
<1> QED BY <1>1, <1>2, <1>3 DEF LInv

LEMMA TestStep ==
  ASSUME LInv, NEW u \in Users, TestInitialized(u)
  PROVE  LInv'
<1>1. LockType'
  <2>1. first_together' \in BOOLEAN BY DEF TestInitialized, LInv, LockType
  <2>2. user' \in [Users -> Where] BY DEF TestInitialized, LInv, LockType, At, Where
  <2> QED BY <2>1, <2>2 DEF TestInitialized, LInv, LockType
<1>2. Known' BY DEF TestInitialized, LInv, LockType, Known, At
<1>3. First'
  <2>1. CASE injection_queue_initialized
    <3>1. /\ user' = [user EXCEPT ![u] = "enter"] /\ user[u] = "test"
          /\ first_together' = first_together
      BY <2>1 DEF TestInitialized, At, LInv, LockType
    <3> QED BY <2>1, <3>1 DEF TestInitialized, LInv, LockType, First
  <2>2. CASE ~injection_queue_initialized
    <3>1. /\ user' = [user EXCEPT ![u] = "init"] /\ user[u] = "test"
          /\ UNCHANGED <<ready, owner, injection_queue_initialized>>
      BY <2>2 DEF TestInitialized, At
    <3>2. SUFFICES ASSUME ~first_together' PROVE First'
      BY DEF First
    <3>3. ~first_together /\ \A v \in Users : user[v] \notin {"init", "flag"}
      BY <2>2, <3>2 DEF TestInitialized
    <3>4. ~ready BY <2>2, <3>3 DEF LInv, First
    <3> QED BY <2>2, <3>1, <3>3, <3>4 DEF LInv, LockType, First
  <2> QED BY <2>1, <2>2
<1> QED BY <1>1, <1>2, <1>3 DEF LInv

LEMMA InitializeStep ==
  ASSUME LInv, NEW u \in Users, Initialize(u)
  PROVE  LInv'
<1>0. /\ user[u] = "init" /\ user' = [user EXCEPT ![u] = "flag"]
      /\ ready' = TRUE /\ owner' = NONE
      /\ UNCHANGED <<injection_queue_initialized, removing, first_together>>
  BY DEF Initialize, At
<1>1. LockType' BY <1>0 DEF LInv, LockType, Where
<1>2. Known' BY <1>0 DEF LInv, LockType, Known
<1>3. First'
  <2>1. user'[u] = "flag" BY <1>0 DEF LInv, LockType
  <2>2. ~first_together => \A v \in Users : user[v] # "inside"
    BY <1>0 DEF LInv, First, Known
  <2> QED BY <1>0, <2>1, <2>2 DEF LInv, LockType, First
<1> QED BY <1>1, <1>2, <1>3 DEF LInv

LEMMA OtherLockSteps ==
  ASSUME LInv, NEW u \in Users,
         SetInitialized(u) \/ Enter(u) \/ EnterZeroed(u) \/ Leave(u)
  PROVE  LInv'
<1>1. CASE SetInitialized(u)
  <2>1. LockType' BY <1>1 DEF SetInitialized, At, LInv, LockType, Where
  <2>2. Known' BY <1>1 DEF SetInitialized, At, LInv, LockType, Known
  <2>3. First' BY <1>1 DEF SetInitialized, At, LInv, LockType, First
  <2> QED BY <2>1, <2>2, <2>3 DEF LInv
<1>2. CASE Enter(u)
  <2>1. LockType' BY <1>2 DEF Enter, At, LInv, LockType, Where
  <2>2. Known' BY <1>2 DEF Enter, At, LInv, LockType, Known
  <2>3. First'
    <3>1. ~first_together => \A v \in Users : user[v] # "inside"
      BY <1>2, Apart DEF Enter, LInv, First
    <3> QED BY <1>2, <3>1 DEF Enter, At, LInv, LockType, First
  <2> QED BY <2>1, <2>2, <2>3 DEF LInv
<1>3. CASE EnterZeroed(u)
  <2>1. LockType' BY <1>3 DEF EnterZeroed, At, LInv, LockType, Where
  <2>2. Known' BY <1>3 DEF EnterZeroed, At, LInv, LockType, Known
  <2>3. First' BY <1>3 DEF EnterZeroed, At, LInv, LockType, First
  <2> QED BY <2>1, <2>2, <2>3 DEF LInv
<1>4. CASE Leave(u)
  <2>0. /\ user[u] = "inside"
        /\ \/ user' = [user EXCEPT ![u] = "idle"]
           \/ user' = [user EXCEPT ![u] = "enter"]
    BY <1>4 DEF Leave, At
  <2>1. LockType' BY <1>4, <2>0 DEF Leave, LInv, LockType, Where
  <2>2. Known' BY <1>4, <2>0 DEF Leave, LInv, LockType, Known
  <2>3. First' BY <1>4, <2>0 DEF Leave, LInv, LockType, First
  <2> QED BY <2>1, <2>2, <2>3 DEF LInv
<1> QED BY <1>1, <1>2, <1>3, <1>4

--------------------------------------------------------------------------------
(* The theorems *)

LEMMA Initially == Init => IInv
<1> SUFFICES ASSUME Init PROVE IInv OBVIOUS
<1>0. PICK S \in SUBSET Top :
        /\ window = [w \in Top |-> IF w \in S THEN "open" ELSE "none"]
        /\ front \in FrontOf(S)
        /\ thread = [w \in Windows |-> IF w \in S THEN "loop" ELSE "none"]
  BY DEF Init
<1>1. S = {w \in Top : window[w] = "open"} BY <1>0
<1>2. TypeOK
  <2>1. /\ window \in [Top -> {"none", "open", "closed"}]
        /\ front \in FrontOf({w \in Top : window[w] = "open"})
        /\ thread \in [Windows -> {"none", "test", "set", "timer", "loop"}]
        /\ \A w \in Windows : thread[w] \notin {"test", "set", "timer"}
    BY <1>0, <1>1
  <2> QED BY <2>1 DEF Init, TypeOK
<1>3. \A w \in Windows : thread[w] \notin {"set", "timer"} BY <1>0
<1>4. Pending BY <1>3 DEF Init, Pending
<1>5. Known BY DEF Init, Known
<1>6. First BY DEF Init, First
<1> QED BY <1>2, <1>4, <1>5, <1>6 DEF IInv

LEMMA Inductive == IInv /\ [Next]_vars => IInv'
<1> SUFFICES ASSUME IInv, [Next]_vars PROVE IInv' OBVIOUS
<1>0. TypeOK /\ Pending /\ LInv
  <2>1. LockType BY DEF IInv, TypeOK, LockType, Where
  <2> QED BY <2>1 DEF IInv, LInv
<1>1. ASSUME UNCHANGED lockVars, TypeOK' /\ Pending' PROVE IInv'
  <2>1. Known' /\ First'
    BY <1>0, <1>1 DEF LInv, Known, First, lockVars
  <2> QED BY <1>1, <2>1 DEF IInv
<1>2. ASSUME UNCHANGED timerVars, LInv' PROVE IInv'
  <2>1. Pending' BY <1>0, <1>2 DEF Pending, timerVars
  <2>2. TypeOK' BY <1>0, <1>2 DEF TypeOK, timerVars, LInv, LockType, Where
  <2> QED BY <1>2, <2>1, <2>2 DEF IInv, LInv
<1>3. CASE WindowStep
  <2>1. UNCHANGED lockVars BY <1>3 DEF WindowStep, Open, ComeToFront, Close
  <2> QED BY <1>0, <1>1, <1>3, <2>1, WindowSteps
<1>4. CASE HookCreateWindow
  <2>1. UNCHANGED lockVars BY <1>4 DEF HookCreateWindow
  <2>2. TypeOK' BY <1>0, <1>4, <2>1 DEF HookCreateWindow, TypeOK, lockVars
  <2>3. Pending' BY <1>0, <1>4 DEF HookCreateWindow, Pending
  <2> QED BY <1>1, <2>1, <2>2, <2>3
<1>5. CASE Poller
  <2>1. UNCHANGED lockVars BY <1>5 DEF Poller, Poll, SearchTest, SearchSet, SearchSetTimer
  <2> QED BY <1>0, <1>1, <1>5, <2>1, PollerSteps
<1>6. ASSUME NEW w \in Windows, CreateWindowExA_Hook(w) PROVE IInv'
  <2>1. UNCHANGED lockVars
    BY <1>6 DEF CreateWindowExA_Hook, HookTest, HookSet, HookSetTimer
  <2> QED BY <1>0, <1>1, <1>6, <2>1, HookSteps
<1>7. ASSUME NEW w \in Windows, Tick(w) PROVE IInv'
  <2>1. w \in Users BY Apart
  <2>2. LInv' BY <1>0, <1>7, <2>1, StartSteps DEF Tick
  <2> QED BY <1>2, <1>7, <2>2 DEF Tick
<1>8. ASSUME NEW c \in Clients, Command(c) \/ Removal(c) PROVE IInv'
  <2>1. c \in Users BY Apart
  <2>2. CASE Command(c)
    <3>1. LInv' BY <1>0, <2>1, <2>2, StartSteps DEF Command
    <3> QED BY <1>2, <2>2, <3>1 DEF Command
  <2>3. CASE Removal(c)
    <3>1. LInv' BY <1>0, <2>1, <2>3, StartSteps DEF Removal
    <3> QED BY <1>2, <2>3, <3>1 DEF Removal
  <2> QED BY <1>8, <2>2, <2>3
<1>9. ASSUME NEW u \in Users, CriticalSection(u) PROVE IInv'
  <2>1. UNCHANGED timerVars
    BY <1>9 DEF CriticalSection, TestInitialized, Initialize, SetInitialized, Enter,
                EnterZeroed, Leave
  <2>2. LInv'
    BY <1>0, <1>9, TestStep, InitializeStep, OtherLockSteps DEF CriticalSection
  <2> QED BY <1>2, <2>1, <2>2
<1>10. CASE UNCHANGED vars
  <2>1. UNCHANGED timerVars /\ UNCHANGED lockVars BY <1>10 DEF vars
  <2>2. LInv' BY <1>0, <2>1 DEF LInv, LockType, Known, First, lockVars
  <2> QED BY <1>2, <2>1, <2>2
<1> QED BY <1>3, <1>4, <1>5, <1>6, <1>7, <1>8, <1>9, <1>10 DEF Next, WindowStep

THEOREM Invariant == Spec => []IInv
BY Initially, Inductive, PTL DEF Spec

\* Every variable keeps its type, and only open windows have timers.
THEOREM TypeCorrect == Spec => []TypeOK
<1>1. IInv => TypeOK BY DEF IInv
<1> QED BY <1>1, Invariant, PTL

\* However windows open, close and change places, there is at most one timer,
\* unless two threads were between the test and the setting of
\* bInjectorCallback at once.
THEOREM OneTimerTheorem == Spec => []OneTimer
<1>1. IInv => OneTimer BY DEF IInv, Pending, OneTimer
<1> QED BY <1>1, Invariant, PTL

\* At most one thread is in the critical section, unless two first users were
\* between the test and the setting of injection_queue_initialized at once.
THEOREM ExclusiveTheorem == Spec => []Exclusive
<1>1. IInv => Exclusive BY DEF IInv, First, Exclusive
<1> QED BY <1>1, Invariant, PTL

\* Only UnregisterQueue and ClearAllQueues ever enter a critical section that is
\* still all zero.
THEOREM LostForACauseTheorem == Spec => []LostForACause
<1>1. IInv => LostForACause BY DEF IInv, Known, LostForACause
<1> QED BY <1>1, Invariant, PTL
================================================================================
