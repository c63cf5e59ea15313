------------------------------ MODULE InjectorStart -----------------------------
(***************************************************************************)
(* How packet injection gets going: the timer whose callback,              *)
(* PacketInjector, runs in the game's own threads, and the critical        *)
(* section it shares with the clients' threads (Packet/PacketSender.cpp    *)
(* and Packet/PacketTCP.cpp).                                              *)
(*                                                                         *)
(* A polling thread looks once a second for the game's window; a hook of   *)
(* CreateWindowExA catches the ones created later.  Both test              *)
(* bInjectorCallback, set it, and only then call SetTimer.  The critical   *)
(* section is initialised by its first user, whoever that is: a timer      *)
(* callback or a client that registers a queue or queues a packet.  The    *)
(* two commands that remove queues do not test.                            *)
(*                                                                         *)
(* What is done inside the critical section is the subject of              *)
(* InjectionQueues.                                                        *)
(***************************************************************************)
CONSTANTS
  Windows,  \* windows of class MapleStoryClass, each with a thread of its own
  Others,   \* the process's other top-level windows
  Clients,  \* threads that serve a connection
  NONE,     \* no window, no owner
  STUCK     \* owner of a critical section that was damaged: nobody gets in

ASSUME DistinctAssumption ==
  /\ Windows \cap Others = {} /\ Windows \cap Clients = {}
  /\ NONE \notin Windows \cup Clients \cup Others /\ STUCK \notin Windows \cup Clients
  /\ NONE # STUCK

Users == Windows \cup Clients
Top == Windows \cup Others

VARIABLES
  window,     \* per window: "none", "open" or "closed"
  front,      \* the open one EnumWindows calls first, if any
  hooked,     \* CreateWindowExA is hooked
  bInjectorCallback,
  timers,     \* windows with timer 1337
  poller,     \* SetCallBackThread: where it is
  hwnd,       \* the window SearchMaple was called for
  thread,     \* per game window: where its thread is in CreateWindowExA_Hook
  ready,      \* injection_queue_cs was initialised
  owner,      \* who holds it
  injection_queue_initialized,
  user,       \* per user of the critical section: where it is
  removing,   \* clients inside UnregisterQueue or ClearAllQueues
  together,   \* two threads found bInjectorCallback unset before either set it
  first_together  \* the same of injection_queue_initialized

timerVars == <<window, front, hooked, bInjectorCallback, timers, poller, hwnd, thread,
               together>>
lockVars == <<ready, owner, injection_queue_initialized, user, removing, first_together>>
vars == <<timerVars, lockVars>>

\* Which of a set of windows may be in front.
FrontOf(S) == IF S = {} THEN {NONE} ELSE S

\* The library may be loaded into a game that has windows.
Init ==
  /\ \E S \in SUBSET Top :
       /\ window = [w \in Top |-> IF w \in S THEN "open" ELSE "none"]
       /\ front \in FrontOf(S)
       /\ thread = [w \in Windows |-> IF w \in S THEN "loop" ELSE "none"]
  /\ hooked = FALSE
  /\ bInjectorCallback = FALSE
  /\ timers = {}
  /\ poller = "poll"
  /\ hwnd = NONE
  /\ ready = FALSE
  /\ owner = NONE
  /\ injection_queue_initialized = FALSE
  /\ user = [u \in Users |-> "idle"]
  /\ removing = {}
  /\ together = FALSE
  /\ first_together = FALSE

--------------------------------------------------------------------------------
(* The windows (external) *)

\* The first window EnumWindows finds of this process is the game's.
GameInFront == front \in Windows

\* A window opens in front; a game window does so in its thread, and through the
\* hook when it is there.
Open(w) ==
  /\ window[w] = "none"
  /\ window' = [window EXCEPT ![w] = "open"]
  /\ front' = w
  /\ IF w \in Windows
       THEN thread' = [thread EXCEPT ![w] = IF hooked THEN "test" ELSE "loop"]
       ELSE UNCHANGED thread
  /\ UNCHANGED <<hooked, bInjectorCallback, timers, poller, hwnd, together, lockVars>>

ComeToFront(w) ==
  /\ window[w] = "open"
  /\ front' = w
  /\ UNCHANGED <<window, hooked, bInjectorCallback, timers, poller, hwnd, thread, together,
                 lockVars>>

\* A window is destroyed by its thread, and its timer with it.
Close(w) ==
  /\ window[w] = "open"
  /\ w \in Windows => thread[w] = "loop" /\ user[w] = "idle"
  /\ window' = [window EXCEPT ![w] = "closed"]
  /\ front' \in IF front = w THEN FrontOf({v \in Top \ {w} : window[v] = "open"}) ELSE {front}
  /\ timers' = timers \ {w}
  /\ UNCHANGED <<hooked, bInjectorCallback, poller, hwnd, thread, together, lockVars>>

--------------------------------------------------------------------------------
(* The timer *)

\* SetBackdoor starts the polling thread, and then hooks CreateWindowExA.
HookCreateWindow ==
  /\ ~hooked
  /\ hooked' = TRUE
  /\ UNCHANGED <<window, front, bInjectorCallback, timers, poller, hwnd, thread, together,
                 lockVars>>

\* Mutant: a window of any class will do.
PollAnyClass ==
  /\ poller = "poll"
  /\ \/ bInjectorCallback /\ poller' = "done" /\ UNCHANGED hwnd
     \/ ~bInjectorCallback /\ front # NONE /\ hwnd' = front /\ poller' = "test"
  /\ UNCHANGED <<window, front, hooked, bInjectorCallback, timers, thread, together, lockVars>>

\* Mutant: the thread looks once.
PollOnce ==
  /\ poller = "poll"
  /\ IF bInjectorCallback
       THEN poller' = "done" /\ UNCHANGED hwnd
       ELSE /\ poller' = IF GameInFront THEN "test" ELSE "done"
            /\ hwnd' = IF GameInFront THEN front ELSE NONE
  /\ UNCHANGED <<window, front, hooked, bInjectorCallback, timers, thread, together, lockVars>>

\* SetCallBackThread and SetCallBack test the flag; EnumWindows calls SearchMaple
\* from the front, and the first window of this process ends the search whatever
\* its class.
Poll ==
  /\ poller = "poll"
  /\ \/ bInjectorCallback /\ poller' = "done" /\ UNCHANGED hwnd
     \/ /\ ~bInjectorCallback
        /\ GameInFront
        /\ hwnd' = front
        /\ poller' = "test"
     \/ /\ ~bInjectorCallback
        /\ ~GameInFront
        /\ UNCHANGED <<poller, hwnd>>
  /\ UNCHANGED <<window, front, hooked, bInjectorCallback, timers, thread, together, lockVars>>

BetweenTestAndSet == poller = "set" \/ \E w \in Windows : thread[w] = "set"

SearchTest ==
  /\ poller = "test"
  /\ IF bInjectorCallback
       THEN poller' = "poll" /\ hwnd' = NONE
       ELSE poller' = "set" /\ UNCHANGED hwnd
  /\ together' = (together \/ (~bInjectorCallback /\ BetweenTestAndSet))
  /\ UNCHANGED <<window, front, hooked, bInjectorCallback, timers, thread, lockVars>>

SearchSet ==
  /\ poller = "set"
  /\ poller' = "timer"
  /\ bInjectorCallback' = TRUE
  /\ UNCHANGED <<window, front, hooked, timers, hwnd, thread, together, lockVars>>

\* SetTimer fails, unnoticed, when the window is gone.
SearchSetTimer ==
  /\ poller = "timer"
  /\ poller' = "poll"
  /\ hwnd' = NONE
  /\ timers' = IF window[hwnd] = "open" THEN timers \cup {hwnd} ELSE timers
  /\ UNCHANGED <<window, front, hooked, bInjectorCallback, thread, together, lockVars>>

\* Mutant: the hook does not look at the flag.
HookTestAlways(w) ==
  /\ thread[w] = "test"
  /\ thread' = [thread EXCEPT ![w] = "set"]
  /\ together' = (together \/ (~bInjectorCallback /\ BetweenTestAndSet))
  /\ UNCHANGED <<window, front, hooked, bInjectorCallback, timers, poller, hwnd, lockVars>>

HookTest(w) ==
  /\ thread[w] = "test"
  /\ thread' = [thread EXCEPT ![w] = IF bInjectorCallback THEN "loop" ELSE "set"]
  /\ together' = (together \/ (~bInjectorCallback /\ BetweenTestAndSet))
  /\ UNCHANGED <<window, front, hooked, bInjectorCallback, timers, poller, hwnd, lockVars>>

HookSet(w) ==
  /\ thread[w] = "set"
  /\ thread' = [thread EXCEPT ![w] = "timer"]
  /\ bInjectorCallback' = TRUE
  /\ UNCHANGED <<window, front, hooked, timers, poller, hwnd, together, lockVars>>

HookSetTimer(w) ==
  /\ thread[w] = "timer"
  /\ thread' = [thread EXCEPT ![w] = "loop"]
  /\ timers' = timers \cup {w}
  /\ UNCHANGED <<window, front, hooked, bInjectorCallback, poller, hwnd, together, lockVars>>

--------------------------------------------------------------------------------
(* The critical section *)

At(u, from, to) == user[u] = from /\ user' = [user EXCEPT ![u] = to]

\* The timer's callback runs in the window's thread.
Tick(w) ==
  /\ w \in timers
  /\ thread[w] = "loop"
  /\ At(w, "idle", "test")
  /\ UNCHANGED <<timerVars, ready, owner, injection_queue_initialized, removing, first_together>>

\* A client registers a queue or queues a packet.
Command(c) ==
  /\ At(c, "idle", "test")
  /\ UNCHANGED <<timerVars, ready, owner, injection_queue_initialized, removing, first_together>>

\* It unregisters one, or clears them all.
Removal(c) ==
  /\ At(c, "idle", "enter")
  /\ removing' = removing \cup {c}
  /\ UNCHANGED <<timerVars, ready, owner, injection_queue_initialized, first_together>>

\* Mutant: every use initialises.
TestNothing(u) ==
  /\ At(u, "test", "init")
  /\ first_together' = (first_together \/
       (~injection_queue_initialized /\ \E v \in Users : user[v] \in {"init", "flag"}))
  /\ UNCHANGED <<timerVars, ready, owner, injection_queue_initialized, removing>>

TestInitialized(u) ==
  /\ At(u, "test", IF injection_queue_initialized THEN "enter" ELSE "init")
  /\ first_together' = (first_together \/
       (~injection_queue_initialized /\ \E v \in Users : user[v] \in {"init", "flag"}))
  /\ UNCHANGED <<timerVars, ready, owner, injection_queue_initialized, removing>>

\* Mutant: the flag is set first, the critical section initialised after it.
FlagFirst(u) ==
  /\ At(u, "init", "flag")
  /\ injection_queue_initialized' = TRUE
  /\ UNCHANGED <<timerVars, ready, owner, removing, first_together>>

\* InitializeCriticalSection forgets who is inside.
Initialize(u) ==
  /\ At(u, "init", "flag")
  /\ ready' = TRUE
  /\ owner' = NONE
  /\ UNCHANGED <<timerVars, injection_queue_initialized, removing, first_together>>

SetInitialized(u) ==
  /\ At(u, "flag", "enter")
  /\ injection_queue_initialized' = TRUE
  /\ UNCHANGED <<timerVars, ready, owner, removing, first_together>>

Enter(u) ==
  /\ ready
  /\ owner = NONE
  /\ At(u, "enter", "inside")
  /\ owner' = u
  /\ UNCHANGED <<timerVars, ready, injection_queue_initialized, removing, first_together>>

\* It is still all zero: the thread does not come out again.
EnterZeroed(u) ==
  /\ ~ready
  /\ At(u, "enter", "lost")
  /\ UNCHANGED <<timerVars, ready, owner, injection_queue_initialized, removing, first_together>>

\* The injector comes back for each packet it has injected.  Leaving a critical
\* section one does not hold frees it under its holder, or breaks it.
Leave(u) ==
  /\ \/ At(u, "inside", "idle")
     \/ u \in Windows /\ At(u, "inside", "enter")
  /\ owner' \in IF owner = u THEN {NONE} ELSE {NONE, STUCK}
  /\ removing' = removing \ {u}
  /\ UNCHANGED <<timerVars, ready, injection_queue_initialized, first_together>>

--------------------------------------------------------------------------------
Poller == Poll \/ SearchTest \/ SearchSet \/ SearchSetTimer
CreateWindowExA_Hook(w) == HookTest(w) \/ HookSet(w) \/ HookSetTimer(w)
CriticalSection(u) ==
  TestInitialized(u) \/ Initialize(u) \/ SetInitialized(u) \/ Enter(u) \/ EnterZeroed(u)
    \/ Leave(u)

Next ==
  \/ \E w \in Top : Open(w) \/ ComeToFront(w) \/ Close(w)
  \/ HookCreateWindow
  \/ Poller
  \/ \E w \in Windows : CreateWindowExA_Hook(w) \/ Tick(w)
  \/ \E c \in Clients : Command(c) \/ Removal(c)
  \/ \E u \in Users : CriticalSection(u)

Spec == Init /\ [][Next]_vars

\* The system runs the polling thread, and a thread inside CreateWindowExA_Hook.
FairSpec ==
  /\ Spec
  /\ WF_vars(Poller)
  /\ \A w \in Windows : WF_vars(CreateWindowExA_Hook(w))

--------------------------------------------------------------------------------
(* Properties *)

\* The type of every variable; only an open window has a timer.
TypeOK ==
  /\ window \in [Top -> {"none", "open", "closed"}]
  /\ front \in FrontOf({w \in Top : window[w] = "open"})
  /\ hooked \in BOOLEAN /\ bInjectorCallback \in BOOLEAN
  /\ timers \subseteq {w \in Windows : window[w] = "open"}
  /\ poller \in {"poll", "test", "set", "timer", "done"}
  /\ hwnd \in IF poller \in {"test", "set", "timer"} THEN Windows ELSE {NONE}
  /\ thread \in [Windows -> {"none", "test", "set", "timer", "loop"}]
  /\ \A w \in Windows : thread[w] \in {"test", "set", "timer"} => window[w] = "open"
  /\ ready \in BOOLEAN /\ injection_queue_initialized \in BOOLEAN
  /\ owner \in Users \cup {NONE, STUCK}
  /\ user \in [Users -> {"idle", "test", "init", "flag", "enter", "inside", "lost"}]
  /\ removing \subseteq Clients
  /\ together \in BOOLEAN /\ first_together \in BOOLEAN

\* The injector's state is written for one timer.  Windows may come, go and be
\* found by both threads in any order: two of them carry a timer only when the
\* polling thread and a hook, or two hooks, both tested before either set the
\* flag.
OneTimer == ~together => \A v, w \in timers : v = w

\* The queues are changed by one thread at a time, unless the first two users
\* both found the critical section uninitialised.
Exclusive ==
  ~first_together => \A u, v \in Users : user[u] = "inside" /\ user[v] = "inside" => u = v

\* A thread of the game never enters before the critical section is initialised,
\* nor does a client but with a removal as the first command of all.
LostForACause ==
  \A u \in Users : user[u] = "lost" => u \in removing

\* When the game's window stays in front of the process's other windows, a timer
\* is installed, unless a window was closed and took its timer along: the flag
\* then stays set and nobody looks again.
InjectionStarts ==
  <>[]GameInFront => <>(timers # {} \/ \E w \in Windows : window[w] = "closed")
================================================================================
