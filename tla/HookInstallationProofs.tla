----------------------- MODULE HookInstallationProofs --------------------------
(***************************************************************************)
(* HookInstallation, proved for any set of threads and every combination   *)
(* of build, settings and image: the types, that a send is logged at most  *)
(* once and, once the hooks are in, exactly once, and that a thread        *)
(* crashes only for one of the known causes.                               *)
(*                                                                         *)
(* The invariant relates how far the installation is to what it has left   *)
(* behind (Jumps, Progress, Known), and each thread's place to both        *)
(* (Position, Counted, Covered).                                           *)
(***************************************************************************)
EXTENDS HookInstallation, TLAPS

AllHookable == \A f \in Functions : Hookable(f)

Last == {"COutPacket", "ProcessPacket", "done"}

\* A jump belongs to a function with a copy, and is half written only while that
\* function's turn lasts.
Jumps ==
  \A f \in Functions :
    /\ entry[f] # "original" => f \in trampoline
    /\ entry[f] = "torn" => installer = f /\ ~Atomic(f)

\* What each step of the installation leaves behind.
Progress ==
  /\ installer # "SendPacket" /\ Hookable("SendPacket") => entry["SendPacket"] = "hooked"
  /\ installer \in Last /\ Hookable("SendPacket") /\ Hookable("EnterSendPacket") =>
       entry["EnterSendPacket"] = "hooked"
  /\ installer \in {"ProcessPacket", "done"} /\ AllHookable => "COutPacket" \in trampoline
  /\ installer = "done" /\ AllHookable => "ProcessPacket" \in trampoline

\* The same for the pointers.
Known ==
  /\ ret_known => Found("EnterSendPacket")
  /\ "EnterSendPacket" \in trampoline => ret_known
  /\ "COutPacket" \in trampoline => HookFormats /\ (win64 => ret_known)
  /\ installer \in {"ret", "stub", "socket", "original", "EnterSendPacket"} =>
       Found("EnterSendPacket")
  /\ installer \in {"stub", "socket", "original", "EnterSendPacket"} => ret_known
  /\ win64 /\ installer \in {"socket", "EnterSendPacket"} => stub
  /\ win64 /\ installer = "EnterSendPacket" => socket
  /\ win64 /\ installer \in Last /\ Found("SendPacket") /\ Found("EnterSendPacket") =>
       ret_known /\ stub /\ socket
  /\ installer = "original" => ~win64

Injected(t) == call[t] \notin DOMAIN CallTarget

\* Where a thread can be, given how far the installation is.
Position(t) ==
  /\ late[t] => installer = "done"
  /\ at[t] # "idle" /\ Injected(t) => use_thread \/ installer = "done"
  /\ at[t] = "hook" => Injected(t) \/ function[t] \in trampoline
  /\ at[t] = "hook" /\ function[t] = "EnterSendPacket" => ret_known
  /\ at[t] = "prologue" =>
       image[function[t]] = "plain" /\ (late[t] => entry[function[t]] = "original")
  /\ at[t] = "stub" =>
       win64 /\ function[t] = "SendPacket" /\ (Injected(t) \/ "SendPacket" \in trampoline)

\* A call is logged by one of the two hooks, never by both.
Counted(t) ==
  /\ logged[t] \in {0, 1}
  /\ from_enter[t] => function[t] = "SendPacket"
  /\ logged[t] = 1 /\ function[t] = "EnterSendPacket" => ret_known
  /\ logged[t] = 1 /\ at[t] \in {"entry", "prologue", "hook"} => from_enter[t] /\ ret_known

\* And by one of them, once both are in.
Covered(t) ==
  late[t] /\ call[t] \in Sends /\ Hookable("SendPacket") /\ image["EnterSendPacket"] # "unhookable" =>
    /\ at[t] \in {"entry", "prologue", "hook", "stub", "body", "returned"} =>
         function[t] \in {"SendPacket", "EnterSendPacket"}
    /\ function[t] = "SendPacket" /\ at[t] \in {"stub", "body", "returned"} => logged[t] = 1
    /\ at[t] = "prologue" => function[t] = "EnterSendPacket"
    /\ at[t] = "returned" => function[t] = "SendPacket"
    /\ logged[t] = 0 /\ (from_enter[t] \/ (function[t] = "EnterSendPacket"
                                            /\ at[t] \in {"prologue", "body"})) => ~ret_known

Installed == Jumps /\ Progress /\ Known

\* CrashesForACause for one thread.
Excused(t) ==
  /\ at[t] = "torncode" => ~late[t] /\ ~Atomic(function[t])
  /\ at[t] = "nostub" =>
       /\ win64
       /\ ~late[t] \/ ~Found("EnterSendPacket") \/ (Injected(t) /\ ~Hookable("SendPacket"))
  /\ at[t] = "nopointer" =>
       /\ Injected(t)
       /\ late[t] \/ ~use_thread => \E f \in Functions : ~Hookable(f)

Placed(t) == Position(t) /\ Counted(t) /\ Covered(t) /\ Excused(t)

IInv == TypeOK /\ Installed /\ \A t \in Threads : Placed(t)

--------------------------------------------------------------------------------
(* The types *)

LEMMA GameCalls == DOMAIN CallTarget = {"enter", "direct", "receive"}
BY DEF CallTarget

LEMMA Targets ==
  ASSUME NEW c \in DOMAIN CallTarget
  PROVE  /\ c \in Calls
         /\ CallTarget[c] \in Functions
         /\ c = "enter" => CallTarget[c] = "EnterSendPacket"
         /\ c = "direct" => CallTarget[c] = "SendPacket"
         /\ c = "receive" => CallTarget[c] = "ProcessPacket"
<1>1. c \in {"enter", "direct", "receive"} BY GameCalls
<1>2. /\ CallTarget["enter"] = "EnterSendPacket"
      /\ CallTarget["direct"] = "SendPacket"
      /\ CallTarget["receive"] = "ProcessPacket"
  BY DEF CallTarget
<1> QED BY <1>1, <1>2 DEF Calls, Functions

LEMMA HookType ==
  ASSUME TypeOK, NEW f \in Functions, NEW next \in Steps, Hook(f, next)
  PROVE  /\ installer' \in Steps
         /\ trampoline' \subseteq {g \in Functions : Hookable(g)}
         /\ entry' \in [Functions -> {"original", "torn", "hooked"}]
BY DEF TypeOK, Hook

LEMMA InstallType == TypeOK /\ Install => TypeOK'
<1> SUFFICES ASSUME TypeOK, Install PROVE TypeOK' OBVIOUS
<1> USE DEF settings, pointers, threadVars
<1>0. /\ {"SendPacket", "EnterSendPacket", "COutPacket", "ProcessPacket"} \subseteq Functions
      /\ {"scan", "COutPacket", "ProcessPacket", "done"} \subseteq Steps
  BY DEF Functions, Steps
<1>1. CASE InstallSendPacket
  <2>1. /\ installer' \in Steps
        /\ trampoline' \subseteq {g \in Functions : Hookable(g)}
        /\ entry' \in [Functions -> {"original", "torn", "hooked"}]
    BY <1>0, <1>1, HookType DEF InstallSendPacket
  <2> QED BY <1>1, <2>1 DEF InstallSendPacket, TypeOK, Hookable
<1>2. CASE Scan BY <1>2 DEF Scan, TypeOK, Hookable, Steps
<1>3. CASE SetReturnAddress BY <1>3 DEF SetReturnAddress, TypeOK, Hookable, Steps
<1>4. CASE FillStub BY <1>4 DEF FillStub, Step, TypeOK, Hookable, Steps
<1>5. CASE SetSocket BY <1>5 DEF SetSocket, Step, TypeOK, Hookable, Steps
<1>6. CASE SaveOriginal BY <1>6 DEF SaveOriginal, Step, TypeOK, Hookable, Steps
<1>7. CASE InstallEnterSendPacket
  <2>1. /\ installer' \in Steps
        /\ trampoline' \subseteq {g \in Functions : Hookable(g)}
        /\ entry' \in [Functions -> {"original", "torn", "hooked"}]
    BY <1>0, <1>7, HookType DEF InstallEnterSendPacket
  <2> QED BY <1>7, <2>1 DEF InstallEnterSendPacket, TypeOK, Hookable
<1>8. CASE InstallCOutPacket
  <2>1. /\ installer' \in Steps
        /\ trampoline' \subseteq {g \in Functions : Hookable(g)}
        /\ entry' \in [Functions -> {"original", "torn", "hooked"}]
    BY <1>0, <1>8, HookType DEF InstallCOutPacket, TypeOK
  <2> QED BY <1>8, <2>1 DEF InstallCOutPacket, TypeOK, Hookable
<1>9. CASE InstallProcessPacket
  <2>1. /\ installer' \in Steps
        /\ trampoline' \subseteq {g \in Functions : Hookable(g)}
        /\ entry' \in [Functions -> {"original", "torn", "hooked"}]
    BY <1>0, <1>9, HookType DEF InstallProcessPacket
  <2> QED BY <1>9, <2>1 DEF InstallProcessPacket, TypeOK, Hookable
<1> QED BY <1>1, <1>2, <1>3, <1>4, <1>5, <1>6, <1>7, <1>8, <1>9 DEF Install

--------------------------------------------------------------------------------
(* The installing thread *)

\* What the attempt to hook one function changes.
LEMMA HookEffect ==
  ASSUME TypeOK, Jumps, NEW f \in Functions, NEW next \in Steps, installer = f, next # f,
         Hook(f, next)
  PROVE  /\ trampoline \subseteq trampoline' /\ trampoline' \subseteq trampoline \cup {f}
         /\ \A g \in Functions : g # f => entry'[g] = entry[g]
         /\ installer' \in {f, next}
         /\ \A g \in Functions : entry[g] = "hooked" => entry'[g] = "hooked"
         /\ installer' = next =>
              ~Hookable(f) \/ (f \in trampoline' /\ entry'[f] = "hooked")
         /\ \A g \in Functions : entry'[g] # "original" => g \in trampoline'
         /\ \A g \in Functions : entry'[g] = "torn" => installer' = g /\ ~Atomic(g)
<1>1. CASE ~Hookable(f) BY <1>1 DEF Hook, Jumps, TypeOK
<1>2. CASE Hookable(f)
  <2>1. CASE f \notin trampoline
    BY <1>2, <2>1 DEF Hook, Jumps, TypeOK
  <2>2. CASE f \in trampoline /\ installer' = installer
    BY <1>2, <2>2 DEF Hook, Jumps, TypeOK
  <2>3. CASE f \in trampoline /\ installer' # installer
    BY <1>2, <2>3 DEF Hook, Jumps, TypeOK
  <2> QED BY <2>1, <2>2, <2>3
<1> QED BY <1>1, <1>2

\* Nothing is taken back, and the threads are left alone.
LEMMA InstallGrows ==
  ASSUME TypeOK, Jumps, Install
  PROVE  /\ installer # "done"
         /\ UNCHANGED <<settings, threadVars>>
         /\ trampoline \subseteq trampoline'
         /\ ret_known => ret_known'
<1> USE DEF settings, pointers, threadVars
<1>0. /\ {"SendPacket", "EnterSendPacket", "COutPacket", "ProcessPacket"} \subseteq Functions
      /\ {"scan", "COutPacket", "ProcessPacket", "done"} \subseteq Steps
  BY DEF Functions, Steps
<1>1. CASE InstallSendPacket BY <1>0, <1>1, HookEffect DEF InstallSendPacket
<1>2. CASE Scan BY <1>2 DEF Scan
<1>3. CASE SetReturnAddress BY <1>3 DEF SetReturnAddress
<1>4. CASE FillStub BY <1>4 DEF FillStub, Step
<1>5. CASE SetSocket BY <1>5 DEF SetSocket, Step
<1>6. CASE SaveOriginal BY <1>6 DEF SaveOriginal, Step
<1>7. CASE InstallEnterSendPacket BY <1>0, <1>7, HookEffect DEF InstallEnterSendPacket
<1>8. CASE InstallCOutPacket BY <1>0, <1>8, HookEffect DEF InstallCOutPacket
<1>9. CASE InstallProcessPacket BY <1>0, <1>9, HookEffect DEF InstallProcessPacket
<1> QED BY <1>1, <1>2, <1>3, <1>4, <1>5, <1>6, <1>7, <1>8, <1>9 DEF Install

\* Steps that set a pointer, not a jump.
PointerStep == Scan \/ SetReturnAddress \/ FillStub \/ SetSocket \/ SaveOriginal

LEMMA PointerSteps == TypeOK /\ Installed /\ PointerStep => Installed'
<1> SUFFICES ASSUME TypeOK, Installed, PointerStep PROVE Installed' OBVIOUS
<1> USE DEF settings, pointers, Found, Hookable, HookFormats, Atomic, AllHookable, Last
<1>1. /\ UNCHANGED <<settings, trampoline, entry>>
      /\ installer \in {"scan", "ret", "stub", "socket", "original"}
      /\ installer' \in {"ret", "stub", "socket", "original", "EnterSendPacket", "COutPacket"}
  BY DEF PointerStep, Scan, SetReturnAddress, FillStub, SetSocket, SaveOriginal, Step
<1>2. Jumps' BY <1>1 DEF Installed, Jumps, Functions
<1>3. Progress'
  <2>1. installer' = "COutPacket" =>
          ~Found("EnterSendPacket") \/ ~SearchPossible
    BY DEF PointerStep, Scan, SetReturnAddress, FillStub, SetSocket, SaveOriginal, Step
  <2>2. Hookable("SendPacket") => SearchPossible
    BY <1>1 DEF Installed, Progress, Jumps, SearchPossible, Functions
  <2> QED BY <1>1, <2>1, <2>2 DEF Installed, Progress
<1>4. Known'
  <2>1. CASE Scan
    <3>1. UNCHANGED <<ret_known, stub, socket>> BY <2>1 DEF Scan
    <3>2. installer' \in {"ret", "COutPacket"} BY <2>1 DEF Scan
    <3>3. installer' = "ret" => Found("EnterSendPacket") BY <2>1 DEF Scan
    <3>4. win64 /\ installer' = "COutPacket" => ~(Found("SendPacket") /\ Found("EnterSendPacket"))
      BY <2>1 DEF Scan, SearchPossible
    <3> QED BY <1>1, <3>1, <3>2, <3>3, <3>4 DEF Installed, Known
  <2>2. CASE SetReturnAddress BY <1>1, <2>2 DEF SetReturnAddress, Installed, Known
  <2>3. CASE FillStub BY <1>1, <2>3 DEF FillStub, Step, Installed, Known
  <2>4. CASE SetSocket BY <1>1, <2>4 DEF SetSocket, Step, Installed, Known
  <2>5. CASE SaveOriginal BY <1>1, <2>5 DEF SaveOriginal, Step, Installed, Known
  <2> QED BY <2>1, <2>2, <2>3, <2>4, <2>5 DEF PointerStep
<1> QED BY <1>2, <1>3, <1>4 DEF Installed

LEMMA JumpSteps == TypeOK /\ Installed /\ Install => Installed'
<1> SUFFICES ASSUME TypeOK, Installed, Install PROVE Installed' OBVIOUS
<1> USE DEF settings, pointers, threadVars
<1>0. /\ {"SendPacket", "EnterSendPacket", "COutPacket", "ProcessPacket"} \subseteq Functions
      /\ {"scan", "COutPacket", "ProcessPacket", "done"} \subseteq Steps
  BY DEF Functions, Steps
<1>a. Jumps BY DEF Installed
<1>b. UNCHANGED settings /\ trampoline \subseteq trampoline' BY <1>a, InstallGrows
<1>1. CASE PointerStep BY <1>1, PointerSteps
<1>2. CASE InstallSendPacket
  <2>1. /\ UNCHANGED <<ret_known, stub, socket>>
        /\ installer = "SendPacket" /\ Hook("SendPacket", "scan")
    BY <1>2 DEF InstallSendPacket
  <2>2. /\ trampoline' \subseteq trampoline \cup {"SendPacket"}
        /\ installer' \in {"SendPacket", "scan"}
        /\ installer' = "scan" =>
             ~Hookable("SendPacket") \/ entry'["SendPacket"] = "hooked"
        /\ Jumps'
    BY <1>0, <1>a, <1>b, <2>1, HookEffect DEF Jumps, Atomic
  <2>3. Progress' BY <1>b, <2>1, <2>2 DEF Progress, Hookable, Last
  <2>4. Known' BY <1>b, <2>1, <2>2 DEF Installed, Known, HookFormats, Found, Last
  <2> QED BY <2>2, <2>3, <2>4 DEF Installed
<1>3. CASE InstallEnterSendPacket
  <2>1. /\ UNCHANGED <<ret_known, stub, socket>>
        /\ installer = "EnterSendPacket" /\ Hook("EnterSendPacket", "COutPacket")
    BY <1>3 DEF InstallEnterSendPacket
  <2>2. /\ trampoline' \subseteq trampoline \cup {"EnterSendPacket"}
        /\ entry'["SendPacket"] = entry["SendPacket"]
        /\ installer' \in {"EnterSendPacket", "COutPacket"}
        /\ installer' = "COutPacket" =>
             ~Hookable("EnterSendPacket") \/ entry'["EnterSendPacket"] = "hooked"
        /\ Jumps'
    BY <1>0, <1>a, <1>b, <2>1, HookEffect DEF Jumps, Atomic
  <2>3. Progress' BY <1>b, <2>1, <2>2 DEF Installed, Progress, Hookable, Last
  <2>4. Known' BY <1>b, <2>1, <2>2 DEF Installed, Known, HookFormats, Found, Last
  <2> QED BY <2>2, <2>3, <2>4 DEF Installed
<1>4. CASE InstallCOutPacket
  <2>1. /\ UNCHANGED <<ret_known, stub, socket>> /\ installer = "COutPacket"
    BY <1>4 DEF InstallCOutPacket
  <2>2. CASE HookFormats
    <3>1. Hook("COutPacket", "ProcessPacket") BY <1>4, <2>2 DEF InstallCOutPacket
    <3>2. /\ trampoline' \subseteq trampoline \cup {"COutPacket"}
          /\ entry'["SendPacket"] = entry["SendPacket"]
          /\ entry'["EnterSendPacket"] = entry["EnterSendPacket"]
          /\ installer' \in {"COutPacket", "ProcessPacket"}
          /\ installer' = "ProcessPacket" =>
               ~Hookable("COutPacket") \/ "COutPacket" \in trampoline'
          /\ Jumps'
      BY <1>0, <1>a, <1>b, <2>1, <3>1, HookEffect DEF Jumps, Atomic
    <3>3. Progress'
      BY <1>0, <1>b, <2>1, <3>2 DEF Installed, Progress, Hookable, AllHookable, Last
    <3>4. win64 => Found("SendPacket") /\ Found("EnterSendPacket")
      BY <2>2 DEF HookFormats, TypeOK, Hookable, Found
    <3>5. Known'
      BY <1>b, <2>1, <2>2, <3>2, <3>4 DEF Installed, Known, HookFormats, Found, Last
    <3> QED BY <3>2, <3>3, <3>5 DEF Installed
  <2>3. CASE ~HookFormats
    <3>1. installer' = "ProcessPacket" /\ UNCHANGED <<trampoline, entry>>
      BY <1>4, <2>3 DEF InstallCOutPacket
    <3>2. Jumps'
      BY <1>a, <1>b, <2>1, <2>3, <3>1 DEF Installed, Known, Jumps, Atomic
    <3>3. ~AllHookable
      <4>1. Hookable("SendPacket") => "SendPacket" \in trampoline
        BY <1>0, <2>1 DEF Installed, Jumps, Progress
      <4> QED BY <1>0, <2>3, <4>1 DEF HookFormats, AllHookable, Hookable, Found
    <3>4. Progress'
      BY <1>b, <2>1, <3>1, <3>3 DEF Installed, Progress, Hookable, AllHookable, Last
    <3>5. Known' BY <1>b, <2>1, <3>1 DEF Installed, Known, HookFormats, Found, Last
    <3> QED BY <3>2, <3>4, <3>5 DEF Installed
  <2> QED BY <2>2, <2>3
<1>5. CASE InstallProcessPacket
  <2>1. /\ UNCHANGED <<ret_known, stub, socket>>
        /\ installer = "ProcessPacket" /\ Hook("ProcessPacket", "done")
    BY <1>5 DEF InstallProcessPacket
  <2>2. /\ trampoline \subseteq trampoline' /\ trampoline' \subseteq trampoline \cup {"ProcessPacket"}
        /\ entry'["SendPacket"] = entry["SendPacket"]
        /\ entry'["EnterSendPacket"] = entry["EnterSendPacket"]
        /\ installer' \in {"ProcessPacket", "done"}
        /\ installer' = "done" =>
             ~Hookable("ProcessPacket") \/ "ProcessPacket" \in trampoline'
        /\ Jumps'
    BY <1>0, <1>a, <1>b, <2>1, HookEffect DEF Jumps, Atomic
  <2>3. Progress'
    BY <1>0, <1>b, <2>1, <2>2 DEF Installed, Progress, Hookable, AllHookable, Last
  <2>4. Known' BY <1>b, <2>1, <2>2 DEF Installed, Known, HookFormats, Found, Last
  <2> QED BY <2>2, <2>3, <2>4 DEF Installed
<1> QED BY <1>1, <1>2, <1>3, <1>4, <1>5 DEF Install, PointerStep

\* What the installing thread does leaves every thread well placed: none of the
\* calls under way began after the installation.
LEMMA InstallPlaced ==
  ASSUME IInv, Install, NEW t \in Threads
  PROVE  Placed(t)'
<1>1. /\ installer # "done" /\ UNCHANGED <<settings, threadVars>>
      /\ trampoline \subseteq trampoline' /\ (ret_known => ret_known')
  BY InstallGrows DEF IInv, Installed
<1>2. /\ UNCHANGED <<win64, use_thread, use_addr, image>>
      /\ UNCHANGED <<call, at, function, from_enter, logged, late>>
  BY <1>1 DEF settings, threadVars
<1>3. Placed(t) BY DEF IInv
<1>4. ~late[t] BY <1>1, <1>3 DEF Placed, Position
<1>5. Position(t)' BY <1>1, <1>2, <1>3, <1>4 DEF Placed, Position, Injected
<1>6. Counted(t)' BY <1>1, <1>2, <1>3 DEF Placed, Counted
<1>7. Covered(t)' BY <1>2, <1>4 DEF Covered
<1>8. Excused(t)'
  BY <1>2, <1>3 DEF Placed, Excused, Injected, Atomic, Found, Hookable
<1> QED BY <1>5, <1>6, <1>7, <1>8 DEF Placed

--------------------------------------------------------------------------------
(* The game's threads *)

Places == {"idle", "entry", "prologue", "hook", "stub", "body", "returned", "dropped"} \cup Crashes

\* Only one thread moves at a time.
Alone(t) ==
  /\ UNCHANGED <<settings, installVars>>
  /\ \A p \in Threads : p # t =>
       /\ call'[p] = call[p] /\ at'[p] = at[p] /\ function'[p] = function[p]
       /\ from_enter'[p] = from_enter[p] /\ logged'[p] = logged[p] /\ late'[p] = late[p]

LEMMA AloneEnough ==
  ASSUME IInv, NEW t \in Threads, Alone(t), TypeOK', Placed(t)'
  PROVE  IInv'
<1>0. /\ UNCHANGED <<win64, use_thread, use_addr, image>>
      /\ UNCHANGED <<installer, trampoline, entry, ret_known, stub, socket, original>>
  BY DEF Alone, settings, installVars, pointers
<1>1. Installed'
  <2>1. Jumps' BY <1>0 DEF IInv, Installed, Jumps, Atomic
  <2>2. Progress' BY <1>0 DEF IInv, Installed, Progress, Hookable, AllHookable
  <2>3. Known' BY <1>0 DEF IInv, Installed, Known, Found, HookFormats
  <2> QED BY <2>1, <2>2, <2>3 DEF Installed
<1>2. ASSUME NEW p \in Threads, p # t PROVE Placed(p)'
  <2>0. /\ call'[p] = call[p] /\ at'[p] = at[p] /\ function'[p] = function[p]
        /\ from_enter'[p] = from_enter[p] /\ logged'[p] = logged[p] /\ late'[p] = late[p]
    BY <1>2 DEF Alone
  <2>1. Placed(p) BY <1>2 DEF IInv
  <2>2. Position(p)' BY <1>0, <2>0, <2>1 DEF Placed, Position, Injected
  <2>3. Counted(p)' BY <1>0, <2>0, <2>1 DEF Placed, Counted
  <2>4. Covered(p)' BY <1>0, <2>0, <2>1 DEF Placed, Covered, Hookable
  <2>5. Excused(p)'
    BY <1>0, <2>0, <2>1 DEF Placed, Excused, Injected, Atomic, Found, Hookable
  <2> QED BY <2>2, <2>3, <2>4, <2>5 DEF Placed
<1> QED BY <1>1, <1>2 DEF IInv

\* A call that begins.
LEMMA BeginEffect ==
  ASSUME TypeOK, NEW t \in Threads, NEW c \in Calls, NEW where \in Places,
         NEW f \in Functions, Begins(t, c), Goes(t, where, f),
         UNCHANGED <<settings, installVars>>
  PROVE  /\ TypeOK' /\ Alone(t)
         /\ call'[t] = c /\ at'[t] = where /\ function'[t] = f
         /\ from_enter'[t] = FALSE /\ logged'[t] = 0 /\ late'[t] = (installer = "done")
<1>1. UNCHANGED <<win64, use_thread, use_addr, image, installer, trampoline, entry,
                  ret_known, stub, socket, original>>
  BY DEF settings, installVars, pointers
<1>2. /\ call' \in [Threads -> Calls \cup {"none"}]
      /\ from_enter' \in [Threads -> BOOLEAN]
      /\ logged' \in [Threads -> Nat]
  BY DEF Begins, TypeOK
<1>3. late' \in [Threads -> BOOLEAN]
  <2>1. late' = [late EXCEPT ![t] = (installer = "done")] BY DEF Begins
  <2> QED BY <2>1 DEF TypeOK
<1>4. /\ at' \in [Threads -> Places]
      /\ function' \in [Threads -> Functions]
  BY DEF Goes, TypeOK, Places
<1>5. TypeOK' BY <1>1, <1>2, <1>3, <1>4 DEF TypeOK, Hookable, Places
<1>6. Alone(t) BY DEF Alone, Begins, Goes, TypeOK
<1>7. /\ call'[t] = c /\ at'[t] = where /\ function'[t] = f
      /\ from_enter'[t] = FALSE /\ logged'[t] = 0
  BY DEF Begins, Goes, TypeOK
<1>8. late'[t] = (installer = "done")
  <2>1. late' = [late EXCEPT ![t] = (installer = "done")] BY DEF Begins
  <2> QED BY <2>1 DEF TypeOK
<1> QED BY <1>5, <1>6, <1>7, <1>8

\* One that goes on.
LEMMA MoveEffect ==
  ASSUME TypeOK, NEW t \in Threads, NEW where \in Places, Moves(t, where),
         logged' \in [Threads -> Nat], \A p \in Threads : p # t => logged'[p] = logged[p],
         UNCHANGED from_enter
  PROVE  /\ TypeOK' /\ Alone(t)
         /\ at'[t] = where /\ call'[t] = call[t] /\ function'[t] = function[t]
         /\ late'[t] = late[t] /\ from_enter'[t] = from_enter[t]
         /\ UNCHANGED <<settings, installVars>>
<1>1. UNCHANGED <<win64, use_thread, use_addr, image, installer, trampoline, entry,
                  ret_known, stub, socket, original>>
  BY DEF Moves, settings, installVars, pointers
<1>2. at' \in [Threads -> Places] BY DEF Moves, TypeOK, Places
<1>3. UNCHANGED <<call, function, late>> BY DEF Moves
<1>5. TypeOK' BY <1>1, <1>2, <1>3 DEF TypeOK, Hookable, Places
<1>6. Alone(t) BY DEF Alone, Moves, TypeOK
<1> QED BY <1>3, <1>5, <1>6 DEF Moves, TypeOK

LEMMA CallStep ==
  ASSUME IInv, NEW t \in Threads, NEW c \in DOMAIN CallTarget, Call(t, c)
  PROVE  IInv'
<1>0. /\ c \in Calls /\ c \in {"enter", "direct", "receive"}
      /\ CallTarget[c] \in Functions
      /\ c \in Sends => CallTarget[c] \in {"SendPacket", "EnterSendPacket"}
  BY Targets, GameCalls DEF Sends
<1>1. /\ TypeOK' /\ Alone(t)
      /\ call'[t] = c /\ at'[t] = "entry" /\ function'[t] = CallTarget[c]
      /\ from_enter'[t] = FALSE /\ logged'[t] = 0 /\ late'[t] = (installer = "done")
  <2>1. "entry" \in Places BY DEF Places
  <2>2. /\ Begins(t, c) /\ Goes(t, "entry", CallTarget[c])
        /\ UNCHANGED <<settings, installVars>>
    BY DEF Call
  <2> QED BY <1>0, <2>1, <2>2, BeginEffect DEF IInv
<1>2. UNCHANGED installer BY <1>1 DEF Alone, installVars
<1>3. Position(t)' BY <1>0, <1>1, <1>2, GameCalls DEF Position, Injected
<1>4. Counted(t)' BY <1>1 DEF Counted
<1>5. Covered(t)' BY <1>0, <1>1 DEF Covered
<1>6. Excused(t)' BY <1>1 DEF Excused
<1> QED BY <1>1, <1>3, <1>4, <1>5, <1>6, AloneEnough DEF Placed

\* Injection is over the installation's head only with USE_THREAD.
LEMMA InjectStep ==
  ASSUME IInv, NEW c \in {"injectsend", "injectreceive"}, NEW where \in Places,
         NEW f \in Functions, InjectorRuns, Begins(Main, c), Goes(Main, where, f),
         UNCHANGED <<settings, installVars>>,
         where \in {"entry", "dropped", "hook", "nopointer"},
         c = "injectsend" /\ where # "nopointer" => f \in {"SendPacket", "EnterSendPacket"},
         where = "hook" /\ f = "EnterSendPacket" => ret_known,
         where = "nopointer" /\ installer = "done" => ~AllHookable
  PROVE  IInv'
<1>0. c \in Calls /\ c \notin {"enter", "direct", "receive"} /\ Main \in Threads
  BY MainAssumption DEF Calls
<1>1. /\ TypeOK' /\ Alone(Main)
      /\ call'[Main] = c /\ at'[Main] = where /\ function'[Main] = f
      /\ from_enter'[Main] = FALSE /\ logged'[Main] = 0
      /\ late'[Main] = (installer = "done")
  BY <1>0, BeginEffect DEF IInv
<1>2. UNCHANGED <<use_thread, image, installer, ret_known>>
  BY DEF settings, installVars, pointers
<1>3. Injected(Main)' BY <1>0, <1>1, GameCalls DEF Injected
<1>4. Position(Main)' BY <1>1, <1>2, <1>3 DEF Position, InjectorRuns
<1>5. Counted(Main)' BY <1>1 DEF Counted
<1>6. Covered(Main)' BY <1>1 DEF Covered, Sends
<1>7. Excused(Main)'
  BY <1>1, <1>2, <1>3 DEF Excused, InjectorRuns, AllHookable, Hookable
<1> QED BY <1>0, <1>1, <1>4, <1>5, <1>6, <1>7, AloneEnough DEF Placed

LEMMA InjectSteps == IInv /\ (InjectSend32 \/ InjectSend64 \/ InjectReceive) => IInv'
<1> SUFFICES ASSUME IInv, InjectSend32 \/ InjectSend64 \/ InjectReceive PROVE IInv' OBVIOUS
<1>0. /\ {"SendPacket", "EnterSendPacket", "COutPacket", "ProcessPacket"} \subseteq Functions
      /\ {"entry", "dropped", "hook", "nopointer"} \subseteq Places
  BY DEF Functions, Places, Crashes
<1>1. Installed BY DEF IInv
<1>2. CASE InjectSend32
  <2>1. /\ InjectorRuns /\ Begins(Main, "injectsend")
        /\ UNCHANGED <<settings, installVars>>
    BY <1>2 DEF InjectSend32
  <2>2. CASE Goes(Main, "dropped", "EnterSendPacket") \/ Goes(Main, "entry", "EnterSendPacket")
    BY <1>0, <2>1, <2>2, InjectStep
  <2>3. CASE CopyBeingFilled /\ Goes(Main, "nopointer", "COutPacket")
    <3>1. installer # "done" BY <2>3 DEF CopyBeingFilled
    <3> QED BY <1>0, <2>1, <2>3, <3>1, InjectStep
  <2> QED BY <1>2, <2>2, <2>3 DEF InjectSend32
<1>3. CASE InjectSend64
  <2>1. /\ win64 /\ InjectorRuns /\ Begins(Main, "injectsend")
        /\ UNCHANGED <<settings, installVars>>
    BY <1>3 DEF InjectSend64
  <2>2. CASE "COutPacket" \notin trampoline /\ Goes(Main, "nopointer", "COutPacket")
    <3>1. installer = "done" => ~AllHookable BY <1>1, <2>2 DEF Installed, Progress
    <3> QED BY <1>0, <2>1, <2>2, <3>1, InjectStep
  <2>3. CASE "COutPacket" \in trampoline /\ Goes(Main, "hook", "EnterSendPacket")
    <3>1. ret_known BY <1>1, <2>1, <2>3 DEF Installed, Known
    <3> QED BY <1>0, <2>1, <2>3, <3>1, InjectStep
  <2>4. CASE Goes(Main, "hook", "SendPacket")
    BY <1>0, <2>1, <2>4, InjectStep
  <2>5. CASE ~socket /\ Goes(Main, "nopointer", "SendPacket")
    <3>1. installer = "done" => ~AllHookable
      BY <1>0, <1>1, <2>1, <2>5 DEF Installed, Known, AllHookable, Hookable, Found, Last
    <3> QED BY <1>0, <2>1, <2>5, <3>1, InjectStep
  <2> QED BY <1>3, <2>2, <2>3, <2>4, <2>5 DEF InjectSend64
<1>4. CASE InjectReceive
  <2>1. /\ InjectorRuns /\ Begins(Main, "injectreceive")
        /\ UNCHANGED <<settings, installVars>>
    BY <1>4 DEF InjectReceive
  <2>2. CASE win64 /\ ~socket
    <3>1. Goes(Main, "nopointer", "ProcessPacket") BY <1>4, <2>2 DEF InjectReceive
    <3>2. installer = "done" => ~AllHookable
      BY <1>0, <1>1, <2>2 DEF Installed, Known, AllHookable, Hookable, Found, Last
    <3> QED BY <1>0, <2>1, <3>1, <3>2, InjectStep
  <2>3. CASE ~(win64 /\ ~socket)
    <3>1. Goes(Main, "hook", "ProcessPacket") BY <1>4, <2>3 DEF InjectReceive
    <3> QED BY <1>0, <2>1, <3>1, InjectStep
  <2> QED BY <2>2, <2>3
<1> QED BY <1>2, <1>3, <1>4

\* A late call finds both sends as the installation left them.
LEMMA LateEntries ==
  ASSUME TypeOK, Installed, installer = "done", Hookable("SendPacket"),
         image["EnterSendPacket"] # "unhookable"
  PROVE  /\ entry["SendPacket"] = "hooked"
         /\ entry["EnterSendPacket"] # "hooked" => ~ret_known
BY DEF TypeOK, Installed, Progress, Known, Found, Hookable, Functions, Kinds, Last

LEMMA EnterFunctionStep ==
  ASSUME IInv, NEW t \in Threads, EnterFunction(t)
  PROVE  IInv'
<1>0. /\ TypeOK /\ Installed /\ Placed(t) /\ function[t] \in Functions
      /\ {"torncode", "hook", "prologue", "body"} \subseteq Places
      /\ "done" \notin Functions
  BY DEF IInv, TypeOK, Places, Crashes, Functions
<1>1. PICK where \in {"torncode", "hook", "prologue", "body"} :
        /\ Moves(t, where)
        /\ where = "torncode" => entry[function[t]] = "torn"
        /\ where = "hook" => entry[function[t]] = "hooked"
        /\ where \in {"prologue", "body"} => entry[function[t]] = "original"
        /\ where = "prologue" => image[function[t]] = "plain"
  BY DEF EnterFunction
<1>2. at[t] = "entry" /\ UNCHANGED <<from_enter, logged>> BY DEF EnterFunction
<1>3. /\ TypeOK' /\ Alone(t)
      /\ at'[t] = where /\ call'[t] = call[t] /\ function'[t] = function[t]
      /\ late'[t] = late[t] /\ from_enter'[t] = from_enter[t]
      /\ UNCHANGED <<settings, installVars>>
  <2>1. logged' \in [Threads -> Nat] BY <1>0, <1>2 DEF TypeOK
  <2> QED BY <1>0, <1>1, <1>2, <2>1, MoveEffect
<1>4. UNCHANGED <<win64, use_thread, image, installer, trampoline, entry, ret_known>>
  BY <1>3 DEF settings, installVars, pointers
<1>5. Position(t)'
  <2>1. where = "hook" => function[t] \in trampoline BY <1>0, <1>1 DEF Installed, Jumps
  <2>2. where = "hook" /\ function[t] = "EnterSendPacket" => ret_known
    BY <1>0, <2>1 DEF Installed, Known
  <2> QED BY <1>0, <1>1, <1>2, <1>3, <1>4, <2>1, <2>2 DEF Placed, Position, Injected
<1>6. Counted(t)' BY <1>0, <1>2, <1>3, <1>4 DEF Placed, Counted
<1>7. Covered(t)'
  <2>1. SUFFICES ASSUME late[t], call[t] \in Sends, Hookable("SendPacket"),
                        image["EnterSendPacket"] # "unhookable"
                 PROVE  Covered(t)'
    BY <1>3, <1>4 DEF Covered, Hookable
  <2>2. /\ function[t] \in {"SendPacket", "EnterSendPacket"}
        /\ from_enter[t] /\ logged[t] = 0 => ~ret_known
    BY <1>0, <1>2, <2>1 DEF Placed, Covered
  <2>3. /\ function[t] = "SendPacket" => where = "hook"
        /\ where # "hook" => ~ret_known
    BY <1>0, <1>1, <2>1, <2>2, LateEntries DEF Placed, Position, Installed, Jumps
  <2> QED BY <1>1, <1>2, <1>3, <1>4, <2>2, <2>3 DEF Covered, Hookable
<1>8. Excused(t)'
  BY <1>0, <1>1, <1>3, <1>4 DEF Placed, Excused, Position, Installed, Jumps, Atomic
<1> QED BY <1>3, <1>5, <1>6, <1>7, <1>8, AloneEnough DEF Placed

LEMMA LeavePrologueStep ==
  ASSUME IInv, NEW t \in Threads, LeavePrologue(t)
  PROVE  IInv'
<1>0. /\ TypeOK /\ Installed /\ Placed(t) /\ function[t] \in Functions
      /\ {"torncode", "body"} \subseteq Places
  BY DEF IInv, TypeOK, Places, Crashes
<1>1. PICK where \in {"torncode", "body"} :
        /\ Moves(t, where)
        /\ where = "torncode" <=> entry[function[t]] # "original"
  BY DEF LeavePrologue
<1>2. at[t] = "prologue" /\ UNCHANGED <<from_enter, logged>> BY DEF LeavePrologue
<1>3. /\ TypeOK' /\ Alone(t)
      /\ at'[t] = where /\ call'[t] = call[t] /\ function'[t] = function[t]
      /\ late'[t] = late[t] /\ from_enter'[t] = from_enter[t]
      /\ UNCHANGED <<settings, installVars>>
  <2>1. logged' \in [Threads -> Nat] BY <1>0, <1>2 DEF TypeOK
  <2> QED BY <1>0, <1>1, <1>2, <2>1, MoveEffect
<1>4. UNCHANGED <<win64, use_thread, image, installer, trampoline, entry, ret_known>>
  BY <1>3 DEF settings, installVars, pointers
<1>5. Position(t)' BY <1>0, <1>1, <1>2, <1>3, <1>4 DEF Placed, Position, Injected
<1>6. Counted(t)' BY <1>0, <1>2, <1>3, <1>4 DEF Placed, Counted
<1>7. Covered(t)' BY <1>0, <1>1, <1>2, <1>3, <1>4 DEF Placed, Covered, Hookable
<1>8. Excused(t)'
  BY <1>0, <1>1, <1>2, <1>3, <1>4 DEF Placed, Excused, Position, Atomic
<1> QED BY <1>3, <1>5, <1>6, <1>7, <1>8, AloneEnough DEF Placed

LEMMA RunHookStep ==
  ASSUME IInv, NEW t \in Threads, RunHook(t)
  PROVE  IInv'
<1>0. /\ TypeOK /\ Installed /\ Placed(t) /\ function[t] \in Functions
      /\ {"stub", "body", "nopointer"} \subseteq Places
  BY DEF IInv, TypeOK, Places, Crashes
<1>1. PICK where \in {"stub", "body", "nopointer"} :
        /\ Moves(t, where)
        /\ where = "stub" <=> win64 /\ function[t] = "SendPacket"
        /\ where = "nopointer" => function[t] \notin trampoline
  BY DEF RunHook
<1>2. /\ at[t] = "hook" /\ UNCHANGED from_enter
      /\ logged' = [logged EXCEPT ![t] = IF Logs(t) THEN @ + 1 ELSE @]
  BY DEF RunHook
<1>3. /\ TypeOK' /\ Alone(t)
      /\ at'[t] = where /\ call'[t] = call[t] /\ function'[t] = function[t]
      /\ late'[t] = late[t] /\ from_enter'[t] = from_enter[t]
      /\ UNCHANGED <<settings, installVars>>
  <2>1. logged' \in [Threads -> Nat] BY <1>0, <1>2 DEF TypeOK
  <2>2. \A p \in Threads : p # t => logged'[p] = logged[p] BY <1>0, <1>2 DEF TypeOK
  <2> QED BY <1>0, <1>1, <1>2, <2>1, <2>2, MoveEffect
<1>4. UNCHANGED <<win64, use_thread, image, installer, trampoline, entry, ret_known>>
  BY <1>3 DEF settings, installVars, pointers
<1>5. Position(t)'
  BY <1>0, <1>1, <1>2, <1>3, <1>4 DEF Placed, Position, Injected
<1>a. logged'[t] = IF Logs(t) THEN logged[t] + 1 ELSE logged[t]
  BY <1>0, <1>2 DEF TypeOK
<1>b. Logs(t) => logged[t] = 0
  BY <1>0, <1>2 DEF Placed, Counted, Logs
<1>6. Counted(t)'
  <2>1. logged'[t] \in {0, 1} BY <1>0, <1>a, <1>b DEF Placed, Counted
  <2>2. function[t] = "EnterSendPacket" => ret_known
    BY <1>0, <1>2 DEF Placed, Position
  <2> QED BY <1>0, <1>1, <1>2, <1>3, <1>4, <2>1, <2>2 DEF Placed, Counted
<1>7. Covered(t)'
  <2>1. SUFFICES ASSUME late[t], call[t] \in Sends, Hookable("SendPacket"),
                        image["EnterSendPacket"] # "unhookable"
                 PROVE  Covered(t)'
    BY <1>3, <1>4 DEF Covered, Hookable
  <2>2. /\ function[t] \in {"SendPacket", "EnterSendPacket"}
        /\ from_enter[t] /\ logged[t] = 0 => ~ret_known
    BY <1>0, <1>2, <2>1 DEF Placed, Covered
  <2>3. Logs(t) \/ logged[t] = 1
    BY <1>0, <2>2 DEF Logs, Placed, Counted
  <2>4. logged'[t] = 1 BY <1>0, <1>a, <1>b, <2>3
  <2> QED BY <1>1, <1>2, <1>3, <1>4, <2>2, <2>4 DEF Covered, Hookable
<1>8. Excused(t)'
  <2>1. where = "nopointer" => Injected(t) BY <1>0, <1>1, <1>2 DEF Placed, Position
  <2>2. where = "nopointer" /\ (late[t] \/ ~use_thread) => installer = "done"
    BY <1>0, <1>2, <2>1 DEF Placed, Position
  <2>3. where = "nopointer" /\ installer = "done" => ~AllHookable
    BY <1>0, <1>1 DEF Installed, Progress, Jumps, AllHookable, Functions, Last
  <2> QED BY <1>1, <1>3, <1>4, <2>1, <2>2, <2>3 DEF Excused, Injected, AllHookable, Hookable
<1> QED BY <1>3, <1>5, <1>6, <1>7, <1>8, AloneEnough DEF Placed

LEMMA RunStubStep ==
  ASSUME IInv, NEW t \in Threads, RunStub(t)
  PROVE  IInv'
<1>0. /\ TypeOK /\ Installed /\ Placed(t)
      /\ {"body", "nostub"} \subseteq Places
  BY DEF IInv, TypeOK, Places, Crashes
<1>1. PICK where \in {"body", "nostub"} :
        /\ Moves(t, where)
        /\ where = "nostub" => ~stub \/ "SendPacket" \notin trampoline
  BY DEF RunStub
<1>2. at[t] = "stub" /\ UNCHANGED <<from_enter, logged>> BY DEF RunStub
<1>3. /\ TypeOK' /\ Alone(t)
      /\ at'[t] = where /\ call'[t] = call[t] /\ function'[t] = function[t]
      /\ late'[t] = late[t] /\ from_enter'[t] = from_enter[t]
      /\ UNCHANGED <<settings, installVars>>
  <2>1. logged' \in [Threads -> Nat] BY <1>0, <1>2 DEF TypeOK
  <2> QED BY <1>0, <1>1, <1>2, <2>1, MoveEffect
<1>4. UNCHANGED <<win64, use_thread, image, installer, trampoline, entry, ret_known>>
  BY <1>3 DEF settings, installVars, pointers
<1>5. Position(t)' BY <1>0, <1>1, <1>2, <1>3, <1>4 DEF Placed, Position, Injected
<1>6. Counted(t)' BY <1>0, <1>1, <1>2, <1>3, <1>4 DEF Placed, Counted
<1>7. Covered(t)'
  <2>1. SUFFICES ASSUME late[t], call[t] \in Sends, Hookable("SendPacket"),
                        image["EnterSendPacket"] # "unhookable"
                 PROVE  Covered(t)'
    BY <1>3, <1>4 DEF Covered, Hookable
  <2>2. function[t] \in {"SendPacket", "EnterSendPacket"}
    BY <1>0, <1>2, <2>1 DEF Placed, Covered
  <2>3. function[t] = "SendPacket" => logged[t] = 1
    BY <1>0, <1>2, <2>1 DEF Placed, Covered
  <2>4. function[t] = "EnterSendPacket" /\ logged[t] = 0 => ~ret_known
    BY <1>0, <1>2 DEF Placed, Position
  <2> QED BY <1>1, <1>2, <1>3, <1>4, <2>2, <2>3, <2>4 DEF Covered, Hookable
<1>8. Excused(t)'
  <2>1. SUFFICES ASSUME where = "nostub", late[t], Found("EnterSendPacket")
                 PROVE  Injected(t) /\ ~Hookable("SendPacket")
    BY <1>0, <1>1, <1>2, <1>3, <1>4 DEF Excused, Injected, Found, Hookable, Placed, Position
  <2>2. win64 /\ installer = "done" BY <1>0, <1>2, <2>1 DEF Placed, Position
  <2>3. "SendPacket" \in trampoline => Hookable("SendPacket") BY <1>0 DEF TypeOK
  <2>4. Hookable("SendPacket") => "SendPacket" \in trampoline /\ stub
    BY <1>0, <2>1, <2>2
    DEF Installed, Progress, Jumps, Known, Functions, Hookable, Found, Last
  <2> QED BY <1>0, <1>1, <1>2, <2>1, <2>3, <2>4 DEF Placed, Position
<1> QED BY <1>3, <1>5, <1>6, <1>7, <1>8, AloneEnough DEF Placed

LEMMA CallSendPacketStep ==
  ASSUME IInv, NEW t \in Threads, CallSendPacket(t)
  PROVE  IInv'
<1>0. TypeOK /\ Installed /\ Placed(t) BY DEF IInv
<1>2. /\ at[t] = "body" /\ function[t] = "EnterSendPacket"
      /\ at' = [at EXCEPT ![t] = "entry"]
      /\ function' = [function EXCEPT ![t] = "SendPacket"]
      /\ from_enter' = [from_enter EXCEPT ![t] = TRUE]
      /\ UNCHANGED <<settings, installVars, call, logged, late>>
  BY DEF CallSendPacket, Goes
<1>4. UNCHANGED <<win64, use_thread, use_addr, image, installer, trampoline, entry,
                  ret_known, stub, socket, original>>
  BY <1>2 DEF settings, installVars, pointers
<1>3. /\ TypeOK' /\ Alone(t)
      /\ at'[t] = "entry" /\ call'[t] = call[t] /\ function'[t] = "SendPacket"
      /\ late'[t] = late[t] /\ from_enter'[t] = TRUE /\ logged'[t] = logged[t]
  <2>1. /\ at' \in [Threads -> Places] /\ function' \in [Threads -> Functions]
    BY <1>0, <1>2 DEF TypeOK, Places, Functions
  <2>2. from_enter' \in [Threads -> BOOLEAN] BY <1>0, <1>2 DEF TypeOK
  <2>3. TypeOK' BY <1>0, <1>2, <1>4, <2>1, <2>2 DEF TypeOK, Hookable, Places
  <2>4. Alone(t) BY <1>0, <1>2 DEF Alone, TypeOK
  <2>5. from_enter'[t] = TRUE BY <1>0, <1>2 DEF TypeOK
  <2> QED BY <1>0, <1>2, <2>3, <2>4, <2>5 DEF TypeOK
<1>5. Position(t)' BY <1>0, <1>2, <1>3, <1>4 DEF Placed, Position, Injected
<1>6. Counted(t)' BY <1>0, <1>2, <1>3, <1>4 DEF Placed, Counted
<1>7. Covered(t)' BY <1>0, <1>2, <1>3, <1>4 DEF Placed, Covered, Hookable
<1>8. Excused(t)' BY <1>3 DEF Excused
<1> QED BY <1>3, <1>5, <1>6, <1>7, <1>8, AloneEnough DEF Placed

LEMMA FinishStep ==
  ASSUME IInv, NEW t \in Threads, Finish(t)
  PROVE  IInv'
<1>0. TypeOK /\ Installed /\ Placed(t) /\ "returned" \in Places BY DEF IInv, Places
<1>2. /\ at[t] = "body" /\ function[t] # "EnterSendPacket" /\ Moves(t, "returned")
      /\ UNCHANGED <<from_enter, logged>>
  BY DEF Finish
<1>3. /\ TypeOK' /\ Alone(t)
      /\ at'[t] = "returned" /\ call'[t] = call[t] /\ function'[t] = function[t]
      /\ late'[t] = late[t] /\ from_enter'[t] = from_enter[t]
      /\ UNCHANGED <<settings, installVars>>
  <2>1. logged' \in [Threads -> Nat] BY <1>0, <1>2 DEF TypeOK
  <2> QED BY <1>0, <1>2, <2>1, MoveEffect
<1>4. UNCHANGED <<win64, use_thread, image, installer, trampoline, entry, ret_known>>
  BY <1>3 DEF settings, installVars, pointers
<1>5. Position(t)' BY <1>0, <1>2, <1>3, <1>4 DEF Placed, Position, Injected
<1>6. Counted(t)' BY <1>0, <1>2, <1>3, <1>4 DEF Placed, Counted
<1>7. Covered(t)'
  BY <1>0, <1>2, <1>3, <1>4 DEF Placed, Covered, Hookable
<1>8. Excused(t)' BY <1>3 DEF Excused
<1> QED BY <1>3, <1>5, <1>6, <1>7, <1>8, AloneEnough DEF Placed

--------------------------------------------------------------------------------
(* The theorems *)

LEMMA Initially == Init => IInv
<1> SUFFICES ASSUME Init PROVE IInv OBVIOUS
<1>1. TypeOK
  <2>1. "SendPacket" \in Steps /\ "SendPacket" \in Functions BY DEF Steps, Functions
  <2>2. /\ from_enter \in [Threads -> BOOLEAN] /\ late \in [Threads -> BOOLEAN]
    BY DEF Init
  <2> QED BY <2>1, <2>2 DEF Init, TypeOK
<1>2. Installed
  BY DEF Init, Installed, Jumps, Progress, Known, Last
<1>3. ASSUME NEW t \in Threads PROVE Placed(t)
  <2>1. /\ call[t] = "none" /\ at[t] = "idle" /\ function[t] = "SendPacket" /\ logged[t] = 0
    BY DEF Init
  <2>2. ~late[t] /\ ~from_enter[t] BY DEF Init
  <2> QED BY <2>1, <2>2 DEF Placed, Position, Counted, Covered, Excused
<1> QED BY <1>1, <1>2, <1>3 DEF IInv

LEMMA Inductive == IInv /\ [Next]_vars => IInv'
<1> SUFFICES ASSUME IInv, [Next]_vars PROVE IInv' OBVIOUS
<1>1. CASE Install
  <2>1. TypeOK /\ Installed BY DEF IInv
  <2>2. TypeOK' /\ Installed' BY <1>1, <2>1, InstallType, JumpSteps
  <2> QED BY <1>1, <2>2, InstallPlaced DEF IInv
<1>2. CASE InjectSend32 \/ InjectSend64 \/ InjectReceive BY <1>2, InjectSteps
<1>3. ASSUME NEW t \in Threads, NEW c \in DOMAIN CallTarget, Call(t, c) PROVE IInv'
  BY <1>3, CallStep
<1>4. ASSUME NEW t \in Threads, EnterFunction(t) PROVE IInv' BY <1>4, EnterFunctionStep
<1>5. ASSUME NEW t \in Threads, LeavePrologue(t) PROVE IInv' BY <1>5, LeavePrologueStep
<1>6. ASSUME NEW t \in Threads, RunHook(t) PROVE IInv' BY <1>6, RunHookStep
<1>7. ASSUME NEW t \in Threads, RunStub(t) PROVE IInv' BY <1>7, RunStubStep
<1>8. ASSUME NEW t \in Threads, CallSendPacket(t) PROVE IInv' BY <1>8, CallSendPacketStep
<1>9. ASSUME NEW t \in Threads, Finish(t) PROVE IInv' BY <1>9, FinishStep
<1>10. CASE UNCHANGED vars
  <2>0. /\ UNCHANGED <<win64, use_thread, use_addr, image>>
        /\ UNCHANGED <<installer, trampoline, entry, ret_known, stub, socket, original>>
        /\ UNCHANGED <<call, at, function, from_enter, logged, late>>
    BY <1>10 DEF vars, settings, installVars, pointers, threadVars
  <2>1. TypeOK' BY <2>0 DEF IInv, TypeOK, Hookable
  <2>2. Jumps' BY <2>0 DEF IInv, Installed, Jumps, Atomic
  <2>3. Progress' BY <2>0 DEF IInv, Installed, Progress, Hookable, AllHookable
  <2>4. Known' BY <2>0 DEF IInv, Installed, Known, Found, HookFormats
  <2>5. ASSUME NEW t \in Threads PROVE Placed(t)'
    <3>1. Placed(t) BY DEF IInv
    <3>2. Position(t)' /\ Counted(t)' BY <2>0, <3>1 DEF Placed, Position, Counted, Injected
    <3>3. Covered(t)' BY <2>0, <3>1 DEF Placed, Covered, Hookable
    <3>4. Excused(t)' BY <2>0, <3>1 DEF Placed, Excused, Injected, Atomic, Found, Hookable
    <3> QED BY <3>2, <3>3, <3>4 DEF Placed
  <2> QED BY <2>1, <2>2, <2>3, <2>4, <2>5 DEF IInv, Installed
<1> QED BY <1>1, <1>2, <1>3, <1>4, <1>5, <1>6, <1>7, <1>8, <1>9, <1>10 DEF Next

THEOREM Invariant == Spec => []IInv
BY Initially, Inductive, PTL DEF Spec

\* Every variable keeps its type, and only a function whose code could be
\* overwritten has a copy of its start.
THEOREM TypeCorrect == Spec => []TypeOK
<1>1. IInv => TypeOK BY DEF IInv
<1> QED BY <1>1, Invariant, PTL

\* No packet is logged twice, whatever the order of the hooks going in and the
\* game's calls; once they are in, every packet sent is logged, but for the
\* sends of an EnterSendPacket that could not be overwritten.
THEOREM LoggedOnceTheorem == Spec => []LoggedOnce
<1>1. IInv => LoggedOnce
  <2> SUFFICES ASSUME IInv, NEW t \in Threads, at[t] = "returned"
               PROVE  /\ logged[t] <= 1
                      /\ late[t] /\ call[t] \in Sends /\ Hookable("SendPacket") =>
                           logged[t] = 1 \/ image["EnterSendPacket"] = "unhookable"
    BY DEF LoggedOnce
  <2>1. Placed(t) BY DEF IInv
  <2>2. logged[t] <= 1 BY <2>1 DEF Placed, Counted
  <2>3. late[t] /\ call[t] \in Sends /\ Hookable("SendPacket") =>
          logged[t] = 1 \/ image["EnterSendPacket"] = "unhookable"
    BY <2>1 DEF Placed, Covered
  <2> QED BY <2>2, <2>3
<1> QED BY <1>1, Invariant, PTL

\* A thread crashes only for a known cause: code being overwritten under it, the
\* Win64 stub reached before it is filled in, or an injected packet that comes
\* before, or instead of, the hook it needs.
THEOREM CrashesForACauseTheorem == Spec => []CrashesForACause
<1>1. IInv => CrashesForACause
  <2> SUFFICES ASSUME IInv PROVE CrashesForACause OBVIOUS
  <2>1. \A t \in Threads : Excused(t) BY DEF IInv, Placed
  <2> QED BY <2>1 DEF CrashesForACause, Excused, Injected
<1> QED BY <1>1, Invariant, PTL
================================================================================
