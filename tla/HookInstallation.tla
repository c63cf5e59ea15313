--------------------------- MODULE HookInstallation ----------------------------
(***************************************************************************)
(* The hooks going into a running game: PacketHook_Thread and              *)
(* PacketHook_Conf of Packet/PacketHook.cpp, the constructor of            *)
(* FunctionHook in Share/Hook/SimpleHook.cpp that they reach through       *)
(* SHookFunction, and InjectSinglePacket of Packet/PacketSender.cpp, which *)
(* calls the hooks itself.                                                 *)
(*                                                                         *)
(* One thread installs the hooks one after the other.  The game's threads  *)
(* go on calling the functions meanwhile, and once the timer callback is   *)
(* there its main thread injects packets.  A send comes either through     *)
(* EnterSendPacket (SendPacket_EH on Win64), whose hook logs it and which  *)
(* calls SendPacket, or to SendPacket directly, whose hook logs it unless  *)
(* the return address says that EnterSendPacket did.  On Win64 the hook of *)
(* SendPacket goes on to the game's code through a stub, bEnterSendPacket, *)
(* that has to be filled in first.                                         *)
(*                                                                         *)
(* What the packets contain and the hooks of the other functions are the   *)
(* subject of PacketLog.                                                   *)
(***************************************************************************)
EXTENDS Naturals, FiniteSets

CONSTANTS
  Threads,  \* threads of the game
  Main      \* the one whose window carries the injection timer

ASSUME MainAssumption == Main \in Threads

Functions == {"SendPacket", "EnterSendPacket", "COutPacket", "ProcessPacket"}

\* What the scan and the decoder make of a function's first instructions: not
\* found; found, but they cannot be overwritten; a first instruction as long as
\* the short jump, with room for a long one outside; or several instructions.
Kinds == {"missing", "unhookable", "hot", "plain"}

\* The last two are the timer callback's: it injects a packet each way.
Calls == {"enter", "direct", "receive", "injectsend", "injectreceive"}

VARIABLES
  win64, use_thread, use_addr,  \* the build and the settings
  image,       \* the kind of each function in this game
  installer,   \* step the installing thread is at
  trampoline,  \* functions whose _pointer leads to a complete copy of their start
  entry,       \* per function: "original", "torn" or "hooked"
  ret_known,   \* uSendPacket_EH_Ret, uEnterSendPacket_ret is set
  stub,        \* bEnterSendPacket is filled in
  socket,      \* _CClientSocket, uCClientSocket is set
  original,    \* _EnterSendPacket_Original is set
  call,        \* per thread: what it is calling
  at,          \* per thread: where it is in the function it is in
  function,    \* per thread: that function
  from_enter,  \* per thread: EnterSendPacket called it
  logged,      \* per thread: times this call was logged
  late         \* per thread: the call began after the installation

settings == <<win64, use_thread, use_addr, image>>
pointers == <<ret_known, stub, socket, original>>
installVars == <<installer, trampoline, entry, pointers>>
threadVars == <<call, at, function, from_enter, logged, late>>
vars == <<settings, installVars, threadVars>>

Steps == {"SendPacket", "scan", "ret", "stub", "socket", "original", "EnterSendPacket",
          "COutPacket", "ProcessPacket", "done"}

Crashes == {"nostub", "nopointer", "torncode"}

Init ==
  /\ win64 \in BOOLEAN /\ use_thread \in BOOLEAN /\ use_addr \in BOOLEAN
  /\ image \in [Functions -> Kinds]
  /\ installer = "SendPacket"
  /\ trampoline = {}
  /\ entry = [f \in Functions |-> "original"]
  /\ ret_known = FALSE /\ stub = FALSE /\ socket = FALSE /\ original = FALSE
  /\ call = [t \in Threads |-> "none"]
  /\ at = [t \in Threads |-> "idle"]
  /\ function = [t \in Threads |-> "SendPacket"]
  /\ from_enter = [t \in Threads |-> FALSE]
  /\ logged = [t \in Threads |-> 0]
  /\ late = [t \in Threads |-> FALSE]

Found(f) == image[f] # "missing"
Hookable(f) == image[f] \in {"hot", "plain"}

\* The jump of a hot patch is one aligned word on Win32; every other jump is
\* written in two or three pieces.
Atomic(f) == ~win64 /\ image[f] = "hot"

--------------------------------------------------------------------------------
(* The installing thread *)

\* Mutant: code that is too short is overwritten all the same.
HookTooShort(f, next) ==
  /\ installer' = next
  /\ trampoline' = trampoline \cup {f}
  /\ entry' = [entry EXCEPT ![f] = "hooked"]

\* Mutant: the jump is written before the pointer to the copy is set.
JumpFirst(f, next) ==
  IF Hookable(f)
    THEN /\ entry' = [entry EXCEPT ![f] = "hooked"]
         /\ trampoline' = IF entry[f] = "hooked" THEN trampoline \cup {f} ELSE trampoline
         /\ installer' = IF entry[f] = "hooked" THEN next ELSE installer
    ELSE /\ installer' = next
         /\ UNCHANGED <<trampoline, entry>>

\* SHookFunction: first the pointer, then the jump, piece by piece.  When the
\* code cannot be overwritten a message box says so, and everything goes on.
Hook(f, next) ==
  \/ /\ ~Hookable(f)
     /\ installer' = next
     /\ UNCHANGED <<trampoline, entry>>
  \/ /\ Hookable(f) /\ f \notin trampoline
     /\ trampoline' = trampoline \cup {f}
     /\ UNCHANGED <<installer, entry>>
  \/ /\ f \in trampoline /\ entry[f] = "original" /\ ~Atomic(f)
     /\ entry' = [entry EXCEPT ![f] = "torn"]
     /\ UNCHANGED <<installer, trampoline>>
  \/ /\ f \in trampoline /\ entry[f] = IF Atomic(f) THEN "original" ELSE "torn"
     /\ entry' = [entry EXCEPT ![f] = "hooked"]
     /\ installer' = next
     /\ UNCHANGED trampoline

Step(from, to) == installer = from /\ installer' = to

InstallSendPacket ==
  /\ installer = "SendPacket"
  /\ Hook("SendPacket", "scan")
  /\ UNCHANGED <<settings, pointers, threadVars>>

\* Both searches for EnterSendPacket need SendPacket: its address, or on Win32
\* with configured addresses its pointer.
SearchPossible ==
  IF ~win64 /\ use_addr THEN "SendPacket" \in trampoline ELSE Found("SendPacket")

Scan ==
  /\ installer = "scan"
  /\ installer' = IF SearchPossible /\ Found("EnterSendPacket") THEN "ret" ELSE "COutPacket"
  /\ UNCHANGED <<settings, trampoline, entry, pointers, threadVars>>

\* Win32: the scanner sets both when it has checked the call it found.
SetReturnAddress ==
  /\ installer = "ret"
  /\ installer' = IF win64 THEN "stub" ELSE "original"
  /\ ret_known' = TRUE
  /\ socket' = (socket \/ ~win64)
  /\ UNCHANGED <<settings, trampoline, entry, stub, original, threadVars>>

FillStub ==
  /\ Step("stub", "socket")
  /\ stub' = TRUE
  /\ UNCHANGED <<settings, trampoline, entry, ret_known, socket, original, threadVars>>

SetSocket ==
  /\ Step("socket", "EnterSendPacket")
  /\ socket' = TRUE
  /\ UNCHANGED <<settings, trampoline, entry, ret_known, stub, original, threadVars>>

SaveOriginal ==
  /\ Step("original", "EnterSendPacket")
  /\ original' = TRUE
  /\ UNCHANGED <<settings, trampoline, entry, ret_known, stub, socket, threadVars>>

InstallEnterSendPacket ==
  /\ installer = "EnterSendPacket"
  /\ Hook("EnterSendPacket", "COutPacket")
  /\ UNCHANGED <<settings, pointers, threadVars>>

\* The functions that build packets are hooked only when sends are.
HookFormats ==
  /\ IF use_addr THEN "SendPacket" \in trampoline ELSE Found("SendPacket")
  /\ win64 => Found("EnterSendPacket")

InstallCOutPacket ==
  /\ installer = "COutPacket"
  /\ IF HookFormats
       THEN Hook("COutPacket", "ProcessPacket")
       ELSE installer' = "ProcessPacket" /\ UNCHANGED <<trampoline, entry>>
  /\ UNCHANGED <<settings, pointers, threadVars>>

InstallProcessPacket ==
  /\ installer = "ProcessPacket"
  /\ Hook("ProcessPacket", "done")
  /\ UNCHANGED <<settings, pointers, threadVars>>

Install ==
  \/ InstallSendPacket \/ Scan
  \/ SetReturnAddress \/ FillStub \/ SetSocket \/ SaveOriginal
  \/ InstallEnterSendPacket \/ InstallCOutPacket \/ InstallProcessPacket

--------------------------------------------------------------------------------
(* The game's threads *)

\* Without USE_THREAD the hooks go in under the loader's lock, and the thread
\* that will install the timer starts after them.
InjectorRuns == use_thread \/ installer = "done"

\* The calls the game makes itself, and the functions called.
CallTarget == [enter |-> "EnterSendPacket", direct |-> "SendPacket",
               receive |-> "ProcessPacket"]

Begins(t, c) ==
  /\ at[t] \in {"idle", "dropped", "returned"}
  /\ call' = [call EXCEPT ![t] = c]
  /\ from_enter' = [from_enter EXCEPT ![t] = FALSE]
  /\ logged' = [logged EXCEPT ![t] = 0]
  /\ late' = [late EXCEPT ![t] = installer = "done"]

Goes(t, where, f) ==
  /\ at' = [at EXCEPT ![t] = where]
  /\ function' = [function EXCEPT ![t] = f]

Call(t, c) ==
  /\ Begins(t, c)
  /\ Goes(t, "entry", CallTarget[c])
  /\ UNCHANGED <<settings, installVars>>

\* The installer may just have set the pointer of COutPacket to a copy that it
\* has not filled yet.
CopyBeingFilled ==
  installer = "COutPacket" /\ HookFormats /\ Hookable("COutPacket")
    /\ "COutPacket" \notin trampoline

\* Win32: the hooked EnterSendPacket is called at its own address, after
\* COutPacket_Hook, which does without a pointer but runs into an empty copy.
InjectSend32 ==
  /\ ~win64 /\ InjectorRuns
  /\ Begins(Main, "injectsend")
  /\ \/ ~original /\ Goes(Main, "dropped", "EnterSendPacket")
     \/ original /\ Goes(Main, "entry", "EnterSendPacket")
     \/ original /\ CopyBeingFilled /\ Goes(Main, "nopointer", "COutPacket")
  /\ UNCHANGED <<settings, installVars>>

\* Win64: COutPacket_Hook writes the header; whether it comes out encrypted
\* decides which hook is called.
InjectSend64 ==
  /\ win64 /\ InjectorRuns
  /\ Begins(Main, "injectsend")
  /\ \/ "COutPacket" \notin trampoline /\ Goes(Main, "nopointer", "COutPacket")
     \/ "COutPacket" \in trampoline /\ Goes(Main, "hook", "EnterSendPacket")
     \/ "COutPacket" \in trampoline /\ socket /\ Goes(Main, "hook", "SendPacket")
     \/ "COutPacket" \in trampoline /\ ~socket /\ Goes(Main, "nopointer", "SendPacket")
  /\ UNCHANGED <<settings, installVars>>

\* Win64 calls _CClientSocket; Win32 reads the variable, or takes 0.
InjectReceive ==
  /\ InjectorRuns
  /\ Begins(Main, "injectreceive")
  /\ IF win64 /\ ~socket THEN Goes(Main, "nopointer", "ProcessPacket")
                         ELSE Goes(Main, "hook", "ProcessPacket")
  /\ UNCHANGED <<settings, installVars>>

Moves(t, where) ==
  /\ at' = [at EXCEPT ![t] = where]
  /\ UNCHANGED <<settings, installVars, call, function, late>>

\* The first instructions: the game's, the jump, or half of each.
EnterFunction(t) ==
  /\ at[t] = "entry"
  /\ \/ entry[function[t]] = "torn" /\ Moves(t, "torncode")
     \/ entry[function[t]] = "hooked" /\ Moves(t, "hook")
     \/ /\ entry[function[t]] = "original"
        /\ Moves(t, IF image[function[t]] = "plain" THEN "prologue" ELSE "body")
  /\ UNCHANGED <<from_enter, logged>>

\* A thread between two instructions that are overwritten under it.
LeavePrologue(t) ==
  /\ at[t] = "prologue"
  /\ Moves(t, IF entry[function[t]] = "original" THEN "body" ELSE "torncode")
  /\ UNCHANGED <<from_enter, logged>>

\* Mutant: the hook of SendPacket logs whatever the return address.
LogsAlways(t) == TRUE

Logs(t) == function[t] = "SendPacket" => ~(from_enter[t] /\ ret_known)

\* The hook: it logs, and goes on through the stub or the pointer.
RunHook(t) ==
  /\ at[t] = "hook"
  /\ logged' = [logged EXCEPT ![t] = IF Logs(t) THEN @ + 1 ELSE @]
  /\ \/ win64 /\ function[t] = "SendPacket" /\ Moves(t, "stub")
     \/ /\ ~(win64 /\ function[t] = "SendPacket")
        /\ Moves(t, IF function[t] \in trampoline THEN "body" ELSE "nopointer")
  /\ UNCHANGED from_enter

RunStub(t) ==
  /\ at[t] = "stub"
  /\ Moves(t, IF stub /\ "SendPacket" \in trampoline THEN "body" ELSE "nostub")
  /\ UNCHANGED <<from_enter, logged>>

\* EnterSendPacket calls SendPacket.
CallSendPacket(t) ==
  /\ at[t] = "body"
  /\ function[t] = "EnterSendPacket"
  /\ Goes(t, "entry", "SendPacket")
  /\ from_enter' = [from_enter EXCEPT ![t] = TRUE]
  /\ UNCHANGED <<settings, installVars, call, logged, late>>

Finish(t) ==
  /\ at[t] = "body"
  /\ function[t] # "EnterSendPacket"
  /\ Moves(t, "returned")
  /\ UNCHANGED <<from_enter, logged>>

--------------------------------------------------------------------------------
Next ==
  \/ Install
  \/ InjectSend32 \/ InjectSend64 \/ InjectReceive
  \/ \E t \in Threads :
       \/ \E c \in DOMAIN CallTarget : Call(t, c)
       \/ EnterFunction(t) \/ LeavePrologue(t) \/ RunHook(t) \/ RunStub(t)
       \/ CallSendPacket(t) \/ Finish(t)

Spec == Init /\ [][Next]_vars

--------------------------------------------------------------------------------
(* Properties *)

\* The type of every variable; only what could be overwritten has a copy.
TypeOK ==
  /\ win64 \in BOOLEAN /\ use_thread \in BOOLEAN /\ use_addr \in BOOLEAN
  /\ image \in [Functions -> Kinds]
  /\ installer \in Steps
  /\ trampoline \subseteq {f \in Functions : Hookable(f)}
  /\ entry \in [Functions -> {"original", "torn", "hooked"}]
  /\ ret_known \in BOOLEAN /\ stub \in BOOLEAN /\ socket \in BOOLEAN /\ original \in BOOLEAN
  /\ call \in [Threads -> Calls \cup {"none"}]
  /\ at \in [Threads -> {"idle", "entry", "prologue", "hook", "stub", "body", "returned",
                         "dropped"} \cup Crashes]
  /\ function \in [Threads -> Functions]
  /\ from_enter \in [Threads -> BOOLEAN]
  /\ logged \in [Threads -> Nat]
  /\ late \in [Threads -> BOOLEAN]

Sends == {"enter", "direct", "injectsend"}

\* No packet is logged twice, also while the hooks go in: the return address is
\* known before EnterSendPacket is hooked.  Once they are in, every packet sent
\* is logged, unless EnterSendPacket could not be overwritten: its sends then
\* have the return address that SendPacket's hook skips.
LoggedOnce ==
  \A t \in Threads : at[t] = "returned" =>
    /\ logged[t] <= 1
    /\ late[t] /\ call[t] \in Sends /\ Hookable("SendPacket") =>
         logged[t] = 1 \/ image["EnterSendPacket"] = "unhookable"

\* A thread crashes only for a reason that is known.  It may run into code that
\* is being overwritten before the installation is over, unless the jump is one
\* word.  A Win64 send may reach the stub too early, or at any time when
\* SendPacket was hooked and EnterSendPacket not found.  Only injected packets
\* find no pointer, or an empty copy: with USE_THREAD they may come too early, otherwise a
\* function they need was not hooked.
CrashesForACause ==
  \A t \in Threads :
    LET injected == call[t] \notin DOMAIN CallTarget IN
    /\ at[t] = "torncode" => ~late[t] /\ ~Atomic(function[t])
    /\ at[t] = "nostub" =>
         /\ win64
         /\ ~late[t] \/ ~Found("EnterSendPacket") \/ (injected /\ ~Hookable("SendPacket"))
    /\ at[t] = "nopointer" =>
         /\ injected
         /\ late[t] \/ ~use_thread => \E f \in Functions : ~Hookable(f)
================================================================================
