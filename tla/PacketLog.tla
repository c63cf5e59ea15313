------------------------------- MODULE PacketLog -------------------------------
(***************************************************************************)
(* What the hooks of Packet/PacketHook.cpp log, and under which ids:       *)
(* Packet/PacketLogging.cpp.                                               *)
(*                                                                         *)
(* The game builds a packet field by field in an OutPacket object and      *)
(* sends it; the hooks collect the fields under the object's address and   *)
(* log them, then the packet, when it is sent.  A packet received is       *)
(* logged, then the fields the game decodes from it, then their end; while *)
(* it is processed the game may send packets and process others.  Two      *)
(* global counters name the packets.  Nothing protects them: an increment  *)
(* is a load and a store.                                                  *)
(*                                                                         *)
(* Packets are numbered as they are built and as they are received, fields *)
(* by their place.  How a message travels is the subject of PacketQueue,   *)
(* in whose first-in first-out order `log` is the channel's content.       *)
(***************************************************************************)
EXTENDS Integers, Sequences, FiniteSets, SequencesExt

CONSTANTS
  Threads,     \* the game's threads
  OutPackets,  \* addresses of OutPacket objects, used again and again
  NULL,
  Win64,       \* _WIN64 is defined
  MaxEach,     \* bound: packets built, and packets received
  MaxPackets,  \* bound: packets built and received together
  MaxEncoded,  \* bound: fields of a packet built
  MaxDecoded,  \* bound: fields decoded from a packet received
  MaxDepth     \* bound: calls of ProcessPacket within each other

ASSUME NullAssumption == NULL \notin Threads \cup OutPackets
ASSUME Win64Assumption == Win64 \in BOOLEAN
ASSUME BoundsAssumption ==
  /\ MaxEach \in Nat /\ MaxPackets \in Nat
  /\ MaxEncoded \in Nat /\ MaxDecoded \in Nat /\ MaxDepth \in Nat

\* A PacketExtraInformation: field number `pos` of the packet `of`.
Field == [of : Nat, pos : Nat]
\* The two ways a packet is sent: EnterSendPacket (SendPacket_EH on 64 bit)
\* calls SendPacket; the game calls that directly, too.
Routes == {"SendPacket", "EnterSendPacket"}
Kinds == {"encode", "send", "recv", "decode", "decode_end"}
Message == [kind : Kinds, id : Nat, of : Nat, pos : Nat, call : Nat]

VARIABLES
  packet_id_out,
  packet_id_in,
  tracking_cs_initialized,
  packet_tracking_map,  \* a missing entry is an empty one
  owner,                \* per object: the thread that builds or sends it
  build,                \* and the packet built in it last
  pc,                   \* where each thread is; "game" outside the hooks
  op,                   \* the object its AddSendPacket was called with
  route,                \* and the hook that called it
  items,                \* AddExtraAll's list, from the next one on
  loaded,               \* what it loaded to count an id up, 0 when that is done
  receiving,            \* packets whose ProcessPacket it is in, innermost last
  log,                  \* history: the messages in the order they were pushed
  fields,               \* history: fields of each packet built so far
  received,             \* history: packets received so far
  early,                \* history: packets begun before InitTracking
  overlapped,           \* history: sent while another thread was sending
  overtaken             \* history: received while another reception began

idVars == <<packet_id_out, packet_id_in>>
trackVars == <<tracking_cs_initialized, packet_tracking_map>>
objectVars == <<owner, build, fields, early>>
sendVars == <<op, route, items, overlapped>>
recvVars == <<receiving, received, overtaken>>
vars == <<idVars, trackVars, objectVars, pc, loaded, sendVars, recvVars, log>>

Init ==
  /\ packet_id_out = 2
  /\ packet_id_in = 1
  /\ tracking_cs_initialized = FALSE
  /\ packet_tracking_map = [o \in OutPackets |-> <<>>]
  /\ owner = [o \in OutPackets |-> NULL]
  /\ build = [o \in OutPackets |-> 0]
  /\ pc = [t \in Threads |-> "game"]
  /\ op = [t \in Threads |-> NULL]
  /\ route = [t \in Threads |-> "SendPacket"]
  /\ items = [t \in Threads |-> <<>>]
  /\ loaded = [t \in Threads |-> 0]
  /\ receiving = [t \in Threads |-> <<>>]
  /\ log = <<>>
  /\ fields = <<>>
  /\ received = 0
  /\ early = {}
  /\ overlapped = {}
  /\ overtaken = {}

Goes(t, from, to) == pc[t] = from /\ pc' = [pc EXCEPT ![t] = to]

\* StartTCPClient, on a thread of its own while hooks are in place already.
InitTracking ==
  /\ ~tracking_cs_initialized
  /\ tracking_cs_initialized' = TRUE
  /\ UNCHANGED <<idVars, packet_tracking_map, objectVars, pc, loaded, sendVars, recvVars, log>>

--------------------------------------------------------------------------------
(* Building a packet *)

Built == Len(fields)

\* AddQueue: nothing is collected before InitTracking.
AddQueue(o, collected, f) ==
  packet_tracking_map' =
    IF tracking_cs_initialized
    THEN [packet_tracking_map EXCEPT ![o] = Append(collected, f)]
    ELSE packet_tracking_map

\* Mutant: what an earlier packet left at the address is not cleared.
COutPacketKeeping(t, o) ==
  /\ pc[t] = "game"
  /\ owner[o] = NULL
  /\ Built < MaxEach
  /\ Built + received < MaxPackets
  /\ owner' = [owner EXCEPT ![o] = t]
  /\ build' = [build EXCEPT ![o] = Built + 1]
  /\ fields' = Append(fields, 1)
  /\ early' = IF tracking_cs_initialized THEN early ELSE early \cup {Built + 1}
  /\ AddQueue(o, packet_tracking_map[o], [of |-> Built + 1, pos |-> 0])
  /\ UNCHANGED <<idVars, tracking_cs_initialized, pc, loaded, sendVars, recvVars, log>>

\* COutPacket_Hook: ClearQueue, then AddQueue of the header.  No other thread
\* touches the entry of an object between the two.
COutPacket(t, o) ==
  /\ pc[t] = "game"
  /\ owner[o] = NULL
  /\ Built < MaxEach
  /\ Built + received < MaxPackets
  /\ owner' = [owner EXCEPT ![o] = t]
  /\ build' = [build EXCEPT ![o] = Built + 1]
  /\ fields' = Append(fields, 1)
  /\ early' = IF tracking_cs_initialized THEN early ELSE early \cup {Built + 1}
  /\ AddQueue(o, <<>>, [of |-> Built + 1, pos |-> 0])
  /\ UNCHANGED <<idVars, tracking_cs_initialized, pc, loaded, sendVars, recvVars, log>>

\* Encode1_Hook and the like, for a field after the header.
Encode(t, o) ==
  /\ pc[t] = "game"
  /\ owner[o] = t
  /\ fields[build[o]] < MaxEncoded
  /\ fields' = [fields EXCEPT ![build[o]] = @ + 1]
  /\ AddQueue(o, packet_tracking_map[o], [of |-> build[o], pos |-> fields[build[o]]])
  /\ UNCHANGED <<idVars, tracking_cs_initialized, owner, build, early, pc, loaded,
                 sendVars, recvVars, log>>

\* The game gives up a packet it has not sent; no hook sees that.
Abandon(t, o) ==
  /\ pc[t] = "game"
  /\ owner[o] = t
  /\ owner' = [owner EXCEPT ![o] = NULL]
  /\ UNCHANGED <<idVars, trackVars, build, fields, early, pc, loaded, sendVars, recvVars, log>>

--------------------------------------------------------------------------------
(* Sending it: the hooks and AddSendPacket *)

Sending(t) == pc[t] \in {"extra", "count", "store", "bump", "bumped", "call"}
SendersBut(t) == {u \in Threads \ {t} : Sending(u)}

\* A hook calls AddSendPacket and that AddExtraAll, whose critical section this is.
SendPacket(t, o, r) ==
  /\ Goes(t, "game", "extra")
  /\ owner[o] = t
  /\ op' = [op EXCEPT ![t] = o]
  /\ route' = [route EXCEPT ![t] = r]
  /\ overlapped' = IF SendersBut(t) = {} THEN overlapped
                   ELSE overlapped \cup {build[o]} \cup {build[op[u]] : u \in SendersBut(t)}
  /\ IF tracking_cs_initialized
     THEN /\ items' = [items EXCEPT ![t] = packet_tracking_map[o]]
          /\ packet_tracking_map' = [packet_tracking_map EXCEPT ![o] = <<>>]
     ELSE UNCHANGED <<items, packet_tracking_map>>
  /\ UNCHANGED <<idVars, tracking_cs_initialized, objectVars, loaded, recvVars, log>>

\* A field of the list, under the id the counter has now.
AddExtra(t) ==
  /\ pc[t] = "extra"
  /\ items[t] # <<>>
  /\ log' = Append(log, [kind |-> "encode", id |-> packet_id_out, of |-> Head(items[t]).of,
                         pos |-> Head(items[t]).pos, call |-> build[op[t]]])
  /\ items' = [items EXCEPT ![t] = Tail(@)]
  /\ UNCHANGED <<idVars, trackVars, objectVars, pc, op, route, overlapped, loaded, recvVars>>

\* The packet itself, under the id the counter has then.
AddSendPacket(t) ==
  /\ Goes(t, "extra", "count")
  /\ items[t] = <<>>
  /\ log' = Append(log, [kind |-> "send", id |-> packet_id_out, of |-> build[op[t]],
                         pos |-> 0, call |-> build[op[t]]])
  /\ UNCHANGED <<idVars, trackVars, objectVars, sendVars, loaded, recvVars>>

\* CountUpPacketID(packet_id_out), and on 64 bit the increment in SendPacket_Hook.
LoadOut(t) ==
  /\ \/ Goes(t, "count", "store")
     \/ Goes(t, "bump", "bumped")
  /\ loaded' = [loaded EXCEPT ![t] = packet_id_out]
  /\ UNCHANGED <<idVars, trackVars, objectVars, sendVars, recvVars, log>>

\* Mutant: on 64 bit it is left to SendPacket_Hook to count the id up.
StoreOutOnlyIn32(t) ==
  /\ Goes(t, "store", IF Win64 /\ route[t] = "SendPacket" THEN "bump" ELSE "call")
  /\ packet_id_out' = IF Win64 THEN loaded[t] ELSE loaded[t] + 2
  /\ loaded' = [loaded EXCEPT ![t] = 0]
  /\ UNCHANGED <<packet_id_in, trackVars, objectVars, sendVars, recvVars, log>>

StoreOut(t) ==
  /\ Goes(t, "store", IF Win64 /\ route[t] = "SendPacket" THEN "bump" ELSE "call")
  /\ packet_id_out' = loaded[t] + 2
  /\ loaded' = [loaded EXCEPT ![t] = 0]
  /\ UNCHANGED <<packet_id_in, trackVars, objectVars, sendVars, recvVars, log>>

StoreBumped(t) ==
  /\ Goes(t, "bumped", "call")
  /\ packet_id_out' = loaded[t] + 1
  /\ loaded' = [loaded EXCEPT ![t] = 0]
  /\ UNCHANGED <<packet_id_in, trackVars, objectVars, sendVars, recvVars, log>>

\* Mutant: the hook of the nested call logs what has been sent and is gone.
CallOriginalTooLate(t) ==
  /\ Goes(t, "call", IF route[t] = "EnterSendPacket" THEN "extra" ELSE "game")
  /\ owner' = [owner EXCEPT ![op[t]] = NULL]
  /\ op' = [op EXCEPT ![t] = NULL]
  /\ UNCHANGED <<idVars, trackVars, build, fields, early, route, items, overlapped,
                 loaded, recvVars, log>>

\* The game's function.  If it is EnterSendPacket it calls SendPacket, which is
\* hooked; SendPacket_Hook knows its return address and logs nothing.
CallOriginal(t) ==
  /\ Goes(t, "call", "game")
  /\ owner' = [owner EXCEPT ![op[t]] = NULL]
  /\ op' = [op EXCEPT ![t] = NULL]
  /\ route' = [route EXCEPT ![t] = "SendPacket"]
  /\ UNCHANGED <<idVars, trackVars, build, fields, early, items, overlapped,
                 loaded, recvVars, log>>

--------------------------------------------------------------------------------
(* Receiving: ProcessPacket_Hook and the decoding hooks *)

InProcess(t) == receiving[t] # <<>>
Innermost(t) == Last(receiving[t])

\* The packets being processed; the next one, if an increment is not done yet.
Ongoing == UNION {ToSet(receiving[u]) : u \in Threads}
Contended == IF \E u \in Threads : pc[u] = "in_store" THEN {received + 1} ELSE {}

\* CountUpPacketID(packet_id_in), first its load.  A reception that begins while
\* another goes on overtakes it.
ProcessPacket(t) ==
  /\ Goes(t, "game", "in_store")
  /\ received < MaxEach
  /\ Built + received < MaxPackets
  /\ Len(receiving[t]) < MaxDepth
  /\ received' = received + 1
  /\ receiving' = [receiving EXCEPT ![t] = Append(@, received + 1)]
  /\ overtaken' = overtaken \cup Ongoing \cup Contended
  /\ loaded' = [loaded EXCEPT ![t] = packet_id_in]
  /\ UNCHANGED <<idVars, trackVars, objectVars, sendVars, log>>

\* Mutant: CountUpPacketID takes its argument by value.
StoreInNowhere(t) ==
  /\ Goes(t, "in_store", "in_log")
  /\ loaded' = [loaded EXCEPT ![t] = 0]
  /\ UNCHANGED <<idVars, trackVars, objectVars, sendVars, recvVars, log>>

StoreIn(t) ==
  /\ Goes(t, "in_store", "in_log")
  /\ packet_id_in' = loaded[t] + 2
  /\ loaded' = [loaded EXCEPT ![t] = 0]
  /\ UNCHANGED <<packet_id_out, trackVars, objectVars, sendVars, recvVars, log>>

Received(kind, id, n) == [kind |-> kind, id |-> id, of |-> n, pos |-> 0, call |-> n]

\* AddRecvPacket; then the game's ProcessPacket is called.
AddRecvPacket(t) ==
  /\ Goes(t, "in_log", "game")
  /\ log' = Append(log, Received("recv", packet_id_in, Innermost(t)))
  /\ UNCHANGED <<idVars, trackVars, objectVars, sendVars, loaded, recvVars>>

DecodedFields(n) == {k \in DOMAIN log : log[k].kind = "decode" /\ log[k].of = n}

\* Decode1_Hook and the like: the field without its data, then with it, as one.
Decode(t) ==
  /\ pc[t] = "game"
  /\ InProcess(t)
  /\ Cardinality(DecodedFields(Innermost(t))) < MaxDecoded
  /\ log' = Append(log, Received("decode", packet_id_in, Innermost(t)))
  /\ UNCHANGED <<idVars, trackVars, objectVars, pc, sendVars, loaded, recvVars>>

\* The game's ProcessPacket is back: DECODE_END.
ProcessPacketReturns(t) ==
  /\ pc[t] = "game"
  /\ InProcess(t)
  /\ log' = Append(log, Received("decode_end", packet_id_in, Innermost(t)))
  /\ receiving' = [receiving EXCEPT ![t] = Front(@)]
  /\ UNCHANGED <<idVars, trackVars, objectVars, pc, sendVars, loaded, received, overtaken>>

--------------------------------------------------------------------------------
Outgoing(t) ==
  \/ \E o \in OutPackets : COutPacket(t, o) \/ Encode(t, o) \/ Abandon(t, o)
  \/ \E o \in OutPackets, r \in Routes : SendPacket(t, o, r)
  \/ AddExtra(t) \/ AddSendPacket(t)
  \/ LoadOut(t) \/ StoreOut(t) \/ StoreBumped(t) \/ CallOriginal(t)

Incoming(t) ==
  \/ ProcessPacket(t) \/ StoreIn(t) \/ AddRecvPacket(t)
  \/ Decode(t) \/ ProcessPacketReturns(t)

Next == InitTracking \/ \E t \in Threads : Outgoing(t) \/ Incoming(t)

Spec == Init /\ [][Next]_vars

--------------------------------------------------------------------------------
(* Properties *)

\* Every variable has its type, and a thread in AddSendPacket has an object.
TypeOK ==
  /\ packet_id_out \in Nat
  /\ packet_id_in \in Nat
  /\ tracking_cs_initialized \in BOOLEAN
  /\ packet_tracking_map \in [OutPackets -> Seq(Field)]
  /\ owner \in [OutPackets -> Threads \cup {NULL}]
  /\ build \in [OutPackets -> 0 .. Built]
  /\ \A o \in OutPackets : owner[o] # NULL => build[o] # 0
  /\ pc \in [Threads -> {"game", "extra", "count", "store", "bump", "bumped", "call",
                         "in_store", "in_log"}]
  /\ op \in [Threads -> OutPackets \cup {NULL}]
  /\ \A t \in Threads : Sending(t) => op[t] \in OutPackets
  /\ route \in [Threads -> Routes]
  /\ items \in [Threads -> Seq(Field)]
  /\ loaded \in [Threads -> Nat]
  /\ receiving \in [Threads -> Seq(Nat)]
  /\ \A t \in Threads : pc[t] \in {"in_store", "in_log"} => receiving[t] # <<>>
  /\ log \in Seq(Message)
  /\ fields \in Seq(Nat)
  /\ received \in Nat
  /\ early \subseteq Nat
  /\ overlapped \subseteq Nat
  /\ overtaken \subseteq Nat

\* The fields logged in a call of AddSendPacket are those of the packet it sends,
\* all of them and in their order, although objects are given up unsent and their
\* addresses used again; only a packet begun before InitTracking may miss some.
FormatsComplete ==
  \A k \in DOMAIN log : log[k].kind = "send" =>
    LET b == log[k].of
        logged == {i \in 1 .. k - 1 : log[i].kind = "encode" /\ log[i].call = b}
    IN  /\ \A i \in logged : log[i].of = b
        /\ b \notin early =>
             /\ {log[i].pos : i \in logged} = 0 .. fields[b] - 1
             /\ \A h, i \in logged : h < i => log[h].pos < log[i].pos

\* A packet is logged once, whichever of the nested hooks it passes ("Both
\* SendPacket and EnterSendPacket exist", PacketLogging.cpp:190).
LoggedOnce ==
  \A j, k \in DOMAIN log :
    log[j].kind = "send" /\ log[k].kind = "send" /\ log[j].of = log[k].of => j = k

\* The fields of a packet carry its id, by which a client puts them together,
\* whatever else the thread sends or receives before and after, and no other
\* outgoing packet has it; unless two threads are sending at once.
OutgoingIds ==
  \A j, k \in DOMAIN log :
    /\ log[k].kind = "send"
    /\ log[j].kind \in {"send", "encode"}
    /\ j < k
    /\ {log[j].call, log[k].of} \cap overlapped = {}
    => (log[j].id = log[k].id <=> log[j].call = log[k].of)

\* The same of a packet received, the fields decoded from it and their end, among
\* incoming packets, unless the game starts to process another packet meanwhile.
IncomingIds ==
  \A j, k \in DOMAIN log :
    /\ log[j].kind = "recv"
    /\ log[k].kind \in {"recv", "decode", "decode_end"}
    /\ j < k
    /\ {log[j].of, log[k].of} \cap overtaken = {}
    => (log[j].id = log[k].id <=> log[j].of = log[k].of)

\* "Outgoing packets (SENDPACKET): Use even IDs starting from 2", "Incoming packets
\* (RECVPACKET): Use odd IDs starting from 1" (TCP_API_DOCUMENTATION.md:156): a
\* client can tell from an id which way its packet went.
IdsTellDirection ==
  \A k \in DOMAIN log :
    log[k].id % 2 = (IF log[k].kind \in {"encode", "send"} THEN 0 ELSE 1)
================================================================================
