---------------------------- MODULE ClientSessions -----------------------------
(***************************************************************************)
(* Who the packets are sent to: current_client of Packet/PacketTCP.cpp,    *)
(* the threads of Share/Simple/SimpleTCP.cpp that serve one connection     *)
(* each, and the queue's worker, which sends.                              *)
(*                                                                         *)
(* Each accepted connection gets a thread whose TCPServerThread object     *)
(* lives on its stack.  The thread puts the object's address in            *)
(* current_client, handles commands until Recv fails, takes the address    *)
(* back and returns, which destroys the object.  The worker copies         *)
(* current_client under tcp_client_cs and sends after leaving it.  What    *)
(* the commands do is the subject of InjectionQueues.                      *)
(***************************************************************************)
EXTENDS Integers, Sequences, FiniteSets, SequencesExt

CONSTANTS
  Connections,  \* connections the server accepts, each once
  NULL,
  MaxPackets    \* bound: packets the worker sends

ASSUME NullAssumption == NULL \notin Connections
ASSUME MaxPacketsAssumption == MaxPackets \in Nat

VARIABLES
  thread,          \* per connection: where its thread is
  broken,          \* connections that the peer or the network has ended
  current_client,
  sender,          \* where SendPacketDataTCP is
  client,          \* its local copy of the pointer
  packet,          \* the packet it was last called with, by number
  received,        \* history: packets each connection was sent in full
  failed,          \* history: packets whose send to the connection failed
  strayed,         \* history: connections that got what was not meant for them
  order            \* history: connections in the order they were stored

outcomes == <<received, failed, strayed>>
senderVars == <<sender, client, packet, outcomes>>
vars == <<thread, broken, current_client, senderVars, order>>

Init ==
  /\ thread = [c \in Connections |-> "none"]
  /\ broken = {}
  /\ current_client = NULL
  /\ sender = "idle"
  /\ client = NULL
  /\ packet = 0
  /\ received = [c \in Connections |-> <<>>]
  /\ failed = [c \in Connections |-> {}]
  /\ strayed = {}
  /\ order = <<>>

Goes(c, from, to) ==
  /\ sender # "crashed"
  /\ thread[c] = from
  /\ thread' = [thread EXCEPT ![c] = to]

--------------------------------------------------------------------------------
(* The thread of a connection *)

\* The peer closes or the network fails: from now on both directions fail.
Break(c) ==
  /\ sender # "crashed"
  /\ thread[c] # "none"
  /\ broken' = broken \cup {c}
  /\ UNCHANGED <<thread, current_client, senderVars, order>>

\* The accept loop: any number of connections, a thread for each.
Accept(c) ==
  /\ Goes(c, "none", "accepted")
  /\ UNCHANGED <<broken, current_client, senderVars, order>>

StoreClient(c) ==
  /\ Goes(c, "accepted", "serving")
  /\ current_client' = c
  /\ order' = Append(order, c)
  /\ UNCHANGED <<broken, senderVars>>

\* Recv fails, on a broken connection or on a frame that is malformed.
RecvFails(c) ==
  /\ Goes(c, "serving", "leaving")
  /\ UNCHANGED <<broken, current_client, senderVars, order>>

\* Mutant: the pointer is cleared whoever it points to.
ClearAnyClient(c) ==
  /\ Goes(c, "leaving", "returned")
  /\ current_client' = NULL
  /\ UNCHANGED <<broken, senderVars, order>>

\* Mutant: the pointer stays.
ClearNoClient(c) ==
  /\ Goes(c, "leaving", "returned")
  /\ UNCHANGED <<broken, current_client, senderVars, order>>

\* Mutant: a client that is still there takes over.
ClearClientRestoring(c) ==
  /\ Goes(c, "leaving", "returned")
  /\ current_client' \in
       IF current_client # c THEN {current_client}
       ELSE {NULL} \cup {d \in Connections : thread[d] = "serving"}
  /\ UNCHANGED <<broken, senderVars, order>>

\* Only its own address is taken back; nobody else's is put in its place.
ClearClient(c) ==
  /\ Goes(c, "leaving", "returned")
  /\ current_client' = IF current_client = c THEN NULL ELSE current_client
  /\ UNCHANGED <<broken, senderVars, order>>

\* ~TCPServerThread closes the socket, and the stack of the thread goes.
Destroy(c) ==
  /\ Goes(c, "returned", "gone")
  /\ UNCHANGED <<broken, current_client, senderVars, order>>

--------------------------------------------------------------------------------
(* The worker: SendPacketDataTCP *)

LoadClient ==
  /\ sender = "idle"
  /\ packet < MaxPackets
  /\ packet' = packet + 1
  /\ client' = current_client
  /\ sender' = "send"
  /\ UNCHANGED <<thread, broken, current_client, outcomes, order>>

Returns == sender' = "idle" /\ UNCHANGED <<thread, broken, current_client, client, packet, order>>

\* No client: the packet is skipped, and counts as sent.
SkipSend ==
  /\ sender = "send"
  /\ client = NULL
  /\ Returns
  /\ UNCHANGED outcomes

HasSocket(c) == thread[c] \in {"accepted", "serving", "leaving", "returned"}

\* Mutant: what goes out is the packet of the call before.
SendToPrevious(c) == received' = [received EXCEPT ![c] = Append(@, packet - 1)]

SendTo(c) == received' = [received EXCEPT ![c] = Append(@, packet)]

Send ==
  /\ sender = "send"
  /\ client # NULL
  /\ HasSocket(client)
  /\ client \notin broken
  /\ SendTo(client)
  /\ Returns
  /\ UNCHANGED <<failed, strayed>>

\* send() returns an error, for a connection that is broken, a socket that is
\* closed, or for a reason of its own on a connection that lives on.  The worker
\* drops the packet, and current_client stays what it is.
SendFails ==
  /\ sender = "send"
  /\ client # NULL
  /\ failed' = [failed EXCEPT ![client] = @ \cup {packet}]
  /\ Returns
  /\ UNCHANGED <<received, strayed>>

\* The object is gone.  Its memory may have become the stack of another
\* connection's thread, so that the bytes go there, or nobody's, so that the
\* process dies; or the closed socket is still there to be read (SendFails).
SendToReusedStack ==
  /\ sender = "send"
  /\ client # NULL
  /\ ~HasSocket(client)
  /\ \E c \in Connections \ broken :
       /\ HasSocket(c)
       /\ SendTo(c)
       /\ strayed' = strayed \cup {c}
  /\ Returns
  /\ UNCHANGED failed

SendCrashes ==
  /\ sender = "send"
  /\ client # NULL
  /\ ~HasSocket(client)
  /\ sender' = "crashed"
  /\ UNCHANGED <<thread, broken, current_client, client, packet, outcomes, order>>

--------------------------------------------------------------------------------
ClientThread(c) ==
  Break(c) \/ Accept(c) \/ StoreClient(c) \/ RecvFails(c) \/ ClearClient(c) \/ Destroy(c)

SendPacketDataTCP ==
  LoadClient \/ SkipSend \/ Send \/ SendFails \/ SendToReusedStack \/ SendCrashes

Next ==
  \/ \E c \in Connections : ClientThread(c)
  \/ SendPacketDataTCP

Spec == Init /\ [][Next]_vars

--------------------------------------------------------------------------------
(* Properties *)

\* Every variable has its type.
TypeOK ==
  /\ thread \in [Connections ->
       {"none", "accepted", "serving", "leaving", "returned", "gone"}]
  /\ broken \subseteq Connections
  /\ current_client \in Connections \cup {NULL}
  /\ sender \in {"idle", "send", "crashed"}
  /\ client \in Connections \cup {NULL}
  /\ packet \in 0 .. MaxPackets
  /\ received \in [Connections -> Seq(1 .. MaxPackets)]
  /\ failed \in [Connections -> SUBSET (1 .. MaxPackets)]
  /\ strayed \subseteq Connections
  /\ order \in Seq(Connections)

\* The pointer the worker finds in current_client does not dangle: the thread of
\* its object still serves it, or is about to take the pointer back.
CurrentIsAlive ==
  current_client # NULL => thread[current_client] \in {"serving", "leaving"}

\* "Disconnecting one client doesn't affect others" (TESTING_CHECKLIST.md:77): a
\* client that is still there and was the last to connect is the one packets go
\* to, whatever older connections do on their way out.
LatestIsCurrent ==
  order # <<>> /\ thread[order[Len(order)]] = "serving"
    => current_client = order[Len(order)]

\* From the first packet a client got to the last.
Turn(c) == IF received[c] = <<>> THEN {} ELSE received[c][1] .. received[c][Len(received[c])]

\* "No packet loss between clients" (TESTING_CHECKLIST.md:76), as far as the code
\* keeps it: a client has one turn.  From its first packet to its last it misses
\* only those whose send failed, which nobody sends again; and when a newer client
\* has got one, it gets none any more, still connected or not.  Both but for
\* clients that got what was meant for an object that is gone.
OneTurn ==
  /\ \A c \in Connections \ strayed : Turn(c) \subseteq ToSet(received[c]) \cup failed[c]
  /\ \A j, k \in DOMAIN order :
       j < k /\ order[j] \notin strayed /\ order[k] \notin strayed =>
         \A p \in ToSet(received[order[j]]), q \in ToSet(received[order[k]]) : p < q

\* "All TCP operations are thread-safe" and "Critical Section: tcp_client_cs
\* protects client pointer access" (TCP_API_DOCUMENTATION.md:532): the object
\* Send is called on exists.
SendsToLiveObject == sender = "send" /\ client # NULL => thread[client] # "gone"
================================================================================
