-------------------------- MODULE ClientSessionsProofs --------------------------
(***************************************************************************)
(* What is proved of current_client for every number of connections.       *)
(***************************************************************************)
EXTENDS ClientSessions, TLAPS, SequenceTheorems

\* A packet the worker is in the middle of is within the bound.
SenderOK == sender = "send" => packet # 0

\* The type invariant, with the number of the packet in hand, is inductive.
LEMMA TypeStep == TypeOK /\ SenderOK /\ [Next]_vars => (TypeOK /\ SenderOK)'
<1> SUFFICES ASSUME TypeOK, SenderOK, [Next]_vars
             PROVE  (TypeOK /\ SenderOK)'
  OBVIOUS
<1>1. ASSUME NEW c \in Connections, ClientThread(c)
      PROVE  (TypeOK /\ SenderOK)'
  <2>1. CASE Break(c)
    BY <2>1 DEF Break, TypeOK, SenderOK, senderVars, outcomes
  <2>2. CASE Accept(c)
    BY <2>2 DEF Accept, Goes, TypeOK, SenderOK, senderVars, outcomes
  <2>3. CASE StoreClient(c)
    <3>1. order' \in Seq(Connections)
      BY <2>3, AppendProperties DEF StoreClient, TypeOK
    <3> QED BY <2>3, <3>1 DEF StoreClient, Goes, TypeOK, SenderOK, senderVars, outcomes
  <2>4. CASE RecvFails(c)
    BY <2>4 DEF RecvFails, Goes, TypeOK, SenderOK, senderVars, outcomes
  <2>5. CASE ClearClient(c)
    BY <2>5 DEF ClearClient, Goes, TypeOK, SenderOK, senderVars, outcomes
  <2>6. CASE Destroy(c)
    BY <2>6 DEF Destroy, Goes, TypeOK, SenderOK, senderVars, outcomes
  <2> QED BY <1>1, <2>1, <2>2, <2>3, <2>4, <2>5, <2>6 DEF ClientThread
<1>2. CASE LoadClient
  <2>1. packet' \in 0 .. MaxPackets /\ packet' # 0
    BY <1>2, MaxPacketsAssumption DEF LoadClient, TypeOK
  <2> QED BY <1>2, <2>1 DEF LoadClient, TypeOK, SenderOK, outcomes
<1>3. CASE SkipSend
  BY <1>3 DEF SkipSend, Returns, TypeOK, SenderOK, outcomes
<1>4. ASSUME NEW c \in Connections, sender = "send", SendTo(c), Returns,
             failed' = failed, strayed' \subseteq Connections
      PROVE  (TypeOK /\ SenderOK)'
  <2>1. packet \in 1 .. MaxPackets
    BY <1>4, MaxPacketsAssumption DEF TypeOK, SenderOK
  <2>2. Append(received[c], packet) \in Seq(1 .. MaxPackets)
    BY <2>1, AppendProperties DEF TypeOK
  <2>3. received' \in [Connections -> Seq(1 .. MaxPackets)]
    BY <1>4, <2>2 DEF SendTo, TypeOK
  <2> QED BY <1>4, <2>3 DEF Returns, TypeOK, SenderOK
<1>5. CASE Send
  BY <1>4, <1>5 DEF Send, TypeOK
<1>6. CASE SendFails
  <2>1. packet \in 1 .. MaxPackets
    BY <1>6, MaxPacketsAssumption DEF SendFails, TypeOK, SenderOK
  <2>2. failed' \in [Connections -> SUBSET (1 .. MaxPackets)]
    BY <1>6, <2>1 DEF SendFails, TypeOK
  <2> QED BY <1>6, <2>2 DEF SendFails, Returns, TypeOK, SenderOK
<1>7. CASE SendToReusedStack
  BY <1>4, <1>7 DEF SendToReusedStack, TypeOK
<1>8. CASE SendCrashes
  BY <1>8 DEF SendCrashes, TypeOK, SenderOK, outcomes
<1>9. CASE UNCHANGED vars
  BY <1>9 DEF vars, senderVars, outcomes, TypeOK, SenderOK
<1> QED BY <1>1, <1>2, <1>3, <1>5, <1>6, <1>7, <1>8, <1>9 DEF Next, SendPacketDataTCP

\* No step of a connection's thread or of the worker makes the pointer dangle or
\* takes it away from the last client.
LEMMA PointerStep ==
  TypeOK /\ CurrentIsAlive /\ LatestIsCurrent /\ [Next]_vars
    => CurrentIsAlive' /\ LatestIsCurrent'
<1> SUFFICES ASSUME TypeOK, CurrentIsAlive, LatestIsCurrent, [Next]_vars
             PROVE  CurrentIsAlive' /\ LatestIsCurrent'
  OBVIOUS
<1> USE NullAssumption DEF TypeOK, Goes
<1>1. ASSUME NEW c \in Connections, StoreClient(c)
      PROVE  CurrentIsAlive' /\ LatestIsCurrent'
  <2>1. current_client' = c /\ thread'[c] = "serving"
    BY <1>1 DEF StoreClient
  <2>2. order'[Len(order')] = c
    BY <1>1, AppendProperties DEF StoreClient
  <2> QED BY <2>1, <2>2 DEF CurrentIsAlive, LatestIsCurrent
<1>2. ASSUME NEW c \in Connections, ClearClient(c)
      PROVE  CurrentIsAlive' /\ LatestIsCurrent'
  <2>1. CurrentIsAlive'
    BY <1>2 DEF ClearClient, CurrentIsAlive
  <2>2. LatestIsCurrent'
    <3>1. SUFFICES ASSUME order # <<>>, thread'[order[Len(order)]] = "serving"
                   PROVE  current_client' = order[Len(order)]
      BY <1>2 DEF ClearClient, LatestIsCurrent
    <3>2. order[Len(order)] \in Connections
      BY <3>1, EmptySeq, LenProperties, ElementOfSeq
    <3>3. order[Len(order)] # c /\ thread[order[Len(order)]] = "serving"
      BY <1>2, <3>1, <3>2 DEF ClearClient
    <3> QED BY <1>2, <3>1, <3>3 DEF ClearClient, LatestIsCurrent
  <2> QED BY <2>1, <2>2
<1>3. ASSUME NEW c \in Connections, Break(c) \/ Accept(c) \/ RecvFails(c) \/ Destroy(c)
      PROVE  CurrentIsAlive' /\ LatestIsCurrent'
  <2>1. UNCHANGED <<current_client, order>>
    BY <1>3 DEF Break, Accept, RecvFails, Destroy
  <2>2. \A d \in Connections :
          /\ thread[d] \in {"serving", "leaving"} => thread'[d] \in {"serving", "leaving"}
          /\ thread'[d] = "serving" => thread[d] = "serving"
    BY <1>3 DEF Break, Accept, RecvFails, Destroy
  <2>3. order # <<>> => order[Len(order)] \in Connections
    BY EmptySeq, LenProperties, ElementOfSeq
  <2> QED BY <2>1, <2>2, <2>3 DEF CurrentIsAlive, LatestIsCurrent
<1>4. ASSUME SendPacketDataTCP \/ UNCHANGED vars
      PROVE  CurrentIsAlive' /\ LatestIsCurrent'
  <2>1. UNCHANGED <<thread, current_client, order>>
    BY <1>4 DEF SendPacketDataTCP, LoadClient, SkipSend, Send, SendFails,
                SendToReusedStack, SendCrashes, Returns, vars
  <2> QED BY <2>1 DEF CurrentIsAlive, LatestIsCurrent
<1> QED BY <1>1, <1>2, <1>3, <1>4 DEF Next, ClientThread

\* Nothing is sent yet.
LEMMA TypeInit == Init => TypeOK /\ SenderOK
BY MaxPacketsAssumption, EmptySeq DEF Init, TypeOK, SenderOK

\* The invariant TypeOK, for every value of the constants.
THEOREM TypeCorrect == Spec => []TypeOK
<1>1. Init => TypeOK /\ SenderOK
  BY TypeInit
<1>2. (TypeOK /\ SenderOK) /\ [Next]_vars => (TypeOK /\ SenderOK)'
  BY TypeStep
<1> QED BY <1>1, <1>2, PTL DEF Spec

\* Initially there is neither a client nor a pointer to one.
LEMMA PointerInit == Init => CurrentIsAlive /\ LatestIsCurrent
BY DEF Init, CurrentIsAlive, LatestIsCurrent

\* current_client never points to an object whose thread has left TCPCommunicate,
\* for any number of connections coming and going.
THEOREM CurrentStaysAlive == Spec => []CurrentIsAlive
<1>1. Init => CurrentIsAlive /\ LatestIsCurrent
  BY PointerInit
<1>2. TypeOK /\ (CurrentIsAlive /\ LatestIsCurrent) /\ [Next]_vars
        => (CurrentIsAlive /\ LatestIsCurrent)'
  BY PointerStep
<1> QED BY <1>1, <1>2, TypeCorrect, PTL DEF Spec

\* A client that stays keeps getting the packets until a newer one comes, whoever
\* else disconnects.
THEOREM LatestStaysCurrent == Spec => []LatestIsCurrent
<1>1. Init => CurrentIsAlive /\ LatestIsCurrent
  BY PointerInit
<1>2. TypeOK /\ (CurrentIsAlive /\ LatestIsCurrent) /\ [Next]_vars
        => (CurrentIsAlive /\ LatestIsCurrent)'
  BY PointerStep
<1> QED BY <1>1, <1>2, TypeCorrect, PTL DEF Spec

--------------------------------------------------------------------------------
(***************************************************************************)
(* One turn each.  The client packets go to is the last that was stored;   *)
(* it got, or failed to get, everything from its first packet on.  A       *)
(* packet on its way to an older client was loaded before the newer one    *)
(* was stored, which therefore has none yet.                               *)
(***************************************************************************)
Clean(c) == c \notin strayed

\* A connection is stored once; before that it gets nothing.
OrderInv ==
  /\ \A j, k \in DOMAIN order : order[j] = order[k] => j = k
  /\ \A k \in DOMAIN order : thread[order[k]] \notin {"none", "accepted"}
  /\ current_client # NULL => order # <<>> /\ current_client = order[Len(order)]
  /\ \A c \in Connections : thread[c] \in {"none", "accepted"} =>
       /\ current_client # c /\ client # c
       /\ Clean(c) => received[c] = <<>>

\* What c got or failed to get.
Tried(c) == ToSet(received[c]) \cup failed[c]

\* From its first packet to p nothing is missing.
TriedUpTo(c, p) == received[c][1] .. p \subseteq Tried(c)

\* How far the turn of c is, once it has got a packet.
TurnInv ==
  \A c \in Connections : Clean(c) /\ received[c] # <<>> =>
    /\ TriedUpTo(c, received[c][Len(received[c])])
    /\ \A p \in ToSet(received[c]) : p <= packet /\ (sender = "send" => p < packet)
    /\ sender = "idle" /\ current_client = c => TriedUpTo(c, packet)
    /\ sender = "send" /\ client = c => TriedUpTo(c, packet - 1)
    /\ sender = "send" /\ current_client = c => client = c

NewerInv ==
  \A j, k \in DOMAIN order : j < k /\ Clean(order[j]) /\ Clean(order[k]) =>
    /\ \A p \in ToSet(received[order[j]]), q \in ToSet(received[order[k]]) : p < q
    /\ sender = "send" /\ client = order[j] => received[order[k]] = <<>>

TurnsInv == OrderInv /\ TurnInv /\ NewerInv

\* A sequence with an element appended.
LEMMA Appended ==
  ASSUME NEW S, NEW s \in Seq(S), NEW e \in S
  PROVE  /\ Append(s, e) \in Seq(S) /\ Append(s, e) # <<>>
         /\ Len(Append(s, e)) = Len(s) + 1 /\ Len(s) \in Nat
         /\ DOMAIN s = 1 .. Len(s) /\ DOMAIN Append(s, e) = 1 .. Len(s) + 1
         /\ \A i \in 1 .. Len(s) : Append(s, e)[i] = s[i]
         /\ Append(s, e)[Len(s) + 1] = e
         /\ ToSet(Append(s, e)) = ToSet(s) \cup {e}
<1>1. /\ Append(s, e) \in Seq(S)
      /\ Len(Append(s, e)) = Len(s) + 1
      /\ \A i \in 1 .. Len(s) : Append(s, e)[i] = s[i]
      /\ Append(s, e)[Len(s) + 1] = e
  BY AppendProperties
<1>2. /\ DOMAIN Append(s, e) = 1 .. Len(s) + 1 /\ DOMAIN s = 1 .. Len(s)
      /\ Len(s) \in Nat
  BY <1>1, LenProperties
<1>3. Append(s, e) # <<>>
  BY <1>1, <1>2, EmptySeq
<1>4. ToSet(Append(s, e)) = ToSet(s) \cup {e}
  <2>1. ToSet(Append(s, e)) = {Append(s, e)[i] : i \in 1 .. Len(s) + 1}
        /\ ToSet(s) = {s[i] : i \in 1 .. Len(s)}
    BY <1>2 DEF ToSet
  <2>2. \A i \in 1 .. Len(s) + 1 : i \in 1 .. Len(s) \/ i = Len(s) + 1
    BY <1>2
  <2>3. \A i \in 1 .. Len(s) : i \in 1 .. Len(s) + 1
    BY <1>2
  <2>4. Len(s) + 1 \in 1 .. Len(s) + 1
    BY <1>2
  <2> QED BY <1>1, <2>1, <2>2, <2>3, <2>4
<1> QED BY <1>1, <1>2, <1>3, <1>4

\* The last connection stored is in `order`.
LEMMA LastStored ==
  ASSUME TypeOK
  PROVE  /\ DOMAIN order = 1 .. Len(order) /\ Len(order) \in Nat
         /\ \A k \in DOMAIN order : order[k] \in Connections
         /\ order # <<>> => Len(order) \in DOMAIN order
BY LenProperties, EmptySeq, ElementOfSeq DEF TypeOK

\* The threads of connections keep the order of what is stored.
LEMMA OrderStep ==
  TypeOK /\ SenderOK /\ CurrentIsAlive /\ OrderInv /\ [Next]_vars => OrderInv'
<1> SUFFICES ASSUME TypeOK, SenderOK, CurrentIsAlive, OrderInv, [Next]_vars
             PROVE  OrderInv'
  OBVIOUS
<1> USE NullAssumption DEF Goes, senderVars, outcomes
<1>1. ASSUME NEW c \in Connections, StoreClient(c)
      PROVE  OrderInv'
  <2>1. /\ order' = Append(order, c) /\ thread[c] = "accepted" /\ thread'[c] = "serving"
        /\ current_client' = c /\ UNCHANGED senderVars
        /\ \A d \in Connections : d # c => thread'[d] = thread[d]
    BY <1>1 DEF StoreClient, TypeOK
  <2>2. /\ Len(order) \in Nat /\ order' # <<>> /\ order'[Len(order')] = c
        /\ DOMAIN order = 1 .. Len(order) /\ DOMAIN order' = 1 .. Len(order) + 1
        /\ \A k \in DOMAIN order : order'[k] = order[k]
        /\ order'[Len(order) + 1] = c
        /\ \A k \in DOMAIN order' : k \in DOMAIN order \/ k = Len(order) + 1
    <3>1. order \in Seq(Connections)
      BY DEF TypeOK
    <3> QED BY <2>1, <3>1, Appended
  <2>3. \A k \in DOMAIN order : order[k] \in Connections /\ order[k] # c
    BY <2>1, LastStored DEF OrderInv
  <2>4. \A j, k \in DOMAIN order' : order'[j] = order'[k] => j = k
    BY <2>2, <2>3 DEF OrderInv
  <2>5. \A k \in DOMAIN order' : thread'[order'[k]] \notin {"none", "accepted"}
    BY <2>1, <2>2, <2>3 DEF OrderInv
  <2>6. \A d \in Connections : thread'[d] \in {"none", "accepted"} =>
          d # c /\ thread[d] \in {"none", "accepted"}
    BY <2>1
  <2> QED BY <2>1, <2>2, <2>4, <2>5, <2>6 DEF OrderInv, Clean
<1>2. ASSUME NEW c \in Connections,
             Break(c) \/ Accept(c) \/ RecvFails(c) \/ ClearClient(c) \/ Destroy(c)
      PROVE  OrderInv'
  <2>1. UNCHANGED <<order, senderVars>> /\ current_client' \in {current_client, NULL}
    BY <1>2 DEF Break, Accept, RecvFails, ClearClient, Destroy
  <2>2. \A d \in Connections : thread'[d] \in {"none", "accepted"} =>
          thread[d] \in {"none", "accepted"}
    BY <1>2 DEF Break, Accept, RecvFails, ClearClient, Destroy, TypeOK
  <2>3. \A k \in DOMAIN order : order[k] \in Connections
    BY LastStored
  <2> QED BY <2>1, <2>2, <2>3 DEF OrderInv, Clean
<1>3. CASE LoadClient
  BY <1>3 DEF LoadClient, OrderInv, Clean
<1>4. ASSUME NEW c \in Connections, HasSocket(c), SendTo(c) , strayed \subseteq strayed',
             UNCHANGED <<thread, current_client, client, order>>,
             thread[c] \in {"none", "accepted"} => ~Clean(c)'
      PROVE  OrderInv'
  BY <1>4 DEF SendTo, OrderInv, Clean, TypeOK
<1>5. CASE Send
  <2>1. client \in Connections /\ HasSocket(client) /\ SendTo(client) /\ UNCHANGED strayed
    BY <1>5 DEF Send, TypeOK
  <2>2. thread[client] \notin {"none", "accepted"}
    BY <2>1 DEF OrderInv
  <2> QED BY <1>4, <1>5, <2>1, <2>2 DEF Send, Returns
<1>6. CASE SendToReusedStack
  <2>1. PICK c \in Connections : HasSocket(c) /\ SendTo(c) /\ strayed' = strayed \cup {c}
    BY <1>6 DEF SendToReusedStack
  <2> QED BY <1>4, <1>6, <2>1 DEF SendToReusedStack, Returns, Clean
<1>7. CASE SkipSend \/ SendFails \/ SendCrashes \/ UNCHANGED vars
  <2>1. UNCHANGED <<thread, current_client, client, order, received, strayed>>
    BY <1>7 DEF SkipSend, SendFails, SendCrashes, Returns, vars
  <2> QED BY <2>1 DEF OrderInv, Clean
<1> QED BY <1>1, <1>2, <1>3, <1>5, <1>6, <1>7 DEF Next, ClientThread, SendPacketDataTCP

\* What c has after packet p: it begins where it began, or with p.
LEMMA TriedNext ==
  ASSUME TypeOK, SenderOK, NEW c \in Connections, sender = "send", client = c,
         received[c] # <<>> => TriedUpTo(c, packet - 1),
         NEW s, s = received[c]
  PROVE  /\ packet \in Nat
         /\ s # <<>> => s[1] \in Nat /\ s[1] .. packet \subseteq Tried(c) \cup {packet}
<1>1. packet \in Nat /\ \A i \in DOMAIN received[c] : received[c][i] \in Nat
  BY MaxPacketsAssumption, ElementOfSeq, LenProperties DEF TypeOK
<1>2. ASSUME s # <<>>
      PROVE  s[1] \in Nat /\ s[1] .. packet \subseteq Tried(c) \cup {packet}
  <2>1. 1 \in DOMAIN s
    <3>1. s \in Seq(1 .. MaxPackets)
      BY DEF TypeOK
    <3>2. Len(s) \in Nat /\ Len(s) # 0 /\ DOMAIN s = 1 .. Len(s)
      BY <1>2, <3>1, EmptySeq, LenProperties
    <3> QED BY <3>2
  <2>2. s[1] \in Nat
    BY <1>1, <2>1
  <2>3. \A q \in s[1] .. packet : q \in s[1] .. packet - 1 \/ q = packet
    BY <1>1, <2>2
  <2> QED BY <1>2, <2>2, <2>3 DEF TriedUpTo
<1> QED BY <1>1, <1>2

\* A packet is tried on the client it was loaded for, and on no other.
LEMMA TurnStep ==
  TypeOK /\ SenderOK /\ CurrentIsAlive /\ OrderInv /\ TurnInv /\ [Next]_vars => TurnInv'
<1> SUFFICES ASSUME TypeOK, SenderOK, CurrentIsAlive, OrderInv, TurnInv, [Next]_vars
             PROVE  TurnInv'
  OBVIOUS
<1> USE NullAssumption DEF Goes, senderVars, outcomes
<1>0. packet \in Nat /\ \A c \in Connections : \A p \in ToSet(received[c]) : p \in Nat
  <2>1. \A c \in Connections : \A i \in DOMAIN received[c] : received[c][i] \in Nat
    BY MaxPacketsAssumption, ElementOfSeq, LenProperties DEF TypeOK
  <2> QED BY <2>1, MaxPacketsAssumption DEF TypeOK, ToSet
<1>1. ASSUME NEW c \in Connections, StoreClient(c)
      PROVE  TurnInv'
  <2>1. current_client' = c /\ UNCHANGED senderVars /\ (Clean(c) => received[c] = <<>>)
    BY <1>1 DEF StoreClient, OrderInv
  <2> QED BY <2>1 DEF TurnInv, Clean, TriedUpTo, Tried
<1>2. ASSUME NEW c \in Connections,
             Break(c) \/ Accept(c) \/ RecvFails(c) \/ ClearClient(c) \/ Destroy(c)
      PROVE  TurnInv'
  <2>1. UNCHANGED senderVars /\ current_client' \in {current_client, NULL}
    BY <1>2 DEF Break, Accept, RecvFails, ClearClient, Destroy
  <2> QED BY <2>1 DEF TurnInv, Clean, TriedUpTo, Tried
<1>3. CASE LoadClient
  <2>1. /\ packet' = packet + 1 /\ packet' - 1 = packet /\ packet < packet'
        /\ sender = "idle" /\ sender' = "send"
        /\ client' = current_client /\ UNCHANGED <<current_client, outcomes>>
    BY <1>0, <1>3 DEF LoadClient
  <2>2. \A p \in Nat : p <= packet => p <= packet' /\ p < packet'
    BY <1>0, <2>1
  <2> QED BY <1>0, <2>1, <2>2 DEF TurnInv, Clean, TriedUpTo, Tried
\* The worker is through with its packet, and c was not the client.
<1>4. ASSUME sender = "send", sender' \in {"idle", "crashed"},
             UNCHANGED <<current_client, packet>>,
             NEW c \in Connections, client # c,
             received'[c] = received[c], failed'[c] = failed[c], Clean(c)' => Clean(c)
      PROVE  Clean(c)' /\ received'[c] # <<>> =>
               /\ TriedUpTo(c, received[c][Len(received[c])])'
               /\ \A p \in ToSet(received'[c]) : p <= packet' /\ (sender' = "send" => p < packet')
               /\ sender' = "idle" /\ current_client' = c => TriedUpTo(c, packet)'
               /\ sender' = "send" /\ client' = c => TriedUpTo(c, packet - 1)'
               /\ sender' = "send" /\ current_client' = c => client' = c
  BY <1>4 DEF TurnInv, TriedUpTo, Tried
<1>5. CASE SkipSend
  BY <1>4, <1>5 DEF SkipSend, Returns, Clean, TurnInv
<1>6. CASE SendCrashes
  <2>1. \A c \in Connections : received'[c] = received[c] /\ failed'[c] = failed[c]
    BY <1>6 DEF SendCrashes
  <2> QED BY <1>6, <2>1 DEF SendCrashes, TurnInv, Clean, TriedUpTo, Tried
<1>7. CASE SendFails
  <2>1. /\ sender = "send" /\ client \in Connections /\ sender' = "idle"
        /\ UNCHANGED <<current_client, client, packet, received, strayed>>
        /\ failed' = [failed EXCEPT ![client] = @ \cup {packet}]
    BY <1>7 DEF SendFails, Returns, TypeOK
  <2>2. \A c \in Connections : failed'[c] = IF c = client THEN failed[c] \cup {packet}
                                                          ELSE failed[c]
    BY <2>1 DEF TypeOK
  <2> SUFFICES ASSUME NEW c \in Connections, Clean(c)', received'[c] # <<>>
               PROVE  /\ TriedUpTo(c, received[c][Len(received[c])])'
                      /\ \A p \in ToSet(received'[c]) : p <= packet'
                      /\ current_client' = c => TriedUpTo(c, packet)'
    BY <2>1 DEF TurnInv
  <2>3. CASE c = client
    <3>1. Clean(c) /\ received[c] # <<>> /\ Tried(c)' = Tried(c) \cup {packet}
      BY <2>1, <2>2, <2>3 DEF Clean, Tried
    <3>2. received[c][1] .. packet \subseteq Tried(c) \cup {packet}
      <4>1. received[c] # <<>> => TriedUpTo(c, packet - 1)
        BY <2>1, <2>3, <3>1 DEF TurnInv
      <4> QED BY <2>1, <2>3, <3>1, <4>1, TriedNext
    <3> QED BY <2>1, <3>1, <3>2 DEF TurnInv, TriedUpTo
  <2>4. CASE c # client
    BY <1>4, <2>1, <2>2, <2>4 DEF Clean
  <2> QED BY <2>3, <2>4
<1>8. CASE Send
  <2>1. /\ sender = "send" /\ client \in Connections /\ sender' = "idle"
        /\ UNCHANGED <<current_client, client, packet, failed, strayed>>
        /\ received' = [received EXCEPT ![client] = Append(@, packet)]
    BY <1>8 DEF Send, SendTo, Returns, TypeOK
  <2>2. \A c \in Connections : received'[c] = IF c = client THEN Append(received[c], packet)
                                                            ELSE received[c]
    BY <2>1 DEF TypeOK
  <2> SUFFICES ASSUME NEW c \in Connections, Clean(c)', received'[c] # <<>>
               PROVE  /\ TriedUpTo(c, received[c][Len(received[c])])'
                      /\ \A p \in ToSet(received'[c]) : p <= packet'
                      /\ current_client' = c => TriedUpTo(c, packet)'
    BY <2>1 DEF TurnInv
  <2>3. CASE c = client
    <3> DEFINE s == received[c]
               r == Append(s, packet)
    <3>1. /\ Len(s) \in Nat /\ ToSet(r) = ToSet(s) \cup {packet} /\ r[Len(r)] = packet
          /\ s = <<>> => r[1] = packet
          /\ s # <<>> => r[1] = s[1]
      <4>1. s \in Seq(1 .. MaxPackets) /\ packet \in 1 .. MaxPackets
        BY <2>1, MaxPacketsAssumption DEF TypeOK, SenderOK
      <4>2. s = <<>> => Len(s) = 0
        OBVIOUS
      <4>3. s # <<>> => Len(s) # 0
        BY <4>1, EmptySeq
      <4>4. /\ Len(r) = Len(s) + 1 /\ Len(s) \in Nat /\ ToSet(r) = ToSet(s) \cup {packet}
            /\ \A i \in 1 .. Len(s) : r[i] = s[i]
            /\ r[Len(s) + 1] = packet
        <5>1. PICK S : s \in Seq(S) /\ packet \in S
          BY <4>1
        <5> HIDE DEF s
        <5> QED BY <5>1, Appended
      <4> QED BY <4>2, <4>3, <4>4
    <3>2. received'[c] = r /\ Clean(c) /\ Tried(c)' = Tried(c) \cup {packet}
      BY <2>1, <2>2, <2>3, <3>1 DEF Clean, Tried
    <3>3. r[1] .. packet \subseteq Tried(c) \cup {packet}
      <4>1. s # <<>> => TriedUpTo(c, packet - 1)
        BY <2>1, <2>3, <3>2 DEF TurnInv
      <4>2. CASE s = <<>>
        BY <1>0, <3>1, <4>2
      <4>3. CASE s # <<>>
        BY <2>1, <2>3, <3>1, <4>1, <4>3, TriedNext
      <4> QED BY <4>2, <4>3
    <3>4. TriedUpTo(c, packet)' /\ TriedUpTo(c, received[c][Len(received[c])])'
      BY <2>1, <3>1, <3>2, <3>3 DEF TriedUpTo
    <3>5. \A p \in ToSet(s) : p <= packet
      <4>1. CASE s = <<>>
        BY <4>1 DEF ToSet
      <4>2. CASE s # <<>>
        BY <3>2, <4>2 DEF TurnInv
      <4> QED BY <4>1, <4>2
    <3> QED BY <1>0, <2>1, <3>1, <3>2, <3>4, <3>5
  <2>4. CASE c # client
    BY <1>4, <2>1, <2>2, <2>4 DEF Clean
  <2> QED BY <2>3, <2>4
<1>9. CASE SendToReusedStack
  <2>1. PICK d \in Connections : SendTo(d) /\ strayed' = strayed \cup {d}
    BY <1>9 DEF SendToReusedStack
  <2>2. /\ sender = "send" /\ client \in Connections /\ ~HasSocket(client) /\ sender' = "idle"
        /\ UNCHANGED <<current_client, client, packet, failed>>
        /\ received' = [received EXCEPT ![d] = Append(@, packet)]
    BY <1>9, <2>1 DEF SendToReusedStack, SendTo, Returns, TypeOK
  <2>3. current_client # client
    BY <2>2 DEF CurrentIsAlive, HasSocket
  <2> SUFFICES ASSUME NEW c \in Connections, Clean(c)', received'[c] # <<>>
               PROVE  /\ TriedUpTo(c, received[c][Len(received[c])])'
                      /\ \A p \in ToSet(received'[c]) : p <= packet'
                      /\ current_client' = c => TriedUpTo(c, packet)'
    BY <2>2 DEF TurnInv
  <2>4. c # d /\ Clean(c) /\ received'[c] = received[c]
    BY <2>1, <2>2 DEF Clean, TypeOK
  <2> QED BY <2>2, <2>3, <2>4 DEF TurnInv, TriedUpTo, Tried
<1>10. CASE UNCHANGED vars
  BY <1>10 DEF vars, TurnInv, Clean, TriedUpTo, Tried
<1> QED BY <1>1, <1>2, <1>3, <1>5, <1>6, <1>7, <1>8, <1>9, <1>10
        DEF Next, ClientThread, SendPacketDataTCP

\* What a newer client gets was loaded after all that an older one gets.
LEMMA NewerStep ==
  TypeOK /\ SenderOK /\ OrderInv /\ TurnInv /\ NewerInv /\ [Next]_vars => NewerInv'
<1> SUFFICES ASSUME TypeOK, SenderOK, OrderInv, TurnInv, NewerInv, [Next]_vars
             PROVE  NewerInv'
  OBVIOUS
<1> USE NullAssumption DEF Goes, senderVars, outcomes
<1>0. /\ packet \in Nat /\ Len(order) \in Nat /\ DOMAIN order = 1 .. Len(order)
      /\ \A k \in DOMAIN order : order[k] \in Connections
  BY LastStored, MaxPacketsAssumption DEF TypeOK
<1>1. ASSUME NEW c \in Connections, StoreClient(c)
      PROVE  NewerInv'
  <2>1. order' = Append(order, c) /\ UNCHANGED senderVars /\ (Clean(c) => received[c] = <<>>)
    BY <1>1 DEF StoreClient, OrderInv
  <2>2. /\ DOMAIN order' = 1 .. Len(order) + 1
        /\ \A k \in 1 .. Len(order) : order'[k] = order[k]
        /\ order'[Len(order) + 1] = c
    BY <2>1, Appended DEF TypeOK
  <2> SUFFICES ASSUME NEW j \in DOMAIN order', NEW k \in DOMAIN order', j < k,
                      Clean(order[j])', Clean(order[k])'
               PROVE  /\ \A p \in ToSet(received'[order'[j]]), q \in ToSet(received'[order'[k]]) :
                           p < q
                      /\ sender' = "send" /\ client' = order'[j] => received'[order'[k]] = <<>>
    BY DEF NewerInv
  <2>3. j \in 1 .. Len(order)
    BY <1>0, <2>2
  <2>4. CASE k \in 1 .. Len(order)
    BY <1>0, <2>1, <2>2, <2>3, <2>4 DEF NewerInv, Clean
  <2>5. CASE k = Len(order) + 1
    <3>1. received'[order'[k]] = <<>>
      BY <2>1, <2>2, <2>5 DEF Clean
    <3> QED BY <3>1 DEF ToSet
  <2> QED BY <1>0, <2>2, <2>4, <2>5
<1>2. ASSUME NEW c \in Connections,
             Break(c) \/ Accept(c) \/ RecvFails(c) \/ ClearClient(c) \/ Destroy(c)
      PROVE  NewerInv'
  <2>1. UNCHANGED <<order, senderVars>>
    BY <1>2 DEF Break, Accept, RecvFails, ClearClient, Destroy
  <2> QED BY <2>1 DEF NewerInv, Clean
<1>3. CASE LoadClient
  <2>1. client' = current_client /\ UNCHANGED <<order, outcomes>>
    BY <1>3 DEF LoadClient
  <2>2. \A j, k \in DOMAIN order : j < k => current_client # order[j]
    <3> SUFFICES ASSUME NEW j \in DOMAIN order, NEW k \in DOMAIN order, j < k,
                        current_client = order[j]
                 PROVE  FALSE
      OBVIOUS
    <3>1. order[j] = order[Len(order)] /\ order # <<>>
      BY <1>0 DEF OrderInv
    <3>2. j = Len(order)
      BY <3>1, LastStored DEF OrderInv
    <3> QED BY <1>0, <3>2
  <2> QED BY <2>1, <2>2 DEF NewerInv, Clean
<1>4. CASE Send
  <2>1. /\ sender = "send" /\ client \in Connections /\ sender' = "idle"
        /\ UNCHANGED <<order, packet, strayed>>
        /\ received' = [received EXCEPT ![client] = Append(@, packet)]
    BY <1>4 DEF Send, SendTo, Returns, TypeOK
  <2>2. \A c \in Connections : c # client => received'[c] = received[c]
    BY <2>1 DEF TypeOK
  <2>3. ToSet(received'[client]) = ToSet(received[client]) \cup {packet}
    <3>1. received'[client] = Append(received[client], packet)
      BY <2>1 DEF TypeOK
    <3>2. PICK S : received[client] \in Seq(S) /\ packet \in S
      BY <2>1, MaxPacketsAssumption DEF TypeOK, SenderOK
    <3> QED BY <3>1, <3>2, Appended
  <2> SUFFICES ASSUME NEW j \in DOMAIN order, NEW k \in DOMAIN order, j < k,
                      Clean(order[j]), Clean(order[k]),
                      NEW p \in ToSet(received'[order[j]]), NEW q \in ToSet(received'[order[k]])
               PROVE  p < q
    BY <2>1 DEF NewerInv, Clean
  <2>4. order[j] # order[k]
    BY <1>0 DEF OrderInv
  <2>5. CASE order[j] = client
    <3>1. q \in ToSet(received[order[k]]) /\ received[order[k]] = <<>>
      BY <1>0, <2>1, <2>2, <2>4, <2>5 DEF NewerInv
    <3> QED BY <3>1 DEF ToSet
  <2>6. CASE order[k] = client
    <3>1. p \in ToSet(received[order[j]])
      BY <1>0, <2>2, <2>4, <2>6
    <3>2. CASE q = packet
      <4>1. received[order[j]] # <<>>
        BY <3>1 DEF ToSet
      <4> QED BY <1>0, <2>1, <3>1, <3>2, <4>1 DEF TurnInv
    <3>3. CASE q \in ToSet(received[order[k]])
      BY <3>1, <3>3 DEF NewerInv
    <3> QED BY <2>3, <2>6, <3>2, <3>3
  <2>7. CASE order[j] # client /\ order[k] # client
    BY <1>0, <2>2, <2>7 DEF NewerInv
  <2> QED BY <2>5, <2>6, <2>7
<1>5. CASE SendToReusedStack
  <2>1. PICK d \in Connections : SendTo(d) /\ strayed' = strayed \cup {d}
    BY <1>5 DEF SendToReusedStack
  <2>2. sender' = "idle" /\ UNCHANGED order
        /\ \A c \in Connections : Clean(c)' => Clean(c) /\ received'[c] = received[c]
    BY <1>5, <2>1 DEF SendToReusedStack, SendTo, Returns, TypeOK, Clean
  <2> QED BY <1>0, <2>2 DEF NewerInv
<1>6. CASE SkipSend \/ SendFails \/ SendCrashes
  <2>1. UNCHANGED <<order, client, received, strayed>> /\ sender' # "send"
    BY <1>6 DEF SkipSend, SendFails, SendCrashes, Returns
  <2> QED BY <2>1 DEF NewerInv, Clean
<1>7. CASE UNCHANGED vars
  BY <1>7 DEF vars, NewerInv, Clean
<1> QED BY <1>1, <1>2, <1>3, <1>4, <1>5, <1>6, <1>7 DEF Next, ClientThread, SendPacketDataTCP

\* A client misses only what failed from its first packet to its last, and gets
\* none after a newer one has: for any number of connections and packets, with
\* sends that fail at any time.
THEOREM OneTurnEach == Spec => []OneTurn
<1>1. Init => TurnsInv
  <2> SUFFICES ASSUME Init PROVE TurnsInv OBVIOUS
  <2>1. DOMAIN order = {} /\ \A c \in Connections : received[c] = <<>>
    BY DEF Init
  <2> QED BY <2>1, NullAssumption DEF Init, TurnsInv, OrderInv, TurnInv, NewerInv
<1>2. TypeOK /\ SenderOK /\ CurrentIsAlive /\ TurnsInv /\ [Next]_vars => TurnsInv'
  BY OrderStep, TurnStep, NewerStep DEF TurnsInv
<1>3. TurnsInv => OneTurn
  BY DEF TurnsInv, TurnInv, NewerInv, OneTurn, Turn, TriedUpTo, Tried, Clean
<1>4. Init => TypeOK /\ SenderOK
  BY TypeInit
<1>5. (TypeOK /\ SenderOK) /\ [Next]_vars => (TypeOK /\ SenderOK)'
  BY TypeStep
<1> QED BY <1>1, <1>2, <1>3, <1>4, <1>5, CurrentStaysAlive, PTL DEF Spec
================================================================================
