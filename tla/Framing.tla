-------------------------------- MODULE Framing --------------------------------
(***************************************************************************)
(* Messages on a TCP connection: Send, Recv and RecvExact of               *)
(* Share/Simple/SimpleTCP.cpp, the same protocol in packet_monitor.py, and *)
(* the reader of tcp_inject_example.py.                                    *)
(*                                                                         *)
(* One direction of one connection.  A message goes out as a magic word,   *)
(* its length and its bytes, through as many calls of send as it takes,    *)
(* and is read back in as many calls of recv.  TCP keeps the bytes in      *)
(* order but not the calls apart, so the reader's idea of where a message  *)
(* starts rests on every byte before it.  A word holds WordSize bytes      *)
(* (4 in the code); Value gives the number it stands for.                  *)
(***************************************************************************)
EXTENDS Integers, Sequences, SequencesExt

CONSTANTS
  Byte,
  WordSize,
  TCP_MESSAGE_MAGIC,  \* a word
  Value,              \* the number each word encodes
  MAX_LENGTH,         \* longest message the checking readers accept
  Payloads,           \* messages the two programs send
  MaxMessages         \* bound: calls of Send

Word == [1..WordSize -> Byte]

ASSUME WordAssumption ==
  /\ WordSize \in Nat \ {0}
  /\ TCP_MESSAGE_MAGIC \in Word
  /\ Value \in [Word -> Nat]
ASSUME PayloadsAssumption ==
  /\ Payloads \subseteq Seq(Byte) \ {<<>>}
  /\ \A m \in Payloads : \E w \in Word : Value[w] = Len(m)
ASSUME BoundsAssumption == MAX_LENGTH \in Nat /\ MaxMessages \in Nat

\* "checking" is SimpleTCP.cpp and packet_monitor.py, "example" is
\* tcp_inject_example.py.
Readers == {"checking", "example"}

NoMessage == <<>>

VARIABLES
  conn,            \* "up", "closed" by the sender, or "reset"
  message,         \* what Send is sending
  total_sent,
  calls,           \* calls of Send so far
  written,         \* every byte the connection took, first to last
  torn,            \* history: Send failed inside a frame, the connection did not
  sent,            \* history: messages Send returned true for
  ends,            \* history: how much was written when each of them was
  reader,
  phase,           \* field of the frame being read, or how reading ended
  start,           \* where that field starts in written
  total_received,  \* how much of it was read
  length,          \* the length field, once read
  received         \* history: messages Recv returned

senderVars == <<message, total_sent, calls, written, torn, sent, ends>>
readerVars == <<reader, phase, start, total_received, length, received>>
vars == <<conn, senderVars, readerVars>>

Init ==
  /\ conn = "up"
  /\ message = NoMessage
  /\ total_sent = 0
  /\ calls = 0
  /\ written = <<>>
  /\ torn = FALSE
  /\ sent = <<>>
  /\ ends = <<>>
  /\ reader \in Readers
  /\ phase = "magic"
  /\ start = 0
  /\ total_received = 0
  /\ length = 0
  /\ received = <<>>

--------------------------------------------------------------------------------
(* Send *)

Encoded(n) == CHOOSE w \in Word : Value[w] = n

FrameLength(m) == 2 * WordSize + Len(m)

Frame(m) == TCP_MESSAGE_MAGIC \o Encoded(Len(m)) \o m

Send(m) ==
  /\ conn = "up"
  /\ message = NoMessage
  /\ calls < MaxMessages
  /\ message' = m
  /\ total_sent' = 0
  /\ calls' = calls + 1
  /\ UNCHANGED <<conn, written, torn, sent, ends, readerVars>>

\* Mutant: what send took is taken to be everything.
SendOnce(n) ==
  /\ conn = "up"
  /\ message # NoMessage
  /\ n <= FrameLength(message)
  /\ written' = written \o SubSeq(Frame(message), 1, n)
  /\ sent' = Append(sent, message)
  /\ ends' = Append(ends, Len(written'))
  /\ message' = NoMessage
  /\ total_sent' = 0
  /\ UNCHANGED <<conn, calls, torn, readerVars>>

\* One call of send takes n bytes more; the last one ends Send.
SendSome(n) ==
  /\ conn = "up"
  /\ message # NoMessage
  /\ total_sent + n <= FrameLength(message)
  /\ written' = written \o SubSeq(Frame(message), total_sent + 1, total_sent + n)
  /\ IF total_sent + n = FrameLength(message)
       THEN /\ sent' = Append(sent, message)
            /\ ends' = Append(ends, Len(written'))
            /\ message' = NoMessage
            /\ total_sent' = 0
       ELSE /\ total_sent' = total_sent + n
            /\ UNCHANGED <<sent, ends, message>>
  /\ UNCHANGED <<conn, calls, torn, readerVars>>

\* send fails and the connection survives: Send gives up, and whatever the
\* caller sends next follows the bytes already out.
SendFails ==
  /\ conn = "up"
  /\ message # NoMessage
  /\ torn' = (torn \/ total_sent > 0)
  /\ message' = NoMessage
  /\ total_sent' = 0
  /\ UNCHANGED <<conn, calls, written, sent, ends, readerVars>>

\* The sending program closes the connection or exits, perhaps inside Send.
Close ==
  /\ conn = "up"
  /\ conn' = "closed"
  /\ UNCHANGED <<senderVars, readerVars>>

\* The connection fails, and bytes not read yet are lost.
Reset ==
  /\ conn # "reset"
  /\ conn' = "reset"
  /\ UNCHANGED <<senderVars, readerVars>>

--------------------------------------------------------------------------------
(* Recv *)

Reading == phase \in {"magic", "length", "data"}

\* What RecvExact was asked for.
Wanted == IF phase = "data" THEN length ELSE WordSize

Field == SubSeq(written, start + 1, start + Wanted)

NextField(p) ==
  /\ phase' = p
  /\ start' = start + Wanted
  /\ total_received' = 0

Stops(how) ==
  /\ phase' = how
  /\ UNCHANGED <<start, total_received, length, received>>

\* The example looks at the magic word only when it has the length too.
MagicIn ==
  IF reader = "checking" /\ Field # TCP_MESSAGE_MAGIC
    THEN Stops("ended")
    ELSE NextField("length") /\ UNCHANGED <<length, received>>

MagicBefore == SubSeq(written, start - WordSize + 1, start)

\* Mutant: the empty message is not refused.
AcceptableEmpty(n) == reader = "checking" => n <= MAX_LENGTH

\* Mutant: the limit itself is refused.
AcceptableBelow(n) == n > 0 /\ (reader = "checking" => n < MAX_LENGTH)

Acceptable(n) == n > 0 /\ (reader = "checking" => n <= MAX_LENGTH)

LengthIn ==
  IF ~Acceptable(Value[Field]) \/ (reader = "example" /\ MagicBefore # TCP_MESSAGE_MAGIC)
    THEN Stops("ended")
    ELSE NextField("data") /\ length' = Value[Field] /\ UNCHANGED received

DataIn ==
  /\ NextField("magic")
  /\ received' = Append(received, Field)
  /\ UNCHANGED length

\* Mutant: MSG_WAITALL is trusted, and a short read passes for the whole.
RecvOnce(n) ==
  /\ Reading
  /\ conn # "reset"
  /\ phase = "data" \/ n = Wanted
  /\ n <= Wanted /\ start + n <= Len(written)
  /\ IF phase = "data"
       THEN /\ phase' = "magic"
            /\ start' = start + n
            /\ received' = Append(received, SubSeq(written, start + 1, start + n))
            /\ UNCHANGED <<total_received, length>>
       ELSE IF phase = "magic" THEN MagicIn ELSE LengthIn
  /\ UNCHANGED <<conn, senderVars, reader>>

\* One call of recv returns n bytes more; the last one of a field ends
\* RecvExact, and what follows up to the next call of recv is local.
RecvSome(n) ==
  /\ Reading
  /\ conn # "reset"
  /\ total_received + n <= Wanted
  /\ start + total_received + n <= Len(written)
  /\ IF total_received + n < Wanted
       THEN /\ total_received' = total_received + n
            /\ UNCHANGED <<phase, start, length, received>>
       ELSE \/ phase = "magic" /\ MagicIn
            \/ phase = "length" /\ LengthIn
            \/ phase = "data" /\ DataIn
  /\ UNCHANGED <<conn, senderVars, reader>>

\* recv returns 0 when the sender has closed and all was read, or an error.
RecvFails ==
  /\ Reading
  /\ \/ conn = "reset"
     \/ conn = "closed" /\ start + total_received = Len(written)
  /\ Stops("ended")
  /\ UNCHANGED <<conn, senderVars, reader>>

\* Mutant: the example goes on after a time-out, as if nothing had been read.
TimeOutAndGoOn ==
  /\ Reading
  /\ reader = "example"
  /\ phase' = "magic"
  /\ start' = start + total_received
  /\ total_received' = 0
  /\ UNCHANGED <<conn, senderVars, reader, length, received>>

\* recv_message of the example returns None, which ends its main loop.
TimeOut ==
  /\ Reading
  /\ reader = "example"
  /\ Stops("expired")
  /\ UNCHANGED <<conn, senderVars, reader>>

--------------------------------------------------------------------------------
Longest == 2 * WordSize + MAX_LENGTH

RecvAny == \E n \in 1..Longest : RecvSome(n)

Next ==
  \/ \E m \in Payloads : Send(m)
  \/ \E n \in 1..Longest : SendSome(n)
  \/ SendFails
  \/ Close
  \/ Reset
  \/ RecvAny
  \/ RecvFails
  \/ TimeOut

Spec == Init /\ [][Next]_vars

\* A thread that sits in recv goes on when there is something to return.
FairSpec == Spec /\ WF_vars(RecvAny) /\ WF_vars(RecvFails)

--------------------------------------------------------------------------------
(* Properties *)

\* The type of every variable; neither loop asks for no bytes.
TypeOK ==
  /\ conn \in {"up", "closed", "reset"}
  /\ message \in Payloads \cup {NoMessage}
  /\ total_sent \in Nat
  /\ total_sent < FrameLength(message)
  /\ message = NoMessage => total_sent = 0
  /\ calls \in Nat
  /\ calls <= MaxMessages
  /\ written \in Seq(Byte)
  /\ torn \in BOOLEAN
  /\ sent \in Seq(Payloads)
  /\ ends \in Seq(Nat)
  /\ reader \in Readers
  /\ phase \in {"magic", "length", "data", "ended", "expired"}
  /\ start \in Nat
  /\ total_received \in Nat
  /\ length \in Nat
  /\ received \in Seq(Seq(Byte))
  /\ Reading => total_received < Wanted

\* However TCP cuts and joins the bytes, whatever the messages contain (one of
\* them looks like the start of a frame) and wherever the connection ends, Recv
\* returns the messages of Send, whole, in order and from the first on.  Only a
\* Send that failed inside a frame can spoil it.
Faithful == ~torn => IsPrefix(received, sent)

\* Nobody stops reading while there is something to read, except for a reset, a
\* time-out or a message above the limit: the sender does not check the limit,
\* the reader ends the connection for it.
NothingLeftBehind ==
  ~torn /\ conn # "reset" /\ phase = "ended" =>
    \/ received = sent
    \/ /\ reader = "checking"
       /\ Len(sent[Len(received) + 1]) > MAX_LENGTH

\* The bytes of a direction implement a channel of messages as long as no Send
\* failed inside a frame.
Channel == INSTANCE MessageChannel WITH Messages <- Payloads, reading <- Reading
ImplementsChannel == Channel!Init /\ [][Channel!Next \/ torn']_(Channel!vars)

\* What was sent whole arrives, unless the reader stopped or the stream is torn:
\* the loops of RecvExact never ask for bytes that will not come.
Arrives ==
  \A k \in 1..MaxMessages :
    Len(sent) >= k ~> (Len(received) >= k \/ ~Reading \/ torn)
================================================================================
