----------------------------- MODULE FramingProofs ------------------------------
(***************************************************************************)
(* Proofs about Framing: both ends agree on where a message starts, so     *)
(* what Recv returns is what Send was given.                               *)
(***************************************************************************)
EXTENDS Framing, SequenceTheorems, TLAPS

\* How much of the connection the first k messages took.
EndOf(k) == IF k = 0 THEN 0 ELSE ends[k]

\* The message the reader is inside, or will read next.
NextMessage == IF Len(received) < Len(sent) THEN sent[Len(received) + 1] ELSE message

Offset == EndOf(Len(received))

\* The connection holds the frames of the messages sent, one after the other,
\* and then the beginning of the frame being sent.
Whole(k) ==
  /\ ends[k] = EndOf(k - 1) + FrameLength(sent[k])
  /\ ends[k] <= Len(written)
  /\ \A i \in 1..FrameLength(sent[k]) : written[EndOf(k - 1) + i] = Frame(sent[k])[i]

Layout ==
  /\ Len(ends) = Len(sent)
  /\ \A k \in 1..Len(sent) : Whole(k)
  /\ Len(written) = EndOf(Len(sent)) + total_sent
  /\ \A i \in 1..total_sent : written[EndOf(Len(sent)) + i] = Frame(message)[i]

\* The reader is in the frame of the next message, in the field it thinks.
Agreement ==
  /\ Len(received) <= Len(sent)
  /\ \A k \in 1..Len(received) : received[k] = sent[k]
  /\ phase = "magic" => start = Offset
  /\ phase = "length" => start = Offset + WordSize
  /\ phase = "data" => start = Offset + 2 * WordSize /\ length = Len(NextMessage)
  /\ Reading => start + total_received <= Len(written)

\* Why the reader may have stopped.
Cause ==
  phase = "ended" /\ conn # "reset" =>
    \/ conn # "up" /\ received = sent
    \/ /\ reader = "checking"
       /\ Len(NextMessage) > MAX_LENGTH
       /\ Offset + 2 * WordSize <= Len(written)

IInv == TypeOK /\ (~torn => Layout /\ Agreement /\ Cause)

--------------------------------------------------------------------------------
(* Frames *)

\* A word for a length that some message has.
LEMMA EncodedIsWord ==
  ASSUME NEW m \in Payloads
  PROVE  Encoded(Len(m)) \in Word /\ Value[Encoded(Len(m))] = Len(m)
BY PayloadsAssumption DEF Encoded

\* A word is a sequence of WordSize bytes.
LEMMA WordIsSeq ==
  ASSUME NEW w \in Word
  PROVE  w \in Seq(Byte) /\ Len(w) = WordSize
BY WordAssumption DEF Word

\* What the bytes of a frame are.
LEMMA FrameBytes ==
  ASSUME NEW m \in Payloads
  PROVE  /\ Frame(m) \in Seq(Byte)
         /\ Len(Frame(m)) = FrameLength(m) /\ FrameLength(m) \in Nat \ {0}
         /\ m \in Seq(Byte) /\ Len(m) \in Nat \ {0}
         /\ \A i \in 1..WordSize : Frame(m)[i] = TCP_MESSAGE_MAGIC[i]
         /\ \A i \in 1..WordSize : Frame(m)[WordSize + i] = Encoded(Len(m))[i]
         /\ \A i \in 1..Len(m) : Frame(m)[2 * WordSize + i] = m[i]
<1> DEFINE a == TCP_MESSAGE_MAGIC  b == Encoded(Len(m))
<1>1. a \in Seq(Byte) /\ Len(a) = WordSize /\ b \in Seq(Byte) /\ Len(b) = WordSize
  BY EncodedIsWord, WordIsSeq, WordAssumption
<1>2. m \in Seq(Byte) /\ Len(m) \in Nat \ {0}
  BY PayloadsAssumption, EmptySeq, LenProperties
<1> HIDE DEF a, b
<1>3. /\ a \o b \in Seq(Byte) /\ Len(a \o b) = 2 * WordSize
      /\ \A i \in 1..(2 * WordSize) : (a \o b)[i] = IF i <= WordSize THEN a[i] ELSE b[i - WordSize]
  <2>1. Len(a) + Len(b) = 2 * WordSize
    BY <1>1, WordAssumption
  <2>2. /\ a \o b \in Seq(Byte) /\ Len(a \o b) = Len(a) + Len(b)
        /\ \A i \in 1..(Len(a) + Len(b)) :
             (a \o b)[i] = IF i <= Len(a) THEN a[i] ELSE b[i - Len(a)]
    BY <1>1, ConcatProperties, Zenon
  <2> QED
    BY <1>1, <2>1, <2>2
<1>4. /\ (a \o b) \o m \in Seq(Byte)
      /\ Len((a \o b) \o m) = 2 * WordSize + Len(m)
      /\ \A i \in 1..(2 * WordSize + Len(m)) :
           ((a \o b) \o m)[i] = IF i <= 2 * WordSize THEN (a \o b)[i] ELSE m[i - 2 * WordSize]
  BY <1>2, <1>3, ConcatProperties
<1>5. Frame(m) = (a \o b) \o m
  BY DEF Frame, a, b
<1>6. \A i \in 1..WordSize : Frame(m)[i] = a[i] /\ Frame(m)[WordSize + i] = b[i]
  BY <1>2, <1>3, <1>4, <1>5, WordAssumption
<1>7. \A i \in 1..Len(m) : Frame(m)[2 * WordSize + i] = m[i]
  BY <1>2, <1>4, <1>5, WordAssumption
<1>8. Frame(m) \in Seq(Byte) /\ Len(Frame(m)) = FrameLength(m)
  BY <1>4, <1>5 DEF FrameLength
<1>9. FrameLength(m) \in Nat \ {0}
  BY <1>2, WordAssumption DEF FrameLength
<1> QED
  BY <1>2, <1>6, <1>7, <1>8, <1>9 DEF a, b

\* A word is its bytes.
LEMMA WordsEqual ==
  ASSUME NEW v, NEW w \in Word, v \in Seq(Byte), Len(v) = WordSize,
         \A i \in 1..WordSize : v[i] = w[i]
  PROVE  v = w
BY SeqEqual, WordIsSeq

\* What a field of the stream is.
LEMMA FieldBytes ==
  ASSUME TypeOK, NEW a \in Nat, NEW n \in Nat, a + n <= Len(written)
  PROVE  /\ SubSeq(written, a + 1, a + n) \in Seq(Byte)
         /\ Len(SubSeq(written, a + 1, a + n)) = n
         /\ \A i \in 1..n : SubSeq(written, a + 1, a + n)[i] = written[a + i]
<1>1. written \in Seq(Byte) /\ Len(written) \in Nat
  BY LenProperties DEF TypeOK
<1>2. \A i \in (a + 1)..(a + n) : i \in 1..Len(written)
  BY <1>1
<1> QED
  BY <1>1, <1>2, SubSeqProperties

--------------------------------------------------------------------------------
(* Types *)

LEMMA Types ==
  ASSUME TypeOK
  PROVE  /\ written \in Seq(Byte) /\ Len(written) \in Nat
         /\ sent \in Seq(Payloads) /\ Len(sent) \in Nat
         /\ ends \in Seq(Nat) /\ Len(ends) \in Nat
         /\ received \in Seq(Seq(Byte)) /\ Len(received) \in Nat
         /\ Len(message) \in Nat /\ FrameLength(message) \in Nat
         /\ message # NoMessage => message \in Payloads
         /\ Wanted \in Nat
         /\ total_sent \in Nat /\ total_sent < FrameLength(message)
         /\ start \in Nat /\ total_received \in Nat /\ length \in Nat
<1>1. Len(message) \in Nat
  <2>1. Len(<<>>) = 0
    BY EmptySeq
  <2> QED
    BY <2>1, FrameBytes DEF TypeOK, NoMessage
<1>2. FrameLength(message) \in Nat
  BY <1>1, WordAssumption DEF FrameLength
<1>3. Wanted \in Nat
  <2>1. length \in Nat
    BY DEF TypeOK
  <2> QED
    BY <2>1, WordAssumption DEF Wanted
<1> QED
  BY <1>1, <1>2, <1>3, LenProperties DEF TypeOK

LEMMA InitTypeOK == Init => TypeOK
<1> SUFFICES ASSUME Init PROVE TypeOK
  OBVIOUS
<1>1. FrameLength(NoMessage) = 2 * WordSize
  BY EmptySeq, WordAssumption DEF FrameLength, NoMessage
<1>2. total_sent \in Nat /\ total_sent < FrameLength(message)
  BY <1>1, WordAssumption DEF Init
<1>3. /\ written \in Seq(Byte) /\ sent \in Seq(Payloads) /\ ends \in Seq(Nat)
      /\ received \in Seq(Seq(Byte))
  BY EmptySeq DEF Init
<1>4. total_received < Wanted
  BY WordAssumption DEF Init, Wanted
<1>5. calls \in Nat /\ calls <= MaxMessages
  BY BoundsAssumption DEF Init
<1> QED
  BY <1>2, <1>3, <1>4, <1>5 DEF Init, TypeOK, Readers

LEMMA TypeOKStep == TypeOK /\ [Next]_vars => TypeOK'
<1> SUFFICES ASSUME TypeOK, [Next]_vars PROVE TypeOK'
  OBVIOUS
<1> USE Types
<1>0. FrameLength(NoMessage) = 2 * WordSize
  BY EmptySeq, WordAssumption DEF FrameLength, NoMessage
<1>1. ASSUME NEW m \in Payloads, Send(m) PROVE TypeOK'
  <2>1. total_sent' \in Nat /\ total_sent' < FrameLength(message')
    BY <1>1, FrameBytes, WordAssumption DEF Send, FrameLength
  <2>2. calls' \in Nat /\ calls' <= MaxMessages
    BY <1>1, BoundsAssumption DEF Send, TypeOK
  <2> QED
    BY <1>1, <2>1, <2>2 DEF Send, TypeOK, readerVars, Reading, Wanted
<1>2. ASSUME NEW n \in 1..Longest, SendSome(n) PROVE TypeOK'
  <2>1. message \in Payloads
    BY <1>2 DEF SendSome, TypeOK
  <2>2. n \in Nat /\ total_sent + n <= FrameLength(message)
    BY <1>2 DEF SendSome
  <2>3. SubSeq(Frame(message), total_sent + 1, total_sent + n) \in Seq(Byte)
    <3>1. \A i \in (total_sent + 1)..(total_sent + n) : Frame(message)[i] \in Byte
      BY <2>1, <2>2, FrameBytes, ElementOfSeq DEF TypeOK
    <3> QED
      BY <2>2, <3>1, SubSeqProperties DEF TypeOK
  <2>4. written' \in Seq(Byte)
    BY <1>2, <2>3, ConcatProperties DEF SendSome, TypeOK
  <2>5. total_sent' \in Nat /\ total_sent' < FrameLength(message') /\ (message' = NoMessage => total_sent' = 0)
    <3>1. CASE total_sent + n = FrameLength(message)
      BY <1>2, <3>1, <1>0, WordAssumption DEF SendSome
    <3>2. CASE total_sent + n # FrameLength(message)
      <4>1. message' = message /\ message # NoMessage /\ total_sent' = total_sent + n
        BY <1>2, <3>2 DEF SendSome
      <4> QED
        BY <2>2, <3>2, <4>1
    <3> QED
      BY <3>1, <3>2
  <2>6. sent' \in Seq(Payloads) /\ ends' \in Seq(Nat)
    <3>1. Len(written') \in Nat
      BY <2>4, LenProperties
    <3>2. Append(sent, message) \in Seq(Payloads) /\ Append(ends, Len(written')) \in Seq(Nat)
      BY <2>1, <3>1, AppendProperties
    <3> QED
      BY <1>2, <3>2 DEF SendSome
  <2> QED
    BY <1>2, <2>4, <2>5, <2>6 DEF SendSome, TypeOK, readerVars, Reading, Wanted
<1>3. CASE SendFails
  <2>1. total_sent' \in Nat /\ total_sent' < FrameLength(message')
    BY <1>3, <1>0, WordAssumption DEF SendFails
  <2> QED
    BY <1>3, <2>1 DEF SendFails, TypeOK, readerVars, Reading, Wanted
<1>4. ASSUME NEW n \in 1..Longest, RecvSome(n) PROVE TypeOK'
  <2>1. UNCHANGED senderVars /\ conn' = conn /\ reader' = reader
    BY <1>4 DEF RecvSome
  <2>2. n \in Nat \ {0} /\ total_received + n <= Wanted
    BY <1>4 DEF RecvSome
  <2>3. /\ phase' \in {"magic", "length", "data", "ended", "expired"}
        /\ start' \in Nat /\ total_received' \in Nat /\ length' \in Nat
        /\ received' \in Seq(Seq(Byte))
        /\ Reading' => total_received' < Wanted'
    <3>1. CASE total_received + n < Wanted
      <4>1. total_received' = total_received + n /\ UNCHANGED <<phase, start, length, received>>
        BY <1>4, <3>1 DEF RecvSome
      <4>2. Wanted' = Wanted /\ total_received' \in Nat
        BY <2>2, <4>1 DEF Wanted
      <4>3. total_received' < Wanted'
        BY <3>1, <4>1, <4>2
      <4> QED
        BY <4>1, <4>2, <4>3 DEF TypeOK
    <3>2. CASE total_received + n = Wanted
      <4>1. Field \in Seq(Byte) /\ Len(Field) = Wanted
        <5>1. start + Wanted <= Len(written)
          BY <1>4, <2>2, <3>2 DEF RecvSome, TypeOK
        <5> QED
          BY <5>1, FieldBytes DEF Field, TypeOK
      <4>2. CASE phase = "magic"
        <5>1. MagicIn
          BY <1>4, <3>2, <4>2, <2>2 DEF RecvSome
        <5> HIDE Types
        <5>2. \/ Stops("ended")
              \/ NextField("length") /\ UNCHANGED <<length, received>>
          BY <5>1 DEF MagicIn
        <5>3. start + Wanted \in Nat
          BY Types
        <5>4. CASE Stops("ended")
          BY <5>4 DEF Stops, TypeOK, Reading
        <5>5. CASE NextField("length") /\ UNCHANGED <<length, received>>
          BY <5>3, <5>5, WordAssumption DEF NextField, TypeOK, Wanted
        <5> QED
          BY <5>2, <5>4, <5>5
      <4>3. CASE phase = "length"
        <5>1. Field \in Word
          BY <4>1, <4>3, LenProperties DEF Word, Wanted
        <5>2. Value[Field] \in Nat
          BY <5>1, WordAssumption
        <5>3. LengthIn
          BY <1>4, <3>2, <4>3, <2>2 DEF RecvSome
        <5> HIDE Types
        <5>4. start + Wanted \in Nat
          BY Types
        <5>5. \/ Stops("ended")
              \/ /\ Acceptable(Value[Field])
                 /\ NextField("data") /\ length' = Value[Field] /\ UNCHANGED received
          BY <5>3 DEF LengthIn
        <5>6. CASE Stops("ended")
          BY <5>6 DEF Stops, TypeOK, Reading
        <5>7. CASE /\ Acceptable(Value[Field])
                   /\ NextField("data") /\ length' = Value[Field] /\ UNCHANGED received
          BY <5>2, <5>4, <5>7 DEF NextField, Acceptable, TypeOK, Wanted
        <5> QED
          BY <5>5, <5>6, <5>7
      <4>4. CASE phase = "data"
        <5>1. DataIn
          BY <1>4, <3>2, <4>4, <2>2 DEF RecvSome
        <5>2. received' \in Seq(Seq(Byte))
          BY <4>1, <5>1, AppendProperties DEF DataIn, TypeOK
        <5> HIDE Types
        <5>3. start + Wanted \in Nat
          BY Types
        <5> QED
          BY <5>1, <5>2, <5>3, WordAssumption DEF DataIn, NextField, TypeOK, Wanted
      <4> QED
        BY <1>4, <4>2, <4>3, <4>4 DEF RecvSome, Reading
    <3>3. total_received + n < Wanted \/ total_received + n = Wanted
      <4>1. n \in Nat /\ total_received \in Nat /\ Wanted \in Nat
        BY <2>2, Types
      <4> QED
        BY <2>2, <4>1
    <3> QED
      BY <3>1, <3>2, <3>3
  <2> QED
    BY <2>1, <2>3 DEF senderVars, TypeOK
<1>5. CASE Close \/ Reset
  BY <1>5 DEF Close, Reset, TypeOK, senderVars, readerVars, Reading, Wanted
<1>6. CASE RecvFails \/ TimeOut
  BY <1>6 DEF RecvFails, TimeOut, Stops, TypeOK, senderVars, Reading, Wanted
<1>7. CASE UNCHANGED vars
  BY <1>7 DEF vars, TypeOK, senderVars, readerVars, Reading, Wanted
<1> QED
  BY <1>1, <1>2, <1>3, <1>4, <1>5, <1>6, <1>7 DEF Next, RecvAny

--------------------------------------------------------------------------------
(* Agreement *)

\* From where the reader's frame begins, the stream reads as the next message's
\* frame, all of it when that message was sent whole.
LEMMA NextFrame ==
  ASSUME TypeOK, Layout, Len(received) <= Len(sent)
  PROVE  /\ Offset \in Nat /\ Offset <= Len(written)
         /\ Offset < Len(written) => NextMessage \in Payloads
         /\ \A j \in 1..(Len(written) - Offset) :
              j <= FrameLength(NextMessage) => written[Offset + j] = Frame(NextMessage)[j]
         /\ Len(received) = Len(sent) =>
              Len(written) = Offset + total_sent /\ NextMessage = message
         /\ Len(received) < Len(sent) =>
              /\ NextMessage \in Payloads
              /\ ends[Len(received) + 1] = Offset + FrameLength(NextMessage)
              /\ ends[Len(received) + 1] <= Len(written)
<1> USE Types
<1>0. total_sent \in Nat
  BY DEF TypeOK
<1>1. Offset \in Nat
  BY ElementOfSeq DEF Offset, EndOf, Layout
<1>2. CASE Len(received) = Len(sent)
  <2>1. Len(written) = Offset + total_sent /\ NextMessage = message
    BY <1>2 DEF Layout, Offset, NextMessage
  <2>2. total_sent > 0 => message \in Payloads
    BY <1>0 DEF TypeOK
  <2>3. \A i \in 1..total_sent : written[Offset + i] = Frame(message)[i]
    BY <1>2 DEF Layout, Offset
  <2> QED
    BY <1>0, <1>1, <1>2, <2>1, <2>2, <2>3
<1>3. CASE Len(received) < Len(sent)
  <2> DEFINE k == Len(received) + 1
  <2>1. k \in 1..Len(sent) /\ NextMessage = sent[k] /\ EndOf(k - 1) = Offset
    BY <1>3 DEF NextMessage, Offset
  <2>2. NextMessage \in Payloads
    BY <2>1, ElementOfSeq
  <2>3. Whole(k)
    BY <2>1 DEF Layout
  <2> HIDE DEF k
  <2>4. /\ ends[k] = Offset + FrameLength(NextMessage) /\ ends[k] <= Len(written)
        /\ \A i \in 1..FrameLength(NextMessage) : written[Offset + i] = Frame(NextMessage)[i]
    BY <2>1, <2>3 DEF Whole
  <2>5. FrameLength(NextMessage) \in Nat \ {0}
    BY <2>2, FrameBytes, WordAssumption DEF FrameLength
  <2>6. Offset <= Len(written)
    BY <1>1, <2>4, <2>5
  <2>7. \A j \in 1..(Len(written) - Offset) :
          j <= FrameLength(NextMessage) => written[Offset + j] = Frame(NextMessage)[j]
    BY <1>1, <2>4, <2>5, <2>6
  <2>8. k = Len(received) + 1
    BY DEF k
  <2> QED
    BY <1>1, <1>3, <2>2, <2>4, <2>6, <2>7, <2>8
<1>4. Len(received) = Len(sent) \/ Len(received) < Len(sent)
  OBVIOUS
<1> QED
  BY <1>2, <1>3, <1>4

\* With nothing of a message out, a reader inside a frame is inside one that
\* was sent whole.
LEMMA InsideWhole ==
  ASSUME TypeOK, Layout, Len(received) <= Len(sent), total_sent = 0, Offset < Len(written)
  PROVE  Len(received) < Len(sent)
BY NextFrame, Types

\* What of Layout, Agreement and Cause does not depend on the message.
LEMMA SameStream ==
  ASSUME TypeOK, Layout, Agreement, Cause, total_sent = 0, total_sent' = 0,
         UNCHANGED <<conn, written, sent, ends, readerVars>>
  PROVE  Layout' /\ Agreement' /\ Cause'
<1> USE Types
<1>1. Layout'
  BY DEF Layout, Whole, EndOf
<1>2. Offset' = Offset
  BY DEF Offset, EndOf, readerVars
<1>3. Offset < Len(written) => NextMessage' = NextMessage
  BY InsideWhole DEF Agreement, NextMessage, readerVars
<1>4. Offset \in Nat
  BY NextFrame DEF Agreement
<1>5. Agreement'
  <2>1. phase = "data" => Offset < Len(written)
    BY <1>4, WordAssumption DEF Agreement, Reading
  <2> QED
    BY <1>2, <1>3, <2>1 DEF Agreement, Reading, readerVars
<1>6. Cause'
  <2>1. Offset + 2 * WordSize <= Len(written) => Offset < Len(written)
    BY <1>4, WordAssumption
  <2> QED
    BY <1>2, <1>3, <2>1 DEF Cause, readerVars
<1> QED
  BY <1>1, <1>5, <1>6

LEMMA InitIInv == Init => IInv
<1> SUFFICES ASSUME Init PROVE IInv
  OBVIOUS
<1>1. Len(sent) = 0 /\ Len(ends) = 0 /\ Len(received) = 0 /\ Len(written) = 0
  BY EmptySeq DEF Init
<1>2. Layout
  BY <1>1 DEF Init, Layout, EndOf
<1>3. Agreement
  BY <1>1 DEF Init, Agreement, Offset, EndOf
<1> QED
  BY <1>2, <1>3, InitTypeOK DEF Init, IInv, Cause

\* Send's next bytes continue the frame, and the last ones finish it.
LEMMA SendSomeStep ==
  ASSUME IInv, ~torn, NEW n \in 1..Longest, SendSome(n)
  PROVE  Layout' /\ Agreement' /\ Cause'
<1>a. TypeOK /\ Layout /\ Agreement /\ Cause
  BY DEF IInv
<1>0. /\ written \in Seq(Byte) /\ Len(written) \in Nat
      /\ sent \in Seq(Payloads) /\ Len(sent) \in Nat
      /\ ends \in Seq(Nat) /\ Len(ends) \in Nat
      /\ Len(received) \in Nat /\ FrameLength(message) \in Nat /\ Wanted \in Nat
      /\ total_sent \in Nat /\ start \in Nat /\ total_received \in Nat
  BY <1>a, Types
<1> DEFINE more == SubSeq(Frame(message), total_sent + 1, total_sent + n)
<1>1. message \in Payloads /\ n \in Nat \ {0} /\ total_sent + n <= FrameLength(message)
  BY <1>0, <1>a, Types DEF SendSome
<1>2. /\ more \in Seq(Byte) /\ Len(more) = n
      /\ \A i \in 1..n : more[i] = Frame(message)[total_sent + i]
  <2>1. Frame(message) \in Seq(Byte) /\ Len(Frame(message)) = FrameLength(message)
    BY <1>1, FrameBytes
  <2>2. \A i \in (total_sent + 1)..(total_sent + n) : Frame(message)[i] \in Byte
    BY <1>0, <1>1, <2>1, ElementOfSeq
  <2> QED
    BY <1>0, <1>1, <2>2, SubSeqProperties
<1>3. written' = written \o more
  BY DEF SendSome
<1> HIDE DEF more
<1>4. /\ Len(written') = Len(written) + n
      /\ \A i \in 1..Len(written) : written'[i] = written[i]
      /\ \A i \in 1..n : written'[Len(written) + i] = Frame(message)[total_sent + i]
  <2>1. /\ Len(written') = Len(written) + Len(more)
        /\ \A i \in 1..Len(written) + Len(more) :
             written'[i] = IF i <= Len(written) THEN written[i] ELSE more[i - Len(written)]
    BY <1>0, <1>2, <1>3, ConcatProperties
  <2>2. /\ Len(written') = Len(written) + n
        /\ \A i \in 1..(Len(written) + n) :
             written'[i] = IF i <= Len(written) THEN written[i] ELSE more[i - Len(written)]
    BY <1>2, <2>1
  <2>3. \A i \in 1..Len(written) : i \in 1..(Len(written) + n) /\ i <= Len(written)
    BY <1>0, <1>1
  <2>4. ASSUME NEW i \in 1..n PROVE written'[Len(written) + i] = more[i]
    <3>1. /\ Len(written) + i \in 1..(Len(written) + n)
          /\ ~(Len(written) + i <= Len(written))
          /\ (Len(written) + i) - Len(written) = i
      BY <1>0, <1>1
    <3> QED
      BY <2>2, <3>1
  <2> QED
    BY <1>2, <2>2, <2>3, <2>4
<1> DEFINE e == EndOf(Len(sent))
<1>5. e \in Nat /\ Len(written) = e + total_sent /\ Len(ends) = Len(sent)
  BY <1>a, <1>0, ElementOfSeq DEF Layout, EndOf
<1> HIDE DEF e
<1>6. \A i \in 1..(total_sent + n) : written'[e + i] = Frame(message)[i]
  <2> SUFFICES ASSUME NEW i \in 1..(total_sent + n) PROVE written'[e + i] = Frame(message)[i]
    OBVIOUS
  <2>1. CASE i <= total_sent
    <3>1. written[e + i] = Frame(message)[i]
      BY <1>a, <1>0, <2>1 DEF Layout, e
    <3>2. e + i \in 1..Len(written)
      BY <1>0, <1>5, <2>1
    <3> QED
      BY <1>4, <3>1, <3>2
  <2>2. CASE i > total_sent
    <3>1. i - total_sent \in 1..n
      BY <1>0, <1>1, <2>2
    <3>2. Len(written) + (i - total_sent) = e + i
      BY <1>0, <1>5
    <3>3. total_sent + (i - total_sent) = i
      BY <1>0
    <3> QED
      BY <1>4, <3>1, <3>2, <3>3
  <2> QED
    BY <1>0, <2>1, <2>2
<1>7. /\ \A k \in 1..Len(sent) : sent'[k] = sent[k] /\ ends'[k] = ends[k]
      /\ Len(ends') = Len(sent') /\ Len(sent') >= Len(sent)
  <2>1. CASE total_sent + n = FrameLength(message)
    <3>1. sent' = Append(sent, message) /\ ends' = Append(ends, Len(written'))
      BY <2>1 DEF SendSome
    <3>2. Len(written') \in Nat
      BY <1>0, <1>1, <1>4
    <3> QED
      BY <1>0, <1>1, <1>5, <3>1, <3>2, AppendProperties
  <2>2. CASE total_sent + n # FrameLength(message)
    BY <1>0, <1>5, <2>2 DEF SendSome
  <2> QED
    BY <2>1, <2>2
<1>8. \A k \in 0..Len(sent) : EndOf(k)' = EndOf(k)
  BY <1>0, <1>7 DEF EndOf
<1>9. \A k \in 1..Len(sent) : Whole(k)'
  <2> SUFFICES ASSUME NEW k \in 1..Len(sent) PROVE Whole(k)'
    OBVIOUS
  <2>1. Whole(k)
    BY <1>a, <1>0 DEF Layout
  <2>2. k - 1 \in 0..Len(sent) /\ EndOf(k - 1) \in Nat
    BY <1>0, <1>5, ElementOfSeq DEF EndOf
  <2>3. EndOf(k - 1)' = EndOf(k - 1) /\ sent'[k] = sent[k] /\ ends'[k] = ends[k]
    BY <1>7, <1>8, <2>2
  <2>4. sent[k] \in Payloads /\ FrameLength(sent[k]) \in Nat
    <3>1. sent[k] \in Payloads
      BY <1>0, ElementOfSeq
    <3> QED
      BY <3>1, FrameBytes
  <2>5. \A i \in 1..FrameLength(sent[k]) :
          /\ EndOf(k - 1) + i \in 1..Len(written)
          /\ written'[EndOf(k - 1) + i] = written[EndOf(k - 1) + i]
    <3>1. /\ ends[k] = EndOf(k - 1) + FrameLength(sent[k])
          /\ ends[k] <= Len(written)
      BY <2>1 DEF Whole
    <3>2. \A i \in 1..FrameLength(sent[k]) : EndOf(k - 1) + i \in 1..Len(written)
      <4>1. PICK b \in Nat : b = EndOf(k - 1)
        BY <2>2
      <4>2. PICK f \in Nat : f = FrameLength(sent[k])
        BY <2>4
      <4>3. PICK l \in Nat : l = Len(written)
        BY <1>0
      <4>4. b + f <= l
        BY <3>1, <4>1, <4>2, <4>3
      <4>5. \A i \in 1..f : b + i \in 1..l
        BY <4>4
      <4> QED
        BY <4>1, <4>2, <4>3, <4>5
    <3> QED
      BY <1>4, <3>2
  <2>6. ends[k] <= Len(written')
    BY <1>a, <1>0, <1>1, <1>4, <2>1, <2>2, <2>4 DEF Whole
  <2> QED
    BY <1>a, <2>1, <2>3, <2>5, <2>6 DEF Whole
<1>10. Layout'
  <2>1. CASE total_sent + n = FrameLength(message)
    <3>1. /\ sent' = Append(sent, message) /\ ends' = Append(ends, Len(written'))
          /\ total_sent' = 0
      BY <2>1 DEF SendSome
    <3>2. Len(written') \in Nat /\ Len(written') = e + FrameLength(message)
      BY <1>0, <1>1, <1>4, <1>5, <2>1
    <3>0. PICK k \in Nat : k = Len(sent) + 1
      BY <1>0
    <3>3. /\ Len(sent') = k /\ Len(ends') = k
          /\ sent'[k] = message /\ ends'[k] = Len(written')
      <4>1. Len(sent') = Len(sent) + 1 /\ sent'[Len(sent) + 1] = message
        BY <1>0, <1>1, <3>1, AppendProperties
      <4>2. Len(ends') = Len(ends) + 1 /\ ends'[Len(ends) + 1] = Len(written')
        BY <1>0, <3>1, <3>2, AppendProperties
      <4> QED
        BY <1>5, <3>0, <4>1, <4>2
    <3>4. EndOf(k - 1)' = e
      <4>1. k - 1 = Len(sent) /\ k - 1 \in 0..Len(sent)
        BY <1>0, <3>0
      <4> QED
        BY <1>8, <4>1 DEF e
    <3>5. Whole(k)'
      BY <1>a, <1>6, <2>1, <3>2, <3>3, <3>4 DEF Whole
    <3>6. EndOf(Len(sent))' = Len(written')
      BY <1>0, <3>0, <3>3 DEF EndOf
    <3>7. \A j \in 1..k : j = k \/ j \in 1..Len(sent)
      BY <1>0, <3>0
    <3>8. \A j \in 1..k : Whole(j)'
      BY <1>9, <3>5, <3>7
    <3> QED
      BY <1>a, <3>1, <3>2, <3>3, <3>6, <3>8 DEF Layout
  <2>2. CASE total_sent + n # FrameLength(message)
    <3>1. total_sent' = total_sent + n /\ sent' = sent /\ ends' = ends /\ message' = message
      BY <2>2 DEF SendSome
    <3>2. EndOf(Len(sent))' = e
      BY <1>0, <1>8, <3>1 DEF e
    <3>3. Len(written') = e + total_sent'
      BY <1>0, <1>1, <1>4, <1>5, <3>1
    <3> QED
      BY <1>a, <1>5, <1>6, <1>9, <3>1, <3>2, <3>3 DEF Layout
  <2> QED
    BY <2>1, <2>2
<1>11. Len(received) \in 0..Len(sent) /\ received' = received
  BY <1>a, <1>0 DEF Agreement, SendSome, readerVars
<1>12. Offset' = Offset /\ NextMessage' = NextMessage
  <2>1. Offset' = Offset
    BY <1>8, <1>11 DEF Offset
  <2>2. CASE Len(received) < Len(sent)
    <3>1. Len(received) + 1 \in 1..Len(sent) /\ Len(received') < Len(sent')
      BY <1>0, <1>7, <1>11, <2>2
    <3>2. sent'[Len(received') + 1] = sent[Len(received) + 1]
      BY <1>7, <1>11, <3>1
    <3> QED
      BY <2>1, <2>2, <3>1, <3>2 DEF NextMessage
  <2>3. CASE Len(received) = Len(sent) /\ total_sent + n = FrameLength(message)
    <3>1. sent' = Append(sent, message)
      BY <2>3 DEF SendSome
    <3>2. Len(sent') = Len(sent) + 1 /\ sent'[Len(sent) + 1] = message
      BY <1>0, <1>1, <3>1, AppendProperties
    <3> QED
      BY <1>0, <1>11, <2>1, <2>3, <3>2 DEF NextMessage
  <2>4. CASE Len(received) = Len(sent) /\ total_sent + n # FrameLength(message)
    BY <1>11, <2>1, <2>4 DEF NextMessage, SendSome
  <2> QED
    BY <1>0, <1>11, <2>1, <2>2, <2>3, <2>4
<1>13. Len(written) <= Len(written')
  BY <1>0, <1>1, <1>4
<1>14. Offset \in Nat
  BY <1>a, <1>0, NextFrame DEF Agreement
<1>15. Agreement'
  <2>1. UNCHANGED readerVars
    BY DEF SendSome
  <2>2. Len(received) <= Len(sent')
    BY <1>0, <1>7, <1>11
  <2>3. \A k \in 1..Len(received) : received[k] = sent'[k]
    BY <1>a, <1>0, <1>7, <1>11 DEF Agreement
  <2>4. start + total_received <= Len(written) => start + total_received <= Len(written')
    BY <1>0, <1>1, <1>4
  <2> QED
    BY <1>a, <1>0, <1>12, <2>1, <2>2, <2>3, <2>4 DEF Agreement, Reading, readerVars
<1>16. Cause'
  <2>1. UNCHANGED <<conn, readerVars>> /\ conn = "up"
    BY DEF SendSome
  <2>2. Offset + 2 * WordSize <= Len(written) => Offset + 2 * WordSize <= Len(written')
    BY <1>0, <1>1, <1>4, <1>14, WordAssumption
  <2> QED
    BY <1>a, <1>0, <1>12, <2>1, <2>2 DEF Cause, readerVars
<1> QED
  BY <1>10, <1>15, <1>16

\* Recv finds in each field what Send put there.
LEMMA RecvSomeStep ==
  ASSUME IInv, ~torn, NEW n \in 1..Longest, RecvSome(n)
  PROVE  Layout' /\ Agreement' /\ Cause'
<1>a. TypeOK /\ Layout /\ Agreement /\ Cause
  BY DEF IInv
<1>0. /\ Len(written) \in Nat /\ Len(sent) \in Nat /\ Len(received) \in Nat
      /\ Wanted \in Nat /\ total_sent \in Nat /\ start \in Nat /\ total_received \in Nat
      /\ n \in Nat \ {0} /\ WordSize \in Nat \ {0}
  BY <1>a, Types, WordAssumption
<1>1. UNCHANGED <<conn, senderVars, reader>> /\ Reading
  BY DEF RecvSome
<1>2. Layout'
  BY <1>a, <1>1 DEF Layout, Whole, EndOf, senderVars
<1>3. Len(received) <= Len(sent)
  BY <1>a DEF Agreement
<1>4. Offset \in Nat /\ Offset <= Len(written)
  BY <1>a, <1>3, NextFrame
<1>5. CASE total_received + n < Wanted
  <2>1. /\ UNCHANGED <<phase, start, length, received>>
        /\ total_received' = total_received + n
        /\ start + total_received + n <= Len(written)
    BY <1>5 DEF RecvSome
  <2>2. Offset' = Offset /\ NextMessage' = NextMessage
    BY <1>1, <2>1 DEF Offset, NextMessage, EndOf, senderVars
  <2>3. start + total_received' <= Len(written)
    BY <1>0, <2>1
  <2>4. Agreement'
    BY <1>a, <1>1, <2>1, <2>2, <2>3 DEF Agreement, Reading, senderVars
  <2>5. Cause'
    BY <1>a, <1>1, <2>1, <2>2 DEF Cause, senderVars
  <2> QED
    BY <1>2, <2>4, <2>5
<1>6. CASE total_received + n = Wanted
  <2>1. start + Wanted <= Len(written)
    BY <1>0, <1>6 DEF RecvSome
  <2>2. /\ Field \in Seq(Byte) /\ Len(Field) = Wanted
        /\ \A i \in 1..Wanted : Field[i] = written[start + i]
    BY <1>a, <1>0, <2>1, FieldBytes DEF Field
  <2>3. Wanted > 0
    BY <1>0, <1>6
  <2>4. start >= Offset
    BY <1>a, <1>0, <1>1, <1>4 DEF Agreement, Reading
  <2>5. Offset < Len(written)
    BY <1>0, <1>4, <2>1, <2>3, <2>4
  <2>6. NextMessage \in Payloads
    BY <1>a, <1>3, <2>5, NextFrame
  <2> DEFINE m == NextMessage
  <2>7. /\ Frame(m) \in Seq(Byte) /\ FrameLength(m) = 2 * WordSize + Len(m)
        /\ Len(m) \in Nat \ {0} /\ m \in Seq(Byte)
        /\ \A i \in 1..WordSize : Frame(m)[i] = TCP_MESSAGE_MAGIC[i]
        /\ \A i \in 1..WordSize : Frame(m)[WordSize + i] = Encoded(Len(m))[i]
        /\ \A i \in 1..Len(m) : Frame(m)[2 * WordSize + i] = m[i]
    BY <2>6, FrameBytes DEF FrameLength
  <2>8. \A j \in 1..(Len(written) - Offset) :
          j <= FrameLength(m) => written[Offset + j] = Frame(m)[j]
    BY <1>a, <1>3, NextFrame
  <2> HIDE DEF m
  <2>9. CASE phase = "magic"
    <3>1. start = Offset /\ Wanted = WordSize
      BY <1>a, <2>9 DEF Agreement, Wanted
    <3>2. \A i \in 1..WordSize : Field[i] = TCP_MESSAGE_MAGIC[i]
      <4>1. \A i \in 1..WordSize : i \in 1..(Len(written) - Offset) /\ i <= FrameLength(m)
        BY <1>0, <1>4, <2>1, <2>7, <3>1
      <4> QED
        BY <2>2, <2>7, <2>8, <3>1, <4>1
    <3>3. Field = TCP_MESSAGE_MAGIC
      BY <2>2, <3>1, <3>2, WordsEqual, WordAssumption
    <3>4. MagicIn
      BY <1>0, <1>6, <2>9 DEF RecvSome
    <3>5. /\ phase' = "length" /\ start' = start + WordSize /\ total_received' = 0
          /\ received' = received
      BY <3>1, <3>3, <3>4 DEF MagicIn, NextField
    <3>6. Offset' = Offset
      BY <1>1, <3>5 DEF Offset, EndOf, senderVars
    <3>7. start' + total_received' <= Len(written)
      BY <1>0, <1>4, <2>1, <3>1, <3>5
    <3>8. Agreement'
      BY <1>a, <1>1, <3>1, <3>5, <3>6, <3>7 DEF Agreement, Reading, senderVars
    <3>9. Cause'
      BY <3>5 DEF Cause
    <3> QED
      BY <1>2, <3>8, <3>9
  <2>10. CASE phase = "length"
    <3>1. start = Offset + WordSize /\ Wanted = WordSize
      BY <1>a, <2>10 DEF Agreement, Wanted
    <3>2. \A i \in 1..WordSize : Field[i] = Encoded(Len(m))[i]
      <4>1. \A i \in 1..WordSize :
              /\ WordSize + i \in 1..(Len(written) - Offset)
              /\ WordSize + i <= FrameLength(m)
              /\ Offset + (WordSize + i) = start + i
        <5>1. PICK o \in Nat : o = Offset
          BY <1>4
        <5>2. PICK l \in Nat : l = Len(written)
          BY <1>0
        <5>3. PICK k \in Nat : k = Len(m)
          BY <2>7
        <5>4. start = o + WordSize /\ o + WordSize + WordSize <= l
          BY <2>1, <3>1, <5>1, <5>2
        <5>5. \A i \in 1..WordSize :
                /\ WordSize + i \in 1..(l - o)
                /\ WordSize + i <= 2 * WordSize + k
                /\ o + (WordSize + i) = o + WordSize + i
          BY <1>0, <5>4
        <5> QED
          BY <2>7, <5>1, <5>2, <5>3, <5>4, <5>5
      <4>2. \A i \in 1..WordSize : written[start + i] = Frame(m)[WordSize + i]
        BY <2>8, <4>1
      <4> QED
        BY <2>2, <2>7, <3>1, <4>2
    <3>3. Field = Encoded(Len(m)) /\ Value[Field] = Len(m)
      BY <2>2, <2>6, <3>1, <3>2, WordsEqual, EncodedIsWord DEF m
    <3>4. MagicBefore = TCP_MESSAGE_MAGIC
      <4>1. start - WordSize + 1 = Offset + 1 /\ start = Offset + WordSize
        BY <1>0, <1>4, <3>1
      <4>2. Offset + WordSize <= Len(written)
        BY <1>0, <1>4, <2>1, <3>1
      <4>3. /\ MagicBefore \in Seq(Byte) /\ Len(MagicBefore) = WordSize
            /\ \A i \in 1..WordSize : MagicBefore[i] = written[Offset + i]
        <5>1. MagicBefore = SubSeq(written, Offset + 1, Offset + WordSize)
          BY <4>1 DEF MagicBefore
        <5> QED
          BY <1>a, <1>0, <1>4, <4>2, <5>1, FieldBytes
      <4>4. \A i \in 1..WordSize : i \in 1..(Len(written) - Offset) /\ i <= FrameLength(m)
        BY <1>0, <1>4, <2>7, <4>2
      <4>5. \A i \in 1..WordSize : MagicBefore[i] = TCP_MESSAGE_MAGIC[i]
        BY <2>7, <2>8, <4>3, <4>4
      <4> QED
        BY <4>3, <4>5, WordsEqual, WordAssumption
    <3>5. LengthIn
      BY <1>0, <1>6, <2>10 DEF RecvSome
    <3>6. Offset + 2 * WordSize <= Len(written)
      BY <1>0, <1>4, <2>1, <3>1
    <3>7. CASE Acceptable(Len(m))
      <4>1. /\ phase' = "data" /\ start' = start + WordSize /\ total_received' = 0
            /\ length' = Len(m) /\ received' = received
        BY <3>1, <3>3, <3>4, <3>5, <3>7 DEF LengthIn, NextField
      <4>2. Offset' = Offset /\ NextMessage' = m
        BY <1>1, <4>1 DEF Offset, EndOf, NextMessage, senderVars, m
      <4>3. start' = Offset + 2 * WordSize /\ start' + total_received' <= Len(written)
        BY <1>0, <1>4, <2>1, <3>1, <4>1
      <4>4. Agreement'
        BY <1>a, <1>1, <4>1, <4>2, <4>3 DEF Agreement, Reading, senderVars
      <4>5. Cause'
        BY <4>1 DEF Cause
      <4> QED
        BY <1>2, <4>4, <4>5
    <3>8. CASE ~Acceptable(Len(m))
      <4>1. /\ phase' = "ended" /\ UNCHANGED <<start, total_received, length, received>>
        BY <3>3, <3>5, <3>8 DEF LengthIn, Stops
      <4>2. reader = "checking" /\ Len(m) > MAX_LENGTH
        BY <2>7, <3>8, BoundsAssumption DEF Acceptable
      <4>3. Offset' = Offset /\ NextMessage' = m
        BY <1>1, <4>1 DEF Offset, EndOf, NextMessage, senderVars, m
      <4>4. Agreement'
        BY <1>a, <1>1, <4>1, <4>3 DEF Agreement, Reading, senderVars
      <4>5. Cause'
        BY <1>1, <3>6, <4>2, <4>3 DEF Cause, senderVars
      <4> QED
        BY <1>2, <4>4, <4>5
    <3> QED
      BY <3>7, <3>8
  <2>11. CASE phase = "data"
    <3>1. start = Offset + 2 * WordSize /\ length = Len(m) /\ Wanted = Len(m)
      BY <1>a, <2>11 DEF Agreement, Wanted, m
    <3>2. Offset + FrameLength(m) <= Len(written)
      BY <1>0, <1>4, <2>1, <2>7, <3>1
    <3>3. Len(received) < Len(sent)
      <4>1. ASSUME Len(received) = Len(sent) PROVE FALSE
        <5>1. Len(written) = Offset + total_sent /\ m = message
          BY <1>a, <1>3, <4>1, NextFrame DEF m
        <5>2. total_sent < FrameLength(m) /\ FrameLength(m) \in Nat
          BY <1>a, <5>1, Types
        <5> QED
          BY <1>0, <1>4, <3>2, <5>1, <5>2
      <4> QED
        BY <1>0, <1>3, <4>1
    <3>4. \A i \in 1..Len(m) : Field[i] = m[i]
      <4>1. \A i \in 1..Len(m) :
              /\ 2 * WordSize + i \in 1..(Len(written) - Offset)
              /\ 2 * WordSize + i <= FrameLength(m)
              /\ Offset + (2 * WordSize + i) = start + i
        BY <1>0, <1>4, <2>7, <3>1, <3>2
      <4>2. \A i \in 1..Len(m) : written[start + i] = Frame(m)[2 * WordSize + i]
        BY <2>8, <4>1
      <4> QED
        BY <2>2, <2>7, <3>1, <4>2
    <3>5. Field = m
      BY <2>2, <2>7, <3>1, <3>4, SeqEqual
    <3>6. DataIn
      BY <1>0, <1>6, <2>11 DEF RecvSome
    <3>7. PICK k \in Nat : k = Len(received) + 1
      BY <1>0
    <3>8. /\ received' = Append(received, m) /\ phase' = "magic"
          /\ start' = start + Len(m) /\ total_received' = 0
      BY <3>1, <3>5, <3>6 DEF DataIn, NextField
    <3>9. /\ Len(received') = k /\ received'[k] = m
          /\ \A j \in 1..Len(received) : received'[j] = received[j]
      <4>1. m \in Seq(Byte) /\ received \in Seq(Seq(Byte))
        BY <1>a, <2>7, Types
      <4> QED
        BY <3>7, <3>8, <4>1, AppendProperties
    <3>10. m = sent[k] /\ k \in 1..Len(sent)
      BY <1>0, <3>3, <3>7 DEF m, NextMessage
    <3>11. Offset' = Offset + FrameLength(m)
      <4>1. ends[k] = Offset + FrameLength(m)
        BY <1>a, <1>3, <3>3, <3>7, NextFrame DEF m
      <4>2. Offset' = ends[k]
        BY <1>0, <1>1, <3>7, <3>9 DEF Offset, EndOf, senderVars
      <4> QED
        BY <4>1, <4>2
    <3>12. start' = Offset' /\ start' + total_received' <= Len(written)
      BY <1>0, <1>4, <2>7, <3>1, <3>2, <3>8, <3>11
    <3>13. \A j \in 1..k : received'[j] = sent[j]
      <4>1. \A j \in 1..k : j = k \/ j \in 1..Len(received)
        BY <1>0, <3>7
      <4>2. \A j \in 1..Len(received) : received[j] = sent[j]
        BY <1>a DEF Agreement
      <4> QED
        BY <3>9, <3>10, <4>1, <4>2
    <3>14. k <= Len(sent)
      BY <3>10
    <3>15. Agreement'
      BY <1>1, <3>8, <3>9, <3>12, <3>13, <3>14 DEF Agreement, Reading, senderVars
    <3>16. Cause'
      BY <3>8 DEF Cause
    <3> QED
      BY <1>2, <3>15, <3>16
  <2> QED
    BY <1>1, <2>9, <2>10, <2>11 DEF Reading
<1> QED
  BY <1>0, <1>5, <1>6 DEF RecvSome

\* As many messages received as sent are the messages sent.
LEMMA SameMessages ==
  ASSUME TypeOK, Agreement, Len(received) = Len(sent)
  PROVE  received = sent
<1>1. sent \in Seq(Seq(Byte)) /\ received \in Seq(Seq(Byte))
  <2>1. Payloads \subseteq Seq(Byte)
    BY FrameBytes
  <2> QED
    BY <2>1, Types, SeqMonotonic
<1>2. \A k \in 1..Len(received) : received[k] = sent[k]
  BY DEF Agreement
<1> QED
  BY <1>1, <1>2, SeqEqual

\* When the reader finds the end of a closed connection, it has everything.
LEMMA RecvFailsStep ==
  ASSUME IInv, ~torn, RecvFails
  PROVE  Layout' /\ Agreement' /\ Cause'
<1>a. TypeOK /\ Layout /\ Agreement /\ Cause
  BY DEF IInv
<1>0. /\ Len(written) \in Nat /\ Len(sent) \in Nat /\ Len(received) \in Nat
      /\ start \in Nat /\ total_received \in Nat /\ WordSize \in Nat \ {0}
      /\ Wanted \in Nat
  BY <1>a, Types, WordAssumption
<1>1. /\ UNCHANGED <<conn, senderVars, reader, start, total_received, length, received>>
      /\ phase' = "ended" /\ Reading
  BY DEF RecvFails, Stops
<1>2. Layout'
  BY <1>a, <1>1 DEF Layout, Whole, EndOf, senderVars
<1>3. Offset' = Offset /\ NextMessage' = NextMessage
  BY <1>1 DEF Offset, NextMessage, EndOf, senderVars
<1>4. Agreement'
  BY <1>a, <1>1, <1>3 DEF Agreement, Reading, senderVars
<1>5. ASSUME conn # "reset" PROVE conn # "up" /\ received = sent
  <2>1. conn = "closed" /\ start + total_received = Len(written)
    BY <1>5 DEF RecvFails
  <2>2. Len(received) <= Len(sent)
    BY <1>a DEF Agreement
  <2>3. ASSUME Len(received) < Len(sent) PROVE FALSE
    <3>1. /\ NextMessage \in Payloads /\ Offset \in Nat
          /\ ends[Len(received) + 1] = Offset + FrameLength(NextMessage)
          /\ ends[Len(received) + 1] <= Len(written)
      BY <1>a, <2>2, <2>3, NextFrame
    <3>2. FrameLength(NextMessage) = 2 * WordSize + Len(NextMessage) /\ Len(NextMessage) \in Nat \ {0}
      BY <3>1, FrameBytes DEF FrameLength
    <3>3. total_received < Wanted
      BY <1>a, <1>1 DEF TypeOK
    <3>4. start + Wanted <= Offset + FrameLength(NextMessage)
      BY <1>a, <1>0, <1>1, <3>1, <3>2 DEF Agreement, Wanted, Reading
    <3> QED
      BY <1>0, <2>1, <3>1, <3>2, <3>3, <3>4
  <2>4. Len(received) = Len(sent)
    BY <1>0, <2>2, <2>3
  <2>5. received = sent
    BY <1>a, <2>4, SameMessages
  <2> QED
    BY <2>1, <2>5
<1>6. Cause'
  BY <1>1, <1>5 DEF Cause, senderVars
<1> QED
  BY <1>2, <1>4, <1>6

LEMMA IInvStep == IInv /\ [Next]_vars => IInv'
<1> SUFFICES ASSUME IInv, [Next]_vars PROVE IInv'
  OBVIOUS
<1>1. TypeOK'
  BY TypeOKStep DEF IInv
<1>2. torn => torn'
  BY DEF Next, RecvAny, Send, SendSome, SendFails, Close, Reset, RecvSome, RecvFails,
         TimeOut, vars, senderVars, readerVars
<1>3. ASSUME ~torn' PROVE Layout' /\ Agreement' /\ Cause'
  <2>a. ~torn /\ TypeOK /\ Layout /\ Agreement /\ Cause
    BY <1>2, <1>3 DEF IInv
  <2>b. total_sent \in Nat /\ (message = NoMessage => total_sent = 0)
    BY <2>a DEF TypeOK
  <2>1. ASSUME NEW m \in Payloads, Send(m) PROVE Layout' /\ Agreement' /\ Cause'
    BY <2>a, <2>b, <2>1, SameStream DEF Send
  <2>2. ASSUME NEW n \in 1..Longest, SendSome(n) PROVE Layout' /\ Agreement' /\ Cause'
    BY <2>a, <2>2, SendSomeStep
  <2>3. CASE SendFails
    <3>1. total_sent = 0
      <4>1. ~(total_sent > 0)
        BY <1>3, <2>3, Zenon DEF SendFails
      <4> QED
        BY <2>b, <4>1
    <3> QED
      BY <2>a, <2>3, <3>1, SameStream DEF SendFails
  <2>4. CASE Close \/ Reset
    <3>1. UNCHANGED <<senderVars, readerVars>> /\ (conn = "up" \/ conn' = "reset")
      BY <2>4 DEF Close, Reset
    <3>2. Offset' = Offset /\ NextMessage' = NextMessage
      BY <3>1 DEF Offset, NextMessage, EndOf, senderVars, readerVars
    <3>3. Layout'
      BY <2>a, <3>1 DEF Layout, Whole, EndOf, senderVars
    <3>4. Agreement'
      BY <2>a, <3>1, <3>2 DEF Agreement, Reading, senderVars, readerVars
    <3>5. Cause'
      BY <2>a, <3>1, <3>2 DEF Cause, senderVars, readerVars
    <3> QED
      BY <3>3, <3>4, <3>5
  <2>5. ASSUME NEW n \in 1..Longest, RecvSome(n) PROVE Layout' /\ Agreement' /\ Cause'
    BY <2>a, <2>5, RecvSomeStep
  <2>6. CASE RecvFails
    BY <2>a, <2>6, RecvFailsStep
  <2>7. CASE TimeOut \/ UNCHANGED vars
    <3>1. /\ UNCHANGED <<conn, senderVars, reader, start, total_received, length, received>>
          /\ phase' = phase \/ phase' = "expired"
      BY <2>7 DEF TimeOut, Stops, vars, readerVars
    <3>2. Offset' = Offset /\ NextMessage' = NextMessage
      BY <3>1 DEF Offset, NextMessage, EndOf, senderVars
    <3>3. Layout'
      BY <2>a, <3>1 DEF Layout, Whole, EndOf, senderVars
    <3>4. Agreement'
      BY <2>a, <3>1, <3>2 DEF Agreement, Reading, senderVars
    <3>5. Cause'
      BY <2>a, <3>1, <3>2 DEF Cause, senderVars
    <3> QED
      BY <3>3, <3>4, <3>5
  <2> QED
    BY <2>1, <2>2, <2>3, <2>4, <2>5, <2>6, <2>7 DEF Next, RecvAny
<1> QED
  BY <1>1, <1>3 DEF IInv

LEMMA Inductive == Spec => []IInv
BY InitIInv, IInvStep, PTL DEF Spec

--------------------------------------------------------------------------------
(* Theorems *)

\* For any words, messages and limits: the variables keep their types, and
\* neither loop of RecvExact and Send asks for no bytes.
THEOREM TypeCorrect == Spec => []TypeOK
<1>1. IInv => TypeOK
  BY DEF IInv
<1> QED
  BY <1>1, Inductive, PTL

\* For any messages, also ones that look like frames, and any split of the
\* stream: what Recv returns is what Send was given, from the first message on,
\* unless a Send failed inside a frame.
THEOREM FaithfulTheorem == Spec => []Faithful
<1>1. IInv => Faithful
  <2> SUFFICES ASSUME TypeOK, Agreement PROVE IsPrefix(received, sent)
    BY DEF IInv, Faithful
  <2>1. /\ received \in Seq(Seq(Byte)) /\ Len(received) \in Nat
        /\ sent \in Seq(Payloads) /\ Len(sent) \in Nat
    BY Types
  <2>2. /\ Len(received) <= Len(sent)
        /\ \A k \in 1..Len(received) : received[k] = sent[k]
    BY DEF Agreement
  <2>3. DOMAIN received = 1..Len(received) /\ DOMAIN sent = 1..Len(sent)
    BY <2>1, LenProperties
  <2>4. \A k \in 1..Len(received) : k \in 1..Len(sent) /\ sent[k] \in Payloads
    BY <2>1, <2>2, ElementOfSeq
  <2>5. SubSeq(sent, 1, Len(received)) = received
    <3>1. /\ SubSeq(sent, 1, Len(received)) \in Seq(Seq(Byte))
          /\ Len(SubSeq(sent, 1, Len(received))) = Len(received)
          /\ \A k \in 1..Len(received) : SubSeq(sent, 1, Len(received))[k] = sent[k]
      <4>1. \A k \in 1..Len(received) : sent[k] \in Seq(Byte)
        BY <2>4, FrameBytes
      <4> QED
        BY <2>1, <4>1, SubSeqProperties
    <3> QED
      BY <2>1, <2>2, <3>1, SeqEqual
  <2> QED
    BY <2>1, <2>2, <2>3, <2>5 DEF IsPrefix
<1> QED
  BY <1>1, Inductive, PTL

\* The reader stops before the end only for a reset, a time-out, a message above
\* the limit, or after a Send that failed inside a frame.
THEOREM NothingLeftBehindTheorem == Spec => []NothingLeftBehind
<1>1. IInv => NothingLeftBehind
  <2> SUFFICES ASSUME TypeOK, Layout, Agreement, Cause, conn # "reset", phase = "ended",
                      received # sent
               PROVE  reader = "checking" /\ Len(sent[Len(received) + 1]) > MAX_LENGTH
    BY DEF IInv, NothingLeftBehind
  <2>1. /\ reader = "checking" /\ Len(NextMessage) > MAX_LENGTH
    BY DEF Cause
  <2>2. Len(received) # Len(sent)
    BY SameMessages
  <2>3. Len(received) < Len(sent)
    BY <2>2, Types DEF Agreement
  <2> QED
    BY <2>1, <2>3 DEF NextMessage
<1> QED
  BY <1>1, Inductive, PTL

\* A step of either program accepts a message, delivers the next one, gives up
\* reading, or leaves the channel alone.
LEMMA ChannelStep ==
  ASSUME IInv, IInv', [Next]_vars, ~torn'
  PROVE  [Channel!Next]_(Channel!vars)
<1> USE DEF Channel!Next, Channel!vars, Channel!Accept, Channel!Deliver, Channel!GiveUp
<1>a. TypeOK /\ Agreement' /\ TypeOK'
  BY DEF IInv
<1>1. ASSUME NEW m \in Payloads, Send(m) PROVE UNCHANGED Channel!vars
  BY <1>1 DEF Send, readerVars, Reading
<1>2. ASSUME NEW n \in 1..Longest, SendSome(n) PROVE [Channel!Next]_(Channel!vars)
  <2>1. UNCHANGED received /\ Reading' = Reading
    BY <1>2 DEF SendSome, readerVars, Reading
  <2>2. message \in Payloads
    BY <1>2, <1>a, Types DEF SendSome
  <2>3. sent' = Append(sent, message) \/ sent' = sent
    BY <1>2 DEF SendSome
  <2> QED
    BY <2>1, <2>2, <2>3
<1>3. ASSUME NEW n \in 1..Longest, RecvSome(n) PROVE [Channel!Next]_(Channel!vars)
  <2>1. UNCHANGED sent /\ Reading
    BY <1>3 DEF RecvSome, senderVars
  <2>2. CASE received' = received
    <3>1. CASE Reading'
      <4>1. Reading' = Reading
        <5>1. (phase' \in {"magic", "length", "data"}) = (phase \in {"magic", "length", "data"})
          BY <2>1, <3>1 DEF Reading
        <5> QED
          BY <5>1, Zenon DEF Reading
      <4> QED
        BY <2>1, <2>2, <4>1
    <3>2. CASE ~Reading'
      <4>1. Reading' = FALSE
        <5>1. (phase' \in {"magic", "length", "data"}) = FALSE
          BY <3>2 DEF Reading
        <5> QED
          BY <5>1, Zenon DEF Reading
      <4> QED
        BY <2>1, <2>2, <4>1
    <3> QED
      BY <3>1, <3>2
  <2>3. CASE /\ received' = Append(received, Field) /\ phase' = "magic"
             /\ ~(total_received + n < Wanted)
    <3>0. Len(received) \in Nat /\ received \in Seq(Seq(Byte)) /\ received' \in Seq(Seq(Byte))
      BY <1>a, Types DEF TypeOK
    <3>1. Field \in Seq(Byte)
      <4>1. start + Wanted <= Len(written)
        BY <1>3, <1>a, <2>3, Types DEF RecvSome
      <4> QED
        BY <1>a, <4>1, FieldBytes, Types DEF Field
    <3>2. Len(received') = Len(received) + 1 /\ received'[Len(received) + 1] = Field
      BY <2>3, <3>0, <3>1, AppendProperties
    <3>3. PICK k \in Nat : k = Len(received) + 1
      BY <3>0
    <3>4. k \in 1..Len(received')
      BY <3>0, <3>2, <3>3
    <3>5. Len(received') <= Len(sent) /\ received'[k] = sent[k]
      BY <1>a, <2>1, <3>4 DEF Agreement
    <3>6. received' = Append(received, sent[Len(received) + 1]) /\ Len(received) < Len(sent)
      BY <1>a, <2>3, <3>0, <3>2, <3>3, <3>5, Types
    <3> QED
      BY <2>1, <2>3, <3>6 DEF Reading
  <2>4. \/ received' = received
        \/ /\ received' = Append(received, Field) /\ phase' = "magic"
           /\ ~(total_received + n < Wanted)
    BY <1>3 DEF RecvSome, MagicIn, LengthIn, DataIn, NextField, Stops, Reading
  <2> QED
    BY <2>2, <2>3, <2>4
<1>4. CASE RecvFails \/ TimeOut
  BY <1>4 DEF RecvFails, TimeOut, Stops, senderVars, Reading
<1>5. CASE SendFails \/ Close \/ Reset \/ UNCHANGED vars
  BY <1>5 DEF SendFails, Close, Reset, vars, senderVars, readerVars, Reading
<1> QED
  BY <1>1, <1>2, <1>3, <1>4, <1>5 DEF Next, RecvAny

\* Until a Send fails inside a frame, a direction of a connection is a channel
\* of messages.
THEOREM ImplementsChannelTheorem == Spec => ImplementsChannel
<1>1. Init => Channel!Init
  BY DEF Init, Channel!Init, Reading
<1>2. IInv /\ IInv' /\ [Next]_vars => [Channel!Next \/ torn']_(Channel!vars)
  BY ChannelStep
<1> QED
  BY <1>1, <1>2, Inductive, PTL DEF Spec, ImplementsChannel
================================================================================
