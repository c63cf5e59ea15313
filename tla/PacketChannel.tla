----------------------------- MODULE PacketChannel -----------------------------
(***************************************************************************)
(* What the asynchronous queue of Packet/PacketQueue.cpp promises the      *)
(* hooks that log through it: one first-in first-out channel.  A packet    *)
(* enters it once, leaves it once and in its turn, and a caller that asked *)
(* to wait goes on only after its own packet left.  Closing the channel    *)
(* may lose what is still inside, except that the packet being sent at     *)
(* that moment may still come out; a caller whose packet was lost may or   *)
(* may not go on.                                                          *)
(***************************************************************************)
EXTENDS Naturals, Sequences, SequencesExt

CONSTANT Packets

VARIABLES open,    \* FALSE once Stop was called
          chan,    \* packets accepted and not yet sent, oldest first
          sent,    \* packets sent, in the order they were
          awaited  \* packets whose caller waits for the worker's answer

vars == <<open, chan, sent, awaited>>

Init ==
  /\ open = TRUE
  /\ chan = <<>>
  /\ sent = <<>>
  /\ awaited = {}

Fresh(p) == p \notin ToSet(chan) \cup ToSet(sent)

Accept(p) ==
  /\ Fresh(p)
  /\ chan' = Append(chan, p)
  /\ awaited' \in {awaited, awaited \cup {p}}
  /\ UNCHANGED <<open, sent>>

Deliver ==
  /\ chan # <<>>
  /\ sent' = Append(sent, Head(chan))
  /\ chan' = Tail(chan)
  /\ UNCHANGED <<open, awaited>>

Answer(p) ==
  /\ p \in awaited
  /\ p \in ToSet(sent)
  /\ awaited' = awaited \ {p}
  /\ UNCHANGED <<open, chan, sent>>

Close ==
  /\ open
  /\ open' = FALSE
  /\ UNCHANGED <<chan, sent, awaited>>

Discard ==
  /\ ~open
  /\ chan # <<>>
  /\ chan' \in {<<>>, <<Head(chan)>>}
  /\ UNCHANGED <<open, sent, awaited>>

Abandon(p) ==
  /\ ~open
  /\ p \in awaited
  /\ p \notin ToSet(chan) \cup ToSet(sent)
  /\ awaited' = awaited \ {p}
  /\ UNCHANGED <<open, chan, sent>>

Next ==
  \/ \E p \in Packets : Accept(p) \/ Answer(p) \/ Abandon(p)
  \/ Deliver
  \/ Close
  \/ Discard

Spec == Init /\ [][Next]_vars
================================================================================
