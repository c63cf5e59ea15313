---------------------------- MODULE MessageChannel -----------------------------
(***************************************************************************)
(* What one direction of a connection promises its two ends: messages come *)
(* out whole, in the order they were accepted, each once, until the reader *)
(* gives up, which it does once.                                           *)
(***************************************************************************)
EXTENDS Naturals, Sequences

CONSTANT Messages

VARIABLES sent, received, reading

vars == <<sent, received, reading>>

Init ==
  /\ sent = <<>>
  /\ received = <<>>
  /\ reading = TRUE

Accept ==
  /\ \E m \in Messages : sent' = Append(sent, m)
  /\ UNCHANGED <<received, reading>>

Deliver ==
  /\ reading
  /\ Len(received) < Len(sent)
  /\ received' = Append(received, sent[Len(received) + 1])
  /\ UNCHANGED <<sent, reading>>

GiveUp ==
  /\ reading
  /\ reading' = FALSE
  /\ UNCHANGED <<sent, received>>

Next == Accept \/ Deliver \/ GiveUp

Spec == Init /\ [][Next]_vars
================================================================================
