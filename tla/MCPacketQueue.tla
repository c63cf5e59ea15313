----------------------------- MODULE MCPacketQueue -----------------------------
(* PacketQueue for TLC: the constants' values. *)
EXTENDS PacketQueue, TLC

\* The threads that run hooks are interchangeable: for the safety runs only.
Symmetry == Permutations(Threads)
================================================================================
