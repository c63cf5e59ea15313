------------------------------- MODULE MCPacketLog ------------------------------
EXTENDS PacketLog, TLC

Symmetry == Permutations(Threads) \cup Permutations(OutPackets)
================================================================================
