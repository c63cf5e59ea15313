--------------------------- MODULE MCInjectionQueues ---------------------------
EXTENDS InjectionQueues, TLC

\* Times are in units of one timer period.
Single == [injection_interval_ms |-> 2, packet_count |-> 1, packet_intervals_ms |-> <<0>>]
Double == [injection_interval_ms |-> 1, packet_count |-> 2, packet_intervals_ms |-> <<0, 1>>]

MCConfigs == {Single, Double}

Symmetry == Permutations(Names)
================================================================================
