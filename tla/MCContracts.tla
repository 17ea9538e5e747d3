---------------------------- MODULE MCContracts -----------------------------
(* Instances of Contracts: which requests and failures each run admits.    *)
EXTENDS Contracts

CONSTANTS t1, s1, s2

HotAndCold == {"hot", "cold"}
Extremes == {0, 100}
AllEvents == EventName

=============================================================================
