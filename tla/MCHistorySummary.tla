-------------------------- MODULE MCHistorySummary --------------------------
(* Instances of HistorySummary for TLC: goroutines on one Store.           *)
EXTENDS HistorySummary, TLC

CONSTANTS c1, c2, s1

OneStore == [c \in Callers |-> s1]

(* The callers of one Store are alike.                                     *)
Alike == Permutations(Callers)

(* Different counts for each Record call, and those of an idle socket.     *)
Counted == [i \in 1..MaxRecords |-> i]
Carried == [i \in 1..MaxRecords |-> 10 ^ i]
Idle    == [i \in 1..MaxRecords |-> 1]
=============================================================================
