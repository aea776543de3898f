--------------------------- MODULE MCHistoryStore ---------------------------
(* Instances of HistoryStore for TLC: one run of the program whose callers *)
(* share a Store, and two runs on one file.                                *)
EXTENDS HistoryStore, TLC

CONSTANTS c1, c2, c3, s1, s2

OneStore  == [c \in Callers |-> s1]
TwoStores == [c \in Callers |-> IF c = c1 THEN s1 ELSE s2]

(* Callers of the same Store are interchangeable.                          *)
SameStore == {p \in Permutations(Callers) :
                \A c \in Callers : StoreOf[p[c]] = StoreOf[c]}
=============================================================================
