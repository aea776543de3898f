----------------------------- MODULE MCWatcher -----------------------------
(* Instances of Watcher for TLC: one socket, or two that use the same      *)
(* addresses one after the other.                                          *)
EXTENDS Watcher

CONSTANTS s1, s2, a1

SameAddress == [s \in Socks |-> a1]
=============================================================================
