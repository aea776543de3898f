--------------------------- MODULE MCDnsResolver ---------------------------
(* Instances of DnsResolver for TLC: an address with two names, one with   *)
(* one name, and a loopback address.                                       *)
EXTENDS DnsResolver

CONSTANTS a1, a2, lo, n1, n2, n3

Answers == [ip \in IPs |-> CASE ip = a1 -> {n1, n2}
                             [] ip = a2 -> {n3}
                             [] OTHER -> {}]
=============================================================================
