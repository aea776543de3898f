---------------------------- MODULE MCCollector ----------------------------
(* Instances of Collector for TLC: which sockets the kernel may have.      *)
EXTENDS Collector

TCPSlots   == <<"tcp", "tcp">>
MixedSlots == <<"tcp", "tcp6", "udp">>
UDPSlots   == <<"udp", "udp">>
=============================================================================
