---------------------------- MODULE MCInvocation ----------------------------
(* An instance of Invocation for TLC: two processes, more IPv4 sockets     *)
(* than fit into a datagram, two with one address, and in each family one  *)
(* in TIME_WAIT.  With IPv6 disabled there is no /proc/net/tcp6.           *)
EXTENDS Invocation

TwoFamilies == [f \in Families |-> IF f = 4 THEN 3 ELSE 2]

Peer == [s \in Sockets |-> IF s = <<4, 1>> THEN "10.0.0.7" ELSE
                           IF s[1] = 4 THEN "1.1.1.1" ELSE "2606::1"]
Service == [s \in Sockets |-> {s[2], IF s[1] = 4 THEN 1 ELSE 443}]
Number  == [s \in Sockets |-> CASE s = <<4, 1>> -> 11 [] s = <<4, 2>> -> 12
                                [] s = <<6, 1>> -> 13 [] OTHER -> 0]
Process == [s \in Sockets |-> IF s[2] = 1 THEN [pid |-> 7, name |-> "sshd"]
                              ELSE [pid |-> 8, name |-> "curl"]]
Account == [s \in Sockets |-> IF s[2] = 1 THEN "root" ELSE "ann"]
Count64 == [s \in Sockets |-> CASE s = <<4, 1>> -> 5 [] Number[s] = 0 -> 0
                                [] OTHER -> s[2]]
Name    == [a \in {"10.0.0.7", "1.1.1.1", "2606::1", "a00:7::", "101:101::"} |->
              CASE a = "1.1.1.1" -> "one" [] a = "2606::1" -> "one" [] OTHER -> ""]
Class   == [a \in DOMAIN Name |-> IF a = "10.0.0.7" THEN "local" ELSE "external"]
As6     == [a \in DOMAIN Name |-> CASE a = "10.0.0.7" -> "a00:7::"
                                    [] a = "1.1.1.1" -> "101:101::"
                                    [] OTHER -> a]

Texts == DOMAIN Name \cup {"", "-", "sshd", "curl", "one"}
NoFilter == [pid |-> 0, proc |-> Texts, target |-> Texts, port |-> 0,
             localOnly |-> FALSE, externalOnly |-> FALSE]
Some == {NoFilter,
         [NoFilter EXCEPT !.target = {"one"}, !.externalOnly = TRUE],
         [NoFilter EXCEPT !.localOnly = TRUE, !.pid = 7]}
Typed == {NoArgument, [number |-> 2, texts |-> {}], [number |-> 70000, texts |-> {"curl"}]}

(* Of two connections with one address, the lookup of one fails.           *)
OneMissed == {{<<4, 2>>}}

IPv6Disabled == {{}, {6}}
=============================================================================
