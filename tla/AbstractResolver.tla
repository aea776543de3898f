-------------------------- MODULE AbstractResolver --------------------------
(***************************************************************************)
(* What dns.Resolver promises the collection loop: a call of               *)
(* ResolveConnections names a whole list of connections at once, when it   *)
(* returns.  DnsResolver, with its goroutines, its semaphore and its       *)
(* locked cache, is shown to implement it.                                 *)
(***************************************************************************)
CONSTANTS
  Conns,      \* the connections of one list
  IPs,        \* remote addresses
  Special,    \* the loopback and unspecified ones, that are never looked up
  PTR,        \* PTR[ip]: the names the DNS may give for ip
  NoIP,       \* nil address
  NoName,     \* empty host name
  Unknown     \* an address that is not in the cache

VARIABLES
  busy,       \* whether a call is under way
  remote,     \* the addresses of the list
  host,       \* the names of the list
  cache       \* the names known from earlier calls

vars == <<busy, remote, host, cache>>

Nameless == [c \in Conns |-> NoName]

Init ==
  /\ busy = FALSE
  /\ remote = [c \in Conns |-> NoIP]
  /\ host = Nameless
  /\ cache = [ip \in IPs |-> Unknown]

(* A new list, without names, is passed to ResolveConnections.             *)
Call ==
  /\ ~busy /\ busy' = TRUE
  /\ remote' \in [Conns -> IPs \cup {NoIP}]
  /\ host' = Nameless
  /\ UNCHANGED cache

(* A list is named H and leaves the cache K behind.  What was cached stays *)
(* and is the name of every connection to that address.  What was not is   *)
(* looked up, perhaps more than once and with different outcomes: each     *)
(* connection gets one of them, and the cache keeps one of those.          *)
To(ip) == {c \in Conns : remote[c] = ip}

Named(H) ==
  \A c \in Conns :
    IF remote[c] \in {NoIP} \cup Special THEN H[c] = NoName
    ELSE /\ H[c] \in PTR[remote[c]] \cup {NoName}
         /\ cache[remote[c]] # Unknown => H[c] = cache[remote[c]]

Learnt(H, K) ==
  \A ip \in IPs :
    IF cache[ip] # Unknown \/ ip \in Special \/ To(ip) = {}
    THEN K[ip] = cache[ip]
    ELSE \E c \in To(ip) : K[ip] = H[c]

Return ==
  /\ busy /\ busy' = FALSE
  /\ Named(host') /\ Learnt(host', cache')
  /\ UNCHANGED remote

Next == Call \/ Return

Spec == Init /\ [][Next]_vars
=============================================================================
