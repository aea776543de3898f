---------------------------- MODULE DnsResolver ----------------------------
(***************************************************************************)
(* internal/dns/resolver.go: reverse DNS names for a list of connections.  *)
(*                                                                         *)
(* ResolveConnections starts a goroutine per connection, lets MaxLookups   *)
(* of them run at a time (the buffered channel sem) and waits for all of   *)
(* them (the WaitGroup wg).  They share a cache under an RWMutex, which is *)
(* released during the lookup.  The watch loop calls ResolveConnections    *)
(* once per refresh on new Connection values, one call at a time, with the *)
(* same Resolver: the cache is what lives on.  main makes it enabled.      *)
(***************************************************************************)
EXTENDS Integers, FiniteSets

CONSTANTS
  NConns,       \* length of the list of connections
  IPs,          \* remote addresses
  Special,      \* the loopback and unspecified ones
  PTR,          \* PTR[ip]: the names a lookup of ip may return
  MaxLookups,   \* capacity of the semaphore (16)
  NoIP,         \* a nil address
  NoName,       \* the empty host name
  Unknown       \* an address that is not in the cache

Conns == 1..NConns
Names == UNION {PTR[ip] : ip \in IPs}

ASSUME DnsAssumption ==
  /\ NConns \in Nat
  /\ MaxLookups \in Nat \ {0}
  /\ Special \subseteq IPs
  /\ DOMAIN PTR = IPs
  /\ NoIP \notin IPs
  /\ NoName \notin Names
  /\ Unknown \notin Names \cup {NoName}

VARIABLES
  main,     \* what the caller does: idle, or the loop and the Wait
  next,     \* the loop's position in the list
  remote,   \* remote[c]: RemoteIP
  host,     \* host[c]: RemoteHost
  cache,    \* cache[ip]: the name cached for ip, or Unknown
  pc,       \* pc[c]: where the goroutine for c stands
  name,     \* name[c]: what it is about to store or to return
  sem,      \* tokens in the semaphore
  wg,       \* counter of the WaitGroup
  readers,  \* goroutines that hold the RWMutex for reading
  writers,  \* goroutines that hold it for writing
  known     \* history variable: the cache when the call began

vars == <<main, next, remote, host, cache, pc, name, sem, wg,
          readers, writers, known>>

(* The places of a goroutine, in the order in which it passes them; "none" *)
(* is before it is started and after its end.                              *)
Holding == {"resolve", "reading", "lookup", "answered", "storing",
            "assign", "release"}
Places == {"none", "queued", "done"} \cup Holding

Move(c, from, to) == pc[c] = from /\ pc' = [pc EXCEPT ![c] = to]

-----------------------------------------------------------------------------
Init ==
  /\ main = "idle"
  /\ next = 1
  /\ remote = [c \in Conns |-> NoIP]
  /\ host = [c \in Conns |-> NoName]
  /\ cache = [ip \in IPs |-> Unknown]
  /\ pc = [c \in Conns |-> "none"]
  /\ name = [c \in Conns |-> NoName]
  /\ sem = 0 /\ wg = 0
  /\ readers = {} /\ writers = {}
  /\ known = cache

(* The caller collects new connections, none with a name, and passes them  *)
(* to ResolveConnections.                                                  *)
Call ==
  /\ main = "idle"
  /\ main' = "loop"
  /\ next' = 1
  /\ remote' \in [Conns -> IPs \cup {NoIP}]
  /\ host' = [c \in Conns |-> NoName]
  /\ known' = cache
  /\ UNCHANGED <<cache, pc, name, sem, wg, readers, writers>>

(* One turn of the loop: a connection with an address and no name gets a   *)
(* goroutine, counted before it starts.                                    *)
Spawn ==
  /\ main = "loop"
  /\ next <= NConns
  /\ next' = next + 1
  /\ IF remote[next] = NoIP \/ host[next] # NoName
     THEN UNCHANGED <<pc, wg>>
     ELSE Move(next, "none", "queued") /\ wg' = wg + 1
  /\ UNCHANGED <<main, remote, host, cache, name, sem, readers, writers,
                 known>>

ReturnAtOnce ==                                            \* mutant
  /\ main = "loop"
  /\ next > NConns
  /\ main' = "idle"
  /\ UNCHANGED <<next, remote, host, cache, pc, name, sem, wg, readers,
                 writers, known>>

(* wg.Wait: the call returns when every goroutine it started has ended.    *)
Wait ==
  /\ main = "loop"
  /\ next > NConns
  /\ wg = 0
  /\ main' = "idle"
  /\ UNCHANGED <<next, remote, host, cache, pc, name, sem, wg, readers,
                 writers, known>>

AcquireUnbounded(c) ==                                     \* mutant
  /\ Move(c, "queued", "resolve")
  /\ sem' = sem + 1
  /\ UNCHANGED <<main, next, remote, host, cache, name, wg, readers, writers,
                 known>>

(* sem <- struct{}{} blocks while the buffer is full.                      *)
Acquire(c) ==
  /\ Move(c, "queued", "resolve")
  /\ sem < MaxLookups
  /\ sem' = sem + 1
  /\ UNCHANGED <<main, next, remote, host, cache, name, wg, readers, writers,
                 known>>

(* Resolve gives loopback and unspecified addresses no name.               *)
SkipSpecial(c) ==
  /\ Move(c, "resolve", "assign")
  /\ remote[c] \in Special
  /\ name' = [name EXCEPT ![c] = NoName]
  /\ UNCHANGED <<main, next, remote, host, cache, sem, wg, readers, writers,
                 known>>

RLockNoWait(c) ==                                          \* mutant
  /\ Move(c, "resolve", "reading")
  /\ remote[c] \notin Special
  /\ readers' = readers \cup {c}
  /\ UNCHANGED <<main, next, remote, host, cache, name, sem, wg, writers,
                 known>>
RLock(c) ==
  /\ Move(c, "resolve", "reading")
  /\ remote[c] \notin Special
  /\ writers = {}
  /\ readers' = readers \cup {c}
  /\ UNCHANGED <<main, next, remote, host, cache, name, sem, wg, writers,
                 known>>

ReadCacheNameOnly(c) ==                                    \* mutant
  /\ pc[c] = "reading"
  /\ readers' = readers \ {c}
  /\ \/ /\ cache[remote[c]] \notin {Unknown, NoName}
        /\ Move(c, "reading", "assign")
        /\ name' = [name EXCEPT ![c] = cache[remote[c]]]
     \/ /\ cache[remote[c]] \in {Unknown, NoName}
        /\ Move(c, "reading", "lookup")
        /\ UNCHANGED name
  /\ UNCHANGED <<main, next, remote, host, cache, sem, wg, writers, known>>

(* The cache is read and the read lock released; what is found, the empty  *)
(* name of an earlier failure too, is the result.                          *)
ReadCache(c) ==
  /\ pc[c] = "reading"
  /\ readers' = readers \ {c}
  /\ \/ /\ cache[remote[c]] # Unknown
        /\ Move(c, "reading", "assign")
        /\ name' = [name EXCEPT ![c] = cache[remote[c]]]
     \/ /\ cache[remote[c]] = Unknown
        /\ Move(c, "reading", "lookup")
        /\ UNCHANGED name
  /\ UNCHANGED <<main, next, remote, host, cache, sem, wg, writers, known>>

(* LookupAddr comes back, with no lock held: a name, or, for a timeout, an *)
(* error or an empty answer, none.  Two lookups of one address may differ. *)
Lookup(c) ==
  /\ Move(c, "lookup", "answered")
  /\ \E n \in PTR[remote[c]] \cup {NoName} : name' = [name EXCEPT ![c] = n]
  /\ UNCHANGED <<main, next, remote, host, cache, sem, wg, readers, writers,
                 known>>

Lock(c) ==
  /\ Move(c, "answered", "storing")
  /\ readers = {} /\ writers = {}
  /\ writers' = {c}
  /\ UNCHANGED <<main, next, remote, host, cache, name, sem, wg, readers,
                 known>>

(* The outcome is cached, whatever it is and whatever was stored for the   *)
(* address during the lookup; the deferred Unlock follows.                 *)
Store(c) ==
  /\ Move(c, "storing", "assign")
  /\ cache' = [cache EXCEPT ![remote[c]] = name[c]]
  /\ writers' = writers \ {c}
  /\ UNCHANGED <<main, next, remote, host, name, sem, wg, readers, known>>

AssignLoopVariable(c) ==                                   \* mutant
  /\ Move(c, "assign", "release")
  /\ host' = [host EXCEPT ![IF next > NConns THEN NConns ELSE next] = name[c]]
  /\ name' = [name EXCEPT ![c] = NoName]
  /\ UNCHANGED <<main, next, remote, cache, sem, wg, readers, writers, known>>

(* RemoteHost is set; the result, local to the goroutine, is gone.         *)
Assign(c) ==
  /\ Move(c, "assign", "release")
  /\ host' = [host EXCEPT ![c] = name[c]]
  /\ name' = [name EXCEPT ![c] = NoName]
  /\ UNCHANGED <<main, next, remote, cache, sem, wg, readers, writers, known>>

ReleaseLeaks(c) ==                                         \* mutant
  /\ Move(c, "release", "done")
  /\ sem' = IF host[c] = NoName THEN sem ELSE sem - 1
  /\ UNCHANGED <<main, next, remote, host, cache, name, wg, readers, writers,
                 known>>

(* The deferred calls, last first: the token goes back, then wg.Done.      *)
Release(c) ==
  /\ Move(c, "release", "done")
  /\ sem' = sem - 1
  /\ UNCHANGED <<main, next, remote, host, cache, name, wg, readers, writers,
                 known>>

Done(c) ==
  /\ Move(c, "done", "none")
  /\ wg' = wg - 1
  /\ UNCHANGED <<main, next, remote, host, cache, name, sem, readers, writers,
                 known>>

(* The steps that no other goroutine can hold up, and those that wait.     *)
Run(c) == SkipSpecial(c) \/ ReadCache(c) \/ Lookup(c) \/ Store(c)
            \/ Assign(c) \/ Release(c) \/ Done(c)
Contend(c) == Acquire(c) \/ RLock(c) \/ Lock(c)

Next ==
  \/ Call \/ Spawn \/ Wait
  \/ \E c \in Conns : Run(c) \/ Contend(c)

Spec == Init /\ [][Next]_vars

(* Goroutines keep running; a lookup ends, at the latest when its context  *)
(* times out; senders on a channel queue up, and an RWMutex lets neither   *)
(* readers nor writers starve.                                             *)
Fairness ==
  /\ WF_vars(Spawn \/ Wait)
  /\ \A c \in Conns : WF_vars(Run(c)) /\ SF_vars(Contend(c))

FairSpec == Spec /\ Fairness

-----------------------------------------------------------------------------
(* Every variable keeps its type; the counters never go below zero, where  *)
(* the WaitGroup would panic.                                              *)
TypeOK ==
  /\ main \in {"idle", "loop"}
  /\ next \in 1..(NConns + 1)
  /\ remote \in [Conns -> IPs \cup {NoIP}]
  /\ host \in [Conns -> Names \cup {NoName}]
  /\ cache \in [IPs -> Names \cup {NoName, Unknown}]
  /\ pc \in [Conns -> Places]
  /\ name \in [Conns -> Names \cup {NoName}]
  /\ sem \in 0..MaxLookups
  /\ wg \in Nat
  /\ readers \subseteq Conns
  /\ writers \subseteq Conns
  /\ known \in [IPs -> Names \cup {NoName, Unknown}]

(* "Limit concurrency for lookups": never more queries in flight than the  *)
(* semaphore has places.                                                   *)
LookupsBounded == Cardinality({c \in Conns : pc[c] = "lookup"}) <= MaxLookups

(* No goroutine touches the cache map while another writes it, which would *)
(* crash the program.                                                      *)
NoConcurrentMapAccess ==
  \A c, d \in Conns :
    pc[c] = "storing" /\ pc[d] \in {"reading", "storing"} => c = d

(* Once ResolveConnections has returned, no goroutine of it is left that   *)
(* could still write to a connection or to the cache: the caller reads     *)
(* them without a lock.                                                    *)
NoLateWrite == [][main = "idle" => UNCHANGED <<cache, pc>>
                      /\ (host' # host => main' = "loop")]_vars

(* What was in the cache when the call began is neither looked up again    *)
(* nor replaced.                                                           *)
CachedIsFinal ==
  \A ip \in IPs : known[ip] # Unknown =>
    /\ cache[ip] = known[ip]
    /\ \A c \in Conns : remote[c] = ip =>
         pc[c] \notin {"lookup", "answered", "storing"}

(* Seen from the caller, a call names its whole list in one step, when it  *)
(* returns, and does so as AbstractResolver says.                          *)
Abstract == INSTANCE AbstractResolver
              WITH busy <- main = "loop",
                   host <- IF main = "loop" THEN [c \in Conns |-> NoName] ELSE host,
                   cache <- IF main = "loop" THEN known ELSE cache
AbstractSpec == Abstract!Spec

(* Every call returns: no goroutine is left waiting for the semaphore or   *)
(* the lock for ever, whichever lookups fail.                              *)
EveryCallReturns == main = "loop" ~> main = "idle"
=============================================================================
