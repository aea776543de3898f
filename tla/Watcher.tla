------------------------------ MODULE Watcher ------------------------------
(***************************************************************************)
(* internal/watcher/watcher.go: the --watch loop.  Run renders once, then  *)
(* waits in a select for the ticker or for a signal.  renderIteration      *)
(* collects the connections, correlates and resolves them, sets their      *)
(* rates from the previous list, records a snapshot and prints.            *)
(*                                                                         *)
(* The receive side stands for both directions.  The collector is reduced  *)
(* to two scanners that come upon any sockets in any order; Collector has  *)
(* the walks, and collectConnections never returns an error.  main passes  *)
(* a background context, so ctx.Done never fires.                          *)
(***************************************************************************)
EXTENDS Integers, FiniteSets

CONSTANTS
  Socks,      \* every socket the kernel ever opens
  AddrOf,     \* AddrOf[s]: protocol and both endpoints of s
  MaxCount,   \* bound on the byte counts a scanner reports
  MaxList,    \* bound on the length of a list
  MaxTime     \* bound on the time between two iterations

ASSUME WatcherAssumption ==
  /\ DOMAIN AddrOf = Socks
  /\ MaxCount \in Nat \ {0}
  /\ MaxList \in Nat \ {0}
  /\ MaxTime \in Nat \ {0}

VARIABLES
  life,        \* life[s]: "new", "held" by a process, "orphan" or "gone"
  pc,          \* where Run stands
  ticker,      \* ticker.C holds a tick
  sigChan,     \* sigChan holds a signal
  conns,       \* the list of the current iteration
  rates,       \* rates[c]: by how much the count of c has grown
  prevConns,   \* the values of the map of the previous one
  sinceLast,   \* the time since lastTime, -1 while that is zero
  dt,          \* what the rates of this iteration were divided by
  before,      \* history variable: the list of the iteration before it
  age,         \* history variable: the time since the list was collected
  gap,         \* history variable: ... between it and the one before
  interrupted  \* history variable: a signal has been sent

list == <<conns, rates, prevConns, sinceLast, dt>>
times == <<age, gap>>
vars == <<life, pc, ticker, sigChan, list, before, times, interrupted>>

-----------------------------------------------------------------------------
(* The kernel.  A socket has an inode while a process holds it; closed, it *)
(* may live on without one (FIN_WAIT, TIME_WAIT).                          *)
Kernel ==
  /\ \E s \in Socks :
       \/ /\ life[s] = "new"
          /\ \A t \in Socks : AddrOf[t] = AddrOf[s] => life[t] \in {"new", "gone"}
          /\ life' = [life EXCEPT ![s] = "held"]
       \/ life[s] = "held" /\ life' = [life EXCEPT ![s] = "orphan"]
       \/ life[s] \in {"held", "orphan"} /\ life' = [life EXCEPT ![s] = "gone"]
  /\ UNCHANGED <<pc, ticker, sigChan, list, before, times, interrupted>>

(* What a scanner can report of a socket at this moment.  The count is the *)
(* receive queue in procnet, words of tcp_info or the queue in netlink,    *)
(* and so any number.                                                      *)
Report == [sock : Socks, held : BOOLEAN, by : {"netlink", "procnet"},
           rx : 0..MaxCount]

Sightings ==
  {c \in Report : life[c.sock] = IF c.held THEN "held" ELSE "orphan"}

connKeyAddress(c) == <<"addr", AddrOf[c.sock]>>            \* mutant
connKey(c) == IF c.held THEN <<"ino", c.sock>> ELSE <<"addr", AddrOf[c.sock]>>

(* The maps made of the list: of two entries with one key the later one    *)
(* stays, which is procnet's if there is one.                              *)
MapsOf(L) ==
  {m \in SUBSET L :
     \A c \in L : \E e \in m :
       /\ {d \in m : connKey(d) = connKey(c)} = {e}
       /\ connKey(e) = connKey(c) /\ (c.by = "procnet" => e.by = "procnet")}

(* The growth that a rate is made of, 0 where the code sets no rate.       *)
GrowthUnguarded(c) ==                                      \* mutant
  LET older == {p \in prevConns : connKey(p) = connKey(c)}
  IN IF sinceLast > 0 /\ older # {} THEN c.rx - (CHOOSE p \in older : TRUE).rx ELSE 0
Growth(c) ==
  LET older == {p \in prevConns : connKey(p) = connKey(c) /\ c.rx >= p.rx}
  IN IF sinceLast > 0 /\ older # {} THEN c.rx - (CHOOSE p \in older : TRUE).rx ELSE 0

-----------------------------------------------------------------------------
(* Run installs the handler, starts the ticker and renders at once.        *)
Init ==
  /\ life = [s \in Socks |-> "new"]
  /\ pc = "collect"
  /\ ticker = FALSE /\ sigChan = FALSE
  /\ conns = {} /\ rates = <<>> /\ prevConns = {} /\ before = {}
  /\ sinceLast = -1 /\ dt = 0
  /\ age = 0 /\ gap = 0
  /\ interrupted = FALSE

(* renderIteration calls the collector.                                    *)
Collect ==
  /\ pc = "collect"
  /\ pc' = "netlink"
  /\ gap' = age /\ age' = 0
  /\ UNCHANGED <<life, ticker, sigChan, list, before, interrupted>>

(* A scanner comes upon a socket, at most once each; procnet drops one     *)
(* whose inode netlink has reported.  Between two sightings the sockets    *)
(* change: a list may have one with its inode from netlink and without it  *)
(* from procnet, and two of the same addresses.                            *)
See ==
  /\ pc \in {"netlink", "procnet"}
  /\ Cardinality(conns) < MaxList
  /\ \E c \in Sightings :
       /\ c.by = pc
       /\ \A d \in conns : d.sock = c.sock => d.by # c.by /\ ~(d.held /\ c.held)
       /\ conns' = conns \cup {c}
  /\ UNCHANGED <<life, pc, ticker, sigChan, rates, prevConns, sinceLast, dt,
                 before, times, interrupted>>

ScannerReturns ==
  /\ \/ pc = "netlink" /\ pc' = "procnet"
     \/ pc = "procnet" /\ pc' = "rates"
  /\ UNCHANGED <<life, ticker, sigChan, list, before, times, interrupted>>

(* The processes are looked up and the names resolved, which takes time;   *)
(* then the clock is read, the rates are set, and the map and lastTime are *)
(* replaced.                                                               *)
Rates ==
  /\ pc = "rates"
  /\ pc' = "record"
  /\ rates' = [c \in conns |-> Growth(c)]
  /\ dt' = sinceLast
  /\ prevConns' \in MapsOf(conns)
  /\ sinceLast' = 0
  /\ UNCHANGED <<life, ticker, sigChan, conns, before, times, interrupted>>

(* The snapshot is recorded; an error of Record is dropped.                *)
RecordOrEnd ==                                             \* mutant
  /\ pc = "record"
  /\ pc' \in {"show", "done"}
  /\ UNCHANGED <<life, ticker, sigChan, list, before, times, interrupted>>
Record ==
  /\ pc = "record"
  /\ pc' = "show"
  /\ UNCHANGED <<life, ticker, sigChan, list, before, times, interrupted>>

(* The list is filtered, perhaps aggregated, and printed; it is made anew  *)
(* by the next iteration.                                                  *)
Show ==
  /\ pc = "show"
  /\ pc' = "select"
  /\ conns' = {} /\ rates' = <<>> /\ dt' = 0
  /\ before' = conns
  /\ UNCHANGED <<life, ticker, sigChan, prevConns, sinceLast, times, interrupted>>

(* The select takes a tick or a signal; when there are both, either.       *)
TakeTick ==
  /\ pc = "select"
  /\ ticker
  /\ ticker' = FALSE
  /\ pc' = "collect"
  /\ UNCHANGED <<life, sigChan, list, before, times, interrupted>>

TakeSignalWhenIdle ==                                      \* mutant
  /\ pc = "select"
  /\ sigChan /\ ~ticker
  /\ sigChan' = FALSE
  /\ pc' = "done"
  /\ UNCHANGED <<life, ticker, list, before, times, interrupted>>
TakeSignal ==
  /\ pc = "select"
  /\ sigChan
  /\ sigChan' = FALSE
  /\ pc' = "done"
  /\ UNCHANGED <<life, ticker, list, before, times, interrupted>>

(* The runtime: a tick or a signal that finds its channel full is dropped. *)
Fire ==
  /\ pc # "done"
  /\ ticker' = TRUE
  /\ UNCHANGED <<life, pc, sigChan, list, before, times, interrupted>>

Signal ==
  /\ pc # "done"
  /\ sigChan' = TRUE /\ interrupted' = TRUE
  /\ UNCHANGED <<life, pc, ticker, list, before, times>>

(* Time passes, within the bounds.  A scan takes none that would count.    *)
Tick ==
  /\ pc \notin {"netlink", "procnet"}
  /\ age < MaxTime /\ sinceLast < MaxTime
  /\ age' = age + 1
  /\ sinceLast' = IF sinceLast = -1 THEN -1 ELSE sinceLast + 1
  /\ UNCHANGED <<life, pc, ticker, sigChan, conns, rates, prevConns, dt, before, gap,
                 interrupted>>

Iterate == Collect \/ ScannerReturns \/ Rates \/ Record \/ Show

Next == Kernel \/ Iterate \/ See \/ TakeTick \/ TakeSignal \/ Fire \/ Signal \/ Tick

Spec == Init /\ [][Next]_vars

(* Collecting and resolving end (see NetlinkDump and DnsResolver), the     *)
(* ticker ticks, and select picks at random among what is ready, so that a *)
(* signal that is always there when select runs is taken in the end.       *)
FairSpec ==
  /\ Spec
  /\ WF_vars(Iterate) /\ WF_vars(Fire) /\ WF_vars(TakeTick)
  /\ SF_vars(TakeSignal)

-----------------------------------------------------------------------------
(* Every variable keeps its type: no difference of counts wraps around.    *)
TypeOK ==
  /\ life \in [Socks -> {"new", "held", "orphan", "gone"}]
  /\ pc \in {"collect", "netlink", "procnet", "rates", "record", "show",
             "select", "done"}
  /\ ticker \in BOOLEAN /\ sigChan \in BOOLEAN /\ interrupted \in BOOLEAN
  /\ rates \in [DOMAIN rates -> 0..MaxCount]
  /\ conns \subseteq Report /\ prevConns \subseteq Report /\ before \subseteq Report
  /\ sinceLast \in -1..MaxTime /\ dt \in -1..MaxTime
  /\ age \in 0..MaxTime /\ gap \in 0..MaxTime

(* "Calculate live rates based on previous iteration": the rate of a       *)
(* connection that has an inode is the growth of that very socket's count  *)
(* from the previous list to this one, whatever sockets came and went with *)
(* the same addresses, and over a time that is not zero.                   *)
RatesAreOfOneSocket ==
  \A c \in DOMAIN rates : c.held /\ rates[c] > 0 =>
    /\ dt > 0
    /\ \E p \in before : p.held /\ p.sock = c.sock /\ rates[c] = c.rx - p.rx

(* "live throughput rate calculations", "RX rate in bytes/sec": the growth *)
(* is divided by the time in which it happened.                            *)
RatesOverTheirTime ==
  \A c \in DOMAIN rates : rates[c] > 0 => dt = gap

(* Whatever sockets do and whatever Record returns, the display goes on    *)
(* being refreshed until a signal is sent.                                 *)
Refreshing == []<>(pc = "show" \/ interrupted)

(* ^C ends the run, however slow the iterations and however fast the       *)
(* ticker.                                                                 *)
SignalEndsRun == sigChan ~> pc = "done"
=============================================================================
