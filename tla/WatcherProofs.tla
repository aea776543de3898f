--------------------------- MODULE WatcherProofs ---------------------------
(***************************************************************************)
(* What holds of Watcher for any sockets, addresses and counts: the types, *)
(* which say that no difference of counts is negative, and that a rate is  *)
(* of one socket.                                                          *)
(***************************************************************************)
EXTENDS Watcher, TLAPS

(* Until Rates replaces it, the map is of entries of the previous list;    *)
(* then of this one, until the iteration ends and this is the previous.    *)
RatesSet == pc \in {"record", "show"}

MapIsPrevious ==
  /\ ~RatesSet => rates = <<>> /\ prevConns \subseteq before
  /\ RatesSet => prevConns \subseteq conns

Inv == TypeOK /\ MapIsPrevious /\ RatesAreOfOneSocket

-----------------------------------------------------------------------------
(* A difference is taken only where it is not negative.                    *)
LEMMA GrowthType ==
  ASSUME TypeOK, NEW c \in conns
  PROVE  Growth(c) \in 0..MaxCount
<1> DEFINE older == {p \in prevConns : connKey(p) = connKey(c) /\ c.rx >= p.rx}
<1>1. CASE sinceLast > 0 /\ older # {}
  <2>1. PICK p \in older : p = (CHOOSE q \in older : TRUE)
    BY <1>1
  <2>2. Growth(c) = c.rx - p.rx
    BY <1>1, <2>1 DEF Growth
  <2>3. p.rx \in 0..MaxCount /\ c.rx \in 0..MaxCount /\ c.rx >= p.rx
    BY <2>1 DEF TypeOK, Report
  <2>4. QED
    BY <2>2, <2>3, WatcherAssumption
<1>2. CASE ~(sinceLast > 0 /\ older # {})
  BY <1>2, WatcherAssumption DEF Growth
<1>3. QED
  BY <1>1, <1>2

(* The rate of a socket with an inode is its own growth since an entry of  *)
(* the map.                                                                *)
LEMMA GrowthOfOneSocket ==
  ASSUME TypeOK, NEW c \in conns, c.held, Growth(c) > 0
  PROVE  /\ sinceLast > 0
         /\ \E p \in prevConns : p.held /\ p.sock = c.sock /\ Growth(c) = c.rx - p.rx
<1> DEFINE older == {p \in prevConns : connKey(p) = connKey(c) /\ c.rx >= p.rx}
<1>1. sinceLast > 0 /\ older # {}
  BY DEF Growth
<1>2. PICK p \in older : p = (CHOOSE q \in older : TRUE)
  BY <1>1
<1>3. Growth(c) = c.rx - p.rx
  BY <1>1, <1>2 DEF Growth
<1>4. p.held /\ p.sock = c.sock
  <2>1. p.held \in BOOLEAN
    BY <1>2 DEF TypeOK, Report
  <2>2. connKey(p) = connKey(c)
    BY <1>2
  <2>3. connKey(c) = <<"ino", c.sock>>
    BY DEF connKey
  <2>4. QED
    BY <2>1, <2>2, <2>3 DEF connKey
<1>5. QED
  BY <1>1, <1>2, <1>3, <1>4

LEMMA TypeInit == Init => TypeOK
<1>1. -1 \in -1..MaxTime /\ 0 \in -1..MaxTime /\ 0 \in 0..MaxTime
  BY WatcherAssumption
<1>2. Init => rates \in [DOMAIN rates -> 0..MaxCount]
  BY DEF Init
<1>3. QED
  BY <1>1, <1>2 DEF Init, TypeOK

LEMMA TypeStep == TypeOK /\ [Next]_vars => TypeOK'
<1> SUFFICES ASSUME TypeOK, [Next]_vars PROVE TypeOK'
  OBVIOUS
<1> USE WatcherAssumption DEF list, times
<1>1. CASE Kernel
  BY <1>1 DEF Kernel, TypeOK
<1>2. CASE Collect
  BY <1>2 DEF Collect, TypeOK
<1>a. CASE See
  <2>1. Sightings \subseteq Report
    BY DEF Sightings
  <2>2. conns' \subseteq Report
    BY <1>a, <2>1 DEF See, TypeOK
  <2>3. QED
    BY <1>a, <2>2 DEF See, TypeOK
<1>b. CASE ScannerReturns
  BY <1>b DEF ScannerReturns, TypeOK
<1>3. CASE Rates
  <2>1. rates' = [c \in conns |-> Growth(c)]
    BY <1>3 DEF Rates
  <2>2. \A c \in conns : Growth(c) \in 0..MaxCount
    BY GrowthType
  <2>3. rates' \in [DOMAIN rates' -> 0..MaxCount]
    BY <2>1, <2>2
  <2>4. prevConns' \subseteq Report
    BY <1>3 DEF Rates, MapsOf, TypeOK
  <2>5. QED
    BY <1>3, <2>3, <2>4 DEF Rates, TypeOK
<1>4. CASE Record \/ TakeTick \/ TakeSignal \/ Fire \/ Signal
  BY <1>4 DEF Record, TakeTick, TakeSignal, Fire, Signal, TypeOK
<1>c. CASE Show
  <2>1. rates' \in [DOMAIN rates' -> 0..MaxCount] /\ dt' \in -1..MaxTime
    BY <1>c DEF Show
  <2>2. QED
    BY <1>c, <2>1 DEF Show, TypeOK
<1>5. CASE Tick
  BY <1>5 DEF Tick, TypeOK
<1>6. CASE UNCHANGED vars
  BY <1>6 DEF vars, TypeOK
<1>7. QED
  BY <1>1, <1>2, <1>a, <1>b, <1>3, <1>4, <1>c, <1>5, <1>6 DEF Next, Iterate

(* Type correctness: for any sockets, addresses and counts, the variables  *)
(* keep their types, and no rate comes from a negative difference.         *)
THEOREM TypeCorrect == Spec => []TypeOK
  BY TypeInit, TypeStep, PTL DEF Spec

-----------------------------------------------------------------------------
(* Rates makes the map of the list; the list that ends is the previous one *)
LEMMA InvStep == Inv /\ [Next]_vars => MapIsPrevious' /\ RatesAreOfOneSocket'
<1> SUFFICES ASSUME Inv, [Next]_vars
             PROVE  MapIsPrevious' /\ RatesAreOfOneSocket'
  OBVIOUS
<1> USE DEF Inv, list, times, RatesSet
<1>1. CASE Kernel \/ Fire \/ Signal \/ Tick \/ Collect \/ See \/ ScannerReturns
  BY <1>1 DEF Kernel, Fire, Signal, Tick, Collect, See, ScannerReturns,
              MapIsPrevious, RatesAreOfOneSocket
<1>2. CASE Rates
  <2>1. /\ pc' = "record" /\ dt' = sinceLast /\ before' = before /\ conns' = conns
        /\ rates' = [c \in conns |-> Growth(c)]
        /\ prevConns' \subseteq conns
        /\ prevConns \subseteq before
    BY <1>2 DEF Rates, MapIsPrevious, MapsOf
  <2>2. MapIsPrevious'
    BY <2>1 DEF MapIsPrevious
  <2>3. ASSUME NEW c \in conns, c.held, Growth(c) > 0
        PROVE  /\ dt' > 0
               /\ \E p \in before' : p.held /\ p.sock = c.sock /\ Growth(c) = c.rx - p.rx
    BY <2>1, <2>3, GrowthOfOneSocket
  <2>4. DOMAIN rates' = conns /\ \A c \in conns : rates'[c] = Growth(c)
    BY <2>1
  <2>5. QED
    BY <2>2, <2>3, <2>4 DEF RatesAreOfOneSocket
<1>3. CASE Show
  BY <1>3 DEF Show, MapIsPrevious, RatesAreOfOneSocket
<1>4. CASE Record \/ TakeTick \/ TakeSignal
  BY <1>4 DEF Record, TakeTick, TakeSignal, MapIsPrevious, RatesAreOfOneSocket
<1>5. CASE UNCHANGED vars
  BY <1>5 DEF vars, MapIsPrevious, RatesAreOfOneSocket
<1>6. QED
  BY <1>1, <1>2, <1>3, <1>4, <1>5 DEF Next, Iterate

(* renderIteration: whatever sockets come and go, with whatever addresses, *)
(* the rate of a connection that has an inode is the growth of that        *)
(* socket's own count since the previous list, over a time that is not 0.  *)
THEOREM RatesAreRight == Spec => []RatesAreOfOneSocket
<1>1. Init => Inv
  BY TypeInit DEF Init, Inv, MapIsPrevious, RatesAreOfOneSocket
<1>2. Inv /\ [Next]_vars => Inv'
  BY TypeStep, InvStep DEF Inv
<1>3. Inv => RatesAreOfOneSocket
  BY DEF Inv
<1>4. QED
  BY <1>1, <1>2, <1>3, PTL DEF Spec

-----------------------------------------------------------------------------
(* "Handle interrupts gracefully": an interrupt stays in sigChan until Run *)
(* takes it, and Run ends by nothing else: not by a history that cannot be *)
(* written, nor by a tick that finds it busy.                              *)
OnlySignalsEndRun == interrupted <=> sigChan \/ pc = "done"

(* Run has ended, or has a signal waiting, exactly when there was one.     *)
THEOREM SignalsAreKept == Spec => []OnlySignalsEndRun
<1>1. Init => OnlySignalsEndRun
  BY DEF Init, OnlySignalsEndRun
<1>2. OnlySignalsEndRun /\ [Next]_vars => OnlySignalsEndRun'
  BY DEF OnlySignalsEndRun, Next, vars, Iterate, Kernel, Collect, See,
         ScannerReturns, Rates, Record, Show, TakeTick, TakeSignal, Fire, Signal, Tick
<1>3. QED
  BY <1>1, <1>2, PTL DEF Spec
=============================================================================
