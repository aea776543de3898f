------------------------- MODULE NetlinkDumpProofs -------------------------
(***************************************************************************)
(* What holds of ScanSockets for any numbers of sockets, any size of the   *)
(* datagrams and under every fault.                                        *)
(***************************************************************************)
EXTENDS NetlinkDump, TLAPS

Msg == [type : {"sock", "done", "error"}, fam : {0, 4, 6}, id : Nat]

IsSock(m) == /\ m.type = "sock" /\ m.fam \in Families
             /\ m.id \in 1..Count[m.fam]

(* Everything that waits in the netlink socket is a message of some dump.  *)
QueueType ==
  /\ queue \in Seq(Seq(Msg))
  /\ \A j \in DOMAIN queue : \A i \in DOMAIN queue[j] :
       IsSock(queue[j][i]) \/ queue[j][i] \in {DONE, ERROR}

DumpType ==
  dump = NoDump \/ (dump \in [fam : Families, next : Nat]
                     /\ dump.next \in 1..(Count[dump.fam] + 1))

Parsable == [fam : Families, of : Families, id : Nat]
Real(x) == x.id \in 1..Count[x.of]

ScanType ==
  /\ pc \in {"idle", "send", "recv"}
  /\ fam \in Families
  /\ left \in BOOLEAN
  /\ got \subseteq Parsable /\ conns \subseteq Parsable
  /\ \A x \in got \cup conns : Real(x)
  /\ \A x \in got : x.fam = fam
  /\ QueueType /\ DumpType

-----------------------------------------------------------------------------
(* The program's connections in a datagram, and in all that wait.          *)
Socks(d) == {[fam |-> fam, of |-> d[i].fam, id |-> d[i].id] :
               i \in {j \in DOMAIN d : d[j].type = "sock"}}
Waiting == UNION {Socks(queue[j]) : j \in DOMAIN queue}

First(n) == {[fam |-> fam, of |-> fam, id |-> i] : i \in 1..n}

SocksOnly(d) == \A i \in DOMAIN d : d[i].type = "sock"
EndsDone(d) == /\ d # <<>> /\ d[Len(d)] = DONE
               /\ \A i \in 1..(Len(d) - 1) : d[i].type = "sock"

(* The answer to a request is an error, or what is parsed and what waits   *)
(* are together all that the kernel has dumped, with the done message at   *)
(* the very end.                                                           *)
Refused == queue = <<<<ERROR>>>> /\ dump = NoDump /\ got = {}
Dumping ==
  /\ dump # NoDump /\ dump.fam = fam
  /\ \A j \in DOMAIN queue : SocksOnly(queue[j])
  /\ got \cup Waiting = First(dump.next - 1)
Dumped ==
  /\ dump = NoDump /\ queue # <<>>
  /\ \A j \in 1..(Len(queue) - 1) : SocksOnly(queue[j])
  /\ EndsDone(queue[Len(queue)])
  /\ got \cup Waiting = First(Count[fam])

Answer ==
  /\ pc = "send" => got = {}
  /\ pc = "send" /\ ~left => queue = <<>> /\ dump = NoDump
  /\ pc = "recv" /\ ~left => Refused \/ Dumping \/ Dumped

(* What ScanSockets has collected: IPv4 whole or not at all, nothing yet   *)
(* when the IPv4 dump has left something behind.                           *)
Collected ==
  /\ fam = 4 => ~left /\ conns = {}
  /\ pc # "idle" => conns \in {{}, All(4)}
  /\ pc # "idle" /\ left => conns = {}
  /\ pc = "idle" /\ ~left =>
       \E A \in {{}, All(4)}, B \in {{}, All(6)} : conns = A \cup B
  /\ pc = "idle" /\ left => \A x \in conns : x.fam = 6

DumpInv == ScanType /\ Answer /\ Collected

-----------------------------------------------------------------------------
(* A dump that runs may be refused, and a message is of the type Msg.      *)
LEMMA Messages ==
  /\ DONE \in Msg /\ ERROR \in Msg
  /\ \A f \in Families : \A n \in Nat : Sock(f, n) \in Msg
  BY DEF DONE, ERROR, Sock, Msg, Families

(* Parsing stops at the first message that is no socket.                   *)
LEMMA ParsedType ==
  ASSUME ScanType, NEW j \in DOMAIN queue
  PROVE  \A x \in Parsed(queue[j]) : x \in Parsable /\ Real(x) /\ x.fam = fam
<1> SUFFICES ASSUME NEW x \in Parsed(queue[j])
             PROVE  x \in Parsable /\ Real(x) /\ x.fam = fam
  OBVIOUS
<1>1. PICK i \in DOMAIN queue[j] :
        /\ \A k \in 1..i : queue[j][k].type = "sock"
        /\ x = [fam |-> fam, of |-> queue[j][i].fam, id |-> queue[j][i].id]
  BY DEF Parsed
<1>2. queue[j] \in Seq(Msg) /\ i \in Nat \ {0}
  BY DEF ScanType, QueueType
<1>3. IsSock(queue[j][i])
  BY <1>1, <1>2 DEF ScanType, QueueType, DONE, ERROR
<1>4. QED
  BY <1>1, <1>3, DumpAssumption DEF IsSock, Parsable, Real, ScanType, Families

(* A datagram of sockets only is parsed whole, and so is one up to the     *)
(* done message at its end; neither ends the dump otherwise.               *)
LEMMA ParsedWhole ==
  ASSUME NEW d \in Seq(Msg), SocksOnly(d) \/ EndsDone(d)
  PROVE  /\ Parsed(d) = Socks(d)
         /\ ~EndedBy(d, "error")
         /\ EndedBy(d, "done") <=> EndsDone(d)
<1>1. CASE SocksOnly(d)
  BY <1>1 DEF SocksOnly, EndsDone, Parsed, Socks, EndedBy, DONE
<1>2. CASE EndsDone(d)
  <2>1. Len(d) \in Nat \ {0} /\ DOMAIN d = 1..Len(d)
    BY <1>2 DEF EndsDone
  <2>2. \A i \in DOMAIN d : d[i].type = "sock" <=> i # Len(d)
    BY <1>2, <2>1 DEF EndsDone, DONE
  <2>3. \A i \in DOMAIN d : (\A k \in 1..i : d[k].type = "sock") <=> i # Len(d)
    BY <2>1, <2>2
  <2>4. Parsed(d) = Socks(d)
    BY <2>2, <2>3 DEF Parsed, Socks
  <2>5. EndedBy(d, "done")
    BY <1>2, <2>1, <2>2 DEF EndedBy, EndsDone, DONE
  <2>6. ~EndedBy(d, "error")
    BY <1>2, <2>1, <2>2 DEF EndedBy, EndsDone, DONE
  <2>7. QED
    BY <1>2, <2>4, <2>5, <2>6
<1>3. QED
  BY <1>1, <1>2

-----------------------------------------------------------------------------
(* Fill appends one datagram, of sockets only or with the done message     *)
(* behind them.                                                            *)
LEMMA FillShape ==
  ASSUME ScanType, Fill
  PROVE  \E d \in Seq(Msg) :
           /\ queue' = Append(queue, d)
           /\ \A i \in DOMAIN d : IsSock(d[i]) \/ d[i] = DONE
           /\ \/ /\ SocksOnly(d)
                 /\ dump'.fam = dump.fam /\ dump' # NoDump
                 /\ dump'.next \in (dump.next + 1)..(Count[dump.fam] + 1)
                 /\ dump' \in [fam : Families, next : Nat]
                 /\ Socks(d) = {[fam |-> fam, of |-> dump.fam, id |-> i] :
                                  i \in dump.next..(dump'.next - 1)}
              \/ /\ EndsDone(d)
                 /\ dump' = NoDump
                 /\ Socks(d) = {[fam |-> fam, of |-> dump.fam, id |-> i] :
                                  i \in dump.next..Count[dump.fam]}
<1> DEFINE f == dump.fam
           n == dump.next
<1>1. /\ f \in Families /\ n \in Nat \ {0} /\ n <= Count[f] + 1
      /\ Count[f] \in Nat /\ Batch \in Nat \ {0}
      /\ dump \in [fam : Families, next : Nat]
  BY DumpAssumption DEF Fill, ScanType, DumpType
<1>2. PICK k \in 0..Batch :
        LET socks == [i \in 1..k |-> Sock(f, n + i - 1)]
        IN /\ n + k - 1 <= Count[f]
           /\ \/ /\ k > 0
                 /\ queue' = Append(queue, socks)
                 /\ dump' = [dump EXCEPT !.next = n + k - 1 + 1]
              \/ /\ k < Batch
                 /\ n + k - 1 = Count[f]
                 /\ queue' = Append(queue, Append(socks, DONE))
                 /\ dump' = NoDump
  BY DEF Fill
<1> DEFINE s == [i \in 1..k |-> Sock(f, n + i - 1)]
           d == Append(s, DONE)
<1>3. /\ s \in Seq(Msg) /\ Len(s) = k /\ DOMAIN s = 1..k
      /\ \A i \in 1..k : s[i] = Sock(f, n + i - 1) /\ IsSock(s[i])
  <2>1. \A i \in 1..k : n + i - 1 \in 1..Count[f]
    BY <1>1, <1>2
  <2>2. \A i \in 1..k : Sock(f, n + i - 1) \in Msg /\ IsSock(Sock(f, n + i - 1))
    BY <1>1, <2>1, Messages DEF IsSock, Sock
  <2>3. QED
    BY <1>1, <2>2
<1>4. /\ d \in Seq(Msg) /\ Len(d) = k + 1 /\ DOMAIN d = 1..(k + 1)
      /\ \A i \in 1..k : d[i] = s[i]
      /\ d[k + 1] = DONE
  <2> HIDE DEF s
  <2>1. k \in Nat
    OBVIOUS
  <2>2. QED
    BY <1>3, <2>1, Messages
<1>5. Socks(s) = {[fam |-> fam, of |-> f, id |-> i] : i \in n..(n + k - 1)}
  <2>1. \A i \in 1..k : s[i].type = "sock" /\ s[i].fam = f /\ s[i].id = n + i - 1
    BY <1>3 DEF Sock
  <2> HIDE DEF s, f, n
  <2>2. Socks(s) = {[fam |-> fam, of |-> f, id |-> n + i - 1] : i \in 1..k}
    BY <1>3, <2>1 DEF Socks
  <2>3. \A i \in n..(n + k - 1) : i - n + 1 \in 1..k /\ n + (i - n + 1) - 1 = i
    BY <1>1
  <2>4. \A i \in 1..k : n + i - 1 \in n..(n + k - 1)
    BY <1>1
  <2>5. QED
    BY <2>2, <2>3, <2>4
<1>6. Socks(d) = Socks(s)
  <2>1. \A i \in 1..k : d[i].type = "sock"
    BY <1>3, <1>4 DEF IsSock
  <2> HIDE DEF s, d
  <2>2. {j \in DOMAIN d : d[j].type = "sock"} = 1..k
    BY <1>1, <1>4, <2>1 DEF DONE
  <2>3. {j \in DOMAIN s : s[j].type = "sock"} = 1..k
    BY <1>3 DEF IsSock
  <2>4. QED
    BY <1>4, <2>2, <2>3 DEF Socks
<1>7. CASE k > 0 /\ queue' = Append(queue, s) /\ dump' = [dump EXCEPT !.next = n + k - 1 + 1]
  <2>1. SocksOnly(s) /\ \A i \in DOMAIN s : IsSock(s[i])
    BY <1>3 DEF SocksOnly, IsSock
  <2>2. /\ dump'.fam = f /\ dump'.next = n + k /\ dump' # NoDump
        /\ dump' \in [fam : Families, next : Nat]
    <3>1. n + k - 1 + 1 = n + k /\ n + k \in Nat
      BY <1>1
    <3>2. dump' = [fam |-> f, next |-> n + k]
      BY <1>1, <1>7, <3>1
    <3>3. QED
      BY <1>1, <3>1, <3>2 DEF NoDump, Families
  <2>3. dump'.next \in (n + 1)..(Count[f] + 1) /\ dump'.next - 1 = n + k - 1
    BY <1>1, <1>2, <1>7, <2>2
  <2> HIDE DEF s, d
  <2>4. QED
    BY <1>3, <1>5, <1>7, <2>1, <2>2, <2>3
<1>8. CASE n + k - 1 = Count[f] /\ queue' = Append(queue, d) /\ dump' = NoDump
  <2>1. \A i \in DOMAIN d : IsSock(d[i]) \/ d[i] = DONE
    BY <1>3, <1>4
  <2>2. EndsDone(d)
    BY <1>3, <1>4 DEF EndsDone, IsSock
  <2> HIDE DEF s, d
  <2>3. QED
    BY <1>4, <1>5, <1>6, <1>8, <2>1, <2>2
<1>9. QED
  BY <1>2, <1>7, <1>8

(* Appending to the queue a datagram d of good messages.                   *)
LEMMA QueueAppend ==
  ASSUME QueueType, NEW d \in Seq(Msg), queue' = Append(queue, d),
         \A i \in DOMAIN d : IsSock(d[i]) \/ d[i] \in {DONE, ERROR}
  PROVE  /\ QueueType'
         /\ Len(queue) \in Nat
         /\ Len(queue') = Len(queue) + 1
         /\ DOMAIN queue' = 1..(Len(queue) + 1)
         /\ DOMAIN queue = 1..Len(queue)
         /\ \A j \in 1..Len(queue) : queue'[j] = queue[j]
         /\ queue'[Len(queue) + 1] = d
  BY DEF QueueType, IsSock

(* What waits after that.                                                  *)
LEMMA WaitingAppend ==
  ASSUME QueueType, NEW d \in Seq(Msg), queue' = Append(queue, d),
         fam' = fam,
         \A i \in DOMAIN d : IsSock(d[i]) \/ d[i] \in {DONE, ERROR}
  PROVE  Waiting' = Waiting \cup Socks(d)
<1>1. \A e : Socks(e)' = Socks(e)
  BY DEF Socks
<1>2. Waiting' = UNION {Socks(queue'[j]) : j \in DOMAIN queue'}
  BY <1>1 DEF Waiting
<1>3. \A x : x \in Waiting' <=> \E j \in DOMAIN queue' : x \in Socks(queue'[j])
  BY <1>2
<1>4. \A x : x \in Waiting <=> \E j \in DOMAIN queue : x \in Socks(queue[j])
  BY DEF Waiting
<1>5. /\ DOMAIN queue' = 1..(Len(queue) + 1) /\ DOMAIN queue = 1..Len(queue)
      /\ Len(queue) \in Nat /\ queue'[Len(queue) + 1] = d
      /\ \A j \in 1..Len(queue) : queue'[j] = queue[j]
  BY QueueAppend
<1>6. \A x : x \in Waiting' <=> x \in Waiting \/ x \in Socks(d)
  BY <1>3, <1>4, <1>5
<1>7. QED
  BY <1>6

(* Taking the first datagram off the queue.                                *)
LEMMA QueueTail ==
  ASSUME QueueType, queue # <<>>, queue' = Tail(queue)
  PROVE  /\ QueueType'
         /\ Len(queue) \in Nat \ {0}
         /\ DOMAIN queue = 1..Len(queue)
         /\ Head(queue) = queue[1] /\ Head(queue) \in Seq(Msg)
         /\ Len(queue') = Len(queue) - 1
         /\ DOMAIN queue' = 1..(Len(queue) - 1)
         /\ \A j \in 1..(Len(queue) - 1) : queue'[j] = queue[j + 1]
  BY DEF QueueType, IsSock

(* What it held leaves what waits.                                         *)
LEMMA WaitingTail ==
  ASSUME QueueType, queue # <<>>, queue' = Tail(queue), fam' = fam
  PROVE  Waiting = Socks(Head(queue)) \cup Waiting'
<1>1. \A e : Socks(e)' = Socks(e)
  BY DEF Socks
<1>2. Waiting' = UNION {Socks(queue'[j]) : j \in DOMAIN queue'}
  BY <1>1 DEF Waiting
<1>3. \A x : x \in Waiting' <=> \E j \in DOMAIN queue' : x \in Socks(queue'[j])
  BY <1>2
<1>4. \A x : x \in Waiting <=> \E j \in DOMAIN queue : x \in Socks(queue[j])
  BY DEF Waiting
<1>5. /\ DOMAIN queue' = 1..(Len(queue) - 1) /\ DOMAIN queue = 1..Len(queue)
      /\ Len(queue) \in Nat \ {0} /\ Head(queue) = queue[1]
      /\ \A j \in 1..(Len(queue) - 1) : queue'[j] = queue[j + 1]
  BY QueueTail
<1>6. \A j \in 2..Len(queue) : j - 1 \in DOMAIN queue' /\ queue'[j - 1] = queue[j]
  BY <1>5
<1>7. \A x : x \in Waiting <=> x \in Socks(Head(queue)) \/ x \in Waiting'
  <2> SUFFICES ASSUME NEW x
               PROVE  x \in Waiting <=> x \in Socks(Head(queue)) \/ x \in Waiting'
    OBVIOUS
  <2>1. ASSUME x \in Waiting PROVE x \in Socks(Head(queue)) \/ x \in Waiting'
    <3>1. PICK j \in 1..Len(queue) : x \in Socks(queue[j])
      BY <1>4, <1>5, <2>1
    <3>2. j = 1 \/ j \in 2..Len(queue)
      BY <1>5
    <3>3. QED
      BY <1>3, <1>5, <1>6, <3>1, <3>2
  <2>2. ASSUME x \in Socks(Head(queue)) PROVE x \in Waiting
    BY <1>4, <1>5, <2>2
  <2>3. ASSUME x \in Waiting' PROVE x \in Waiting
    <3>1. PICK j \in 1..(Len(queue) - 1) : x \in Socks(queue'[j])
      BY <1>3, <1>5, <2>3
    <3>2. j + 1 \in 1..Len(queue) /\ queue'[j] = queue[j + 1]
      BY <1>5
    <3>3. QED
      BY <1>4, <1>5, <3>1, <3>2
  <2>4. QED
    BY <2>1, <2>2, <2>3
<1>8. QED
  BY <1>7

-----------------------------------------------------------------------------
(* The kernel's datagram is the next part of the answer.                   *)
LEMMA FillStep == DumpInv /\ Fill => DumpInv'
<1> SUFFICES ASSUME DumpInv, Fill PROVE DumpInv'
  OBVIOUS
<1>1. PICK d \in Seq(Msg) :
        /\ queue' = Append(queue, d)
        /\ \A i \in DOMAIN d : IsSock(d[i]) \/ d[i] = DONE
        /\ \/ /\ SocksOnly(d)
              /\ dump'.fam = dump.fam /\ dump' # NoDump
              /\ dump'.next \in (dump.next + 1)..(Count[dump.fam] + 1)
              /\ dump' \in [fam : Families, next : Nat]
              /\ Socks(d) = {[fam |-> fam, of |-> dump.fam, id |-> i] :
                               i \in dump.next..(dump'.next - 1)}
           \/ /\ EndsDone(d)
              /\ dump' = NoDump
              /\ Socks(d) = {[fam |-> fam, of |-> dump.fam, id |-> i] :
                               i \in dump.next..Count[dump.fam]}
  BY FillShape DEF DumpInv
<1>2. UNCHANGED <<pc, fam, got, conns, left>> /\ dump # NoDump
  BY DEF Fill
<1>3. /\ dump \in [fam : Families, next : Nat]
      /\ dump.next \in 1..(Count[dump.fam] + 1) /\ Count[dump.fam] \in Nat
  BY <1>2, DumpAssumption DEF DumpInv, ScanType, DumpType
<1>4. QueueType
  BY DEF DumpInv, ScanType
<1>5. ScanType'
  <2>1. DumpType'
    BY <1>1, <1>3 DEF DumpType
  <2>2. QueueType'
    BY <1>1, <1>4, QueueAppend
  <2>3. QED
    BY <1>2, <2>1, <2>2 DEF DumpInv, ScanType, Real
<1>6. Collected'
  BY <1>2 DEF DumpInv, Collected, All
<1>7. Answer'
  <2>1. CASE pc = "recv" /\ ~left
    <3>1. Dumping
      BY <1>2, <2>1 DEF DumpInv, Answer, Refused, Dumped
    <3>2. (got \cup Waiting)' = First(dump.next - 1) \cup Socks(d)
      BY <1>1, <1>2, <1>4, <3>1, WaitingAppend DEF Dumping
    <3>3. CASE /\ SocksOnly(d)
               /\ dump'.fam = dump.fam /\ dump' # NoDump
               /\ dump'.next \in (dump.next + 1)..(Count[dump.fam] + 1)
               /\ Socks(d) = {[fam |-> fam, of |-> dump.fam, id |-> i] :
                                i \in dump.next..(dump'.next - 1)}
      <4>1. First(dump.next - 1) \cup Socks(d) = First(dump'.next - 1)
        <5>1. 1..(dump'.next - 1) =
                1..(dump.next - 1) \cup dump.next..(dump'.next - 1)
          BY <1>3, <3>3
        <5>2. QED
          BY <3>1, <3>3, <5>1 DEF First, Dumping
      <4>2. \A j \in DOMAIN queue' : SocksOnly(queue'[j])
        BY <1>1, <1>4, <3>1, <3>3, QueueAppend DEF Dumping
      <4>3. Dumping'
        BY <1>2, <3>1, <3>2, <3>3, <4>1, <4>2 DEF Dumping, First, SocksOnly
      <4>4. QED
        BY <1>2, <2>1, <4>3 DEF Answer
    <3>4. CASE /\ EndsDone(d)
               /\ dump' = NoDump
               /\ Socks(d) = {[fam |-> fam, of |-> dump.fam, id |-> i] :
                                i \in dump.next..Count[dump.fam]}
      <4>1. First(dump.next - 1) \cup Socks(d) = First(Count[fam])
        <5>1. 1..Count[dump.fam] =
                1..(dump.next - 1) \cup dump.next..Count[dump.fam]
          BY <1>3
        <5>2. QED
          BY <3>1, <3>4, <5>1 DEF First, Dumping
      <4>2. /\ \A j \in 1..(Len(queue') - 1) : SocksOnly(queue'[j])
            /\ EndsDone(queue'[Len(queue')]) /\ queue' # <<>>
        BY <1>1, <1>4, <3>1, <3>4, QueueAppend DEF Dumping
      <4>3. Dumped'
        BY <1>2, <3>2, <3>4, <4>1, <4>2 DEF Dumped, First, SocksOnly, EndsDone
      <4>4. QED
        BY <1>2, <2>1, <4>3 DEF Answer
    <3>5. QED
      BY <1>1, <3>3, <3>4
  <2>2. CASE ~(pc = "recv" /\ ~left)
    BY <1>2, <2>2 DEF DumpInv, Answer
  <2>3. QED
    BY <2>1, <2>2
<1>8. QED
  BY <1>5, <1>6, <1>7 DEF DumpInv

(* ScanSockets begins anew.                                                *)
LEMMA OpenStep == DumpInv /\ OpenSocket => DumpInv'
<1> SUFFICES ASSUME DumpInv, OpenSocket PROVE DumpInv'
  OBVIOUS
<1>1. /\ pc' \in {"send", "idle"} /\ fam' = 4 /\ left' = FALSE
      /\ conns' = {} /\ got' = {} /\ queue' = <<>> /\ dump' = NoDump
  BY DEF OpenSocket
<1>2. ScanType'
  <2>1. QueueType' /\ DumpType'
    BY <1>1 DEF QueueType, DumpType
  <2>2. pc' \in {"idle", "send", "recv"} /\ fam' \in Families /\ left' \in BOOLEAN
    BY <1>1 DEF Families
  <2>3. got' = {} /\ conns' = {}
    BY <1>1
  <2>4. QED
    BY <2>1, <2>2, <2>3 DEF ScanType
<1>3. Answer'
  BY <1>1 DEF Answer
<1>4. Collected'
  <2>1. (\E A \in {{}, All(4)}, B \in {{}, All(6)} : conns = A \cup B)'
    BY <1>1
  <2>2. QED
    BY <1>1, <2>1 DEF Collected
<1>5. QED
  BY <1>2, <1>3, <1>4 DEF DumpInv

(* dumpFamily returns without a result: nothing is collected, and nothing  *)
(* waits unless a receive has failed.                                      *)
LEMMA ReturnEmpty ==
  ASSUME DumpInv, pc \in {"send", "recv"}, Return(FALSE, {}),
         QueueType', DumpType', left' \in BOOLEAN,
         left => left', left' => left \/ fam = 4,
         fam = 4 /\ ~left' => queue' = <<>> /\ dump' = NoDump
  PROVE  DumpInv'
<1>1. /\ conns' = conns /\ got' = {}
      /\ fam = 4 => fam' = 6 /\ pc' = "send"
      /\ fam = 6 => fam' = 6 /\ pc' = "idle"
      /\ fam \in Families
  BY DEF Return, DumpInv, ScanType, Families
<1>2. ScanType'
  <2>1. conns' \subseteq Parsable /\ \A x \in got' \cup conns' : Real(x)
    BY <1>1 DEF DumpInv, ScanType
  <2>2. pc' \in {"idle", "send", "recv"} /\ fam' \in Families
    BY <1>1 DEF Families
  <2>3. got' \subseteq Parsable /\ \A x \in got' : x.fam = fam'
    BY <1>1
  <2>4. QED
    BY <2>1, <2>2, <2>3 DEF ScanType, Real
<1>3. Answer'
  BY <1>1 DEF Answer, Families
<1>4. Collected'
  <2>1. conns \in {{}, All(4)} /\ (left => conns = {}) /\ (fam = 4 => conns = {})
    BY DEF DumpInv, Collected
  <2>2. (\E A \in {{}, All(4)}, B \in {{}, All(6)} : conns = A \cup B)'
    <3>1. conns' = conns \cup {} /\ conns' \in {{}, All(4)'} /\ All(4)' = All(4)
      BY <1>1, <2>1 DEF All
    <3>2. QED
      BY <3>1
  <2>3. All(4)' = All(4)
    BY DEF All
  <2>4. QED
    BY <1>1, <2>1, <2>2, <2>3 DEF Collected, Families
<1>5. QED
  BY <1>2, <1>3, <1>4 DEF DumpInv

(* The kernel begins a dump or answers with an error.                      *)
LEMMA SendStep == DumpInv /\ Send => DumpInv'
<1> SUFFICES ASSUME DumpInv, Send PROVE DumpInv'
  OBVIOUS
<1>1. /\ pc = "send" /\ pc' = "recv" /\ Request(fam)
      /\ UNCHANGED <<fam, got, conns, left>>
      /\ fam \in Families /\ QueueType /\ DumpType /\ got = {}
  BY DEF Send, DumpInv, ScanType, Answer
<1>2. QueueType' /\ DumpType'
  <2>1. CASE queue' = Append(queue, <<ERROR>>) /\ dump' = dump
    <3>1. <<ERROR>> \in Seq(Msg) /\ \A i \in DOMAIN <<ERROR>> : <<ERROR>>[i] = ERROR
      BY Messages
    <3>2. QueueType'
      BY <1>1, <2>1, <3>1, QueueAppend
    <3>3. QED
      BY <1>1, <2>1, <3>2 DEF DumpType
  <2>2. CASE queue' = queue /\ dump' = [fam |-> fam, next |-> 1]
    BY <1>1, <2>2, DumpAssumption DEF QueueType, DumpType
  <2>3. QED
    BY <1>1, <2>1, <2>2 DEF Request
<1>3. ScanType'
  BY <1>1, <1>2 DEF DumpInv, ScanType, Real
<1>4. Collected'
  BY <1>1 DEF DumpInv, Collected, All
<1>5. Answer'
  <2>1. CASE left
    BY <1>1, <2>1 DEF Answer
  <2>2. CASE ~left
    <3>1. queue = <<>> /\ dump = NoDump
      BY <1>1, <2>2 DEF DumpInv, Answer
    <3>2. CASE queue' = Append(queue, <<ERROR>>) /\ dump' = dump
      BY <1>1, <3>1, <3>2 DEF Answer, Refused
    <3>3. CASE queue' = queue /\ dump' = [fam |-> fam, next |-> 1]
      <4>1. Waiting' = {}
        BY <3>1, <3>3 DEF Waiting
      <4>2. First(dump.next - 1)' = {}
        BY <3>3 DEF First
      <4>3. dump' # NoDump /\ dump'.fam = fam'
        BY <1>1, <3>3 DEF NoDump, Families
      <4>4. Dumping'
        BY <1>1, <3>1, <3>3, <4>1, <4>2, <4>3 DEF Dumping
      <4>5. QED
        BY <1>1, <4>4 DEF Answer
    <3>4. QED
      BY <1>1, <3>2, <3>3 DEF Request
  <2>3. QED
    BY <1>1, <2>1, <2>2 DEF DumpInv, ScanType
<1>6. QED
  BY <1>3, <1>4, <1>5 DEF DumpInv

LEMMA SendFailsStep == DumpInv /\ SendFails => DumpInv'
<1> SUFFICES ASSUME DumpInv, SendFails PROVE DumpInv'
  OBVIOUS
<1>1. pc = "send" /\ Return(FALSE, {}) /\ UNCHANGED <<queue, dump, left>>
  BY DEF SendFails
<1>2. QueueType' /\ DumpType' /\ left' \in BOOLEAN
  BY <1>1 DEF DumpInv, ScanType, QueueType, DumpType
<1>3. ~left' => queue' = <<>> /\ dump' = NoDump
  BY <1>1 DEF DumpInv, Answer
<1>4. QED
  BY <1>1, <1>2, <1>3, ReturnEmpty

LEMMA RecvFailsStep == DumpInv /\ RecvFails => DumpInv'
<1> SUFFICES ASSUME DumpInv, RecvFails PROVE DumpInv'
  OBVIOUS
<1>1. /\ pc = "recv" /\ Return(FALSE, {}) /\ UNCHANGED <<queue, dump>>
      /\ left' = (left \/ fam = 4)
  BY DEF RecvFails
<1>2. QueueType' /\ DumpType' /\ left' \in BOOLEAN
  BY <1>1 DEF DumpInv, ScanType, QueueType, DumpType
<1>3. QED
  BY <1>1, <1>2, ReturnEmpty

(* A datagram is the kernel's error, or part of the answer, or its end.    *)
LEMMA RecvStep == DumpInv /\ Recv => DumpInv'
<1> SUFFICES ASSUME DumpInv, Recv PROVE DumpInv'
  OBVIOUS
<1> DEFINE d == Head(queue)
<1>1. /\ pc = "recv" /\ queue # <<>> /\ queue' = Tail(queue)
      /\ dump' = dump /\ left' = left
      /\ QueueType /\ DumpType /\ fam \in Families
  BY DEF Recv, DumpInv, ScanType
<1>2. /\ QueueType' /\ DumpType'
      /\ Len(queue) \in Nat \ {0} /\ DOMAIN queue = 1..Len(queue)
      /\ d = queue[1] /\ d \in Seq(Msg)
      /\ Len(queue') = Len(queue) - 1
      /\ DOMAIN queue' = 1..(Len(queue) - 1)
      /\ \A j \in 1..(Len(queue) - 1) : queue'[j] = queue[j + 1]
  BY <1>1, QueueTail DEF DumpType
<1>3. \A x \in Parsed(d) : x \in Parsable /\ Real(x) /\ x.fam = fam
  BY <1>2, ParsedType DEF DumpInv
<1>4. ~left /\ ~Refused => /\ Dumping \/ Dumped
                           /\ SocksOnly(d) \/ EndsDone(d)
                           /\ EndsDone(d) => Dumped /\ Len(queue) = 1
                           /\ SocksOnly(d) => ~EndsDone(d)
                           /\ Parsed(d) = Socks(d) /\ ~EndedBy(d, "error")
                           /\ EndedBy(d, "done") <=> EndsDone(d)
  <2> SUFFICES ASSUME ~left, ~Refused
               PROVE  /\ Dumping \/ Dumped
                      /\ SocksOnly(d) \/ EndsDone(d)
                      /\ EndsDone(d) => Dumped /\ Len(queue) = 1
                      /\ SocksOnly(d) => ~EndsDone(d)
                      /\ Parsed(d) = Socks(d) /\ ~EndedBy(d, "error")
                      /\ EndedBy(d, "done") <=> EndsDone(d)
    OBVIOUS
  <2>1. Dumping \/ Dumped
    BY <1>1 DEF DumpInv, Answer
  <2>2. SocksOnly(d) => ~EndsDone(d)
    BY <1>2 DEF SocksOnly, EndsDone, DONE
  <2>3. Dumping => SocksOnly(d)
    BY <1>2 DEF Dumping
  <2>4. Dumped /\ Len(queue) # 1 => SocksOnly(d)
    BY <1>2 DEF Dumped
  <2>5. Dumped /\ Len(queue) = 1 => EndsDone(d)
    BY <1>2 DEF Dumped
  <2>6. SocksOnly(d) \/ EndsDone(d)
    BY <2>1, <2>3, <2>4, <2>5
  <2>7. /\ Parsed(d) = Socks(d) /\ ~EndedBy(d, "error")
        /\ EndedBy(d, "done") <=> EndsDone(d)
    BY <1>2, <2>6, ParsedWhole
  <2>8. QED
    BY <2>1, <2>2, <2>3, <2>4, <2>6, <2>7
<1>5. Refused => EndedBy(d, "error") /\ ~EndedBy(d, "done") /\ queue' = <<>>
  <2> SUFFICES ASSUME Refused
               PROVE  EndedBy(d, "error") /\ ~EndedBy(d, "done") /\ queue' = <<>>
    OBVIOUS
  <2>1. d = <<ERROR>> /\ queue' = <<>>
    BY <1>1, <1>2 DEF Refused
  <2>2. QED
    BY <2>1 DEF EndedBy, ERROR
<1>6. CASE EndedBy(d, "error")
  <2>1. Return(FALSE, {})
    BY <1>6 DEF Recv
  <2>2. fam = 4 /\ ~left' => queue' = <<>> /\ dump' = NoDump
    BY <1>1, <1>4, <1>5, <1>6 DEF Refused
  <2>3. left' \in BOOLEAN
    BY <1>1 DEF DumpInv, ScanType
  <2>4. QED
    BY <1>1, <1>2, <2>1, <2>2, <2>3, ReturnEmpty
<1>7. CASE ~EndedBy(d, "error") /\ EndedBy(d, "done")
  <2> DEFINE all == got \cup Parsed(d)
  <2>1. Return(TRUE, all)
    BY <1>7 DEF Recv
  <2>2. /\ conns' = conns \cup all /\ got' = {}
        /\ fam = 4 => fam' = 6 /\ pc' = "send"
        /\ fam = 6 => fam' = 6 /\ pc' = "idle"
        /\ fam \in {4, 6}
    BY <1>1, <2>1 DEF Return, Families
  <2>3. \A x \in all : x \in Parsable /\ Real(x) /\ x.fam = fam
    BY <1>3 DEF DumpInv, ScanType
  <2>4. ~left => all = All(fam) /\ queue' = <<>> /\ dump' = NoDump
    <3> SUFFICES ASSUME ~left
                 PROVE  all = All(fam) /\ queue' = <<>> /\ dump' = NoDump
      OBVIOUS
    <3>1. Dumped /\ Len(queue) = 1 /\ Parsed(d) = Socks(d)
      BY <1>4, <1>5, <1>7
    <3>2. Waiting = Socks(d)
      BY <1>2, <3>1 DEF Waiting
    <3>3. got \cup Waiting = All(fam)
      BY <3>1 DEF Dumped, First, All
    <3>4. QED
      BY <1>1, <1>2, <3>1, <3>2, <3>3 DEF Dumped
  <2> HIDE DEF all
  <2>5. ScanType'
    <3>1. /\ got' = {} /\ conns' \subseteq Parsable
          /\ \A x \in got' \cup conns' : Real(x)
      BY <2>2, <2>3 DEF DumpInv, ScanType
    <3>2. pc' \in {"idle", "send", "recv"} /\ fam' \in Families /\ left' \in BOOLEAN
      BY <1>1, <2>2 DEF Families, DumpInv, ScanType
    <3>3. QED
      BY <1>2, <3>1, <3>2 DEF ScanType, Real
  <2>6. Answer'
    BY <1>1, <2>2, <2>4 DEF Answer
  <2>7. Collected'
    <3>1. /\ conns \in {{}, All(4)} /\ (left => conns = {} /\ fam = 6)
          /\ (fam = 4 => conns = {})
      BY <1>1, <2>2 DEF DumpInv, Collected
    <3>2. \A f : All(f)' = All(f)
      BY DEF All
    <3>3. ~left /\ fam = 4 => conns' = All(4)
      BY <2>2, <2>4, <3>1
    <3>4. ~left /\ fam = 6 => conns' = conns \cup All(6)
      BY <2>2, <2>4
    <3>5. left => conns' = all /\ fam = 6
      BY <2>2, <3>1
    <3>6. pc' = "idle" /\ ~left' =>
            (\E A \in {{}, All(4)}, B \in {{}, All(6)} : conns = A \cup B)'
      BY <1>1, <2>2, <3>1, <3>2, <3>4
    <3>7. pc' = "idle" /\ left' => \A x \in conns' : x.fam = 6
      BY <1>1, <2>2, <2>3, <3>5
    <3>8. pc' # "idle" => conns' = All(4) /\ ~left'
      BY <1>1, <2>2, <3>3, <3>5
    <3>9. QED
      BY <2>2, <3>2, <3>6, <3>7, <3>8 DEF Collected
  <2>8. QED
    BY <2>5, <2>6, <2>7 DEF DumpInv
<1>8. CASE ~EndedBy(d, "error") /\ ~EndedBy(d, "done")
  <2>1. got' = got \cup Parsed(d) /\ UNCHANGED <<pc, fam, conns>>
    BY <1>8 DEF Recv
  <2>2. ScanType'
    <3>1. /\ got' \subseteq Parsable /\ \A x \in got' : Real(x) /\ x.fam = fam
      BY <1>3, <2>1 DEF DumpInv, ScanType
    <3>2. QED
      BY <1>1, <1>2, <2>1, <3>1 DEF DumpInv, ScanType, Real
  <2>3. Collected'
    BY <1>1, <2>1 DEF DumpInv, Collected, All
  <2>4. Answer'
    <3> SUFFICES ASSUME ~left PROVE Dumping' \/ Dumped'
      BY <1>1, <2>1 DEF Answer
    <3>1. SocksOnly(d) /\ Parsed(d) = Socks(d) /\ ~Refused
      BY <1>4, <1>5, <1>8
    <3>2. (got \cup Waiting)' = got \cup Waiting
      BY <1>1, <2>1, <3>1, WaitingTail
    <3>3. CASE Dumping
      <4>1. \A j \in DOMAIN queue' : SocksOnly(queue'[j])
        BY <1>2, <3>3 DEF Dumping
      <4>2. QED
        BY <1>1, <2>1, <3>2, <3>3, <4>1 DEF Dumping, First, SocksOnly
    <3>4. CASE Dumped
      <4>1. Len(queue) # 1
        BY <1>2, <1>4, <3>1, <3>4 DEF Dumped
      <4>2. /\ \A j \in 1..(Len(queue') - 1) : SocksOnly(queue'[j])
            /\ queue'[Len(queue')] = queue[Len(queue)]
            /\ queue' # <<>>
        BY <1>2, <3>4, <4>1 DEF Dumped
      <4>3. QED
        BY <1>1, <2>1, <3>2, <3>4, <4>2 DEF Dumped, First, SocksOnly, EndsDone
    <3>5. QED
      BY <1>4, <3>1, <3>3, <3>4
  <2>5. QED
    BY <2>2, <2>3, <2>4 DEF DumpInv
<1>9. QED
  BY <1>6, <1>7, <1>8

-----------------------------------------------------------------------------
LEMMA DumpInit == Init => DumpInv
<1> SUFFICES ASSUME Init PROVE DumpInv
  OBVIOUS
<1>1. /\ pc = "idle" /\ fam = 4 /\ left = FALSE
      /\ conns = {} /\ got = {} /\ queue = <<>> /\ dump = NoDump
  BY DEF Init
<1>2. ScanType
  <2>1. QueueType /\ DumpType
    BY <1>1 DEF QueueType, DumpType
  <2>2. pc \in {"idle", "send", "recv"} /\ fam \in Families /\ left \in BOOLEAN
    BY <1>1 DEF Families
  <2>3. QED
    BY <1>1, <2>1, <2>2 DEF ScanType
<1>3. Answer /\ Collected
  BY <1>1 DEF Answer, Collected
<1>4. QED
  BY <1>2, <1>3 DEF DumpInv

LEMMA DumpStep == DumpInv /\ [Next]_vars => DumpInv'
<1> SUFFICES ASSUME DumpInv, [Next]_vars PROVE DumpInv'
  OBVIOUS
<1>1. CASE UNCHANGED vars
  <2>1. ScanType'
    BY <1>1 DEF vars, DumpInv, ScanType, QueueType, DumpType, Real
  <2>2. Answer'
    BY <1>1 DEF vars, DumpInv, Answer, Refused, Dumping, Dumped, Waiting, Socks,
                First, SocksOnly, EndsDone
  <2>3. Collected'
    BY <1>1 DEF vars, DumpInv, Collected, All
  <2>4. QED
    BY <2>1, <2>2, <2>3 DEF DumpInv
<1>2. QED
  BY <1>1, FillStep, OpenStep, SendStep, SendFailsStep, RecvStep, RecvFailsStep
     DEF Next

LEMMA DumpInductive == Spec => []DumpInv
  BY DumpInit, DumpStep, PTL DEF Spec

(* Every variable of the scan keeps its type.                              *)
THEOREM TypeCorrect == Spec => []TypeOK
<1>1. DumpInv => TypeOK
  <2> SUFFICES ASSUME DumpInv PROVE TypeOK
    OBVIOUS
  <2>1. \A j \in DOMAIN queue : \A i \in DOMAIN queue[j] :
          queue[j][i] \in {Sock(f, n) : f \in Families, n \in 1..(Count[4] + Count[6])}
                            \cup {DONE, ERROR}
    <3> SUFFICES ASSUME NEW j \in DOMAIN queue, NEW i \in DOMAIN queue[j],
                        IsSock(queue[j][i])
                 PROVE  \E f \in Families : \E n \in 1..(Count[4] + Count[6]) :
                           queue[j][i] = Sock(f, n)
      BY DEF DumpInv, ScanType, QueueType
    <3> DEFINE msg == queue[j][i]
    <3>1. msg \in Msg /\ msg.fam \in Families /\ msg.type = "sock"
      BY DEF DumpInv, ScanType, QueueType, IsSock
    <3>2. msg.id \in 1..(Count[4] + Count[6])
      BY <3>1, DumpAssumption DEF IsSock, Families
    <3>3. msg = Sock(msg.fam, msg.id)
      BY <3>1 DEF Msg, Sock
    <3>4. QED
      BY <3>1, <3>2, <3>3
  <2>2. dump \in [fam : Families \cup {0}, next : Nat]
    BY DEF DumpInv, ScanType, DumpType, NoDump
  <2>3. QED
    BY <2>1, <2>2 DEF TypeOK, DumpInv, ScanType, Parsable
<1>2. QED
  BY <1>1, DumpInductive, PTL

(* A family is returned whole or not at all, and every socket under its    *)
(* own family, whatever fails and however the kernel cuts its answers;     *)
(* only the IPv6 part may be wrong, and only after a failed IPv4 receive.  *)
THEOREM FamiliesWhole == Spec => []WholeUnlessLeftovers
<1>1. DumpInv => WholeUnlessLeftovers
  <2> SUFFICES ASSUME DumpInv, pc = "idle", NEW f \in Families, f = 4 \/ ~left
               PROVE  {x \in conns : x.fam = f} \in {{}, All(f)}
    BY DEF WholeUnlessLeftovers
  <2>1. CASE left
    <3>1. f = 4 /\ \A x \in conns : x.fam = 6
      BY <2>1 DEF DumpInv, Collected
    <3>2. QED
      BY <3>1
  <2>2. CASE ~left
    <3>1. PICK A \in {{}, All(4)}, B \in {{}, All(6)} : conns = A \cup B
      BY <2>2 DEF DumpInv, Collected
    <3>2. (\A x \in A : x.fam = 4) /\ (\A x \in B : x.fam = 6)
      BY DEF All
    <3>3. CASE f = 4
      <4>1. {x \in conns : x.fam = f} = A
        BY <3>1, <3>2, <3>3
      <4>2. QED
        BY <3>3, <4>1
    <3>4. CASE f = 6
      <4>1. {x \in conns : x.fam = f} = B
        BY <3>1, <3>2, <3>4
      <4>2. QED
        BY <3>4, <4>1
    <3>5. QED
      BY <3>3, <3>4 DEF Families
  <2>3. QED
    BY <2>1, <2>2
<1>2. QED
  BY <1>1, DumpInductive, PTL

(* The wrong IPv6 part is what is left of the IPv4 dump: no socket is      *)
(* returned under two families, so that none is listed twice.              *)
SocketsOnce == pc = "idle" =>
  \A x, y \in conns : x.of = y.of /\ x.id = y.id => x = y

LEMMA DumpOnce == DumpInv => SocketsOnce
<1> SUFFICES ASSUME DumpInv, pc = "idle", NEW x \in conns, NEW y \in conns,
                    x.of = y.of, x.id = y.id
             PROVE  x = y
  BY DEF SocketsOnce
<1>1. x.fam = y.fam
  BY DEF DumpInv, Collected, All
<1>2. x \in Parsable /\ y \in Parsable
  BY DEF DumpInv, ScanType
<1>3. QED
  BY <1>1, <1>2 DEF Parsable

(* Even when a failed receive has left the IPv4 dump to be read as IPv6, a *)
(* scan returns no socket under two families.                              *)
THEOREM NoSocketTwice == Spec => []SocketsOnce
  BY DumpOnce, DumpInductive, PTL

-----------------------------------------------------------------------------
(* What ends a dump is never overlooked and never read by anybody else:    *)
(* while dumpFamily is receiving, the kernel is at work on a dump, or a    *)
(* datagram that makes dumpFamily return waits in the socket.              *)
Ending(d) == EndedBy(d, "error") \/ EndedBy(d, "done")
Answered == pc = "recv" => dump # NoDump \/ \E j \in DOMAIN queue : Ending(queue[j])

LEMMA AnsweredStep == DumpInv /\ Answered /\ [Next]_vars => Answered'
<1> SUFFICES ASSUME DumpInv, Answered, [Next]_vars, pc' = "recv", dump' = NoDump
             PROVE  \E j \in DOMAIN queue' : Ending(queue'[j])
  BY DEF Answered, Ending, EndedBy
<1> QueueType
  BY DEF DumpInv, ScanType
<1>1. CASE UNCHANGED vars
  BY <1>1 DEF vars, Answered
<1>2. CASE Fill
  <2>1. PICK d \in Seq(Msg) :
          /\ queue' = Append(queue, d)
          /\ \A i \in DOMAIN d : IsSock(d[i]) \/ d[i] = DONE
          /\ dump' # NoDump \/ EndsDone(d)
    BY <1>2, FillShape DEF DumpInv
  <2>2. Ending(d)
    BY <2>1, ParsedWhole DEF Ending
  <2>3. Len(queue) + 1 \in DOMAIN queue' /\ queue'[Len(queue) + 1] = d
    BY <2>1, QueueAppend
  <2>4. QED
    BY <2>2, <2>3
<1>3. CASE Send
  <2>1. queue' = Append(queue, <<ERROR>>)
    BY <1>3 DEF Send, Request, NoDump, DumpInv, ScanType, Families
  <2>2. <<ERROR>> \in Seq(Msg) /\ \A i \in DOMAIN <<ERROR>> : <<ERROR>>[i] = ERROR
    BY Messages
  <2>3. EndedBy(<<ERROR>>, "error")
    BY DEF EndedBy, ERROR
  <2>4. Len(queue) + 1 \in DOMAIN queue' /\ queue'[Len(queue) + 1] = <<ERROR>>
    BY <2>1, <2>2, QueueAppend
  <2>5. QED
    BY <2>3, <2>4 DEF Ending
<1>4. CASE Recv
  <2>1. queue # <<>> /\ queue' = Tail(queue) /\ pc = "recv" /\ dump = NoDump
    BY <1>4 DEF Recv
  <2>2. ~Ending(Head(queue))
    BY <1>4 DEF Recv, Return, Ending
  <2>3. PICK j \in DOMAIN queue : Ending(queue[j])
    BY <2>1 DEF Answered
  <2>4. /\ DOMAIN queue = 1..Len(queue) /\ Len(queue) \in Nat \ {0}
        /\ Head(queue) = queue[1]
        /\ DOMAIN queue' = 1..(Len(queue) - 1)
        /\ \A i \in 1..(Len(queue) - 1) : queue'[i] = queue[i + 1]
    BY <2>1, QueueTail
  <2>5. j - 1 \in DOMAIN queue' /\ queue'[j - 1] = queue[j]
    BY <2>2, <2>3, <2>4
  <2>6. QED
    BY <2>3, <2>5
<1>5. CASE OpenSocket \/ SendFails \/ RecvFails
  BY <1>5 DEF OpenSocket, SendFails, RecvFails, Return
<1>6. QED
  BY <1>1, <1>2, <1>3, <1>4, <1>5 DEF Next

(* The guard of Fill: what is left of the dump fits into datagrams.        *)
CanFill ==
  /\ dump # NoDump
  /\ \E k \in 0..Batch :
       LET last == dump.next + k - 1
       IN last <= Count[dump.fam] /\ (k > 0 \/ (k < Batch /\ last = Count[dump.fam]))

LEMMA KernelGoesOn == DumpInv /\ dump # NoDump => CanFill
<1> SUFFICES ASSUME DumpInv, dump # NoDump PROVE CanFill
  OBVIOUS
<1>1. /\ dump.next \in 1..(Count[dump.fam] + 1) /\ Count[dump.fam] \in Nat
      /\ Batch \in Nat \ {0}
  BY DumpAssumption DEF DumpInv, ScanType, DumpType
<1>2. CASE dump.next = Count[dump.fam] + 1
  <2>1. 0 \in 0..Batch /\ 0 < Batch /\ dump.next + 0 - 1 = Count[dump.fam]
    BY <1>1, <1>2
  <2>2. QED
    BY <1>1, <2>1 DEF CanFill
<1>3. CASE dump.next <= Count[dump.fam]
  <2>1. 1 \in 0..Batch /\ dump.next + 1 - 1 <= Count[dump.fam]
    BY <1>1, <1>3
  <2>2. QED
    BY <2>1 DEF CanFill
<1>4. QED
  BY <1>1, <1>2, <1>3

(* Recvfrom never blocks for good: a receiving dumpFamily has a datagram   *)
(* to read or the kernel one to send, under every fault, and also when an  *)
(* earlier dump was left unread or has been refused.                       *)
NeverWaitsForNothing == pc = "recv" => queue # <<>> \/ CanFill

(* Each receive of dumpFamily is answered, for any sockets and any cut of  *)
(* the dumps into datagrams.                                               *)
THEOREM RecvIsAnswered == Spec => []NeverWaitsForNothing
<1>1. Init => Answered
  BY DEF Init, Answered
<1>2. DumpInv /\ Answered => NeverWaitsForNothing
  BY KernelGoesOn DEF Answered, NeverWaitsForNothing
<1>3. QED
  BY <1>1, <1>2, DumpInductive, AnsweredStep, PTL DEF Spec

-----------------------------------------------------------------------------
(* The work that is left of a scan: the calls of dumpFamily, the datagrams *)
(* that the kernel may still send, and those that wait to be read.  A      *)
(* request costs the room for all datagrams of the dump it may begin.      *)
Room == 2 * (Count[4] + Count[6]) + 3

CallsLeft ==
  IF pc = "idle" THEN 0
  ELSE (IF fam = 4 THEN Room + 1 ELSE 0) + (IF pc = "send" THEN Room + 1 ELSE 1)

DatagramsLeft == IF dump = NoDump THEN 0 ELSE Count[dump.fam] + 2 - dump.next

ScanLeft == CallsLeft + 2 * DatagramsLeft + Len(queue)

LEMMA RoomFor == /\ Count[4] \in Nat /\ Count[6] \in Nat /\ Room \in Nat
                 /\ \A f \in {4, 6} : 2 * (Count[f] + 1) < Room
<1>1. Count[4] \in Nat /\ Count[6] \in Nat
  BY DumpAssumption DEF Families
<1>2. 2 * (Count[4] + 1) < Room /\ 2 * (Count[6] + 1) < Room /\ Room \in Nat
  BY <1>1 DEF Room
<1>3. QED
  BY <1>1, <1>2

Counting ==
  /\ DatagramsLeft \in Nat /\ Len(queue) \in Nat /\ ScanLeft \in Nat
  /\ dump = NoDump \/ DatagramsLeft > 0

LEMMA LeftType == DumpInv => Counting
<1> SUFFICES ASSUME DumpInv PROVE Counting
  OBVIOUS
<1>1. DatagramsLeft \in Nat /\ (dump = NoDump \/ DatagramsLeft > 0)
  <2>1. dump # NoDump => dump.next \in 1..(Count[dump.fam] + 1) /\ Count[dump.fam] \in Nat
    BY DumpAssumption DEF DumpInv, ScanType, DumpType
  <2>2. QED
    BY <2>1 DEF DatagramsLeft
<1>2. Len(queue) \in Nat
  BY DEF DumpInv, ScanType, QueueType
<1>3. CallsLeft \in Nat
  BY RoomFor DEF CallsLeft
<1>4. QED
  BY <1>1, <1>2, <1>3 DEF ScanLeft, Counting

LEMMA LeftTypeNext == DumpInv' => Counting'
  BY LeftType, PTL

(* Every step of a scan leaves less to do.                                 *)
LEMMA ScanStep ==
  ASSUME DumpInv, DumpInv', pc # "idle",
         Fill \/ Send \/ SendFails \/ Recv \/ RecvFails
  PROVE  ScanLeft' \in 0..(ScanLeft - 1)
<1>1. /\ DatagramsLeft \in Nat /\ Len(queue) \in Nat /\ ScanLeft \in Nat
      /\ dump = NoDump \/ DatagramsLeft > 0
  BY LeftType DEF Counting
<1>2. DatagramsLeft' \in Nat /\ Len(queue') \in Nat /\ ScanLeft' \in Nat
  BY LeftTypeNext DEF Counting
<1>3. SUFFICES ScanLeft' < ScanLeft
  BY <1>1, <1>2
<1>4. pc \in {"send", "recv"} /\ fam \in {4, 6} /\ QueueType
  BY DEF DumpInv, ScanType, Families
<1>5. /\ pc' \in {"idle", "send", "recv"} /\ fam' \in {4, 6}
  BY DEF DumpInv, ScanType, Families
<1>6. Room \in Nat /\ Count[fam] \in Nat /\ 2 * (Count[fam] + 1) < Room
  BY <1>4, RoomFor
<1>7. CallsLeft \in Nat /\ CallsLeft' \in Nat
  BY <1>6 DEF CallsLeft, Room
<1>8. ASSUME NEW ok \in BOOLEAN, NEW S, Return(ok, S) PROVE CallsLeft' < CallsLeft
  <2>1. \/ fam = 4 /\ fam' = 6 /\ pc' = "send"
        \/ fam = 6 /\ fam' = 6 /\ pc' = "idle"
    BY <1>4, <1>8 DEF Return
  <2>2. Room' = Room
    BY DEF Room
  <2>3. QED
    BY <1>4, <1>6, <2>1, <2>2 DEF CallsLeft
<1>9. CASE SendFails \/ RecvFails
  <2>1. UNCHANGED <<queue, dump>> /\ Return(FALSE, {})
    BY <1>9 DEF SendFails, RecvFails
  <2>2. DatagramsLeft' = DatagramsLeft /\ Len(queue)' = Len(queue)
    BY <2>1 DEF DatagramsLeft
  <2>3. CallsLeft' < CallsLeft
    BY <1>8, <2>1
  <2>4. QED
    BY <1>1, <1>7, <2>2, <2>3 DEF ScanLeft
<1>10. CASE Send
  <2>1. CallsLeft' = CallsLeft - Room
    <3>1. Room' = Room /\ fam' = fam /\ pc = "send" /\ pc' = "recv"
      BY <1>10 DEF Send, Room
    <3>2. QED
      BY <1>4, <1>6, <3>1 DEF CallsLeft
  <2>2. CASE queue' = Append(queue, <<ERROR>>) /\ UNCHANGED dump
    <3>1. DatagramsLeft' = DatagramsLeft
      BY <2>2 DEF DatagramsLeft
    <3>2. Len(queue') = Len(queue) + 1
      BY <1>4, <2>2, Messages DEF QueueType
    <3>3. QED
      BY <1>1, <1>6, <1>7, <2>1, <3>1, <3>2 DEF ScanLeft
  <2>3. CASE dump = NoDump /\ dump' = [fam |-> fam, next |-> 1] /\ UNCHANGED queue
    <3>1. DatagramsLeft = 0
      BY <2>3 DEF DatagramsLeft
    <3>2. dump' # NoDump /\ dump'.fam = fam /\ dump'.next = 1
      BY <1>4, <2>3 DEF NoDump
    <3>3. DatagramsLeft' = Count[fam] + 1
      BY <1>6, <3>2 DEF DatagramsLeft
    <3>4. Len(queue') = Len(queue)
      BY <2>3
    <3>5. QED
      BY <1>1, <1>6, <1>7, <2>1, <3>1, <3>3, <3>4 DEF ScanLeft
  <2>4. QED
    BY <1>10, <2>2, <2>3 DEF Send, Request
<1>11. CASE Recv
  <2>1. Len(queue') = Len(queue) - 1
    BY <1>4, <1>11, QueueTail DEF Recv
  <2>2. DatagramsLeft' = DatagramsLeft
    BY <1>11 DEF Recv, DatagramsLeft
  <2>3. CallsLeft' <= CallsLeft
    <3>1. CASE UNCHANGED <<pc, fam>>
      <4>1. CallsLeft' = CallsLeft
        BY <3>1 DEF CallsLeft, Room
      <4>2. QED
        BY <1>7, <4>1
    <3>2. CASE \E ok \in BOOLEAN : \E S : Return(ok, S)
      BY <1>7, <1>8, <3>2
    <3>3. QED
      BY <1>11, <3>1, <3>2 DEF Recv
  <2>4. QED
    BY <1>1, <1>7, <2>1, <2>2, <2>3 DEF ScanLeft
<1>12. CASE Fill
  <2>1. CallsLeft' = CallsLeft
    BY <1>12 DEF Fill, CallsLeft, Room
  <2>2. PICK d \in Seq(Msg) :
          /\ queue' = Append(queue, d)
          /\ \A i \in DOMAIN d : IsSock(d[i]) \/ d[i] = DONE
          /\ \/ dump' = NoDump
             \/ /\ dump'.fam = dump.fam /\ dump' # NoDump
                /\ dump'.next \in (dump.next + 1)..(Count[dump.fam] + 1)
    BY <1>12, FillShape DEF DumpInv
  <2>3. Len(queue') = Len(queue) + 1
    BY <1>4, <2>2, QueueAppend
  <2>4. DatagramsLeft' < DatagramsLeft
    <3>1. dump # NoDump /\ dump.next \in Nat /\ Count[dump.fam] \in Nat
      BY <1>12, DumpAssumption DEF Fill, DumpInv, ScanType, DumpType
    <3>2. CASE dump' = NoDump
      <4>1. DatagramsLeft' = 0
        BY <3>2 DEF DatagramsLeft
      <4>2. QED
        BY <1>1, <3>1, <4>1
    <3>3. CASE dump' # NoDump
      <4>1. dump'.fam = dump.fam /\ dump'.next \in (dump.next + 1)..(Count[dump.fam] + 1)
        BY <2>2, <3>3
      <4>2. dump'.next \in Int /\ dump'.next > dump.next
        BY <3>1, <4>1
      <4>3. DatagramsLeft' = Count[dump.fam] + 2 - dump'.next
        BY <3>3, <4>1 DEF DatagramsLeft
      <4>4. DatagramsLeft = Count[dump.fam] + 2 - dump.next
        BY <3>1 DEF DatagramsLeft
      <4>5. QED
        BY <3>1, <4>2, <4>3, <4>4
    <3>4. QED
      BY <3>2, <3>3
  <2>5. QED
    BY <1>1, <1>2, <1>7, <2>1, <2>3, <2>4 DEF ScanLeft
<1>13. QED
  BY <1>9, <1>10, <1>11, <1>12

(* ... and it begins with so much.                                         *)
LEMMA ScanBegins ==
  ASSUME OpenSocket
  PROVE  ScanLeft' = IF pc' = "idle" THEN 0 ELSE 2 * Room + 2
<1>1. pc' \in {"send", "idle"} /\ fam' = 4 /\ queue' = <<>> /\ dump' = NoDump
  BY DEF OpenSocket
<1>2. DatagramsLeft' = 0 /\ Len(queue') = 0
  BY <1>1 DEF DatagramsLeft
<1>3. CallsLeft' = IF pc' = "idle" THEN 0 ELSE 2 * Room + 2
  BY <1>1, RoomFor DEF CallsLeft, Room
<1>4. QED
  BY <1>2, <1>3, RoomFor DEF ScanLeft

(* A scan is over after a number of steps that the sockets bound, however  *)
(* the kernel cuts the dumps into datagrams and whatever fails: each step  *)
(* of the kernel's and of the program's leaves less to do.                 *)
ScanIsBounded ==
  [][/\ pc = "idle" /\ pc' # "idle" => ScanLeft' = 2 * Room + 2
     /\ pc # "idle" => ScanLeft' \in 0..(ScanLeft - 1)]_vars

(* ScanSockets ends after boundedly many steps, for any sockets, cuts and  *)
(* failures.                                                               *)
THEOREM ScansAreBounded == Spec => ScanIsBounded
<1> DEFINE Less == /\ pc = "idle" /\ pc' # "idle" => ScanLeft' = 2 * Room + 2
                   /\ pc # "idle" => ScanLeft' \in 0..(ScanLeft - 1)
<1>1. ASSUME DumpInv, DumpInv', Next PROVE Less
  <2>1. ASSUME pc = "idle", pc' # "idle" PROVE ScanLeft' = 2 * Room + 2
    BY <1>1, <2>1, ScanBegins DEF Next, Fill, Send, SendFails, Recv, RecvFails
  <2>2. ASSUME pc # "idle" PROVE ScanLeft' \in 0..(ScanLeft - 1)
    BY <1>1, <2>2, ScanStep DEF Next, OpenSocket
  <2>3. QED
    BY <2>1, <2>2
<1>2. DumpInv /\ DumpInv' /\ [Next]_vars => [Less]_vars
  BY <1>1
<1>3. QED
  BY <1>2, DumpInductive, PTL DEF Spec, ScanIsBounded
=============================================================================
