---------------------------- MODULE NetlinkDump ----------------------------
(***************************************************************************)
(* internal/netlink/netlink.go, ScanSockets: two dumps, IPv4 then IPv6,    *)
(* one after the other on one netlink socket.                              *)
(*                                                                         *)
(* A dump is a request that the kernel answers with datagrams of messages, *)
(* one per socket, and a last message NLMSG_DONE; a request it refuses is  *)
(* answered with NLMSG_ERROR, among others a request made while an earlier *)
(* dump on the same netlink socket is not complete.  dumpFamily reads      *)
(* datagrams until a done or an error; it looks neither at the sequence    *)
(* number nor at the family of a message.                                  *)
(***************************************************************************)
EXTENDS Integers, Sequences

CONSTANTS
  Count,      \* Count[f]: the TCP sockets of family f, numbered from 1
  Batch,      \* the most messages the kernel puts into a datagram
  Faults      \* what may go wrong, a subset of FaultKinds

Families == {4, 6}
FaultKinds == {"socket", "send", "refuse", "recv"}

ASSUME DumpAssumption ==
  /\ Count \in [Families -> Nat]
  /\ Batch \in Nat \ {0}
  /\ Faults \subseteq FaultKinds

VARIABLES
  pc,       \* where ScanSockets stands
  fam,      \* the family of the current dumpFamily
  queue,    \* datagrams that wait in the netlink socket
  dump,     \* the kernel's dump on it: its family and next socket, or NoDump
  got,      \* what the current dumpFamily has parsed
  conns,    \* what ScanSockets has collected
  left      \* history variable: a failed receive left the IPv4 dump unread

vars == <<pc, fam, queue, dump, got, conns, left>>

NoDump == [fam |-> 0, next |-> 1]

(* A message; a connection is labelled with the family that dumpFamily was *)
(* asked for, whatever the message is about.                               *)
Sock(f, i) == [type |-> "sock", fam |-> f, id |-> i]
DONE  == [type |-> "done",  fam |-> 0, id |-> 0]
ERROR == [type |-> "error", fam |-> 0, id |-> 0]

-----------------------------------------------------------------------------
Init ==
  /\ pc = "idle"
  /\ fam = 4
  /\ queue = <<>>
  /\ dump = NoDump
  /\ got = {} /\ conns = {}
  /\ left = FALSE

(* The kernel: it puts the next sockets into a datagram, and the done      *)
(* message behind the last one, if there is room.                          *)
Fill ==
  /\ dump # NoDump
  /\ \E k \in 0..Batch :
       LET last  == dump.next + k - 1
           socks == [i \in 1..k |-> Sock(dump.fam, dump.next + i - 1)]
       IN /\ last <= Count[dump.fam]
          /\ \/ /\ k > 0
                /\ queue' = Append(queue, socks)
                /\ dump' = [dump EXCEPT !.next = last + 1]
             \/ /\ k < Batch
                /\ last = Count[dump.fam]
                /\ queue' = Append(queue, Append(socks, DONE))
                /\ dump' = NoDump
  /\ UNCHANGED <<pc, fam, got, conns, left>>

(* The kernel's answer to a request for f.                                 *)
Request(f) ==
  \/ /\ dump # NoDump \/ "refuse" \in Faults
     /\ queue' = Append(queue, <<ERROR>>)
     /\ UNCHANGED dump
  \/ /\ dump = NoDump
     /\ dump' = [fam |-> f, next |-> 1]
     /\ UNCHANGED queue

(* ScanSockets opens a netlink socket; if it cannot, it returns the error. *)
OpenSocket ==
  /\ pc = "idle"
  /\ conns' = {} /\ got' = {} /\ fam' = 4
  /\ queue' = <<>> /\ dump' = NoDump /\ left' = FALSE
  /\ \/ pc' = "send"
     \/ "socket" \in Faults /\ pc' = "idle"

ReturnToNextFamily(ok, result) ==                          \* mutant
  /\ conns' = IF ok THEN conns \cup result ELSE conns
  /\ got' = {}
  /\ fam' = fam + 2 /\ pc' = "send"

(* dumpFamily returns: ScanSockets appends what it got, if there was no    *)
(* error, and turns to IPv6 or returns.                                    *)
Return(ok, result) ==
  /\ conns' = IF ok THEN conns \cup result ELSE conns
  /\ got' = {}
  /\ IF fam = 4 THEN fam' = 6 /\ pc' = "send" ELSE fam' = fam /\ pc' = "idle"

Send ==
  /\ pc = "send"
  /\ pc' = "recv"
  /\ Request(fam)
  /\ UNCHANGED <<fam, got, conns, left>>

SendFails ==
  /\ "send" \in Faults
  /\ pc = "send"
  /\ Return(FALSE, {})
  /\ UNCHANGED <<queue, dump, left>>

ParsedUnlessDone(d) ==                                     \* mutant
  IF \E j \in DOMAIN d : d[j].type = "done" THEN {}
  ELSE {[fam |-> fam, of |-> d[i].fam, id |-> d[i].id] : i \in DOMAIN d}

(* parseNetlinkBuffer: the sockets of a datagram, up to the first done or  *)
(* error ...                                                               *)
Parsed(d) == {[fam |-> fam, of |-> d[i].fam, id |-> d[i].id] :
                i \in {j \in DOMAIN d : \A k \in 1..j : d[k].type = "sock"}}
EndedByErrorOnly(d, type) ==                               \* mutant
  /\ type = "error"
  /\ \E i \in DOMAIN d : d[i].type = type /\ \A j \in 1..(i - 1) : d[j].type = "sock"

(* ... and which of the two, if any, it met first.                         *)
EndedBy(d, type) ==
  \E i \in DOMAIN d : d[i].type = type /\ \A j \in 1..(i - 1) : d[j].type = "sock"

Recv ==
  /\ pc = "recv"
  /\ queue # <<>>
  /\ queue' = Tail(queue)
  /\ LET d == Head(queue)
     IN IF EndedBy(d, "error") THEN Return(FALSE, {})
        ELSE IF EndedBy(d, "done") THEN Return(TRUE, got \cup Parsed(d))
        ELSE got' = got \cup Parsed(d) /\ UNCHANGED <<pc, fam, conns>>
  /\ UNCHANGED <<dump, left>>

RecvFails ==
  /\ "recv" \in Faults
  /\ pc = "recv"
  /\ Return(FALSE, {})
  /\ left' = (left \/ fam = 4)
  /\ UNCHANGED <<queue, dump>>

Next == Fill \/ OpenSocket \/ Send \/ SendFails \/ Recv \/ RecvFails

Spec == Init /\ [][Next]_vars

-----------------------------------------------------------------------------
(* Every variable keeps its type.                                          *)
TypeOK ==
  /\ pc \in {"idle", "send", "recv"}
  /\ fam \in Families
  /\ \A i \in DOMAIN queue : \A j \in DOMAIN queue[i] :
       queue[i][j] \in {Sock(f, n) : f \in Families, n \in 1..(Count[4] + Count[6])}
                         \cup {DONE, ERROR}
  /\ left \in BOOLEAN
  /\ dump \in [fam : Families \cup {0}, next : Nat]
  /\ got \cup conns \subseteq [fam : Families, of : Families, id : Nat]

(* ScanSockets "dumps active TCP sockets for IPv4 and IPv6": of a family   *)
(* it returns all sockets or, after an error, none (procnet then reports   *)
(* them), and it never takes one for another family's.  That is so of      *)
(* IPv4, which is dumped first, in any case, and of IPv6 when no receive   *)
(* of the IPv4 dump failed: what is left of that dump is taken for IPv6.   *)
All(f) == {[fam |-> f, of |-> f, id |-> i] : i \in 1..Count[f]}

WholeUnlessLeftovers ==
  pc = "idle" => \A f \in Families :
     f = 4 \/ ~left => {x \in conns : x.fam = f} \in {{}, All(f)}
=============================================================================
