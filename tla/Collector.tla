----------------------------- MODULE Collector -----------------------------
(***************************************************************************)
(* cmd/goNetWatch/main.go, collectConnections, with the two scanners it    *)
(* calls: internal/netlink ScanSockets (two TCP dumps) and                 *)
(* internal/procnet ScanConnections (four files of /proc/net).             *)
(*                                                                         *)
(* The list is not a snapshot.  Each of the six readers walks the kernel's *)
(* socket tables entry by entry, and the kernel opens and closes sockets   *)
(* between any two entries.  A reader that fails contributes nothing: both *)
(* scanners drop what they have read of that family and go on.  Netlink's  *)
(* two readers share a socket, so what the first leaves unread is what the *)
(* second reads (NetlinkDump has the datagrams).                           *)
(***************************************************************************)
EXTENDS Integers, Sequences

CONSTANTS
  NSlots,             \* places in the kernel's tables, in the order of a walk
  KindOf,             \* KindOf[s]: protocol and family of the sockets at s
  includeListening,   \* the --all flag
  MaxInode,           \* bound on the inodes the kernel hands out
  Failing             \* the readers that may fail

Slots == 1..NSlots
Kinds == {"tcp", "tcp6", "udp", "udp6"}

(* The readers, in the order in which they run, and what each one covers.  *)
Reader == <<"diag4", "diag6", "tcp", "tcp6", "udp", "udp6">>
Covers == <<"tcp", "tcp6", "tcp", "tcp6", "udp", "udp6">>
Netlink == {1, 2}

ASSUME CollectorAssumption ==
  /\ NSlots \in Nat
  /\ KindOf \in [Slots -> Kinds]
  /\ includeListening \in BOOLEAN
  /\ MaxInode \in Nat
  /\ Failing \subseteq 1..6

VARIABLES
  table,    \* table[s]: the socket at s, its state code and its inode
  nextIno,  \* the next inode of the kernel
  r,        \* the reader that is at work, 0 outside collectConnections
  pos,      \* where its walk stands
  found,    \* the entries it has kept
  conns,    \* the list built so far; in the end, the result
  seen,     \* seenInodes
  failed,   \* history variable: the readers that failed in this call
  stale,    \* history variable: reader 2 was given what reader 1 left unread
  lasting   \* history variable: sockets that are as when the call began

kernel == <<table, nextIno>>
call == <<r, pos, found, conns, seen, failed, stale>>
vars == <<kernel, call, lasting>>

-----------------------------------------------------------------------------
(* The kernel.  A state is the code that /proc/net prints and sock_diag    *)
(* reports: 01 established (for UDP, connected), 06 TIME_WAIT, 07 closed   *)
(* (for UDP, bound but not connected), 0A listening.  A socket in          *)
(* TIME_WAIT belongs to no process any more and is shown with inode 0.     *)
Nothing == [st |-> "--", ino |-> 0]
States == {"--", "01", "06", "07", "0A"}
IsTCP(s) == KindOf[s] \in {"tcp", "tcp6"}

(* While a call is under way, a socket that changes is not lasting.        *)
Change(s, entry) ==
  /\ table' = [table EXCEPT ![s] = entry]
  /\ lasting' = IF r = 0 THEN lasting ELSE {e \in lasting : e.slot # s}
  /\ UNCHANGED call

Open(s) ==
  /\ table[s] = Nothing
  /\ nextIno <= MaxInode
  /\ nextIno' = nextIno + 1
  /\ \E st \in IF IsTCP(s) THEN {"01", "0A"} ELSE {"01", "07"} :
       Change(s, [st |-> st, ino |-> nextIno])

Close(s) ==
  /\ table[s] # Nothing
  /\ \/ Change(s, Nothing)
     \/ IsTCP(s) /\ table[s].st = "01" /\ Change(s, [st |-> "06", ino |-> 0])
  /\ UNCHANGED nextIno

-----------------------------------------------------------------------------
(* procnet's name for a state; only the three that decide are told apart.  *)
mapState(s, st) ==
  IF IsTCP(s) THEN CASE st = "0A" -> "LISTEN"
                     [] st = "06" -> "TIME_WAIT"
                     [] OTHER -> "ESTABLISHED"
              ELSE CASE st = "0A" -> "LISTEN"
                     [] st = "07" -> "ESTABLISHED"
                     [] OTHER -> "UNCONN"

(* What a reader keeps: netlink's parser drops listening sockets,          *)
(* entriesToConnections also drops UNCONN and UDP without a remote end,    *)
(* unless all are asked for.                                               *)
Kept(s, st) ==
  \/ includeListening
  \/ r \in Netlink /\ st # "0A"
  \/ /\ r \notin Netlink
     /\ mapState(s, st) \notin {"LISTEN", "UNCONN"}
     /\ IsTCP(s) \/ st # "07"

Conn(s) == [slot |-> s, st |-> table[s].st, ino |-> table[s].ino, by |-> r]

Init ==
  /\ table = [s \in Slots |-> Nothing]
  /\ nextIno = 1
  /\ r = 0 /\ pos = 1
  /\ found = {} /\ conns = {} /\ seen = {}
  /\ failed = {} /\ stale = FALSE /\ lasting = {}

(* collectConnections is called, by main or by the watch loop.             *)
Start ==
  /\ r = 0
  /\ r' = 1 /\ pos' = 1
  /\ found' = {} /\ conns' = {} /\ seen' = {}
  /\ failed' = {} /\ stale' = FALSE
  /\ lasting' = {[slot |-> s, st |-> table[s].st, ino |-> table[s].ino] :
                   s \in {t \in Slots : table[t].ino > 0}}
  /\ UNCHANGED kernel

(* The reader's walk passes one place: a datagram's message for netlink, a *)
(* line of the file for procnet.                                           *)
Visit ==
  /\ r # 0
  /\ pos <= NSlots
  /\ pos' = pos + 1
  /\ found' = IF /\ KindOf[pos] = Covers[r]
                 /\ table[pos] # Nothing
                 /\ Kept(pos, table[pos].st)
              THEN found \cup {Conn(pos)} ELSE found
  /\ UNCHANGED <<kernel, r, conns, seen, failed, stale, lasting>>

NextReaderStuck == r' = r + 1 /\ pos' = 1 /\ found' = {}       \* mutant
NextReader ==
  /\ r' = IF r = 6 THEN 0 ELSE r + 1
  /\ pos' = 1
  /\ found' = {}

(* The walk is over.  Netlink's entries are appended and their inodes      *)
(* noted; procnet's are appended unless netlink has reported their inode.  *)
CommitAll ==                                               \* mutant
  /\ r # 0
  /\ pos > NSlots
  /\ conns' = conns \cup found
  /\ seen' = IF r \in Netlink
             THEN seen \cup {x.ino : x \in {y \in found : y.ino > 0}} ELSE seen
  /\ NextReader
  /\ UNCHANGED <<kernel, failed, stale, lasting>>
Commit ==
  /\ r # 0
  /\ pos > NSlots
  /\ IF r \in Netlink
     THEN /\ conns' = conns \cup found
          /\ seen' = seen \cup {x.ino : x \in {y \in found : y.ino > 0}}
     ELSE /\ conns' = conns \cup {x \in found : x.ino \notin seen}
          /\ UNCHANGED seen
  /\ NextReader
  /\ UNCHANGED <<kernel, failed, stale, lasting>>

(* The reader fails, at its start or amid its walk: what it found is       *)
(* dropped, its inodes are not noted, and the next reader runs.  Reader 1  *)
(* fails so when its request is refused or cannot be sent.                 *)
FailNoted ==                                               \* mutant
  /\ r \in Failing
  /\ r = 1 => pos = 1
  /\ NextReader
  /\ failed' = failed \cup {r}
  /\ seen' = seen \cup {x.ino : x \in {y \in found : y.ino > 0}}
  /\ UNCHANGED <<kernel, conns, stale, lasting>>
Fail ==
  /\ r \in Failing
  /\ r = 1 => pos = 1
  /\ NextReader
  /\ failed' = failed \cup {r}
  /\ UNCHANGED <<kernel, conns, seen, stale, lasting>>

(* A receive of reader 1 fails, and its socket is used again.  While the   *)
(* kernel is still at the first dump it refuses the second, which fails.   *)
ReceiveFailsAmid ==
  /\ r = 1 /\ r \in Failing
  /\ r' = 3 /\ pos' = 1 /\ found' = {}
  /\ failed' = failed \cup {1, 2}
  /\ UNCHANGED <<kernel, conns, seen, stale, lasting>>

(* Once the first dump is complete, its unread datagrams, those beyond     *)
(* some place, and its done message are what reader 2 reads: it returns    *)
(* IPv4 sockets, as its own, without an error, and no IPv6 ones.           *)
ReceiveFailsLate ==
  /\ r = 1 /\ r \in Failing
  /\ pos > NSlots
  /\ r' = 2
  /\ \E read \in 0..NSlots :
       found' = {[x EXCEPT !.by = 2] : x \in {y \in found : y.slot > read}}
  /\ failed' = failed \cup {1} /\ stale' = TRUE
  /\ UNCHANGED <<kernel, pos, conns, seen, lasting>>

Next ==
  \/ \E s \in Slots : Open(s) \/ Close(s)
  \/ Start \/ Visit \/ Commit \/ Fail \/ ReceiveFailsAmid \/ ReceiveFailsLate

Spec == Init /\ [][Next]_vars

-----------------------------------------------------------------------------
Entry == [slot : Slots, st : States, ino : 0..MaxInode]
Connection == [slot : Slots, st : States, ino : 0..MaxInode, by : 1..6]

(* Every variable keeps its type.                                          *)
TypeOK ==
  /\ table \in [Slots -> [st : States, ino : 0..MaxInode]]
  /\ nextIno \in 1..(MaxInode + 1)
  /\ r \in 0..6
  /\ pos \in 1..(NSlots + 1)
  /\ found \subseteq Connection
  /\ conns \subseteq Connection
  /\ seen \subseteq 1..MaxInode
  /\ failed \subseteq 1..6 /\ stale \in BOOLEAN
  /\ lasting \subseteq Entry

(* A socket that has an inode is counted once, however the sources overlap *)
(* and the tables change while they are read.                              *)
OncePerInode ==
  \A x, y \in conns : x.ino = y.ino /\ x.ino > 0 => x = y

(* "any TCP sockets missed": a socket that was there, unchanged, from the  *)
(* start to the end of the call is in the result if one of the readers     *)
(* that cover it has walked its tables.  A reader that failed has not, nor *)
(* has reader 2 when it read what reader 1 left, although it reports no    *)
(* error.  Without --all, listening and UDP sockets are no part of this    *)
(* (see ConnectedUDPReported).                                             *)
Shown(e) == includeListening \/ (IsTCP(e.slot) /\ e.st # "0A")
Walked == {i \in 1..6 : i \notin failed /\ ~(i = 2 /\ stale)}

LastingReported ==
  r = 0 => \A e \in lasting :
    /\ Shown(e)
    /\ \E i \in Walked : Covers[i] = KindOf[e.slot]
    => \E x \in conns : x.slot = e.slot /\ x.ino = e.ino /\ x.st = e.st

(* "Scan /proc/net for UDP and any TCP sockets missed": a socket that the  *)
(* netlink dumps have reported is not reported again.                      *)
NoneReportedTwice ==
  \A x, y \in conns : x.slot = y.slot /\ x.st = y.st /\ x.ino = y.ino => x = y

(* "Enumerate active TCP and UDP connections": a connected UDP socket that *)
(* lasts is reported without --all too.                                    *)
ConnectedUDPReported ==
  r = 0 /\ failed = {} => \A e \in lasting :
    ~IsTCP(e.slot) /\ e.st = "01" => \E x \in conns : x.ino = e.ino
=============================================================================
