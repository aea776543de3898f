-------------------------- MODULE CollectorProofs --------------------------
(***************************************************************************)
(* What holds of Collector for any tables, any number of inodes and any    *)
(* set of failing readers: the types, OncePerInode and LastingReported.    *)
(***************************************************************************)
EXTENDS Collector, TLAPS

Done(i) == r = 0 \/ i < r

(* An inode belongs to one place of the tables, for good.                  *)
Inodes ==
  /\ \A s \in Slots : table[s].ino < nextIno
  /\ \A s, t \in Slots : table[s].ino = table[t].ino /\ table[s].ino > 0 => s = t
  /\ \A x \in conns \cup found : x.ino < nextIno
  /\ \A x \in conns \cup found, s \in Slots :
       x.ino = table[s].ino /\ x.ino > 0 => x.slot = s
  /\ \A x, y \in conns \cup found : x.ino = y.ino /\ x.ino > 0 => x.slot = y.slot

(* What a reader returns is what it covers, except that reader 2 returns   *)
(* IPv4 sockets when it reads what reader 1 has left.                      *)
Returned(i) == IF stale /\ i = 2 THEN "tcp" ELSE Covers[i]

(* What the current reader has found lies behind it, once per place.       *)
Behind ==
  /\ r = 0 => found = {}
  /\ stale /\ r = 2 => pos > NSlots
  /\ \A x \in found : /\ x.by = r /\ x.slot < pos
                      /\ KindOf[x.slot] = Returned(r)
  /\ \A x, y \in found : x.slot = y.slot => x = y

(* The list holds what finished readers found, and nothing of a reader 1   *)
(* that has left its dump to reader 2.                                     *)
Listed ==
  /\ stale => r # 1 /\ \A x \in conns : x.by # 1
  /\ \A x \in conns : Done(x.by) /\ KindOf[x.slot] = Returned(x.by)
  /\ \A x \in conns : x.by \in Netlink /\ x.ino > 0 => x.ino \in seen
  /\ \A i \in seen : \E x \in conns : x.ino = i

Once == TypeOK /\ Inodes /\ Behind /\ Listed /\ OncePerInode

-----------------------------------------------------------------------------
(* A lasting socket is still what it was, and was so to every reader.      *)
Unchanged ==
  /\ r # 0 => \A e \in lasting : table[e.slot] = [st |-> e.st, ino |-> e.ino]
  /\ \A e \in lasting : e.ino > 0
  /\ \A e \in lasting, x \in conns \cup found :
       x.slot = e.slot => x.st = e.st /\ x.ino = e.ino

Matches(x, e) == x.slot = e.slot /\ x.ino = e.ino /\ x.st = e.st

(* Every finished reader that has walked what it covers has left it in the *)
(* list, and the current one has found it if it is past its place.         *)
Reported ==
  /\ \A e \in lasting, i \in Walked :
       Shown(e) /\ Done(i) /\ Covers[i] = KindOf[e.slot] =>
         \E x \in conns : Matches(x, e)
  /\ r # 0 /\ ~(stale /\ r = 2) => \A e \in lasting :
       Shown(e) /\ e.slot < pos /\ Covers[r] = KindOf[e.slot] =>
         \E x \in found : Matches(x, e)

Inv == Once /\ Unchanged /\ Reported

-----------------------------------------------------------------------------
(* Two readers return the same sockets only if the first is netlink's and  *)
(* the second is not, unless they are netlink's and the first has failed.  *)
LEMMA ReturnedTwice ==
  ASSUME NEW i \in 1..6, NEW j \in 1..6, i < j, Returned(i) = Returned(j),
         stale \in BOOLEAN, stale => i # 1
  PROVE  i \in Netlink /\ j \notin Netlink
  BY DEF Returned, Covers, Netlink

(* What reader 1 leaves unread is part of what it found, labelled anew.    *)
LEMMA Relabelled ==
  ASSUME TypeOK, ReceiveFailsLate
  PROVE  \A x \in found' : /\ x \in Connection /\ x.by = 2
                            /\ \E y \in found : /\ x.slot = y.slot
                                                /\ x.ino = y.ino /\ x.st = y.st
<1>1. PICK read \in 0..NSlots :
        found' = {[x EXCEPT !.by = 2] : x \in {y \in found : y.slot > read}}
  BY DEF ReceiveFailsLate
<1>2. ASSUME NEW y \in found, NEW x, x = [y EXCEPT !.by = 2]
      PROVE  /\ x \in Connection /\ x.by = 2
             /\ x.slot = y.slot /\ x.ino = y.ino /\ x.st = y.st
  BY <1>2 DEF TypeOK, Connection
<1>3. QED
  BY <1>1, <1>2

(* What a reader takes from a place is a connection.                       *)
LEMMA ConnType ==
  ASSUME TypeOK, r # 0, NEW s \in Slots
  PROVE  Conn(s) \in Connection
  BY DEF TypeOK, Conn, Connection

(* The numbering of the readers.                                           *)
LEMMA NextReaderType ==
  ASSUME TypeOK, NextReader, r # 0
  PROVE  /\ r' \in 0..6 /\ pos' = 1 /\ found' = {}
         /\ r' = IF r = 6 THEN 0 ELSE r + 1
         /\ pos' \in 1..(NSlots + 1)
  BY CollectorAssumption DEF TypeOK, NextReader

LEMMA TypeInit == Init => TypeOK
<1> SUFFICES ASSUME Init PROVE TypeOK
  OBVIOUS
<1>1. stale \in BOOLEAN
  BY DEF Init
<1>2. QED
  BY <1>1, CollectorAssumption DEF Init, TypeOK, Nothing, States

LEMMA TypeStep == TypeOK /\ [Next]_vars => TypeOK'
<1> SUFFICES ASSUME TypeOK, [Next]_vars PROVE TypeOK'
  OBVIOUS
<1> USE CollectorAssumption
<1>1. ASSUME NEW s \in Slots, Open(s) PROVE TypeOK'
  BY <1>1 DEF Open, Change, TypeOK, States, call
<1>2. ASSUME NEW s \in Slots, Close(s) PROVE TypeOK'
  <2>1. ASSUME NEW e \in [st : States, ino : 0..MaxInode], Change(s, e),
               UNCHANGED nextIno
        PROVE  TypeOK'
    BY <2>1 DEF Change, TypeOK, call
  <2>2. \/ Change(s, Nothing)
        \/ Change(s, [st |-> "06", ino |-> 0])
    BY <1>2 DEF Close
  <2>3. QED
    BY <1>2, <2>1, <2>2 DEF Close, Nothing, States
<1>3. CASE Start
  <2>1. stale' \in BOOLEAN
    BY <1>3 DEF Start
  <2>2. QED
    BY <1>3, <2>1 DEF Start, TypeOK, Entry, Slots, kernel
<1>4. CASE Visit
  <2>1. pos \in Slots
    BY <1>4 DEF Visit, TypeOK, Slots
  <2>2. found' \subseteq Connection
    BY <1>4, <2>1, ConnType DEF Visit, TypeOK
  <2>3. QED
    BY <1>4, <2>2 DEF Visit, TypeOK, kernel
<1>5. CASE Commit
  <2>1. {x.ino : x \in {y \in found : y.ino > 0}} \subseteq 1..MaxInode
    BY DEF TypeOK, Connection
  <2>2. conns' \subseteq Connection /\ seen' \subseteq 1..MaxInode
    BY <1>5, <2>1 DEF Commit, TypeOK
  <2>3. QED
    BY <1>5, <2>2, NextReaderType DEF Commit, TypeOK, kernel
<1>6. CASE Fail
  BY <1>6, NextReaderType DEF Fail, TypeOK, kernel
<1>7. CASE ReceiveFailsAmid
  BY <1>7 DEF ReceiveFailsAmid, TypeOK, kernel
<1>8. CASE ReceiveFailsLate
  <2>1. found' \subseteq Connection
    BY <1>8, Relabelled
  <2>2. QED
    BY <1>8, <2>1 DEF ReceiveFailsLate, TypeOK, kernel
<1>9. CASE UNCHANGED vars
  BY <1>9 DEF vars, kernel, call, TypeOK
<1>10. QED
  BY <1>1, <1>2, <1>3, <1>4, <1>5, <1>6, <1>7, <1>8, <1>9 DEF Next

(* Type correctness: for any tables and whichever readers fail, the        *)
(* variables keep their types.                                             *)
THEOREM TypeCorrect == Spec => []TypeOK
  BY TypeInit, TypeStep, PTL DEF Spec

-----------------------------------------------------------------------------
(* All that the other lemmas need to know of the kernel's steps: one place *)
(* changes, to no inode or to one that was never used.                     *)
LEMMA KernelStep ==
  ASSUME TypeOK, NEW s \in Slots, Open(s) \/ Close(s)
  PROVE  /\ UNCHANGED call
         /\ lasting' = IF r = 0 THEN lasting ELSE {e \in lasting : e.slot # s}
         /\ table' \in [Slots -> [st : States, ino : 0..MaxInode]]
         /\ \A t \in Slots : t # s => table'[t] = table[t]
         /\ \/ table'[s].ino = 0 /\ nextIno' = nextIno
            \/ table'[s].ino = nextIno /\ nextIno' = nextIno + 1
<1> DEFINE New == \/ table'[s].ino = 0 /\ nextIno' = nextIno
                  \/ table'[s].ino = nextIno /\ nextIno' = nextIno + 1
<1>1. table' \in [Slots -> [st : States, ino : 0..MaxInode]]
  <2>1. TypeOK'
    BY TypeStep DEF Next
  <2>2. QED
    BY <2>1 DEF TypeOK
<1>2. ASSUME NEW e, Change(s, e)
      PROVE  /\ UNCHANGED call
             /\ lasting' = IF r = 0 THEN lasting ELSE {f \in lasting : f.slot # s}
             /\ \A t \in Slots : t # s => table'[t] = table[t]
             /\ table'[s] = e
  BY <1>2 DEF Change, TypeOK
<1>3. CASE Open(s)
  <2>1. PICK st : Change(s, [st |-> st, ino |-> nextIno])
    BY <1>3 DEF Open
  <2>2. New
    BY <1>2, <1>3, <2>1 DEF Open
  <2>3. QED
    BY <1>1, <1>2, <2>1, <2>2
<1>4. CASE Close(s)
  <2>1. PICK st : Change(s, [st |-> st, ino |-> 0])
    BY <1>4 DEF Close, Nothing
  <2>2. New
    BY <1>2, <1>4, <2>1 DEF Close
  <2>3. QED
    BY <1>1, <1>2, <2>1, <2>2
<1>5. QED
  BY <1>3, <1>4

(* A new inode is none that is in use; a reader notes the inode of the     *)
(* place it reads.                                                         *)
LEMMA InodesStep == TypeOK /\ Inodes /\ [Next]_vars => Inodes'
<1> SUFFICES ASSUME TypeOK, Inodes, [Next]_vars PROVE Inodes'
  OBVIOUS
<1>1. ASSUME NEW s \in Slots, Open(s) \/ Close(s) PROVE Inodes'
  <2>1. /\ conns' = conns /\ found' = found
        /\ nextIno \in Nat /\ nextIno' \in Nat
    BY <1>1, KernelStep, CollectorAssumption DEF call, TypeOK
  <2>2. \A x \in conns \cup found : x.ino \in Nat
    BY CollectorAssumption DEF TypeOK, Connection
  <2>3. \A t \in Slots : table[t].ino \in Nat
    BY CollectorAssumption DEF TypeOK
  <2>4. QED
    BY <1>1, <2>1, <2>2, <2>3, KernelStep DEF Inodes
<1>2. CASE Start
  BY <1>2 DEF Start, Inodes, kernel
<1>3. CASE Visit
  <2>1. pos \in Slots /\ found' \subseteq found \cup {Conn(pos)}
    BY <1>3, CollectorAssumption DEF Visit, TypeOK, Slots
  <2>2. Conn(pos).ino = table[pos].ino /\ Conn(pos).slot = pos
    BY DEF Conn
  <2>3. UNCHANGED <<table, nextIno, conns>>
    BY <1>3 DEF Visit, kernel
  <2>4. QED
    BY <2>1, <2>2, <2>3 DEF Inodes
<1>4. CASE Commit
  <2>1. conns' \cup found' \subseteq conns \cup found /\ UNCHANGED <<table, nextIno>>
    BY <1>4 DEF Commit, NextReader, kernel
  <2>2. QED
    BY <2>1 DEF Inodes
<1>5. CASE Fail \/ ReceiveFailsAmid
  <2>1. conns' \cup found' \subseteq conns \cup found /\ UNCHANGED <<table, nextIno>>
    BY <1>5 DEF Fail, ReceiveFailsAmid, NextReader, kernel
  <2>2. QED
    BY <2>1 DEF Inodes
<1>6. CASE ReceiveFailsLate
  <2>1. UNCHANGED <<table, nextIno, conns>>
    BY <1>6 DEF ReceiveFailsLate, kernel
  <2>2. \A x \in conns' \cup found' : \E y \in conns \cup found :
          x.slot = y.slot /\ x.ino = y.ino
    BY <1>6, <2>1, Relabelled
  <2>3. QED
    BY <2>1, <2>2 DEF Inodes
<1>7. CASE UNCHANGED vars
  BY <1>7 DEF vars, kernel, call, Inodes
<1>8. QED
  BY <1>1, <1>2, <1>3, <1>4, <1>5, <1>6, <1>7 DEF Next

(* Visit only ever adds the place it is at.                                *)
LEMMA BehindStep == TypeOK /\ Behind /\ Listed /\ [Next]_vars => Behind'
<1> SUFFICES ASSUME TypeOK, Behind, Listed, [Next]_vars PROVE Behind'
  OBVIOUS
<1>1. ASSUME NEW s \in Slots, Open(s) \/ Close(s) PROVE Behind'
  BY <1>1, KernelStep DEF call, Behind, Returned
<1>2. CASE Start
  BY <1>2 DEF Start, Behind
<1>3. CASE Visit
  <2>0. /\ ~(stale /\ r = 2) /\ stale' = stale
        /\ Returned(r) = Covers[r]
    BY <1>3, CollectorAssumption DEF Visit, TypeOK, Behind, Returned
  <2>1. /\ r # 0 /\ r' = r /\ pos \in Slots /\ pos' = pos + 1
        /\ \/ found' = found
           \/ found' = found \cup {Conn(pos)} /\ KindOf[pos] = Covers[r]
    BY <1>3, CollectorAssumption DEF Visit, TypeOK, Slots
  <2>2. Conn(pos).slot = pos /\ Conn(pos).by = r
    BY DEF Conn
  <2>3. \A x \in found : x.slot \in Int /\ x.slot < pos
    BY CollectorAssumption DEF Behind, TypeOK, Connection, Slots
  <2>4. pos \in Int
    BY <2>1 DEF Slots
  <2>5. QED
    BY <2>0, <2>1, <2>2, <2>3, <2>4 DEF Behind, Returned
<1>4. CASE Commit \/ Fail \/ ReceiveFailsAmid
  <2>1. found' = {} /\ stale' = stale /\ (stale => r' # 2)
    BY <1>4, CollectorAssumption
       DEF Commit, Fail, ReceiveFailsAmid, NextReader, Listed, TypeOK
  <2>2. QED
    BY <2>1 DEF Behind
<1>5. CASE ReceiveFailsLate
  <2>1. r = 1 /\ r' = 2 /\ stale' = TRUE /\ pos' = pos /\ pos > NSlots
    BY <1>5 DEF ReceiveFailsLate
  <2>2. \A y \in found : KindOf[y.slot] = "tcp" /\ y.slot < pos
    BY <2>1 DEF Behind, Returned, Covers
  <2>3. \A x \in found' : x.by = 2 /\ x.slot < pos /\ KindOf[x.slot] = "tcp"
    BY <1>5, <2>2, Relabelled
  <2>4. ASSUME NEW x \in found', NEW y \in found', x.slot = y.slot PROVE x = y
    <3>1. PICK read \in 0..NSlots :
            found' = {[z EXCEPT !.by = 2] : z \in {w \in found : w.slot > read}}
      BY <1>5 DEF ReceiveFailsLate
    <3>2. PICK a \in found : x = [a EXCEPT !.by = 2]
      BY <3>1
    <3>3. PICK b \in found : y = [b EXCEPT !.by = 2]
      BY <3>1
    <3>4. a.slot = b.slot
      BY <2>4, <3>2, <3>3 DEF TypeOK, Connection
    <3>5. QED
      BY <3>2, <3>3, <3>4 DEF Behind
  <2>5. QED
    BY <2>1, <2>3, <2>4 DEF Behind, Returned
<1>6. CASE UNCHANGED vars
  BY <1>6 DEF vars, call, Behind, Returned
<1>7. QED
  BY <1>1, <1>2, <1>3, <1>4, <1>5, <1>6 DEF Next

(* A reader that commits is done; netlink's note their inodes.             *)
LEMMA ListedStep == TypeOK /\ Behind /\ Listed /\ [Next]_vars => Listed'
<1> SUFFICES ASSUME TypeOK, Behind, Listed, [Next]_vars PROVE Listed'
  OBVIOUS
<1>1. ASSUME NEW s \in Slots, Open(s) \/ Close(s) PROVE Listed'
  BY <1>1, KernelStep DEF call, Listed, Done, Returned
<1>2. CASE Start
  BY <1>2 DEF Start, Listed
<1>3. CASE Visit
  BY <1>3 DEF Visit, Listed, Done, Returned
<1>4. ASSUME NextReader, r # 0, stale' = stale,
             conns' = conns \/ conns' \in SUBSET (conns \cup found)
      PROVE  /\ \A x \in conns' : Done(x.by)' /\ KindOf[x.slot] = Returned(x.by)'
             /\ stale' => r' # 1 /\ \A x \in conns' : x.by # 1
  <2>1. \A x \in conns \cup found : x.by \in 1..6 /\ (x.by = r \/ Done(x.by))
                                  /\ KindOf[x.slot] = Returned(x.by)
    BY DEF TypeOK, Connection, Behind, Listed
  <2>2. \A x \in conns \cup found : stale => x.by # 1
    BY DEF Behind, Listed
  <2>3. \A x \in conns' : x \in conns \cup found
    BY <1>4
  <2>4. r' # 1
    BY <1>4 DEF NextReader, TypeOK
  <2>5. \A x \in conns' : Done(x.by)'
    BY <1>4, <2>1, <2>3 DEF NextReader, TypeOK, Done
  <2>6. \A x \in conns' : KindOf[x.slot] = Returned(x.by)'
    BY <1>4, <2>1, <2>3 DEF Returned
  <2>7. QED
    BY <1>4, <2>2, <2>3, <2>4, <2>5, <2>6
<1>5. CASE Commit
  <2>1. /\ \A x \in conns' : Done(x.by)' /\ KindOf[x.slot] = Returned(x.by)'
        /\ stale' => r' # 1 /\ \A x \in conns' : x.by # 1
    BY <1>4, <1>5 DEF Commit
  <2>2. CASE r \in Netlink
    <3>1. /\ conns' = conns \cup found
          /\ seen' = seen \cup {x.ino : x \in {y \in found : y.ino > 0}}
      BY <1>5, <2>2 DEF Commit
    <3>2. QED
      BY <2>1, <3>1 DEF Listed
  <2>3. CASE r \notin Netlink
    <3>1. /\ conns' = conns \cup {x \in found : x.ino \notin seen}
          /\ seen' = seen
      BY <1>5, <2>3 DEF Commit
    <3>2. \A x \in found : x.by = r
      BY DEF Behind
    <3>3. QED
      BY <2>1, <2>3, <3>1, <3>2 DEF Listed
  <2>4. QED
    BY <2>2, <2>3
<1>6. CASE Fail
  <2>1. CASE r = 0
    BY <1>6, <2>1, CollectorAssumption DEF Fail
  <2>2. CASE r # 0
    BY <1>4, <1>6, <2>2 DEF Fail, Listed
  <2>3. QED
    BY <2>1, <2>2
<1>7. CASE ReceiveFailsAmid \/ ReceiveFailsLate
  <2>1. conns = {}
    BY <1>7 DEF ReceiveFailsAmid, ReceiveFailsLate, Listed, Done, TypeOK, Connection
  <2>2. conns' = {} /\ seen' = seen /\ r' # 1
    BY <1>7, <2>1 DEF ReceiveFailsAmid, ReceiveFailsLate
  <2>3. QED
    BY <2>1, <2>2 DEF Listed
<1>8. CASE UNCHANGED vars
  BY <1>8 DEF vars, call, Listed, Done, Returned
<1>9. QED
  BY <1>1, <1>2, <1>3, <1>5, <1>6, <1>7, <1>8 DEF Next

(* Commit is what could report an inode twice.  Two reports of it are of   *)
(* one place, hence by readers that return the same ones: the earlier is   *)
(* netlink's, has noted the inode, and procnet's later one is left out.    *)
LEMMA OnceStep ==
  TypeOK /\ Inodes /\ Behind /\ Listed /\ OncePerInode /\ [Next]_vars => OncePerInode'
<1> SUFFICES ASSUME TypeOK, Inodes, Behind, Listed, OncePerInode, [Next]_vars
             PROVE  OncePerInode'
  OBVIOUS
<1>1. CASE Commit
  <2>1. ASSUME NEW x \in conns, NEW y \in found, x.ino = y.ino, x.ino > 0
        PROVE  r \notin Netlink /\ y.ino \in seen
    <3>1. x.slot = y.slot
      BY <2>1 DEF Inodes
    <3>2. /\ x.by \in 1..6 /\ r \in 1..6 /\ x.by < r
          /\ Returned(x.by) = Returned(r)
          /\ stale \in BOOLEAN /\ (stale => x.by # 1)
      BY <3>1, <1>1 DEF Commit, Behind, Listed, Done, TypeOK, Connection
    <3>3. x.by \in Netlink /\ r \notin Netlink
      BY <3>2, ReturnedTwice
    <3>4. QED
      BY <2>1, <3>3 DEF Listed
  <2>2. \A x, y \in found : x.ino = y.ino /\ x.ino > 0 => x = y
    BY DEF Inodes, Behind
  <2>3. \A x \in conns' : x \in conns \/ (x \in found /\ (r \in Netlink \/ x.ino \notin seen))
    BY <1>1 DEF Commit
  <2>4. QED
    BY <2>1, <2>2, <2>3 DEF OncePerInode
<1>2. CASE Start
  BY <1>2 DEF Start, OncePerInode
<1>3. CASE \/ Visit \/ Fail \/ ReceiveFailsAmid \/ ReceiveFailsLate
           \/ UNCHANGED vars
  BY <1>3 DEF Visit, Fail, ReceiveFailsAmid, ReceiveFailsLate, vars, call, OncePerInode
<1>4. ASSUME NEW s \in Slots, Open(s) \/ Close(s) PROVE OncePerInode'
  BY <1>4, KernelStep DEF call, OncePerInode
<1>5. QED
  BY <1>1, <1>2, <1>3, <1>4 DEF Next

(* Once is an inductive invariant.                                         *)
THEOREM OnceCorrect == Spec => []Once
<1>1. Init => Once
  BY TypeInit DEF Init, Once, Inodes, Behind, Listed, OncePerInode, Nothing
<1>2. Once /\ [Next]_vars => Once'
  BY TypeStep, InodesStep, BehindStep, ListedStep, OnceStep DEF Once
<1>3. QED
  BY <1>1, <1>2, PTL DEF Spec

(* collectConnections: however the tables change while the six readers     *)
(* walk them, and whichever fail, an inode is in the result at most once.  *)
THEOREM InodesAreReportedOnce == Spec => []OncePerInode
<1>1. Once => OncePerInode
  BY DEF Once
<1>2. QED
  BY <1>1, OnceCorrect, PTL

-----------------------------------------------------------------------------
(* What a lasting socket shows passes every reader's filter.               *)
LEMMA ShownIsKept ==
  ASSUME TypeOK, NEW e \in lasting, Shown(e)
  PROVE  Kept(e.slot, e.st)
  BY DEF Shown, Kept, mapState, TypeOK, Entry, States

(* A change ends a socket's lasting; a visit reads what the table holds.   *)
LEMMA UnchangedStep == TypeOK /\ Behind /\ Unchanged /\ [Next]_vars => Unchanged'
<1> SUFFICES ASSUME TypeOK, Behind, Unchanged, [Next]_vars PROVE Unchanged'
  OBVIOUS
<1>1. ASSUME NEW s \in Slots, Open(s) \/ Close(s) PROVE Unchanged'
  <2>1. /\ r' = r /\ conns' = conns /\ found' = found
        /\ lasting' \subseteq lasting
        /\ r # 0 => \A e \in lasting' : e.slot # s /\ e.slot \in Slots
        /\ \A t \in Slots : t # s => table'[t] = table[t]
    BY <1>1, KernelStep DEF call, TypeOK, Entry
  <2>2. QED
    BY <2>1 DEF Unchanged
<1>2. CASE Start
  BY <1>2 DEF Start, Unchanged, TypeOK, kernel
<1>3. CASE Visit
  <2>1. /\ r # 0 /\ pos \in Slots /\ UNCHANGED <<table, r, conns, lasting>>
        /\ found' \subseteq found \cup {Conn(pos)}
    BY <1>3, CollectorAssumption DEF Visit, TypeOK, Slots, kernel
  <2>2. ASSUME NEW e \in lasting, Conn(pos).slot = e.slot
        PROVE  Conn(pos).st = e.st /\ Conn(pos).ino = e.ino
    <3>1. table[e.slot] = [st |-> e.st, ino |-> e.ino]
      BY <2>1 DEF Unchanged
    <3>2. e.slot = pos
      BY <2>2 DEF Conn
    <3>3. QED
      BY <3>1, <3>2 DEF Conn
  <2>3. ASSUME NEW e \in lasting, NEW x \in conns \cup found', x.slot = e.slot
        PROVE  x.st = e.st /\ x.ino = e.ino
    <3>1. CASE x = Conn(pos)
      BY <2>2, <2>3, <3>1
    <3>2. CASE x \in conns \cup found
      BY <2>3, <3>2 DEF Unchanged
    <3>3. QED
      BY <2>1, <2>3, <3>1, <3>2
  <2>4. QED
    BY <2>1, <2>3 DEF Unchanged
<1>4. CASE Commit \/ Fail \/ ReceiveFailsAmid
  <2>1. /\ conns' \cup found' \subseteq conns \cup found
        /\ UNCHANGED <<table, lasting>> /\ r # 0
    BY <1>4, CollectorAssumption DEF Commit, Fail, ReceiveFailsAmid, NextReader, kernel
  <2>2. QED
    BY <2>1 DEF Unchanged
<1>5. CASE ReceiveFailsLate
  <2>1. UNCHANGED <<table, lasting, conns>> /\ r # 0
    BY <1>5 DEF ReceiveFailsLate, kernel
  <2>2. \A x \in conns' \cup found' : \E y \in conns \cup found :
          x.slot = y.slot /\ x.ino = y.ino /\ x.st = y.st
    BY <1>5, <2>1, Relabelled
  <2>3. QED
    BY <2>1, <2>2 DEF Unchanged
<1>6. CASE UNCHANGED vars
  BY <1>6 DEF vars, kernel, call, Unchanged
<1>7. QED
  BY <1>1, <1>2, <1>3, <1>4, <1>5, <1>6 DEF Next

(* A visit finds the lasting socket at its place; a commit keeps it, or    *)
(* leaves it out because the list holds the same inode, hence the same     *)
(* socket, already; a failing reader is exempt from then on.               *)
LEMMA ReportedStep == Inv /\ [Next]_vars => Reported'
<1> SUFFICES ASSUME Inv, [Next]_vars PROVE Reported'
  OBVIOUS
<1> USE DEF Inv, Once
<1>1. ASSUME NEW s \in Slots, Open(s) \/ Close(s) PROVE Reported'
  <2>1. UNCHANGED call /\ lasting' \subseteq lasting
    BY <1>1, KernelStep
  <2>2. QED
    BY <2>1 DEF Reported, call, Done, Walked
<1>2. CASE Start
  BY <1>2 DEF Start, Reported, Done, Walked, Slots
<1>3. CASE Visit
  <2>1. /\ r # 0 /\ r' = r /\ pos \in Slots /\ pos' = pos + 1
        /\ UNCHANGED <<conns, failed, stale, lasting>>
        /\ found \subseteq found' /\ ~(stale /\ r = 2)
    BY <1>3, CollectorAssumption DEF Visit, TypeOK, Slots, Behind
  <2>2. ASSUME NEW e \in lasting, Shown(e), e.slot < pos + 1,
               Covers[r] = KindOf[e.slot]
        PROVE  \E x \in found' : Matches(x, e)
    <3>1. CASE e.slot < pos
      BY <2>1, <2>2, <3>1 DEF Reported
    <3>2. CASE e.slot = pos
      <4>1. table[pos] = [st |-> e.st, ino |-> e.ino] /\ e.ino > 0
        BY <2>1, <3>2 DEF Unchanged
      <4>2. Kept(pos, table[pos].st) /\ table[pos] # Nothing
        BY <2>2, <3>2, <4>1, ShownIsKept DEF Nothing
      <4>3. Conn(pos) \in found'
        BY <1>3, <2>2, <3>2, <4>2 DEF Visit
      <4>4. Matches(Conn(pos), e)
        BY <3>2, <4>1 DEF Matches, Conn
      <4>5. QED
        BY <4>3, <4>4
    <3>3. QED
      BY <2>1, <2>2, <3>1, <3>2, CollectorAssumption DEF TypeOK, Entry, Slots
  <2>3. \A x, e : Matches(x, e)' <=> Matches(x, e)
    BY DEF Matches
  <2>4. QED
    BY <2>1, <2>2 DEF Reported, Done, Walked
<1>4. CASE Commit
  <2>1. /\ r \in 1..6 /\ pos \in Nat /\ pos > NSlots /\ r' = (IF r = 6 THEN 0 ELSE r + 1)
        /\ pos' = 1 /\ conns \subseteq conns' /\ UNCHANGED <<failed, stale, lasting>>
    BY <1>4, CollectorAssumption DEF Commit, NextReader, kernel, TypeOK
  <2>2. \A i \in 1..6 : Done(i)' => Done(i) \/ i = r
    BY <2>1 DEF Done
  <2>3. \A e \in lasting : e.slot \in 1..NSlots
    BY DEF TypeOK, Entry, Slots
  <2>4. ASSUME NEW e \in lasting, Shown(e), Covers[r] = KindOf[e.slot],
               ~(stale /\ r = 2)
        PROVE  \E x \in conns' : Matches(x, e)
    <3>0. e.slot < pos /\ r # 0
      BY <2>1, <2>3, CollectorAssumption
    <3>1. PICK x \in found : Matches(x, e)
      BY <2>4, <3>0 DEF Reported
    <3>2. CASE x \in conns'
      BY <3>1, <3>2
    <3>3. CASE x \notin conns'
      <4>1. x.ino \in seen
        BY <1>4, <3>1, <3>3 DEF Commit
      <4>2. PICK y \in conns : y.ino = x.ino
        BY <4>1 DEF Listed
      <4>3. x.ino > 0
        BY <3>1, <2>4 DEF Matches, Unchanged
      <4>4. y.slot = x.slot
        BY <4>2, <4>3, <3>1 DEF Inodes
      <4>5. Matches(y, e)
        BY <4>2, <4>4, <3>1 DEF Matches, Unchanged
      <4>6. QED
        BY <2>1, <4>5
    <3>4. QED
      BY <3>2, <3>3
  <2>5. ASSUME NEW e \in lasting, NEW i \in Walked, Shown(e), Done(i)',
               Covers[i] = KindOf[e.slot]
        PROVE  \E x \in conns' : Matches(x, e)
    <3>1. CASE Done(i)
      BY <2>1, <2>5, <3>1 DEF Reported
    <3>2. CASE i = r
      BY <2>4, <2>5, <3>2 DEF Walked
    <3>3. QED
      BY <2>2, <2>5, <3>1, <3>2 DEF Walked
  <2>6. Walked' = Walked
    BY <2>1 DEF Walked
  <2>7. QED
    BY <2>1, <2>3, <2>5, <2>6 DEF Reported
<1>5. CASE Fail \/ ReceiveFailsAmid
  <2>1. /\ r \in 1..6 /\ pos' = 1 /\ r' \in 0..6
        /\ r' = 0 \/ r' \in {r + 1, r + 2}
        /\ \A i \in 1..6 : Done(i)' => Done(i) \/ i \in failed'
        /\ failed \subseteq failed' /\ UNCHANGED <<conns, stale, lasting>>
    <3>1. CASE Fail
      BY <1>5, <3>1, CollectorAssumption DEF Fail, NextReader, kernel, Done
    <3>2. CASE ReceiveFailsAmid
      BY <1>5, <3>2 DEF ReceiveFailsAmid, kernel, Done
    <3>3. QED
      BY <1>5, <3>1, <3>2
  <2>2. \A e \in lasting : e.slot \in 1..NSlots
    BY DEF TypeOK, Entry, Slots
  <2>3. \A i \in Walked' : i \in 1..6 /\ i \in Walked /\ i \notin failed'
    BY <2>1 DEF Walked
  <2>4. QED
    BY <2>1, <2>2, <2>3 DEF Reported
<1>6. CASE ReceiveFailsLate
  <2>1. /\ r = 1 /\ r' = 2 /\ stale' = TRUE /\ failed' = failed \cup {1}
        /\ UNCHANGED <<conns, lasting>>
    BY <1>6 DEF ReceiveFailsLate
  <2>2. \A i \in Walked' : ~Done(i)'
    BY <2>1 DEF Walked, Done
  <2>3. QED
    BY <2>1, <2>2 DEF Reported
<1>7. CASE UNCHANGED vars
  BY <1>7 DEF vars, call, Reported, Done, Walked
<1>8. QED
  BY <1>1, <1>2, <1>3, <1>4, <1>5, <1>6, <1>7 DEF Next

(* The inductive invariant of the collector.                               *)
THEOREM InvCorrect == Spec => []Inv
<1>1. Init => Unchanged /\ Reported
  BY DEF Init, Unchanged, Reported
<1>2. Inv /\ [Next]_vars => Inv'
  <2>1. Inv /\ [Next]_vars => Once'
    BY TypeStep, InodesStep, BehindStep, ListedStep, OnceStep DEF Inv, Once
  <2>2. QED
    BY <2>1, UnchangedStep, ReportedStep DEF Inv, Once
<1>3. Init => Once
  BY TypeInit DEF Init, Once, Inodes, Behind, Listed, OncePerInode, Nothing
<1>4. Inv <=> Once /\ Unchanged /\ Reported
  BY DEF Inv
<1>5. QED
  BY <1>1, <1>2, <1>3, <1>4, PTL DEF Spec

(* collectConnections: a socket with an inode that is there, unchanged,    *)
(* from the start to the end is in the result, unless every reader that    *)
(* covers it has failed or, with reader 2, read what reader 1 had left.    *)
THEOREM LastingAreReported == Spec => []LastingReported
<1>1. Inv => LastingReported
  BY DEF Inv, Reported, LastingReported, Matches, Done, Walked
<1>2. QED
  BY <1>1, InvCorrect, PTL

-----------------------------------------------------------------------------
(* The places that the readers of a call have still to pass, and one step  *)
(* for each of them to end.                                                *)
CallLeft ==
  IF r = 0 THEN 0 ELSE (6 - r) * (NSlots + 1) + (NSlots + 2 - pos)

(* However often the kernel opens and closes sockets meanwhile, a call     *)
(* ends with as many steps as six readers have places: the kernel's steps  *)
(* do not prolong it, each of the readers' brings it closer to its end.    *)
CallIsBounded ==
  [][/\ r = 0 => CallLeft' \in {0, 6 * (NSlots + 1)}
     /\ r # 0 => \/ CallLeft' \in 0..(CallLeft - 1)
                 \/ CallLeft' = CallLeft /\ table' # table]_vars

(* collectConnections ends after boundedly many steps of its own, for any  *)
(* tables and any failing readers.                                         *)
THEOREM CallsAreBounded == Spec => CallIsBounded
<1> DEFINE Less == /\ r = 0 => CallLeft' \in {0, 6 * (NSlots + 1)}
                   /\ r # 0 => \/ CallLeft' \in 0..(CallLeft - 1)
                               \/ CallLeft' = CallLeft /\ table' # table
<1>1. ASSUME TypeOK, Next PROVE Less
  <2>1. r \in 0..6 /\ pos \in 1..(NSlots + 1) /\ NSlots \in Nat
    BY <1>1, CollectorAssumption DEF TypeOK
  <2>2. ASSUME NEW s \in Slots, Open(s) \/ Close(s) PROVE Less
    <3>1. r' = r /\ pos' = pos
      BY <2>2 DEF Open, Close, Change, call
    <3>2. table' # table
      BY <1>1, <2>2, CollectorAssumption DEF Open, Close, Change, TypeOK, Nothing
    <3>3. CallLeft' = CallLeft
      BY <3>1 DEF CallLeft
    <3>4. r = 0 => CallLeft' = 0
      BY <3>1 DEF CallLeft
    <3>5. QED
      BY <3>2, <3>3, <3>4
  <2>3. CASE Start
    <3>1. r = 0 /\ r' = 1 /\ pos' = 1
      BY <2>3 DEF Start
    <3>2. CallLeft' = 6 * (NSlots + 1)
      BY <2>1, <3>1 DEF CallLeft
    <3>3. QED
      BY <3>1, <3>2
  <2>4. CASE Visit
    <3>1. r # 0 /\ r' = r /\ pos' = pos + 1 /\ pos <= NSlots
      BY <2>4 DEF Visit
    <3>2. CallLeft' \in 0..(CallLeft - 1)
      <4> DEFINE rest == (6 - r) * (NSlots + 1)
      <4>1. rest \in Nat
        BY <2>1
      <4>2. CallLeft = rest + (NSlots + 2 - pos)
        BY <3>1 DEF CallLeft
      <4>3. CallLeft' = rest + (NSlots + 2 - (pos + 1))
        BY <3>1 DEF CallLeft
      <4> HIDE DEF rest
      <4>4. QED
        BY <2>1, <3>1, <4>1, <4>2, <4>3
    <3>3. QED
      BY <3>1, <3>2
  <2>5. CASE Commit \/ Fail
    <3>1. r # 0 /\ r' = (IF r = 6 THEN 0 ELSE r + 1) /\ pos' = 1
      BY <2>1, <2>5, CollectorAssumption DEF Commit, Fail, NextReader
    <3>2. CallLeft' \in 0..(CallLeft - 1)
      <4>1. CASE r = 6
        BY <2>1, <3>1, <4>1 DEF CallLeft
      <4>2. CASE r # 6
        <5> DEFINE rest == (6 - (r + 1)) * (NSlots + 1)
        <5>1. rest \in Nat
          BY <2>1, <3>1, <4>2
        <5>2. (6 - r) * (NSlots + 1) = rest + (NSlots + 1)
          BY <2>1
        <5>3. CallLeft = rest + (NSlots + 1) + (NSlots + 2 - pos)
          BY <3>1, <5>2 DEF CallLeft
        <5>4. CallLeft' = rest + (NSlots + 2 - 1)
          BY <2>1, <3>1, <4>2 DEF CallLeft
        <5> HIDE DEF rest
        <5>5. QED
          BY <2>1, <5>1, <5>3, <5>4
      <4>3. QED
        BY <4>1, <4>2
    <3>3. QED
      BY <3>1, <3>2
  <2>6. CASE ReceiveFailsAmid \/ ReceiveFailsLate
    <3>1. r = 1 /\ ((r' = 3 /\ pos' = 1) \/ (r' = 2 /\ pos' = pos))
      BY <2>6 DEF ReceiveFailsAmid, ReceiveFailsLate
    <3>2. CallLeft = 5 * (NSlots + 1) + (NSlots + 2 - pos)
      BY <3>1 DEF CallLeft
    <3>3. \/ CallLeft' = 3 * (NSlots + 1) + (NSlots + 2 - 1)
          \/ CallLeft' = 4 * (NSlots + 1) + (NSlots + 2 - pos)
      BY <3>1 DEF CallLeft
    <3>4. QED
      BY <2>1, <3>1, <3>2, <3>3
  <2>7. QED
    BY <1>1, <2>2, <2>3, <2>4, <2>5, <2>6 DEF Next
<1>2. TypeOK /\ [Next]_vars => [Less]_vars
  BY <1>1
<1>3. QED
  BY <1>2, TypeCorrect, PTL DEF Spec, CallIsBounded
=============================================================================
