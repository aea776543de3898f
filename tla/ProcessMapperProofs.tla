------------------------ MODULE ProcessMapperProofs ------------------------
(***************************************************************************)
(* What holds of Correlate for any numbers of processes, descriptors and   *)
(* sockets, whatever the kernel does between two reads of /proc.           *)
(***************************************************************************)
EXTENDS ProcessMapper, Sums

WalkType ==
  /\ TypeOK
  /\ pid \in 0..(NPids + 1)
  /\ pc # "idle" => pid # 0
  /\ pc \in {"comm", "links"} => pid \in Pids
  /\ pc = "links" => procName # ""

(* Only a process that there is has descriptors.                           *)
KernelOK == \A p \in Pids : comm[p] = "" => fd[p] = NoFds

(* During a walk, what is the case has been noted.                         *)
UpToDate ==
  /\ \A p \in Pids, d \in Fds : fd[p][d] # 0 => <<p, fd[p][d]>> \in heldBy
  /\ \A p \in Pids : comm[p] # "" => <<p, comm[p]>> \in named
  /\ \A p \in Pids, d \in Fds, i \in Inodes :
       <<p, d, i>> \in steady => fd[p][d] = i /\ p \in entries

(* What is in the map came from a process up to the present one, with the  *)
(* one name that was read for it.                                          *)
True(o, i) == /\ <<o.pid, i>> \in heldBy
              /\ o.name = "unknown" \/ <<o.pid, o.name>> \in named

MapIsTrue ==
  /\ pc = "links" => procName = "unknown" \/ <<pid, procName>> \in named
  /\ \A i \in Inodes : result[i] # None =>
       /\ True(result[i], i)
       /\ result[i].pid <= pid
       /\ result[i].pid = pid => pc = "links" /\ result[i].name = procName
  /\ OneName(result)

(* The steady sockets of the processes passed are in it, and those of the  *)
(* present process are still to be read or in it.                          *)
Found(p, i) == result[i].pid \in 1..p

MapIsSteady ==
  \A p \in Pids, d \in Fds, i \in Inodes :
    <<p, d, i>> \in steady /\ p \notin Denied =>
      /\ p < pid => Found(p, i)
      /\ p = pid /\ pc = "comm" => d \in fds
      /\ p = pid /\ pc = "links" => d \in fds \/ Found(p, i)

IdleOK == pc = "idle" =>
  /\ \A i \in Inodes : shown[i].pid # 0 => True(shown[i], i)
  /\ OneName(shown)
  /\ \A p \in Pids, d \in Fds, i \in Inodes :
       <<p, d, i>> \in steady /\ p \notin Denied =>
         shown[i] = Unmarked \/ shown[i].pid \in 1..p

WalkOK == pc # "idle" => UpToDate /\ MapIsTrue /\ MapIsSteady

MapperInv == WalkType /\ KernelOK /\ IdleOK /\ WalkOK

-----------------------------------------------------------------------------
(* PIDs are counted from 1.                                                *)
LEMMA PidArith ==
  /\ NPids \in Nat /\ 0 \notin Inodes
  /\ Pids \subseteq Nat /\ \A p \in Pids : p # 0 /\ p <= NPids
  /\ \A n \in Nat : n # 0 /\ n <= NPids => n \in Pids
<1>1. NPids \in Nat /\ 0 \notin Inodes
  BY MapperAssumption
<1>2. QED
  BY <1>1 DEF Pids

(* An entry of the map is of a process, whose PID is not 0.                *)
LEMMA Entries ==
  ASSUME NEW table \in [Inodes -> Owner \cup {None}], NEW i \in Inodes
  PROVE  /\ table[i].pid \in Nat
         /\ table[i] = None => table[i].pid = 0
         /\ table[i] # None => table[i] \in Owner /\ table[i].pid \in Pids
<1>1. table[i] \in Owner \/ table[i] = None
  OBVIOUS
<1>2. table[i] \in Owner => table[i].pid \in Pids
  BY DEF Owner
<1>3. None.pid = 0
  BY DEF None
<1> HIDE DEF Owner, None
<1>4. table[i].pid \in Nat
  <2>1. CASE table[i] \in Owner
    BY <1>2, <2>1, PidArith
  <2>2. CASE table[i] = None
    BY <1>3, <2>2
  <2>3. QED
    BY <1>1, <2>1, <2>2
<1>5. QED
  BY <1>1, <1>2, <1>3, <1>4, Zenon

(* A step of the kernel, as far as the walk can tell.                      *)
LEMMA KernelEffect ==
  ASSUME MapperInv, Kernel
  PROVE  /\ comm' \in [Pids -> Names \cup {""}]
         /\ fd' \in [Pids -> [Fds -> Inodes \cup {0}]]
         /\ KernelOK'
         /\ Noted
<1> SUFFICES ASSUME NEW p \in Pids,
                    Start(p) \/ Exit(p) \/ Exec(p) \/ OpenSocket(p) \/ CloseSocket(p)
             PROVE  /\ comm' \in [Pids -> Names \cup {""}]
                    /\ fd' \in [Pids -> [Fds -> Inodes \cup {0}]]
                    /\ KernelOK'
                    /\ Noted
  BY DEF Kernel
<1>1. /\ comm \in [Pids -> Names \cup {""}]
      /\ fd \in [Pids -> [Fds -> Inodes \cup {0}]]
      /\ NoFds \in [Fds -> Inodes \cup {0}]
  BY DEF MapperInv, WalkType, TypeOK, NoFds
<1>2. "" \notin Names /\ 0 \notin Inodes /\ KernelOK
  BY MapperAssumption DEF MapperInv
<1>3. CASE Start(p)
  BY <1>1, <1>2, <1>3 DEF Start, KernelOK, NoFds
<1>4. CASE Exit(p)
  BY <1>1, <1>2, <1>4 DEF Exit, KernelOK, NoFds
<1>5. CASE Exec(p)
  BY <1>1, <1>2, <1>5 DEF Exec, KernelOK, NoFds
<1>6. CASE OpenSocket(p)
  <2>1. PICK d \in Fds, i \in Inodes : fd' = [fd EXCEPT ![p][d] = i]
    BY <1>6 DEF OpenSocket
  <2>2. comm[p] # "" /\ comm' = comm /\ Noted
    BY <1>6 DEF OpenSocket
  <2>3. fd' \in [Pids -> [Fds -> Inodes \cup {0}]]
    BY <1>1, <2>1
  <2>4. KernelOK'
    BY <1>1, <1>2, <2>1, <2>2 DEF KernelOK, NoFds
  <2>5. QED
    BY <1>1, <2>2, <2>3, <2>4
<1>7. CASE CloseSocket(p)
  <2>1. PICK d \in Fds : fd[p][d] # 0 /\ fd' = [fd EXCEPT ![p][d] = 0]
    BY <1>7 DEF CloseSocket
  <2>2. comm' = comm /\ Noted
    BY <1>7 DEF CloseSocket
  <2>3. fd' \in [Pids -> [Fds -> Inodes \cup {0}]]
    BY <1>1, <2>1
  <2>4. comm[p] # ""
    BY <1>2, <2>1 DEF KernelOK, NoFds
  <2>5. KernelOK'
    BY <1>1, <1>2, <2>1, <2>2, <2>4 DEF KernelOK, NoFds
  <2>6. QED
    BY <1>1, <2>2, <2>3, <2>5
<1>8. QED
  BY <1>3, <1>4, <1>5, <1>6, <1>7

(* What it notes only adds to the history, and takes from the steady.      *)
LEMMA KernelNotes ==
  ASSUME MapperInv, Kernel
  PROVE  /\ UNCHANGED walk
         /\ pc = "idle" => UNCHANGED ghosts
         /\ heldBy \subseteq heldBy' /\ heldBy' \subseteq Pids \X Inodes
         /\ named \subseteq named' /\ named' \subseteq Pids \X Names
         /\ steady' \subseteq steady
         /\ pc # "idle" => UpToDate'
<1>1. Noted /\ UNCHANGED walk
  BY KernelEffect DEF Noted
<1>2. CASE pc = "idle"
  BY <1>1, <1>2 DEF Noted, ghosts, MapperInv, WalkType, TypeOK
<1>3. CASE pc # "idle"
  <2>1. /\ heldBy' = heldBy \cup Holdings(fd')
        /\ named' = named \cup Named(comm')
        /\ steady' = {x \in steady : fd'[x[1]][x[2]] = x[3]}
    BY <1>1, <1>3 DEF Noted
  <2>2. /\ comm' \in [Pids -> Names \cup {""}]
        /\ fd' \in [Pids -> [Fds -> Inodes \cup {0}]]
    BY KernelEffect
  <2>3. \A p \in Pids, d \in Fds : fd'[p][d] # 0 => <<p, fd'[p][d]>> \in Holdings(fd')
    BY <2>2 DEF Holdings
  <2>4. \A p \in Pids : comm'[p] # "" => <<p, comm'[p]>> \in Named(comm')
    BY <2>2 DEF Named
  <2>5. \A p \in Pids, d \in Fds, i \in Inodes :
          <<p, d, i>> \in steady' => fd'[p][d] = i /\ p \in entries'
    BY <1>1, <1>3, <2>1 DEF walk, MapperInv, WalkOK, UpToDate
  <2>6. UpToDate'
    BY <2>1, <2>3, <2>4, <2>5 DEF UpToDate
  <2>7. Holdings(fd') \subseteq Pids \X Inodes /\ Named(comm') \subseteq Pids \X Names
    BY DEF Holdings, Named
  <2>8. QED
    BY <1>1, <1>3, <2>1, <2>6, <2>7 DEF MapperInv, WalkType, TypeOK
<1>4. QED
  BY <1>2, <1>3

LEMMA KernelStep == MapperInv /\ Kernel => MapperInv'
<1> SUFFICES ASSUME MapperInv, Kernel PROVE MapperInv'
  OBVIOUS
<1>1. /\ UNCHANGED walk
      /\ pc = "idle" => UNCHANGED ghosts
      /\ heldBy \subseteq heldBy' /\ heldBy' \subseteq Pids \X Inodes
      /\ named \subseteq named' /\ named' \subseteq Pids \X Names
      /\ steady' \subseteq steady
      /\ pc # "idle" => UpToDate'
  BY KernelNotes
<1>2. WalkType'
  BY <1>1, KernelEffect DEF MapperInv, WalkType, TypeOK, walk
<1>3. IdleOK'
  BY <1>1 DEF MapperInv, IdleOK, walk, ghosts, True, OneName
<1>4. WalkOK'
  <2> SUFFICES ASSUME pc # "idle" PROVE UpToDate' /\ MapIsTrue' /\ MapIsSteady'
    BY <1>1 DEF WalkOK, walk
  <2>1. MapIsTrue'
    BY <1>1 DEF MapperInv, WalkOK, MapIsTrue, walk, True, OneName
  <2>2. MapIsSteady'
    BY <1>1 DEF MapperInv, WalkOK, MapIsSteady, walk, Found
  <2>3. QED
    BY <1>1, <2>1, <2>2
<1>5. QED
  BY <1>2, <1>3, <1>4, KernelEffect DEF MapperInv

-----------------------------------------------------------------------------
(* The walk begins: nothing is in the map, and everything is noted.        *)
LEMMA ReadProcStep == MapperInv /\ ReadProc => MapperInv'
<1> SUFFICES ASSUME MapperInv, ReadProc PROVE MapperInv'
  OBVIOUS
<1>1. /\ pc = "idle" /\ pc' = "pid" /\ pid' = 1
      /\ entries' = {p \in Pids : comm[p] # ""}
      /\ result' = [i \in Inodes |-> None]
      /\ shown' = [i \in Inodes \cup {0} |-> Unmarked]
      /\ heldBy' = Holdings(fd)
      /\ named' = Named(comm)
      /\ steady' = {x \in Pids \X Fds \X Inodes : fd[x[1]][x[2]] = x[3]}
      /\ comm' = comm /\ fd' = fd /\ fds' = fds /\ procName' = procName
  BY DEF ReadProc, kernel
<1>2. /\ comm \in [Pids -> Names \cup {""}]
      /\ fd \in [Pids -> [Fds -> Inodes \cup {0}]]
      /\ 0 \notin Inodes /\ KernelOK /\ NPids \in Nat
  BY MapperAssumption DEF MapperInv, WalkType, TypeOK
<1>3. WalkType'
  <2>1. heldBy' \subseteq Pids \X Inodes /\ named' \subseteq Pids \X Names
    BY <1>1 DEF Holdings, Named
  <2>2. entries' \subseteq Pids /\ steady' \subseteq Pids \X Fds \X Inodes
    BY <1>1
  <2>3. result' \in [Inodes -> Owner \cup {None}]
        /\ shown' \in [Inodes \cup {0} -> Owner \cup {Unmarked, NoOne}]
    BY <1>1
  <2>4. fds' \subseteq Fds /\ procName' \in Names \cup {"", "unknown"}
    BY <1>1 DEF MapperInv, WalkType, TypeOK
  <2>5. TypeOK'
    BY <1>1, <1>2, <2>1, <2>2, <2>3, <2>4 DEF TypeOK
  <2>6. pid' \in 0..(NPids + 1) /\ pid' # 0 /\ pc' = "pid"
    <3>1. pid' = 1 /\ pc' = "pid"
      BY <1>1
    <3>2. QED
      BY <3>1, PidArith
  <2>7. QED
    BY <2>5, <2>6 DEF WalkType
<1>4. UpToDate'
  <2>1. \A p \in Pids, d \in Fds : fd'[p][d] # 0 => <<p, fd'[p][d]>> \in heldBy'
    BY <1>1, <1>2 DEF Holdings
  <2>2. \A p \in Pids : comm'[p] # "" => <<p, comm'[p]>> \in named'
    BY <1>1, <1>2 DEF Named
  <2>3. ASSUME NEW p \in Pids, NEW d \in Fds, NEW i \in Inodes, <<p, d, i>> \in steady'
        PROVE  fd'[p][d] = i /\ p \in entries'
    <3>1. fd[p][d] = i
      BY <1>1, <2>3
    <3>2. comm[p] # ""
      BY <1>2, <3>1 DEF KernelOK, NoFds
    <3>3. QED
      BY <1>1, <3>1, <3>2
  <2>4. QED
    BY <2>1, <2>2, <2>3 DEF UpToDate
<1>5. MapIsTrue'
  BY <1>1 DEF MapIsTrue, OneName, None
<1>6. MapIsSteady'
  <2>1. pid' = 1 /\ pc' = "pid"
    BY <1>1
  <2>2. \A p \in Pids : ~(p < 1)
    BY PidArith
  <2>3. QED
    BY <2>1, <2>2 DEF MapIsSteady
<1>7. QED
  BY <1>1, <1>2, <1>3, <1>4, <1>5, <1>6 DEF MapperInv, WalkOK, IdleOK, KernelOK

LEMMA ReadProcFailsStep == MapperInv /\ ReadProcFails => MapperInv'
<1> SUFFICES ASSUME MapperInv, ReadProcFails PROVE MapperInv'
  OBVIOUS
<1>1. /\ pc = "idle" /\ shown' = [i \in Inodes \cup {0} |-> Unmarked]
      /\ UNCHANGED <<comm, fd, pc, pid, entries, fds, procName, result,
                     heldBy, named, steady>>
  BY DEF ReadProcFails, kernel, ghosts
<1>2. WalkType'
  BY <1>1 DEF MapperInv, WalkType, TypeOK
<1>3. IdleOK'
  BY <1>1 DEF IdleOK, OneName, Unmarked
<1>4. QED
  BY <1>1, <1>2, <1>3 DEF MapperInv, WalkOK, KernelOK

-----------------------------------------------------------------------------
(* A process is skipped only if it holds no steady socket or is denied.    *)
LEMMA ReadFdsStep == MapperInv /\ ReadFds => MapperInv'
<1> SUFFICES ASSUME MapperInv, ReadFds PROVE MapperInv'
  OBVIOUS
<1>1. /\ pc = "pid" /\ pid \in Pids
      /\ UNCHANGED <<comm, fd, entries, procName, result, shown,
                     heldBy, named, steady>>
      /\ WalkType /\ KernelOK /\ UpToDate /\ MapIsTrue /\ MapIsSteady
  BY DEF ReadFds, kernel, ghosts, MapperInv, WalkOK
<1>2. pid \in Nat /\ pid # 0 /\ pid <= NPids /\ NPids \in Nat /\ 0 \notin Inodes
  BY <1>1, PidArith
<1>3. UpToDate' /\ KernelOK'
  BY <1>1 DEF UpToDate, KernelOK
<1>4. CASE (pid \notin entries \/ comm[pid] = "" \/ pid \in Denied)
           /\ pid' = pid + 1 /\ pc' = pc /\ fds' = fds
  <2>1. WalkType'
    <3>1. pid' \in 0..(NPids + 1) /\ pid' # 0 /\ pid' \in Nat /\ pc' = "pid"
      <4>1. pid' = pid + 1 /\ pc' = "pid"
        BY <1>1, <1>4
      <4>2. QED
        BY <1>2, <4>1
    <3>2. TypeOK'
      BY <1>1, <1>4, <3>1 DEF WalkType, TypeOK
    <3>3. QED
      BY <3>1, <3>2 DEF WalkType
  <2>2. MapIsTrue'
    <3>1. \A i \in Inodes : result[i] # None =>
            result[i].pid \in Nat /\ result[i].pid <= pid
      BY <1>1, Entries DEF MapIsTrue, WalkType, TypeOK
    <3>2. \A i \in Inodes : result[i] # None =>
            result[i].pid <= pid + 1 /\ result[i].pid # pid + 1
      BY <1>2, <3>1
    <3>3. QED
      BY <1>1, <1>4, <3>2 DEF MapIsTrue, True, OneName
  <2>3. MapIsSteady'
    <3> SUFFICES ASSUME NEW p \in Pids, NEW d \in Fds, NEW i \in Inodes,
                        <<p, d, i>> \in steady, p \notin Denied, p < pid'
                 PROVE  Found(p, i)'
      BY <1>1, <1>4 DEF MapIsSteady
    <3>1. p \in entries /\ fd[p][d] = i
      BY <1>1 DEF UpToDate
    <3>2. comm[p] # ""
      BY <1>1, <1>2, <3>1 DEF KernelOK, NoFds
    <3>3. p # pid
      BY <1>4, <3>1, <3>2
    <3>4. p < pid
      <4>1. p \in Nat /\ p < pid + 1
        BY <1>4, PidArith
      <4>2. QED
        BY <1>2, <3>3, <4>1
    <3>5. QED
      BY <1>1, <3>4 DEF MapIsSteady, Found
  <2>4. QED
    BY <1>1, <1>3, <1>4, <2>1, <2>2, <2>3 DEF MapperInv, WalkOK, IdleOK
<1>5. CASE /\ pc' = "comm" /\ pid' = pid
           /\ \E L \in SUBSET Fds : {d \in Fds : fd[pid][d] # 0} \subseteq L /\ fds' = L
  <2>1. WalkType'
    BY <1>1, <1>2, <1>5 DEF WalkType, TypeOK
  <2>2. MapIsTrue'
    BY <1>1, <1>5 DEF MapIsTrue, True, OneName
  <2>3. MapIsSteady'
    <3> SUFFICES ASSUME NEW p \in Pids, NEW d \in Fds, NEW i \in Inodes,
                        <<p, d, i>> \in steady, p \notin Denied
                 PROVE  /\ p < pid => Found(p, i)'
                        /\ p = pid => d \in fds'
      BY <1>1, <1>5 DEF MapIsSteady
    <3>1. p < pid => Found(p, i)'
      BY <1>1 DEF MapIsSteady, Found
    <3>2. fd[p][d] = i
      BY <1>1 DEF UpToDate
    <3>3. QED
      BY <1>2, <1>5, <3>1, <3>2
  <2>4. QED
    BY <1>1, <1>3, <1>5, <2>1, <2>2, <2>3 DEF MapperInv, WalkOK, IdleOK
<1>6. QED
  BY <1>4, <1>5 DEF ReadFds

(* The name is one that the process has at this time.                      *)
LEMMA ReadCommStep == MapperInv /\ ReadComm => MapperInv'
<1> SUFFICES ASSUME MapperInv, ReadComm PROVE MapperInv'
  OBVIOUS
<1>1. /\ pc = "comm" /\ pc' = "links"
      /\ procName' = IF comm[pid] # "" THEN comm[pid] ELSE "unknown"
      /\ UNCHANGED <<comm, fd, pid, entries, fds, result, shown,
                     heldBy, named, steady>>
      /\ WalkType /\ UpToDate /\ MapIsTrue /\ MapIsSteady /\ pid \in Pids
  BY DEF ReadComm, kernel, ghosts, MapperInv, WalkOK, WalkType
<1>2. comm[pid] \in Names \cup {""}
  BY <1>1 DEF WalkType, TypeOK
<1>3. procName' # "" /\ procName' \in Names \cup {"", "unknown"}
  BY <1>1, <1>2
<1>4. WalkType'
  BY <1>1, <1>3 DEF WalkType, TypeOK
<1>5. procName' = "unknown" \/ <<pid, procName'>> \in named
  BY <1>1 DEF UpToDate
<1>6. MapIsTrue'
  BY <1>1, <1>5 DEF MapIsTrue, True, OneName
<1>7. MapIsSteady'
  BY <1>1 DEF MapIsSteady, Found
<1>8. QED
  BY <1>1, <1>4, <1>6, <1>7 DEF MapperInv, WalkOK, IdleOK, KernelOK, UpToDate

(* A link adds at most one inode, held now, under the present name.        *)
LEMMA ReadLinkStep == MapperInv /\ ReadLink => MapperInv'
<1> SUFFICES ASSUME MapperInv, ReadLink PROVE MapperInv'
  OBVIOUS
<1>1. PICK d \in fds : fds' = fds \ {d} /\ result' = Mapped(fd[pid][d])
  BY DEF ReadLink
<1>2. /\ pc = "links" /\ pid \in Pids /\ procName # ""
      /\ UNCHANGED <<comm, fd, pc, pid, entries, procName, shown,
                     heldBy, named, steady>>
      /\ WalkType /\ UpToDate /\ MapIsTrue /\ MapIsSteady
  BY DEF ReadLink, kernel, ghosts, MapperInv, WalkOK, WalkType
<1> DEFINE e == fd[pid][d]
           o == [pid |-> pid, name |-> procName]
<1>3. /\ d \in Fds /\ e \in Inodes \cup {0} /\ 0 \notin Inodes
      /\ o \in Owner /\ o # None /\ pid \in Nat \ {0}
      /\ result \in [Inodes -> Owner \cup {None}]
  <2>1. d \in Fds /\ e \in Inodes \cup {0} /\ 0 \notin Inodes
    <3>1. d \in Fds /\ fd \in [Pids -> [Fds -> Inodes \cup {0}]]
      BY <1>2 DEF WalkType, TypeOK
    <3>2. QED
      BY <1>2, <3>1, PidArith
  <2>2. pid \in Nat \ {0}
    BY <1>2, PidArith
  <2>3. o \in Owner /\ o # None
    BY <1>2, <2>2 DEF WalkType, TypeOK, Owner, None
  <2>4. result \in [Inodes -> Owner \cup {None}]
    BY <1>2 DEF WalkType, TypeOK
  <2>5. QED
    BY <2>1, <2>2, <2>3, <2>4
<1>4. \A i \in Inodes : result'[i] = IF i = e /\ result[i] = None THEN o ELSE result[i]
  BY <1>1, <1>3 DEF Mapped
<1>5. result' \in [Inodes -> Owner \cup {None}]
  BY <1>1, <1>3 DEF Mapped
<1>6. WalkType'
  BY <1>1, <1>2, <1>5 DEF WalkType, TypeOK
<1>7. True(o, e) \/ e = 0
  <2>1. e # 0 => <<pid, e>> \in heldBy
    BY <1>2, <1>3 DEF UpToDate
  <2>2. QED
    BY <1>2, <2>1 DEF MapIsTrue, True
<1> HIDE DEF e
<1>8. MapIsTrue'
  <2>1. ASSUME NEW i \in Inodes, result'[i] # None
        PROVE  /\ True(result[i], i)'
               /\ result'[i].pid <= pid
               /\ result'[i].pid = pid => result'[i].name = procName
    <3>1. CASE i = e /\ result[i] = None
      <4>1. result'[i] = o /\ True(o, i) /\ pid <= pid
        BY <1>3, <1>4, <1>7, <3>1
      <4>2. True(result[i], i)'
        BY <1>2, <4>1 DEF True
      <4>3. QED
        BY <4>1, <4>2
    <3>2. CASE ~(i = e /\ result[i] = None)
      BY <1>2, <1>4, <2>1, <3>2 DEF True, MapIsTrue
    <3>3. QED
      BY <3>1, <3>2
  <2>2. OneName(result')
    <3> SUFFICES ASSUME NEW i \in Inodes, NEW j \in Inodes,
                        result'[i].pid # 0, result'[i].pid = result'[j].pid
                 PROVE  result'[i].name = result'[j].name
      BY DEF OneName
    <3>1. result'[i] # None /\ result'[j] # None
      BY <1>5, Entries
    <3>2. CASE result'[i].pid = pid
      BY <2>1, <3>1, <3>2
    <3>3. CASE result'[i].pid # pid
      <4>1. result'[i] = result[i] /\ result'[j] = result[j]
        BY <1>3, <1>4, <3>3
      <4>2. QED
        BY <1>2, <4>1 DEF MapIsTrue, OneName
    <3>4. QED
      BY <3>2, <3>3
  <2>3. QED
    BY <1>2, <2>1, <2>2 DEF MapIsTrue, OneName
<1>9. MapIsSteady'
  <2> SUFFICES ASSUME NEW p \in Pids, NEW c \in Fds, NEW i \in Inodes,
                      <<p, c, i>> \in steady, p \notin Denied
               PROVE  /\ p < pid => Found(p, i)'
                      /\ p = pid => c \in fds' \/ Found(p, i)'
    BY <1>2 DEF MapIsSteady
  <2>1. Found(p, i) => Found(p, i)'
    <3>1. Found(p, i) => result[i] # None
      BY <1>3, Entries DEF Found
    <3>2. QED
      BY <1>4, <3>1 DEF Found
  <2>2. p < pid => Found(p, i)
    BY <1>2 DEF MapIsSteady
  <2>3. CASE p = pid
    <3>1. c \in fds \/ Found(p, i)
      BY <1>2, <2>3 DEF MapIsSteady
    <3>2. ASSUME c = d PROVE c \in fds' \/ Found(p, i)'
      <4>1. e = i
        BY <1>2, <2>3, <3>2 DEF UpToDate, e
      <4>2. result'[i] # None
        BY <1>3, <1>4, <4>1
      <4>3. result'[i].pid <= pid /\ result'[i].pid \in Pids
        BY <1>2, <1>5, <1>8, <4>2, Entries DEF MapIsTrue
      <4>4. result'[i].pid \in 1..p
        <5> DEFINE q == result'[i].pid
        <5>1. q \in Nat /\ q # 0 /\ q <= p /\ p \in Nat
          BY <2>3, <4>3, PidArith
        <5> HIDE DEF q
        <5>2. q \in 1..p
          BY <5>1
        <5>3. QED
          BY <5>2 DEF q
      <4>5. QED
        BY <2>3, <4>4 DEF Found
    <3>3. ASSUME c # d PROVE c \in fds' \/ Found(p, i)'
      BY <1>1, <2>1, <3>1, <3>3
    <3>4. ~(p < pid)
      BY <1>3, <2>3
    <3>5. c \in fds' \/ Found(p, i)'
      <4>1. CASE c = d
        BY <3>2, <4>1
      <4>2. CASE c # d
        BY <3>3, <4>2
      <4>3. QED
        BY <4>1, <4>2
    <3>6. QED
      BY <3>4, <3>5
  <2>4. QED
    BY <2>1, <2>2, <2>3
<1>10. QED
  BY <1>2, <1>6, <1>8, <1>9 DEF MapperInv, WalkOK, IdleOK, KernelOK, UpToDate

(* All links have been read, so that the process is done.                  *)
LEMMA NextPidStep == MapperInv /\ NextPid => MapperInv'
<1> SUFFICES ASSUME MapperInv, NextPid PROVE MapperInv'
  OBVIOUS
<1>1. /\ pc = "links" /\ fds = {} /\ pc' = "pid" /\ pid' = pid + 1
      /\ UNCHANGED <<comm, fd, entries, fds, procName, result, shown,
                     heldBy, named, steady>>
      /\ WalkType /\ UpToDate /\ MapIsTrue /\ MapIsSteady /\ pid \in Pids
  BY DEF NextPid, kernel, ghosts, MapperInv, WalkOK, WalkType
<1>2. pid \in Nat /\ pid # 0 /\ pid <= NPids /\ NPids \in Nat
  BY <1>1, PidArith
<1>3. WalkType'
  <2>1. pid' \in 0..(NPids + 1) /\ pid' # 0 /\ pid' \in Nat /\ pc' = "pid"
    <3>1. pid' = pid + 1 /\ pc' = "pid"
      BY <1>1
    <3>2. QED
      BY <1>2, <3>1
  <2>2. TypeOK'
    BY <1>1, <2>1 DEF WalkType, TypeOK
  <2>3. QED
    BY <2>1, <2>2 DEF WalkType
<1>4. MapIsTrue'
  <2>1. \A i \in Inodes : result[i] # None =>
          result[i].pid \in Nat /\ result[i].pid <= pid
    BY <1>1, Entries DEF MapIsTrue, WalkType, TypeOK
  <2>2. \A i \in Inodes : result[i] # None =>
          result[i].pid <= pid + 1 /\ result[i].pid # pid + 1
    BY <1>2, <2>1
  <2>3. QED
    BY <1>1, <2>2 DEF MapIsTrue, True, OneName
<1>5. MapIsSteady'
  <2> SUFFICES ASSUME NEW p \in Pids, NEW d \in Fds, NEW i \in Inodes,
                      <<p, d, i>> \in steady, p \notin Denied, p < pid'
               PROVE  Found(p, i)'
    BY <1>1 DEF MapIsSteady
  <2>1. p < pid \/ p = pid
    <3>1. p \in Nat /\ p < pid + 1
      BY <1>1, PidArith
    <3>2. QED
      BY <1>2, <3>1
  <2>2. Found(p, i)
    BY <1>1, <2>1 DEF MapIsSteady
  <2>3. QED
    BY <1>1, <2>2 DEF Found
<1>6. QED
  BY <1>1, <1>3, <1>4, <1>5 DEF MapperInv, WalkOK, IdleOK, KernelOK, UpToDate

-----------------------------------------------------------------------------
(* The connections are marked with what the map has at the end.            *)
LEMMA CorrelateStep == MapperInv /\ Correlate => MapperInv'
<1> SUFFICES ASSUME MapperInv, Correlate PROVE MapperInv'
  OBVIOUS
<1>1. /\ pc = "pid" /\ pid \notin Pids /\ pc' = "idle" /\ pid' = 0
      /\ shown' = [i \in Inodes \cup {0} |->
                     IF i \in Inodes /\ result[i] # None THEN result[i] ELSE NoOne]
      /\ UNCHANGED <<comm, fd, entries, fds, procName, result,
                     heldBy, named, steady>>
      /\ WalkType /\ UpToDate /\ MapIsTrue /\ MapIsSteady
  BY DEF Correlate, kernel, ghosts, MapperInv, WalkOK
<1>2. result \in [Inodes -> Owner \cup {None}]
  BY <1>1 DEF WalkType, TypeOK
<1>3. \A i \in Inodes : shown'[i] = IF result[i] # None THEN result[i] ELSE NoOne
  BY <1>1
<1>4. WalkType'
  <2>1. shown' \in [Inodes \cup {0} -> Owner \cup {Unmarked, NoOne}]
    <3>1. \A i \in Inodes \cup {0} :
            (IF i \in Inodes /\ result[i] # None THEN result[i] ELSE NoOne)
              \in Owner \cup {Unmarked, NoOne}
      BY <1>2
    <3>2. QED
      BY <1>1, <3>1
  <2>2. TypeOK'
    BY <1>1, <2>1, PidArith DEF WalkType, TypeOK
  <2>3. pid' \in 0..(NPids + 1) /\ pc' = "idle"
    <3>1. pid' = 0 /\ pc' = "idle"
      BY <1>1
    <3>2. QED
      BY <3>1, PidArith
  <2>4. QED
    BY <2>2, <2>3 DEF WalkType
<1>5. NoOne.pid = 0
  BY DEF NoOne
<1>6. \A i \in Inodes : shown'[i].pid # 0 => result[i] # None /\ shown'[i] = result[i]
  BY <1>3, <1>5
<1>7. \A i \in Inodes : shown'[i].pid # 0 => True(shown[i], i)'
  BY <1>1, <1>6 DEF MapIsTrue, True
<1>8. OneName(shown')
  <2> SUFFICES ASSUME NEW i \in Inodes, NEW j \in Inodes,
                      shown'[i].pid # 0, shown'[i].pid = shown'[j].pid
               PROVE  shown'[i].name = shown'[j].name
    BY DEF OneName
  <2>1. shown'[i] = result[i] /\ shown'[j] = result[j]
    BY <1>6
  <2>2. QED
    BY <1>1, <2>1 DEF MapIsTrue, OneName
<1>9. ASSUME NEW p \in Pids, NEW d \in Fds, NEW i \in Inodes,
             <<p, d, i>> \in steady, p \notin Denied
      PROVE  shown'[i].pid \in 1..p
  <2>1. p < pid
    <3>1. pid # 0 /\ pid \in 0..(NPids + 1)
      BY <1>1 DEF WalkType
    <3>2. p \in Nat /\ p <= NPids /\ NPids \in Nat
      BY PidArith
    <3>3. ~(pid <= NPids)
      BY <1>1, <3>1, PidArith
    <3>4. QED
      BY <3>1, <3>2, <3>3
  <2>2. Found(p, i)
    BY <1>1, <1>9, <2>1 DEF MapIsSteady
  <2>3. result[i] # None
    BY <1>2, <2>2, Entries DEF Found
  <2>4. QED
    BY <1>3, <2>2, <2>3 DEF Found
<1>10. IdleOK'
  BY <1>1, <1>7, <1>8, <1>9 DEF IdleOK, OneName
<1>11. QED
  BY <1>1, <1>4, <1>10 DEF MapperInv, WalkOK, KernelOK

-----------------------------------------------------------------------------
LEMMA MapperInductive == Spec => []MapperInv
<1>1. Init => MapperInv
  <2> SUFFICES ASSUME Init PROVE MapperInv
    OBVIOUS
  <2>1. TypeOK
    BY DEF Init, TypeOK, NoFds
  <2>2. WalkType
    <3>1. pc = "idle" /\ pid = 0
      BY DEF Init
    <3>2. pid \in 0..(NPids + 1)
      BY <3>1, PidArith
    <3>3. QED
      BY <2>1, <3>1, <3>2 DEF WalkType
  <2>3. KernelOK
    BY DEF Init, KernelOK
  <2>4. IdleOK
    BY DEF Init, IdleOK, OneName, Unmarked
  <2>5. WalkOK
    BY DEF Init, WalkOK
  <2>6. QED
    BY <2>2, <2>3, <2>4, <2>5 DEF MapperInv
<1>2. MapperInv /\ [Next]_vars => MapperInv'
  <2> SUFFICES ASSUME MapperInv, [Next]_vars PROVE MapperInv'
    OBVIOUS
  <2>1. CASE UNCHANGED vars
    <3>1. UNCHANGED <<comm, fd, pc, pid, entries, fds, procName, result, shown,
                      heldBy, named, steady>>
      BY <2>1 DEF vars, kernel, walk, ghosts
    <3>2. WalkType' /\ KernelOK'
      BY <3>1 DEF MapperInv, WalkType, TypeOK, KernelOK
    <3>3. IdleOK'
      BY <3>1 DEF MapperInv, IdleOK, True, OneName
    <3>4. WalkOK'
      BY <3>1 DEF MapperInv, WalkOK, UpToDate, MapIsTrue, MapIsSteady,
                  Found, True, OneName
    <3>5. QED
      BY <3>2, <3>3, <3>4 DEF MapperInv
  <2>2. QED
    BY <2>1, KernelStep, ReadProcStep, ReadProcFailsStep, ReadFdsStep,
       ReadCommStep, ReadLinkStep, NextPidStep, CorrelateStep DEF Next
<1>3. QED
  BY <1>1, <1>2, PTL DEF Spec

(* Every variable of the walk keeps its type.                              *)
THEOREM TypeCorrect == Spec => []TypeOK
<1>1. MapperInv => TypeOK
  BY DEF MapperInv, WalkType
<1>2. QED
  BY <1>1, MapperInductive, PTL

(* The process shown has held the socket during the walk, and the name     *)
(* shown was its own, however many processes, descriptors and sockets.     *)
THEOREM AttributionTrue == Spec => []AttributionIsTrue
<1>1. MapperInv => AttributionIsTrue
  BY DEF MapperInv, IdleOK, True, AttributionIsTrue, Marked
<1>2. QED
  BY <1>1, MapperInductive, PTL

(* What is held throughout the walk is attributed, to the first holder or  *)
(* one before it.                                                          *)
THEOREM SteadyAttributed == Spec => []SteadyIsAttributed
<1>1. MapperInv => SteadyIsAttributed
  <2> SUFFICES ASSUME MapperInv, pc = "idle", NEW x \in steady, x[1] \notin Denied
               PROVE  shown[x[3]] = Unmarked \/ shown[x[3]].pid \in 1..x[1]
    BY DEF SteadyIsAttributed
  <2> DEFINE p == x[1]
             d == x[2]
             i == x[3]
  <2>1. x \in Pids \X Fds \X Inodes
    BY DEF MapperInv, WalkType, TypeOK
  <2>2. p \in Pids /\ d \in Fds /\ i \in Inodes /\ x = <<p, d, i>>
    BY <2>1
  <2> HIDE DEF p, d, i
  <2>3. shown[i] = Unmarked \/ shown[i].pid \in 1..p
    BY <2>2 DEF MapperInv, IdleOK, p
  <2>4. QED
    BY <2>3 DEF p, i
<1>2. QED
  BY <1>1, MapperInductive, PTL

(* The connections of one PID have one name, as the grouping by process    *)
(* needs it, although the process may take others during the walk.         *)
THEOREM OneNameForAll == Spec => []OneNamePerPid
<1>1. MapperInv => OneNamePerPid
  BY DEF MapperInv, IdleOK, OneNamePerPid
<1>2. QED
  BY <1>1, MapperInductive, PTL

-----------------------------------------------------------------------------
(* What is left of a walk: a turn for each process not yet passed, with a  *)
(* step for each descriptor it may have and three for itself.              *)
TurnSteps == NFds + 3

StepsOfTurn == CASE pc = "pid"   -> TurnSteps
                 [] pc = "comm"  -> NFds + 2
                 [] pc = "links" -> 1 + Cardinality(fds)

WalkLeft == IF pc = "idle" THEN 0
            ELSE 1 + (NPids - pid) * TurnSteps + StepsOfTurn

(* Whatever processes do meanwhile, they cannot prolong a walk: what they  *)
(* open or start is not waited for, and each step of the walk brings it    *)
(* closer to its end, after at most TurnSteps steps for each entry.        *)
WalkIsBounded ==
  [][/\ pc = "idle" => WalkLeft' \in {0, NPids * TurnSteps + 1}
     /\ pc # "idle" /\ ~Kernel => WalkLeft' \in 0..(WalkLeft - 1)
     /\ Kernel => WalkLeft' = WalkLeft]_vars

LEMMA FewFds == MapperInv => /\ IsFiniteSet(fds) /\ Cardinality(fds) \in 0..NFds
                             /\ NPids \in Nat /\ NFds \in Nat
<1> SUFFICES ASSUME MapperInv PROVE IsFiniteSet(fds) /\ Cardinality(fds) \in 0..NFds
  BY MapperAssumption
<1>1. IsFiniteSet(Fds) /\ Cardinality(Fds) = NFds
  <2>1. NFds \in Nat
    BY MapperAssumption
  <2>2. IsFiniteSet(1..NFds) /\ Cardinality(1..NFds) = IF 1 > NFds THEN 0 ELSE NFds - 1 + 1
    BY <2>1, FS_Interval
  <2>3. QED
    BY <2>1, <2>2 DEF Fds
<1>2. fds \in SUBSET Fds
  BY DEF MapperInv, WalkType, TypeOK
<1>3. QED
  BY <1>1, <1>2, FS_Subset, FS_CardinalityType

LEMMA TurnArith ==
  ASSUME NEW p \in Pids, NPids \in Nat, NFds \in Nat
  PROVE  /\ (NPids - p) * TurnSteps \in Nat /\ TurnSteps \in Nat
         /\ (NPids - (p + 1)) * TurnSteps = (NPids - p) * TurnSteps - TurnSteps
  BY DEF Pids, TurnSteps

LEMMA OneTurnLess ==
  ASSUME NEW n \in Nat, NEW t \in Nat
  PROVE  n * t \in Nat /\ (n - 1) * t = n * t - t
OBVIOUS

(* A step of the walk leaves less of it.                                   *)
LEMMA WalkStep ==
  ASSUME MapperInv, MapperInv', ReadFds \/ ReadComm \/ ReadLink \/ NextPid \/ Correlate
  PROVE  pc # "idle" /\ WalkLeft' \in 0..(WalkLeft - 1)
<1>1. /\ IsFiniteSet(fds) /\ Cardinality(fds) \in 0..NFds
      /\ NPids \in Nat /\ NFds \in Nat /\ TurnSteps = NFds + 3
  BY FewFds DEF TurnSteps
<1>2. CASE Correlate
  <2>1. pc = "pid" /\ pc' = "idle" /\ pid = NPids + 1
    BY <1>1, <1>2 DEF Correlate, MapperInv, WalkType, Pids
  <2>2. WalkLeft = 1 + (NPids - (NPids + 1)) * TurnSteps + TurnSteps
    BY <2>1 DEF WalkLeft, StepsOfTurn
  <2>3. (NPids - (NPids + 1)) * TurnSteps = -TurnSteps
    BY <1>1
  <2>4. WalkLeft' = 0
    BY <2>1 DEF WalkLeft
  <2>5. QED
    BY <1>1, <2>1, <2>2, <2>3, <2>4
<1>3. CASE ~Correlate
  <2>1. pc \in {"pid", "comm", "links"} /\ pid \in Pids
    BY <1>3 DEF ReadFds, ReadComm, ReadLink, NextPid, MapperInv, WalkType
  <2> DEFINE rest == (NPids - pid) * TurnSteps
  <2>2. rest \in Nat /\ (NPids - (pid + 1)) * TurnSteps = rest - TurnSteps
    BY <1>1, <2>1, TurnArith
  <2>3. WalkLeft = 1 + rest + StepsOfTurn
    BY <2>1 DEF WalkLeft
  <2>4. ASSUME pid' = pid + 1, pc' = "pid" PROVE WalkLeft' = 1 + (rest - TurnSteps) + TurnSteps
    BY <2>2, <2>4 DEF WalkLeft, StepsOfTurn, TurnSteps
  <2>5. ASSUME pid' = pid, pc' \in {"comm", "links"} PROVE WalkLeft' = 1 + rest + StepsOfTurn'
    BY <2>5 DEF WalkLeft, TurnSteps
  <2> HIDE DEF rest
  <2>6. CASE ReadFds
    <3>1. pc = "pid" /\ StepsOfTurn = TurnSteps
      BY <2>6 DEF ReadFds, StepsOfTurn
    <3>2. CASE pid' = pid + 1 /\ pc' = "pid"
      BY <1>1, <2>2, <2>3, <2>4, <3>1, <3>2
    <3>3. CASE pid' = pid /\ pc' = "comm"
      <4>1. StepsOfTurn' = NFds + 2
        BY <3>3 DEF StepsOfTurn
      <4>2. QED
        BY <1>1, <2>2, <2>3, <2>5, <3>1, <3>3, <4>1
    <3>4. QED
      BY <2>6, <3>2, <3>3 DEF ReadFds
  <2>7. CASE ReadComm
    <3>1. pc = "comm" /\ pc' = "links" /\ pid' = pid /\ fds' = fds
      BY <2>7 DEF ReadComm
    <3>2. StepsOfTurn = NFds + 2 /\ StepsOfTurn' = 1 + Cardinality(fds)
      BY <3>1 DEF StepsOfTurn
    <3>3. QED
      BY <1>1, <2>2, <2>3, <2>5, <3>1, <3>2
  <2>8. CASE ReadLink
    <3>1. pc = "links" /\ pc' = "links" /\ pid' = pid
      BY <2>8 DEF ReadLink
    <3>2. PICK d \in fds : fds' = fds \ {d}
      BY <2>8 DEF ReadLink
    <3>3. Cardinality(fds') = Cardinality(fds) - 1 /\ Cardinality(fds) > 0
      BY <1>1, <3>2, FS_RemoveElement, FS_EmptySet
    <3>4. StepsOfTurn = 1 + Cardinality(fds) /\ StepsOfTurn' = 1 + Cardinality(fds')
      BY <3>1 DEF StepsOfTurn
    <3>5. QED
      BY <1>1, <2>2, <2>3, <2>5, <3>1, <3>3, <3>4
  <2>9. CASE NextPid
    <3>1. pc = "links" /\ pc' = "pid" /\ pid' = pid + 1
      BY <2>9 DEF NextPid
    <3>2. StepsOfTurn = 1 + Cardinality(fds)
      BY <3>1 DEF StepsOfTurn
    <3>3. QED
      BY <1>1, <2>2, <2>3, <2>4, <3>1, <3>2
  <2>10. QED
    BY <1>3, <2>6, <2>7, <2>8, <2>9
<1>4. QED
  BY <1>2, <1>3

(* Correlate ends after boundedly many steps of its own, for any processes *)
(* and descriptors and whatever the kernel does meanwhile.                 *)
THEOREM WalksAreBounded == Spec => WalkIsBounded
<1> DEFINE Less == /\ pc = "idle" => WalkLeft' \in {0, NPids * TurnSteps + 1}
                   /\ pc # "idle" /\ ~Kernel => WalkLeft' \in 0..(WalkLeft - 1)
                   /\ Kernel => WalkLeft' = WalkLeft
<1>1. ASSUME MapperInv, MapperInv', Next PROVE Less
  <2>1. ASSUME Kernel PROVE WalkLeft' = WalkLeft /\ pc' = pc
    <3>1. UNCHANGED walk
      BY <2>1 DEF Kernel, Start, Exit, Exec, OpenSocket, CloseSocket, Noted
    <3>2. QED
      BY <3>1 DEF walk, WalkLeft, StepsOfTurn, TurnSteps
  <2>2. CASE ReadFds \/ ReadComm \/ ReadLink \/ NextPid \/ Correlate
    BY <1>1, <2>1, <2>2, WalkStep
  <2>3. CASE ReadProc
    <3>1. pc = "idle" /\ pc' = "pid" /\ pid' = 1
      BY <2>3 DEF ReadProc
    <3>2. WalkLeft' = 1 + (NPids - 1) * TurnSteps + TurnSteps
      BY <3>1 DEF WalkLeft, StepsOfTurn, TurnSteps
    <3>3. NPids \in Nat /\ TurnSteps \in Nat
      <4>1. NPids \in Nat /\ NFds \in Nat
        BY MapperAssumption
      <4>2. QED
        BY <4>1 DEF TurnSteps
    <3>4. (NPids - 1) * TurnSteps = NPids * TurnSteps - TurnSteps /\ NPids * TurnSteps \in Nat
      BY <3>3, OneTurnLess
    <3>5. WalkLeft' = NPids * TurnSteps + 1
      BY <3>2, <3>3, <3>4
    <3>6. QED
      BY <2>1, <3>1, <3>5
  <2>4. CASE ReadProcFails
    BY <2>1, <2>4 DEF ReadProcFails, WalkLeft
  <2>5. CASE Kernel
    BY <2>1, <2>5 DEF WalkLeft
  <2>6. QED
    BY <1>1, <2>2, <2>3, <2>4, <2>5 DEF Next
<1>2. MapperInv /\ MapperInv' /\ [Next]_vars => [Less]_vars
  BY <1>1
<1>3. QED
  BY <1>2, MapperInductive, PTL DEF Spec, WalkIsBounded

-----------------------------------------------------------------------------
(* The guards of the walk's steps, after ReadProc.                         *)
WalkCanGoOn ==
  \/ pc \in {"pid", "comm"}
  \/ pc = "links" /\ (fds = {} \/ \E d \in fds : \A e \in fds : d <= e)

(* A walk that has begun never waits for the kernel or for a process.      *)
WalkNotStuck == pc # "idle" => WalkCanGoOn

(* A finite set of descriptors has a first one.                            *)
LEMMA FirstFd ==
  ASSUME NEW F, F \subseteq Int, IsFiniteSet(F), F # {}
  PROVE  \E d \in F : \A e \in F : d <= e
<1> DEFINE First(T, d) == \A e \in T : d <= e
           Good == {T \in SUBSET F : T # {} => \E d \in T : First(T, d)}
<1>1. ASSUME NEW T \in SUBSET F, \A U \in SUBSET T : U # T => U \in Good
      PROVE  T \in Good
  <2> SUFFICES ASSUME NEW y \in T PROVE \E d \in T : First(T, d)
    OBVIOUS
  <2>1. T \ {y} \in Good
    <3>1. T \ {y} \in SUBSET T /\ T \ {y} # T
      OBVIOUS
    <3> HIDE DEF Good
    <3>2. QED
      BY <1>1, <3>1
  <2>2. CASE T \ {y} = {}
    BY <2>2
  <2>3. CASE T \ {y} # {}
    <3>1. PICK d \in T \ {y} : First(T \ {y}, d)
      BY <2>1, <2>3
    <3>2. CASE d <= y
      BY <3>1, <3>2
    <3>3. CASE y <= d
      BY <3>1, <3>3
    <3>4. QED
      BY <3>2, <3>3
  <2>4. QED
    BY <2>2, <2>3
<1>2. F \in Good
  <2> HIDE DEF Good
  <2>1. QED
    BY <1>1, SetInduction
<1>3. QED
  BY <1>2

(* Between its first read and its last, Correlate always has a next step.  *)
THEOREM WalkNeverStuck == Spec => []WalkNotStuck
<1>1. ASSUME MapperInv PROVE WalkNotStuck
  <2>1. pc \in {"idle", "pid", "comm", "links"} /\ fds \subseteq Fds
    BY <1>1 DEF MapperInv, WalkType, TypeOK
  <2>2. fds \subseteq Int /\ IsFiniteSet(fds)
    BY <1>1, <2>1, FewFds DEF Fds
  <2>3. fds # {} => \E d \in fds : \A e \in fds : d <= e
    BY <2>2, FirstFd
  <2>4. QED
    BY <2>1, <2>3 DEF WalkNotStuck, WalkCanGoOn
<1>2. QED
  BY <1>1, MapperInductive, PTL
=============================================================================
