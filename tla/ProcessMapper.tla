--------------------------- MODULE ProcessMapper ---------------------------
(***************************************************************************)
(* internal/process/process.go: Correlate, which attributes the collected  *)
(* connections to processes by a walk through /proc.                       *)
(*                                                                         *)
(* Nothing of the walk is a snapshot.  The directory of processes is read, *)
(* then of each process the list of its descriptors, its name, and one     *)
(* link per descriptor; between any two of these reads processes start,    *)
(* end, take new names (exec), open and close sockets and hand them on.    *)
(***************************************************************************)
EXTENDS Integers

CONSTANTS
  NPids,     \* processes, in the order in which os.ReadDir lists them
  NFds,      \* descriptors of a process, likewise
  Inodes,    \* the inodes of sockets
  Names,     \* the names of programs
  Slots,     \* where a process may have a socket: pairs of process, descriptor
  Denied     \* processes whose fd directory the user may not read

Pids == 1..NPids
Fds == 1..NFds

ASSUME MapperAssumption ==
  /\ NPids \in Nat /\ NFds \in Nat
  /\ 0 \notin Inodes
  /\ Slots \subseteq Pids \X Fds
  /\ Denied \subseteq Pids
  /\ {"", "unknown"} \cap Names = {}

VARIABLES
  comm,      \* comm[p]: the name of process p, "" when there is none
  fd,        \* fd[p][d]: the socket that descriptor d of p is, 0 for none
  pc,        \* where Correlate stands
  pid,       \* the process the walk has reached
  entries,   \* what the reads of the directories returned: processes ...
  fds,       \* ... and the descriptors of pid
  procName,  \* the name read for pid
  result,    \* result[i]: the process found for inode i, None for none
  shown,     \* shown[i]: what the connection of inode i says, 0 is no inode
  heldBy,    \* history variable: who has held which inode during the walk
  named,     \* history variable: which names processes had during the walk
  steady     \* history variable: descriptors unchanged since the walk began

kernel == <<comm, fd>>
walk == <<pc, pid, entries, fds, procName, result, shown>>
ghosts == <<heldBy, named, steady>>
vars == <<kernel, walk, ghosts>>

None == [pid |-> 0, name |-> ""]

-----------------------------------------------------------------------------
(* The kernel.  What changes during a walk is noted.                       *)
Holdings(table) == {x \in Pids \X Inodes : \E d \in Fds : table[x[1]][d] = x[2]}
Named(names) == {x \in Pids \X Names : names[x[1]] = x[2]}

Noted ==
  /\ IF pc = "idle" THEN UNCHANGED ghosts
     ELSE /\ heldBy' = heldBy \cup Holdings(fd')
          /\ named' = named \cup Named(comm')
          /\ steady' = {x \in steady : fd'[x[1]][x[2]] = x[3]}
  /\ UNCHANGED walk

NoFds == [d \in Fds |-> 0]

Start(p) ==
  /\ comm[p] = ""
  /\ \E n \in Names : comm' = [comm EXCEPT ![p] = n]
  /\ UNCHANGED fd
  /\ Noted

Exit(p) ==
  /\ comm[p] # ""
  /\ comm' = [comm EXCEPT ![p] = ""]
  /\ fd' = [fd EXCEPT ![p] = NoFds]
  /\ Noted

Exec(p) ==
  /\ comm[p] # ""
  /\ \E n \in Names : comm' = [comm EXCEPT ![p] = n]
  /\ UNCHANGED fd
  /\ Noted

(* A socket that is new, inherited or received.                            *)
OpenSocket(p) ==
  /\ comm[p] # ""
  /\ \E d \in Fds, i \in Inodes :
       /\ <<p, d>> \in Slots
       /\ fd[p][d] = 0
       /\ fd' = [fd EXCEPT ![p][d] = i]
  /\ UNCHANGED comm
  /\ Noted

CloseSocket(p) ==
  /\ \E d \in Fds : fd[p][d] # 0 /\ fd' = [fd EXCEPT ![p][d] = 0]
  /\ UNCHANGED comm
  /\ Noted

-----------------------------------------------------------------------------
Unmarked == [pid |-> 0, name |-> ""]
NoOne == [pid |-> 0, name |-> "-"]

Init ==
  /\ comm = [p \in Pids |-> ""]
  /\ fd = [p \in Pids |-> NoFds]
  /\ pc = "idle" /\ pid = 0
  /\ entries = {} /\ fds = {} /\ procName = ""
  /\ result = [i \in Inodes |-> None]
  /\ shown = [i \in Inodes \cup {0} |-> Unmarked]
  /\ heldBy = {} /\ named = {} /\ steady = {}

(* Correlate is called with new connections and reads the directory /proc. *)
ReadProc ==
  /\ pc = "idle"
  /\ pc' = "pid" /\ pid' = 1
  /\ entries' = {p \in Pids : comm[p] # ""}
  /\ result' = [i \in Inodes |-> None]
  /\ shown' = [i \in Inodes \cup {0} |-> Unmarked]
  /\ heldBy' = Holdings(fd)
  /\ named' = Named(comm)
  /\ steady' = {x \in Pids \X Fds \X Inodes : fd[x[1]][x[2]] = x[3]}
  /\ UNCHANGED <<kernel, fds, procName>>

(* /proc cannot be read: the connections stay as they are.                 *)
ReadProcFails ==
  /\ pc = "idle"
  /\ shown' = [i \in Inodes \cup {0} |-> Unmarked]
  /\ UNCHANGED <<kernel, pc, pid, entries, fds, procName, result, ghosts>>

(* The descriptors of the next process, those that are no sockets among    *)
(* them; a process that is gone, or not to be read, is skipped.            *)
ReadFds ==
  /\ pc = "pid"
  /\ pid \in Pids
  /\ IF pid \notin entries \/ comm[pid] = "" \/ pid \in Denied
     THEN pid' = pid + 1 /\ UNCHANGED <<pc, fds>>
     ELSE /\ pc' = "comm"
          /\ \E L \in SUBSET Fds : {d \in Fds : fd[pid][d] # 0} \subseteq L /\ fds' = L
          /\ UNCHANGED pid
  /\ UNCHANGED <<kernel, entries, procName, result, shown, ghosts>>

(* Its name; that of a process that is gone by now is "unknown".           *)
ReadCommAsIs ==                                            \* mutant
  /\ pc = "comm"
  /\ pc' = "links"
  /\ procName' = comm[pid]
  /\ UNCHANGED <<kernel, pid, entries, fds, result, shown, ghosts>>
ReadCommKeeping ==                                         \* mutant
  /\ pc = "comm"
  /\ pc' = "links"
  /\ procName' = IF comm[pid] # "" THEN comm[pid]
                 ELSE IF procName # "" THEN procName ELSE "unknown"
  /\ UNCHANGED <<kernel, pid, entries, fds, result, shown, ghosts>>
ReadComm ==
  /\ pc = "comm"
  /\ pc' = "links"
  /\ procName' = IF comm[pid] # "" THEN comm[pid] ELSE "unknown"
  /\ UNCHANGED <<kernel, pid, entries, fds, result, shown, ghosts>>

(* What a link that is read now adds to the map: the first process found   *)
(* for an inode keeps it.                                                  *)
MappedLast(i) ==                                           \* mutant
  IF i \in Inodes THEN [result EXCEPT ![i] = [pid |-> pid, name |-> procName]]
  ELSE result
MappedNow(i) ==                                            \* mutant
  IF i \in Inodes /\ result[i] = None
  THEN [result EXCEPT ![i] =
          [pid |-> pid, name |-> IF comm[pid] # "" THEN comm[pid] ELSE procName]]
  ELSE result
Mapped(i) ==
  IF i \in Inodes /\ result[i] = None
  THEN [result EXCEPT ![i] = [pid |-> pid, name |-> procName]]
  ELSE result

ReadLink ==
  /\ pc = "links"
  /\ \E d \in fds :
       /\ \A e \in fds : d <= e
       /\ fds' = fds \ {d}
       /\ result' = Mapped(fd[pid][d])
  /\ UNCHANGED <<kernel, pc, pid, entries, procName, shown, ghosts>>

NextPid ==
  /\ pc = "links"
  /\ fds = {}
  /\ pc' = "pid" /\ pid' = pid + 1
  /\ UNCHANGED <<kernel, entries, fds, procName, result, shown, ghosts>>

(* The walk is over: Correlate marks each connection with what the map has *)
(* for its inode, or "-".                                                  *)
Correlate ==
  /\ pc = "pid"
  /\ pid \notin Pids
  /\ pc' = "idle" /\ pid' = 0
  /\ shown' = [i \in Inodes \cup {0} |->
                 IF i \in Inodes /\ result[i] # None THEN result[i] ELSE NoOne]
  /\ UNCHANGED <<kernel, entries, fds, procName, result, ghosts>>

Kernel == \E p \in Pids :
            Start(p) \/ Exit(p) \/ Exec(p) \/ OpenSocket(p) \/ CloseSocket(p)

Next == Kernel \/ ReadProc \/ ReadProcFails \/ ReadFds \/ ReadComm \/ ReadLink
          \/ NextPid \/ Correlate

Spec == Init /\ [][Next]_vars

-----------------------------------------------------------------------------
Owner == [pid : Pids, name : Names \cup {"unknown"}]

(* Every variable keeps its type.                                          *)
TypeOK ==
  /\ comm \in [Pids -> Names \cup {""}]
  /\ fd \in [Pids -> [Fds -> Inodes \cup {0}]]
  /\ pc \in {"idle", "pid", "comm", "links"}
  /\ pid \in Nat
  /\ entries \subseteq Pids
  /\ fds \subseteq Fds
  /\ procName \in Names \cup {"", "unknown"}
  /\ result \in [Inodes -> Owner \cup {None}]
  /\ shown \in [Inodes \cup {0} -> Owner \cup {Unmarked, NoOne}]
  /\ heldBy \subseteq Pids \X Inodes
  /\ named \subseteq Pids \X Names
  /\ steady \subseteq Pids \X Fds \X Inodes

Marked == {i \in Inodes : shown[i].pid # 0}

(* "a process owning a socket": the process a connection is attributed to  *)
(* has held its socket at some time during the walk, and the name, unless  *)
(* it is "unknown", was then a name of that process, not the name of       *)
(* another one that the walk has passed.                                   *)
AttributionIsTrue ==
  pc = "idle" => \A i \in Marked :
    /\ <<shown[i].pid, i>> \in heldBy
    /\ shown[i].name = "unknown" \/ <<shown[i].pid, shown[i].name>> \in named

(* A socket that a process holds throughout the walk in one descriptor,    *)
(* and that the user may see, is attributed, and of several such processes *)
(* never to a later one than the first: repeated walks show the same.      *)
SteadyIsAttributed ==
  pc = "idle" => \A x \in steady :
    x[1] \notin Denied => \/ shown[x[3]] = Unmarked
                         \/ shown[x[3]].pid \in 1..x[1]

(* AggregateByProcess groups by PID and name: the connections of a process *)
(* are one group, whatever names it takes while its links are read.        *)
OneName(table) == \A i, j \in Inodes :
  table[i].pid # 0 /\ table[i].pid = table[j].pid => table[i].name = table[j].name

OneNamePerPid == pc = "idle" => OneName(shown)
=============================================================================
