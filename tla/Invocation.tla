----------------------------- MODULE Invocation -----------------------------
(***************************************************************************)
(* cmd/goNetWatch/main.go: one listing, from the scanners to the screen.   *)
(*                                                                         *)
(* collectConnections joins what the netlink dumps return (NetlinkDump,    *)
(* whose faults are all here) with what /proc/net shows; Correlate and     *)
(* ResolveConnections write the names into the list; Record takes the      *)
(* list; then it is filtered, grouped (Aggregator) and printed.  --watch   *)
(* goes through the same steps each time.  The sockets stay as they are    *)
(* during the invocation: Collector has the case that they do not.  They   *)
(* are the TCP sockets; those in TIME_WAIT have no inode.                  *)
(***************************************************************************)
EXTENDS NetlinkDump, Aggregator

CONSTANTS
  Remote,    \* Remote[f, i]: the remote address of socket i of family f
  Ports,     \* Ports[f, i]: its local and its remote port
  Inode,     \* Inode[f, i]: its inode, 0 if no process holds it
  Owner,     \* Owner[f, i]: pid and name of the process that holds it
  User,      \* User[f, i]: its user
  Bytes,     \* Bytes[f, i]: the count in its tcp_info
  HostName,  \* HostName[a]: the name that address a resolves to
  Scope,     \* Scope[a]: whether it is "local" or "external"
  Misread,   \* Misread[a]: IPv4 address a taken for an IPv6 one
  Filters,   \* the filter options of the command lines tried
  Arguments, \* ... and their positional arguments
  Misses,    \* the sets of sockets that a lookup of names may miss
  Unreadable \* the sets of families whose file of /proc/net may be unreadable

Sockets == {s \in Families \X (1..(Count[4] + Count[6])) : s[2] <= Count[s[1]]}
Addresses == DOMAIN Scope

ASSUME InvocationAssumption ==
  /\ Remote \in [Sockets -> Addresses]
  /\ Misread \in [Addresses -> Addresses]
  /\ Bytes \in [Sockets -> Nat]
  /\ Inode \in [Sockets -> Nat]
  /\ \A s, t \in Sockets : Inode[s] = Inode[t] /\ Inode[s] > 0 => s = t
  /\ Misses \subseteq SUBSET Sockets /\ Misses # {}
  /\ Unreadable \subseteq SUBSET Families /\ Unreadable # {}

VARIABLES
  stage,     \* the step of main that comes next
  flags,     \* the command line: view, filter, and whether to resolve names
  list,      \* conns, and later filtered
  recorded,  \* the list that Record was given
  shown,     \* what has been printed
  unread     \* history variable: the families that procnet could not read

scan == <<pc, fam, queue, dump, got, conns, left>>
listing == <<stage, flags, list, recorded, shown, unread, todo, groups>>
allVars == <<scan, listing>>

-----------------------------------------------------------------------------
(* The steps of main in their order.                                       *)
AfterFilterFirst ==                                        \* mutant
  [netlink |-> "procnet", procnet |-> "correlate", correlate |-> "resolve",
   resolve |-> "filter", filter |-> "record", record |-> "group",
   group |-> "print", print |-> "done"]
AfterResolveLast ==                                        \* mutant
  [netlink |-> "procnet", procnet |-> "correlate", correlate |-> "record",
   record |-> "filter", filter |-> "resolve", resolve |-> "group",
   group |-> "print", print |-> "done"]
After ==
  [netlink |-> "procnet", procnet |-> "correlate", correlate |-> "resolve",
   resolve |-> "record", record |-> "filter", filter |-> "group",
   group |-> "print", print |-> "done"]

Step(s) ==
  /\ stage = s
  /\ stage' = After[s]
  /\ UNCHANGED <<scan, flags>>

(* A connection that a scanner reports.  The address of a socket taken for *)
(* another family's is misread; procnet has no byte counts but the queues, *)
(* which are empty here.  What the two report of one socket are two        *)
(* connections.                                                            *)
Report(x, scanner, bytes) ==
  LET s == <<x.of, x.id>>
      a == IF x.fam = x.of THEN Remote[s] ELSE Misread[Remote[s]]
  IN [sock |-> s, by |-> scanner, ip |-> a, scope |-> Scope[a], host |-> "",
      ports |-> Ports[s], pid |-> 0, name |-> "", user |-> User[s], bytes |-> bytes]

None == [rows |-> <<>>, connections |-> 0, bytes |-> 0]

ListingInit ==
  /\ Init
  /\ stage = "flags"
  /\ flags = [view |-> "connections", filter |-> CHOOSE o \in Filters : TRUE,
              resolve |-> FALSE]
  /\ list = {} /\ recorded = {} /\ shown = None /\ unread = {}
  /\ todo = {} /\ groups = <<>>

(* A positional argument replaces the option: the one for the port if it   *)
(* is a port's number, else the one for the process name.                  *)
NoArgument == [number |-> 0, texts |-> {}]
Positional(o, a) ==
  IF a = NoArgument THEN o
  ELSE IF a.number \in 1..65535 THEN [o EXCEPT !.port = a.number]
  ELSE [o EXCEPT !.proc = a.texts]

(* The command line is read and ScanSockets begins.                        *)
Start ==
  /\ stage = "flags"
  /\ stage' = "netlink"
  /\ \E v \in Views, o \in Filters, b \in BOOLEAN :
       \E a \in Arguments :
         flags' = [view |-> v, filter |-> Positional(o, a), resolve |-> b]
  /\ OpenSocket
  /\ UNCHANGED <<list, recorded, shown, unread, todo, groups>>

(* The dumps, while ScanSockets is at work.  Its socket is closed then.    *)
Scan ==
  /\ stage = "netlink"
  /\ pc # "idle"
  /\ Fill \/ Send \/ SendFails \/ Recv \/ RecvFails
  /\ UNCHANGED listing

AppendNetlink ==
  /\ pc = "idle"
  /\ Step("netlink")
  /\ list' = {Report(x, "netlink", Bytes[<<x.of, x.id>>]) : x \in conns}
  /\ UNCHANGED <<recorded, shown, unread, todo, groups>>

(* The inodes that netlink has reported; 0 is none.                        *)
seenInodesWithZero == {Inode[c.sock] : c \in list}         \* mutant
seenInodes == {Inode[c.sock] : c \in list} \ {0}

(* /proc/net adds what it shows, unless netlink has reported the inode.  A *)
(* file that cannot be read adds nothing, and nobody is told.              *)
AppendProcnet ==
  /\ Step("procnet")
  /\ unread' \in Unreadable
  /\ list' = list \cup
       {Report([fam |-> s[1], of |-> s[1], id |-> s[2]], "procnet", 0) :
          s \in {t \in Sockets : t[1] \notin unread' /\ Inode[t] \notin seenInodes}}
  /\ UNCHANGED <<recorded, shown, todo, groups>>

(* Correlate writes pid and name where it has found the inode, else "-";   *)
(* if /proc cannot be read, nothing, and the error is dropped.             *)
Correlate ==
  /\ Step("correlate")
  /\ \/ \E missed \in Misses :
          LET unknown == missed \cup {s \in Sockets : Inode[s] = 0}
          IN list' = {[c EXCEPT !.pid  = IF c.sock \in unknown THEN 0
                                         ELSE Owner[c.sock].pid,
                                !.name = IF c.sock \in unknown THEN "-"
                                         ELSE Owner[c.sock].name] : c \in list}
     \/ list' = list
  /\ UNCHANGED <<recorded, shown, unread, todo, groups>>

(* With --resolve each connection gets its name, or "" if the lookup that  *)
(* it waited for has failed.                                               *)
Resolve ==
  /\ Step("resolve")
  /\ \E unresolved \in IF flags.resolve THEN Misses ELSE {Sockets} :
       list' = {[c EXCEPT !.host = IF c.sock \in unresolved THEN ""
                                   ELSE HostName[c.ip]] : c \in list}
  /\ UNCHANGED <<recorded, shown, unread, todo, groups>>

(* Record's own failures are HistoryStore's; main drops its error.  There  *)
(* is a store, as there always is when its directory can be made.          *)
Record ==
  /\ Step("record")
  /\ recorded' = list
  /\ UNCHANGED <<list, shown, unread, todo, groups>>

Filter ==
  /\ Step("filter")
  /\ list' = FilterConnections(list, flags.filter)
  /\ StartLoop(list')
  /\ UNCHANGED <<recorded, shown, unread>>

Turn ==
  /\ stage = "group"
  /\ flags.view # "connections"
  /\ Aggregate(flags.view)
  /\ UNCHANGED <<scan, stage, flags, list, recorded, shown, unread>>

GroupingDone ==
  /\ flags.view = "connections" \/ todo = {}
  /\ Step("group")
  /\ UNCHANGED <<list, recorded, shown, unread, todo, groups>>

(* The summary below the table: CalculateTotals of the list, or the sums   *)
(* over the rows of groups.  With --json the rows of groups have none.     *)
PrintConnections ==
  /\ flags.view = "connections"
  /\ Step("print")
  /\ LET totals == CalculateTotals(list)
     IN shown' = [rows        |-> list,
                  connections |-> totals.connections,
                  bytes       |-> totals.bytes]
  /\ UNCHANGED <<list, recorded, unread, todo, groups>>

PrintAggregation ==
  /\ flags.view # "connections"
  /\ Step("print")
  /\ \E q \in Rankings :
       shown' = [rows        |-> q,
                 connections |-> SumFunction([i \in DOMAIN q |-> groups[q[i]].connections]),
                 bytes       |-> SumFunction([i \in DOMAIN q |-> groups[q[i]].bytes])]
  /\ UNCHANGED <<list, recorded, unread, todo, groups>>

Program == AppendNetlink \/ AppendProcnet \/ Correlate \/ Resolve \/ Record
             \/ Filter \/ Turn \/ GroupingDone \/ PrintConnections \/ PrintAggregation

ListingNext == Start \/ Scan \/ Program

ListingSpec == ListingInit /\ [][ListingNext]_allVars

(* The kernel goes on with a dump that it has begun, and a program that is *)
(* not waiting goes on.  Nobody need start it.                             *)
FairListing ==
  /\ ListingSpec
  /\ WF_allVars(stage = "netlink" /\ pc # "idle" /\ Fill /\ UNCHANGED listing)
  /\ WF_allVars(stage = "netlink" /\ (Send \/ Recv) /\ UNCHANGED listing)
  /\ WF_allVars(Program)

-----------------------------------------------------------------------------
(* "Scan /proc/net for UDP and any TCP sockets missed": whatever becomes   *)
(* of the netlink dumps, even if the rest of one is taken for the answer   *)
(* to the next, a list has every socket whose file procnet could read.  It *)
(* has one that a process holds only once, and one without an inode (see   *)
(* Collector's NoneReportedTwice) at most once from each of the scanners.  *)
ListedRight(C) ==
  /\ \A s \in Sockets : s[1] \in unread \/ \E c \in C : c.sock = s
  /\ \A c, d \in C :
       c.sock = d.sock /\ (Inode[c.sock] > 0 \/ c.by = d.by) => c = d

EverySocketListed ==
  stage \in {"correlate", "resolve", "record", "filter"} => ListedRight(list)

(* "Record snapshot in history": the snapshot is of all that, whatever     *)
(* this invocation was asked to show, so that the snapshots of different   *)
(* command lines compare.                                                  *)
SnapshotIsOfAll ==
  stage \in {"filter", "group", "print", "done"} => ListedRight(recorded)

(* "Filter by Remote IP or Host", "by Process Name": what is shown is what *)
(* matches once all names are known, not when some are still to be found.  *)
ShownMatch ==
  stage \in {"group", "print", "done"} =>
    list = {c \in recorded : Matches(c, flags.filter)}

(* "Aggregate total traffic and connection count": in each of the views    *)
(* the summary has the same totals, those of the list.                     *)
ViewsAgree ==
  stage = "done" => /\ shown.connections = Cardinality(list)
                    /\ shown.bytes = CalculateTotals(list).bytes

(* A group is what its connections are: it counts them all and their       *)
(* bytes, has a name if one of them has, lists what they list, and they    *)
(* are all of its scope.                                                   *)
Members(k) == {c \in list \ todo : Key(flags.view, c) = k}

GroupsAreTrue ==
  stage \in {"group", "print", "done"} =>
    \A k \in DOMAIN groups :
      /\ groups[k].connections = Cardinality(Members(k))
      /\ groups[k].bytes = CalculateTotals(Members(k)).bytes
      /\ groups[k].label = "" <=> \A c \in Members(k) : Label(flags.view, c) = ""
      /\ groups[k].items = UNION {Item(flags.view, c) : c \in Members(k)}
      /\ flags.view = "remote" => \A c \in Members(k) : c.scope = groups[k].scope

(* Whatever the kernel refuses and whatever call fails, the scan returns   *)
(* and the list is printed.                                                *)
ListingEnds == stage # "flags" ~> stage = "done"
=============================================================================
