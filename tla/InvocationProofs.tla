-------------------------- MODULE InvocationProofs --------------------------
(***************************************************************************)
(* What holds of a listing for any sockets, owners, names, addresses and   *)
(* command lines, and whatever happens to the dumps.                       *)
(***************************************************************************)
EXTENDS Invocation, NetlinkDumpProofs, Sums

Scanners == {"netlink", "procnet"}

(* A connection as the scanners report it and the names are written to it. *)
Row(c) ==
  /\ c = [sock |-> c.sock, by |-> c.by, ip |-> c.ip, scope |-> c.scope,
          host |-> c.host, ports |-> c.ports, pid |-> c.pid, name |-> c.name,
          user |-> c.user, bytes |-> c.bytes]
  /\ c.sock \in Sockets
  /\ c.by \in Scanners
  /\ c.scope = Scope[c.ip]
  /\ c.bytes \in Nat

(* One connection for each socket of a process, and for each other socket  *)
(* one from each scanner; none missing but those that procnet had to find  *)
(* in a file that it could not read.                                       *)
Distinct(C) ==
  \A c, e \in C : c.sock = e.sock /\ (Inode[c.sock] > 0 \/ c.by = e.by) => c = e
Whole(C) == \A s \in Sockets : s[1] \in unread \/ \E c \in C : c.sock = s

IsList(C) == (\A c \in C : Row(c)) /\ Distinct(C)

(* The loop over the list: a group counts and describes the connections    *)
(* with its key that the loop has passed, and none of them lacks a group.  *)
TotalBytes(M) == SumFunction([c \in M |-> c.bytes])

Truth(g, view, k, M) ==
  /\ g.connections = Cardinality(M)
  /\ g.bytes = TotalBytes(M)
  /\ g.label = "" <=> \A c \in M : Label(view, c) = ""
  /\ g.items = UNION {Item(view, c) : c \in M}
  /\ view = "remote" => g.scope = Scope[k]

GroupIsTrue(k) == Truth(groups[k], flags.view, k, Members(k))

Grouped ==
  /\ todo \subseteq list
  /\ IsFiniteSet(DOMAIN groups)
  /\ flags.view # "connections" =>
       /\ \A c \in list \ todo : Key(flags.view, c) \in DOMAIN groups
       /\ \A k \in DOMAIN groups : GroupIsTrue(k)
  /\ flags.view = "connections" => groups = <<>>

(* The loop ends with the list, and the summary is that of the list.       *)
Counted ==
  /\ stage \in {"print", "done"} => flags.view = "connections" \/ todo = {}
  /\ stage = "done" => /\ shown.connections = Cardinality(list)
                       /\ shown.bytes = TotalBytes(list)

Stages == {"flags", "netlink", "procnet", "correlate", "resolve", "record",
           "filter", "group", "print", "done"}

ListingInv ==
  /\ DumpInv
  /\ stage \in Stages
  /\ IsList(list)
  /\ stage = "procnet" => \A c \in list : c.by = "netlink"
  /\ stage \in {"correlate", "resolve", "record", "filter"} => Whole(list)
  /\ stage = "filter" => recorded = list
  /\ stage \in {"filter", "group", "print", "done"} => IsList(recorded) /\ Whole(recorded)
  /\ stage \in {"group", "print", "done"} =>
       /\ list = FilterConnections(recorded, flags.filter)
       /\ Grouped
  /\ Counted

-----------------------------------------------------------------------------
(* The sockets are finitely many, and so are the connections of a list:    *)
(* not more than one of each socket from each scanner.                     *)
LEMMA FiniteSockets == IsFiniteSet(Sockets)
<1>1. IsFiniteSet(Families)
  <2>1. Families = {4} \cup {6}
    BY DEF Families
  <2>2. QED
    BY <2>1, FS_Singleton, FS_AddElement
<1>2. Count[4] + Count[6] \in Int
  BY DumpAssumption DEF Families
<1>3. IsFiniteSet(1..(Count[4] + Count[6]))
  BY <1>2, FS_Interval
<1>4. IsFiniteSet(Families \X (1..(Count[4] + Count[6])))
  BY <1>1, <1>3, FS_Product
<1>5. Sockets \in SUBSET (Families \X (1..(Count[4] + Count[6])))
  BY DEF Sockets
<1>6. QED
  BY <1>4, <1>5, FS_Subset

Places == Sockets \X Scanners

LEMMA FinitePlaces ==
  /\ IsFiniteSet(Places) /\ Cardinality(Sockets) \in Nat
  /\ Cardinality(Places) = 2 * Cardinality(Sockets)
<1>1. IsFiniteSet(Scanners) /\ Cardinality(Scanners) = 2
  <2>1. IsFiniteSet({"netlink"}) /\ Cardinality({"netlink"}) = 1
    BY FS_Singleton
  <2>2. Scanners = {"netlink"} \cup {"procnet"} /\ "procnet" \notin {"netlink"}
    BY DEF Scanners
  <2>3. QED
    BY <2>1, <2>2, FS_AddElement
<1>2. IsFiniteSet(Sockets) /\ Cardinality(Sockets) \in Nat
  BY FiniteSockets, FS_CardinalityType
<1>3. /\ IsFiniteSet(Sockets \X Scanners)
      /\ Cardinality(Sockets \X Scanners) = Cardinality(Sockets) * Cardinality(Scanners)
  BY <1>1, <1>2, FS_Product
<1>4. QED
  BY <1>1, <1>2, <1>3 DEF Places

LEMMA ListPlaces ==
  ASSUME NEW C, IsList(C)
  PROVE  [c \in C |-> <<c.sock, c.by>>] \in Injection(C, Places)
  BY DEF IsList, Distinct, Row, Places, Injection, IsInjective

LEMMA FiniteList ==
  ASSUME NEW C, IsList(C)
  PROVE  IsFiniteSet(C)
  BY ListPlaces, FinitePlaces, FS_Injection

(* The bytes of one more connection are added to those of the others.      *)
LEMMA BytesAdd ==
  ASSUME NEW M, IsFiniteSet(M), NEW c, c \notin M,
         \A m \in M \cup {c} : m.bytes \in Nat
  PROVE  TotalBytes(M \cup {c}) = TotalBytes(M) + c.bytes
<1> DEFINE all == [m \in M \cup {c} |-> m.bytes]
           old == [m \in M |-> m.bytes]
<1>1. TotalBytes(M \cup {c}) = SumFunctionOnSet(all, M \cup {c})
  BY DEF TotalBytes, SumFunction
<1>2. TotalBytes(M) = SumFunctionOnSet(old, M)
  BY DEF TotalBytes, SumFunction
<1>3. all[c] = c.bytes /\ \A m \in M : all[m] = m.bytes /\ old[m] = m.bytes
  OBVIOUS
<1> HIDE DEF all, old
<1>4. SumFunctionOnSet(all, M) = SumFunctionOnSet(old, M)
  BY <1>3, SumSame
<1>5. SumFunctionOnSet(all, M \cup {c}) = SumFunctionOnSet(all, M) + all[c]
  BY <1>3, SumAdd
<1>6. QED
  BY <1>1, <1>2, <1>3, <1>4, <1>5

(* Such a list, with nothing missing, is what is promised.                *)
LEMMA WholeIsRight ==
  ASSUME NEW C, IsList(C), Whole(C)
  PROVE  ListedRight(C)
  BY DEF IsList, Distinct, Whole, ListedRight

(* Writing names into the connections of a list.                           *)
LEMMA Rewritten ==
  ASSUME NEW C, IsList(C), NEW g,
         \A c \in C : Row(g[c]) /\ g[c].sock = c.sock /\ g[c].by = c.by
  PROVE  /\ IsList({g[c] : c \in C})
         /\ Whole(C) => Whole({g[c] : c \in C})
  BY DEF IsList, Distinct, Whole

LEMMA RowNamed ==
  ASSUME NEW c, Row(c), NEW p, NEW n
  PROVE  /\ Row([c EXCEPT !.pid = p, !.name = n])
         /\ [c EXCEPT !.pid = p, !.name = n].sock = c.sock
         /\ [c EXCEPT !.pid = p, !.name = n].by = c.by
<1> DEFINE b == [c EXCEPT !.pid = p]
           d == [b EXCEPT !.name = n]
<1>1. b = [sock |-> c.sock, by |-> c.by, ip |-> c.ip, scope |-> c.scope,
           host |-> c.host, ports |-> c.ports, pid |-> p, name |-> c.name,
           user |-> c.user, bytes |-> c.bytes]
  BY DEF Row
<1>2. d = [c EXCEPT !.pid = p, !.name = n]
  OBVIOUS
<1> HIDE DEF b
<1>3. d = [sock |-> c.sock, by |-> c.by, ip |-> c.ip, scope |-> c.scope,
           host |-> c.host, ports |-> c.ports, pid |-> p, name |-> n,
           user |-> c.user, bytes |-> c.bytes]
  BY <1>1
<1> HIDE DEF d
<1>4. Row(d) /\ d.sock = c.sock /\ d.by = c.by
  BY <1>3 DEF Row
<1>5. QED
  BY <1>2, <1>4, Zenon

LEMMA RowResolved ==
  ASSUME NEW c, Row(c), NEW h
  PROVE  /\ Row([c EXCEPT !.host = h])
         /\ [c EXCEPT !.host = h].sock = c.sock
         /\ [c EXCEPT !.host = h].by = c.by
<1> DEFINE d == [c EXCEPT !.host = h]
<1>1. d = [sock |-> c.sock, by |-> c.by, ip |-> c.ip, scope |-> c.scope,
           host |-> h, ports |-> c.ports, pid |-> c.pid, name |-> c.name,
           user |-> c.user, bytes |-> c.bytes]
  BY DEF Row
<1> HIDE DEF d
<1>2. Row(d) /\ d.sock = c.sock /\ d.by = c.by
  BY <1>1 DEF Row
<1>3. QED
  BY <1>2 DEF d

(* What a scanner reports is such a connection.                            *)
LEMMA Reports ==
  ASSUME NEW x \in Parsable, Real(x), NEW by \in Scanners, NEW b \in Nat
  PROVE  /\ Row(Report(x, by, b)) /\ Report(x, by, b).sock = <<x.of, x.id>>
         /\ Report(x, by, b).by = by
         /\ Bytes[<<x.of, x.id>>] \in Nat
<1>1. <<x.of, x.id>> \in Sockets
  <2>1. Count[x.of] \in Nat /\ Count[4] + Count[6] \in Nat /\ Count[x.of] <= Count[4] + Count[6]
    BY DumpAssumption DEF Parsable, Families
  <2>2. QED
    BY <2>1 DEF Sockets, Parsable, Real
<1>2. QED
  BY <1>1, InvocationAssumption DEF Report, Row

-----------------------------------------------------------------------------
(* The program's own steps leave the dumps alone; the others are theirs.   *)
LEMMA DumpsGoOnly == [ListingNext]_allVars => [Next]_vars
<1> SUFFICES ASSUME [ListingNext]_allVars PROVE [Next]_vars
  OBVIOUS
<1>1. CASE Start
  BY <1>1 DEF Start, Next
<1>2. CASE Scan
  BY <1>2 DEF Scan, Next
<1>3. CASE Program \/ UNCHANGED allVars
  <2>1. UNCHANGED scan
    BY <1>3 DEF Program, AppendNetlink, AppendProcnet, Correlate, Resolve, Record,
                Filter, Turn, GroupingDone, PrintConnections, PrintAggregation,
                Step, allVars
  <2>2. QED
    BY <2>1 DEF scan, vars
<1>4. QED
  BY <1>1, <1>2, <1>3 DEF ListingNext

LEMMA DumpsGoOn == DumpInv /\ [ListingNext]_allVars => DumpInv'
  BY DumpsGoOnly, DumpStep

LEMMA BeginStep ==
  ASSUME ListingInv, DumpInv', Start \/ Scan
  PROVE  ListingInv'
<1>1. CASE Start
  <2>1. /\ stage = "flags" /\ stage' = "netlink"
        /\ list' = list /\ recorded' = recorded /\ unread' = unread
    BY <1>1 DEF Start
  <2>2. QED
    BY <2>1 DEF ListingInv, Counted, Stages, IsList, Distinct, Row
<1>2. CASE Scan
  BY <1>2 DEF Scan, listing, ListingInv, Counted, Stages, IsList, Distinct, Row
<1>3. QED
  BY <1>1, <1>2

(* Both scanners report connections, and procnet those that are missing.   *)
LEMMA AppendNetlinkStep ==
  ASSUME ListingInv, DumpInv', AppendNetlink
  PROVE  ListingInv'
<1>1. /\ pc = "idle" /\ stage = "netlink" /\ stage' = "procnet"
      /\ list' = {Report(x, "netlink", Bytes[<<x.of, x.id>>]) : x \in conns}
      /\ recorded' = recorded
  BY DEF AppendNetlink, Step, After
<1>2. \A x \in conns : x \in Parsable /\ Real(x)
  BY DEF ListingInv, DumpInv, ScanType
<1>3. \A x, y \in conns : x.of = y.of /\ x.id = y.id => x = y
  BY <1>1, DumpOnce DEF ListingInv, SocketsOnce
<1>b. \A x \in conns : Bytes[<<x.of, x.id>>] \in Nat
  <2>1. 0 \in Nat
    OBVIOUS
  <2>2. QED
    BY <1>2, <2>1, Reports DEF Scanners
<1>4. \A c \in list' : Row(c) /\ c.by = "netlink"
  <2>1. "netlink" \in Scanners
    BY DEF Scanners
  <2>2. ASSUME NEW x \in conns
        PROVE  /\ Row(Report(x, "netlink", Bytes[<<x.of, x.id>>]))
               /\ Report(x, "netlink", Bytes[<<x.of, x.id>>]).by = "netlink"
    BY <1>2, <1>b, <2>1, Reports
  <2>3. QED
    BY <1>1, <2>2
<1>5. Distinct(list')
  <2> SUFFICES ASSUME NEW c \in list', NEW e \in list', c.sock = e.sock
               PROVE  c = e
    BY DEF Distinct
  <2>0. "netlink" \in Scanners
    BY DEF Scanners
  <2>1. PICK x \in conns : c = Report(x, "netlink", Bytes[<<x.of, x.id>>])
    BY <1>1
  <2>2. PICK y \in conns : e = Report(y, "netlink", Bytes[<<y.of, y.id>>])
    BY <1>1
  <2>3. <<x.of, x.id>> = <<y.of, y.id>>
    BY <1>2, <1>b, <2>0, <2>1, <2>2, Reports
  <2>4. x = y
    BY <1>3, <2>3
  <2>5. QED
    BY <2>1, <2>2, <2>4
<1>6. IsList(list')
  BY <1>4, <1>5 DEF IsList
<1>7. QED
  BY <1>1, <1>4, <1>6 DEF ListingInv, Counted, Stages, IsList, Distinct, Row

LEMMA AppendProcnetStep ==
  ASSUME ListingInv, DumpInv', AppendProcnet
  PROVE  ListingInv'
<1> DEFINE r(s) == Report([fam |-> s[1], of |-> s[1], id |-> s[2]], "procnet", 0)
           added == {t \in Sockets : t[1] \notin unread' /\ Inode[t] \notin seenInodes}
<1>1. /\ stage = "procnet" /\ stage' = "correlate"
      /\ list' = list \cup {r(s) : s \in added}
      /\ recorded' = recorded /\ IsList(list)
      /\ \A c \in list : c.by = "netlink"
  BY DEF AppendProcnet, Step, After, ListingInv
<1>2. \A s \in Sockets : Row(r(s)) /\ r(s).sock = s /\ r(s).by = "procnet"
  <2> SUFFICES ASSUME NEW s \in Sockets
               PROVE  Row(r(s)) /\ r(s).sock = s /\ r(s).by = "procnet"
    OBVIOUS
  <2> DEFINE x == [fam |-> s[1], of |-> s[1], id |-> s[2]]
  <2>1. s \in Families \X (1..(Count[4] + Count[6])) /\ s[2] <= Count[s[1]]
    BY DEF Sockets
  <2>2. Count[4] + Count[6] \in Nat /\ Count[s[1]] \in Nat
    BY <2>1, DumpAssumption DEF Families
  <2>3. x \in Parsable /\ Real(x) /\ s = <<x.of, x.id>>
    BY <2>1, <2>2 DEF Parsable, Real
  <2> HIDE DEF x
  <2>4. /\ Row(Report(x, "procnet", 0)) /\ Report(x, "procnet", 0).sock = s
        /\ Report(x, "procnet", 0).by = "procnet"
    BY <2>3, Reports DEF Scanners
  <2>5. QED
    BY <2>4 DEF x
<1>a. \A s \in added : s \in Sockets
  OBVIOUS
<1>b. \A s \in added, c \in list : c.sock = s => ~(Inode[s] > 0)
  BY InvocationAssumption DEF seenInodes
<1>c. ASSUME NEW s \in Sockets, s[1] \notin unread', s \notin added
      PROVE  \E c \in list : c.sock = s
  <2>1. Inode[s] \in seenInodes
    BY <1>c
  <2>2. PICK c \in list : Inode[c.sock] = Inode[s] /\ Inode[s] # 0
    BY <2>1 DEF seenInodes
  <2>3. c.sock \in Sockets
    BY <1>1 DEF IsList, Row
  <2>4. Inode[s] > 0
    BY <2>2, InvocationAssumption
  <2>5. QED
    BY <2>2, <2>3, <2>4, InvocationAssumption
<1> HIDE DEF r, added
<1>3. \A c \in list' : Row(c)
  BY <1>1, <1>2, <1>a DEF IsList
<1>4. Distinct(list')
  <2> SUFFICES ASSUME NEW c \in list', NEW e \in list', c.sock = e.sock,
                      Inode[c.sock] > 0 \/ c.by = e.by
               PROVE  c = e
    BY DEF Distinct
  <2>1. c \in list /\ e \in list => c = e
    BY <1>1 DEF IsList, Distinct
  <2>2. CASE c \in list /\ e \notin list
    <3>1. PICK s \in added : e = r(s)
      BY <1>1, <2>2
    <3>2. e.sock = s /\ e.by = "procnet" /\ c.by = "netlink"
      BY <1>1, <1>2, <1>a, <2>2, <3>1
    <3>3. QED
      BY <1>b, <2>2, <3>2
  <2>3. CASE c \notin list /\ e \in list
    <3>1. PICK s \in added : c = r(s)
      BY <1>1, <2>3
    <3>2. c.sock = s /\ c.by = "procnet" /\ e.by = "netlink"
      BY <1>1, <1>2, <1>a, <2>3, <3>1
    <3>3. QED
      BY <1>b, <2>3, <3>2
  <2>4. CASE c \notin list /\ e \notin list
    <3>1. PICK s \in added, t \in added : c = r(s) /\ e = r(t)
      BY <1>1, <2>4
    <3>2. s = t
      BY <1>2, <1>a, <3>1
    <3>3. QED
      BY <3>1, <3>2
  <2>5. QED
    BY <2>1, <2>2, <2>3, <2>4
<1>5. \A s \in Sockets : s[1] \in unread' \/ \E c \in list' : c.sock = s
  <2> SUFFICES ASSUME NEW s \in Sockets, s[1] \notin unread'
               PROVE  \E c \in list' : c.sock = s
    OBVIOUS
  <2>1. CASE s \in added
    BY <1>1, <1>2, <2>1
  <2>2. CASE s \notin added
    BY <1>1, <1>c, <2>2
  <2>3. QED
    BY <2>1, <2>2
<1>6. IsList(list') /\ Whole(list)'
  BY <1>3, <1>4, <1>5 DEF IsList, Whole
<1>7. QED
  BY <1>1, <1>6 DEF ListingInv, Counted, Stages, IsList, Distinct, Row

(* The names are written into the list that there is.                      *)
LEMMA NamesStep ==
  ASSUME ListingInv, DumpInv', Correlate \/ Resolve
  PROVE  ListingInv'
<1>1. /\ IsList(list) /\ Whole(list)
      /\ stage' \in {"resolve", "record"} /\ recorded' = recorded
      /\ unread' = unread
  BY DEF Correlate, Resolve, Step, After, ListingInv
<1>2. IsList(list') /\ Whole(list')
  <2>1. CASE list' = list
    BY <1>1, <2>1
  <2>2. ASSUME NEW unknown,
               list' = {[c EXCEPT !.pid  = IF c.sock \in unknown THEN 0
                                           ELSE Owner[c.sock].pid,
                                  !.name = IF c.sock \in unknown THEN "-"
                                           ELSE Owner[c.sock].name] : c \in list}
        PROVE  IsList(list') /\ Whole(list')
    <3> DEFINE g == [c \in list |->
                       [c EXCEPT !.pid  = IF c.sock \in unknown THEN 0
                                          ELSE Owner[c.sock].pid,
                                 !.name = IF c.sock \in unknown THEN "-"
                                          ELSE Owner[c.sock].name]]
    <3>1. ASSUME NEW c \in list
          PROVE  Row(g[c]) /\ g[c].sock = c.sock /\ g[c].by = c.by
      <4> DEFINE p == IF c.sock \in unknown THEN 0 ELSE Owner[c.sock].pid
                 n == IF c.sock \in unknown THEN "-" ELSE Owner[c.sock].name
      <4>1. g[c] = [c EXCEPT !.pid = p, !.name = n]
        OBVIOUS
      <4> HIDE DEF g, p, n
      <4>2. Row(c)
        BY <1>1 DEF IsList
      <4>3. /\ Row([c EXCEPT !.pid = p, !.name = n])
            /\ [c EXCEPT !.pid = p, !.name = n].sock = c.sock
            /\ [c EXCEPT !.pid = p, !.name = n].by = c.by
        BY <4>2, RowNamed, Zenon
      <4>4. QED
        BY <4>1, <4>3, Zenon
    <3>2. list' = {g[c] : c \in list}
      BY <2>2
    <3> HIDE DEF g
    <3>3. QED
      BY <1>1, <3>1, <3>2, Rewritten
  <2>3. ASSUME NEW unresolved,
               list' = {[c EXCEPT !.host = IF c.sock \in unresolved THEN ""
                                           ELSE HostName[c.ip]] : c \in list}
        PROVE  IsList(list') /\ Whole(list')
    <3> DEFINE g == [c \in list |->
                       [c EXCEPT !.host = IF c.sock \in unresolved THEN ""
                                          ELSE HostName[c.ip]]]
    <3>1. \A c \in list : Row(g[c]) /\ g[c].sock = c.sock /\ g[c].by = c.by
      BY <1>1, RowResolved DEF IsList
    <3>2. list' = {g[c] : c \in list}
      BY <2>3
    <3> HIDE DEF g
    <3>3. QED
      BY <1>1, <3>1, <3>2, Rewritten
  <2>4. QED
    BY <2>1, <2>2, <2>3 DEF Correlate, Resolve
<1>3. QED
  BY <1>1, <1>2 DEF ListingInv, Counted, Stages, IsList, Distinct, Row, Whole

LEMMA RecordStep ==
  ASSUME ListingInv, DumpInv', Record
  PROVE  ListingInv'
<1>1. /\ stage = "record" /\ stage' = "filter"
      /\ list' = list /\ recorded' = list /\ unread' = unread
      /\ IsList(list) /\ Whole(list)
  BY DEF Record, Step, After, ListingInv
<1>2. IsList(list') /\ Whole(list')
  BY <1>1
<1>3. QED
  BY <1>1, <1>2 DEF ListingInv, Counted, Stages, IsList, Distinct, Row, Whole

(* The filter takes its part of the list, and no group is there yet.       *)
LEMMA FilterStep ==
  ASSUME ListingInv, DumpInv', Filter
  PROVE  ListingInv'
<1>1. /\ stage = "filter" /\ stage' = "group" /\ flags' = flags
      /\ list' = FilterConnections(list, flags.filter)
      /\ recorded' = recorded /\ recorded = list /\ unread' = unread
      /\ todo' = list' /\ groups' = <<>>
      /\ IsList(recorded) /\ Whole(recorded)
  BY DEF Filter, StartLoop, Step, After, ListingInv
<1>2. IsList(list')
  BY <1>1 DEF IsList, Distinct, FilterConnections
<1>3. Grouped'
  <2>1. IsFiniteSet(DOMAIN groups')
    BY <1>1, FS_EmptySet
  <2>2. QED
    BY <1>1, <2>1 DEF Grouped
<1>4. QED
  BY <1>1, <1>2, <1>3 DEF ListingInv, Counted, Stages, IsList, Distinct, Row, Whole,
                          FilterConnections, Matches

-----------------------------------------------------------------------------
(* A connection joins the group with its key.                              *)
LEMMA JoinsGroup ==
  ASSUME ListingInv, stage = "group", flags.view # "connections",
         flags' = flags, list' = list,
         NEW c \in todo, todo' = todo \ {c},
         groups' = [k \in DOMAIN groups \cup {Key(flags.view, c)} |->
                      IF k = Key(flags.view, c)
                      THEN Added(Group(flags.view, c), flags.view, c)
                      ELSE groups[k]]
  PROVE  Grouped'
<1>1. PICK v, key : v = flags.view /\ key = Key(v, c)
  OBVIOUS
<1>2. PICK old, g : old = Members(key) /\ g = Group(v, c)
  OBVIOUS
<1>3. PICK new : new = Added(g, v, c)
  OBVIOUS
<1>4. Grouped /\ IsList(list)
  BY DEF ListingInv
<1>5. c \in list /\ c \notin old
  BY <1>2, <1>4 DEF Grouped, Members
<1>6. /\ DOMAIN groups' = {key} \cup DOMAIN groups
      /\ groups'[key] = new
      /\ \A k \in DOMAIN groups : k # key => groups'[k] = groups[k]
  <2>1. groups' = [k \in DOMAIN groups \cup {key} |->
                     IF k = key THEN new ELSE groups[k]]
    BY <1>1, <1>2, <1>3
  <2>2. QED
    BY <2>1
<1>7. \A k : Members(k)' = IF k = key THEN old \cup {c} ELSE Members(k)
  <2>1. list' \ todo' = (list \ todo) \cup {c}
    BY <1>5
  <2>2. \A k : Members(k)' = {m \in list' \ todo' : Key(v, m) = k}
    BY <1>1 DEF Members
  <2>3. \A k : Members(k) = {m \in list \ todo : Key(v, m) = k}
    BY <1>1 DEF Members
  <2>4. ASSUME NEW k
        PROVE  Members(k)' = IF k = key THEN old \cup {c} ELSE Members(k)
    <3>1. \A m : m \in Members(k)' <=> m \in Members(k) \/ (m = c /\ k = key)
      BY <1>1, <2>1, <2>2, <2>3
    <3>2. QED
      BY <1>2, <3>1
  <2>5. QED
    BY <2>4
<1>8. /\ Cardinality(old) \in Nat
      /\ Cardinality(old \cup {c}) = Cardinality(old) + 1
      /\ TotalBytes(old) + c.bytes = TotalBytes(old \cup {c})
      /\ TotalBytes({}) = 0
  <2>1. IsFiniteSet(list)
    BY <1>4, FiniteList
  <2>2. old \in SUBSET list
    BY <1>2 DEF Members
  <2>3. IsFiniteSet(old)
    BY <2>1, <2>2, FS_Subset
  <2>4. \A m \in old \cup {c} : m.bytes \in Nat
    BY <1>4, <1>5, <2>2 DEF IsList, Row
  <2>5. TotalBytes({}) = 0
    BY SumEmpty DEF TotalBytes, SumFunction
  <2>6. QED
    BY <1>5, <2>3, <2>4, <2>5, BytesAdd, FS_AddElement, FS_CardinalityType
<1>9. /\ g.connections = Cardinality(old)
      /\ g.bytes = TotalBytes(old)
      /\ g.label = "" => \A m \in old : Label(v, m) = ""
      /\ g.label # "" => \E m \in old \cup {c} : Label(v, m) # ""
      /\ g.items = UNION {Item(v, m) : m \in old}
      /\ v = "remote" => g.scope = Scope[key]
  <2>1. CASE key \in DOMAIN groups
    <3>1. g = groups[key] /\ GroupIsTrue(key)
      BY <1>1, <1>2, <1>4, <2>1 DEF Group, Grouped
    <3>2. Truth(g, v, key, old)
      BY <1>1, <1>2, <3>1 DEF GroupIsTrue
    <3>3. QED
      BY <3>2 DEF Truth
  <2>2. CASE key \notin DOMAIN groups
    <3>1. g = NewGroup(v, c)
      BY <1>1, <1>2, <2>2 DEF Group
    <3>2. /\ g.connections = 0 /\ g.bytes = 0 /\ g.label = Label(v, c)
          /\ g.scope = c.scope /\ g.items = {}
      BY <3>1 DEF NewGroup
    <3>3. old = {}
      BY <1>1, <1>2, <1>4, <2>2 DEF Grouped, Members
    <3>4. Cardinality(old) = 0 /\ TotalBytes(old) = 0
      BY <1>8, <3>3, FS_EmptySet
    <3>5. v = "remote" => c.scope = Scope[key]
      BY <1>1, <1>4, <1>5 DEF IsList, Row, Key
    <3>6. QED
      BY <3>2, <3>3, <3>4, <3>5
  <2>3. QED
    BY <2>1, <2>2
<1>10. Truth(new, v, key, old \cup {c})
  <2>1. /\ new.connections = g.connections + 1
        /\ new.bytes = g.bytes + c.bytes
        /\ new.label = IF g.label = "" THEN Label(v, c) ELSE g.label
        /\ new.scope = g.scope
        /\ new.items = g.items \cup Item(v, c)
    BY <1>3 DEF Added
  <2>2. new.connections = Cardinality(old \cup {c})
    <3>1. g.connections = Cardinality(old)
      BY <1>9
    <3>2. QED
      BY <1>8, <2>1, <3>1
  <2>3. new.label = "" <=> \A m \in old \cup {c} : Label(v, m) = ""
    <3>1. /\ g.label = "" => \A m \in old : Label(v, m) = ""
          /\ g.label # "" => \E m \in old \cup {c} : Label(v, m) # ""
          /\ new.label = IF g.label = "" THEN Label(v, c) ELSE g.label
      BY <1>9, <2>1
    <3>2. QED
      BY <3>1
  <2>4. new.items = UNION {Item(v, m) : m \in old \cup {c}}
    <3>1. new.items = (UNION {Item(v, m) : m \in old}) \cup Item(v, c)
      BY <1>9, <2>1
    <3>2. QED
      BY <3>1
  <2>5. v = "remote" => new.scope = Scope[key]
    BY <1>9, <2>1
  <2>6. new.bytes = TotalBytes(old \cup {c})
    BY <1>8, <1>9, <2>1
  <2>7. QED
    BY <2>2, <2>3, <2>4, <2>5, <2>6 DEF Truth
<1>11. \A k \in DOMAIN groups' : GroupIsTrue(k)'
  <2> SUFFICES ASSUME NEW k \in DOMAIN groups'
               PROVE  Truth(groups'[k], v, k, Members(k)')
    BY <1>1 DEF GroupIsTrue
  <2>1. CASE k = key
    BY <1>6, <1>7, <1>10, <2>1
  <2>2. CASE k # key
    <3>1. GroupIsTrue(k) /\ groups'[k] = groups[k] /\ Members(k)' = Members(k)
      BY <1>4, <1>6, <1>7, <2>2 DEF Grouped
    <3>2. QED
      BY <1>1, <3>1 DEF GroupIsTrue
  <2>3. QED
    BY <2>1, <2>2
<1>12. \A m \in list' \ todo' : Key(v, m) \in DOMAIN groups'
  BY <1>1, <1>4, <1>6 DEF Grouped
<1>13. /\ todo' \subseteq list' /\ flags'.view # "connections"
       /\ IsFiniteSet(DOMAIN groups')
  BY <1>4, <1>6, FS_AddElement DEF Grouped
<1>14. QED
  BY <1>1, <1>11, <1>12, <1>13 DEF Grouped

LEMMA TurnStep ==
  ASSUME ListingInv, DumpInv', Turn
  PROVE  ListingInv'
<1>1. /\ stage = "group" /\ flags.view # "connections"
      /\ UNCHANGED <<stage, flags, list, recorded, unread>>
  BY DEF Turn
<1>2. PICK c \in todo :
        /\ todo' = todo \ {c}
        /\ groups' = [k \in DOMAIN groups \cup {Key(flags.view, c)} |->
                        IF k = Key(flags.view, c)
                        THEN Added(Group(flags.view, c), flags.view, c)
                        ELSE groups[k]]
  BY DEF Turn, Aggregate
<1>3. Grouped'
  BY <1>1, <1>2, JoinsGroup
<1>4. QED
  BY <1>1, <1>3 DEF ListingInv, Counted, Stages, IsList, Distinct, Row, Whole,
                    FilterConnections, Matches

(* The rows that are printed are the groups, each in one row, and so they  *)
(* add up to what the list does.                                           *)
LEMMA RowsAddUp ==
  ASSUME Grouped, IsList(list), flags.view # "connections", todo = {},
         NEW q \in Rankings
  PROVE  /\ SumFunction([i \in DOMAIN q |-> groups[q[i]].connections]) = Cardinality(list)
         /\ SumFunction([i \in DOMAIN q |-> groups[q[i]].bytes]) = TotalBytes(list)
<1> DEFINE K == DOMAIN groups
           n == Cardinality(K)
           member == [k \in K |-> Members(k)]
           key == [c \in list |-> Key(flags.view, c)]
<1>1. IsFiniteSet(K) /\ n \in Nat /\ IsFiniteSet(list)
  BY FiniteList, FS_CardinalityType DEF Grouped
<1>2. q \in [1..n -> K] /\ \A i, j \in 1..n : q[i] = q[j] => i = j
  <2>1. q \in [1..n -> K] /\ \A i, j \in 1..n : i < j => q[i] # q[j]
    BY DEF Rankings
  <2>2. \A i, j \in 1..n : i < j \/ j < i \/ i = j
    OBVIOUS
  <2>3. QED
    BY <2>1, <2>2
<1>3. IsFiniteSet(1..n) /\ {q[i] : i \in 1..n} = K
  <2>1. IsFiniteSet(1..n) /\ Cardinality(1..n) = n
    BY <1>1, FS_Interval
  <2>2. q \in Injection(1..n, K)
    BY <1>2 DEF Injection, IsInjective
  <2>3. q \in Surjection(1..n, K)
    BY <1>1, <2>1, <2>2, FS_Injection
  <2> HIDE DEF n, K
  <2>4. \A k \in K : \E i \in 1..n : q[i] = k
    BY <2>3 DEF Surjection
  <2>5. \A i \in 1..n : q[i] \in K
    BY <1>2
  <2>6. QED
    BY <2>1, <2>4, <2>5
<1>4. ASSUME NEW f, \A c \in list : f[c] \in Nat,
             NEW v, \A k \in K : v[k] = SumFunctionOnSet(f, Members(k)),
             NEW r, \A i \in 1..n : r[i] = v[q[i]]
      PROVE  SumFunctionOnSet(r, 1..n) = SumFunctionOnSet(f, list)
  <2>1. \A k \in K : IsFiniteSet(Members(k)) /\ Members(k) = {c \in list : key[c] = k}
    <3>1. \A k \in K : Members(k) = {c \in list : key[c] = k}
      BY DEF Members
    <3>2. QED
      BY <1>1, <3>1, FS_Subset
  <2>2. \A i \in 1..n : r[i] \in Nat
    <3>1. ASSUME NEW k \in K PROVE v[k] \in Nat
      <4>1. PICK M : M = Members(k)
        OBVIOUS
      <4>2. IsFiniteSet(M) /\ \A c \in M : f[c] \in Nat
        BY <1>4, <2>1, <4>1
      <4>3. SumFunctionOnSet(f, M) \in Nat
        BY <4>2, SumType
      <4>4. QED
        BY <1>4, <4>1, <4>3
    <3>2. QED
      BY <1>2, <1>4, <3>1
  <2>3. SumFunctionOnSet(r, 1..n) = SumFunctionOnSet(v, K)
    <3>1. PICK I : I = 1..n
      OBVIOUS
    <3>2. IsFiniteSet(I) /\ {q[i] : i \in I} = K
      BY <1>3, <3>1
    <3>3. /\ \A i \in I : r[i] \in Nat /\ v[q[i]] = r[i]
          /\ \A i, j \in I : q[i] = q[j] => i = j
      BY <1>2, <1>4, <2>2, <3>1
    <3> HIDE DEF K
    <3>4. SumFunctionOnSet(r, I) = SumFunctionOnSet(v, K)
      BY <3>2, <3>3, SumRenamed
    <3>5. QED
      BY <3>1, <3>4
  <2>4. \A c \in list : key[c] \in K
    BY DEF Grouped
  <2>5. \A k \in K : member[k] = {c \in list : key[c] = k}
    BY <2>1
  <2>6. \A k \in K : v[k] = SumFunctionOnSet(f, member[k])
    BY <1>4
  <2>7. SumFunctionOnSet(v, K) = SumFunctionOnSet(f, list)
    <3> HIDE DEF K, key, member
    <3>1. QED
      BY <1>1, <1>4, <2>4, <2>5, <2>6, SumOfParts
  <2>8. QED
    BY <2>3, <2>7
<1>5. \A k \in K : IsFiniteSet(Members(k)) /\ Members(k) \in SUBSET list
  BY <1>1, FS_Subset DEF Members
<1>6. \A k \in K : /\ groups[k].connections = Cardinality(Members(k))
                   /\ groups[k].bytes = TotalBytes(Members(k))
  BY DEF Grouped, GroupIsTrue, Truth
<1>7. SumFunction([i \in DOMAIN q |-> groups[q[i]].connections]) = Cardinality(list)
  <2> DEFINE f == [c \in list |-> 1]
             v == [k \in K |-> groups[k].connections]
             r == [i \in 1..n |-> groups[q[i]].connections]
  <2>1. ASSUME NEW k \in K PROVE v[k] = SumFunctionOnSet(f, Members(k))
    <3>1. \A c \in Members(k) : f[c] = 1
      BY <1>5
    <3>2. v[k] = Cardinality(Members(k))
      BY <1>6
    <3> HIDE DEF f, v
    <3>3. QED
      BY <1>5, <3>1, <3>2, SumOfOnes
  <2>2. \A c \in list : f[c] = 1
    OBVIOUS
  <2>3. \A i \in 1..n : r[i] = v[q[i]]
    BY <1>2
  <2>4. SumFunction([i \in DOMAIN q |-> groups[q[i]].connections]) = SumFunctionOnSet(r, 1..n)
    BY <1>2 DEF SumFunction
  <2> HIDE DEF f, v, r, n
  <2>5. SumFunctionOnSet(r, 1..n) = SumFunctionOnSet(f, list)
    BY <1>4, <2>1, <2>2, <2>3
  <2>6. QED
    BY <1>1, <2>2, <2>4, <2>5, SumOfOnes
<1>8. SumFunction([i \in DOMAIN q |-> groups[q[i]].bytes]) = TotalBytes(list)
  <2> DEFINE f == [c \in list |-> c.bytes]
             v == [k \in K |-> groups[k].bytes]
             r == [i \in 1..n |-> groups[q[i]].bytes]
  <2>1. ASSUME NEW k \in K PROVE v[k] = SumFunctionOnSet(f, Members(k))
    <3> DEFINE g == [c \in Members(k) |-> c.bytes]
    <3>1. v[k] = SumFunctionOnSet(g, Members(k))
      BY <1>6 DEF TotalBytes, SumFunction
    <3>2. \A c \in Members(k) : g[c] = f[c]
      BY <1>5
    <3> HIDE DEF f, g, v
    <3>3. QED
      BY <1>5, <3>1, <3>2, SumSame
  <2>2. \A c \in list : f[c] \in Nat
    BY DEF IsList, Row
  <2>3. \A i \in 1..n : r[i] = v[q[i]]
    BY <1>2
  <2>4. SumFunction([i \in DOMAIN q |-> groups[q[i]].bytes]) = SumFunctionOnSet(r, 1..n)
    BY <1>2 DEF SumFunction
  <2>5. TotalBytes(list) = SumFunctionOnSet(f, list)
    BY DEF TotalBytes, SumFunction
  <2> HIDE DEF f, v, r, n
  <2>6. SumFunctionOnSet(r, 1..n) = SumFunctionOnSet(f, list)
    BY <1>4, <2>1, <2>2, <2>3
  <2>7. QED
    BY <2>4, <2>5, <2>6
<1>9. QED
  BY <1>7, <1>8

(* Sorting and printing change nothing of the list or the groups.          *)
LEMMA PrintStep ==
  ASSUME ListingInv, DumpInv', GroupingDone \/ PrintConnections \/ PrintAggregation
  PROVE  ListingInv'
<1>1. /\ stage \in {"group", "print"} /\ stage' \in {"print", "done"}
      /\ stage' = "done" => PrintConnections \/ PrintAggregation
      /\ UNCHANGED <<flags, list, recorded, unread, todo, groups>>
      /\ flags.view = "connections" \/ todo = {}
  BY DEF GroupingDone, PrintConnections, PrintAggregation, Step, After,
         ListingInv, Counted
<1>2. Grouped'
  <2>1. Grouped
    BY <1>1 DEF ListingInv
  <2>2. Grouped' <=> Grouped
    BY <1>1 DEF Grouped, GroupIsTrue, Members
  <2>3. QED
    BY <2>1, <2>2
<1>3. ASSUME stage' = "done"
      PROVE  shown'.connections = Cardinality(list') /\ shown'.bytes = TotalBytes(list')
  <2>1. CASE PrintConnections
    BY <1>1, <2>1 DEF PrintConnections, CalculateTotals, TotalBytes
  <2>2. CASE PrintAggregation
    <3>1. PICK q \in Rankings :
            shown' = [rows        |-> q,
                      connections |-> SumFunction([i \in DOMAIN q |-> groups[q[i]].connections]),
                      bytes       |-> SumFunction([i \in DOMAIN q |-> groups[q[i]].bytes])]
      BY <2>2 DEF PrintAggregation
    <3>2. Grouped /\ IsList(list) /\ flags.view # "connections" /\ todo = {}
      BY <1>1, <2>2 DEF ListingInv, PrintAggregation
    <3>3. QED
      BY <1>1, <3>1, <3>2, RowsAddUp
  <2>3. QED
    BY <1>1, <1>3, <2>1, <2>2
<1>4. Counted'
  BY <1>1, <1>3 DEF Counted
<1>5. QED
  BY <1>1, <1>2, <1>4 DEF ListingInv, Stages, IsList, Distinct, Row, Whole,
                          FilterConnections, Matches

-----------------------------------------------------------------------------
LEMMA ListingInductive == ListingSpec => []ListingInv
<1>1. ListingInit => ListingInv
  BY DumpInit DEF ListingInit, ListingInv, Counted, Stages, IsList, Distinct, Row
<1>2. ListingInv /\ [ListingNext]_allVars => ListingInv'
  <2> SUFFICES ASSUME ListingInv, [ListingNext]_allVars PROVE ListingInv'
    OBVIOUS
  <2>1. DumpInv'
    BY DumpsGoOn DEF ListingInv
  <2>2. CASE UNCHANGED allVars
    <3>1. UNCHANGED <<stage, flags, list, recorded, shown, unread, todo, groups>>
      BY <2>2 DEF allVars, listing
    <3>2. Grouped' <=> Grouped
      BY <3>1 DEF Grouped, GroupIsTrue, Members
    <3>3. Counted' <=> Counted
      BY <3>1 DEF Counted
    <3>4. QED
      BY <2>1, <3>1, <3>2, <3>3 DEF ListingInv, IsList, Distinct, Row, Whole,
                                    FilterConnections, Matches
  <2>3. QED
    BY <2>1, <2>2, BeginStep, AppendNetlinkStep, AppendProcnetStep, NamesStep,
       RecordStep, FilterStep, TurnStep, PrintStep DEF ListingNext, Program
<1>3. QED
  BY <1>1, <1>2, PTL DEF ListingSpec

(* However the dumps fail, whatever one takes for the other's, and         *)
(* whichever files cannot be read: the list has every socket whose file    *)
(* procnet has read, those of a process once and the others at most once   *)
(* from each scanner, for any sockets, inodes, addresses and owners.       *)
THEOREM SocketsAreListed == ListingSpec => []EverySocketListed
<1>1. ListingInv => EverySocketListed
  BY WholeIsRight DEF ListingInv, EverySocketListed
<1>2. QED
  BY <1>1, ListingInductive, PTL

(* The snapshot is of that list, under every command line: no filter and   *)
(* no name lost or found leaves a socket out of the history.               *)
THEOREM SnapshotOfAll == ListingSpec => []SnapshotIsOfAll
<1>1. ListingInv => SnapshotIsOfAll
  BY WholeIsRight DEF ListingInv, SnapshotIsOfAll
<1>2. QED
  BY <1>1, ListingInductive, PTL

(* What is shown is what matches among the connections with their names.   *)
THEOREM ShownMatchNames == ListingSpec => []ShownMatch
<1>1. ListingInv => ShownMatch
  BY DEF ListingInv, ShownMatch, FilterConnections
<1>2. QED
  BY <1>1, ListingInductive, PTL

(* A group tells the truth of its connections after every turn of the      *)
(* loop, in whatever order they come.                                      *)
THEOREM GroupsTrue == ListingSpec => []GroupsAreTrue
<1>1. ListingInv => GroupsAreTrue
  <2> SUFFICES ASSUME ListingInv, stage \in {"group", "print", "done"},
                      NEW k \in DOMAIN groups
               PROVE  /\ groups[k].connections = Cardinality(Members(k))
                      /\ groups[k].bytes = CalculateTotals(Members(k)).bytes
                      /\ groups[k].label = "" <=>
                           \A c \in Members(k) : Label(flags.view, c) = ""
                      /\ groups[k].items = UNION {Item(flags.view, c) : c \in Members(k)}
                      /\ flags.view = "remote" =>
                           \A c \in Members(k) : c.scope = groups[k].scope
    BY DEF GroupsAreTrue
  <2>1. flags.view # "connections" /\ GroupIsTrue(k)
    BY DEF ListingInv, Grouped
  <2>2. flags.view = "remote" => \A c \in Members(k) : c.scope = Scope[k]
    BY DEF ListingInv, IsList, Row, Members, Key
  <2>3. QED
    BY <2>1, <2>2 DEF GroupIsTrue, Truth, TotalBytes, CalculateTotals
<1>2. QED
  BY <1>1, ListingInductive, PTL

(* The summary of each view is that of the list, for any connections, in   *)
(* whatever groups and in whatever order the groups are printed.           *)
THEOREM ViewsHaveOneTotal == ListingSpec => []ViewsAgree
<1>1. ListingInv => ViewsAgree
  BY DEF ListingInv, Counted, ViewsAgree, TotalBytes, CalculateTotals
<1>2. QED
  BY <1>1, ListingInductive, PTL

-----------------------------------------------------------------------------
(* A listing's scan is a run of ScanSockets: every step of the listing is  *)
(* one of the dumps' or leaves them alone, so that all that is proved of   *)
(* the dumps alone holds of those of a listing.                            *)
THEOREM ListingsDump == ListingSpec => Spec
<1>1. ListingInit => Init
  BY DEF ListingInit
<1>2. [ListingNext]_allVars => [Next]_vars
  BY DumpsGoOnly
<1>3. QED
  BY <1>1, <1>2, PTL DEF ListingSpec, Spec

(* "Aggregate total traffic": the sort of any groups has an outcome.  A    *)
(* group that no other is below comes last, the others before it.          *)
Numbered(g, K) == \A k \in K : g[k].bytes \in Nat /\ g[k].connections \in Nat

LEMMA LowestGroup ==
  ASSUME NEW g, NEW K, K # {}, IsFiniteSet(K), Numbered(g, K)
  PROVE  \E m \in K : \A x \in K : ~Above(g[m], g[x])
<1> DEFINE Lowest(T, m) == \A x \in T : ~Above(g[m], g[x])
           Good == {T \in SUBSET K : T # {} => \E m \in T : Lowest(T, m)}
<1>1. ASSUME NEW T \in SUBSET K, \A U \in SUBSET T : U # T => U \in Good
      PROVE  T \in Good
  <2> SUFFICES ASSUME NEW y \in T PROVE \E m \in T : Lowest(T, m)
    OBVIOUS
  <2>1. T \ {y} \in Good
    <3>1. T \ {y} \in SUBSET T /\ T \ {y} # T
      OBVIOUS
    <3> HIDE DEF Good
    <3>2. QED
      BY <1>1, <3>1
  <2>2. ~Above(g[y], g[y])
    BY DEF Numbered, Above
  <2>3. CASE T \ {y} = {}
    BY <2>2, <2>3
  <2>4. CASE T \ {y} # {}
    <3>1. PICK m \in T \ {y} : Lowest(T \ {y}, m)
      BY <2>1, <2>4
    <3>2. CASE ~Above(g[m], g[y])
      BY <3>1, <3>2
    <3>3. CASE Above(g[m], g[y])
      <4>1. \A x \in T \ {y} : ~Above(g[y], g[x])
        BY <3>1, <3>3 DEF Numbered, Above
      <4>2. QED
        BY <2>2, <4>1
    <3>4. QED
      BY <3>2, <3>3
  <2>5. QED
    BY <2>3, <2>4
<1>2. K \in Good
  <2> HIDE DEF Good
  <2>1. QED
    BY <1>1, SetInduction
<1>3. QED
  BY <1>2

IsRanking(g, K, q) ==
  /\ q \in [1..Cardinality(K) -> K]
  /\ \A i, j \in DOMAIN q : i < j => q[i] # q[j] /\ ~Above(g[q[j]], g[q[i]])

LEMMA RankingExists ==
  ASSUME NEW g, NEW K, IsFiniteSet(K), Numbered(g, K)
  PROVE  \E q : IsRanking(g, K, q)
<1> DEFINE Good == {T \in SUBSET K : \E q : IsRanking(g, T, q)}
<1>1. ASSUME NEW T \in SUBSET K, \A U \in SUBSET T : U # T => U \in Good
      PROVE  T \in Good
  <2>1. IsFiniteSet(T) /\ Numbered(g, T)
    BY FS_Subset DEF Numbered
  <2>2. CASE T = {}
    <3>1. Cardinality(T) = 0
      BY <2>2, FS_EmptySet
    <3>2. IsRanking(g, T, <<>>)
      BY <3>1 DEF IsRanking
    <3>3. QED
      BY <3>2
  <2>3. CASE T # {}
    <3>1. PICK m \in T : \A x \in T : ~Above(g[m], g[x])
      BY <2>1, <2>3, LowestGroup
    <3> DEFINE U == T \ {m}
    <3>2. U \in Good
      <4>1. U \in SUBSET T /\ U # T
        OBVIOUS
      <4> HIDE DEF Good, U
      <4>2. QED
        BY <1>1, <4>1
    <3>3. PICK q : IsRanking(g, U, q)
      BY <3>2
    <3> DEFINE n == Cardinality(U)
               r == [i \in 1..(n + 1) |-> IF i = n + 1 THEN m ELSE q[i]]
    <3>4. n \in Nat /\ Cardinality(T) = n + 1
      BY <2>1, FS_RemoveElement, FS_CardinalityType, FS_Subset
    <3>5. q \in [1..n -> U] /\ DOMAIN q = 1..n
      BY <3>3 DEF IsRanking
    <3>6. U \subseteq T /\ m \notin U
      OBVIOUS
    <3> HIDE DEF n, U
    <3>7. \A i \in 1..n : r[i] = q[i] /\ q[i] \in U
      <4>1. \A i \in 1..n : q[i] \in U
        BY <3>5
      <4>2. \A i \in 1..n : i \in 1..(n + 1) /\ i # n + 1
        BY <3>4
      <4>3. QED
        BY <4>1, <4>2
    <3>8. r[n + 1] = m /\ DOMAIN r = 1..(n + 1)
      BY <3>4
    <3>9. r \in [1..(n + 1) -> T]
      <4>1. \A i \in 1..(n + 1) : i = n + 1 \/ i \in 1..n
        BY <3>4
      <4>2. \A i \in 1..(n + 1) : (IF i = n + 1 THEN m ELSE q[i]) \in T
        BY <3>6, <3>5, <4>1
      <4>3. QED
        BY <4>2
    <3>10. ASSUME NEW i \in 1..(n + 1), NEW j \in 1..(n + 1), i < j
          PROVE  r[i] # r[j] /\ ~Above(g[r[j]], g[r[i]])
      <4>1. i \in 1..n
        BY <3>4, <3>10
      <4>2. CASE j = n + 1
        <5>1. r[i] \in U /\ r[j] = m
          BY <3>7, <3>8, <4>1, <4>2
        <5> HIDE DEF r
        <5>2. QED
          BY <3>1, <3>6, <5>1
      <4>3. CASE j # n + 1
        <5>1. j \in 1..n
          BY <3>4, <4>3
        <5>2. r[i] = q[i] /\ r[j] = q[j]
          BY <3>7, <4>1, <5>1
        <5>3. q[i] # q[j] /\ ~Above(g[q[j]], g[q[i]])
          BY <3>3, <3>5, <3>10, <4>1, <5>1 DEF IsRanking
        <5>4. QED
          BY <5>2, <5>3
      <4>4. QED
        BY <4>2, <4>3
    <3>11. IsRanking(g, T, r)
      <4> HIDE DEF r
      <4>1. QED
        BY <3>4, <3>8, <3>9, <3>10 DEF IsRanking
    <3>12. QED
      BY <3>11
  <2>4. QED
    BY <2>2, <2>3
<1>2. K \in Good
  <2> HIDE DEF Good
  <2>1. QED
    BY <1>1, SetInduction
<1>3. QED
  BY <1>2

(* The guards of the program's steps, and of the kernel's while the        *)
(* program waits for it, after Start.                                      *)
CanGoOn ==
  \/ stage = "netlink" /\ (pc = "recv" => queue # <<>> \/ CanFill)
  \/ stage = "procnet" /\ Unreadable # {}
  \/ stage = "resolve" /\ (flags.resolve => Misses # {})
  \/ stage = "print" /\ (flags.view = "connections" \/ Rankings # {})
  \/ stage \in {"correlate", "record", "filter", "group"}

(* A listing that has begun can go on until it is printed: no dump leaves  *)
(* it waiting, and whatever the groups are, they can be sorted.            *)
ListingNotStuck == stage \notin {"flags", "done"} => CanGoOn

(* For any command line, sockets and failures, no stage of a listing waits *)
(* for something that never comes.                                         *)
THEOREM ListingsNotStuck == ListingSpec => []ListingNotStuck
<1>1. ListingInv /\ stage = "print" /\ flags.view # "connections" => Rankings # {}
  <2> SUFFICES ASSUME ListingInv, stage = "print", flags.view # "connections"
               PROVE  \E q : q \in Rankings
    OBVIOUS
  <2>1. Grouped /\ IsList(list)
    BY DEF ListingInv
  <2>2. Numbered(groups, DOMAIN groups)
    <3> SUFFICES ASSUME NEW k \in DOMAIN groups
                 PROVE  groups[k].bytes \in Nat /\ groups[k].connections \in Nat
      BY DEF Numbered
    <3> DEFINE M == Members(k)
               f == [c \in M |-> c.bytes]
    <3>1. groups[k].connections = Cardinality(M) /\ groups[k].bytes = TotalBytes(M)
      BY <2>1 DEF Grouped, GroupIsTrue, Truth
    <3>2. M \in SUBSET list
      BY DEF Members
    <3>3. IsFiniteSet(M) /\ \A c \in M : c.bytes \in Nat
      BY <2>1, <3>2, FiniteList, FS_Subset DEF IsList, Row
    <3>4. TotalBytes(M) = SumFunctionOnSet(f, M) /\ \A c \in M : f[c] \in Nat
      BY <3>3 DEF TotalBytes, SumFunction
    <3> HIDE DEF M, f
    <3>5. SumFunctionOnSet(f, M) \in Nat
      BY <3>3, <3>4, SumType
    <3>6. QED
      BY <3>1, <3>3, <3>4, <3>5, FS_CardinalityType
  <2>3. PICK q : IsRanking(groups, DOMAIN groups, q)
    BY <2>1, <2>2, RankingExists DEF Grouped
  <2>4. q \in Rankings
    BY <2>3 DEF IsRanking, Rankings
  <2>5. QED
    BY <2>4
<1>2. ListingInv /\ NeverWaitsForNothing => ListingNotStuck
  BY <1>1, InvocationAssumption
  DEF ListingInv, Stages, NeverWaitsForNothing, ListingNotStuck, CanGoOn
<1>3. QED
  BY <1>2, ListingInductive, ListingsDump, RecvIsAnswered, PTL

-----------------------------------------------------------------------------
(* What a listing has still to do: the stages, what is left of the scan,   *)
(* and a turn of the grouping loop for each connection of the list, which  *)
(* are at most two for each socket.                                        *)
StageLeft == [netlink |-> 9, procnet |-> 8, correlate |-> 7, resolve |-> 6,
              record |-> 5, filter |-> 4, group |-> 3, print |-> 2, done |-> 0]

TurnsLeft == IF stage = "group" THEN Cardinality(todo)
             ELSE IF stage \in {"print", "done"} THEN 0
             ELSE 2 * Cardinality(Sockets)

ListingLeft ==
  StageLeft[stage] + (IF stage = "netlink" THEN ScanLeft ELSE 0) + TurnsLeft

(* Once started, a listing is printed after a number of steps that the     *)
(* sockets bound, whatever fails: each step leaves less to do.             *)
ListingIsBounded ==
  [][/\ stage = "flags" => ListingLeft' \in 0..(2 * Room + 11 + 2 * Cardinality(Sockets))
     /\ stage # "flags" => ListingLeft' \in 0..(ListingLeft - 1)]_allVars

LEMMA FewTurns == ListingInv => TurnsLeft \in Nat /\ 2 * Cardinality(Sockets) \in Nat
<1>1. ListingInv /\ stage = "group" => IsFiniteSet(todo)
  BY FiniteList, FS_Subset DEF ListingInv, Grouped
<1>2. QED
  BY <1>1, FiniteSockets, FS_CardinalityType DEF TurnsLeft

LEMMA FewTurnsNext == ListingInv' => TurnsLeft' \in Nat
<1> DEFINE Few == TurnsLeft \in Nat
<1>1. ListingInv => Few
  BY FewTurns
<1>2. ListingInv' => Few'
  BY <1>1, PTL
<1>3. QED
  BY <1>2

(* A list has at most two connections for each socket.                     *)
LEMMA ListIsSmall ==
  ASSUME NEW C, IsList(C)
  PROVE  \A D \in SUBSET C :
           Cardinality(D) \in Nat /\ Cardinality(D) <= 2 * Cardinality(Sockets)
<1>1. IsFiniteSet(C) /\ Cardinality(C) <= Cardinality(Places)
  BY ListPlaces, FinitePlaces, FS_Injection
<1>2. \A D \in SUBSET C : Cardinality(D) \in Nat /\ Cardinality(D) <= Cardinality(C)
  BY <1>1, FS_Subset, FS_CardinalityType
<1>3. Cardinality(C) \in Nat /\ Cardinality(Places) \in Nat
  BY <1>1, FinitePlaces, FS_CardinalityType
<1>4. Cardinality(Places) = 2 * Cardinality(Sockets)
  BY FinitePlaces
<1>5. QED
  BY <1>1, <1>2, <1>3, <1>4

(* From start to print, a listing takes boundedly many steps, for any      *)
(* sockets, datagrams, failures and groups.                                *)
THEOREM ListingsAreBounded == ListingSpec => ListingIsBounded
<1> DEFINE N == 2 * Cardinality(Sockets)
           Less == /\ stage = "flags" => ListingLeft' \in 0..(2 * Room + 11 + N)
                   /\ stage # "flags" => ListingLeft' \in 0..(ListingLeft - 1)
<1>1. ASSUME ListingInv, ListingInv', ListingNext PROVE Less
  <2>1. /\ TurnsLeft \in Nat /\ TurnsLeft' \in Nat /\ N \in Nat
        /\ ScanLeft \in Nat /\ ScanLeft' \in Nat /\ Room \in Nat
    <3>1. TurnsLeft' \in Nat
      BY <1>1, FewTurnsNext
    <3>2. QED
      BY <1>1, <3>1, FewTurns, LeftType, LeftTypeNext, RoomFor DEF ListingInv, Counting
  <2>2. CASE Start
    <3>1. stage = "flags" /\ stage' = "netlink" /\ OpenSocket
      BY <2>2 DEF Start
    <3>2. ScanLeft' <= 2 * Room + 2
      BY <3>1, ScanBegins, <2>1
    <3>3. TurnsLeft' = N
      BY <3>1 DEF TurnsLeft
    <3>4. ListingLeft' = 9 + ScanLeft' + N
      BY <3>1, <3>3 DEF ListingLeft, StageLeft
    <3>5. ListingLeft' \in 0..(2 * Room + 11 + N)
      BY <2>1, <3>2, <3>4
    <3>6. QED
      BY <3>1, <3>5
  <2>3. CASE Scan
    <3>1. stage = "netlink" /\ pc # "idle" /\ UNCHANGED listing
      BY <2>3 DEF Scan
    <3>2. ScanLeft' \in 0..(ScanLeft - 1)
      BY <1>1, <2>3, <3>1, ScanStep DEF ListingInv, Scan
    <3>3. stage' = "netlink" /\ TurnsLeft = N /\ TurnsLeft' = N
      BY <3>1 DEF listing, TurnsLeft
    <3>4. ListingLeft = 9 + ScanLeft + N /\ ListingLeft' = 9 + ScanLeft' + N
      BY <3>1, <3>3 DEF ListingLeft, StageLeft
    <3>5. ListingLeft' \in 0..(ListingLeft - 1)
      BY <2>1, <3>2, <3>4
    <3>6. QED
      BY <3>1, <3>5
  <2>4. CASE AppendNetlink \/ AppendProcnet \/ Correlate \/ Resolve \/ Record
    <3>1. /\ stage \in {"netlink", "procnet", "correlate", "resolve", "record"}
          /\ stage' = After[stage]
      BY <2>4 DEF AppendNetlink, AppendProcnet, Correlate, Resolve, Record, Step
    <3>2. /\ stage' \in {"procnet", "correlate", "resolve", "record", "filter"}
          /\ StageLeft[stage'] = StageLeft[stage] - 1 /\ StageLeft[stage] \in 5..9
      BY <3>1 DEF After, StageLeft
    <3>3. TurnsLeft = N /\ TurnsLeft' = N
      BY <3>1, <3>2 DEF TurnsLeft
    <3>4. ListingLeft' = StageLeft[stage'] + N
      BY <2>1, <3>2, <3>3 DEF ListingLeft
    <3>5. ListingLeft >= StageLeft[stage] + N /\ ListingLeft \in Nat
      BY <2>1, <3>2, <3>3 DEF ListingLeft
    <3> HIDE DEF N
    <3>6. QED
      BY <2>1, <3>1, <3>2, <3>4, <3>5
  <2>5. CASE Filter
    <3>1. /\ stage = "filter" /\ stage' = "group" /\ todo' \in SUBSET list
      BY <2>5 DEF Filter, Step, After, StartLoop, FilterConnections
    <3>2. TurnsLeft' = Cardinality(todo') /\ TurnsLeft = N
      BY <3>1 DEF TurnsLeft
    <3>3. Cardinality(todo') \in 0..N
      BY <1>1, <2>1, <3>1, ListIsSmall DEF ListingInv
    <3>4. ListingLeft' = 3 + Cardinality(todo')
      BY <2>1, <3>1, <3>2, <3>3 DEF ListingLeft, StageLeft
    <3>5. ListingLeft >= 4 + N /\ ListingLeft \in Nat
      BY <2>1, <3>1, <3>2 DEF ListingLeft, StageLeft
    <3>6. QED
      BY <2>1, <3>1, <3>3, <3>4, <3>5
  <2>6. CASE Turn
    <3>1. PICK c \in todo : todo' = todo \ {c}
      BY <2>6 DEF Turn, Aggregate
    <3>2. stage = "group" /\ stage' = "group"
      BY <2>6 DEF Turn
    <3>3. IsFiniteSet(todo)
      BY <1>1, <3>2, FiniteList, FS_Subset DEF ListingInv, Grouped
    <3>4. TurnsLeft' = TurnsLeft - 1
      BY <3>1, <3>2, <3>3, FS_RemoveElement DEF TurnsLeft
    <3>5. ListingLeft = 3 + TurnsLeft /\ ListingLeft' = 3 + TurnsLeft'
      BY <2>1, <3>2 DEF ListingLeft, StageLeft
    <3>6. QED
      BY <2>1, <3>2, <3>4, <3>5
  <2>7. CASE GroupingDone \/ PrintConnections \/ PrintAggregation
    <3>1. \/ stage = "group" /\ stage' = "print"
          \/ stage = "print" /\ stage' = "done"
      BY <2>7 DEF GroupingDone, PrintConnections, PrintAggregation, Step, After
    <3>2. TurnsLeft' = 0
      BY <3>1 DEF TurnsLeft
    <3>3. /\ ListingLeft' = StageLeft[stage'] /\ ListingLeft = StageLeft[stage] + TurnsLeft
      BY <2>1, <3>1, <3>2 DEF ListingLeft, StageLeft
    <3>4. QED
      BY <2>1, <3>1, <3>3 DEF StageLeft
  <2>8. QED
    BY <1>1, <2>2, <2>3, <2>4, <2>5, <2>6, <2>7 DEF ListingNext, Program
<1>2. ListingInv /\ ListingInv' /\ [ListingNext]_allVars => [Less]_allVars
  BY <1>1
<1>3. QED
  BY <1>2, ListingInductive, PTL DEF ListingSpec, ListingIsBounded
=============================================================================
