----------------------------- MODULE Aggregator -----------------------------
(***************************************************************************)
(* internal/aggregator/aggregator.go: filtering a list of connections,     *)
(* grouping it by remote host or by process, and its totals.               *)
(*                                                                         *)
(* Grouping is a loop over the list, one connection per step.  The list's  *)
(* order is the kernel's, so the loop takes any connection next.  One sum  *)
(* of bytes stands for the received and the transmitted ones.  A           *)
(* connection without a remote address, which AggregateByRemote skips, is  *)
(* left out: both scanners set the address of every one that they make.    *)
(***************************************************************************)
EXTENDS Integers, FiniteSetsExt

VARIABLES
  todo,     \* the connections that the loop has not reached
  groups    \* groups[k]: the summary of the connections with key k

Views == {"connections", "remote", "process"}

-----------------------------------------------------------------------------
(* A text of the command line is given by the texts that contain it, the   *)
(* empty one by all texts.  The option State is never set.                 *)
Matches(c, o) ==
  /\ o.pid > 0 => c.pid = o.pid
  /\ c.name \in o.proc
  /\ c.ip \in o.target \/ c.host \in o.target
  /\ o.port > 0 => o.port \in c.ports
  /\ o.localOnly => c.scope = "local"
  /\ o.externalOnly => c.scope = "external"

FilterConnections(C, o) == {c \in C : Matches(c, o)}

CalculateTotals(C) ==
  [connections |-> Cardinality(C),
   bytes       |-> SumFunction([c \in C |-> c.bytes])]

-----------------------------------------------------------------------------
(* The two groupings differ in the key, in the label, which is the host's  *)
(* name or the process's user, and in what a group lists: the processes,   *)
(* or the remote hosts.                                                    *)
ProcessName(c) == IF c.name = "" THEN "-" ELSE c.name
Key(view, c) == IF view = "remote" THEN c.ip ELSE <<c.pid, ProcessName(c)>>
Label(view, c) == IF view = "remote" THEN c.host ELSE c.user
Item(view, c) ==
  IF view = "remote" THEN {c.name} \ {"", "-"}
  ELSE {IF c.host # "" THEN c.host ELSE c.ip}

NewGroup(view, c) ==
  [connections |-> 0, bytes |-> 0, label |-> Label(view, c),
   scope |-> c.scope, items |-> {}]

AddedNewOnly(g, view, c) ==                                \* mutant
  [connections |-> g.connections + 1,
   bytes       |-> g.bytes + c.bytes,
   label       |-> g.label,
   scope       |-> g.scope,
   items       |-> g.items \cup Item(view, c)]
Added(g, view, c) ==
  [connections |-> g.connections + 1,
   bytes       |-> g.bytes + c.bytes,
   label       |-> IF g.label = "" THEN Label(view, c) ELSE g.label,
   scope       |-> g.scope,
   items       |-> g.items \cup Item(view, c)]

GroupAlwaysNew(view, c) == NewGroup(view, c)               \* mutant
Group(view, c) ==
  LET k == Key(view, c)
  IN IF k \in DOMAIN groups THEN groups[k] ELSE NewGroup(view, c)

StartLoop(C) == todo' = C /\ groups' = <<>>

(* One turn of the loop of AggregateByRemote or AggregateByProcess.        *)
Aggregate(view) ==
  \E c \in todo :
    /\ todo' = todo \ {c}
    /\ groups' = [k \in DOMAIN groups \cup {Key(view, c)} |->
                    IF k = Key(view, c) THEN Added(Group(view, c), view, c)
                    ELSE groups[k]]

(* The groups are sorted, from a map's random order and not stably, by     *)
(* bytes and then by connections: groups equal in both come in any order.  *)
Above(g, h) ==
  g.bytes > h.bytes \/ (g.bytes = h.bytes /\ g.connections > h.connections)

Rankings ==
  {q \in [1..Cardinality(DOMAIN groups) -> DOMAIN groups] :
     \A i, j \in DOMAIN q : i < j => /\ q[i] # q[j]
                                     /\ ~Above(groups[q[j]], groups[q[i]])}
=============================================================================
