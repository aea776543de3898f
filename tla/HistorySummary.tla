--------------------------- MODULE HistorySummary ---------------------------
(***************************************************************************)
(* internal/history/history.go, GetSummary: what it makes of the snapshots *)
(* it reads, an hourly report with averages and totals.                    *)
(*                                                                         *)
(* A snapshot's counts are those of the list it was taken of: Connections  *)
(* and RXBytes give them for each Record call.  The received bytes stand   *)
(* for both directions, which the code treats alike.                       *)
(***************************************************************************)
EXTENDS HistoryStore, FiniteSetsExt

CONSTANTS
  Hour,          \* an hour, in ticks of the clock
  Windows,       \* the numbers of hours that GetSummary is asked for
  DefaultHours,  \* the number it takes for one that is not positive (24)
  Connections,   \* Connections[i]: the connections that Record call i counted
  RXBytes,       \* RXBytes[i]: the sum of their byte counts
  Traffic        \* a bound on the bytes of all the sockets counted

ASSUME SummaryAssumption ==
  /\ Hour \in Nat \ {0}
  /\ Windows \subseteq Int
  /\ DefaultHours \in Nat \ {0}
  /\ Connections \in [1..MaxRecords -> Nat]
  /\ RXBytes \in [1..MaxRecords -> Nat]
  /\ Traffic \in Nat /\ \A i \in 1..MaxRecords : RXBytes[i] <= Traffic

-----------------------------------------------------------------------------
hours(asked) == IF asked <= 0 THEN DefaultHours ELSE asked

(* Time.Truncate(time.Hour), which is also what the key of a bucket tells. *)
Truncate(t) == t - (t % Hour)

since(h) == now - h * Hour
Relevant(S, h) == {s \in S : s.at >= since(h)}

(* One bucket for each of the last h hours, the current one included.      *)
hourKeysFromSince(h) == {Truncate(now - i * Hour) : i \in 1..h}    \* mutant
hourKeys(h) == {Truncate(now - i * Hour) : i \in 0..(h - 1)}

BucketRounded(S, h, k) ==                                  \* mutant
  {s \in Relevant(S, h) : Truncate(s.at + Hour \div 2) = k}
Bucket(S, h, k) == {s \in Relevant(S, h) : Truncate(s.at) = k}

SumRX(S) == SumFunction([s \in S |-> RXBytes[s.id]])

(* Of a bucket the largest number of connections, and all bytes.           *)
ReportLargest(B) ==                                        \* mutant
  [connections |-> Max({Connections[s.id] : s \in B} \cup {0}),
   rx          |-> Max({RXBytes[s.id] : s \in B} \cup {0})]
Report(B) == [connections |-> Max({Connections[s.id] : s \in B} \cup {0}),
              rx          |-> SumRX(B)]

(* The averages divide these by the number of hours.                       *)
TotalRX(reports) == SumFunction([k \in DOMAIN reports |-> reports[k].rx])
SumConns(reports) == SumFunction([k \in DOMAIN reports |-> reports[k].connections])

Reports(S, h) == [k \in hourKeys(h) |-> Report(Bucket(S, h, k))]

Summary(S, h) ==
  [reports   |-> Reports(S, h),
   totalRX   |-> TotalRX(Reports(S, h)),
   avgRX     |-> TotalRX(Reports(S, h)) \div h,
   sumConns  |-> SumConns(Reports(S, h)),
   snapshots |-> Cardinality(Relevant(S, h))]

-----------------------------------------------------------------------------
(* A GetSummary that would run now, with its mutex free.                   *)
Asking == \E c \in Callers : pc[c] = "summary" /\ Free(c)

(* "averages and totals over a historical window": as long as the window   *)
(* is no longer than the retention, pruning shows nowhere.  The reports,   *)
(* the totals and the averages are those of all that was ever saved and    *)
(* not cleared, and not only of what the Records since have left of it.    *)
PruningIsInvisible ==
  Asking => \A w \in Windows : hours(w) * Hour <= Retention =>
    \A field \in {"reports", "totalRX", "avgRX", "sumConns"} :
      Summary(file.snaps, hours(w))[field] = Summary(saved, hours(w))[field]

(* Of the snapshots that count as relevant, those are in one bucket, and   *)
(* in one only, that are not from the rest of an hour with which the       *)
(* window begins; TotalSnapshots includes that rest, less than an hour's.  *)
EachInOneBucket ==
  Asking => \A w \in Windows :
    LET h == hours(w)
    IN \A s \in Relevant(file.snaps, h) :
         s.at >= Truncate(since(h)) + Hour <=>
           \E k \in hourKeys(h) :
             \A l \in hourKeys(h) : s \in Bucket(file.snaps, h, l) <=> l = k

(* Cut into hours, the total is still the sum over the snapshots of the    *)
(* window but those of that rest of an hour, each counted once.            *)
TotalsCountOnce ==
  Asking => \A w \in Windows :
    LET h == hours(w)
    IN Summary(file.snaps, h).totalRX =
         SumRX({s \in Relevant(file.snaps, h) : s.at >= Truncate(since(h)) + Hour})

(* "cumulative on socket": a snapshot's counts are those its sockets have  *)
(* had since they were opened, so the totals over a window, too, are at    *)
(* most what the sockets have carried.                                     *)
TotalIsTraffic ==
  Asking => \A w \in Windows : Summary(file.snaps, hours(w)).totalRX <= Traffic
=============================================================================
