# A TLA+ model of goNetWatch

goNetWatch (Go, Linux) lists the active network connections of a machine with
the processes that own them, either once or, with `--watch`, refreshed on the
screen until it is interrupted.  It can keep a history of activity in a file.
This directory holds TLA+ modules for the parts of it that run concurrently,
share state or can fail, the TLC configurations that check them, and proofs of
their main properties for TLAPS.

Contents

 1. The system
 2. What makes it hard
 3. The modules, and how they correspond to the code
 4. The runs
 5. Where the code and its words part
 6. Fairness
 7. What is proved
 8. What is not modelled
 9. Running it
10. Plan

Paths like `history.go:93` are those of the repository's `internal/<package>`
directories; `main.go` is `cmd/goNetWatch/main.go`.

## 1. The system

| Component | Where | State it keeps | Operations | Correct when |
|---|---|---|---|---|
| command line | `main.go` | the flags | one of: clear the history, summarise it, watch, list once | each mode makes the calls it stands for |
| connection collector | `main.go:281-310` | the list being built, `seenInodes` | `collectConnections` | a socket that is there is listed, and listed once |
| netlink scanner | `netlink.go` | one netlink socket with the kernel's dump and queued datagrams on it | `ScanSockets`, `dumpFamily`, `parseNetlinkBuffer` | a family is returned whole or not at all; it returns |
| procnet scanner | `procnet.go` | none between calls | `ScanConnections`, `parseFile`, `entriesToConnections` | what is active is kept, what is not is dropped |
| process mapper | `process.go` | none between calls but a cache of user names | `MapSocketsToProcesses`, `Correlate`, `ResolveUser` | a connection is attributed to a process that held it |
| DNS resolver | `resolver.go` | the cache, under an `RWMutex`; a semaphore and a wait group for each call | `Resolve`, `ResolveConnections` | bounded lookups, no race on the map, nothing outlives the call |
| history store | `history.go` | a mutex; the JSON file | `Record`, `GetSummary`, `Clear` | what is saved stays saved, what is cleared stays cleared |
| watch loop | `watcher.go` | the previous connections by key, `lastTime` | `Run`, `renderIteration` | rates are right, the display goes on, a signal ends it |
| history summary | `history.go:111-192` | none | the window, buckets and totals of `GetSummary` | no snapshot counts twice; pruning shows nowhere |
| aggregator | `aggregator.go` | the groups of the list it is looping over | filter, group, rank, total | what is shown is what matches; groups and totals are those of the list |
| output | `formatter.go`, `output/history.go` | none | table or groups, and the summary below | every view has the totals of the list |
| classifier, model | `classifier.go`, `model.go` | none | local or not; formatting of endpoints | (tables and text) |
| interface counters | `procnet/dev.go` | none | parses `/proc/net/dev` | (never called) |

How they interact:

* `main` is one goroutine.  One-shot: `collectConnections`, `Correlate`,
  `ResolveConnections` (with `--resolve`), `Record`, then filter, aggregate and
  print.
  `--watch`: `NewWatcher` is given `collectConnections` as a callback and does
  the same from `renderIteration`, once at the start and once per tick.
* `collectConnections` calls both scanners and drops their errors; `process`,
  `dns` and `aggregator` then modify the `*model.Connection` values in place.
* The only goroutines are those of `ResolveConnections`, one per connection.
  They share the resolver's cache, its semaphore and the list.
* What lives on from one refresh to the next: the resolver's cache, the user
  cache, the watcher's `prevConns` and `lastTime`, and the file.
* The file is the only thing that two runs of the program share.  The mutex of
  a `Store` is in memory and says nothing to the other run.
* Everything else that changes under the program's feet is the kernel's: socket
  tables, processes, descriptors, the netlink queue.

## 2. What makes it hard

Nothing the program looks at stands still, and nothing it reads is a snapshot:
the socket tables are read in six walks, `/proc` in three reads per process,
the file in one place and rewritten in another.  Beyond that: goroutines under
a semaphore and a lock that is given up during a lookup; a file that is
truncated before it is written; two runs on one file; errors that are dropped
at many places, so that each step must make sense when the one before it
failed; counts that are not monotone; a signal that competes with a ticker.
`PROJECT.json` lists each of these hazards with its line and the properties
that cover it.

Little of this can be tested: the repository's tests are sequential, and use
the kernel they find.

## 3. The modules, and how they correspond to the code

One module per component; `MC...` modules give the constants values for TLC,
`...Proofs` modules hold the theorems, `Abstract...` modules say what a
component promises.

    AbstractHistory   <- HistoryStore   <- MCHistoryStore
                           ^ HistorySummary <- MCHistorySummary, HistoryProofs
    AbstractResolver  <- DnsResolver    <- MCDnsResolver,   DnsResolverProofs
                         Collector      <- MCCollector,     CollectorProofs
                         Watcher        <- MCWatcher,       WatcherProofs
                         ProcessMapper  <- MCProcessMapper, ProcessMapperProofs
                         NetlinkDump    <- NetlinkDumpProofs
                         Aggregator
                           ^ Invocation (extends both) <- MCInvocation, InvocationProofs
    Sums (lemmas)     <- HistoryProofs, DnsResolverProofs, ProcessMapperProofs, InvocationProofs

`Invocation` composes a listing from its parts: it extends `NetlinkDump` and
`Aggregator`, so that their actions and variables are its own, and has the steps
of `main` between them.  `HistorySummary` extends `HistoryStore`: what it
computes is computed from the file as the store's actions have left it.

Definitions that end in a comment `\* mutant` are wrong versions of the
definition that follows them.  No specification uses them; put in the place of
the right one, each makes TLC refute a property (`PROJECT.json`, "mutants").
Variables marked *history variable* record what happened, for a property to
speak about; no action reads them.

### HistoryStore (`history.go`), AbstractHistory

A *caller* is a goroutine that calls a store, `StoreOf` says in which run of
the program it lives, `locked` which stores' mutexes are held.  `file` is what
the file is (absent, truncated, garbled or JSON) and the snapshots it parses
to; `loadSnapshots` takes all but the last for an empty history, as the code
does (`history.go:204-228`).

`Record` (`history.go:76-106`, with `saveSnapshots`) is split where another run
of the program can come in between: `RecordLock` (lock, stamp), `RecordLoad`
(read; an error is dropped), `RecordOpen` (prune, append, and the truncating
open in `os.WriteFile`), `RecordWrite`.  `RecordOpenFails` and
`RecordWriteFails` are the error paths.  `Overlay` is what a write leaves when
another run has written since the truncation; `orphan` holds the writers whose
file a `Clear` has unlinked.  `GetSummary` and `Clear` touch the file once,
under the mutex, and are one step each.  `Crash` ends a run at any place.  A
snapshot is its number and its timestamp; the counts in it never decide
anything.

`AbstractHistory` has a set of snapshots, and `Append`, `Read` and `Purge` that
act on it at one instant.  `HistoryStore` implements it with `hist <- Contents`:
the snapshots in the file or, between the truncation and the end of the write,
those about to be written.

### HistorySummary (`history.go:111-192`)

`GetSummary`'s arithmetic as operators on a set of snapshots and the clock:
`hours` (24 for what is not positive), `since`, `Relevant`, the keys of the
buckets, `Bucket`, the `Report` of one (the maximum of the connections, the sum
of the bytes), the totals and averages.  An `Hour` is some number of ticks, so
that a window begins amid an hour.  The clock is that of `HistoryStore`, the
snapshots are its file's, and the counts of each `Record` call are a constant.

### DnsResolver (`resolver.go`), AbstractResolver

`Call`, `Spawn` (the loop of `ResolveConnections`, one turn at a time) and
`Wait` are the caller's; the others are a goroutine's, one action per operation
on something shared: the channel `sem`, the lock, the map, the lookup, the
connection, the deferred release and `wg.Done` in their order.  A lookup
returns a name or none (timeout, error, empty answer), and may answer twice
differently.  `Call` starts the next refresh on new connections with the same
cache.

`AbstractResolver` has two steps, the call and its return, in which all names
appear at once and the cache grows.  `DnsResolver` implements it.

### Collector (`main.go:281-310`, both scanners)

Six readers run one after the other (two netlink dumps, four files of
`/proc/net`).  `Visit` passes one place of the kernel's tables, and `Open` and
`Close` change any place between two visits.  `Commit` ends a walk (append;
for netlink note the inodes, for procnet skip what is noted), `Fail` drops what
a reader has found.  The two netlink readers share a socket.  If a receive of
the first fails while the kernel is at its dump, the kernel refuses the second
(`ReceiveFailsAmid`); if the dump is complete by then, the second reads what the
first has left unread, with its done message, and returns that without an error
(`ReceiveFailsLate`; `NetlinkDump` has the datagrams).  `Kept` is the filter of `parseNetlinkBuffer` and of
`entriesToConnections`, `mapState` procnet's table of states.  A socket in
TIME_WAIT has inode 0, as in the kernel.

### NetlinkDump (`netlink.go:91-209`)

`Fill` is the kernel, which answers a dump datagram by datagram; `Send` is the
request, refused while another dump on the same socket is not complete; `Recv`
is one turn of `dumpFamily`'s loop with the message loop of
`parseNetlinkBuffer`; `RecvFails` and `SendFails` are its error paths.  `left`
(a history variable) notes that a failed receive has left the IPv4 dump behind.
The faults and the ways in which a dump is split into datagrams are all there
in `Invocation`, which is where TLC runs this module.

### ProcessMapper (`process.go`)

The walk of `MapSocketsToProcesses` read by read: `/proc`, then for each
process the list of its descriptors, its name, and link after link; `Correlate`
ends it.  `Start`, `Exit`, `Exec`, `OpenSocket` and `CloseSocket` are the
kernel's, at any time.  A process that exits and starts again under the same
number is a reused PID.  `Slots` says which descriptors may be sockets: it
bounds an instance without symmetry between its processes, and is a subset of
all pairs in the theorems.

### Aggregator (`aggregator.go`)

`Matches` is the condition of `FilterConnections`; a text to search for is given
by the set of texts that contain it.  `Aggregate` is one turn of the loop of
`AggregateByRemote` or of `AggregateByProcess`, which differ in `Key`, `Label`
and `Item` only.  It takes any connection that is left, since the order of the
list is the kernel's.  `Rankings` are the orders in which an unstable sort may
put the groups; groups equal in bytes and connections come in any of them.  A
connection matches a port if it is its local or its remote one.  A connection
without a remote address, which `AggregateByRemote` skips (`aggregator.go:79`),
is left out: both scanners set the address of every connection they make.

### Invocation (`main.go:154-310`)

One listing.  `Start` reads the command line (any view, any filter, with or
without a positional argument and `--resolve`) and opens the netlink socket;
`Scan` is a step of `NetlinkDump`; `AppendNetlink` and `AppendProcnet` are
`collectConnections`; `Correlate`, `Resolve`, `Record`, `Filter`, `Turn` and
`GroupingDone`, `PrintConnections` and `PrintAggregation` are the steps of
`main` in the order that `After` gives them.  What the scanners, the walk of
`/proc` and the lookups may miss is nondeterministic: `Correlate` may find any
set of `Misses` nowhere, besides the sockets without an inode, which it never
finds, or fail as a whole; a lookup may fail for one
connection and not for another with the same address.  `AppendProcnet` compares
inodes as `main.go:302` does, and only those above 0: a socket in TIME_WAIT
(`Inode` 0) that netlink has returned is in the list a second time.  The files
of the families in `unread` cannot be read (`procnet.go:51`; with IPv6 disabled
there is none), which nobody is told.  Every reported connection says in `by`
which scanner it is from.  `Misread` is the address
that an IPv4 message gives when it is parsed as an IPv6 one.  The sockets do
not change during a listing here; `Collector` has the case that they do.  There
is a store, and what can become of a `Record` is in `HistoryStore`.

### Watcher (`watcher.go`)

`Collect`, `Rates`, `Record` and `Show` are the parts of `renderIteration` in
order, `TakeTick` and `TakeSignal` the branches of `Run`'s `select`.  `Fire`
and `Signal` are the runtime's, which drops what does not fit into a channel
of capacity 1.  `connKey` (`watcher.go:180`) and `MapsOf` (the map, in which the
later of two entries with one key stays) are the code's; `Growth` is the
numerator of a rate with the guard that keeps it from wrapping around.  Rates
are kept as numerator (`rates`) and divisor (`dt`).  The collector is two
scanners that come upon sockets one at a time (`See`) and may overlook any,
while the kernel goes on: a list may have a socket with its inode from netlink
and without it from procnet, or an old and a new socket of the same addresses.
What a scanner cannot do is what `Collector`'s `OncePerInode` excludes.  A scan
takes no time that would count.  An error of `Record` is dropped.

## 4. The runs

Sizes are distinct states.  All runs but `one_listing` and the two of `Watcher`
also check that no state is without a successor; a listing ends, and `Watcher`
ends after a signal.

| Run | Bounds | States | Checked |
|---|---|---|---|
| `history_one_store` | 2 callers of 1 store, 3 records, clock to 4, retention 4, an hour of 2, windows of 1 and 2 hours, opens may fail | 729 000 | `SavedSnapshotsKept`, `ClearedStaysCleared`, `PruningIsInvisible`, `EachInOneBucket`, `TotalsCountOnce`, `AbstractSpec` (refinement) |
| `history_runs_and_faults` | 3 callers of 2 stores, 2 records, every fault | 47 000 | `ResurrectionOnlyByRace`, `EveryCallReturns` |
| `dns_batches` | 3 connections, 2 addresses and a loopback one, 2 tokens | 309 000 | `LookupsBounded`, `NoConcurrentMapAccess`, `CachedIsFinal`, `NoLateWrite`, `AbstractSpec`, `EveryCallReturns` |
| `collect_races` | 3 places (TCP, TCP6, UDP), 3 inodes, `--all`, every reader may fail | 3 230 000 | `OncePerInode`, `LastingReported` |
| `one_listing` | 3 IPv4 and 2 IPv6 sockets, one of each in TIME_WAIT, 2 messages per datagram, every fault, `/proc/net/tcp6` readable or not, 3 views, 3 filters, 3 arguments | 521 000 | `WholeUnlessLeftovers`, `EverySocketListed`, `SnapshotIsOfAll`, `ShownMatch`, `ViewsAgree`, `GroupsAreTrue`, `ListingEnds` |
| `mapper_walk` | 2 processes, one with 2 descriptors, 2 sockets, 2 names | 1 040 000 | `AttributionIsTrue`, `SteadyIsAttributed`, `OneNamePerPid` |
| `watch_loop` | 2 sockets with the same addresses, lists of at most 2, counts to 1, time to 1 | 993 000 | `RatesAreOfOneSocket`, `Refreshing`, `SignalEndsRun` |

Each also checks its module's `TypeOK`, except `history_runs_and_faults`.  In
some of these the type says something: that the wait group's counter never
goes below zero, that no difference of unsigned counts is negative, that an
empty process name is never shown, that the dumps stop after the last family.

What they show, and why the bounds are enough:

* `history_one_store`.  Within one run of the program the store is atomic.
  Three records and a clock that reaches the retention let a snapshot be saved,
  kept, pruned and followed by one that is not; two callers suffice for every
  conflict, since the mutex lets one at a time in, and the theorems of section
  7 say so for any number.  The retention is two hours long, and a window of
  two hours reaches back exactly as far: the cutoffs of `Record` and
  `GetSummary` meet, and an odd clock puts both amid an hour.  Buckets of several
  snapshots with different counts tell the sum of the bytes from the largest
  (`TotalsCountOnce`).  The callers of
  the one store are interchangeable, and the symmetry set is their permutations.
* `history_runs_and_faults`.  Two runs and all failures.  A cleared snapshot
  can come back, and this is the exact case: a `Record` had read it and not yet
  opened the file when `Clear` removed it.  Time is left out (the clock stays
  at 0), as it only prunes.  Every call returns whatever fails.
* `dns_batches`.  Three goroutines for two tokens: one waits.  Addresses can
  repeat in a list, and lists in successive calls, so that hits, misses and
  double lookups of one address all happen.
* `collect_races`.  The three places are in walks of different readers and in
  walks of the same socket by netlink and procnet; a place can be closed and
  reused with a new inode between them.  All six readers may fail, in every
  combination, and the second dump may be what the first has left behind:
  `LastingReported` counts only the readers that have `Walked` their own table,
  as reader 2 then has not although it returns no error.
* `one_listing`.  Three IPv4 sockets do not fit into one datagram, so that a
  failed receive can leave some, all or only the done message behind; both
  families have sockets.  Two IPv4 sockets share an address, and so do the
  two IPv6 ones; one of each family is held by a process and one in TIME_WAIT,
  the latter listed twice when both scanners see it; a lookup may fail for one
  of two connections with one address: groups with one and with several
  members, of one process or of two, and labels found late.  The only file that
  may be missing is `/proc/net/tcp6`, which is enough for both cases of each
  socket.  The filters are none, one that needs a host's name and a scope, and
  one that needs a PID; the arguments are none, a port (some sockets' local one)
  and a number that is no port.
* `mapper_walk`.  Two processes are enough for a socket that is shared or
  handed on, ahead of the walk or behind it, and two descriptors of one process
  for an exec or a reused PID between two links.  Sockets and names are
  interchangeable (no definition tells two of them apart but by equality, `0`,
  `""` and `"unknown"` aside, and no liveness is checked), so the symmetry set is
  the permutations of both.  Processes and descriptors are read in order and
  are not.
* `watch_loop`.  Two sockets in succession at one address are the case in which
  a rate could join them.  Each of them may be seen by either scanner or, if
  it loses its inode, by both.  A list of two can hold both sockets, or one of
  them twice; the theorem has no such bound.

Five more runs, `history_two_runs`, `history_totals`, `collect_time_wait`,
`collect_udp` and `watch_rates`, check one property each that TLC refutes.
They are the next section.

## 5. Where the code and its words part

1. **A saved snapshot can be lost** (`history.go:93`, run `history_two_runs`).
   Two runs of the program record at the same time: both read the file, both
   write it, and the snapshot of the first is gone although its `Record`
   returned nil.  `SavedSnapshotsKept` is `Record` "saves a snapshot", pruned
   only when "older than 30 days".
2. **TIME_WAIT sockets are listed twice** (`main.go:302`, `collect_time_wait`).
   They have inode 0, and only inodes above 0 are compared.  The comment at
   `main.go:297` promises what netlink has *missed*.
3. **Connected UDP sockets are not shown** (`procnet.go:205`, `collect_udp`).
   `mapState` takes code 07 for a connected UDP socket; the kernel uses 01.
   Without `--all` every UDP socket is dropped.
4. **Totals count bytes again and again** (`history.go:153`, `history_totals`).
   A snapshot holds the bytes its sockets have carried since they were opened
   (`model.go:31`, "cumulative on socket"), and `GetSummary` adds up all
   snapshots of an hour: an idle socket that is recorded twice has its bytes in
   the total twice, and `--watch` records every two seconds.
5. **Rates are divided by another time** (`watcher.go:122`, `watch_rates`).
   The clock is read after the processes and the names were looked up, not
   when the counts were read.

A sixth disagreement bounds a property instead of having a run.  When a receive
fails amid the IPv4 dump (`netlink.go:146`), the rest of that dump stays queued
on the socket that the IPv6 dump then uses.  `dumpFamily` checks neither
sequence number nor family, takes it for its answer, and stops at the IPv4
dump's done message: IPv4 sockets come back as IPv6 ones with addresses that
are none.  `WholeUnlessLeftovers` is what holds without this case; that procnet
supplies the missing sockets if it can read their file, and that a socket of a
process is listed only once even then, is `EverySocketListed`.  If it cannot
(the IPv6 dump read leftovers and `/proc/net/tcp6` failed), the IPv6 sockets are
missing from the list and no error is reported: `Walked` in `Collector` and
`unread` in `Invocation` are that exception in the properties.

## 6. Fairness

Safety is checked without fairness (`Spec`), liveness with `FairSpec`
(`FairListing` in `Invocation`):

* `HistoryStore`: weak fairness of a `Record` that holds the mutex (I/O calls
  return), strong fairness of taking it.  A Go mutex hands over to a waiter of
  more than 1 ms, so that nobody is overtaken for ever.  Nothing is assumed of
  crashes, of time or of new calls.
* `DnsResolver`: goroutines run (weak); a lookup ends, since its context times
  out after 800 ms; the queue of a channel's senders is first in, first out
  and an `RWMutex` starves neither side, hence strong fairness of `Acquire`,
  `RLock` and `Lock`.
* `Invocation`: the kernel goes on with a dump it has begun, and the program,
  when it is not waiting for a datagram, goes on (both weak).  Nobody need
  start it, and no fault need ever happen or cease.
* `Watcher`: iterations end (weak; the runs of `Invocation` and `DnsResolver`
  show the parts that could block), the ticker fires, and `select` chooses
  uniformly among the ready cases: a signal that is ready again and again is
  taken (strong).  Weak fairness of the signal would not do, since the code is
  outside `select` between two ticks.

## 7. What is proved

TLAPS proves these for every value of the constants that meets the modules'
named assumptions (`HistoryAssumption`, `SummaryAssumption`, `DnsAssumption`,
`CollectorAssumption`, `WatcherAssumption`, `DumpAssumption`,
`MapperAssumption`, `InvocationAssumption`: constants are numbers, functions and subsets of the
expected kind, capacities are positive, `Misses` and `Unreadable`
name one outcome at least, no two sockets have one inode above 0; TLC evaluates them in every run).

**HistoryProofs.**  The inductive invariant is `TypeOK /\ Mutex /\ Fresh
/\ Carried` (`InvCorrect`).  `Mutex`: a `Record` under way holds its store,
alone.  `Fresh`: the snapshot it is recording is nobody else's, and not among
the saved or purged ones; without this a purged snapshot could be written
again by a `Record` that is its own.  `Carried`: no purged snapshot is in the
file, in the buffer of a `Record` before its open, or in that of a writer whose
file is still linked, but stale ones.  It gives `NoOtherResurrection` with no
hypothesis on the number of runs or on what fails.  With `OneReliableStore`
(one store; no read or write failures and no crash), `Kept` is added: who is
alone finds in the file what he read from it.  It gives `SavedAreKept`,
`ClearedAreGone` and the refinement `StoreIsAtomic`.  Finding 1 shows that the
hypothesis is needed.

`SummaryIsOfAllSaved` takes `Kept` from there, under the same hypothesis: the
file lacks nothing recent.  What is in a bucket of a window within the
retention is recent (`BucketIsRecent`, by arithmetic on truncated times), so
the buckets of the file and of all that was saved are the same.
`BucketsPartition` needs no such hypothesis but `Past`, that no snapshot's time
is ahead of the clock, which `PastStep` shows inductive; its arithmetic is in
`TruncateShift` and `BucketExists`.  With it, `TotalsAreOfSnapshots`: the code
adds up the buckets' sums, and that is the sum over the snapshots, each once.

**DnsResolverProofs.**  `Shape` = `Typed /\ Counts /\ Spawned /\ Locks`: tokens
and the wait group count exactly the goroutines between certain places, a
goroutine exists only for a connection the loop has passed, and the sets of
readers and writers are those the places say.  `TypeCorrect`,
`LookupsAreBounded`, `MapIsGuarded` and `NothingWritesLate` follow: when `wg`
is 0 no goroutine is left.  `Data` = `Caching /\ Looking /\ Results /\
Learning` relates names, cache and what was known when the call began:
`CacheIsFinal`, and the refinement `ResolverIsAtomic`.

**CollectorProofs.**  `Once` = `TypeOK /\ Inodes /\ Behind /\ Listed /\
OncePerInode`.  `Inodes`: the inodes seen, found or in a table are below the
next one, and one that was found at a place is at no other; this is why a
procnet walk cannot meet an inode twice while tables change.  `Behind`: what a
walk has found lies behind it.  `Listed`: the list is what finished readers
found, and netlink's part of it is what is noted.  `InodesAreReportedOnce`
follows; with `Unchanged` (a lasting socket is, and was to every reader, what
it was at the start) and `Reported` (for each finished reader that has walked
its own table and covers a lasting socket, that socket is on the list, put there
by it or by an earlier one) `LastingAreReported`.  What reader 2 may return in
place of its walk is what reader 1 found and did not return (`Relabelled`), so
that it brings no inode a second time.

**WatcherProofs.**  `TypeOK /\ MapIsPrevious /\ RatesAreOfOneSocket`:
`prevConns` has only entries of the very list that the next rates are measured
against, never of an older one.
`TypeCorrect` and `RatesAreRight`, for any sockets and any reuse of addresses.
`GrowthOfOneSocket` is the lemma on `Growth` they rest on.  `SignalsAreKept`:
a signal waits in its channel until `Run` takes it, and nothing else ends `Run`.

**NetlinkDumpProofs.**  `DumpInv` = `ScanType /\ Answer /\ Collected`.
`ScanType` is stronger than `TypeOK`: each queued message is about a socket that
exists.  `Answer` says, unless something was left behind, where the family's
sockets are while the program waits: the request was refused; or the kernel is
at some place of the dump, and what was got and what is queued are the sockets
before it; or all were sent, and the last datagram, and no other, ends in the
done message.  `Collected` says what the finished families returned.
`TypeCorrect` and `FamiliesWhole` follow.  A dump that leaves something behind
returns nothing itself, hence `NoSocketTwice`.

**ProcessMapperProofs.**  `MapperInv` = `WalkType /\ KernelOK /\ IdleOK /\
WalkOK`.  The last relates, during a walk, the map to the history variables:
`UpToDate` (they include the present), `MapIsTrue` (entries are of passed
processes or, with the name in `procName`, of the present one) and `MapIsSteady`
(a steady descriptor that was passed is mapped, or is among the links still to
be read).  `AttributionTrue`, `SteadyAttributed` and `OneNameForAll` follow when
`Correlate` ends the walk.

**InvocationProofs.**  The steps of a listing are steps of the dumps or leave
them alone (`DumpsGoOn`), so that the invariant of `NetlinkDumpProofs` holds of
`ListingSpec` without another proof.  From it, and from `NoSocketTwice`, the
list of netlink has each socket at most once; procnet adds, from the files that
it can read, every socket whose inode is not among netlink's, which is each one
that netlink has not returned, and those without an inode; and the steps up to
`Record` change connections, not which there are.  That is
`SocketsAreListed` and `SnapshotOfAll`.  That the list is what was
recorded, or what matches in it, gives `ShownMatchNames`, and `Grouped`, the
groups so far are true of the connections the loop has passed, `GroupsTrue`.
`ViewsHaveOneTotal` follows from the last: the connections are partitioned by
their groups, and a group has the counts of its members, so the sum of the
groups is that of the list (`SumOfParts`).  `ListingsDump` states the
composition itself: `ListingSpec` implements the specification of
`NetlinkDump`.

**Sums.**  The sums of `CalculateTotals`, `GetSummary` and the groups are folds
of the community modules, which are recursive functions chosen by their
equation.  The provers cannot use the library's induction theorems, which have
an operator as parameter; but the theorem that strict inclusion is well-founded
on the subsets of a finite set has none, and `SetInduction` follows from it for
a *set* of good subsets.  With it: the equation has a solution (`SumIs` and the
lemmas after it), any element may be taken first, a sum is a number, changing
one term changes the sum by as much (`SumChange`), and the sum over the parts
of a partition is the sum over the whole (`SumOfParts`).

**The safety half of liveness.**  That something happens eventually rests on
three facts: what is left to do gets less with each step, there is always a
next step, and a step that stays possible is taken.  The last is the fairness
of section 6; the first two are action properties and invariants, and are
proved for any sizes:

| Component | less is left | a next step | liveness checked by TLC |
|---|---|---|---|
| store | `CallsAreBounded` | `NobodyStuck`, from `NoLockIsLost` | `EveryCallReturns` |
| resolver | `CallsAreBounded` | `NobodyStuck` | `EveryCallReturns` |
| dumps | `ScansAreBounded` | `RecvIsAnswered` | in `ListingEnds` |
| listing | `ListingsAreBounded` | `ListingsNotStuck` | `ListingEnds` |
| collector | `CallsAreBounded` | (a reader waits for nothing) | (no run) |
| mapper | `WalksAreBounded` | `WalkNeverStuck` | (no run) |

The kernel's steps may not prolong a walk in the last two rows, and do not: a
directory that was read is the list that is walked.  For `RecvIsAnswered` the
queue and the kernel's dump together always hold a datagram that ends the
family (`Answered`), also when an earlier dump was left unread or refused.  The
hard case of `ListingsNotStuck` is the print: any finite set of groups has a
ranking (`RankingExists`).  The guards are written out in these modules
(`CanStep`, `CanFill`, `CanGoOn`, `WalkCanGoOn`), as the prover does not reason
about `ENABLED`; they are the guards of the actions without what is assigned.

**Checked by TLC only.**  Liveness under fairness (`EveryCallReturns` twice,
`ListingEnds`, `Refreshing`, `SignalEndsRun`), since the prover does not reason
about `ENABLED`.  All invariants and the other action properties of the passing
runs, and both refinements, are theorems.

## 8. What is not modelled

* Decoding: lines of `/proc/net`, hexadecimal addresses, `inet_diag_msg`,
  JSON.  A file parses or it does not.  The offsets at which `netlink.go:236`
  reads `tcp_info` do not belong to the fields it names, so `Watcher` takes
  every count for possible.
* `ctx.Done` in `Run`: `main` passes `context.Background()`, it never fires.
  The error branch of `renderIteration`: `collectConnections` never returns an
  error.
* `Resolve` with a resolver that is not enabled: `main` makes one only for
  `--resolve`, and makes it enabled.
* `ResolveUser` and its cache: one goroutine uses them.  (A user whose name
  cannot be found once stays a number for the life of the program.)
* The classifier: a lookup in a table, whose answers are the constant `Scope`.
* Of the aggregator: the option `State`, which nothing sets; the split by scope,
  which decides under which heading a line is printed; the list of a host's
  PIDs, which is kept like that of its processes.
* Output but for its rows and totals; flag parsing; formatting.
* `--watch` with an interval that is not positive: `time.NewTicker` panics
  before there is a state.
* Windows longer than the retention: `--hours` then shows hours as idle whose
  snapshots are pruned.  `PruningIsInvisible` is claimed up to the retention.
* `procnet/dev.go`: not called.
* The loss of history when a read or a write of the file fails or the program is
  killed amid a write is in `HistoryStore`'s actions, but no property forbids
  it: `SavedSnapshotsKept` is claimed for runs without these failures.  With
  them, only the return of cleared snapshots and of calls is checked.
* PIDs that are reused: `AttributionIsTrue` tells processes apart by their PID,
  and a name that belonged to the PID's former process is not caught.
* Failures outside the model: a disk that loses what was written, a clock that
  goes back (`time.Now` is UTC and taken to be monotone).

## 9. Running it

    tlc -config history_one_store.cfg MCHistorySummary
    tlapm HistoryProofs.tla

and likewise for the others; `PROJECT.json` says which configuration goes with
which module.  The longest runs, `history_one_store`, `watch_loop` and `one_listing`, take up to
three minutes, the proofs one or two minutes each.  The community modules must be on TLC's path.

## 10. Plan

Done, in the order in which the behaviour matters: the store and its summary,
the resolver, the collector, the netlink dump, the watch loop, the process
mapper, the aggregator, and a listing composed of its parts; theorems for all
of them.

What would come next:

1. The sockets of a listing that change while it is made: `Collector`'s tables
   and `ProcessMapper`'s processes under `Invocation`, for what one line of the
   output may combine.
2. The stronger claim on names in the mapper (the name of the process *when* it
   held the socket), which the order of its reads does not give.
3. The loss of history after a crash or a read error as runs of their own.
4. Several refreshes with the caches that live on between them, of names and of
   users, and entries in them that are wrong or old.
