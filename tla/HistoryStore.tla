---------------------------- MODULE HistoryStore ----------------------------
(***************************************************************************)
(* internal/history/history.go: the persistent store of activity           *)
(* snapshots, one JSON file rewritten as a whole by every Record.          *)
(*                                                                         *)
(* Each run of goNetWatch owns one Store, whose mutex serialises the calls *)
(* made inside that run; nothing serialises two runs (say, one in --watch  *)
(* mode and a one-shot one), which share the file.  A caller is one        *)
(* goroutine; StoreOf says in which run it lives.                          *)
(*                                                                         *)
(* Record is split where another run can act: after the lock is taken and  *)
(* the snapshot stamped, after the file is read, after os.WriteFile has    *)
(* truncated it.  Clear and GetSummary touch the file once while they hold *)
(* the mutex, so each is one step.                                         *)
(***************************************************************************)
EXTENDS Integers, FiniteSets

CONSTANTS
  Callers,      \* goroutines that call a store
  Stores,       \* one Store per run of the program, all on one file
  StoreOf,      \* StoreOf[c]: the Store that caller c uses
  Retention,    \* age at which Record prunes a snapshot ("30 days")
  MaxTime,      \* bound on the clock
  MaxRecords,   \* bound on the number of Record calls
  Faults        \* the failures a run admits, a subset of FaultKinds

FaultKinds == {"read", "open", "write", "remove", "crash"}

ASSUME HistoryAssumption ==
  /\ StoreOf \in [Callers -> Stores]
  /\ Retention \in Nat \ {0}
  /\ MaxTime \in Nat
  /\ MaxRecords \in Nat \ {0}
  /\ Faults \subseteq FaultKinds

VARIABLES
  file,     \* the JSON file: what it is and the snapshots it parses to
  locked,   \* the Stores whose mutex is held
  pc,       \* pc[c]: where c's call stands
  new,      \* new[c]: the snapshot c is recording
  buf,      \* buf[c]: the slice of snapshots c's Record works on
  orphan,   \* callers whose open file has been unlinked by a Clear
  view,     \* view[c]: the snapshots c's last GetSummary read
  now,      \* the wall clock
  nextId,   \* number of the next Record call
  saved,    \* history variable: recorded with success and not cleared since
  purged,   \* history variable: saved, then removed by a Clear
  stale     \* history variable: held by a Record when a Clear overtook it

ghosts == <<saved, purged, stale>>
vars == <<file, locked, pc, new, buf, orphan, view, now, nextId, ghosts>>

-----------------------------------------------------------------------------
(* A snapshot is the call that made it and its timestamp: the byte and     *)
(* connection counts it carries never decide whether it is kept.           *)
Snapshot == [id : 1..MaxRecords, at : 0..MaxTime]

(* The file parses only when it is "json".  loadSnapshots sorts what it    *)
(* reads, so the order in the file is immaterial and a set stands for it.  *)
Absent  == [kind |-> "absent",  snaps |-> {}]
Emptied == [kind |-> "empty",   snaps |-> {}]    \* truncated, not yet written
Garbled == [kind |-> "garbled", snaps |-> {}]    \* written in part, or overlaid
Json(S) == [kind |-> "json",    snaps |-> S]

RecentOrCutoff(s) == s.at >= now - Retention              \* mutant
Recent(s) == s.at > now - Retention

(* The mutex of c's Store can be taken.                                    *)
FreeAlways(c) == TRUE                                      \* mutant
Free(c) == StoreOf[c] \notin locked

(* The timestamp of newSnap, in UTC.                                       *)
StampLocalTime(c) == [new[c] EXCEPT !.at = now + 1]        \* mutant
Stamp(c) == [new[c] EXCEPT !.at = now]

(* loadSnapshots: a missing file, and one that does not parse, are an      *)
(* empty history and no error.                                             *)
loadSnapshots == file.snaps

(* The slice Record saves: the loaded snapshots after the cutoff, then the *)
(* new one.                                                                *)
Pruned(c) == {s \in buf[c] : Recent(s)} \cup {new[c]}

(* os.WriteFile's write of S at offset 0, over what other writers put      *)
(* there since the truncation: the longer text wins, and when the older is *)
(* longer its tail stays and the file no longer parses.  A set of          *)
(* snapshots that contains another is the longer text; sets that do not    *)
(* compare may have either length.                                         *)
Overlay(S) ==
  CASE file.kind = "empty" -> {Json(S)}
    [] file.kind = "json" /\ file.snaps \subseteq S -> {Json(S)}
    [] file.kind = "json" /\ S \subseteq file.snaps /\ S # file.snaps -> {Garbled}
    [] OTHER -> {Json(S), Garbled}

-----------------------------------------------------------------------------
Init ==
  /\ file = Absent
  /\ locked = {}
  /\ pc = [c \in Callers |-> "idle"]
  /\ new = [c \in Callers |-> [id |-> 1, at |-> 0]]
  /\ buf = [c \in Callers |-> {}]
  /\ orphan = {}
  /\ view = [c \in Callers |-> {}]
  /\ now = 0
  /\ nextId = 1
  /\ saved = {} /\ purged = {} /\ stale = {}

(* main or the watch loop calls the store.                                 *)
CallRecord(c) ==
  /\ pc[c] = "idle"
  /\ nextId <= MaxRecords
  /\ pc' = [pc EXCEPT ![c] = "record"]
  /\ new' = [new EXCEPT ![c] = [id |-> nextId, at |-> now]]
  /\ nextId' = nextId + 1
  /\ UNCHANGED <<file, locked, buf, orphan, view, now, ghosts>>

CallQuery(c) ==
  /\ pc[c] = "idle"
  /\ \E op \in {"summary", "clear"} : pc' = [pc EXCEPT ![c] = op]
  /\ UNCHANGED <<file, locked, new, buf, orphan, view, now, nextId, ghosts>>

(* The end of a call: the deferred Unlock runs on every path.              *)
ReturnLocked(c) ==                                         \* mutant
  /\ pc' = [pc EXCEPT ![c] = "idle"]
  /\ locked' = locked
  /\ buf' = [buf EXCEPT ![c] = {}]
Return(c) ==
  /\ pc' = [pc EXCEPT ![c] = "idle"]
  /\ locked' = locked \ {StoreOf[c]}
  /\ buf' = [buf EXCEPT ![c] = {}]

(* Record takes the mutex and stamps its snapshot.                         *)
RecordLock(c) ==
  /\ pc[c] = "record"
  /\ Free(c)
  /\ locked' = locked \cup {StoreOf[c]}
  /\ pc' = [pc EXCEPT ![c] = "load"]
  /\ new' = [new EXCEPT ![c] = Stamp(c)]
  /\ UNCHANGED <<file, buf, orphan, view, now, nextId, ghosts>>

(* Record reads the file.  It drops the error of loadSnapshots, so a file  *)
(* it could not read counts as an empty history.                           *)
RecordLoad(c) ==
  /\ pc[c] = "load"
  /\ pc' = [pc EXCEPT ![c] = "open"]
  /\ \/ buf' = [buf EXCEPT ![c] = loadSnapshots]
     \/ /\ "read" \in Faults
        /\ file.kind # "absent"
        /\ buf' = [buf EXCEPT ![c] = {}]
  /\ UNCHANGED <<file, locked, new, orphan, view, now, nextId, ghosts>>

(* Record prunes and appends; os.WriteFile opens the file for writing,     *)
(* which creates or truncates it.                                          *)
RecordOpen(c) ==
  /\ pc[c] = "open"
  /\ pc' = [pc EXCEPT ![c] = "write"]
  /\ buf' = [buf EXCEPT ![c] = Pruned(c)]
  /\ file' = Emptied
  /\ UNCHANGED <<locked, new, orphan, view, now, nextId, ghosts>>

(* The open fails: Record returns the error, the file is untouched.        *)
RecordOpenFails(c) ==
  /\ "open" \in Faults
  /\ pc[c] = "open"
  /\ Return(c)
  /\ UNCHANGED <<file, new, orphan, view, now, nextId, ghosts>>

(* os.WriteFile writes the new text and Record returns nil.  When a Clear  *)
(* has unlinked the open file meanwhile, the text goes where no one can    *)
(* read it.                                                                *)
RecordWrite(c) ==
  /\ pc[c] = "write"
  /\ Return(c)
  /\ IF c \in orphan THEN file' = file ELSE file' \in Overlay(buf[c])
  /\ orphan' = orphan \ {c}
  /\ saved' = saved \cup {new[c]}
  /\ UNCHANGED <<new, view, now, nextId, purged, stale>>

(* The write fails, on a full disk say, with nothing or a part written.    *)
RecordWriteFails(c) ==
  /\ "write" \in Faults
  /\ pc[c] = "write"
  /\ Return(c)
  /\ file' \in IF c \in orphan THEN {file} ELSE {file, Garbled}
  /\ orphan' = orphan \ {c}
  /\ UNCHANGED <<new, view, now, nextId, ghosts>>

(* GetSummary locks, loads and unlocks.                                    *)
GetSummary(c) ==
  /\ pc[c] = "summary"
  /\ Free(c)
  /\ Return(c)
  /\ view' = [view EXCEPT ![c] = loadSnapshots]
  /\ UNCHANGED <<file, new, orphan, now, nextId, ghosts>>

(* GetSummary, unlike Record, reports a read error.                        *)
GetSummaryFails(c) ==
  /\ "read" \in Faults
  /\ file.kind # "absent"
  /\ pc[c] = "summary"
  /\ Free(c)
  /\ Return(c)
  /\ UNCHANGED <<file, new, orphan, view, now, nextId, ghosts>>

(* Clear locks, unlinks the file (a missing one is no error) and unlocks.  *)
Clear(c) ==
  /\ pc[c] = "clear"
  /\ Free(c)
  /\ Return(c)
  /\ file' = Absent
  /\ orphan' = {d \in Callers : pc[d] = "write"}
  /\ saved' = {}
  /\ purged' = purged \cup saved
  /\ stale' = stale \cup UNION {buf[d] : d \in {e \in Callers : pc[e] = "open"}}
  /\ UNCHANGED <<new, view, now, nextId>>

ClearFailsSilently(c) ==                                   \* mutant
  /\ "remove" \in Faults
  /\ pc[c] = "clear"
  /\ Free(c)
  /\ Return(c)
  /\ saved' = {} /\ purged' = purged \cup saved
  /\ UNCHANGED <<file, new, orphan, view, now, nextId, stale>>

(* The unlink fails: Clear returns the error.                              *)
ClearFails(c) ==
  /\ "remove" \in Faults
  /\ pc[c] = "clear"
  /\ Free(c)
  /\ Return(c)
  /\ UNCHANGED <<file, new, orphan, view, now, nextId, ghosts>>

(* A run of the program dies (^C outside --watch, SIGKILL, power loss) and *)
(* is started again: its mutex and buffers are gone, the file stays as it  *)
(* is, or holds a part of what was being written.                          *)
Crash(s) ==
  LET dead == {c \in Callers : StoreOf[c] = s}
  IN /\ "crash" \in Faults
     /\ \E c \in dead : pc[c] # "idle"
     /\ pc' = [c \in Callers |-> IF c \in dead THEN "idle" ELSE pc[c]]
     /\ buf' = [c \in Callers |-> IF c \in dead THEN {} ELSE buf[c]]
     /\ locked' = locked \ {s}
     /\ orphan' = orphan \ dead
     /\ file' \in IF \E c \in dead \ orphan : pc[c] = "write"
                  THEN {file, Garbled} ELSE {file}
     /\ UNCHANGED <<new, view, now, nextId, ghosts>>

Tick ==
  /\ now < MaxTime
  /\ now' = now + 1
  /\ UNCHANGED <<file, locked, pc, new, buf, orphan, view, nextId, ghosts>>

RecordStep(c) == RecordLoad(c) \/ RecordOpen(c) \/ RecordOpenFails(c)
                   \/ RecordWrite(c) \/ RecordWriteFails(c)

(* The steps that wait for the mutex.                                      *)
LockStep(c) == RecordLock(c) \/ GetSummary(c) \/ GetSummaryFails(c)
                 \/ Clear(c) \/ ClearFails(c)

Next ==
  \/ \E c \in Callers :
       CallRecord(c) \/ CallQuery(c) \/ LockStep(c) \/ RecordStep(c)
  \/ \E s \in Stores : Crash(s)
  \/ Tick

Spec == Init /\ [][Next]_vars

(* A running call keeps running, and sync.Mutex, which hands over to the   *)
(* longest waiter after 1 ms, starves no one.                              *)
Fairness == \A c \in Callers : WF_vars(RecordStep(c)) /\ SF_vars(LockStep(c))

FairSpec == Spec /\ Fairness

-----------------------------------------------------------------------------
(* Every variable keeps its type; a caller's place is one of the code's.   *)
TypeOK ==
  /\ file \in [kind : {"absent", "empty", "garbled", "json"},
               snaps : SUBSET Snapshot]
  /\ locked \subseteq Stores
  /\ pc \in [Callers -> {"idle", "record", "load", "open", "write",
                         "summary", "clear"}]
  /\ new \in [Callers -> Snapshot]
  /\ buf \in [Callers -> SUBSET Snapshot]
  /\ orphan \subseteq Callers
  /\ view \in [Callers -> SUBSET Snapshot]
  /\ now \in 0..MaxTime
  /\ nextId \in 1..(MaxRecords + 1)
  /\ saved \subseteq Snapshot
  /\ purged \subseteq Snapshot
  /\ stale \subseteq Snapshot

(* Record "saves a snapshot" and prunes "entries older than 30 days": once *)
(* a Record has returned nil, and until a Clear, its snapshot is in the    *)
(* file for as long as it is younger than the retention, whatever was      *)
(* called since.  (While some write is under way the file is truncated.)   *)
SavedSnapshotsKept ==
  (\A c \in Callers : pc[c] # "write") =>
     {s \in saved : Recent(s)} \subseteq file.snaps

(* The case for which the code is written: the callers share one Store,    *)
(* and the only failure is that the file cannot be opened or unlinked.     *)
OneReliableStore ==
  /\ \A c, d \in Callers : StoreOf[c] = StoreOf[d]
  /\ Faults \cap {"read", "write", "crash"} = {}

(* Clear "removes all persistent history records": no snapshot that a      *)
(* Clear removed is ever in the file again.                                *)
ClearedStaysCleared == file.snaps \cap purged = {}

(* What is left of that when several runs share the file and any of the    *)
(* faults may strike: a cleared snapshot comes back only if a Record had   *)
(* read it, and not yet opened the file, when the Clear removed it.        *)
ResurrectionOnlyByRace == file.snaps \cap purged \subseteq stale

(* Whatever fails, and in whatever order calls come, the mutex is released *)
(* and every call returns.                                                 *)
EveryCallReturns == \A c \in Callers : pc[c] # "idle" ~> pc[c] = "idle"

(* With one Store, Record, GetSummary and Clear are atomic for each other. *)
(* Record takes effect when it opens the file: from then to the end of the *)
(* write it holds in buf what the file is about to be.                     *)
Contents ==
  IF \E c \in Callers : pc[c] = "write"
  THEN buf[CHOOSE c \in Callers : pc[c] = "write"]
  ELSE file.snaps

Abstract == INSTANCE AbstractHistory
              WITH hist <- Contents, Snapshots <- Snapshot
AbstractSpec == Abstract!Spec
=============================================================================
