--------------------------- MODULE HistoryProofs ---------------------------
(***************************************************************************)
(* What holds of HistoryStore for any number of callers, runs, records and *)
(* ticks, and of GetSummary's arithmetic for any length of the hour and of *)
(* the retention, any windows and any number of snapshots.  TypeOK, Mutex, *)
(* Carried and Past need no hypothesis; Kept, and with it the refinement   *)
(* of AbstractHistory and that pruning does not show, OneReliableStore.    *)
(***************************************************************************)
EXTENDS HistorySummary, Sums

InRecord(c) == pc[c] \in {"load", "open", "write"}
Pending(c) == pc[c] = "record" \/ InRecord(c)

(* The mutex: a Record that is under way holds its Store, alone.           *)
Mutex ==
  /\ \A c \in Callers : InRecord(c) => StoreOf[c] \in locked
  /\ \A c, d \in Callers :
       InRecord(c) /\ InRecord(d) /\ StoreOf[c] = StoreOf[d] => c = d

(* The snapshot of a Record under way is nobody else's.                    *)
Fresh ==
  /\ \A c \in Callers : Pending(c) => new[c].id < nextId /\ new[c].at <= now
  /\ \A c, d \in Callers :
       Pending(c) /\ Pending(d) /\ new[c].id = new[d].id => c = d
  /\ \A s \in saved \cup purged : s.id < nextId
  /\ \A s \in saved \cup purged, c \in Callers :
       Pending(c) => s.id # new[c].id

(* Whatever may yet reach the file carries no cleared snapshot but a stale *)
(* one.  A writer whose file was unlinked cannot reach it any more.        *)
Carried ==
  /\ file.snaps \cap purged \subseteq stale
  /\ \A c \in Callers : pc[c] = "open" => buf[c] \cap purged \subseteq stale
  /\ \A c \in Callers : pc[c] = "write" /\ c \notin orphan =>
                           buf[c] \cap purged \subseteq stale

Inv == TypeOK /\ Mutex /\ Fresh /\ Carried

-----------------------------------------------------------------------------
(* The file holds snapshots whatever os.WriteFile's text meets in it.      *)
LEMMA OverlayType ==
  ASSUME TypeOK, NEW S \in SUBSET Snapshot, NEW f \in Overlay(S)
  PROVE  /\ f \in [kind : {"absent", "empty", "garbled", "json"},
                     snaps : SUBSET Snapshot]
         /\ f.snaps \subseteq S
  BY DEF Overlay, Json, Garbled

(* Pruning and appending stay within the snapshots.                        *)
LEMMA PrunedType ==
  ASSUME TypeOK, NEW c \in Callers
  PROVE  Pruned(c) \in SUBSET Snapshot
  BY DEF Pruned, TypeOK

(* Init is of the right type, and every step keeps it.                     *)
LEMMA TypeInit == Init => TypeOK
  BY HistoryAssumption DEF Init, TypeOK, Absent, Snapshot, ghosts

(* One step per action.                                                    *)
LEMMA TypeStep == TypeOK /\ [Next]_vars => TypeOK'
<1> SUFFICES ASSUME TypeOK, [Next]_vars PROVE TypeOK'
  OBVIOUS
<1> USE HistoryAssumption
<1>1. ASSUME NEW c \in Callers, CallRecord(c) PROVE TypeOK'
  BY <1>1 DEF CallRecord, TypeOK, Snapshot, ghosts
<1>2. ASSUME NEW c \in Callers, CallQuery(c) PROVE TypeOK'
  BY <1>2 DEF CallQuery, TypeOK, ghosts
<1>3. ASSUME NEW c \in Callers, RecordLock(c) PROVE TypeOK'
  BY <1>3 DEF RecordLock, Stamp, TypeOK, Snapshot, ghosts
<1>4. ASSUME NEW c \in Callers, RecordLoad(c) PROVE TypeOK'
  BY <1>4 DEF RecordLoad, loadSnapshots, TypeOK, ghosts
<1>5. ASSUME NEW c \in Callers, RecordOpen(c) PROVE TypeOK'
  BY <1>5, PrunedType DEF RecordOpen, Emptied, TypeOK, ghosts
<1>6. ASSUME NEW c \in Callers, RecordOpenFails(c) PROVE TypeOK'
  BY <1>6 DEF RecordOpenFails, Return, TypeOK, ghosts
<1>7. ASSUME NEW c \in Callers, RecordWrite(c) PROVE TypeOK'
  <2>1. file' \in [kind : {"absent", "empty", "garbled", "json"},
                   snaps : SUBSET Snapshot]
    BY <1>7, OverlayType DEF RecordWrite, TypeOK
  <2>2. QED
    BY <1>7, <2>1 DEF RecordWrite, Return, TypeOK
<1>8. ASSUME NEW c \in Callers, RecordWriteFails(c) PROVE TypeOK'
  BY <1>8 DEF RecordWriteFails, Return, Garbled, TypeOK, ghosts
<1>9. ASSUME NEW c \in Callers, GetSummary(c) PROVE TypeOK'
  BY <1>9 DEF GetSummary, Return, loadSnapshots, TypeOK, ghosts
<1>10. ASSUME NEW c \in Callers, GetSummaryFails(c) PROVE TypeOK'
  BY <1>10 DEF GetSummaryFails, Return, TypeOK, ghosts
<1>11. ASSUME NEW c \in Callers, Clear(c) PROVE TypeOK'
  BY <1>11 DEF Clear, Return, Absent, TypeOK
<1>12. ASSUME NEW c \in Callers, ClearFails(c) PROVE TypeOK'
  BY <1>12 DEF ClearFails, Return, TypeOK, ghosts
<1>13. ASSUME NEW s \in Stores, Crash(s) PROVE TypeOK'
  BY <1>13 DEF Crash, Garbled, TypeOK, ghosts
<1>14. CASE Tick
  BY <1>14 DEF Tick, TypeOK, ghosts
<1>15. CASE UNCHANGED vars
  BY <1>15 DEF vars, ghosts, TypeOK
<1>16. QED
  BY <1>1, <1>2, <1>3, <1>4, <1>5, <1>6, <1>7, <1>8, <1>9, <1>10, <1>11,
     <1>12, <1>13, <1>14, <1>15 DEF Next, LockStep, RecordStep

(* Type correctness: for every number of callers and runs, and under every *)
(* fault, the variables keep their types.                                  *)
THEOREM TypeCorrect == Spec => []TypeOK
  BY TypeInit, TypeStep, PTL DEF Spec

-----------------------------------------------------------------------------
(* Only RecordLock enters the critical section, and it waits for the mutex *)
(* to be free; Return and Crash release it for those that leave.           *)
LEMMA MutexStep == TypeOK /\ Mutex /\ [Next]_vars => Mutex'
<1> SUFFICES ASSUME TypeOK, Mutex, [Next]_vars PROVE Mutex'
  OBVIOUS
<1> USE HistoryAssumption DEF TypeOK, Mutex, InRecord
<1>1. ASSUME NEW c \in Callers, CallRecord(c) \/ CallQuery(c) PROVE Mutex'
  BY <1>1 DEF CallRecord, CallQuery
<1>2. ASSUME NEW c \in Callers, RecordLock(c) PROVE Mutex'
  BY <1>2 DEF RecordLock, Free
<1>3. ASSUME NEW c \in Callers, RecordLoad(c) \/ RecordOpen(c) PROVE Mutex'
  BY <1>3 DEF RecordLoad, RecordOpen
<1>4. ASSUME NEW c \in Callers,
             RecordOpenFails(c) \/ RecordWrite(c) \/ RecordWriteFails(c)
      PROVE  Mutex'
  BY <1>4 DEF RecordOpenFails, RecordWrite, RecordWriteFails, Return
<1>5. ASSUME NEW c \in Callers,
             GetSummary(c) \/ GetSummaryFails(c) \/ Clear(c) \/ ClearFails(c)
      PROVE  Mutex'
  BY <1>5 DEF GetSummary, GetSummaryFails, Clear, ClearFails, Return, Free
<1>6. ASSUME NEW s \in Stores, Crash(s) PROVE Mutex'
  BY <1>6 DEF Crash
<1>7. CASE Tick \/ UNCHANGED vars
  BY <1>7 DEF Tick, vars
<1>8. QED
  BY <1>1, <1>2, <1>3, <1>4, <1>5, <1>6, <1>7 DEF Next, LockStep, RecordStep

(* CallRecord numbers the snapshot, RecordWrite hands it over to saved.    *)
LEMMA FreshStep == TypeOK /\ Fresh /\ [Next]_vars => Fresh'
<1> SUFFICES ASSUME TypeOK, Fresh, [Next]_vars PROVE Fresh'
  OBVIOUS
<1> USE HistoryAssumption DEF TypeOK, Fresh, Pending, InRecord, Snapshot
<1>1. ASSUME NEW c \in Callers, CallRecord(c) PROVE Fresh'
  BY <1>1 DEF CallRecord, ghosts
<1>2. ASSUME NEW c \in Callers, CallQuery(c) PROVE Fresh'
  BY <1>2 DEF CallQuery, ghosts
<1>3. ASSUME NEW c \in Callers, RecordLock(c) PROVE Fresh'
  <2>1. new'[c] = [id |-> new[c].id, at |-> now]
    BY <1>3 DEF RecordLock, Stamp
  <2>2. QED
    BY <1>3, <2>1 DEF RecordLock, ghosts
<1>4. ASSUME NEW c \in Callers, RecordLoad(c) \/ RecordOpen(c) PROVE Fresh'
  <2>1. pc[c] \in {"load", "open"} /\ \E p \in {"open", "write"} :
           pc' = [pc EXCEPT ![c] = p]
    BY <1>4 DEF RecordLoad, RecordOpen
  <2>2. UNCHANGED <<new, now, nextId, saved, purged>>
    BY <1>4 DEF RecordLoad, RecordOpen, ghosts
  <2>3. QED
    BY <2>1, <2>2
<1>5. ASSUME NEW c \in Callers, RecordOpenFails(c) \/ RecordWriteFails(c)
      PROVE  Fresh'
  BY <1>5 DEF RecordOpenFails, RecordWriteFails, Return, ghosts
<1>6. ASSUME NEW c \in Callers, RecordWrite(c) PROVE Fresh'
  BY <1>6 DEF RecordWrite, Return
<1>7. ASSUME NEW c \in Callers,
             GetSummary(c) \/ GetSummaryFails(c) \/ ClearFails(c)
      PROVE  Fresh'
  BY <1>7 DEF GetSummary, GetSummaryFails, ClearFails, Return, ghosts
<1>8. ASSUME NEW c \in Callers, Clear(c) PROVE Fresh'
  BY <1>8 DEF Clear, Return
<1>9. ASSUME NEW s \in Stores, Crash(s) PROVE Fresh'
  BY <1>9 DEF Crash, ghosts
<1>10. CASE Tick
  BY <1>10 DEF Tick, ghosts
<1>11. CASE UNCHANGED vars
  BY <1>11 DEF vars, ghosts
<1>12. QED
  BY <1>1, <1>2, <1>3, <1>4, <1>5, <1>6, <1>7, <1>8, <1>9, <1>10, <1>11
  DEF Next, LockStep, RecordStep

(* Clear marks as stale what openers hold, and cuts writers off the file;  *)
(* no other step brings a cleared snapshot closer to it.                   *)
LEMMA CarriedStep == TypeOK /\ Fresh /\ Carried /\ [Next]_vars => Carried'
<1> SUFFICES ASSUME TypeOK, Fresh, Carried, [Next]_vars PROVE Carried'
  OBVIOUS
<1> USE DEF TypeOK, Carried
<1>1. ASSUME NEW c \in Callers, CallRecord(c) \/ CallQuery(c) \/ RecordLock(c)
      PROVE  Carried'
  BY <1>1 DEF CallRecord, CallQuery, RecordLock, ghosts
<1>2. ASSUME NEW c \in Callers, RecordLoad(c) PROVE Carried'
  BY <1>2 DEF RecordLoad, loadSnapshots, ghosts
<1>3. ASSUME NEW c \in Callers, RecordOpen(c) PROVE Carried'
  <2>1. new[c] \notin purged
    BY <1>3 DEF RecordOpen, Fresh, Pending, InRecord
  <2>2. buf'[c] \cap purged \subseteq stale
    BY <1>3, <2>1 DEF RecordOpen, Pruned
  <2>3. QED
    BY <1>3, <2>2 DEF RecordOpen, Emptied, ghosts
<1>4. ASSUME NEW c \in Callers, RecordOpenFails(c) PROVE Carried'
  BY <1>4 DEF RecordOpenFails, Return, ghosts
<1>5. ASSUME NEW c \in Callers, RecordWrite(c) PROVE Carried'
  <2>1. file'.snaps \cap purged \subseteq stale
    <3>1. CASE c \in orphan
      BY <1>5, <3>1 DEF RecordWrite
    <3>2. CASE c \notin orphan
      <4>1. file'.snaps \subseteq buf[c]
        BY <1>5, <3>2, OverlayType DEF RecordWrite
      <4>2. QED
        BY <1>5, <3>2, <4>1 DEF RecordWrite
    <3>3. QED
      BY <3>1, <3>2
  <2>2. QED
    BY <1>5, <2>1 DEF RecordWrite, Return
<1>6. ASSUME NEW c \in Callers, RecordWriteFails(c) PROVE Carried'
  BY <1>6 DEF RecordWriteFails, Return, Garbled, ghosts
<1>7. ASSUME NEW c \in Callers,
             GetSummary(c) \/ GetSummaryFails(c) \/ ClearFails(c)
      PROVE  Carried'
  BY <1>7 DEF GetSummary, GetSummaryFails, ClearFails, Return, ghosts
<1>8. ASSUME NEW c \in Callers, Clear(c) PROVE Carried'
  BY <1>8 DEF Clear, Return, Absent
<1>9. ASSUME NEW s \in Stores, Crash(s) PROVE Carried'
  BY <1>9 DEF Crash, Garbled, ghosts
<1>10. CASE Tick \/ UNCHANGED vars
  BY <1>10 DEF Tick, vars, ghosts
<1>11. QED
  BY <1>1, <1>2, <1>3, <1>4, <1>5, <1>6, <1>7, <1>8, <1>9, <1>10
  DEF Next, LockStep, RecordStep

(* Init establishes the invariant, with nothing recorded and no one in.    *)
LEMMA InvInit == Init => Inv
  BY TypeInit DEF Init, Inv, Mutex, Fresh, Carried, Pending, InRecord, Absent

(* Every step keeps the invariant.                                         *)
LEMMA InvStep == Inv /\ [Next]_vars => Inv'
  BY TypeStep, MutexStep, FreshStep, CarriedStep DEF Inv

(* The inductive invariant of the store, with no hypothesis on how many    *)
(* runs there are or on what fails: mutual exclusion within each run,      *)
(* snapshots of their own, and no way back for a cleared one but stale.    *)
THEOREM InvCorrect == Spec => []Inv
  BY InvInit, InvStep, PTL DEF Spec

(* However many runs share the file and whichever calls fail or die, a     *)
(* cleared snapshot reappears only if a Record was carrying it, between    *)
(* its read and its open, when Clear removed it.                           *)
THEOREM NoOtherResurrection == Spec => []ResurrectionOnlyByRace
<1>1. Inv => ResurrectionOnlyByRace
  BY DEF Inv, Carried, ResurrectionOnlyByRace
<1>2. QED
  BY InvCorrect, <1>1, PTL

-----------------------------------------------------------------------------
(* No lock is lost: a mutex is held by a Record that is under way, whose   *)
(* next step waits for nobody.                                             *)
Held == \A s \in locked : \E c \in Callers : InRecord(c) /\ StoreOf[c] = s

(* Whoever leaves releases the lock that he held, alone; others keep       *)
(* theirs, and a crash takes the locks of the whole run.                   *)
LEMMA HeldStep == TypeOK /\ Mutex /\ Held /\ [Next]_vars => Held'
<1> SUFFICES ASSUME TypeOK, Mutex, Held, [Next]_vars, NEW s \in locked'
             PROVE  \E c \in Callers : InRecord(c)' /\ StoreOf[c] = s
  BY DEF Held
<1> USE HistoryAssumption DEF TypeOK, InRecord
<1>1. ASSUME NEW c \in Callers, RecordLock(c)
      PROVE  \E d \in Callers : InRecord(d)' /\ StoreOf[d] = s
  <2>1. CASE s = StoreOf[c]
    BY <1>1, <2>1 DEF RecordLock
  <2>2. CASE s # StoreOf[c]
    <3>1. s \in locked
      BY <1>1, <2>2 DEF RecordLock
    <3>2. PICK d \in Callers : InRecord(d) /\ StoreOf[d] = s
      BY <3>1 DEF Held
    <3>3. pc'[d] = pc[d]
      BY <1>1, <2>2, <3>2 DEF RecordLock
    <3>4. QED
      BY <3>2, <3>3
  <2>3. QED
    BY <2>1, <2>2
<1>2. ASSUME s \in locked, \A d \in Callers : InRecord(d) /\ StoreOf[d] = s => InRecord(d)'
      PROVE  \E d \in Callers : InRecord(d)' /\ StoreOf[d] = s
  BY <1>2 DEF Held
<1>3. ASSUME NEW c \in Callers, CallRecord(c) \/ CallQuery(c)
      PROVE  \E d \in Callers : InRecord(d)' /\ StoreOf[d] = s
  BY <1>3, <1>2 DEF CallRecord, CallQuery
<1>4. ASSUME NEW c \in Callers, RecordLoad(c) \/ RecordOpen(c)
      PROVE  \E d \in Callers : InRecord(d)' /\ StoreOf[d] = s
  BY <1>4, <1>2 DEF RecordLoad, RecordOpen
<1>5. ASSUME NEW c \in Callers, Return(c)
      PROVE  \E d \in Callers : InRecord(d)' /\ StoreOf[d] = s
  <2>1. s \in locked /\ s # StoreOf[c]
    BY <1>5 DEF Return
  <2>2. QED
    BY <1>2, <1>5, <2>1 DEF Return
<1>6. ASSUME NEW t \in Stores, Crash(t)
      PROVE  \E d \in Callers : InRecord(d)' /\ StoreOf[d] = s
  <2>1. s \in locked /\ s # t
    BY <1>6 DEF Crash
  <2>2. QED
    BY <1>2, <1>6, <2>1 DEF Crash
<1>7. CASE Tick \/ UNCHANGED vars
  BY <1>2, <1>7 DEF Tick, vars
<1>8. QED
  BY <1>1, <1>3, <1>4, <1>5, <1>6, <1>7
     DEF Next, LockStep, RecordStep, RecordOpenFails, RecordWrite, RecordWriteFails,
         GetSummary, GetSummaryFails, Clear, ClearFails

LEMMA HeldCorrect == Spec => [](Inv /\ Held)
<1>1. Init => Inv /\ Held
  BY InvInit DEF Init, Held
<1>2. Inv /\ Held /\ [Next]_vars => Inv' /\ Held'
  BY InvStep, HeldStep DEF Inv
<1>3. QED
  BY <1>1, <1>2, PTL DEF Spec

(* Whatever call fails and whichever run dies, on no path does the mutex   *)
(* stay locked: the locked Stores are those with a Record under way.       *)
LockedByRecords == locked = {StoreOf[c] : c \in {d \in Callers : InRecord(d)}}

(* No return path of Record, GetSummary or Clear keeps the mutex, nor does *)
(* a crash: a Store is locked exactly while a Record is under way.         *)
THEOREM NoLockIsLost == Spec => []LockedByRecords
<1>1. Inv /\ Held => LockedByRecords
  BY DEF Inv, Mutex, Held, LockedByRecords
<1>2. QED
  BY HeldCorrect, <1>1, PTL

(* The guards of LockStep(c) and RecordStep(c): c's call can go on.        *)
CanStep(c) ==
  InRecord(c) \/ (pc[c] \in {"record", "summary", "clear"} /\ Free(c))

(* The calls to a Store never wait for each other all together: while one  *)
(* is under way, one of them can go on.                                    *)
NobodyIsStuck ==
  \A c \in Callers : pc[c] # "idle" =>
    \E d \in Callers : StoreOf[d] = StoreOf[c] /\ CanStep(d)

(* Of the calls to one Store one can always go on.                         *)
THEOREM NobodyStuck == Spec => []NobodyIsStuck
<1>1. Inv /\ Held => NobodyIsStuck
  BY DEF Inv, TypeOK, Held, NobodyIsStuck, CanStep, Free, InRecord
<1>2. QED
  BY HeldCorrect, <1>1, PTL

(* What a call has still to do: each of its own steps brings it closer to  *)
(* its return, and no step of another caller sets it back.  With the two   *)
(* theorems above, only a mutex that is never granted could keep a call    *)
(* from returning.                                                         *)
StepsLeft == [idle |-> 0, write |-> 1, open |-> 2, load |-> 3, record |-> 4,
              summary |-> 1, clear |-> 1]

CallsProgress ==
  [][\A c \in Callers : pc[c] # "idle" =>
       pc'[c] = pc[c] \/ StepsLeft[pc'[c]] < StepsLeft[pc[c]]]_vars

(* A call to a Store takes at most four steps from its beginning to its    *)
(* return, for any number of callers, runs and faults.                     *)
THEOREM CallsAreBounded == Spec => CallsProgress
<1>1. ASSUME TypeOK, Next, NEW c \in Callers, pc[c] # "idle"
      PROVE  pc'[c] = pc[c] \/ StepsLeft[pc'[c]] < StepsLeft[pc[c]]
  <2> USE <1>1 DEF TypeOK, StepsLeft
  <2>1. ASSUME NEW d \in Callers, Return(d) PROVE pc'[c] = pc[c] \/ pc'[c] = "idle"
    BY <2>1 DEF Return
  <2>2. CASE \E d \in Callers : CallRecord(d) \/ CallQuery(d)
    BY <2>2 DEF CallRecord, CallQuery
  <2>3. CASE \E d \in Callers : RecordLock(d) \/ RecordLoad(d) \/ RecordOpen(d)
    BY <2>3 DEF RecordLock, RecordLoad, RecordOpen
  <2>4. CASE \E s \in Stores : Crash(s)
    BY <2>4 DEF Crash
  <2>5. CASE Tick
    BY <2>5 DEF Tick
  <2>6. QED
    BY <2>1, <2>2, <2>3, <2>4, <2>5
       DEF Next, LockStep, RecordStep, RecordOpenFails, RecordWrite,
           RecordWriteFails, GetSummary, GetSummaryFails, Clear, ClearFails
<1>2. QED
  <2>1. TypeOK /\ [Next]_vars =>
          [\A c \in Callers : pc[c] # "idle" =>
             pc'[c] = pc[c] \/ StepsLeft[pc'[c]] < StepsLeft[pc[c]]]_vars
    BY <1>1
  <2>2. QED
    BY <2>1, TypeCorrect, PTL DEF Spec, CallsProgress

-----------------------------------------------------------------------------
(* One reliable Store: a Record under way has the file to itself, so what  *)
(* it read is what is in it, and what it writes is what was saved.         *)
Kept ==
  /\ orphan = {} /\ stale = {}
  /\ file.snaps \subseteq saved
  /\ (\A c \in Callers : pc[c] # "write") =>
        {s \in saved : Recent(s)} \subseteq file.snaps
  /\ \A c \in Callers : pc[c] = "open" => buf[c] = file.snaps
  /\ \A c \in Callers : pc[c] = "write" =>
        /\ file = Emptied
        /\ buf[c] \subseteq saved \cup {new[c]}
        /\ {s \in saved : Recent(s)} \cup {new[c]} \subseteq buf[c]

(* With one Store, the one Record under way is alone.                      *)
LEMMA OneRecord ==
  ASSUME OneReliableStore, Mutex, NEW c \in Callers
  PROVE  /\ InRecord(c) => \A d \in Callers : InRecord(d) => d = c
         /\ Free(c) => \A d \in Callers : ~InRecord(d)
  BY DEF OneReliableStore, Mutex, Free

(* RecordOpen and RecordWrite carry the saved snapshots over; Clear waits  *)
(* until there is no Record under way.                                     *)
LEMMA KeptStep ==
  OneReliableStore /\ TypeOK /\ Mutex /\ Kept /\ [Next]_vars => Kept'
<1> SUFFICES ASSUME OneReliableStore, TypeOK, Mutex, Kept, [Next]_vars
             PROVE  Kept'
  OBVIOUS
<1> USE HistoryAssumption DEF TypeOK, Kept, Recent
<1>1. ASSUME NEW c \in Callers, CallRecord(c) \/ CallQuery(c) PROVE Kept'
  BY <1>1 DEF CallRecord, CallQuery, ghosts
<1>2. ASSUME NEW c \in Callers, RecordLock(c) PROVE Kept'
  BY <1>2, OneRecord DEF RecordLock, InRecord, ghosts
<1>3. ASSUME NEW c \in Callers, RecordLoad(c) PROVE Kept'
  BY <1>3 DEF RecordLoad, loadSnapshots, OneReliableStore, ghosts
<1>4. ASSUME NEW c \in Callers, RecordOpen(c) PROVE Kept'
  <2>1. \A d \in Callers : d # c => ~InRecord(d)
    BY <1>4, OneRecord DEF RecordOpen, InRecord
  <2>2. buf'[c] = {s \in file.snaps : Recent(s)} \cup {new[c]}
    BY <1>4 DEF RecordOpen, Pruned
  <2>3. {s \in saved : Recent(s)} \subseteq file.snaps
    BY <1>4, <2>1 DEF RecordOpen, InRecord
  <2>4. QED
    BY <1>4, <2>1, <2>2, <2>3 DEF RecordOpen, Emptied, InRecord, ghosts
<1>5. ASSUME NEW c \in Callers, RecordOpenFails(c) PROVE Kept'
  BY <1>5, OneRecord DEF RecordOpenFails, Return, InRecord, ghosts
<1>6. ASSUME NEW c \in Callers, RecordWrite(c) PROVE Kept'
  <2>1. \A d \in Callers : d # c => ~InRecord(d)
    BY <1>6, OneRecord DEF RecordWrite, InRecord
  <2>2. file' = Json(buf[c])
    <3>1. file = Emptied /\ c \notin orphan
      BY <1>6 DEF RecordWrite
    <3>2. Overlay(buf[c]) = {Json(buf[c])}
      BY <3>1 DEF Overlay, Emptied
    <3>3. QED
      BY <1>6, <3>1, <3>2 DEF RecordWrite
  <2>3. QED
    BY <1>6, <2>1, <2>2 DEF RecordWrite, Return, Json, InRecord
<1>7. ASSUME NEW c \in Callers,
             RecordWriteFails(c) \/ GetSummaryFails(c)
      PROVE  Kept'
  BY <1>7 DEF RecordWriteFails, GetSummaryFails, OneReliableStore
<1>8. ASSUME NEW c \in Callers, GetSummary(c) \/ ClearFails(c) PROVE Kept'
  BY <1>8, OneRecord DEF GetSummary, ClearFails, Return, InRecord, ghosts
<1>9. ASSUME NEW c \in Callers, Clear(c) PROVE Kept'
  BY <1>9, OneRecord DEF Clear, Return, Absent, InRecord
<1>10. ASSUME NEW s \in Stores, Crash(s) PROVE Kept'
  BY <1>10 DEF Crash, OneReliableStore
<1>11. CASE Tick
  <2>1. UNCHANGED <<file, locked, pc, new, buf, orphan, saved, stale>>
    BY <1>11 DEF Tick, ghosts
  <2>2. \A s \in saved : s.at > now' - Retention => s.at > now - Retention
    <3>1. \A s \in saved : s.at \in Int
      BY DEF Snapshot
    <3>2. now' = now + 1 /\ now \in Int /\ Retention \in Int
      BY <1>11 DEF Tick
    <3>3. QED
      BY <3>1, <3>2
  <2>3. {s \in saved' : s.at > now' - Retention}
          \subseteq {s \in saved : s.at > now - Retention}
    BY <2>1, <2>2
  <2>4. QED
    BY <2>1, <2>3
<1>12. CASE UNCHANGED vars
  BY <1>12 DEF vars, ghosts
<1>13. QED
  BY <1>1, <1>2, <1>3, <1>4, <1>5, <1>6, <1>7, <1>8, <1>9, <1>10, <1>11,
     <1>12 DEF Next, LockStep, RecordStep

(* The invariant of one reliable Store.                                    *)
THEOREM KeptCorrect ==
  ASSUME OneReliableStore
  PROVE  Spec => [](Inv /\ Kept)
<1>1. Init => Kept
  BY DEF Init, Kept, Absent
<1>2. Inv /\ Kept /\ [Next]_vars => Kept'
  BY KeptStep DEF Inv
<1>3. QED
  BY InvCorrect, <1>1, <1>2, PTL DEF Spec

(* With one reliable Store, for any number of callers, a snapshot that     *)
(* Record reported as saved stays in the file for the whole retention      *)
(* unless it is cleared.                                                   *)
THEOREM SavedAreKept ==
  ASSUME OneReliableStore
  PROVE  Spec => []SavedSnapshotsKept
<1>1. Kept => SavedSnapshotsKept
  BY DEF Kept, SavedSnapshotsKept
<1>2. QED
  BY KeptCorrect, <1>1, PTL

(* With one reliable Store, what Clear removed never comes back.           *)
THEOREM ClearedAreGone ==
  ASSUME OneReliableStore
  PROVE  Spec => []ClearedStaysCleared
<1>1. Inv /\ Kept => ClearedStaysCleared
  BY DEF Inv, Carried, Kept, ClearedStaysCleared
<1>2. QED
  BY KeptCorrect, <1>1, PTL

-----------------------------------------------------------------------------
(* What the history is, in the terms of AbstractHistory.                   *)
(* It is the writer's text while there is a writer, the file otherwise.    *)
ContentsDef ==
  /\ \A c \in Callers : pc[c] = "write" => Contents = buf[c]
  /\ (\A c \in Callers : pc[c] # "write") => Contents = file.snaps

(* There is at most one writer to choose from, now and after the step.     *)
LEMMA ContentsNow == OneReliableStore /\ Mutex => ContentsDef
<1> SUFFICES ASSUME OneReliableStore, Mutex PROVE ContentsDef
  OBVIOUS
<1>1. ASSUME NEW c \in Callers, pc[c] = "write"
      PROVE  c = CHOOSE d \in Callers : pc[d] = "write"
  BY <1>1 DEF OneReliableStore, Mutex, InRecord
<1>2. QED
  BY <1>1 DEF ContentsDef, Contents

(* The same of the next state.                                             *)
LEMMA ContentsNext == OneReliableStore /\ Mutex' => ContentsDef'
<1>1. (OneReliableStore /\ Mutex => ContentsDef)'
  BY ContentsNow, PTL
<1>2. QED
  BY <1>1 DEF OneReliableStore

(* Each step is a step of AbstractHistory or leaves its variables alone:   *)
(* Record appends when it opens the file, GetSummary and Clear act when    *)
(* they have the mutex.                                                    *)
LEMMA RefineStep ==
  ASSUME OneReliableStore
  PROVE  Inv /\ Kept /\ [Next]_vars => [Abstract!Next]_(Abstract!vars)
<1> SUFFICES ASSUME Inv, Kept, [Next]_vars
             PROVE  Abstract!Next \/ UNCHANGED Abstract!vars
  BY DEF Abstract!Next, Abstract!vars
<1> Inv'
  BY InvStep
<1> USE HistoryAssumption DEF TypeOK
<1> ContentsDef /\ ContentsDef' /\ TypeOK /\ TypeOK' /\ Mutex /\ Fresh
  BY ContentsNow, ContentsNext DEF Inv
<1>1. ASSUME NEW c \in Callers,
             CallRecord(c) \/ CallQuery(c) \/ RecordLock(c) \/ RecordLoad(c)
      PROVE  UNCHANGED Abstract!vars
  <2>1. \A d \in Callers : (pc'[d] = "write") = (pc[d] = "write")
    BY <1>1 DEF CallRecord, CallQuery, RecordLock, RecordLoad
  <2>2. /\ UNCHANGED <<file, view, now>>
        /\ \A d \in Callers : pc[d] = "write" => buf'[d] = buf[d]
    BY <1>1 DEF CallRecord, CallQuery, RecordLock, RecordLoad, ghosts
  <2>3. Contents' = Contents
    BY <2>1, <2>2 DEF ContentsDef
  <2>4. QED
    BY <2>2, <2>3 DEF Abstract!vars
<1>2. ASSUME NEW c \in Callers, RecordOpen(c) PROVE Abstract!Next
  <2>1. \A d \in Callers : pc[d] # "write"
    BY <1>2, OneRecord DEF RecordOpen, InRecord
  <2>2. Contents = file.snaps /\ Contents' = buf'[c]
    BY <1>2, <2>1 DEF ContentsDef, RecordOpen
  <2>3. buf'[c] = {s \in file.snaps : s.at > now - Retention} \cup {new[c]}
    BY <1>2 DEF Kept, RecordOpen, Pruned, Recent
  <2>4. new[c] \notin file.snaps /\ new[c].at <= now /\ new[c] \in Snapshot
    BY <1>2 DEF Kept, Fresh, Pending, InRecord, RecordOpen
  <2>5. Abstract!Append(new[c])
    BY <1>2, <2>2, <2>3, <2>4 DEF Abstract!Append, RecordOpen
  <2>6. QED
    BY <2>4, <2>5 DEF Abstract!Next
<1>3. ASSUME NEW c \in Callers, RecordOpenFails(c)
      PROVE  UNCHANGED Abstract!vars
  <2>1. \A d \in Callers : pc[d] # "write" /\ pc'[d] # "write"
    BY <1>3, OneRecord DEF RecordOpenFails, Return, InRecord
  <2>2. QED
    BY <1>3, <2>1 DEF ContentsDef, RecordOpenFails, Abstract!vars
<1>4. ASSUME NEW c \in Callers, RecordWrite(c) PROVE UNCHANGED Abstract!vars
  <2>1. \A d \in Callers : pc'[d] # "write"
    BY <1>4, OneRecord DEF RecordWrite, Return, InRecord
  <2>2. file' = Json(buf[c])
    BY <1>4 DEF RecordWrite, Kept, Overlay, Emptied
  <2>3. Contents = buf[c] /\ Contents' = buf[c]
    BY <1>4, <2>1, <2>2 DEF ContentsDef, RecordWrite, Json
  <2>4. QED
    BY <1>4, <2>3 DEF RecordWrite, Abstract!vars
<1>5. ASSUME NEW c \in Callers, GetSummary(c) PROVE Abstract!Next
  <2>1. \A d \in Callers : pc[d] # "write" /\ pc'[d] # "write"
    BY <1>5, OneRecord DEF GetSummary, Return, InRecord
  <2>2. Abstract!Read(c)
    BY <1>5, <2>1 DEF ContentsDef, GetSummary, loadSnapshots, Abstract!Read
  <2>3. QED
    BY <2>2 DEF Abstract!Next
<1>6. ASSUME NEW c \in Callers, Clear(c) PROVE Abstract!Next
  <2>1. \A d \in Callers : pc'[d] # "write"
    BY <1>6, OneRecord DEF Clear, Return, InRecord
  <2>2. Abstract!Purge
    BY <1>6, <2>1 DEF ContentsDef, Clear, Absent, Abstract!Purge
  <2>3. QED
    BY <2>2 DEF Abstract!Next
<1>7. ASSUME NEW c \in Callers, ClearFails(c) PROVE UNCHANGED Abstract!vars
  <2>1. \A d \in Callers : pc[d] # "write" /\ pc'[d] # "write"
    BY <1>7, OneRecord DEF ClearFails, Return, InRecord
  <2>2. QED
    BY <1>7, <2>1 DEF ContentsDef, ClearFails, Abstract!vars
<1>8. ASSUME NEW c \in Callers, RecordWriteFails(c) \/ GetSummaryFails(c)
      PROVE  FALSE
  BY <1>8 DEF RecordWriteFails, GetSummaryFails, OneReliableStore
<1>9. ASSUME NEW s \in Stores, Crash(s) PROVE FALSE
  BY <1>9 DEF Crash, OneReliableStore
<1>10. CASE Tick
  <2>1. UNCHANGED <<file, pc, buf, view>> /\ now < MaxTime /\ now' = now + 1
    BY <1>10 DEF Tick
  <2>2. Contents' = Contents
    BY <2>1 DEF Contents
  <2>3. QED
    BY <2>1, <2>2 DEF Abstract!Tick, Abstract!Next
<1>11. CASE UNCHANGED vars
  BY <1>11 DEF vars, Abstract!vars, Contents
<1>12. QED
  BY <1>1, <1>2, <1>3, <1>4, <1>5, <1>6, <1>7, <1>8, <1>9, <1>10, <1>11
  DEF Next, LockStep, RecordStep

(* With one reliable Store, Record, GetSummary and Clear are atomic: the   *)
(* store implements AbstractHistory, for any number of callers.            *)
THEOREM StoreIsAtomic ==
  ASSUME OneReliableStore
  PROVE  Spec => AbstractSpec
<1>1. Init => Abstract!Init
  BY DEF Init, Abstract!Init, Contents, Absent
<1>2. QED
  BY KeptCorrect, <1>1, RefineStep, PTL DEF Spec, AbstractSpec, Abstract!Spec

-----------------------------------------------------------------------------
(* Truncating takes off less than an hour.                                 *)
LEMMA TruncateBounds ==
  ASSUME NEW t \in Int
  PROVE  /\ Truncate(t) \in Int
         /\ t - Hour < Truncate(t)
         /\ Truncate(t) <= t
<1>1. Hour \in Nat \ {0}
  BY SummaryAssumption
<1>2. t % Hour \in 0..(Hour - 1)
  BY <1>1
<1>3. QED
  BY <1>1, <1>2 DEF Truncate

(* hours returns a positive number.                                        *)
LEMMA HoursType ==
  ASSUME NEW w \in Windows
  PROVE  hours(w) \in Nat \ {0}
  BY SummaryAssumption DEF hours

(* What is in a bucket is younger than the beginning of the window.        *)
LEMMA BucketIsRecent ==
  ASSUME TypeOK, NEW h \in Nat \ {0}, NEW k \in hourKeys(h),
         NEW s \in Snapshot, Truncate(s.at) = k
  PROVE  s.at > since(h)
<1>1. PICK i \in 0..(h - 1) : k = Truncate(now - i * Hour)
  BY DEF hourKeys
<1>2. Hour \in Nat \ {0} /\ now \in Nat /\ s.at \in Nat
  BY SummaryAssumption DEF TypeOK, Snapshot
<1>3. i * Hour \in Nat /\ h * Hour \in Nat /\ i * Hour + Hour <= h * Hour
  <2>1. i + 1 <= h /\ i \in Nat
    OBVIOUS
  <2>2. (i + 1) * Hour <= h * Hour
    BY <1>2, <2>1
  <2>3. (i + 1) * Hour = i * Hour + Hour
    BY <1>2, <2>1
  <2>4. QED
    BY <1>2, <2>1, <2>2, <2>3
<1>4. k > now - i * Hour - Hour
  BY <1>1, <1>2, <1>3, TruncateBounds
<1>5. s.at >= k /\ k \in Int
  BY <1>2, TruncateBounds
<1>6. QED
  BY <1>2, <1>3, <1>4, <1>5 DEF since

(* Within the retention, the file and all that was saved give the same     *)
(* buckets.                                                                *)
LEMMA SameBuckets ==
  ASSUME TypeOK, NEW h \in Nat \ {0}, h * Hour <= Retention,
         NEW k \in hourKeys(h),
         file.snaps \subseteq saved,
         {s \in saved : Recent(s)} \subseteq file.snaps
  PROVE  Bucket(file.snaps, h, k) = Bucket(saved, h, k)
<1>1. \A s \in saved : Truncate(s.at) = k => Recent(s)
  <2> SUFFICES ASSUME NEW s \in saved, Truncate(s.at) = k
               PROVE  s.at > now - Retention
    BY DEF Recent
  <2>1. s.at > since(h)
    BY BucketIsRecent DEF TypeOK
  <2>2. /\ now \in Int /\ s.at \in Int /\ Retention \in Int
        /\ h * Hour \in Int
    BY HistoryAssumption, SummaryAssumption DEF TypeOK, Snapshot
  <2>3. QED
    BY <2>1, <2>2 DEF since
<1>2. QED
  BY <1>1 DEF Bucket, Relevant

(* With one reliable Store, for any number of callers, snapshots and hours *)
(* within the retention, the summary is that of everything saved and not   *)
(* cleared.                                                                *)
THEOREM SummaryIsOfAllSaved ==
  ASSUME OneReliableStore
  PROVE  Spec => []PruningIsInvisible
<1>1. Inv /\ Kept => PruningIsInvisible
  <2> SUFFICES ASSUME Inv, Kept, Asking, NEW w \in Windows,
                      hours(w) * Hour <= Retention,
                      NEW field \in {"reports", "totalRX", "avgRX", "sumConns"}
               PROVE  Summary(file.snaps, hours(w))[field]
                        = Summary(saved, hours(w))[field]
    BY DEF PruningIsInvisible
  <2> DEFINE h == hours(w)
  <2>1. \A c \in Callers : pc[c] # "write"
    <3>1. PICK c \in Callers : Free(c)
      BY DEF Asking
    <3>2. QED
      BY <3>1, OneRecord DEF Inv, InRecord
  <2>2. \A k \in hourKeys(h) : Bucket(file.snaps, h, k) = Bucket(saved, h, k)
    BY <2>1, SameBuckets, HoursType DEF Inv, Kept
  <2>3. Reports(file.snaps, h) = Reports(saved, h)
    BY <2>2 DEF Reports
  <2>4. QED
    BY <2>3 DEF Summary
<1>2. QED
  BY KeptCorrect, <1>1, PTL

-----------------------------------------------------------------------------
(* A number has one remainder.                                             *)
LEMMA OneRemainder ==
  ASSUME NEW t \in Int, NEW m \in Nat \ {0}, NEW q \in Int,
         NEW r \in 0..(m - 1), t = m * q + r
  PROVE  t % m = r
  OBVIOUS

(* Truncate goes to a multiple of Hour, and shifting by hours commutes     *)
(* with it.                                                                *)
LEMMA TruncateShift ==
  ASSUME NEW t \in Int
  PROVE  /\ t \div Hour \in Int
         /\ \A i \in Int : Truncate(t - i * Hour) = Hour * ((t \div Hour) - i)
<1> DEFINE d == t \div Hour
<1>1. Hour \in Nat \ {0}
  BY SummaryAssumption
<1>2. d \in Int /\ t = Hour * d + (t % Hour) /\ t % Hour \in 0..(Hour - 1)
  BY <1>1
<1> HIDE DEF d
<1>3. ASSUME NEW i \in Int PROVE Truncate(t - i * Hour) = Hour * (d - i)
  <2>1. /\ t - i * Hour \in Int /\ Hour * (d - i) \in Int
        /\ t - i * Hour = Hour * (d - i) + (t % Hour)
    BY <1>1, <1>2
  <2>2. (t - i * Hour) % Hour = t % Hour
    <3> DEFINE u == t - i * Hour
               q == d - i
               r == t % Hour
    <3>1. u \in Int /\ q \in Int /\ r \in 0..(Hour - 1) /\ u = Hour * q + r
      BY <1>2, <2>1
    <3> HIDE DEF u, q, r
    <3>2. u % Hour = r
      BY <1>1, <3>1, OneRemainder
    <3>3. QED
      BY <3>2 DEF u, r
  <2>3. QED
    BY <1>2, <2>1, <2>2 DEF Truncate
<1>4. QED
  BY <1>2, <1>3 DEF d

(* A moment that is past has a bucket unless it is before the first whole  *)
(* hour of the window.                                                     *)
LEMMA BucketExists ==
  ASSUME TypeOK, NEW h \in Nat \ {0}, NEW a \in Nat, a <= now
  PROVE  a >= Truncate(since(h)) + Hour <=> Truncate(a) \in hourKeys(h)
<1> DEFINE n == now \div Hour
           d == a \div Hour
<1>1. Hour \in Nat \ {0} /\ now \in Nat
  BY SummaryAssumption DEF TypeOK
<1>2. d \in Int /\ n \in Int /\ d <= n
  BY <1>1
<1>3. Truncate(a) = Hour * d
  <2>1. a - 0 * Hour = a /\ d - 0 = d
    BY <1>1, <1>2
  <2>2. QED
    BY <2>1, TruncateShift
<1>4. Truncate(a) <= a /\ a - Hour < Truncate(a)
  BY TruncateBounds
<1>5. \A i \in Int : Truncate(now - i * Hour) = Hour * (n - i)
  <2>1. now \in Int
    BY <1>1
  <2>2. QED
    BY <2>1, TruncateShift, Zenon
<1> HIDE DEF n, d
<1>6. Truncate(since(h)) + Hour = Hour * (n - h + 1)
  <2>1. Truncate(since(h)) = Hour * (n - h)
    BY <1>5 DEF since
  <2>2. Hour * (n - h + 1) = Hour * (n - h) + Hour
    BY <1>1, <1>2
  <2>3. QED
    BY <2>1, <2>2
<1>7. ASSUME a >= Hour * (n - h + 1) PROVE Truncate(a) \in hourKeys(h)
  <2>1. Hour * (d + 1) > Hour * (n - h + 1)
    <3>1. Hour * (d + 1) = Hour * d + Hour
      BY <1>1, <1>2
    <3>2. Hour * d \in Int /\ Hour * (n - h + 1) \in Int
      BY <1>1, <1>2
    <3>3. QED
      BY <1>1, <1>3, <1>4, <1>7, <3>1, <3>2
  <2>2. d + 1 > n - h + 1
    BY <1>1, <1>2, <2>1
  <2>3. n - d \in 0..(h - 1) /\ n - (n - d) = d
    BY <1>2, <2>2
  <2>4. QED
    BY <1>3, <1>5, <2>3 DEF hourKeys
<1>8. ASSUME Truncate(a) \in hourKeys(h) PROVE a >= Hour * (n - h + 1)
  <2>1. PICK i \in 0..(h - 1) : Hour * d = Hour * (n - i)
    BY <1>3, <1>5, <1>8 DEF hourKeys
  <2>2. n - i >= n - h + 1 /\ n - i \in Int /\ n - h + 1 \in Int
    BY <1>2
  <2>3. Hour * (n - i) >= Hour * (n - h + 1)
    BY <1>1, <2>2
  <2>4. Hour * (n - i) \in Int /\ Hour * (n - h + 1) \in Int
    BY <1>1, <2>2
  <2>5. QED
    BY <1>3, <1>4, <2>1, <2>3, <2>4
<1>9. QED
  BY <1>6, <1>7, <1>8

(* No snapshot is of the future, in the file or on its way there.          *)
Past ==
  /\ \A s \in file.snaps : s.at <= now
  /\ \A c \in Callers : \A s \in buf[c] : s.at <= now

(* Pruning and appending add nothing but the new snapshot.                 *)
LEMMA PastStep == TypeOK /\ Fresh /\ Past /\ [Next]_vars => Past'
<1> SUFFICES ASSUME TypeOK, Fresh, Past, [Next]_vars PROVE Past'
  OBVIOUS
<1> USE HistoryAssumption DEF TypeOK, Past
<1>1. ASSUME NEW c \in Callers, CallRecord(c) \/ CallQuery(c) \/ RecordLock(c)
      PROVE  Past'
  BY <1>1 DEF CallRecord, CallQuery, RecordLock
<1>2. ASSUME NEW c \in Callers, RecordLoad(c) PROVE Past'
  BY <1>2 DEF RecordLoad, loadSnapshots
<1>3. ASSUME NEW c \in Callers, RecordOpen(c) PROVE Past'
  <2>1. new[c].at <= now
    BY <1>3 DEF RecordOpen, Fresh, Pending, InRecord
  <2>2. QED
    BY <1>3, <2>1 DEF RecordOpen, Pruned, Emptied
<1>4. ASSUME NEW c \in Callers,
             RecordOpenFails(c) \/ RecordWriteFails(c) \/ GetSummary(c)
               \/ GetSummaryFails(c) \/ Clear(c) \/ ClearFails(c)
      PROVE  Past'
  <2>1. file' \in {file, Garbled, Absent} /\ now' = now
    BY <1>4 DEF RecordOpenFails, RecordWriteFails, GetSummary,
                GetSummaryFails, Clear, ClearFails
  <2>2. buf' = [buf EXCEPT ![c] = {}]
    BY <1>4 DEF RecordOpenFails, RecordWriteFails, GetSummary,
                GetSummaryFails, Clear, ClearFails, Return
  <2>3. QED
    BY <2>1, <2>2 DEF Garbled, Absent
<1>5. ASSUME NEW c \in Callers, RecordWrite(c) PROVE Past'
  <2>1. file'.snaps \subseteq file.snaps \cup buf[c]
    BY <1>5, OverlayType DEF RecordWrite
  <2>2. QED
    BY <1>5, <2>1 DEF RecordWrite, Return
<1>6. ASSUME NEW s \in Stores, Crash(s) PROVE Past'
  BY <1>6 DEF Crash, Garbled
<1>7. CASE Tick
  <2>1. \A s \in Snapshot : s.at \in Int
    BY DEF Snapshot
  <2>2. QED
    BY <1>7, <2>1 DEF Tick
<1>8. CASE UNCHANGED vars
  BY <1>8 DEF vars
<1>9. QED
  BY <1>1, <1>2, <1>3, <1>4, <1>5, <1>6, <1>7, <1>8
  DEF Next, LockStep, RecordStep

LEMMA InvPast == Spec => [](Inv /\ Past)
<1>1. Init => Past
  BY DEF Init, Past, Absent
<1>2. Inv /\ Past /\ [Next]_vars => Past'
  BY PastStep DEF Inv
<1>3. QED
  BY InvCorrect, <1>1, <1>2, PTL DEF Spec

(* However many runs share the file and whatever fails, a summary counts   *)
(* each snapshot of its whole hours in one bucket, and the others in none. *)
THEOREM BucketsPartition == Spec => []EachInOneBucket
<1>1. Inv /\ Past => EachInOneBucket
  <2> SUFFICES ASSUME Inv, Past, NEW w \in Windows,
                      NEW s \in Relevant(file.snaps, hours(w))
               PROVE  s.at >= Truncate(since(hours(w))) + Hour <=>
                        \E k \in hourKeys(hours(w)) :
                          \A l \in hourKeys(hours(w)) :
                            s \in Bucket(file.snaps, hours(w), l) <=> l = k
    BY DEF EachInOneBucket
  <2>1. s \in Snapshot /\ s.at \in Nat /\ s.at <= now
    BY DEF Relevant, Inv, TypeOK, Past, Snapshot
  <2>2. \A l : s \in Bucket(file.snaps, hours(w), l) <=> l = Truncate(s.at)
    BY DEF Bucket
  <2>3. s.at >= Truncate(since(hours(w))) + Hour
          <=> Truncate(s.at) \in hourKeys(hours(w))
    BY <2>1, BucketExists, HoursType DEF Inv
  <2>4. QED
    BY <2>2, <2>3
<1>2. QED
  BY InvPast, <1>1, PTL

(* There are only so many snapshots.                                       *)
LEMMA FiniteSnapshots == IsFiniteSet(Snapshot)
<1> DEFINE pair == [s \in Snapshot |-> <<s.id, s.at>>]
           Pairs == (1..MaxRecords) \X (0..MaxTime)
<1>1. IsFiniteSet(1..MaxRecords) /\ IsFiniteSet(0..MaxTime)
  BY HistoryAssumption, FS_Interval
<1>2. IsFiniteSet(Pairs)
  BY <1>1, FS_Product
<1>3. pair \in Injection(Snapshot, Pairs)
  <2>1. pair \in [Snapshot -> Pairs]
    BY DEF Snapshot
  <2>2. ASSUME NEW s \in Snapshot, NEW t \in Snapshot, pair[s] = pair[t]
        PROVE  s = t
    BY <2>2 DEF Snapshot
  <2> HIDE DEF pair, Pairs
  <2>3. QED
    BY <2>1, <2>2 DEF Injection, IsInjective
<1> HIDE DEF pair, Pairs
<1>4. QED
  BY <1>2, <1>3, FS_Injection

(* Each key is that of one hour back.                                      *)
LEMMA FiniteHours ==
  ASSUME NEW h \in Nat \ {0}
  PROVE  IsFiniteSet(hourKeys(h))
<1> DEFINE back == [i \in 0..(h - 1) |-> Truncate(now - i * Hour)]
<1>1. IsFiniteSet(0..(h - 1))
  BY FS_Interval
<1>2. back \in Surjection(0..(h - 1), hourKeys(h))
  BY DEF Surjection, hourKeys
<1> HIDE DEF back
<1>3. QED
  BY <1>1, <1>2, FS_Surjection

(* The summary's total over the hours is that over their snapshots, as     *)
(* every snapshot of the whole hours has a bucket, and only one.           *)
THEOREM TotalsAreOfSnapshots == Spec => []TotalsCountOnce
<1>1. Inv /\ Past => TotalsCountOnce
  <2> SUFFICES ASSUME Inv, Past, NEW w \in Windows,
                      NEW h, h = hours(w),
                      NEW S, S = {s \in Relevant(file.snaps, h) :
                                    s.at >= Truncate(since(h)) + Hour}
               PROVE  Summary(file.snaps, h).totalRX = SumRX(S)
    BY DEF TotalsCountOnce
  <2> DEFINE rx == [s \in Snapshot |-> RXBytes[s.id]]
             key == [s \in Snapshot |-> Truncate(s.at)]
             bucket == [k \in hourKeys(h) |-> Bucket(file.snaps, h, k)]
             total == [k \in hourKeys(h) |-> Reports(file.snaps, h)[k].rx]
  <2>1. h \in Nat \ {0} /\ file.snaps \in SUBSET Snapshot
    BY HoursType DEF Inv, TypeOK
  <2>2. \A s \in file.snaps :
          s.at >= Truncate(since(h)) + Hour <=> Truncate(s.at) \in hourKeys(h)
    <3> SUFFICES ASSUME NEW s \in file.snaps
                 PROVE  s.at >= Truncate(since(h)) + Hour
                          <=> Truncate(s.at) \in hourKeys(h)
      OBVIOUS
    <3>1. s.at \in Nat /\ s.at <= now
      BY <2>1 DEF Past, Snapshot
    <3>2. QED
      BY <2>1, <3>1, BucketExists DEF Inv
  <2>3. IsFiniteSet(S) /\ S \in SUBSET Snapshot
    <3>1. S \in SUBSET Snapshot
      BY <2>1 DEF Relevant
    <3>2. QED
      BY <3>1, FiniteSnapshots, FS_Subset
  <2>4. \A s \in S : rx[s] \in Nat /\ key[s] \in hourKeys(h)
    <3>1. \A s \in S : s \in file.snaps /\ s \in Snapshot
      BY <2>1 DEF Relevant
    <3>2. \A s \in S : Truncate(s.at) \in hourKeys(h)
      BY <2>2, <3>1
    <3>3. \A s \in Snapshot : RXBytes[s.id] \in Nat
      BY SummaryAssumption DEF Snapshot
    <3>4. QED
      BY <3>1, <3>2, <3>3
  <2>5. ASSUME NEW k \in hourKeys(h)
        PROVE  /\ bucket[k] = {s \in S : key[s] = k}
               /\ total[k] = SumFunctionOnSet(rx, bucket[k])
    <3>1. PICK B : B = Bucket(file.snaps, h, k)
      OBVIOUS
    <3>2. B = {s \in S : key[s] = k}
      BY <2>1, <2>2, <3>1 DEF Bucket, Relevant
    <3>3. total[k] = SumRX(B)
      BY <3>1 DEF Reports, Report
    <3>4. SumRX(B) = SumFunctionOnSet([s \in B |-> RXBytes[s.id]], B)
      BY DEF SumRX, SumFunction
    <3>5. IsFiniteSet(B) /\ B \in SUBSET Snapshot
      BY <2>3, <3>2, FS_Subset
    <3>6. SumFunctionOnSet([s \in B |-> RXBytes[s.id]], B) = SumFunctionOnSet(rx, B)
      BY <3>5, SumSame
    <3>7. QED
      BY <3>1, <3>2, <3>3, <3>4, <3>6
  <2>6. SumFunctionOnSet(total, hourKeys(h)) = SumFunctionOnSet(rx, S)
    <3>1. IsFiniteSet(hourKeys(h)) /\ IsFiniteSet(S)
      BY <2>1, <2>3, FiniteHours
    <3> HIDE DEF rx, key, bucket, total
    <3>2. QED
      BY <2>4, <2>5, <3>1, SumOfParts
  <2>7. Summary(file.snaps, h).totalRX = SumFunctionOnSet(total, hourKeys(h))
    BY DEF Summary, TotalRX, SumFunction, Reports
  <2>8. SumRX(S) = SumFunctionOnSet(rx, S)
    <3>1. SumRX(S) = SumFunctionOnSet([s \in S |-> RXBytes[s.id]], S)
      BY DEF SumRX, SumFunction
    <3>2. SumFunctionOnSet([s \in S |-> RXBytes[s.id]], S) = SumFunctionOnSet(rx, S)
      BY <2>3, SumSame
    <3>3. QED
      BY <3>1, <3>2
  <2>9. QED
    BY <2>6, <2>7, <2>8
<1>2. QED
  BY InvPast, <1>1, PTL
=============================================================================
