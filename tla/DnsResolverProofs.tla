------------------------- MODULE DnsResolverProofs -------------------------
(***************************************************************************)
(* What holds of DnsResolver for lists of any length, any semaphore and    *)
(* any answers of the DNS.                                                 *)
(***************************************************************************)
EXTENDS DnsResolver, Sums

(* The goroutines at one of the places P.                                  *)
At(P) == {c \in Conns : pc[c] \in P}

Started == Places \ {"none"}

(* The semaphore counts the goroutines between Acquire and Release, the    *)
(* WaitGroup all there are.                                                *)
Counts ==
  /\ sem = Cardinality(At(Holding))
  /\ wg = Cardinality(At(Started))

(* There is a goroutine only during a call, for a connection the loop has  *)
(* passed and that has an address.                                         *)
Spawned ==
  \A c \in Conns : pc[c] # "none" => main = "loop" /\ c < next /\ remote[c] # NoIP

(* The RWMutex is held by the goroutines that are inside, and they exclude *)
(* each other.                                                             *)
Locks ==
  /\ readers = At({"reading"})
  /\ writers = At({"storing"})
  /\ writers # {} => readers = {} /\ \E c \in writers : writers = {c}

(* TypeOK without the counters and the lock, whose types follow from what  *)
(* they count and hold.                                                    *)
Typed ==
  /\ main \in {"idle", "loop"}
  /\ next \in 1..(NConns + 1)
  /\ remote \in [Conns -> IPs \cup {NoIP}]
  /\ host \in [Conns -> Names \cup {NoName}]
  /\ cache \in [IPs -> Names \cup {NoName, Unknown}]
  /\ pc \in [Conns -> Places]
  /\ name \in [Conns -> Names \cup {NoName}]
  /\ known \in [IPs -> Names \cup {NoName, Unknown}]

-----------------------------------------------------------------------------
LEMMA FiniteConns == IsFiniteSet(Conns)
  BY DnsAssumption, FS_Interval DEF Conns

(* One goroutine's move changes the count of a set of places by one, if it *)
(* enters or leaves that set.                                              *)
LEMMA CountMove ==
  ASSUME pc \in [Conns -> Places], NEW c \in Conns, NEW from, NEW to,
         Move(c, from, to), NEW P
  PROVE  /\ IsFiniteSet(At(P)) /\ Cardinality(At(P)) \in Nat
         /\ from \in P /\ to \in P => At(P)' = At(P)
         /\ from \notin P /\ to \notin P => At(P)' = At(P)
         /\ from \notin P /\ to \in P =>
              Cardinality(At(P)') = Cardinality(At(P)) + 1
         /\ from \in P /\ to \notin P =>
              Cardinality(At(P)') = Cardinality(At(P)) - 1 /\ Cardinality(At(P)) > 0
<1>1. IsFiniteSet(Conns)
  BY DnsAssumption, FS_Interval DEF Conns
<1>2. IsFiniteSet(At(P)) /\ Cardinality(At(P)) \in Nat
  BY <1>1, FS_Subset, FS_CardinalityType DEF At
<1>3. (from \in P) = (to \in P) => At(P)' = At(P)
  BY DEF At, Move
<1>4. ASSUME from \notin P, to \in P
      PROVE  Cardinality(At(P)') = Cardinality(At(P)) + 1
  <2>1. At(P)' = At(P) \cup {c} /\ c \notin At(P)
    BY <1>4 DEF At, Move
  <2>2. QED
    BY <1>2, <2>1, FS_AddElement
<1>5. ASSUME from \in P, to \notin P
      PROVE  Cardinality(At(P)') = Cardinality(At(P)) - 1 /\ Cardinality(At(P)) > 0
  <2>1. At(P)' = At(P) \ {c} /\ c \in At(P)
    BY <1>5 DEF At, Move
  <2>2. Cardinality(At(P)') = Cardinality(At(P)) - 1
    BY <1>2, <2>1, FS_RemoveElement
  <2>3. Cardinality(At(P)) # 0
    BY <1>2, <2>1, FS_EmptySet
  <2>4. QED
    BY <1>2, <2>2, <2>3
<1>6. QED
  BY <1>2, <1>3, <1>4, <1>5

(* Init is of the right type.                                              *)
LEMMA TypedInit == Init => Typed
  BY DnsAssumption DEF Init, Typed, Conns, Places

(* One step per action.                                                    *)
LEMMA TypedStep == Typed /\ Spawned /\ [Next]_vars => Typed'
<1> SUFFICES ASSUME Typed, Spawned, [Next]_vars PROVE Typed'
  OBVIOUS
<1> USE DnsAssumption DEF Typed, Move, Places, Holding
<1>1. CASE Call
  BY <1>1 DEF Call
<1>2. CASE Spawn
  BY <1>2 DEF Spawn, Conns
<1>3. CASE Wait
  BY <1>3 DEF Wait
<1>4. ASSUME NEW c \in Conns, SkipSpecial(c) PROVE Typed'
  BY <1>4 DEF SkipSpecial
<1>5. ASSUME NEW c \in Conns, ReadCache(c) PROVE Typed'
  <2>1. remote[c] \in IPs
    BY <1>5 DEF Spawned, ReadCache
  <2>2. QED
    BY <1>5, <2>1 DEF ReadCache
<1>6. ASSUME NEW c \in Conns, Lookup(c) PROVE Typed'
  <2>1. remote[c] \in IPs
    BY <1>6 DEF Spawned, Lookup
  <2>2. PTR[remote[c]] \subseteq Names
    BY <2>1 DEF Names
  <2>3. QED
    BY <1>6, <2>2 DEF Lookup
<1>7. ASSUME NEW c \in Conns, Store(c) PROVE Typed'
  BY <1>7 DEF Store
<1>8. ASSUME NEW c \in Conns, Assign(c) PROVE Typed'
  BY <1>8 DEF Assign
<1>9. ASSUME NEW c \in Conns, Release(c) \/ Done(c) PROVE Typed'
  BY <1>9 DEF Release, Done
<1>10. ASSUME NEW c \in Conns, Contend(c) PROVE Typed'
  BY <1>10 DEF Contend, Acquire, RLock, Lock
<1>11. CASE UNCHANGED vars
  BY <1>11 DEF vars
<1>12. QED
  BY <1>1, <1>2, <1>3, <1>4, <1>5, <1>6, <1>7, <1>8, <1>9, <1>10, <1>11
  DEF Next, Run

(* The loop starts a goroutine where it stands; the call ends when there   *)
(* is none left.                                                           *)
LEMMA SpawnedStep == Typed /\ Counts /\ Spawned /\ [Next]_vars => Spawned'
<1> SUFFICES ASSUME Typed, Counts, Spawned, [Next]_vars PROVE Spawned'
  OBVIOUS
<1> USE DnsAssumption DEF Spawned, Typed, Move
<1>1. CASE Call
  BY <1>1 DEF Call
<1>2. CASE Spawn
  BY <1>2 DEF Spawn, Conns
<1>3. CASE Wait
  <2>1. IsFiniteSet(Conns)
    BY FS_Interval DEF Conns
  <2>2. IsFiniteSet(At(Started))
    BY <2>1, FS_Subset DEF At
  <2>3. At(Started) = {}
    BY <1>3, <2>2, FS_EmptySet DEF Wait, Counts
  <2>4. \A c \in Conns : pc[c] = "none"
    BY <2>3 DEF At, Started
  <2>5. QED
    BY <1>3, <2>4 DEF Wait
<1>4. ASSUME NEW c \in Conns, Run(c) \/ Contend(c) PROVE Spawned'
  <2>1. pc[c] # "none" /\ \E to \in Places : pc' = [pc EXCEPT ![c] = to]
    BY <1>4 DEF Run, Contend, SkipSpecial, ReadCache, Lookup, Store, Assign,
                Release, Done, Acquire, RLock, Lock, Places, Holding
  <2>2. UNCHANGED <<main, next, remote>>
    BY <1>4 DEF Run, Contend, SkipSpecial, ReadCache, Lookup, Store, Assign,
                Release, Done, Acquire, RLock, Lock
  <2>3. QED
    BY <2>1, <2>2
<1>5. CASE UNCHANGED vars
  BY <1>5 DEF vars
<1>6. QED
  BY <1>1, <1>2, <1>3, <1>4, <1>5 DEF Next

(* Both counters follow the goroutines: every place is entered with the    *)
(* token or the count taken, and left with it returned.                    *)
LEMMA CountsStep == Typed /\ Counts /\ Spawned /\ [Next]_vars => Counts'
<1> SUFFICES ASSUME Typed, Counts, Spawned, [Next]_vars PROVE Counts'
  OBVIOUS
<1> USE DnsAssumption DEF Typed, Counts
<1> "none" \notin Holding /\ "queued" \notin Holding /\ "done" \notin Holding
  BY DEF Holding
<1> "none" \notin Started /\ Started = Holding \cup {"queued", "done"}
  BY DEF Started, Places, Holding
<1>1. CASE Call \/ Wait \/ UNCHANGED vars
  BY <1>1 DEF Call, Wait, vars, At
<1>2. CASE Spawn
  <2>1. CASE UNCHANGED <<pc, wg>>
    BY <1>2, <2>1 DEF Spawn, At
  <2>2. CASE Move(next, "none", "queued") /\ wg' = wg + 1
    <3>1. next \in Conns
      BY <1>2 DEF Spawn, Conns
    <3>2. At(Holding)' = At(Holding)
      BY <2>2, <3>1, CountMove
    <3>3. Cardinality(At(Started)') = Cardinality(At(Started)) + 1
      BY <2>2, <3>1, CountMove
    <3>4. QED
      BY <1>2, <2>2, <3>2, <3>3 DEF Spawn
  <2>3. QED
    BY <1>2, <2>1, <2>2 DEF Spawn
<1>3. ASSUME NEW c \in Conns, Acquire(c) PROVE Counts'
  <2>1. Cardinality(At(Holding)') = Cardinality(At(Holding)) + 1
    BY <1>3, CountMove DEF Acquire, Holding
  <2>2. At(Started)' = At(Started)
    BY <1>3, CountMove DEF Acquire, Holding
  <2>3. QED
    BY <1>3, <2>1, <2>2 DEF Acquire
<1>4. ASSUME NEW c \in Conns, NEW from \in Holding, NEW to \in Holding,
             Move(c, from, to), UNCHANGED <<sem, wg>>
      PROVE  Counts'
  <2>1. At(Holding)' = At(Holding)
    BY <1>4, CountMove
  <2>2. At(Started)' = At(Started)
    <3>1. from \in Started /\ to \in Started
      BY <1>4
    <3>2. QED
      BY <1>4, <3>1, CountMove
  <2>3. QED
    BY <1>4, <2>1, <2>2
<1>5. ASSUME NEW c \in Conns, Release(c) PROVE Counts'
  <2>1. Cardinality(At(Holding)') = Cardinality(At(Holding)) - 1
    BY <1>5, CountMove DEF Release, Holding
  <2>2. At(Started)' = At(Started)
    BY <1>5, CountMove DEF Release, Holding
  <2>3. QED
    BY <1>5, <2>1, <2>2 DEF Release
<1>6. ASSUME NEW c \in Conns, Done(c) PROVE Counts'
  <2>1. At(Holding)' = At(Holding)
    BY <1>6, CountMove DEF Done
  <2>2. Cardinality(At(Started)') = Cardinality(At(Started)) - 1
    BY <1>6, CountMove DEF Done
  <2>3. QED
    BY <1>6, <2>1, <2>2 DEF Done
<1>7. ASSUME NEW c \in Conns,
             SkipSpecial(c) \/ ReadCache(c) \/ Lookup(c) \/ Store(c)
               \/ Assign(c) \/ RLock(c) \/ Lock(c)
      PROVE  Counts'
  <2>1. \E from, to \in Holding : Move(c, from, to)
    BY <1>7 DEF SkipSpecial, ReadCache, Lookup, Store, Assign, RLock, Lock,
                Holding
  <2>2. UNCHANGED <<sem, wg>>
    BY <1>7 DEF SkipSpecial, ReadCache, Lookup, Store, Assign, RLock, Lock
  <2>3. QED
    BY <2>1, <2>2, <1>4
<1>8. QED
  BY <1>1, <1>2, <1>3, <1>5, <1>6, <1>7 DEF Next, Run, Contend

(* RLock and Lock wait for each other; what they take is given back where  *)
(* the goroutine leaves.                                                   *)
LEMMA LocksStep == Typed /\ Locks /\ [Next]_vars => Locks'
<1> SUFFICES ASSUME Typed, Locks, [Next]_vars PROVE Locks'
  OBVIOUS
<1> USE DEF Typed, Locks, At, Move
<1>1. CASE Call \/ Wait \/ UNCHANGED vars
  BY <1>1 DEF Call, Wait, vars
<1>2. CASE Spawn
  BY <1>2 DEF Spawn
<1>3. ASSUME NEW c \in Conns,
             SkipSpecial(c) \/ Lookup(c) \/ Assign(c) \/ Release(c)
               \/ Done(c) \/ Acquire(c)
      PROVE  Locks'
  <2>1. \A P \in {{"reading"}, {"storing"}} : At(P)' = At(P)
    BY <1>3 DEF SkipSpecial, Lookup, Assign, Release, Done, Acquire
  <2>2. UNCHANGED <<readers, writers>>
    BY <1>3 DEF SkipSpecial, Lookup, Assign, Release, Done, Acquire
  <2>3. QED
    BY <2>1, <2>2
<1>4. ASSUME NEW c \in Conns, RLock(c) PROVE Locks'
  BY <1>4 DEF RLock
<1>5. ASSUME NEW c \in Conns, ReadCache(c) PROVE Locks'
  BY <1>5 DEF ReadCache
<1>6. ASSUME NEW c \in Conns, Lock(c) PROVE Locks'
  BY <1>6 DEF Lock
<1>7. ASSUME NEW c \in Conns, Store(c) PROVE Locks'
  BY <1>7 DEF Store
<1>8. QED
  BY <1>1, <1>2, <1>3, <1>4, <1>5, <1>6, <1>7 DEF Next, Run, Contend

(* Acquire keeps the semaphore within its capacity.                        *)
LEMMA SemStep ==
  Typed /\ Counts /\ sem <= MaxLookups /\ [Next]_vars => sem' <= MaxLookups
<1> SUFFICES ASSUME Typed, Counts, sem <= MaxLookups, [Next]_vars
             PROVE  sem' <= MaxLookups
  OBVIOUS
<1>1. sem \in Nat
  <2>1. IsFiniteSet(Conns)
    BY DnsAssumption, FS_Interval DEF Conns
  <2>2. QED
    BY <2>1, FS_Subset, FS_CardinalityType DEF Counts, At
<1>2. sem' \in {sem, sem - 1} \/ (sem < MaxLookups /\ sem' = sem + 1)
  BY DEF Next, vars, Call, Spawn, Wait, Run, Contend, SkipSpecial, ReadCache,
         Lookup, Store, Assign, Release, Done, Acquire, RLock, Lock
<1>3. QED
  BY <1>1, <1>2, DnsAssumption

Shape == Typed /\ Counts /\ Spawned /\ Locks /\ sem <= MaxLookups

(* The structural invariant: types, counters, lock and semaphore agree     *)
(* with where the goroutines stand.                                        *)
THEOREM ShapeCorrect == Spec => []Shape
<1>1. Init => Shape
  <2>1. ASSUME Init, NEW P \in SUBSET Started PROVE At(P) = {}
    <3>1. \A c \in Conns : pc[c] = "none"
      BY <2>1 DEF Init
    <3>2. "none" \notin P
      BY <2>1 DEF Started
    <3>3. QED
      BY <3>1, <3>2 DEF At
  <2>2. Holding \subseteq Started /\ {"reading"} \subseteq Started
          /\ {"storing"} \subseteq Started
    BY DEF Started, Places, Holding
  <2>3. ASSUME Init PROVE Counts /\ Locks
    <3>1. /\ At(Holding) = {} /\ At(Started) = {}
          /\ At({"reading"}) = {} /\ At({"storing"}) = {}
      BY <2>1, <2>2, <2>3
    <3>2. QED
      BY <2>3, <3>1, FS_EmptySet DEF Init, Counts, Locks
  <2>4. QED
    BY <2>3, TypedInit, DnsAssumption DEF Init, Shape, Spawned
<1>2. Shape /\ [Next]_vars => Shape'
  BY TypedStep, CountsStep, SpawnedStep, LocksStep, SemStep DEF Shape
<1>3. QED
  BY <1>1, <1>2, PTL DEF Spec

(* Type correctness, the bounds of the two counters among it.              *)
THEOREM TypeCorrect == Spec => []TypeOK
<1>1. Shape => TypeOK
  <2>1. ASSUME Shape PROVE sem \in Nat /\ wg \in Nat
    <3>1. IsFiniteSet(Conns)
      BY DnsAssumption, FS_Interval DEF Conns
    <3>2. QED
      BY <2>1, <3>1, FS_Subset, FS_CardinalityType DEF Shape, Counts, At
  <2>2. QED
    BY <2>1, DnsAssumption DEF Shape, Typed, Locks, At, TypeOK
<1>2. QED
  BY ShapeCorrect, <1>1, PTL

(* The semaphore bounds the lookups in flight, however long the list.      *)
THEOREM LookupsAreBounded == Spec => []LookupsBounded
<1>1. Shape => LookupsBounded
  <2> SUFFICES ASSUME Shape PROVE LookupsBounded
    OBVIOUS
  <2>1. IsFiniteSet(Conns)
    BY DnsAssumption, FS_Interval DEF Conns
  <2>2. IsFiniteSet(At(Holding))
    BY <2>1, FS_Subset DEF At
  <2>3. {c \in Conns : pc[c] = "lookup"} \subseteq At(Holding)
    BY DEF At, Holding
  <2>4. Cardinality({c \in Conns : pc[c] = "lookup"}) <= Cardinality(At(Holding))
    BY <2>2, <2>3, FS_Subset
  <2>5. Cardinality({c \in Conns : pc[c] = "lookup"}) \in Nat /\ sem \in Nat
    BY <2>2, <2>3, FS_Subset, FS_CardinalityType DEF Shape, Counts
  <2>6. QED
    BY <2>4, <2>5, DnsAssumption DEF Shape, Counts, LookupsBounded
<1>2. QED
  BY ShapeCorrect, <1>1, PTL

(* The lock keeps readers and writers of the cache map apart.              *)
THEOREM MapIsGuarded == Spec => []NoConcurrentMapAccess
<1>1. Shape => NoConcurrentMapAccess
  BY DEF Shape, Locks, At, NoConcurrentMapAccess
<1>2. QED
  BY ShapeCorrect, <1>1, PTL

-----------------------------------------------------------------------------
(* The goroutine for c has its result, or needs none: it is in name[c]     *)
(* until it is assigned.                                                   *)
Past(c) == c < next /\ pc[c] \in {"none", "assign", "release", "done"}
Result(c) == IF pc[c] = "assign" THEN name[c] ELSE host[c]

Outcomes(ip) == PTR[ip] \cup {NoName}

(* The cache holds outcomes, keeps those it had when the call began, and   *)
(* never one for a special address.                                        *)
Caching ==
  \A ip \in IPs :
    /\ cache[ip] \in Outcomes(ip) \cup {Unknown}
    /\ known[ip] \in Outcomes(ip) \cup {Unknown}
    /\ known[ip] # Unknown => cache[ip] = known[ip]
    /\ ip \in Special => cache[ip] = Unknown

(* Only addresses that need it are read from the cache, and only those     *)
(* that were not in it are looked up.                                      *)
Looking ==
  \A c \in Conns :
    /\ pc[c] \in {"reading", "lookup", "answered", "storing"} =>
         remote[c] \notin Special
    /\ pc[c] \in {"lookup", "answered", "storing"} => known[remote[c]] = Unknown
    /\ pc[c] \in {"answered", "storing"} => name[c] \in Outcomes(remote[c])

(* The results that are there are right; where there is none yet, there is *)
(* no name.                                                                *)
Results ==
  main = "loop" => \A c \in Conns :
    /\ c >= next => host[c] = NoName
    /\ Past(c) =>
         IF remote[c] \in {NoIP} \cup Special THEN Result(c) = NoName
         ELSE /\ Result(c) \in Outcomes(remote[c])
              /\ known[remote[c]] # Unknown => Result(c) = known[remote[c]]

(* What the call has added to the cache is the result of a connection to   *)
(* that address; nothing is missing once a connection has its result.      *)
Learning ==
  main = "loop" => \A ip \in IPs \ Special : known[ip] = Unknown =>
    IF cache[ip] = Unknown
    THEN \A c \in Conns : remote[c] = ip => ~Past(c)
    ELSE \E c \in Conns : remote[c] = ip /\ Past(c) /\ Result(c) = cache[ip]

Data == Caching /\ Looking /\ Results /\ Learning

(* One step per action.                                                    *)
LEMMA DataStep == Shape /\ Data /\ [Next]_vars => Data'
<1> SUFFICES ASSUME Shape, Data, [Next]_vars PROVE Data'
  OBVIOUS
<1> USE DnsAssumption DEF Shape, Typed, Data, Move
<1>a. \A c \in Conns : pc[c] # "none" => main = "loop" /\ c < next /\ remote[c] \in IPs
  BY DEF Spawned
<1>b. next \in Int /\ \A c \in Conns : c \in Int
  BY DEF Conns
<1>1. CASE Call
  BY <1>1, <1>a, <1>b DEF Call, Caching, Looking, Results, Learning, Past, Conns
<1>2. CASE Spawn
  <2>1. next \in Conns /\ pc[next] = "none" /\ host[next] = NoName
    BY <1>2, <1>a, <1>b DEF Spawn, Conns, Results
  <2>2. /\ UNCHANGED <<remote, host, cache, name, known>>
        /\ main = "loop" /\ main' = "loop" /\ next' = next + 1
    BY <1>2 DEF Spawn
  <2>3. CASE remote[next] = NoIP
    <3>1. UNCHANGED pc
      BY <1>2, <2>3 DEF Spawn
    <3>2. \A c \in Conns : Past(c)' <=> (Past(c) \/ c = next)
      BY <2>1, <2>2, <3>1, <1>b DEF Past
    <3>3. Caching' /\ Looking'
      BY <2>2, <3>1 DEF Caching, Looking
    <3>4. \A c \in Conns : Result(c)' = Result(c)
      BY <2>2, <3>1 DEF Result
    <3>5. Results'
      BY <2>1, <2>2, <2>3, <3>2, <3>4, <1>b DEF Results, Result
    <3>6. Learning'
      BY <2>2, <2>3, <3>2, <3>4 DEF Learning
    <3>7. QED
      BY <3>3, <3>5, <3>6
  <2>4. CASE remote[next] # NoIP
    <3>1. pc' = [pc EXCEPT ![next] = "queued"]
      BY <1>2, <2>1, <2>4 DEF Spawn
    <3>2. \A c \in Conns : Past(c)' <=> Past(c)
      BY <2>1, <2>2, <3>1, <1>b DEF Past
    <3>3. \A c \in Conns : Result(c)' = Result(c)
      BY <2>1, <2>2, <3>1 DEF Result
    <3>4. QED
      BY <2>1, <2>2, <3>1, <3>2, <3>3, <1>b
      DEF Caching, Looking, Results, Learning
  <2>5. QED
    BY <2>3, <2>4
<1>3. CASE Wait
  BY <1>3 DEF Wait, Caching, Looking, Results, Learning
<1>4. ASSUME NEW c \in Conns, Acquire(c) \/ RLock(c) \/ Lock(c) PROVE Data'
  BY <1>4, <1>a DEF Acquire, RLock, Lock, Caching, Looking, Results, Learning,
     Past, Result
<1>5. ASSUME NEW c \in Conns, SkipSpecial(c) PROVE Data'
  BY <1>5, <1>a DEF SkipSpecial, Caching, Looking, Results, Learning,
     Past, Result
<1>6. ASSUME NEW c \in Conns, ReadCache(c) PROVE Data'
  BY <1>6, <1>a DEF ReadCache, Caching, Looking, Results, Learning,
     Past, Result
<1>7. ASSUME NEW c \in Conns, Lookup(c) PROVE Data'
  BY <1>7, <1>a DEF Lookup, Caching, Looking, Results, Learning,
     Past, Result, Outcomes
<1>8. ASSUME NEW c \in Conns, Store(c) PROVE Data'
  BY <1>8, <1>a DEF Store, Caching, Looking, Results, Learning,
     Past, Result, Outcomes, Names
<1>9. ASSUME NEW c \in Conns, Assign(c) PROVE Data'
  <2>1. /\ \A d \in Conns : Past(d)' <=> Past(d)
        /\ \A d \in Conns : Past(d) => Result(d)' = Result(d)
    BY <1>9, <1>a DEF Assign, Past, Result
  <2>2. Caching' /\ Looking'
    BY <1>9 DEF Assign, Caching, Looking
  <2>3. Results' /\ Learning'
    BY <1>9, <1>a, <1>b, <2>1 DEF Assign, Results, Learning
  <2>4. QED
    BY <2>2, <2>3
<1>10. ASSUME NEW c \in Conns, Release(c) \/ Done(c) PROVE Data'
  BY <1>10, <1>a DEF Release, Done, Caching, Looking, Results, Learning,
     Past, Result
<1>11. CASE UNCHANGED vars
  BY <1>11 DEF vars, Caching, Looking, Results, Learning, Past, Result
<1>12. QED
  BY <1>1, <1>2, <1>3, <1>4, <1>5, <1>6, <1>7, <1>8, <1>9, <1>10, <1>11
  DEF Next, Run, Contend

(* The invariant of the resolver.                                          *)
THEOREM DataCorrect == Spec => [](Shape /\ Data)
<1>1. Init => Data
  BY DnsAssumption
  DEF Init, Data, Caching, Looking, Results, Learning, Outcomes
<1>2. QED
  BY ShapeCorrect, <1>1, DataStep, PTL DEF Spec

(* What was cached when a call began stays as it is and is not looked up.  *)
THEOREM CacheIsFinal == Spec => []CachedIsFinal
<1>1. Shape /\ Data => CachedIsFinal
  BY DEF Shape, Typed, Data, Caching, Looking, CachedIsFinal
<1>2. QED
  BY DataCorrect, <1>1, PTL

(* When ResolveConnections has returned, nothing of it is left running.    *)
THEOREM NothingWritesLate == Spec => NoLateWrite
<1> DEFINE Quiet == main = "idle" => UNCHANGED <<cache, pc>>
                      /\ (host' # host => main' = "loop")
<1>1. Shape /\ [Next]_vars => Quiet
  <2> SUFFICES ASSUME Shape, [Next]_vars, main = "idle"
               PROVE  UNCHANGED <<cache, pc>> /\ (host' # host => main' = "loop")
    BY DEF Quiet
  <2>1. \A c \in Conns : pc[c] = "none"
    BY DEF Shape, Spawned
  <2>2. ~Spawn /\ ~Wait /\ \A c \in Conns : ~Run(c) /\ ~Contend(c)
    BY <2>1 DEF Spawn, Wait, Run, Contend, SkipSpecial, ReadCache, Lookup,
                Store, Assign, Release, Done, Acquire, RLock, Lock, Move
  <2>3. Call \/ UNCHANGED vars
    BY <2>2 DEF Next
  <2>4. QED
    BY <2>3 DEF Call, vars
<1>2. QED
  BY ShapeCorrect, <1>1, PTL DEF Spec, NoLateWrite

(* The calls and their returns are those of AbstractResolver; what happens *)
(* in between does not show.                                               *)
LEMMA RefineStep ==
  Shape /\ Data /\ [Next]_vars => [Abstract!Next]_(Abstract!vars)
<1> SUFFICES ASSUME Shape, Data, [Next]_vars
             PROVE  Abstract!Next \/ UNCHANGED Abstract!vars
  BY DEF Abstract!Next, Abstract!vars
<1> USE DnsAssumption DEF Shape, Typed, Data
<1>1. CASE Call
  <2>1. Abstract!Call
    BY <1>1 DEF Call, Abstract!Call, Abstract!Nameless
  <2>2. QED
    BY <2>1 DEF Abstract!Next
<1>2. CASE Wait
  <2>1. \A c \in Conns : Past(c) /\ Result(c) = host[c]
    <3>1. At(Started) = {}
      <4>1. IsFiniteSet(Conns)
        BY FS_Interval DEF Conns
      <4>2. IsFiniteSet(At(Started))
        BY <4>1, FS_Subset DEF At
      <4>3. QED
        BY <1>2, <4>2, FS_EmptySet DEF Wait, Counts
    <3>2. \A c \in Conns : pc[c] = "none"
      BY <3>1 DEF At, Started
    <3>3. \A c \in Conns : c < next
      BY <1>2 DEF Wait, Conns
    <3>4. QED
      BY <3>2, <3>3 DEF Past, Result
  <2>2. UNCHANGED <<remote, host, cache, known>> /\ main = "loop" /\ main' = "idle"
    BY <1>2 DEF Wait
  <2>3. \A c \in Conns :
          IF remote[c] \in {NoIP} \cup Special THEN host[c] = NoName
          ELSE /\ host[c] \in PTR[remote[c]] \cup {NoName}
               /\ known[remote[c]] # Unknown => host[c] = known[remote[c]]
    BY <2>1, <2>2 DEF Results, Outcomes
  <2>4. ASSUME NEW ip \in IPs
        PROVE  IF \/ known[ip] # Unknown \/ ip \in Special
                  \/ {c \in Conns : remote[c] = ip} = {}
               THEN cache[ip] = known[ip]
               ELSE \E c \in {d \in Conns : remote[d] = ip} : cache[ip] = host[c]
    <3>1. CASE known[ip] # Unknown \/ ip \in Special
      BY <3>1 DEF Caching
    <3>2. CASE known[ip] = Unknown /\ ip \notin Special
      BY <2>1, <2>2, <3>2 DEF Learning
    <3>3. QED
      BY <3>1, <3>2
  <2>5. Abstract!Return
    BY <2>2, <2>3, <2>4
    DEF Abstract!Return, Abstract!Named, Abstract!Learnt, Abstract!To
  <2>6. QED
    BY <2>5 DEF Abstract!Next
<1>3. CASE Spawn
  BY <1>3 DEF Spawn, Abstract!vars
<1>4. ASSUME NEW c \in Conns, Run(c) \/ Contend(c)
      PROVE  UNCHANGED Abstract!vars
  <2>1. pc[c] # "none"
    BY <1>4 DEF Run, Contend, SkipSpecial, ReadCache, Lookup, Store, Assign,
                Release, Done, Acquire, RLock, Lock, Move
  <2>2. main = "loop"
    BY <2>1 DEF Spawned
  <2>3. UNCHANGED <<main, remote, known>>
    BY <1>4 DEF Run, Contend, SkipSpecial, ReadCache, Lookup, Store, Assign,
                Release, Done, Acquire, RLock, Lock
  <2>4. QED
    BY <2>2, <2>3 DEF Abstract!vars
<1>5. CASE UNCHANGED vars
  BY <1>5 DEF vars, Abstract!vars
<1>6. QED
  BY <1>1, <1>2, <1>3, <1>4, <1>5 DEF Next

(* ResolveConnections is one call and one return of AbstractResolver, for  *)
(* a list of any length, whichever lookups fail or disagree.               *)
THEOREM ResolverIsAtomic == Spec => AbstractSpec
<1>1. Init => Abstract!Init
  BY DEF Init, Abstract!Init, Abstract!Nameless
<1>2. QED
  BY DataCorrect, <1>1, RefineStep, PTL DEF Spec, AbstractSpec, Abstract!Spec

-----------------------------------------------------------------------------
(* Why a call returns, but for the scheduling: it has a bounded number of  *)
(* steps to take, and until it has returned there is one that nothing      *)
(* holds up.                                                               *)

(* The steps a goroutine has before it, by where it stands.                *)
Left == [none |-> 0, done |-> 1, release |-> 2, assign |-> 3, storing |-> 4,
         answered |-> 5, lookup |-> 6, reading |-> 7, resolve |-> 8, queued |-> 9]

StepsOf == [c \in Conns |-> Left[pc[c]]]
StepsLeft == 10 * (NConns + 1 - next) + SumFunction(StepsOf)

CallIsBounded ==
  [][/\ main = "idle" => main' = "loop" /\ StepsLeft' = 10 * NConns
     /\ main = "loop" => main' = "idle" \/ StepsLeft' < StepsLeft]_vars

LEMMA StepsType ==
  ASSUME Typed
  PROVE  /\ \A c \in Conns : StepsOf[c] \in Nat
         /\ SumFunction(StepsOf) = SumFunctionOnSet(StepsOf, Conns)
         /\ SumFunction(StepsOf) \in Nat /\ StepsLeft \in Nat
<1>1. \A c \in Conns : StepsOf[c] \in Nat
  BY DEF Typed, Places, Holding, StepsOf, Left
<1>2. SumFunction(StepsOf) = SumFunctionOnSet(StepsOf, Conns)
  BY DEF SumFunction, StepsOf
<1>3. SumFunctionOnSet(StepsOf, Conns) \in Nat
  BY <1>1, FiniteConns, SumType
<1>4. NConns + 1 - next \in Nat
  BY DnsAssumption DEF Typed
<1>5. QED
  BY <1>1, <1>2, <1>3, <1>4 DEF StepsLeft

(* A goroutine's move takes the steps off that it leaves behind.           *)
LEMMA StepsMove ==
  ASSUME Typed, Typed', NEW c \in Conns, NEW from, NEW to, Move(c, from, to)
  PROVE  /\ Left[from] \in Nat /\ Left[to] \in Nat
         /\ SumFunction(StepsOf') + Left[from] = SumFunction(StepsOf) + Left[to]
<1>1. pc[c] = from /\ pc'[c] = to /\ \A d \in Conns : d # c => pc'[d] = pc[d]
  BY DEF Typed, Move
<1>2. /\ \A d \in Conns : StepsOf[d] \in Nat /\ StepsOf'[d] \in Nat
      /\ SumFunction(StepsOf) = SumFunctionOnSet(StepsOf, Conns)
      /\ SumFunction(StepsOf') = SumFunctionOnSet(StepsOf', Conns)
  <2>1. SumFunction(StepsOf') = SumFunctionOnSet(StepsOf', Conns)
    BY DEF SumFunction, StepsOf
  <2>2. \A d \in Conns : StepsOf'[d] \in Nat
    BY DEF Typed, Places, Holding, StepsOf, Left
  <2>3. QED
    BY <2>1, <2>2, StepsType
<1>3. /\ StepsOf[c] = Left[from] /\ StepsOf'[c] = Left[to]
      /\ \A d \in Conns : d # c => StepsOf'[d] = StepsOf[d]
  BY <1>1 DEF StepsOf
<1>4. SumFunctionOnSet(StepsOf', Conns) + StepsOf[c]
        = SumFunctionOnSet(StepsOf, Conns) + StepsOf'[c]
  BY <1>2, <1>3, FiniteConns, SumChange
<1>5. QED
  BY <1>2, <1>3, <1>4

(* From its call on, ResolveConnections has at most 10 steps for each      *)
(* connection: every one that the loop or a goroutine takes brings the     *)
(* return nearer, whatever the lookups answer.                             *)
THEOREM CallsAreBounded == Spec => CallIsBounded
<1>1. ASSUME Shape, Shape', Next, main = "idle"
      PROVE  main' = "loop" /\ StepsLeft' = 10 * NConns
  <2>1. \A c \in Conns : pc[c] = "none"
    BY <1>1 DEF Shape, Spawned
  <2>2. CASE Call
    <3>1. \A c \in Conns : StepsOf'[c] = 0
      BY <2>1, <2>2 DEF Call, StepsOf, Left
    <3>2. SumFunction(StepsOf') = 0
      <4>1. SumFunction(StepsOf') = SumFunctionOnSet(StepsOf', Conns)
        BY DEF SumFunction, StepsOf
      <4>2. SumFunctionOnSet(StepsOf', Conns) = 0
        BY <3>1, FiniteConns, SumOfNoughts
      <4>3. QED
        BY <4>1, <4>2
    <3>3. QED
      BY <2>2, <3>2, DnsAssumption DEF Call, StepsLeft
  <2>3. ASSUME NEW c \in Conns, Run(c) \/ Contend(c) PROVE FALSE
    BY <2>1, <2>3 DEF Run, Contend, SkipSpecial, ReadCache, Lookup, Store, Assign,
                      Release, Done, Acquire, RLock, Lock, Move
  <2>4. QED
    BY <1>1, <2>2, <2>3 DEF Next, Spawn, Wait
<1>2. ASSUME Shape, Shape', Next, main = "loop"
      PROVE  main' = "idle" \/ StepsLeft' < StepsLeft
  <2>1. /\ Typed /\ Typed' /\ NConns \in Nat /\ next \in Nat
        /\ SumFunction(StepsOf) \in Nat
        /\ SumFunction(StepsOf') \in Nat
    <3>1. SumFunction(StepsOf') = SumFunctionOnSet(StepsOf', Conns)
      BY DEF SumFunction, StepsOf
    <3>2. \A d \in Conns : StepsOf'[d] \in Nat
      BY <1>2 DEF Shape, Typed, Places, Holding, StepsOf, Left
    <3>3. SumFunctionOnSet(StepsOf', Conns) \in Nat
      BY <3>2, FiniteConns, SumType
    <3>4. QED
      BY <1>2, <3>1, <3>3, StepsType, DnsAssumption DEF Shape, Typed
  <2>2. CASE Spawn
    <3>1. CASE UNCHANGED pc
      <4>1. SumFunction(StepsOf') = SumFunction(StepsOf)
        BY <3>1 DEF StepsOf
      <4>2. QED
        BY <2>1, <2>2, <4>1 DEF Spawn, StepsLeft
    <3>2. CASE Move(next, "none", "queued")
      <4>1. next \in Conns
        BY <2>1, <2>2 DEF Spawn, Conns, Typed
      <4>2. SumFunction(StepsOf') + 0 = SumFunction(StepsOf) + 9
        <5>1. Left["none"] = 0 /\ Left["queued"] = 9
          BY DEF Left
        <5>2. QED
          BY <2>1, <3>2, <4>1, <5>1, StepsMove
      <4>3. QED
        BY <2>1, <2>2, <4>2 DEF Spawn, StepsLeft
    <3>3. QED
      BY <2>2, <3>1, <3>2 DEF Spawn
  <2>3. ASSUME NEW c \in Conns, Run(c) \/ Contend(c)
        PROVE  StepsLeft' < StepsLeft
    <3>1. /\ next' = next
          /\ \E from, to \in Places : Move(c, from, to) /\ Left[to] < Left[from]
      BY <2>3 DEF Run, Contend, SkipSpecial, ReadCache, Lookup, Store, Assign,
                  Release, Done, Acquire, RLock, Lock, Places, Holding, Left
    <3>2. PICK from \in Places, to \in Places : Move(c, from, to) /\ Left[to] < Left[from]
      BY <3>1
    <3>3. /\ Left[from] \in Nat /\ Left[to] \in Nat
          /\ SumFunction(StepsOf') + Left[from] = SumFunction(StepsOf) + Left[to]
      BY <2>1, <3>2, StepsMove
    <3>4. SumFunction(StepsOf') < SumFunction(StepsOf)
      BY <2>1, <3>2, <3>3
    <3>5. QED
      BY <2>1, <3>1, <3>4 DEF StepsLeft
  <2>4. QED
    BY <1>2, <2>2, <2>3 DEF Next, Call, Wait
<1>3. QED
  BY ShapeCorrect, <1>1, <1>2, PTL DEF Spec, CallIsBounded

(* What a goroutine needs for its next step: the guards of Run and Contend.*)
CanStep(c) ==
  \/ pc[c] \in {"reading", "lookup", "storing", "assign", "release", "done"}
  \/ pc[c] = "queued" /\ sem < MaxLookups
  \/ pc[c] = "resolve" /\ (remote[c] \in Special \/ writers = {})
  \/ pc[c] = "answered" /\ readers = {} /\ writers = {}

NobodyIsStuck ==
  main = "loop" => next <= NConns \/ wg = 0 \/ \E c \in Conns : CanStep(c)

(* Semaphore, lock and wait group never wait for each other in a circle:   *)
(* until the call returns, the loop goes on, or a goroutine can.           *)
THEOREM NobodyStuck == Spec => []NobodyIsStuck
<1>1. Shape => NobodyIsStuck
  <2> SUFFICES ASSUME Shape, wg # 0, \A c \in Conns : ~CanStep(c)
               PROVE  FALSE
    BY DEF NobodyIsStuck
  <2>1. PICK c \in Conns : pc[c] # "none"
    <3>1. At(Started) # {}
      BY FS_EmptySet DEF Shape, Counts
    <3>2. QED
      BY <3>1 DEF At, Started
  <2>2. \A d \in Conns : pc[d] \in {"none", "queued", "resolve", "answered"}
    BY DEF CanStep, Shape, Typed, Places, Holding
  <2>3. readers = {} /\ writers = {}
    BY <2>2 DEF Shape, Locks, At
  <2>4. \A d \in Conns : pc[d] \in {"none", "queued"}
    BY <2>2, <2>3 DEF CanStep
  <2>5. sem = 0
    <3>1. At(Holding) = {}
      BY <2>4 DEF At, Holding
    <3>2. QED
      BY <3>1, FS_EmptySet DEF Shape, Counts
  <2>6. pc[c] = "queued" /\ sem < MaxLookups
    BY <2>1, <2>4, <2>5, DnsAssumption
  <2>7. QED
    BY <2>6 DEF CanStep
<1>2. QED
  BY ShapeCorrect, <1>1, PTL
=============================================================================
