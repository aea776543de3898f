-------------------------- MODULE AbstractHistory --------------------------
(***************************************************************************)
(* What history.Store promises its callers, with no file, no mutex and no  *)
(* intermediate step: one set of snapshots on which every call acts at one *)
(* instant.  HistoryStore is shown to implement it when all the callers    *)
(* share one Store.                                                        *)
(***************************************************************************)
EXTENDS Integers

CONSTANTS
  Callers,      \* goroutines that call the store
  Snapshots,    \* the snapshots that may ever be recorded, [id, at] records
  Retention,    \* age at which Record prunes a snapshot ("30 days")
  MaxTime       \* bound on the clock

VARIABLES
  hist,         \* the recorded history
  view,         \* view[c]: what c's last GetSummary was computed from
  now           \* the wall clock

vars == <<hist, view, now>>

Init ==
  /\ hist = {}
  /\ view = [c \in Callers |-> {}]
  /\ now = 0

(* Record: the expired snapshots go, the new one comes, nothing else moves. *)
Append(s) ==
  /\ s \notin hist
  /\ s.at <= now
  /\ hist' = {x \in hist : x.at > now - Retention} \cup {s}
  /\ UNCHANGED <<view, now>>

(* GetSummary reports on the whole of the current history. *)
Read(c) ==
  /\ view' = [view EXCEPT ![c] = hist]
  /\ UNCHANGED <<hist, now>>

(* Clear leaves nothing. *)
Purge ==
  /\ hist' = {}
  /\ UNCHANGED <<view, now>>

Tick ==
  /\ now < MaxTime
  /\ now' = now + 1
  /\ UNCHANGED <<hist, view>>

Next ==
  \/ \E s \in Snapshots : Append(s)
  \/ \E c \in Callers : Read(c)
  \/ Purge
  \/ Tick

Spec == Init /\ [][Next]_vars
=============================================================================
