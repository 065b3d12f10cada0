----------------------------- MODULE ClusterMap -----------------------------
(***************************************************************************)
(* A managed map of python/cascadia_cluster/client.py (submit_map with     *)
(* scheduler_backpressure): a caller keeps a bounded window of a request's *)
(* items submitted to Bacalhau, writes its state to a file after each      *)
(* accepted submission, and may die between the two and reconnect.         *)
(*                                                                         *)
(* One caller at a time holds a MapHandle of the request.  Bacalhau makes  *)
(* a job of every submission, as the tests' FakeAPI does: the client's own *)
(* recovery by labels is what keeps an item from running twice.            *)
(***************************************************************************)
EXTENDS Naturals, Sequences, FiniteSets

CONSTANTS
  Size,      \* items of the request, submitted in the order 1, 2, ...
  Windows,   \* what _scheduler_packing_capacity may derive
  MaxFaults  \* bound: crashes and failed calls

ASSUME MapAssumption ==
  /\ Size \in Nat \ {0}
  /\ Windows \subseteq Nat \ {0} /\ Windows # {}
  /\ MaxFaults \in Nat

VARIABLES
  disk,      \* the request's state file
  handle,    \* the MapHandle the caller holds
  pc,        \* the caller's place: "idle", or inside status, submit_map or cancel
  creating,  \* submit_map has not returned its handle yet
  active,    \* of _advance_admission
  toStop,    \* the items cancel has yet to stop
  jobs,      \* the request's jobs in Bacalhau, in the order they were created
  faults

vars == <<disk, handle, pc, creating, active, toStop, jobs, faults>>

Items == 1..Size
NoJob == 0
Ids == [Items -> 0..Len(jobs)]  \* bacalhau_job_id, an index into jobs
Missing == [closed |-> FALSE, window |-> 0, ids |-> [i \in Items |-> NoJob]]
Lost == [closed |-> FALSE, window |-> 0, ids |-> [i \in Items |-> NoJob], recover |-> FALSE]

JobsOf(i) == {j \in DOMAIN jobs : jobs[j].item = i}
Live(js) == {j \in DOMAIN js : ~js[j].terminal}
Unsubmitted(h) == {i \in Items : h.ids[i] = NoJob}
IsFirst(i, S) == i \in S /\ \A k \in S : i <= k

Saved(h) == [closed |-> h.closed, window |-> h.window, ids |-> h.ids]
Opened(d, recover) ==
  [closed |-> d.closed, window |-> d.window, ids |-> d.ids, recover |-> recover]

\* The caller leaves the call it is in; the handle that submit_map was making is lost.
Back ==
  /\ pc' = "idle"
  /\ creating' = FALSE
  /\ active' = 0
  /\ toStop' = {}
Raised == Back /\ handle' = IF creating THEN Lost ELSE handle

Init ==
  /\ disk = Missing
  /\ handle = Lost
  /\ pc = "idle"
  /\ creating = FALSE
  /\ active = 0
  /\ toStop = {}
  /\ jobs = <<>>
  /\ faults = 0

-----------------------------------------------------------------------------
(* Obtaining a handle.                                                      *)

\* _initialize_managed_request: a closed request is refused, and the definition
\* of a request is always the same here. submit_map then admits a first window.
SubmitMap ==
  /\ handle = Lost
  /\ ~disk.closed
  /\ \E w \in Windows : disk' = [disk EXCEPT !.window = w]
  /\ handle' = Opened(disk', disk # Missing)
  /\ pc' = "count"
  /\ creating' = TRUE
  /\ UNCHANGED <<active, toStop, jobs, faults>>

\* Wrong: the file's closed flag is not read back, or the orphan is not looked for.
Reopened(closed, recover) ==
  /\ handle = Lost
  /\ disk # Missing
  /\ handle' = [Opened(disk, recover) EXCEPT !.closed = closed]
  /\ UNCHANGED <<disk, pc, creating, active, toStop, jobs, faults>>
ReconnectOpen == Reopened(FALSE, TRUE)
ReconnectWithoutRecovery == Reopened(disk.closed, FALSE)

Reconnect ==
  /\ handle = Lost
  /\ disk # Missing
  /\ handle' = Opened(disk, TRUE)
  /\ UNCHANGED <<disk, pc, creating, active, toStop, jobs, faults>>

-----------------------------------------------------------------------------
(* status, which wait repeats: _advance_admission.                          *)

Status ==
  /\ handle # Lost /\ pc = "idle"
  /\ ~handle.closed
  /\ pc' = "count"
  /\ UNCHANGED <<disk, handle, creating, active, toStop, jobs, faults>>

\* Wrong: terminal jobs are counted too.
CountAll ==
  /\ pc = "count"
  /\ active' = Cardinality(Items \ Unsubmitted(handle))
  /\ pc' = "admit"
  /\ UNCHANGED <<disk, handle, creating, toStop, jobs, faults>>

CountActive ==
  /\ pc = "count"
  /\ active' = Cardinality({i \in Items \ Unsubmitted(handle) : handle.ids[i] \in Live(jobs)})
  /\ pc' = "admit"
  /\ UNCHANGED <<disk, handle, creating, toStop, jobs, faults>>

Admissible == active < handle.window /\ Unsubmitted(handle) # {}

\* _submit_or_recover_item: the labels name the request and the item, and a
\* second match is a conflict.
SubmitOrRecover(i, matching) ==
  /\ pc = "admit"
  /\ active < handle.window
  /\ IsFirst(i, Unsubmitted(handle))
  /\ LET found == IF handle.recover THEN matching ELSE {} IN
       IF Cardinality(found) > 1
       THEN Raised /\ UNCHANGED jobs
       ELSE /\ \/ found = {} /\ jobs' = Append(jobs, [item |-> i, terminal |-> FALSE])
               \/ found # {} /\ UNCHANGED jobs
            /\ \E id \in (IF found = {} THEN {Len(jobs')} ELSE found) :
                 handle' = [handle EXCEPT !.ids[i] = id]
            /\ pc' = "persist"
            /\ UNCHANGED <<creating, active, toStop>>
  /\ UNCHANGED <<disk, faults>>

Submit == \E i \in Items : SubmitOrRecover(i, JobsOf(i))

\* Wrong: the file is written when the pass is over, or active is not advanced.
PersistLater ==
  /\ pc = "persist"
  /\ disk' = IF active + 1 < handle.window /\ Unsubmitted(handle) # {}
             THEN disk ELSE Saved(handle)
  /\ handle' = [handle EXCEPT !.recover = FALSE]
  /\ active' = active + 1
  /\ pc' = "admit"
  /\ UNCHANGED <<creating, toStop, jobs, faults>>
PersistUncounted ==
  /\ pc = "persist"
  /\ disk' = Saved(handle)
  /\ handle' = [handle EXCEPT !.recover = FALSE]
  /\ pc' = "admit"
  /\ UNCHANGED <<creating, active, toStop, jobs, faults>>

Persist ==
  /\ pc = "persist"
  /\ disk' = Saved(handle)
  /\ handle' = [handle EXCEPT !.recover = FALSE]
  /\ active' = active + 1
  /\ pc' = "admit"
  /\ UNCHANGED <<creating, toStop, jobs, faults>>

Admitted ==
  /\ pc = "admit"
  /\ ~Admissible
  /\ pc' = "idle"
  /\ creating' = FALSE
  /\ active' = 0
  /\ UNCHANGED <<disk, handle, toStop, jobs, faults>>

-----------------------------------------------------------------------------
(* cancel.                                                                  *)

Cancel ==
  /\ handle # Lost /\ pc = "idle"
  /\ handle' = [handle EXCEPT !.closed = TRUE]
  /\ pc' = "close"
  /\ UNCHANGED <<disk, creating, active, toStop, jobs, faults>>

PersistClosed ==
  /\ pc = "close"
  /\ disk' = Saved(handle)
  /\ toStop' = Items \ Unsubmitted(handle)
  /\ pc' = "stop"
  /\ UNCHANGED <<handle, creating, active, jobs, faults>>

\* A job that is terminal already is left alone.
StopNext ==
  /\ pc = "stop"
  /\ \E i \in Items :
       /\ IsFirst(i, toStop)
       /\ jobs' = [jobs EXCEPT ![handle.ids[i]].terminal = TRUE]
       /\ toStop' = toStop \ {i}
  /\ UNCHANGED <<disk, handle, pc, creating, active, faults>>

Cancelled ==
  /\ pc = "stop"
  /\ toStop = {}
  /\ pc' = "idle"
  /\ UNCHANGED <<disk, handle, creating, active, toStop, jobs, faults>>

-----------------------------------------------------------------------------
(* Bacalhau, and the faults.                                                *)

Finish(j) ==
  /\ j \in Live(jobs)
  /\ jobs' = [jobs EXCEPT ![j].terminal = TRUE]
  /\ UNCHANGED <<disk, handle, pc, creating, active, toStop, faults>>

\* A request to Bacalhau raises, before it has an effect.
CallFails ==
  /\ faults < MaxFaults
  /\ \/ pc = "count" /\ Unsubmitted(handle) # Items
     \/ pc = "admit" /\ Admissible
     \/ pc = "stop" /\ toStop # {}
  /\ Raised
  /\ faults' = faults + 1
  /\ UNCHANGED <<disk, jobs>>

\* The caller dies; the file is replaced atomically, so it is never half written.
Crash ==
  /\ faults < MaxFaults
  /\ handle # Lost
  /\ handle' = Lost
  /\ Back
  /\ faults' = faults + 1
  /\ UNCHANGED <<disk, jobs>>

Polling == Status \/ CountActive \/ Submit \/ Persist \/ Admitted
Cancelling == PersistClosed \/ StopNext \/ Cancelled

Next ==
  \/ SubmitMap \/ Reconnect \/ Polling \/ Cancel \/ Cancelling
  \/ CallFails \/ Crash
  \/ \E j \in DOMAIN jobs : Finish(j)

\* wait polls; a lost caller reconnects; a job comes to an end.
Spec ==
  /\ Init
  /\ [][Next]_vars
  /\ WF_vars(Polling \/ Cancelling)
  /\ WF_vars(SubmitMap \/ Reconnect)
  /\ \A j \in 1..Size : WF_vars(Finish(j))

-----------------------------------------------------------------------------
(* Properties.                                                              *)

\* Every variable has its type, and an id is always that of the item's own job.
OwnIds(ids) == \A i \in Items : ids[i] # NoJob => jobs[ids[i]].item = i
TypeOK ==
  /\ disk # Missing => disk.window \in Windows /\ disk.ids \in Ids /\ OwnIds(disk.ids)
  /\ handle # Lost => handle.window \in Windows /\ handle.ids \in Ids /\ OwnIds(handle.ids)
  /\ pc \in {"idle", "count", "admit", "persist", "close", "stop"}
  /\ pc # "idle" => handle # Lost
  /\ active \in 0..Size /\ toStop \subseteq Items

\* No item is ever run by two jobs, wherever the caller dies: a map is idempotent
\* by request and item (_submit_or_recover_item).
OneJobPerItem == \A j, k \in DOMAIN jobs : jobs[j].item = jobs[k].item => j = k

\* A job the state file does not name is that of the first item without an id:
\* what the recovery of MapHandle relies on, as it looks for one item alone.
OrphanIsNext ==
  disk # Missing =>
    \A i \in Items :
      JobsOf(i) # {} /\ disk.ids[i] = NoJob => IsFirst(i, Unsubmitted(disk))

\* A submission never takes the jobs in flight above the window, counting a job
\* the caller has forgotten (_advance_admission).
WindowRespected ==
  [][Len(jobs') > Len(jobs) => Cardinality(Live(jobs')) <= handle.window]_vars

\* Once the file says closed, no caller submits anything any more, this one or
\* one that reconnects (cancel, _advance_admission).
ClosedForGood == [][disk # Missing /\ disk.closed => Len(jobs') = Len(jobs)]_vars

\* A request that is not cancelled completes: the window always moves on.
Completes ==
  <>(\/ handle # Lost /\ handle.closed
     \/ \A i \in Items : \E j \in JobsOf(i) : jobs[j].terminal)

\* A cancel that returned has stopped every job of the request.
CancelStopsAll == pc = "stop" /\ toStop = {} => Live(jobs) = {}
=============================================================================
