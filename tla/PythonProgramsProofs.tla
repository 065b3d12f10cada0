------------------------ MODULE PythonProgramsProofs ------------------------
(***************************************************************************)
(* Proofs about the Python programs: the client of the cluster, for every  *)
(* number of items, windows and faults; the trainer, for every corpus,     *)
(* batch, interval and crash; the serve loop, for every number of lines.   *)
(*                                                                         *)
(* The client's recovery looks for one item alone, so the invariant says   *)
(* where a job may be that the state file does not name: items get their   *)
(* ids in order, at most the next item has such a job, and it has none once *)
(* the handle no longer recovers.                                          *)
(***************************************************************************)
EXTENDS PythonPrograms, SequenceLemmas

Job == [item : Items, terminal : BOOLEAN]
File == [closed : BOOLEAN, window : Nat, ids : [Items -> Nat]]
Handle == [closed : BOOLEAN, window : Nat, ids : [Items -> Nat], recover : BOOLEAN]
Places == {"idle", "count", "admit", "persist", "close", "stop"}

Types ==
  /\ jobs \in Seq(Job)
  /\ disk \in File /\ (disk # Missing => disk.window \in Windows)
  /\ handle \in Handle /\ (handle # Lost => handle.window \in Windows)
  /\ pc \in Places /\ creating \in BOOLEAN /\ active \in 0..Size
  /\ toStop \subseteq Items /\ faults \in Nat

\* An id is that of the item's own job; items get their ids in order; the jobs
\* without a name are those of the next item, or there are none.
Named(ids, js) ==
  \A i \in Items : ids[i] # NoJob => ids[i] \in DOMAIN js /\ js[ids[i]].item = i
InOrder(ids) == \A i, k \in Items : ids[i] = NoJob /\ i < k => ids[k] = NoJob
IsNext(i, ids) == ids[i] = NoJob /\ \A k \in Items : ids[k] = NoJob => i <= k
OnlyNext(ids, js) ==
  \A j \in DOMAIN js : ids[js[j].item] = j \/ IsNext(js[j].item, ids)
AllKnown(ids, js) == \A j \in DOMAIN js : ids[js[j].item] = j
Single(js) == \A j, k \in DOMAIN js : js[j].item = js[k].item => j = k

\* What the file says, and what the handle says beside it.
FileInv ==
  /\ Single(jobs)
  /\ Named(disk.ids, jobs) /\ InOrder(disk.ids) /\ OnlyNext(disk.ids, jobs)
  /\ disk = Missing => jobs = <<>> /\ handle = Lost
HandleInv ==
  /\ Named(handle.ids, jobs) /\ InOrder(handle.ids)
  /\ pc # "persist" => /\ handle.ids = disk.ids
                       /\ ~handle.recover => AllKnown(handle.ids, jobs)
  /\ pc = "persist" => AllKnown(handle.ids, jobs)
  /\ disk.closed => handle.closed
  /\ handle.closed => pc \in {"idle", "close", "stop"}
  /\ pc = "admit" => \A i \in Items : handle.ids[i] = NoJob => active < i
  /\ pc = "persist" => active < Size /\ \A i \in Items : handle.ids[i] = NoJob => active + 1 < i
  /\ \A i \in toStop : handle.ids[i] # NoJob
MapInv ==
  /\ Types
  /\ FileInv
  /\ IF handle = Lost THEN pc = "idle" /\ toStop = {} ELSE HandleInv

-----------------------------------------------------------------------------
(* Jobs only get terminal, or one more is made.                             *)

LEMMA StoppedJob ==
  ASSUME NEW js \in Seq(Job), NEW j \in DOMAIN js
  PROVE  LET ks == [js EXCEPT ![j].terminal = TRUE] IN
           /\ ks \in Seq(Job) /\ DOMAIN ks = DOMAIN js
           /\ \A k \in DOMAIN js : ks[k].item = js[k].item
<1> DEFINE ks == [js EXCEPT ![j].terminal = TRUE]
           job == [js[j] EXCEPT !.terminal = TRUE]
<1>1. js[j] \in Job
  OBVIOUS
<1>2. job \in Job /\ job.item = js[j].item
  BY <1>1 DEF Job
<1>3. ks = [js EXCEPT ![j] = job]
  OBVIOUS
<1>4. ks \in Seq(Job) /\ DOMAIN ks = DOMAIN js
  BY <1>2, <1>3
<1>5. \A k \in DOMAIN js : ks[k] = IF k = j THEN job ELSE js[k]
  BY <1>3
<1>6. \A k \in DOMAIN js : ks[k].item = js[k].item
  BY <1>2, <1>5
<1>7. QED BY <1>4, <1>6

LEMMA JobItems ==
  ASSUME NEW js \in Seq(Job), NEW j \in DOMAIN js
  PROVE  js[j].item \in Items /\ j \in Nat \ {0}
<1>1. js[j] \in Job /\ j \in Nat \ {0}
  OBVIOUS
<1>2. QED BY <1>1 DEF Job

LEMMA SameItems ==
  ASSUME NEW js, NEW ks, DOMAIN ks = DOMAIN js,
         \A k \in DOMAIN js : ks[k].item = js[k].item, NEW ids
  PROVE  /\ Named(ids, js) => Named(ids, ks)
         /\ OnlyNext(ids, js) => OnlyNext(ids, ks)
         /\ AllKnown(ids, js) => AllKnown(ids, ks)
         /\ Single(js) => Single(ks)
  BY DEF Named, OnlyNext, AllKnown, Single

LEMMA NewJob ==
  ASSUME NEW js \in Seq(Job), NEW job \in Job
  PROVE  /\ Append(js, job) \in Seq(Job)
         /\ Len(Append(js, job)) = Len(js) + 1
         /\ DOMAIN Append(js, job) = DOMAIN js \cup {Len(js) + 1}
         /\ Len(js) + 1 \notin DOMAIN js /\ Len(js) \in Nat /\ DOMAIN js = 1..Len(js)
         /\ \A k \in DOMAIN js : Append(js, job)[k] = js[k]
         /\ Append(js, job)[Len(js) + 1] = job
  OBVIOUS

\* A step that leaves the items of the jobs, the file and the handle as they are.
LEMMA ItemsKept ==
  ASSUME MapInv, jobs' \in Seq(Job), DOMAIN jobs' = DOMAIN jobs,
         \A k \in DOMAIN jobs : jobs'[k].item = jobs[k].item,
         UNCHANGED <<disk, handle, pc, creating, active, faults>>,
         toStop' \subseteq toStop
  PROVE  MapInv'
<1>1. Types'
  BY DEF MapInv, Types
<1>2. FileInv'
  <2>1. jobs = <<>> => jobs' = <<>>
    BY DEF MapInv, Types
  <2>2. QED BY <2>1, SameItems DEF MapInv, FileInv
<1>3. handle # Lost => HandleInv'
  BY SameItems DEF MapInv, HandleInv
<1>4. QED BY <1>1, <1>2, <1>3 DEF MapInv

-----------------------------------------------------------------------------
LEMMA InitInv == Init => MapInv
<1> SUFFICES ASSUME Init PROVE MapInv
  OBVIOUS
<1>1. /\ disk = Missing /\ handle = Lost /\ pc = "idle" /\ creating = FALSE
      /\ active = 0 /\ toStop = {} /\ jobs = <<>> /\ faults = 0
  BY DEF Init
<1>2. Missing \in File /\ Lost \in Handle
  BY DEF Missing, Lost, File, Handle, NoJob
<1>3. 0 \in 0..Size /\ <<>> \in Seq(Job)
  BY MapAssumption
<1>4. Types
  BY <1>1, <1>2, <1>3 DEF Types, Places
<1>5. \A i \in Items : Missing.ids[i] = NoJob
  BY DEF Missing
<1>6. FileInv
  BY <1>1, <1>5 DEF FileInv, Named, InOrder, OnlyNext, Single
<1>7. QED BY <1>1, <1>4, <1>6 DEF MapInv

LEMMA SubmitMapInv == MapInv /\ SubmitMap => MapInv'
<1> SUFFICES ASSUME MapInv, SubmitMap PROVE MapInv'
  OBVIOUS
<1>1. PICK w \in Windows : disk' = [disk EXCEPT !.window = w]
  BY DEF SubmitMap
<1>2. /\ handle = Lost /\ ~disk.closed /\ disk \in File /\ w # 0 /\ w \in Nat
      /\ handle' = Opened(disk', disk # Missing) /\ pc' = "count"
      /\ UNCHANGED <<active, toStop, jobs, faults>> /\ creating' = TRUE
  BY MapAssumption DEF SubmitMap, MapInv, Types
<1>3. /\ disk' \in File /\ disk'.window = w /\ disk'.ids = disk.ids /\ disk'.closed = FALSE
      /\ disk' # Missing
  BY <1>1, <1>2 DEF File, Missing
<1>4. /\ handle' \in Handle /\ handle'.window = w /\ handle'.ids = disk.ids
      /\ handle'.closed = FALSE /\ handle'.recover = (disk # Missing) /\ handle' # Lost
  BY <1>2, <1>3 DEF Opened, File, Handle, Lost
<1>5. Types'
  BY <1>2, <1>3, <1>4 DEF MapInv, Types, Places
<1>6. FileInv'
  BY <1>2, <1>3 DEF MapInv, FileInv
<1>7. ~handle'.recover => AllKnown(handle'.ids, jobs')
  <2>1. ~handle'.recover => jobs' = <<>>
    BY <1>2, <1>4 DEF MapInv, FileInv
  <2>2. QED BY <2>1 DEF AllKnown
<1>8. HandleInv'
  BY <1>2, <1>3, <1>4, <1>7 DEF MapInv, FileInv, HandleInv
<1>9. QED BY <1>4, <1>5, <1>6, <1>8 DEF MapInv

LEMMA ReconnectInv == MapInv /\ Reconnect => MapInv'
<1> SUFFICES ASSUME MapInv, Reconnect PROVE MapInv'
  OBVIOUS
<1>1. /\ handle = Lost /\ disk # Missing /\ disk \in File /\ disk.window \in Windows
      /\ handle' = Opened(disk, TRUE) /\ pc = "idle" /\ toStop = {}
      /\ UNCHANGED <<disk, pc, creating, active, toStop, jobs, faults>>
  BY DEF Reconnect, MapInv, Types
<1>2. /\ handle' \in Handle /\ handle'.window = disk.window /\ handle'.ids = disk.ids
      /\ handle'.closed = disk.closed /\ handle'.recover
  BY <1>1 DEF Opened, File, Handle
<1>3. handle' # Lost
  <2>1. handle'.window # 0 /\ Lost.window = 0
    BY <1>1, <1>2, MapAssumption DEF Lost
  <2>2. QED BY <2>1
<1>4. Types'
  BY <1>1, <1>2 DEF MapInv, Types
<1>5. FileInv'
  BY <1>1 DEF MapInv, FileInv
<1>6. HandleInv'
  BY <1>1, <1>2 DEF MapInv, FileInv, HandleInv
<1>7. QED BY <1>3, <1>4, <1>5, <1>6 DEF MapInv

-----------------------------------------------------------------------------
(* _advance_admission.                                                      *)

LEMMA StatusInv == MapInv /\ Status => MapInv'
<1> SUFFICES ASSUME MapInv, Status PROVE MapInv'
  OBVIOUS
<1>1. /\ handle # Lost /\ ~handle.closed /\ pc = "idle" /\ pc' = "count"
      /\ UNCHANGED <<disk, handle, creating, active, toStop, jobs, faults>>
  BY DEF Status
<1>2. Types'
  BY <1>1 DEF MapInv, Types, Places
<1>3. FileInv'
  BY <1>1 DEF MapInv, FileInv
<1>4. HandleInv'
  BY <1>1 DEF MapInv, HandleInv
<1>5. QED BY <1>1, <1>2, <1>3, <1>4 DEF MapInv

\* Items with an id come before one without, so fewer of them are in flight.
LEMMA CountBelow ==
  ASSUME NEW S \in SUBSET Items, NEW n \in 0..Size, \A i \in S : i <= n
  PROVE  Cardinality(S) \in Nat /\ Cardinality(S) <= n
<1>1. n \in Nat /\ Size \in Nat
  BY MapAssumption
<1>2. S \in SUBSET (1..n)
  BY <1>1 DEF Items
<1>3. IsFiniteSet(1..n) /\ Cardinality(1..n) = n
  BY <1>1, FS_Interval
<1>4. IsFiniteSet(S) /\ Cardinality(S) <= n
  BY <1>2, <1>3, FS_Subset
<1>5. QED BY <1>4, FS_CardinalityType

LEMMA CountActiveInv == MapInv /\ CountActive => MapInv'
<1> SUFFICES ASSUME MapInv, CountActive PROVE MapInv'
  OBVIOUS
<1> DEFINE S == {i \in Items \ Unsubmitted(handle) : handle.ids[i] \in Live(jobs)}
<1>1. /\ pc = "count" /\ active' = Cardinality(S) /\ pc' = "admit"
      /\ UNCHANGED <<disk, handle, creating, toStop, jobs, faults>>
  BY DEF CountActive
<1>2. handle # Lost /\ HandleInv
  BY <1>1 DEF MapInv
<1>3. S \in SUBSET Items /\ \A i \in S : handle.ids[i] # NoJob
  BY DEF Unsubmitted
<1>4. active' \in 0..Size
  <2>1. Size \in 0..Size /\ \A i \in S : i <= Size
    BY <1>3, MapAssumption DEF Items
  <2>2. QED BY <1>1, <1>3, <2>1, CountBelow, MapAssumption
<1>5. ASSUME NEW i \in Items, handle.ids[i] = NoJob PROVE active' < i
  <2>1. i - 1 \in 0..Size
    BY MapAssumption DEF Items
  <2>2. \A k \in S : k <= i - 1
    BY <1>2, <1>3, <1>5, MapAssumption DEF HandleInv, InOrder, Items
  <2>3. Cardinality(S) \in Nat /\ Cardinality(S) <= i - 1
    BY <1>3, <2>1, <2>2, CountBelow
  <2>4. QED BY <1>1, <2>3, MapAssumption DEF Items
<1>6. Types'
  BY <1>1, <1>4 DEF MapInv, Types, Places
<1>7. FileInv'
  BY <1>1 DEF MapInv, FileInv
<1>8. HandleInv'
  BY <1>1, <1>2, <1>5 DEF HandleInv
<1>9. QED BY <1>1, <1>2, <1>6, <1>7, <1>8 DEF MapInv

\* The caller of an unfinished call is back where it can start another one.
LEMMA RaisedInv ==
  ASSUME MapInv, pc # "persist", Raised, UNCHANGED <<disk, jobs>>, faults' \in Nat
  PROVE  MapInv'
<1>1. /\ pc' = "idle" /\ creating' = FALSE /\ active' = 0 /\ toStop' = {}
      /\ handle' \in {handle, Lost} /\ UNCHANGED <<disk, jobs>> /\ faults' \in Nat
  BY DEF Raised, Back
<1>2. Lost \in Handle /\ 0 \in 0..Size
  BY MapAssumption DEF Lost, Handle, NoJob
<1>3. Types'
  BY <1>1, <1>2 DEF MapInv, Types, Places
<1>4. FileInv'
  BY <1>1 DEF MapInv, FileInv
<1>5. handle' # Lost => HandleInv'
  BY <1>1 DEF MapInv, HandleInv
<1>6. QED BY <1>1, <1>3, <1>4, <1>5 DEF MapInv

LEMMA CrashInv == MapInv /\ Crash => MapInv'
<1> SUFFICES ASSUME MapInv, Crash PROVE MapInv'
  OBVIOUS
<1>1. /\ pc' = "idle" /\ creating' = FALSE /\ active' = 0 /\ toStop' = {}
      /\ handle' = Lost /\ UNCHANGED <<disk, jobs>> /\ faults' \in Nat
  BY DEF Crash, Back, MapInv, Types
<1>2. Lost \in Handle /\ 0 \in 0..Size
  BY MapAssumption DEF Lost, Handle, NoJob
<1>3. Types'
  BY <1>1, <1>2 DEF MapInv, Types, Places
<1>4. FileInv'
  BY <1>1 DEF MapInv, FileInv
<1>5. QED BY <1>1, <1>3, <1>4 DEF MapInv

LEMMA CallFailsInv == MapInv /\ CallFails => MapInv'
<1> SUFFICES ASSUME MapInv, CallFails PROVE MapInv'
  OBVIOUS
<1>1. pc # "persist" /\ Raised /\ UNCHANGED <<disk, jobs>> /\ faults' \in Nat
  BY DEF CallFails, MapInv, Types
<1>2. QED BY <1>1, RaisedInv

\* What the handle knows of the jobs when it gives the next item the job id.
LEMMA Given ==
  ASSUME MapInv, pc = "admit", NEW i \in Items, IsFirst(i, Unsubmitted(handle)),
         NEW js \in Seq(Job), NEW id \in DOMAIN js, js[id].item = i,
         Single(js), DOMAIN jobs \subseteq DOMAIN js,
         \A j \in DOMAIN jobs : js[j].item = jobs[j].item,
         \A j \in DOMAIN js : j \in DOMAIN jobs \/ j = id,
         jobs' = js, handle' = [handle EXCEPT !.ids[i] = id], pc' = "persist",
         UNCHANGED <<disk, creating, active, toStop, faults>>
  PROVE  MapInv'
<1>1. handle # Lost /\ HandleInv /\ handle \in Handle /\ handle.window \in Windows
  BY DEF MapInv, Types
<1>2. id \in Nat \ {0}
  OBVIOUS
<1>3. /\ handle' \in Handle /\ handle'.window = handle.window
      /\ handle'.closed = handle.closed /\ handle'.recover = handle.recover
      /\ \A k \in Items : handle'.ids[k] = IF k = i THEN id ELSE handle.ids[k]
  BY <1>1, <1>2 DEF Handle
<1>4. handle' # Lost
  <2>1. handle'.window # 0 /\ Lost.window = 0
    BY <1>1, <1>3, MapAssumption DEF Lost
  <2>2. QED BY <2>1
<1>5. handle.ids[i] = NoJob /\ \A k \in Items : handle.ids[k] = NoJob => i <= k
  BY DEF IsFirst, Unsubmitted
<1>6. disk.ids = handle.ids /\ ~handle.closed /\ ~disk.closed
  BY <1>1 DEF HandleInv
<1>7. \A j \in DOMAIN jobs : jobs[j].item \in Items
  BY JobItems DEF MapInv, Types
<1>8. Types'
  <2>1. jobs' \in Seq(Job) /\ handle' \in Handle /\ handle'.window \in Windows
    BY <1>1, <1>3
  <2>2. pc' \in Places
    BY DEF Places
  <2>3. /\ disk' \in File /\ (disk' # Missing => disk'.window \in Windows)
        /\ creating' \in BOOLEAN /\ active' \in 0..Size
        /\ toStop' \subseteq Items /\ faults' \in Nat
    BY DEF MapInv, Types, Missing
  <2>4. QED BY <2>1, <2>2, <2>3 DEF Types
<1>9. FileInv'
  <2>1. Named(disk.ids, js) /\ InOrder(disk.ids)
    BY DEF MapInv, FileInv, Named
  <2>2. OnlyNext(disk.ids, js)
    BY <1>5, <1>6 DEF MapInv, FileInv, OnlyNext, IsNext
  <2>3. disk # Missing
    BY <1>1 DEF MapInv, FileInv
  <2>4. QED BY <2>1, <2>2, <2>3 DEF FileInv
<1>10. Named(handle'.ids, js)
  BY <1>1, <1>3 DEF HandleInv, Named
<1>11. InOrder(handle'.ids)
  BY <1>1, <1>2, <1>3, <1>5, MapAssumption DEF HandleInv, InOrder, Items, NoJob
<1>12. AllKnown(handle'.ids, js)
  <2> SUFFICES ASSUME NEW j \in DOMAIN js PROVE handle'.ids[js[j].item] = j
    BY DEF AllKnown
  <2>1. CASE js[j].item = i
    BY <2>1, <1>3 DEF Single
  <2>2. CASE js[j].item # i
    <3>1. j \in DOMAIN jobs /\ js[j].item = jobs[j].item /\ jobs[j].item \in Items
      BY <2>2, <1>7
    <3>2. ~IsNext(jobs[j].item, disk.ids)
      BY <2>2, <3>1, <1>5, <1>6, MapAssumption DEF IsNext, Items
    <3>3. QED BY <2>2, <3>1, <3>2, <1>3, <1>6 DEF MapInv, FileInv, OnlyNext
  <2>3. QED BY <2>1, <2>2
<1>13. active < Size /\ \A k \in Items : handle'.ids[k] = NoJob => active + 1 < k
  BY <1>1, <1>2, <1>3, <1>5, MapAssumption DEF HandleInv, MapInv, Types, Items, NoJob
<1>14. \A k \in toStop : handle'.ids[k] # NoJob
  BY <1>1, <1>2, <1>3 DEF HandleInv, MapInv, Types, NoJob
<1>15. HandleInv'
  BY <1>3, <1>6, <1>10, <1>11, <1>12, <1>13, <1>14 DEF HandleInv
<1>16. QED BY <1>4, <1>8, <1>9, <1>15 DEF MapInv

LEMMA SubmitInv == MapInv /\ Submit => MapInv'
<1> SUFFICES ASSUME MapInv, NEW i \in Items, SubmitOrRecover(i, JobsOf(i)) PROVE MapInv'
  BY DEF Submit
<1> DEFINE found == IF handle.recover THEN JobsOf(i) ELSE {}
           job == [item |-> i, terminal |-> FALSE]
<1>1. pc = "admit" /\ IsFirst(i, Unsubmitted(handle)) /\ UNCHANGED <<disk, faults>>
  BY DEF SubmitOrRecover
<1>2. jobs \in Seq(Job) /\ job \in Job /\ faults \in Nat
  BY DEF MapInv, Types, Job
<1>3. CASE Cardinality(found) > 1
  BY <1>1, <1>2, <1>3, RaisedInv DEF SubmitOrRecover
<1>4. CASE ~(Cardinality(found) > 1) /\ found = {}
  <2>1. /\ jobs' = Append(jobs, job) /\ handle' = [handle EXCEPT !.ids[i] = Len(jobs')]
        /\ pc' = "persist" /\ UNCHANGED <<creating, active, toStop>>
    BY <1>4 DEF SubmitOrRecover
  <2>2. /\ jobs' \in Seq(Job) /\ Len(jobs') = Len(jobs) + 1 /\ Len(jobs') \in DOMAIN jobs'
        /\ DOMAIN jobs' = DOMAIN jobs \cup {Len(jobs')} /\ jobs'[Len(jobs')] = job
        /\ \A j \in DOMAIN jobs : jobs'[j] = jobs[j]
    BY <1>2, <2>1, NewJob
  <2>3. \A j \in DOMAIN jobs : jobs[j].item # i
    <3>1. CASE handle.recover
      BY <3>1, <1>4 DEF JobsOf
    <3>2. CASE ~handle.recover
      <4>1. AllKnown(handle.ids, jobs) /\ handle.ids[i] = NoJob
        BY <3>2, <1>1 DEF MapInv, HandleInv, IsFirst, Unsubmitted
      <4>2. \A j \in DOMAIN jobs : j # NoJob
        BY <1>2 DEF NoJob
      <4>3. QED BY <4>1, <4>2 DEF AllKnown
    <3>3. QED BY <3>1, <3>2
  <2>4. job.item = i
    OBVIOUS
  <2>5. Single(jobs')
    BY <2>2, <2>3, <2>4 DEF Single, MapInv, FileInv
  <2>6. QED BY <1>1, <2>1, <2>2, <2>4, <2>5, Given
<1>5. CASE ~(Cardinality(found) > 1) /\ found # {}
  <2>1. PICK id \in found : handle' = [handle EXCEPT !.ids[i] = id]
    BY <1>5 DEF SubmitOrRecover
  <2>2. jobs' = jobs /\ pc' = "persist" /\ UNCHANGED <<creating, active, toStop>>
    BY <1>5 DEF SubmitOrRecover
  <2>3. id \in DOMAIN jobs /\ jobs[id].item = i
    BY <1>5 DEF JobsOf
  <2>4. Single(jobs)
    BY DEF MapInv, FileInv
  <2>5. QED BY <1>1, <1>2, <2>1, <2>2, <2>3, <2>4, Given
<1>6. QED BY <1>3, <1>4, <1>5

LEMMA PersistInv == MapInv /\ Persist => MapInv'
<1> SUFFICES ASSUME MapInv, Persist PROVE MapInv'
  OBVIOUS
<1>1. /\ pc = "persist" /\ disk' = Saved(handle)
      /\ handle' = [handle EXCEPT !.recover = FALSE] /\ active' = active + 1
      /\ pc' = "admit" /\ UNCHANGED <<creating, toStop, jobs, faults>>
  BY DEF Persist
<1>2. handle # Lost /\ HandleInv /\ handle \in Handle /\ handle.window \in Windows
  BY <1>1 DEF MapInv, Types
<1>3. /\ disk' \in File /\ disk'.window = handle.window /\ disk'.ids = handle.ids
      /\ disk'.closed = handle.closed
  BY <1>1, <1>2 DEF Saved, Handle, File
<1>4. /\ handle' \in Handle /\ handle'.window = handle.window /\ handle'.ids = handle.ids
      /\ handle'.closed = handle.closed
  BY <1>1, <1>2 DEF Handle
<1>5. disk' # Missing /\ handle' # Lost
  <2>1. disk'.window # 0 /\ handle'.window # 0 /\ Missing.window = 0 /\ Lost.window = 0
    BY <1>2, <1>3, <1>4, MapAssumption DEF Missing, Lost
  <2>2. QED BY <2>1
<1>6. active' \in 0..Size
  BY <1>1, <1>2, MapAssumption DEF HandleInv, MapInv, Types
<1>7. Types'
  BY <1>1, <1>2, <1>3, <1>4, <1>6 DEF MapInv, Types, Places
<1>8. AllKnown(handle.ids, jobs)
  BY <1>1, <1>2 DEF HandleInv
<1>9. FileInv'
  <2>1. OnlyNext(handle.ids, jobs)
    BY <1>8 DEF AllKnown, OnlyNext
  <2>2. QED BY <2>1, <1>1, <1>2, <1>3, <1>5 DEF MapInv, FileInv, HandleInv
<1>10. HandleInv'
  BY <1>1, <1>2, <1>3, <1>4, <1>8 DEF HandleInv
<1>11. QED BY <1>5, <1>7, <1>9, <1>10 DEF MapInv

LEMMA AdmittedInv == MapInv /\ Admitted => MapInv'
<1> SUFFICES ASSUME MapInv, Admitted PROVE MapInv'
  OBVIOUS
<1>1. /\ pc = "admit" /\ pc' = "idle" /\ creating' = FALSE /\ active' = 0
      /\ UNCHANGED <<disk, handle, toStop, jobs, faults>>
  BY DEF Admitted
<1>2. handle # Lost /\ 0 \in 0..Size
  BY <1>1, MapAssumption DEF MapInv
<1>3. Types'
  BY <1>1, <1>2 DEF MapInv, Types, Places
<1>4. FileInv'
  BY <1>1 DEF MapInv, FileInv
<1>5. HandleInv'
  BY <1>1, <1>2 DEF MapInv, HandleInv
<1>6. QED BY <1>1, <1>2, <1>3, <1>4, <1>5 DEF MapInv

-----------------------------------------------------------------------------
(* cancel, and the end of a job.                                            *)

LEMMA CancelInv == MapInv /\ Cancel => MapInv'
<1> SUFFICES ASSUME MapInv, Cancel PROVE MapInv'
  OBVIOUS
<1>1. /\ handle # Lost /\ pc = "idle" /\ handle' = [handle EXCEPT !.closed = TRUE]
      /\ pc' = "close" /\ UNCHANGED <<disk, creating, active, toStop, jobs, faults>>
  BY DEF Cancel
<1>2. HandleInv /\ handle \in Handle /\ handle.window \in Windows
  BY <1>1 DEF MapInv, Types
<1>3. /\ handle' \in Handle /\ handle'.window = handle.window /\ handle'.ids = handle.ids
      /\ handle'.closed = TRUE /\ handle'.recover = handle.recover
  BY <1>1, <1>2 DEF Handle
<1>4. handle' # Lost
  BY <1>3 DEF Lost
<1>5. Types'
  BY <1>1, <1>2, <1>3 DEF MapInv, Types, Places
<1>6. FileInv'
  BY <1>1 DEF MapInv, FileInv
<1>7. HandleInv'
  BY <1>1, <1>2, <1>3 DEF HandleInv
<1>8. QED BY <1>4, <1>5, <1>6, <1>7 DEF MapInv

LEMMA PersistClosedInv == MapInv /\ PersistClosed => MapInv'
<1> SUFFICES ASSUME MapInv, PersistClosed PROVE MapInv'
  OBVIOUS
<1>1. /\ pc = "close" /\ disk' = Saved(handle) /\ toStop' = Items \ Unsubmitted(handle)
      /\ pc' = "stop" /\ UNCHANGED <<handle, creating, active, jobs, faults>>
  BY DEF PersistClosed
<1>2. handle # Lost /\ HandleInv /\ handle \in Handle /\ handle.window \in Windows
  BY <1>1 DEF MapInv, Types
<1>3. /\ disk' \in File /\ disk'.window = handle.window /\ disk'.ids = handle.ids
      /\ disk'.closed = handle.closed
  BY <1>1, <1>2 DEF Saved, Handle, File
<1>4. disk' # Missing
  <2>1. disk'.window # 0 /\ Missing.window = 0
    BY <1>2, <1>3, MapAssumption DEF Missing
  <2>2. QED BY <2>1
<1>5. toStop' \subseteq Items /\ \A i \in toStop' : handle.ids[i] # NoJob
  BY <1>1 DEF Unsubmitted
<1>6. Types'
  BY <1>1, <1>2, <1>3, <1>5 DEF MapInv, Types, Places
<1>7. disk.ids = handle.ids
  BY <1>1, <1>2 DEF HandleInv
<1>8. FileInv'
  BY <1>1, <1>3, <1>4, <1>7 DEF MapInv, FileInv
<1>9. HandleInv'
  BY <1>1, <1>2, <1>3, <1>5 DEF HandleInv
<1>10. QED BY <1>1, <1>2, <1>6, <1>8, <1>9 DEF MapInv

LEMMA StopNextInv == MapInv /\ StopNext => MapInv'
<1> SUFFICES ASSUME MapInv, StopNext PROVE MapInv'
  OBVIOUS
<1>1. PICK i \in Items : /\ IsFirst(i, toStop) /\ toStop' = toStop \ {i}
                         /\ jobs' = [jobs EXCEPT ![handle.ids[i]].terminal = TRUE]
  BY DEF StopNext
<1>2. pc = "stop" /\ UNCHANGED <<disk, handle, pc, creating, active, faults>>
  BY DEF StopNext
<1>3. handle.ids[i] \in DOMAIN jobs
  BY <1>1, <1>2 DEF MapInv, HandleInv, Named, IsFirst
<1>4. /\ jobs' \in Seq(Job) /\ DOMAIN jobs' = DOMAIN jobs
      /\ \A k \in DOMAIN jobs : jobs'[k].item = jobs[k].item
  BY <1>1, <1>3, StoppedJob DEF MapInv, Types
<1>5. QED BY <1>1, <1>2, <1>4, ItemsKept

LEMMA CancelledInv == MapInv /\ Cancelled => MapInv'
<1> SUFFICES ASSUME MapInv, Cancelled PROVE MapInv'
  OBVIOUS
<1>1. /\ pc = "stop" /\ pc' = "idle"
      /\ UNCHANGED <<disk, handle, creating, active, toStop, jobs, faults>>
  BY DEF Cancelled
<1>2. Types'
  BY <1>1 DEF MapInv, Types, Places
<1>3. FileInv'
  BY <1>1 DEF MapInv, FileInv
<1>4. handle # Lost /\ HandleInv'
  BY <1>1 DEF MapInv, HandleInv
<1>5. QED BY <1>1, <1>2, <1>3, <1>4 DEF MapInv

LEMMA FinishInv == ASSUME MapInv, NEW j \in DOMAIN jobs, Finish(j) PROVE MapInv'
<1>1. /\ jobs' = [jobs EXCEPT ![j].terminal = TRUE]
      /\ UNCHANGED <<disk, handle, pc, creating, active, toStop, faults>>
  BY DEF Finish
<1>2. /\ jobs' \in Seq(Job) /\ DOMAIN jobs' = DOMAIN jobs
      /\ \A k \in DOMAIN jobs : jobs'[k].item = jobs[k].item
  BY <1>1, StoppedJob DEF MapInv, Types
<1>3. QED BY <1>1, <1>2, ItemsKept

-----------------------------------------------------------------------------
LEMMA NextInv == MapInv /\ [Next]_vars => MapInv'
<1> SUFFICES ASSUME MapInv, [Next]_vars PROVE MapInv'
  OBVIOUS
<1>1. CASE SubmitMap \/ Reconnect
  BY <1>1, SubmitMapInv, ReconnectInv
<1>2. CASE Polling
  BY <1>2, StatusInv, CountActiveInv, SubmitInv, PersistInv, AdmittedInv DEF Polling
<1>3. CASE Cancel \/ Cancelling
  BY <1>3, CancelInv, PersistClosedInv, StopNextInv, CancelledInv DEF Cancelling
<1>4. CASE CallFails \/ Crash
  BY <1>4, CallFailsInv, CrashInv
<1>5. CASE \E j \in DOMAIN jobs : Finish(j)
  BY <1>5, FinishInv
<1>6. CASE UNCHANGED vars
  <2>1. toStop' \subseteq toStop /\ jobs \in Seq(Job) /\ UNCHANGED <<jobs, toStop>>
    BY <1>6 DEF vars, MapInv, Types
  <2>2. QED BY <1>6, <2>1, ItemsKept DEF vars
<1>7. QED BY <1>1, <1>2, <1>3, <1>4, <1>5, <1>6 DEF Next

LEMMA Invariant == Spec => []MapInv
  BY InitInv, NextInv, PTL DEF Spec

\* Ids are those of the items' own jobs, in the file and in the handle, and
\* whoever is inside a call has a handle (RequestState, MapHandle).
THEOREM TypeCorrect == Spec => []TypeOK
<1>1. MapInv => TypeOK
  <2> SUFFICES ASSUME MapInv PROVE TypeOK
    OBVIOUS
  <2>1. ASSUME NEW ids \in [Items -> Nat], Named(ids, jobs)
        PROVE  ids \in Ids /\ OwnIds(ids)
    <3>1. jobs \in Seq(Job)
      BY DEF MapInv, Types
    <3>2. \A i \in Items : ids[i] \in 0..Len(jobs)
      BY <2>1, <3>1 DEF Named, NoJob
    <3>3. QED BY <2>1, <3>2 DEF Ids, OwnIds, Named
  <2>2. disk # Missing => disk.window \in Windows /\ disk.ids \in Ids /\ OwnIds(disk.ids)
    BY <2>1 DEF MapInv, Types, FileInv, File
  <2>3. handle # Lost => handle.window \in Windows /\ handle.ids \in Ids /\ OwnIds(handle.ids)
    BY <2>1 DEF MapInv, Types, HandleInv, Handle
  <2>4. QED BY <2>2, <2>3 DEF MapInv, Types, Places, TypeOK
<1>2. QED BY Invariant, <1>1, PTL

\* A map is idempotent by request and item, however often its caller dies
\* between a submission and the write of the file (_submit_or_recover_item).
THEOREM RunsOnce == Spec => []OneJobPerItem
<1>1. MapInv => OneJobPerItem
  BY DEF MapInv, FileInv, Single, OneJobPerItem
<1>2. QED BY Invariant, <1>1, PTL

\* The one job the file may not name is that of the first item without an id,
\* the only one that the recovery of MapHandle looks for.
THEOREM OrphanFound == Spec => []OrphanIsNext
<1>1. MapInv => OrphanIsNext
  <2> SUFFICES ASSUME MapInv, NEW i \in Items, disk.ids[i] = NoJob,
                      NEW j \in DOMAIN jobs, jobs[j].item = i
               PROVE  IsFirst(i, Unsubmitted(disk))
    BY DEF OrphanIsNext, JobsOf
  <2>1. j # NoJob
    BY JobItems DEF MapInv, Types, NoJob
  <2>2. IsNext(i, disk.ids)
    BY <2>1 DEF MapInv, FileInv, OnlyNext
  <2>3. QED BY <2>2 DEF IsNext, IsFirst, Unsubmitted
<1>2. QED BY Invariant, <1>1, PTL

\* Nobody submits for a request that its file says is closed, the caller that
\* cancelled or one that reconnects (cancel, _advance_admission).
THEOREM StaysClosed == Spec => ClosedForGood
<1>1. MapInv /\ [Next]_vars => [disk # Missing /\ disk.closed => Len(jobs') = Len(jobs)]_vars
  <2> SUFFICES ASSUME MapInv, Next, disk.closed PROVE Len(jobs') = Len(jobs)
    OBVIOUS
  <2>1. pc # "admit"
    BY DEF MapInv, HandleInv
  <2>2. UNCHANGED jobs \/ StopNext \/ \E j \in DOMAIN jobs : Finish(j)
    BY <2>1 DEF Next, Polling, Cancelling, SubmitMap, Reconnect, Status, CountActive,
                Submit, SubmitOrRecover, Persist, Admitted, Cancel, PersistClosed,
                Cancelled, CallFails, Crash
  <2>3. StopNext => \E k \in DOMAIN jobs : jobs' = [jobs EXCEPT ![k].terminal = TRUE]
    BY DEF StopNext, MapInv, HandleInv, Named, IsFirst
  <2>4. ASSUME NEW k \in DOMAIN jobs, jobs' = [jobs EXCEPT ![k].terminal = TRUE]
        PROVE  Len(jobs') = Len(jobs)
    <3>1. jobs \in Seq(Job) /\ jobs' \in Seq(Job) /\ DOMAIN jobs' = DOMAIN jobs
      BY <2>4, StoppedJob DEF MapInv, Types
    <3>2. QED BY <3>1
  <2>5. QED BY <2>2, <2>3, <2>4 DEF Finish
<1>2. QED BY Invariant, <1>1, PTL DEF Spec, ClosedForGood

-----------------------------------------------------------------------------
(* The window: what the handle knows to be in flight is within its count.   *)

InWindow == {j \in Live(jobs) : handle.ids[jobs[j].item] = j}
WindowInv ==
  /\ MapInv
  /\ pc = "admit" => Cardinality(InWindow) <= active
  /\ pc = "persist" => Cardinality(InWindow) <= active + 1

LEMMA InWindowFinite ==
  ASSUME MapInv PROVE IsFiniteSet(InWindow) /\ Cardinality(InWindow) \in Nat
<1>1. InWindow \subseteq 1..Len(jobs) /\ Len(jobs) \in Nat
  BY DEF InWindow, Live, MapInv, Types
<1>2. IsFiniteSet(1..Len(jobs))
  BY <1>1, FS_Interval
<1>3. IsFiniteSet(InWindow)
  BY <1>1, <1>2, FS_Subset
<1>4. QED BY <1>3, FS_CardinalityType

\* CountActive counts every job that is in flight.
LEMMA CountIsEnough ==
  ASSUME MapInv, handle # Lost
  PROVE  Cardinality(InWindow)
           <= Cardinality({i \in Items \ Unsubmitted(handle) : handle.ids[i] \in Live(jobs)})
<1> DEFINE S == {i \in Items \ Unsubmitted(handle) : handle.ids[i] \in Live(jobs)}
           f == [j \in InWindow |-> jobs[j].item]
<1>1. IsFiniteSet(S)
  <2>1. S \in SUBSET (1..Size) /\ Size \in Nat
    BY MapAssumption DEF Items
  <2>2. IsFiniteSet(1..Size)
    BY <2>1, FS_Interval
  <2>3. QED BY <2>1, <2>2, FS_Subset
<1>2. ASSUME NEW j \in InWindow PROVE jobs[j].item \in S
  <2>1. j \in Live(jobs) /\ j \in DOMAIN jobs /\ handle.ids[jobs[j].item] = j
    BY DEF InWindow, Live
  <2>2. jobs[j].item \in Items /\ j # NoJob
    BY <2>1, JobItems DEF MapInv, Types, NoJob
  <2>3. QED BY <2>1, <2>2 DEF Unsubmitted
<1>3. f \in Injection(InWindow, S)
  BY <1>2 DEF Injection, IsInjective, InWindow
<1>4. QED BY <1>1, <1>3, InWindowFinite, FS_Injection

\* One more job at most when an item is given its id.
LEMMA OneMore ==
  ASSUME MapInv, MapInv', NEW n, InWindow' \subseteq InWindow \cup {n}
  PROVE  /\ IsFiniteSet(InWindow') /\ Cardinality(InWindow') \in Nat
         /\ Cardinality(InWindow') <= Cardinality(InWindow) + 1
<1>1. IsFiniteSet(InWindow) /\ Cardinality(InWindow) \in Nat
  BY InWindowFinite
<1>2. /\ IsFiniteSet(InWindow \cup {n})
      /\ Cardinality(InWindow \cup {n}) <= Cardinality(InWindow) + 1
      /\ Cardinality(InWindow \cup {n}) \in Nat
  BY <1>1, FS_AddElement, FS_CardinalityType, SMTT(30)
<1>3. /\ IsFiniteSet(InWindow') /\ Cardinality(InWindow') \in Nat
      /\ Cardinality(InWindow') <= Cardinality(InWindow \cup {n})
  BY <1>2, FS_Subset, FS_CardinalityType
<1>4. QED BY <1>1, <1>2, <1>3

LEMMA Fewer ==
  ASSUME MapInv, MapInv', InWindow' \subseteq InWindow
  PROVE  /\ Cardinality(InWindow') \in Nat
         /\ Cardinality(InWindow') <= Cardinality(InWindow)
BY InWindowFinite, FS_Subset, FS_CardinalityType

WindowStep == Len(jobs') > Len(jobs) => Cardinality(Live(jobs')) <= handle.window

LEMMA SubmitWindow ==
  ASSUME WindowInv, MapInv', Submit PROVE WindowInv' /\ WindowStep
<1> PICK i \in Items : SubmitOrRecover(i, JobsOf(i))
  BY DEF Submit
<1> DEFINE found == IF handle.recover THEN JobsOf(i) ELSE {}
           job == [item |-> i, terminal |-> FALSE]
<1>1. /\ pc = "admit" /\ IsFirst(i, Unsubmitted(handle)) /\ active < handle.window
      /\ handle # Lost /\ HandleInv /\ handle \in Handle /\ jobs \in Seq(Job)
      /\ active \in Nat /\ handle.window \in Nat
  BY MapAssumption DEF SubmitOrRecover, WindowInv, MapInv, Types, Handle
<1>2. CASE Cardinality(found) > 1
  BY <1>1, <1>2 DEF SubmitOrRecover, Raised, Back, WindowInv, WindowStep
<1>3. CASE ~(Cardinality(found) > 1)
  <2>1. PICK n : /\ handle' = [handle EXCEPT !.ids[i] = n]
                 /\ \/ found = {} /\ jobs' = Append(jobs, job) /\ n = Len(jobs')
                    \/ n \in found /\ jobs' = jobs
    BY <1>3 DEF SubmitOrRecover
  <2>2. pc' = "persist" /\ UNCHANGED <<active, disk>>
    BY <1>3 DEF SubmitOrRecover
  <2>3. /\ \A k \in Items : handle'.ids[k] = IF k = i THEN n ELSE handle.ids[k]
        /\ DOMAIN jobs' \subseteq DOMAIN jobs \cup {n}
        /\ \A j \in DOMAIN jobs : jobs'[j] = jobs[j] /\ jobs[j].item \in Items
    <3>1. \A k \in Items : handle'.ids[k] = IF k = i THEN n ELSE handle.ids[k]
      BY <1>1, <2>1 DEF Handle
    <3>2. job \in Job
      BY <1>1 DEF Job, IsFirst, Unsubmitted
    <3>3. /\ DOMAIN jobs' \subseteq DOMAIN jobs \cup {n}
          /\ \A j \in DOMAIN jobs : jobs'[j] = jobs[j]
      BY <1>1, <2>1, <3>2, NewJob, SMTT(30)
    <3>4. QED BY <1>1, <3>1, <3>3, JobItems
  <2>4. InWindow' \subseteq InWindow \cup {n}
    BY <2>3 DEF InWindow, Live
  <2>5. /\ IsFiniteSet(InWindow') /\ Cardinality(InWindow') \in Nat
        /\ Cardinality(InWindow') <= active + 1
    <3>1. /\ IsFiniteSet(InWindow') /\ Cardinality(InWindow') \in Nat
          /\ Cardinality(InWindow') <= Cardinality(InWindow) + 1
      BY <2>4, OneMore DEF WindowInv
    <3>2. Cardinality(InWindow) \in Nat /\ Cardinality(InWindow) <= active
      BY <1>1, InWindowFinite DEF WindowInv
    <3>3. QED BY <1>1, <3>1, <3>2
  <2>6. WindowInv'
    BY <2>2, <2>5 DEF WindowInv
  <2>7. CASE jobs' = jobs
    BY <1>1, <2>6, <2>7 DEF WindowStep
  <2>8. CASE found = {} /\ jobs' = Append(jobs, job)
    <3>1. AllKnown(handle'.ids, jobs')
      BY <1>1, <2>2 DEF HandleInv, MapInv
    <3>2. Live(jobs') \subseteq InWindow'
      BY <3>1 DEF AllKnown, InWindow, Live
    <3>3. Cardinality(Live(jobs')) <= Cardinality(InWindow') /\ Cardinality(Live(jobs')) \in Nat
      BY <2>5, <3>2, FS_Subset, FS_CardinalityType
    <3>4. QED BY <1>1, <2>5, <2>6, <3>3 DEF WindowStep
  <2>9. QED BY <2>1, <2>7, <2>8
<1>4. QED BY <1>2, <1>3

\* A submission never takes the jobs in flight above the window, the one that an
\* earlier caller lost included (_advance_admission, _submit_or_recover_item).
THEOREM WindowKept == Spec => WindowRespected
<1>1. Init => WindowInv
  BY InitInv DEF WindowInv, Init
<1>2. WindowInv /\ [Next]_vars => WindowInv' /\ [WindowStep]_vars
  <2> SUFFICES ASSUME WindowInv, [Next]_vars PROVE WindowInv' /\ (WindowStep \/ UNCHANGED vars)
    OBVIOUS
  <2>1. MapInv /\ MapInv' /\ active \in Nat
    BY NextInv, MapAssumption DEF WindowInv, MapInv, Types
  <2>2. CASE Submit
    BY <2>1, <2>2, SubmitWindow
  <2>3. CASE CountActive
    <3>1. Cardinality(InWindow) <= active' /\ UNCHANGED <<jobs, handle>> /\ pc' = "admit"
      BY <2>1, <2>3, CountIsEnough DEF CountActive, MapInv
    <3>2. InWindow' = InWindow
      BY <3>1 DEF InWindow, Live
    <3>3. QED BY <2>1, <3>1, <3>2 DEF WindowInv, WindowStep
  <2>4. CASE Persist
    <3>1. /\ pc = "persist" /\ pc' = "admit" /\ active' = active + 1 /\ UNCHANGED jobs
          /\ handle' = [handle EXCEPT !.recover = FALSE] /\ handle \in Handle
      BY <2>1, <2>4 DEF Persist, MapInv, Types
    <3>2. InWindow' = InWindow
      BY <3>1 DEF InWindow, Live, Handle
    <3>3. QED BY <2>1, <3>1, <3>2 DEF WindowInv, WindowStep
  <2>5. CASE \E j \in DOMAIN jobs : Finish(j)
    <3>1. PICK j \in DOMAIN jobs : /\ jobs' = [jobs EXCEPT ![j].terminal = TRUE]
                                  /\ UNCHANGED <<handle, pc, active>>
      BY <2>5 DEF Finish
    <3>2. /\ jobs \in Seq(Job) /\ jobs' \in Seq(Job) /\ DOMAIN jobs' = DOMAIN jobs
          /\ \A k \in DOMAIN jobs : jobs'[k].item = jobs[k].item
      BY <2>1, <3>1, StoppedJob DEF MapInv, Types
    <3>3. \A k \in DOMAIN jobs : ~jobs'[k].terminal => ~jobs[k].terminal
      BY <3>1, <3>2 DEF Job
    <3>4. InWindow' \subseteq InWindow
      BY <3>1, <3>2, <3>3 DEF InWindow, Live
    <3>5. /\ Cardinality(InWindow') \in Nat /\ Cardinality(InWindow) \in Nat
          /\ Cardinality(InWindow') <= Cardinality(InWindow)
      BY <2>1, <3>4, Fewer, InWindowFinite
    <3>6. WindowInv'
      BY <2>1, <3>1, <3>5 DEF WindowInv
    <3>7. Len(jobs') = Len(jobs)
      BY <3>2
    <3>8. QED BY <3>2, <3>6, <3>7 DEF WindowStep
  <2>6. CASE UNCHANGED vars
    BY <2>1, <2>6 DEF vars, WindowInv, InWindow, Live
  <2>7. CASE StopNext
    <3>1. pc = "stop" /\ pc' = "stop" /\ \E k \in DOMAIN jobs : jobs' = [jobs EXCEPT ![k].terminal = TRUE]
      BY <2>1, <2>7 DEF StopNext, MapInv, HandleInv, Named, IsFirst
    <3>2. jobs \in Seq(Job) /\ jobs' \in Seq(Job) /\ DOMAIN jobs' = DOMAIN jobs
      BY <2>1, <3>1, StoppedJob DEF MapInv, Types
    <3>3. Len(jobs') = Len(jobs)
      BY <3>2
    <3>4. QED BY <2>1, <3>1, <3>2, <3>3 DEF WindowInv, WindowStep
  <2>8. CASE SubmitMap \/ Reconnect \/ Status \/ Admitted \/ Cancel \/ PersistClosed
               \/ Cancelled \/ CallFails \/ Crash
    <3>1. UNCHANGED jobs /\ pc' \notin {"admit", "persist"}
      BY <2>1, <2>8 DEF SubmitMap, Reconnect, Status, Admitted, Cancel, PersistClosed,
           Cancelled, CallFails, Crash, Raised, Back, MapInv
    <3>2. Len(jobs) \in Nat
      BY <2>1 DEF MapInv, Types
    <3>3. QED BY <2>1, <3>1, <3>2 DEF WindowInv, WindowStep
  <2>9. QED BY <2>2, <2>3, <2>4, <2>5, <2>6, <2>7, <2>8 DEF Next, Polling, Cancelling
<1>3. Spec => [][WindowStep]_vars
  BY <1>1, <1>2, PTL DEF Spec
<1>4. QED BY <1>3, PTL DEF WindowRespected, WindowStep

-----------------------------------------------------------------------------
(* The trainer: batches of the stream.                                      *)

LEMMA Division ==
  ASSUME NEW n \in Nat, NEW d \in Nat \ {0}
  PROVE  /\ n \div d \in Nat /\ n % d \in 0..(d - 1)
         /\ n = d * (n \div d) + (n % d)
<1>1. n \div d \in Nat
  OBVIOUS
<1>2. n % d \in 0..(d - 1)
  OBVIOUS
<1>3. n = d * (n \div d) + (n % d)
  OBVIOUS
<1> QED BY <1>1, <1>2, <1>3

LEMMA Longer ==
  ASSUME NEW d \in Nat \ {0}, NEW x \in Nat, NEW y \in Nat, x < y
  PROVE  d * x + d <= d * y
<1>1. PICK e \in Nat : y = x + 1 + e
  <2>1. y - x - 1 \in Nat
    OBVIOUS
  <2> QED BY <2>1
<1>2. d * y = d * x + d + d * e /\ d * e \in Nat /\ d * x \in Nat
  BY <1>1
<1> QED BY <1>2

LEMMA DivisionIs ==
  ASSUME NEW d \in Nat \ {0}, NEW q \in Nat, NEW r \in 0..(d - 1), NEW n \in Nat, n = d * q + r
  PROVE  n \div d = q /\ n % d = r
<1> DEFINE p == n \div d s == n % d
<1>1. p \in Nat /\ s \in 0..(d - 1) /\ n = d * p + s
  BY Division
<1> HIDE DEF p, s
<1>2. ~(p < q)
  <2>1. p < q => d * p + d <= d * q
    BY <1>1, Longer
  <2>2. d * p \in Nat /\ d * q \in Nat
    BY <1>1
  <2> HIDE DEF p, s
  <2> QED BY <1>1, <2>1, <2>2
<1>3. ~(q < p)
  <2>1. q < p => d * q + d <= d * p
    BY <1>1, Longer
  <2>2. d * p \in Nat /\ d * q \in Nat
    BY <1>1
  <2> QED BY <1>1, <2>1, <2>2
<1>4. p = q
  BY <1>1, <1>2, <1>3
<1>5. s = r
  BY <1>1, <1>4
<1> QED BY <1>4, <1>5 DEF p, s

LEMMA TrainingConstants ==
  /\ Records \in Nat \ {0} /\ BatchSize \in Nat \ {0} /\ GradAccum \in Nat \ {0}
  /\ RequestedSteps \in Nat \ {0} /\ EvalEvery \in Nat \ {0} /\ SaveEvery \in Nat \ {0}
  /\ MaxPasses \in Nat
BY TrainingAssumption

Batches == {b \in [indices : Seq(Nat \X Nat), epoch : Nat, position : 0..Records] :
              Len(b.indices) <= BatchSize /\ (Len(b.indices) < BatchSize => b.position < Records)}

EpochPlace(n) == <<(n - 1) \div Records, (n - 1) % Records>>

\* The batch holds the examples from start on, and the cursor is behind the last one.
From(b, start) ==
  /\ b.indices = [k \in 1..Len(b.indices) |-> EpochPlace(start + k)]
  /\ start + Len(b.indices) = Records * b.epoch + b.position

LEMMA RoundFacts ==
  ASSUME NEW start \in Nat, NEW b \in Batches, From(b, start)
  PROVE  /\ Round(b) \in Batches /\ From(Round(b), start)
         /\ Len(Round(b).indices) = BatchSize \/ Len(Round(b).indices) > Len(b.indices)
<1> DEFINE n == Len(b.indices) e == b.epoch p == b.position m == Records * e
           take == Smaller(BatchSize - n, Records - p)
           here == [k \in 1..take |-> <<e, p + k - 1>>]
           all == b.indices \o here
           wraps == p + take = Records /\ n + take < BatchSize
           r == Round(b)
<1>1. /\ b.indices \in Seq(Nat \X Nat) /\ e \in Nat /\ p \in 0..Records
      /\ n \in 0..BatchSize /\ (n < BatchSize => p < Records)
  BY DEF Batches
<1>2. m \in Nat /\ start + n = m + p
  BY <1>1, TrainingConstants, SMTT(30) DEF From
<1>3. CASE n = BatchSize
  BY <1>3 DEF Round
<1>4. CASE n # BatchSize
  <2>1. /\ take \in Nat \ {0} /\ take <= BatchSize - n /\ take <= Records - p
        /\ take = BatchSize - n \/ take = Records - p
        /\ p \in 0..(Records - 1)
    BY <1>1, <1>4, TrainingConstants DEF Smaller
  <2>2. here \in Seq(Nat \X Nat) /\ Len(here) = take
    BY <1>1, <2>1, SMTT(30)
  <2>3. r = [indices |-> all,
             epoch |-> IF wraps THEN e + 1 ELSE e,
             position |-> IF wraps THEN 0 ELSE p + take]
    BY <1>4 DEF Round
  <2> HIDE DEF take, r
  <2>4. /\ all \in Seq(Nat \X Nat) /\ Len(all) = n + take
        /\ \A k \in 1..n : all[k] = b.indices[k]
        /\ \A k \in 1..take : all[n + k] = here[k]
    BY <1>1, <2>1, <2>2, ConcatAt
  <2>5. /\ r.indices = all /\ Len(r.indices) = n + take
        /\ r.epoch = (IF wraps THEN e + 1 ELSE e)
        /\ r.position = (IF wraps THEN 0 ELSE p + take)
    BY <2>3, <2>4
  <2>6. \A k \in 1..take : here[k] = <<e, p + k - 1>>
    OBVIOUS
  <2>7. \A k \in 1..n : b.indices[k] = EpochPlace(start + k)
    BY DEF From
  <2> HIDE DEF here, all, n, e, p
  <2>8. Records * (e + 1) = m + Records
    BY <1>1, TrainingConstants
  <2> HIDE DEF m
  <2>9. \A k \in 1..take : here[k] = EpochPlace(start + n + k)
    <3> SUFFICES ASSUME NEW k \in 1..take PROVE here[k] = EpochPlace(start + n + k)
      OBVIOUS
    <3> DEFINE z == start + n + k q == z - 1 s == p + k - 1
    <3>1. q = m + s
      BY <1>1, <1>2, <2>1
    <3>2. s \in 0..(Records - 1) /\ q \in Nat
      BY <1>1, <1>2, <2>1, <3>1, TrainingConstants
    <3> HIDE DEF z, q, s
    <3>3. q = Records * e + s
      BY <3>1 DEF m
    <3>4. q \div Records = e /\ q % Records = s
      <4>1. Records \in Nat \ {0} /\ e \in Nat
        BY <1>1, TrainingConstants
      <4> QED BY <4>1, <3>2, <3>3, DivisionIs
    <3>5. EpochPlace(z) = <<q \div Records, q % Records>>
      BY DEF EpochPlace, q
    <3>6. here[k] = <<e, s>>
      BY <2>6 DEF s
    <3> QED BY <3>4, <3>5, <3>6 DEF z
  <2>10. \A k \in 1..(n + take) : all[k] = EpochPlace(start + k)
    <3> SUFFICES ASSUME NEW k \in 1..(n + take) PROVE all[k] = EpochPlace(start + k)
      OBVIOUS
    <3>1. CASE k <= n
      BY <1>1, <2>4, <2>7, <3>1
    <3>2. CASE k > n
      <4>1. k - n \in 1..take /\ n + (k - n) = k /\ start + n + (k - n) = start + k
        BY <1>1, <2>1, <3>2
      <4>2. all[n + (k - n)] = EpochPlace(start + n + (k - n))
        BY <2>4, <2>9, <4>1
      <4> QED BY <4>1, <4>2
    <3> QED BY <1>1, <2>1, <3>1, <3>2
  <2>11. all = [k \in 1..Len(all) |-> EpochPlace(start + k)]
    BY <2>4, <2>10
  <2>12. start + Len(all) = Records * r.epoch + r.position
    <3>1. CASE wraps
      <4>1. r.epoch = e + 1 /\ r.position = 0 /\ p + take = Records
        BY <2>5, <3>1
      <4>2. start + Len(all) = m + Records
        BY <1>1, <1>2, <2>1, <2>4, <4>1, TrainingConstants
      <4>3. Records * r.epoch = m + Records
        BY <2>8, <4>1
      <4>4. m + Records \in Nat
        BY <1>2, TrainingConstants
      <4> QED BY <4>1, <4>2, <4>3, <4>4
    <3>2. CASE ~wraps
      <4>1. r.epoch = e /\ r.position = p + take
        BY <2>5, <3>2
      <4>2. start + Len(all) = m + (p + take)
        BY <1>1, <1>2, <2>1, <2>4, TrainingConstants
      <4> QED BY <4>1, <4>2 DEF m
    <3> QED BY <3>1, <3>2
  <2>13. From(r, start)
    BY <2>5, <2>11, <2>12 DEF From
  <2>14. r \in Batches
    <3>1. r.epoch \in Nat /\ r.position \in 0..Records
      BY <1>1, <2>1, <2>5, TrainingConstants
    <3>2. n + take <= BatchSize /\ BatchSize \in Nat
      BY <1>1, <2>1, TrainingConstants
    <3>3. n + take < BatchSize => r.position < Records
      <4>1. CASE wraps
        BY <2>5, <4>1, TrainingConstants
      <4>2. CASE ~wraps
        BY <1>1, <2>1, <2>5, <4>2, TrainingConstants
      <4> QED BY <4>1, <4>2
    <3>4. r \in [indices : Seq(Nat \X Nat), epoch : Nat, position : 0..Records]
      BY <2>3, <2>4, <2>5, <3>1
    <3> QED BY <2>5, <3>2, <3>3, <3>4 DEF Batches
  <2>15. Len(r.indices) > n
    BY <1>1, <2>1, <2>5
  <2> QED BY <2>13, <2>14, <2>15 DEF r, n
<1> QED BY <1>3, <1>4

LEMMA EpochBatchFacts ==
  ASSUME NEW g \in Nat \ {0}
  PROVE  LET start == (g - 1) * BatchSize b == EpochBatch(g)
         IN  b \in Batches /\ From(b, start) /\ Len(b.indices) = BatchSize
<1> DEFINE N == BatchSize
           start == (g - 1) * BatchSize
           first == [indices |-> <<>>, epoch |-> start \div Records, position |-> start % Records]
           Good == {b \in Batches : From(b, start)}
           rounds == [x \in (1..N) \X Good |-> Round(x[2])]
           Eqn(h) == h = [i \in 0..N |-> IF i = 0 THEN first ELSE Round(h[i - 1])]
           after == CHOOSE h : Eqn(h)
<1>1. N \in Nat \ {0} /\ start \in Nat
  BY TrainingConstants
<1>2. first \in Good
  <2>1. start \div Records \in Nat /\ start % Records \in 0..(Records - 1)
        /\ start = Records * (start \div Records) + (start % Records)
    BY <1>1, TrainingConstants, Division
  <2>2. /\ first.indices = <<>> /\ first.epoch = start \div Records
        /\ first.position = start % Records /\ <<>> \in Seq(Nat \X Nat) /\ Len(<<>>) = 0
    OBVIOUS
  <2> DEFINE d == start \div Records r == start % Records
  <2>3. first = [indices |-> <<>>, epoch |-> d, position |-> r]
    OBVIOUS
  <2>4. d \in Nat /\ r \in 0..(Records - 1) /\ start = Records * d + r
    BY <2>1
  <2> HIDE DEF d, r, start
  <2>5. first \in [indices : Seq(Nat \X Nat), epoch : Nat, position : 0..Records]
    BY <2>2, <2>3, <2>4, TrainingConstants
  <2> HIDE DEF first
  <2>6. first \in Batches
    BY <1>1, <2>2, <2>4, <2>5, TrainingConstants DEF Batches, d, r
  <2>7. first.indices = [k \in 1..Len(first.indices) |-> EpochPlace(start + k)]
    BY <2>2
  <2>8. start + Len(first.indices) = Records * first.epoch + first.position
    BY <1>1, <2>1, <2>2
  <2> QED BY <2>6, <2>7, <2>8 DEF From
<1> HIDE DEF first, start
<1>3. \A b \in Good : Round(b) \in Good
  BY <1>1, RoundFacts
<1>4. rounds \in [(1..N) \X Good -> Good]
  BY <1>3
<1>5. \A i \in 1..N : \A b \in Good : rounds[<<i, b>>] = Round(b)
  OBVIOUS
<1> HIDE DEF N, rounds, Good
<1>6. PICK f \in [0..N -> Good] : f[0] = first /\ \A i \in 1..N : f[i] = rounds[<<i, f[i - 1]>>]
  <2>1. \E f \in [0..N -> Good] : Follows(f, first, rounds, N)
    BY <1>1, <1>2, <1>4, Recursion
  <2> QED BY <2>1 DEF Follows
<1>7. ASSUME NEW i \in 1..N PROVE i - 1 \in 0..N /\ f[i - 1] \in Good /\ f[i] = Round(f[i - 1])
  <2>1. i - 1 \in 0..N
    BY <1>1
  <2> QED BY <1>5, <1>6, <2>1
<1>8. Eqn(f)
  <2>1. ASSUME NEW i \in 0..N PROVE f[i] = IF i = 0 THEN first ELSE Round(f[i - 1])
    <3>1. CASE i = 0
      BY <1>6, <3>1
    <3>2. CASE i # 0
      <4>1. i \in 1..N
        BY <1>1, <3>2
      <4> QED BY <1>7, <3>2, <4>1
    <3> QED BY <3>1, <3>2
  <2> QED BY <2>1
<1>9. Eqn(after)
  BY <1>8
<1>10. after \in [0..N -> Good] /\ \A i \in 1..N : after[i] = Round(after[i - 1])
  <2> DEFINE h == after
  <2>1. h = [i \in 0..N |-> IF i = 0 THEN first ELSE Round(h[i - 1])]
    BY <1>9
  <2> HIDE DEF h
  <2>2. \A i \in 0..N : h[i] = IF i = 0 THEN first ELSE Round(h[i - 1])
    BY <2>1
  <2>3. h[0] = first /\ \A i \in 1..N : h[i] = Round(h[i - 1])
    <3>1. 0 \in 0..N /\ \A i \in 1..N : i \in 0..N /\ i # 0
      BY <1>1
    <3> QED BY <2>2, <3>1
  <2> DEFINE Y == {i \in 0..N : h[i] \in Good}
  <2>4. 0 \in Y
    BY <1>1, <1>2, <2>3
  <2>5. \A i \in 0..(N - 1) : i \in Y => i + 1 \in Y
    <3> SUFFICES ASSUME NEW i \in 0..(N - 1), i \in Y PROVE i + 1 \in Y
      OBVIOUS
    <3>1. i + 1 \in 1..N /\ i + 1 \in 0..N /\ i + 1 - 1 = i
      BY <1>1
    <3>2. h[i + 1] = Round(h[i])
      BY <2>3, <3>1
    <3> QED BY <1>3, <3>1, <3>2
  <2> HIDE DEF Y
  <2>6. 0..N \subseteq Y
    BY <1>1, <2>4, <2>5, ReachesAll
  <2>7. \A i \in 0..N : h[i] \in Good
    BY <2>6 DEF Y
  <2>8. h \in [0..N -> Good]
    BY <2>1, <2>7
  <2> QED BY <2>3, <2>8 DEF h
<1> HIDE DEF after
<1>11. EpochBatch(g) = after[N]
  BY DEF EpochBatch, after, N, first, start
<1> DEFINE Z == {i \in 0..N : Len(after[i].indices) >= i}
<1>12. \A i \in 0..N : /\ after[i] \in Good /\ after[i] \in Batches /\ From(after[i], start)
                       /\ Len(after[i].indices) \in 0..N
  BY <1>1, <1>10 DEF Good, Batches, N
<1>13. 0 \in Z
  BY <1>1, <1>12
<1>14. \A i \in 0..(N - 1) : i \in Z => i + 1 \in Z
  <2> SUFFICES ASSUME NEW i \in 0..(N - 1), i \in Z PROVE i + 1 \in Z
    OBVIOUS
  <2>1. i \in 0..N /\ i + 1 \in 0..N /\ i + 1 \in 1..N /\ i + 1 - 1 = i
    BY <1>1
  <2>2. after[i + 1] = Round(after[i])
    BY <1>10, <2>1
  <2>3. Len(after[i + 1].indices) = N \/ Len(after[i + 1].indices) > Len(after[i].indices)
    BY <1>1, <1>12, <2>1, <2>2, RoundFacts DEF N
  <2> QED BY <1>1, <1>12, <2>1, <2>3
<1> HIDE DEF Z
<1>15. N \in Z
  BY <1>1, <1>13, <1>14, ReachesEnd
<1>16. N \in 0..N
  BY <1>1
<1>17. Len(after[N].indices) = N
  BY <1>1, <1>12, <1>15, <1>16 DEF Z
<1> QED BY <1>11, <1>12, <1>16, <1>17 DEF start, N

\* Place and NextUntrained, for sources that are sampled by weight or not.
PlaceIn(w, n) == IF w THEN <<(n - 1) \div BatchSize + 1, ((n - 1) % BatchSize) + 1>>
                 ELSE <<(n - 1) \div Records, (n - 1) % Records>>
CursorAt(w, n) ==
  IF w THEN [batch |-> (n \div BatchSize) + 1]
  ELSE [batch |-> (n \div BatchSize) + 1,
        epoch |-> PlaceIn(w, n + 1)[1], position |-> PlaceIn(w, n + 1)[2]]

LEMMA IndicesAre ==
  ASSUME NEW g \in Nat \ {0}
  PROVE  Indices(g) = [k \in 1..BatchSize |-> PlaceIn(weighted, (g - 1) * BatchSize + k)]
<1> DEFINE start == (g - 1) * BatchSize b == EpochBatch(g)
<1>1. start \in Nat /\ BatchSize \in Nat \ {0} /\ g - 1 \in Nat
  BY TrainingConstants
<1>2. start = BatchSize * (g - 1)
  BY <1>1
<1>3. CASE weighted
  <2>1. ASSUME NEW k \in 1..BatchSize PROVE PlaceIn(weighted, start + k) = <<g, k>>
    <3> DEFINE h == g - 1 z == start + k n == z - 1 r == k - 1
    <3>1. n = BatchSize * h + r /\ h \in Nat /\ r \in 0..(BatchSize - 1) /\ n \in Nat
          /\ h + 1 = g /\ r + 1 = k
      <4> HIDE DEF start
      <4>1. start = BatchSize * h /\ h \in Nat /\ h + 1 = g
        BY <1>1, <1>2
      <4>2. n = start + r /\ r \in 0..(BatchSize - 1) /\ n \in Nat /\ r + 1 = k
        BY <1>1
      <4> QED BY <4>1, <4>2
    <3> HIDE DEF z, n, r, h, start
    <3>2. n \div BatchSize = h /\ n % BatchSize = r
      BY <1>1, <3>1, DivisionIs
    <3>3. PlaceIn(weighted, z) = <<n \div BatchSize + 1, (n % BatchSize) + 1>>
      BY <1>3 DEF PlaceIn, n
    <3> QED BY <3>1, <3>2, <3>3 DEF z
  <2>2. Indices(g) = [k \in 1..BatchSize |-> <<g, k>>]
    BY <1>3 DEF Indices, WeightedBatch
  <2> HIDE DEF start
  <2>3. [k \in 1..BatchSize |-> <<g, k>>] = [k \in 1..BatchSize |-> PlaceIn(weighted, start + k)]
    BY <2>1
  <2> QED BY <2>2, <2>3 DEF start
<1>4. CASE ~weighted
  <2>1. From(b, start) /\ Len(b.indices) = BatchSize
    BY EpochBatchFacts
  <2>2. \A z : PlaceIn(weighted, z) = EpochPlace(z)
    BY <1>4 DEF PlaceIn, EpochPlace
  <2>3. Indices(g) = b.indices
    BY <1>4 DEF Indices
  <2> HIDE DEF start, b
  <2>4. b.indices = [k \in 1..BatchSize |-> EpochPlace(start + k)]
    BY <2>1 DEF From
  <2>5. [k \in 1..BatchSize |-> EpochPlace(start + k)] = [k \in 1..BatchSize |-> PlaceIn(weighted, start + k)]
    BY <2>2
  <2> QED BY <2>3, <2>4, <2>5 DEF start
<1> QED BY <1>3, <1>4

LEMMA NextCursor ==
  ASSUME NEW g \in Nat \ {0}
  PROVE  CursorForNext(g) = CursorAt(weighted, (g - 1) * BatchSize)
<1> DEFINE n == (g - 1) * BatchSize h == g - 1
<1>1. n \in Nat /\ BatchSize \in Nat \ {0} /\ h \in Nat /\ n = BatchSize * h + 0 /\ h + 1 = g
      /\ 0 \in 0..(BatchSize - 1)
  BY TrainingConstants
<1>2. CursorForNext(g) = IF weighted THEN [batch |-> g]
                         ELSE [batch |-> g, epoch |-> n \div Records, position |-> n % Records]
  BY DEF CursorForNext
<1> HIDE DEF n, h
<1>3. n \div BatchSize = h
  BY <1>1, DivisionIs
<1>5. ~weighted => PlaceIn(weighted, n + 1) = <<n \div Records, n % Records>>
  <2> DEFINE z == n + 1
  <2>1. z - 1 = n
    BY <1>1
  <2> HIDE DEF z
  <2>2. ~weighted => PlaceIn(weighted, z) = <<(z - 1) \div Records, (z - 1) % Records>>
    BY DEF PlaceIn
  <2> QED BY <2>1, <2>2 DEF z
<1>6. CursorAt(weighted, n) = IF weighted THEN [batch |-> g]
                         ELSE [batch |-> g, epoch |-> n \div Records, position |-> n % Records]
  BY <1>1, <1>3, <1>5 DEF CursorAt
<1> QED BY <1>2, <1>6 DEF n

LEMMA CursorAfter ==
  ASSUME NEW g \in Nat \ {0}
  PROVE  CursorOfBatch(g) = CursorAt(weighted, g * BatchSize)
<1> DEFINE start == (g - 1) * BatchSize b == EpochBatch(g) n == g * BatchSize
           e == b.epoch p == b.position
<1>1. BatchSize \in Nat \ {0} /\ Records \in Nat \ {0} /\ n \in Nat /\ start \in Nat
      /\ n = start + BatchSize /\ n = BatchSize * g + 0 /\ 0 \in 0..(BatchSize - 1)
  BY TrainingConstants
<1>2. From(b, start) /\ Len(b.indices) = BatchSize /\ b \in Batches
  BY EpochBatchFacts
<1>3. e \in Nat /\ p \in 0..Records
  BY <1>2 DEF Batches
<1>4. CursorOfBatch(g) =
        IF weighted THEN [batch |-> g + 1]
        ELSE [batch |-> g + 1, epoch |-> e + (IF p = Records THEN 1 ELSE 0), position |-> p % Records]
  BY DEF CursorOfBatch
<1>5. n = Records * e + p
  <2> HIDE DEF n, start, b
  <2> QED BY <1>1, <1>2 DEF From
<1> HIDE DEF n, start, b, e, p
<1>6. n \div BatchSize = g
  BY <1>1, DivisionIs
<1>7. n \div Records = e + (IF p = Records THEN 1 ELSE 0) /\ n % Records = p % Records
  <2>1. CASE p = Records
    <3> DEFINE f == e + 1
    <3>1. n = Records * f + 0 /\ f \in Nat
      BY <1>1, <1>3, <1>5, <2>1
    <3>2. 0 \in 0..(Records - 1)
      BY <1>1
    <3> HIDE DEF f
    <3>3. n \div Records = f /\ n % Records = 0
      BY <1>1, <3>1, <3>2, DivisionIs
    <3>4. p % Records = 0
      BY <1>1, <2>1
    <3> QED BY <2>1, <3>3, <3>4 DEF f
  <2>2. CASE p # Records
    <3>1. p \in 0..(Records - 1)
      BY <1>1, <1>3, <2>2
    <3>2. n \div Records = e /\ n % Records = p
      BY <1>1, <1>3, <1>5, <3>1, DivisionIs
    <3>3. p % Records = p
      BY <1>1, <3>1
    <3> QED BY <1>3, <2>2, <3>2, <3>3
  <2> QED BY <2>1, <2>2
<1>9. ~weighted => PlaceIn(weighted, n + 1) = <<n \div Records, n % Records>>
  <2> DEFINE z == n + 1
  <2>1. z - 1 = n
    BY <1>1
  <2> HIDE DEF z
  <2>2. ~weighted => PlaceIn(weighted, z) = <<(z - 1) \div Records, (z - 1) % Records>>
    BY DEF PlaceIn
  <2> QED BY <2>1, <2>2 DEF z
<1>10. CursorAt(weighted, n) =
         IF weighted THEN [batch |-> g + 1]
         ELSE [batch |-> g + 1, epoch |-> n \div Records, position |-> n % Records]
  BY <1>6, <1>9 DEF CursorAt
<1> QED BY <1>4, <1>7, <1>10 DEF n

\* n examples of the stream, from the one after the first a.
Piece(w, a, n) == [k \in 1..n |-> [example |-> PlaceIn(w, a + k), pair |-> PlaceIn(w, a + k)]]

LEMMA PieceIsSequence ==
  ASSUME NEW w, NEW a \in Nat, NEW n \in Nat
  PROVE  Len(Piece(w, a, n)) = n /\ DOMAIN Piece(w, a, n) = 1..n
         /\ \E S : Piece(w, a, n) \in Seq(S)
<1> DEFINE item(k) == [example |-> PlaceIn(w, a + k), pair |-> PlaceIn(w, a + k)]
           S == {item(k) : k \in 1..n}
<1>1. Piece(w, a, n) \in Seq(S)
  <2>1. Piece(w, a, n) = [k \in 1..n |-> item(k)]
    BY DEF Piece
  <2>2. \A k \in 1..n : item(k) \in S
    OBVIOUS
  <2> HIDE DEF item, S
  <2> QED BY <2>1, <2>2
<1>2. Len(Piece(w, a, n)) = n /\ DOMAIN Piece(w, a, n) = 1..n
  BY DEF Piece
<1> HIDE DEF S
<1> QED BY <1>1, <1>2

Joined(w, a, m, b, n) == Piece(w, a, m) \o Piece(w, b, n) = Piece(w, a, m + n)

LEMMA PiecesJoin ==
  ASSUME NEW w, NEW a \in Nat, NEW m \in Nat, NEW n \in Nat, NEW b \in Nat, b = a + m
  PROVE  Joined(w, a, m, b, n)
<1> DEFINE item(i) == [example |-> PlaceIn(w, i), pair |-> PlaceIn(w, i)]
           S == {item(i) : i \in Nat}
           s == Piece(w, a, m) t == Piece(w, b, n) u == Piece(w, a, m + n)
<1>1. /\ s = [k \in 1..m |-> item(a + k)] /\ t = [k \in 1..n |-> item(a + m + k)]
      /\ u = [k \in 1..(m + n) |-> item(a + k)]
  BY DEF Piece
<1>2. \A i \in Nat : item(i) \in S
  OBVIOUS
<1> HIDE DEF item, S, s, t, u
<1>3. s \in Seq(S) /\ t \in Seq(S) /\ u \in Seq(S) /\ Len(s) = m /\ Len(t) = n /\ Len(u) = m + n
  BY <1>1, <1>2
<1>4. /\ s \o t \in Seq(S) /\ Len(s \o t) = m + n
      /\ \A k \in 1..m : (s \o t)[k] = s[k]
      /\ \A k \in 1..n : (s \o t)[m + k] = t[k]
  <2>1. /\ s \o t \in Seq(S) /\ Len(s \o t) = Len(s) + Len(t)
        /\ \A k \in 1..Len(s) : (s \o t)[k] = s[k]
        /\ \A k \in 1..Len(t) : (s \o t)[Len(s) + k] = t[k]
    <3>1. s \in Seq(S) /\ t \in Seq(S)
      BY <1>3
    <3> QED BY <3>1, ConcatAt
  <2> QED BY <1>3, <2>1, Zenon
<1> DEFINE v == s \o t
<1> HIDE DEF v
<1>5. v \in Seq(S) /\ Len(v) = m + n /\ (\A k \in 1..m : v[k] = s[k]) /\ (\A k \in 1..n : v[m + k] = t[k])
  BY <1>4 DEF v
<1>6. ASSUME NEW k \in 1..(m + n) PROVE v[k] = u[k]
  <2>0. u[k] = item(a + k)
    BY <1>1
  <2>1. CASE k <= m
    BY <1>1, <1>5, <2>0, <2>1
  <2>2. CASE k > m
    <3>1. k - m \in 1..n /\ m + (k - m) = k /\ a + m + (k - m) = a + k
      BY <2>2
    <3>2. v[m + (k - m)] = t[k - m]
      BY <1>5, <3>1
    <3>3. t[k - m] = item(a + m + (k - m))
      BY <1>1, <3>1
    <3> QED BY <2>0, <3>1, <3>2, <3>3
  <2> QED BY <2>1, <2>2
<1>7. v = u
  <2>1. v = [k \in 1..(m + n) |-> v[k]] /\ u = [k \in 1..(m + n) |-> u[k]]
    BY <1>3, <1>5
  <2> QED BY <1>6, <2>1
<1>8. s \o t = u
  BY <1>7 DEF v
<1> QED BY <1>8 DEF s, t, u, Joined

-----------------------------------------------------------------------------
(* The trainer: what a process and its checkpoints have of the stream.      *)

\* Where the process is, and the batch its loader is at.
RunPlaces ==
  /\ place \in {"off", "micro", "apply", "validate", "best", "number", "swa"}
  /\ saved \in 0..2 /\ torn \in BOOLEAN
  /\ place # "off" => /\ step \in 1..Steps
                      /\ micro \in 0..GradAccum /\ (place = "micro" <=> micro < GradAccum)
                      /\ loader \in {0, GlobalBatch}
FilesTyped ==
  /\ files = [t \in Stems |-> [weights |-> files[t].weights, state |-> files[t].state,
                               manifest |-> files[t].manifest]]
  /\ \A t \in Stems : files[t].manifest.step \in 0..Steps
  /\ files[Swa].state = Unreadable

\* What the process has in its memory is a piece of the stream, and so is what each
\* member of a checkpoint says of itself, whatever the other members are of.
Accumulated(p, m) == IF p \in {"micro", "apply"} THEN m * BatchSize ELSE 0
Done(p, s) == IF p \in {"micro", "apply"} THEN s - 1 ELSE s
MemoryExact ==
  /\ opt = Done(place, step)
  /\ weights = Piece(weighted, 0, PerStep * opt)
  /\ grads = Piece(weighted, PerStep * opt, Accumulated(place, micro))
MemberExact(w, m, member) ==
  Loads(member) =>
    CASE m = "weights" -> member.trained = Piece(w, 0, PerStep * member.step)
      [] m = "state" -> member.opt = member.step
      [] m = "manifest" -> member.cursor = CursorAt(w, PerStep * member.step)
FilesExact ==
  \A t \in Stems \ {Swa} : \A m \in {"weights", "state", "manifest"} :
    MemberExact(weighted, m, files[t][m])
TrainInv ==
  /\ RunPlaces
  /\ FilesTyped
  /\ ~torn => (place # "off" => MemoryExact) /\ FilesExact

LEMMA StepsPositive == Steps \in Nat \ {0} /\ Swa = Steps + 1 /\ Swa \in Stems /\ Best \in Stems \ {Swa}
<1>1. \A n \in Nat : n \div BatchSize \in Nat
  BY TrainingConstants
<1>2. MaxPasses * Records \in Nat
  BY TrainingConstants
<1>3. Steps \in Nat \ {0}
  BY <1>1, <1>2, TrainingConstants DEF Steps, Smaller, Larger
<1> QED BY <1>3 DEF Swa, Stems, Best

\* Batch f begins after a + n examples.
BeginsAfter(f, a, n) ==
  f \in Nat \ {0} /\ a \in Nat /\ n \in Nat /\ (f - 1) * BatchSize = a + n

LEMMA Arithmetic ==
  ASSUME NEW s \in Nat \ {0}, NEW m \in 0..GradAccum
  PROVE  /\ PerStep \in Nat /\ PerStep * (s - 1) \in Nat /\ PerStep * s \in Nat
         /\ m * BatchSize \in Nat
         /\ PerStep * (s - 1) + GradAccum * BatchSize = PerStep * s
         /\ BeginsAfter(FirstBatch(s) + m, PerStep * (s - 1), m * BatchSize)
         /\ FirstBatch(s + 1) = FirstBatch(s) + GradAccum
         /\ (FirstBatch(s) + GradAccum - 1) * BatchSize = PerStep * s
         /\ FirstBatch(s) + GradAccum - 1 \in Nat \ {0}
<1> DEFINE h == s - 1 g == h * GradAccum
<1>1. h \in Nat /\ s = h + 1 /\ m \in Nat /\ BatchSize \in Nat \ {0} /\ GradAccum \in Nat \ {0}
  BY TrainingConstants
<1>2. PerStep = BatchSize * GradAccum /\ FirstBatch(s) = g + 1
  BY DEF PerStep, FirstBatch
<1>3. FirstBatch(s + 1) = s * GradAccum + 1
  <2>1. s + 1 - 1 = s
    OBVIOUS
  <2> QED BY <2>1 DEF FirstBatch
<1>4. s * GradAccum = g + GradAccum /\ g \in Nat
  <2> HIDE DEF h
  <2> QED BY <1>1
<1>5. PerStep * h = g * BatchSize /\ PerStep * s = g * BatchSize + GradAccum * BatchSize
      /\ PerStep \in Nat
  <2> HIDE DEF h
  <2> QED BY <1>1, <1>2
<1>6. m * BatchSize \in Nat /\ g * BatchSize \in Nat /\ GradAccum * BatchSize \in Nat
  BY <1>1, <1>4
<1>7. (g + m) * BatchSize = g * BatchSize + m * BatchSize
      /\ (g + GradAccum) * BatchSize = g * BatchSize + GradAccum * BatchSize
  <2> HIDE DEF g
  <2> QED BY <1>1, <1>4
<1>8. FirstBatch(s) + m - 1 = g + m /\ FirstBatch(s) + GradAccum - 1 = g + GradAccum
  <2> HIDE DEF g
  <2> QED BY <1>1, <1>2, <1>4
<1> HIDE DEF g
<1>9. PerStep * (s - 1) = g * BatchSize
  BY <1>5
<1> HIDE DEF h
<1>10. FirstBatch(s) + m \in Nat \ {0}
  BY <1>1, <1>2, <1>4
<1>11. BeginsAfter(FirstBatch(s) + m, PerStep * (s - 1), m * BatchSize)
  <2> DEFINE f == FirstBatch(s) + m a == PerStep * (s - 1) n == m * BatchSize
  <2>1. (f - 1) * BatchSize = a + n
    <3>1. f - 1 = g + m
      BY <1>1, <1>2, <1>4
    <3>2. a = g * BatchSize
      BY <1>9
    <3>3. n = m * BatchSize
      OBVIOUS
    <3> HIDE DEF f, a, n
    <3>4. (f - 1) * BatchSize = (g + m) * BatchSize
      BY <3>1
    <3> QED BY <1>7, <3>2, <3>3, <3>4
  <2>2. f \in Nat \ {0} /\ a \in Nat /\ n \in Nat
    BY <1>6, <1>9, <1>10
  <2> HIDE DEF f, a, n
  <2>3. BeginsAfter(f, a, n)
    BY <2>1, <2>2 DEF BeginsAfter
  <2> QED BY <2>3 DEF f, a, n
<1>12. /\ PerStep \in Nat /\ PerStep * (s - 1) \in Nat /\ PerStep * s \in Nat
       /\ m * BatchSize \in Nat
       /\ PerStep * (s - 1) + GradAccum * BatchSize = PerStep * s
  BY <1>5, <1>6, <1>9
<1>13. /\ FirstBatch(s + 1) = FirstBatch(s) + GradAccum
       /\ (FirstBatch(s) + GradAccum - 1) * BatchSize = PerStep * s
       /\ FirstBatch(s) + GradAccum - 1 \in Nat \ {0}
  <2>1. FirstBatch(s + 1) = FirstBatch(s) + GradAccum
    BY <1>1, <1>2, <1>3, <1>4
  <2>2. FirstBatch(s) + GradAccum - 1 \in Nat \ {0}
    BY <1>1, <1>4, <1>8
  <2> DEFINE e == FirstBatch(s) + GradAccum - 1
  <2>3. e = g + GradAccum
    BY <1>8
  <2> HIDE DEF e
  <2>4. e * BatchSize = (g + GradAccum) * BatchSize
    BY <2>3
  <2>5. e * BatchSize = PerStep * s
    BY <1>5, <1>7, <2>4
  <2> QED BY <2>1, <2>2, <2>5 DEF e
<1> QED BY <1>11, <1>12, <1>13

\* The properties follow.
LEMMA StreamIsPiece == \A n \in Nat : Stream(n) = Piece(weighted, 0, n)
<1> SUFFICES ASSUME NEW n \in Nat PROVE Stream(n) = Piece(weighted, 0, n)
  OBVIOUS
<1>1. \A k \in 1..n : Place(k) = PlaceIn(weighted, 0 + k)
  BY DEF Place, PlaceIn
<1> QED BY <1>1 DEF Stream, Piece

LEMMA CursorIs == \A n \in Nat : NextUntrained(n) = CursorAt(weighted, n)
  BY DEF NextUntrained, CursorAt, Place, PlaceIn

LEMMA PiecesFromStart ==
  ASSUME NEW w, NEW m \in Nat, NEW n \in Nat
  PROVE  Piece(w, 0, m) \o Piece(w, m, n) = Piece(w, 0, m + n)
<1>1. m = 0 + m /\ 0 \in Nat
  OBVIOUS
<1>2. Joined(w, 0, m, m, n)
  BY <1>1, PiecesJoin
<1> QED BY <1>2 DEF Joined

LEMMA TrainedTheStream == TrainInv => TrainsTheStream
<1> SUFFICES ASSUME TrainInv, ~torn PROVE TrainsTheStream
  BY DEF TrainsTheStream
<1>1. ASSUME place # "off" PROVE OfTheStream
  <2> DEFINE a == PerStep * opt n == Accumulated(place, micro)
  <2>1. MemoryExact /\ step \in Nat \ {0} /\ micro \in 0..GradAccum
    BY <1>1, StepsPositive DEF TrainInv, RunPlaces
  <2>2. a \in Nat /\ n \in Nat
    BY <2>1, Arithmetic DEF MemoryExact, Accumulated, Done
  <2>3. weights = Piece(weighted, 0, a) /\ grads = Piece(weighted, a, n)
    BY <2>1, <2>2 DEF MemoryExact
  <2>4. opt = step - (IF place \in {"micro", "apply"} THEN 1 ELSE 0)
    BY <2>1 DEF MemoryExact, Done
  <2> HIDE DEF a, n
  <2>5. weights \o grads = Piece(weighted, 0, a + n) /\ a + n \in Nat
    <3>1. a = 0 + a /\ 0 \in Nat /\ a + n \in Nat /\ 0 \in Nat
      BY <2>2
    <3>2. Piece(weighted, 0, a) \o Piece(weighted, a, n) = Piece(weighted, 0, a + n)
      BY <2>2, PiecesFromStart
    <3> QED BY <2>3, <3>1, <3>2
  <2>6. weights \o grads = Stream(a + n)
    BY <2>5, StreamIsPiece
  <2>7. Len(weights \o grads) = a + n /\ Len(weights) = a
    BY <2>2, <2>3, <2>5, PieceIsSequence
  <2> QED BY <2>4, <2>6, <2>7 DEF OfTheStream, a
<1>2. ASSUME NEW t \in Stems \ {Swa}, Loads(files[t].manifest), OfOneSave(files[t])
      PROVE  Exact(files[t])
  <2> DEFINE c == files[t]
  <2>1. \A m \in {"weights", "state", "manifest"} : MemberExact(weighted, m, c[m])
    BY DEF TrainInv, FilesExact
  <2>2. Loads(c.weights) /\ Loads(c.state) /\ Loads(c.manifest)
    BY <1>2 DEF OfOneSave, Loads
  <2>3. c.weights.trained = Piece(weighted, 0, PerStep * c.manifest.step)
    BY <1>2, <2>1, <2>2 DEF MemberExact, OfOneSave
  <2>4. c.state.opt = c.manifest.step
    BY <1>2, <2>1, <2>2 DEF MemberExact, OfOneSave
  <2>5. c.manifest.cursor = CursorAt(weighted, PerStep * c.manifest.step)
    BY <1>2, <2>1, <2>2 DEF MemberExact
  <2>6. PerStep * c.manifest.step \in Nat
    <3>1. c.manifest.step \in Nat /\ PerStep \in Nat
      BY StepsPositive, TrainingConstants DEF TrainInv, FilesTyped, PerStep
    <3> QED BY <3>1
  <2> QED BY <2>3, <2>4, <2>5, <2>6, StreamIsPiece, CursorIs DEF Exact
<1> QED BY <1>1, <1>2 DEF TrainsTheStream

MemberNames == {"weights", "state", "manifest"}

LEMMA NoPiece == ASSUME NEW w, NEW a \in Nat PROVE Piece(w, a, 0) = <<>>
BY DEF Piece

LEMMA FilesStay ==
  ASSUME FilesTyped, UNCHANGED <<weighted, files>>
  PROVE  FilesTyped' /\ (FilesExact => FilesExact')
<1>1. FilesTyped'
  BY DEF FilesTyped
<1>2. FilesExact => FilesExact'
  BY DEF FilesExact, MemberExact, Loads
<1> QED BY <1>1, <1>2

LEMMA MemoryStays ==
  ASSUME MemoryExact, UNCHANGED <<weighted, weights, grads, opt>>,
         Done(place', step') = Done(place, step),
         Accumulated(place', micro') = Accumulated(place, micro)
  PROVE  MemoryExact'
BY DEF MemoryExact

LEMMA TrainStarts == TrainInit => TrainInv
<1> SUFFICES ASSUME TrainInit PROVE TrainInv
  OBVIOUS
<1>1. RunPlaces
  <2>1. place = "off" /\ saved = 0
    BY DEF TrainInit
  <2>2. torn \in BOOLEAN
    BY Zenon DEF TrainInit
  <2>3. saved \in 0..2
    BY <2>1
  <2> QED BY <2>1, <2>2, <2>3 DEF RunPlaces
<1>2. \A t \in Stems : files[t] = [weights |-> Unreadable, state |-> Unreadable, manifest |-> Unreadable]
  BY DEF TrainInit
<1>3. files = [t \in Stems |-> [weights |-> files[t].weights, state |-> files[t].state,
                                manifest |-> files[t].manifest]]
  BY DEF TrainInit
<1>4. Unreadable.step = 0 /\ 0 \in 0..Steps
  BY StepsPositive DEF Unreadable
<1>5. FilesTyped
  BY <1>2, <1>3, <1>4, StepsPositive DEF FilesTyped
<1>6. FilesExact
  <2>1. \A t \in Stems : \A m \in MemberNames : files[t][m] = Unreadable
    BY <1>2 DEF MemberNames
  <2> QED BY <1>4, <2>1 DEF FilesExact, MemberExact, Loads, MemberNames
<1>7. place = "off"
  BY DEF TrainInit
<1> QED BY <1>1, <1>5, <1>6, <1>7 DEF TrainInv

LEMMA Entered ==
  ASSUME TrainInv, NEW s \in 1..Steps, Enter(s), torn' \in BOOLEAN,
         ~torn' => ~torn /\ opt' = s - 1 /\ weights' = Piece(weighted, 0, PerStep * (s - 1))
  PROVE  TrainInv'
<1>1. /\ place' = "micro" /\ step' = s /\ micro' = 0 /\ grads' = <<>>
      /\ loader' \in {0, FirstBatch(s)} /\ UNCHANGED <<weighted, saved, files>>
  BY DEF Enter
<1>2. s \in Nat \ {0} /\ 0 \in 0..GradAccum /\ GradAccum \in Nat \ {0}
  BY StepsPositive, TrainingConstants
<1>3. GlobalBatch' = FirstBatch(s)
  <2>1. FirstBatch(s) \in Nat \ {0} /\ GlobalBatch' = FirstBatch(s) + 0
    BY <1>1, <1>2, TrainingConstants DEF GlobalBatch, FirstBatch
  <2> QED BY <2>1
<1>4. RunPlaces'
  BY <1>1, <1>2, <1>3 DEF TrainInv, RunPlaces
<1>5. FilesTyped' /\ (FilesExact => FilesExact')
  BY <1>1, FilesStay DEF TrainInv
<1>6. ~torn' => MemoryExact'
  <2> SUFFICES ASSUME ~torn' PROVE MemoryExact'
    OBVIOUS
  <2>1. opt' = Done(place', step') /\ weights' = Piece(weighted', 0, PerStep * opt')
    BY <1>1 DEF Done
  <2>2. Accumulated(place', micro') = 0
    BY <1>1, TrainingConstants DEF Accumulated
  <2>3. PerStep * opt' \in Nat
    BY <1>2, Arithmetic
  <2>4. grads' = Piece(weighted', PerStep * opt', 0)
    BY <1>1, <2>3, NoPiece
  <2> QED BY <2>1, <2>2, <2>4 DEF MemoryExact, PerStep
<1> QED BY <1>4, <1>5, <1>6 DEF TrainInv

LEMMA StartStep == ASSUME TrainInv, Start PROVE TrainInv'
<1>1. Enter(1) /\ opt' = 0 /\ weights' = <<>> /\ torn' = torn
  BY DEF Start
<1>2. 1 \in 1..Steps /\ 1 - 1 = 0 /\ PerStep * 0 = 0
  BY StepsPositive, TrainingConstants DEF PerStep
<1>3. weights' = Piece(weighted, 0, PerStep * (1 - 1))
  <2>1. Piece(weighted, 0, 0) = <<>>
    BY NoPiece
  <2> QED BY <1>1, <1>2, <2>1
<1>4. torn' \in BOOLEAN
  BY <1>1 DEF TrainInv, RunPlaces
<1> DEFINE one == 1
<1>5. one \in 1..Steps /\ Enter(one) /\ opt' = one - 1 /\ weights' = Piece(weighted, 0, PerStep * (one - 1))
  BY <1>1, <1>2, <1>3
<1> HIDE DEF one
<1> QED BY <1>1, <1>4, <1>5, Entered

LEMMA ResumeStep == ASSUME TrainInv, NEW t \in Stems, Resume(t) PROVE TrainInv'
<1> DEFINE c == files[t] s == c.manifest.step + 1
<1>1. /\ Loadable(t) /\ Enter(s) /\ weights' = c.weights.trained /\ opt' = c.state.opt
      /\ torn' = (torn \/ ~OfOneSave(c))
  BY DEF Resume
<1>2. /\ Loads(c.manifest) /\ Loads(c.weights) /\ Loads(c.state) /\ c.manifest.step < Steps
      /\ c.manifest.step \in 0..Steps
  BY <1>1 DEF Loadable, TrainInv, FilesTyped
<1>3. t # Swa
  BY <1>2 DEF TrainInv, FilesTyped, Loads, Unreadable
<1>4. s \in 1..Steps /\ s - 1 = c.manifest.step
  BY <1>2, StepsPositive
<1>5. torn' \in BOOLEAN
  BY <1>1 DEF TrainInv, RunPlaces
<1>6. ASSUME ~torn'
      PROVE  ~torn /\ opt' = s - 1 /\ weights' = Piece(weighted, 0, PerStep * (s - 1))
  <2>1. ~torn /\ c.weights.step = c.manifest.step /\ c.state.step = c.manifest.step
    BY <1>1, <1>6 DEF OfOneSave
  <2>2. MemberExact(weighted, "weights", c["weights"]) /\ MemberExact(weighted, "state", c["state"])
    BY <1>3, <2>1 DEF TrainInv, FilesExact
  <2>3. c.weights.trained = Piece(weighted, 0, PerStep * c.weights.step) /\ c.state.opt = c.state.step
    BY <1>2, <2>2 DEF MemberExact
  <2> HIDE DEF c, s
  <2> QED BY <1>1, <1>4, <2>1, <2>3
<1> HIDE DEF s
<1> QED BY <1>1, <1>4, <1>5, <1>6, Entered

LEMMA MicroStep == ASSUME TrainInv, Micro PROVE TrainInv'
<1> DEFINE gb == GlobalBatch a == PerStep * (step - 1) n == micro * BatchSize
           taken == [k \in 1..BatchSize |->
             [example |-> Indices(IF loader = 0 THEN gb ELSE loader)[k], pair |-> Indices(gb)[k]]]
<1>1. /\ place = "micro" /\ micro' = micro + 1
      /\ place' = IF micro' = GradAccum THEN "apply" ELSE "micro"
      /\ loader' = IF loader = 0 THEN 0 ELSE loader + 1
      /\ UNCHANGED <<weighted, step, weights, opt, saved, files, torn>>
  BY DEF Micro
<1>2. grads' = grads \o taken
  BY DEF Micro
<1>3. step \in Nat \ {0} /\ micro \in 0..GradAccum /\ micro < GradAccum /\ loader \in {0, gb}
      /\ step \in 1..Steps /\ GradAccum \in Nat \ {0}
  BY <1>1, StepsPositive, TrainingConstants DEF TrainInv, RunPlaces
<1>4. a \in Nat /\ n \in Nat /\ gb \in Nat \ {0} /\ (gb - 1) * BatchSize = a + n
  <2>1. gb = FirstBatch(step) + micro
    BY DEF GlobalBatch
  <2> HIDE DEF gb
  <2>2. a = PerStep * (step - 1) /\ n = micro * BatchSize
    OBVIOUS
  <2> HIDE DEF a, n
  <2>3. BeginsAfter(FirstBatch(step) + micro, PerStep * (step - 1), micro * BatchSize)
    BY <1>3, Arithmetic
  <2>4. BeginsAfter(gb, a, n)
    BY <2>1, <2>2, <2>3
  <2> QED BY <2>4 DEF BeginsAfter
<1>5. GlobalBatch' = gb + 1
  <2>1. GlobalBatch' = FirstBatch(step) + (micro + 1)
    BY <1>1 DEF GlobalBatch, FirstBatch
  <2>2. FirstBatch(step) \in Int
    BY <1>3, TrainingConstants DEF FirstBatch
  <2> QED BY <1>3, <2>1, <2>2 DEF GlobalBatch
<1> HIDE DEF gb, a, n
<1>6. RunPlaces'
  <2>1. micro + 1 \in 0..GradAccum /\ (micro + 1 = GradAccum \/ micro + 1 < GradAccum)
    BY <1>3
  <2>2. loader' \in {0, GlobalBatch'}
    BY <1>1, <1>3, <1>4, <1>5
  <2>3. place' \in {"micro", "apply"} /\ (place' = "micro" <=> micro' < GradAccum)
    BY <1>1, <1>3, <2>1
  <2> QED BY <1>1, <1>3, <2>1, <2>2, <2>3 DEF TrainInv, RunPlaces
<1>7. FilesTyped' /\ (FilesExact => FilesExact')
  BY <1>1, FilesStay DEF TrainInv
<1>8. taken = Piece(weighted, a + n, BatchSize)
  <2>1. Indices(IF loader = 0 THEN gb ELSE loader) = Indices(gb)
    BY <1>3
  <2>2. Indices(gb) = [k \in 1..BatchSize |-> PlaceIn(weighted, a + n + k)]
    BY <1>4, IndicesAre
  <2> QED BY <2>1, <2>2 DEF Piece
<1>9. ~torn => MemoryExact'
  <2> SUFFICES ASSUME ~torn PROVE MemoryExact'
    OBVIOUS
  <2>1. opt = step - 1 /\ weights = Piece(weighted, 0, PerStep * opt) /\ grads = Piece(weighted, PerStep * opt, n)
    BY <1>1 DEF TrainInv, MemoryExact, Done, Accumulated, n
  <2>2. opt' = Done(place', step') /\ weights' = Piece(weighted', 0, PerStep * opt')
    BY <1>1, <2>1 DEF Done
  <2>3. grads = Piece(weighted, a, n)
    BY <2>1 DEF a
  <2>4. grads' = Piece(weighted, a, n + BatchSize)
    <3> DEFINE b == a + n
    <3>1. b \in Nat /\ b = a + n /\ BatchSize \in Nat
      BY <1>4, TrainingConstants
    <3>2. taken = Piece(weighted, b, BatchSize)
      BY <1>8
    <3> HIDE DEF b, taken
    <3>3. Piece(weighted, a, n) \o Piece(weighted, b, BatchSize) = Piece(weighted, a, n + BatchSize)
      <4>1. Joined(weighted, a, n, b, BatchSize)
        BY <1>4, <3>1, PiecesJoin
      <4> QED BY <4>1 DEF Joined
    <3> QED BY <1>2, <2>3, <3>2, <3>3
  <2>5. Accumulated(place', micro') = n + BatchSize
    <3>1. (micro + 1) * BatchSize = micro * BatchSize + BatchSize
      BY <1>3, TrainingConstants
    <3>2. Accumulated(place', micro') = (micro + 1) * BatchSize
      BY <1>1 DEF Accumulated
    <3> QED BY <3>1, <3>2 DEF n
  <2>6. PerStep * opt' = a
    BY <1>1, <2>1 DEF a
  <2>7. grads' = Piece(weighted', PerStep * opt', Accumulated(place', micro'))
    BY <1>1, <2>4, <2>5, <2>6
  <2> QED BY <2>2, <2>7 DEF MemoryExact, PerStep
<1> QED BY <1>1, <1>6, <1>7, <1>9 DEF TrainInv

LEMMA ApplyStep == ASSUME TrainInv, Apply PROVE TrainInv'
<1> DEFINE a == PerStep * (step - 1) n == GradAccum * BatchSize
<1>1. /\ place = "apply" /\ place' \in {"validate", "number"} /\ weights' = weights \o grads
      /\ grads' = <<>> /\ opt' = opt + 1
      /\ UNCHANGED <<weighted, step, micro, loader, saved, files, torn>>
  BY DEF Apply
<1>2. step \in Nat \ {0} /\ step \in 1..Steps /\ micro = GradAccum /\ GradAccum \in 0..GradAccum
  BY <1>1, StepsPositive, TrainingConstants DEF TrainInv, RunPlaces
<1>3. a \in Nat /\ n \in Nat /\ a + n = PerStep * step
  BY <1>2, Arithmetic
<1> HIDE DEF a, n
<1>4. RunPlaces'
  <2>1. GlobalBatch' = GlobalBatch
    BY <1>1 DEF GlobalBatch, FirstBatch
  <2> QED BY <1>1, <1>2, <2>1, TrainingConstants DEF TrainInv, RunPlaces
<1>5. FilesTyped' /\ (FilesExact => FilesExact')
  BY <1>1, FilesStay DEF TrainInv
<1>6. ~torn => MemoryExact'
  <2> SUFFICES ASSUME ~torn PROVE MemoryExact'
    OBVIOUS
  <2>1. opt = step - 1 /\ weights = Piece(weighted, 0, PerStep * opt)
        /\ grads = Piece(weighted, PerStep * opt, micro * BatchSize)
    BY <1>1 DEF TrainInv, MemoryExact, Done, Accumulated
  <2>2. weights = Piece(weighted, 0, a) /\ grads = Piece(weighted, a, n)
    BY <1>2, <2>1 DEF a, n
  <2>3. weights' = Piece(weighted, 0, a + n)
    BY <1>1, <1>3, <2>2, PiecesFromStart
  <2>4. opt' = step /\ opt' = Done(place', step')
    BY <1>1, <1>2, <2>1 DEF Done
  <2>5. weights' = Piece(weighted', 0, PerStep * opt')
    BY <1>1, <1>3, <2>3, <2>4
  <2>6. Accumulated(place', micro') = 0
    BY <1>1 DEF Accumulated
  <2>7. PerStep * opt' \in Nat
    <3>1. a + n \in Nat
      BY <1>3
    <3> QED BY <1>3, <2>4, <3>1
  <2>8. grads' = Piece(weighted', PerStep * opt', 0)
    BY <1>1, <2>7, NoPiece
  <2> QED BY <2>4, <2>5, <2>6, <2>8 DEF MemoryExact, PerStep
<1> QED BY <1>1, <1>4, <1>5, <1>6 DEF TrainInv

\* Steps that leave the memory alone and stay within the step.
LEMMA StayStep ==
  ASSUME TrainInv, place \in {"validate", "best", "number", "swa"},
         place' \in {"validate", "best", "number", "swa"},
         UNCHANGED <<weighted, step, micro, weights, grads, opt, loader, torn>>
  PROVE  (saved' \in 0..2 => RunPlaces') /\ (~torn => MemoryExact')
<1>1. GlobalBatch' = GlobalBatch
  BY DEF GlobalBatch, FirstBatch
<1>2. saved' \in 0..2 => RunPlaces'
  BY <1>1 DEF TrainInv, RunPlaces
<1>3. Done(place', step') = Done(place, step)
      /\ Accumulated(place', micro') = Accumulated(place, micro)
  BY DEF Done, Accumulated
<1>4. ~torn => MemoryExact'
  BY <1>3, MemoryStays DEF TrainInv
<1> QED BY <1>2, <1>4

LEMMA ValidateStep == ASSUME TrainInv, Validate PROVE TrainInv'
<1>1. /\ place = "validate" /\ place' \in {"best", "number"}
      /\ UNCHANGED <<weighted, step, micro, weights, grads, opt, loader, saved, files, torn>>
  BY DEF Validate
<1>2. RunPlaces' /\ (~torn => MemoryExact')
  BY <1>1, StayStep DEF TrainInv, RunPlaces
<1>3. FilesTyped' /\ (FilesExact => FilesExact')
  BY <1>1, FilesStay DEF TrainInv
<1> QED BY <1>1, <1>2, <1>3 DEF TrainInv

MayBecome(t, m, new) ==
  /\ m = "manifest" => new.step \in 0..Steps
  /\ t = Swa /\ m = "state" => new = Unreadable
  /\ ~torn /\ t # Swa => MemberExact(weighted, m, new)

\* One member of a checkpoint is replaced, by what was trained or by what cannot be read.
LEMMA MemberChanged ==
  ASSUME TrainInv, UNCHANGED weighted, NEW t \in Stems, NEW m \in MemberNames, NEW new,
         files' = [files EXCEPT ![t][m] = new],
         MayBecome(t, m, new)
  PROVE  FilesTyped' /\ (~torn => FilesExact')
<1>1. /\ DOMAIN files = Stems
      /\ \A u \in Stems : files[u] = [weights |-> files[u].weights, state |-> files[u].state,
                                      manifest |-> files[u].manifest]
      /\ \A u \in Stems : files[u].manifest.step \in 0..Steps
      /\ files[Swa].state = Unreadable
  BY DEF TrainInv, FilesTyped
<1>2. /\ files' = [u \in Stems |-> files'[u]]
      /\ \A u \in Stems : u # t => files'[u] = files[u]
      /\ files'[t] = [files[t] EXCEPT ![m] = new]
  <2>1. files = [u \in Stems |-> [weights |-> files[u].weights, state |-> files[u].state,
                                  manifest |-> files[u].manifest]]
    BY DEF TrainInv, FilesTyped
  <2> QED BY <2>1
<1>3. /\ files'[t] = [weights |-> files'[t].weights, state |-> files'[t].state,
                      manifest |-> files'[t].manifest]
      /\ files'[t][m] = new
      /\ \A k \in MemberNames : k # m => files'[t][k] = files[t][k]
  <2> DEFINE old == files[t] now == files'[t] ow == old.weights os == old.state om == old.manifest
  <2>1. old = [weights |-> ow, state |-> os, manifest |-> om] /\ now = [old EXCEPT ![m] = new]
    BY <1>1, <1>2
  <2> HIDE DEF old, now, ow, os, om
  <2>2. CASE m = "weights"
    <3>1. now = [weights |-> new, state |-> os, manifest |-> om]
      BY <2>1, <2>2
    <3> QED BY <2>1, <2>2, <3>1 DEF MemberNames, now, old
  <2>3. CASE m = "state"
    <3>1. now = [weights |-> ow, state |-> new, manifest |-> om]
      BY <2>1, <2>3
    <3> QED BY <2>1, <2>3, <3>1 DEF MemberNames, now, old
  <2>4. CASE m = "manifest"
    <3>1. now = [weights |-> ow, state |-> os, manifest |-> new]
      BY <2>1, <2>4
    <3> QED BY <2>1, <2>4, <3>1 DEF MemberNames, now, old
  <2> QED BY <2>2, <2>3, <2>4 DEF MemberNames
<1>4. \A u \in Stems : files'[u] = [weights |-> files'[u].weights, state |-> files'[u].state,
                                    manifest |-> files'[u].manifest]
  BY <1>1, <1>2, <1>3
<1>5. \A u \in Stems : files'[u].manifest.step \in 0..Steps
  <2>1. files'[t].manifest.step \in 0..Steps
    <3>1. CASE m = "manifest"
      BY <1>3, <3>1 DEF MayBecome
    <3>2. CASE m # "manifest"
      <4>1. files'[t]["manifest"] = files[t]["manifest"]
        BY <1>3, <3>2 DEF MemberNames
      <4> QED BY <1>1, <4>1
    <3> QED BY <3>1, <3>2
  <2> QED BY <1>1, <1>2, <2>1
<1>6. files'[Swa].state = Unreadable
  <2>1. CASE t = Swa /\ m = "state"
    BY <1>3, <2>1 DEF MayBecome
  <2>2. CASE t = Swa /\ m # "state"
    <3>1. files'[t]["state"] = files[t]["state"]
      BY <1>3, <2>2 DEF MemberNames
    <3> QED BY <1>1, <2>2, <3>1
  <2>3. CASE t # Swa
    BY <1>1, <1>2, <2>3, StepsPositive
  <2> QED BY <2>1, <2>2, <2>3
<1>7. FilesTyped'
  <2>1. files' = [u \in Stems |-> [weights |-> files'[u].weights, state |-> files'[u].state,
                                   manifest |-> files'[u].manifest]]
    BY <1>2, <1>4
  <2> QED BY <1>5, <1>6, <2>1 DEF FilesTyped, Stems, Swa, Steps
<1>8. ASSUME ~torn PROVE FilesExact'
  <2>1. \A u \in Stems \ {Swa} : \A k \in MemberNames : MemberExact(weighted, k, files[u][k])
    BY <1>8 DEF TrainInv, FilesExact, MemberNames
  <2>2. ASSUME NEW u \in Stems \ {Swa}, NEW k \in MemberNames
        PROVE  MemberExact(weighted, k, files'[u][k])
    <3>1. CASE u = t /\ k = m
      BY <1>3, <1>8, <3>1 DEF MayBecome
    <3>2. CASE ~(u = t /\ k = m)
      <4>1. files'[u][k] = files[u][k]
        BY <1>2, <1>3, <3>2
      <4> QED BY <2>1, <4>1
    <3> QED BY <3>1, <3>2
  <2>3. weighted' = weighted
    OBVIOUS
  <2> QED BY <2>2, <2>3 DEF FilesExact, MemberNames, Stems, Swa, Steps, MemberExact, PerStep
<1> QED BY <1>7, <1>8

LEMMA MemberSaved ==
  ASSUME TrainInv, place \in {"best", "number"}, UNCHANGED weighted,
         NEW t \in Stems \ {Swa}, NEW cursor, cursor = CursorAt(weighted, PerStep * step),
         NEW m \in MemberNames, files' = [files EXCEPT ![t][m] = Content(cursor)[m]]
  PROVE  FilesTyped' /\ (~torn => FilesExact')
<1> DEFINE new == Content(cursor)[m]
<1>1. step \in 1..Steps /\ step \in 0..Steps /\ t \in Stems /\ t # Swa
  BY StepsPositive DEF TrainInv, RunPlaces
<1>2. new.step = step
  BY DEF Content, MemberNames
<1>3. ~torn => MemberExact(weighted, m, new)
  <2> SUFFICES ASSUME ~torn PROVE MemberExact(weighted, m, new)
    OBVIOUS
  <2>1. opt = step /\ weights = Piece(weighted, 0, PerStep * opt)
    BY DEF TrainInv, MemoryExact, Done
  <2>2. CASE m = "weights"
    <3>1. new = [step |-> step, trained |-> weights]
      BY <2>2 DEF Content
    <3> QED BY <2>1, <2>2, <3>1 DEF MemberExact
  <2>3. CASE m = "state"
    <3>1. new = [step |-> step, opt |-> opt, latest |-> latest]
      BY <2>3 DEF Content
    <3> QED BY <2>1, <2>3, <3>1 DEF MemberExact
  <2>4. CASE m = "manifest"
    <3>1. new = [step |-> step, cursor |-> cursor]
      BY <2>4 DEF Content
    <3> QED BY <2>4, <3>1 DEF MemberExact
  <2> QED BY <2>2, <2>3, <2>4 DEF MemberNames
<1> HIDE DEF new
<1>4. files' = [files EXCEPT ![t][m] = new] /\ UNCHANGED weighted
  BY DEF new
<1>5. MayBecome(t, m, new)
  BY <1>1, <1>2, <1>3 DEF MayBecome
<1>6. t \in Stems
  BY <1>1
<1> QED BY <1>4, <1>5, <1>6, MemberChanged

LEMMA SavingStep ==
  ASSUME TrainInv, place \in {"best", "number"}, NEW t \in Stems \ {Swa}, NEW cursor,
         cursor = CursorAt(weighted, PerStep * step), Saving(t, cursor)
  PROVE  FilesTyped' /\ (~torn => FilesExact') /\ saved' \in 0..2
<1>1. /\ files' = [files EXCEPT ![t][Members[saved + 1]] = Content(cursor)[Members[saved + 1]]]
      /\ saved' = (saved + 1) % 3 /\ weighted' = weighted
  BY DEF Saving
<1>2. saved \in 0..2
  BY DEF TrainInv, RunPlaces
<1>3. Members[saved + 1] \in MemberNames /\ saved' \in 0..2
  BY <1>1, <1>2 DEF Members, MemberNames
<1> QED BY <1>1, <1>3, MemberSaved

LEMMA SaveBestStep == ASSUME TrainInv, SaveBest PROVE TrainInv'
<1> DEFINE g == FirstBatch(step) + GradAccum - 1
<1>1. /\ place = "best" /\ Saving(Best, CursorOfBatch(g)) /\ place' \in {"number", "best"}
      /\ UNCHANGED <<step, micro>>
  BY DEF SaveBest
<1>2. UNCHANGED <<weighted, weights, grads, opt, loader, torn>>
  BY <1>1 DEF Saving
<1>3. step \in Nat \ {0} /\ GradAccum \in 0..GradAccum
  BY <1>1, StepsPositive, TrainingConstants DEF TrainInv, RunPlaces
<1>4. g \in Nat \ {0} /\ g * BatchSize = PerStep * step
  BY <1>3, Arithmetic
<1> HIDE DEF g
<1>5. CursorOfBatch(g) = CursorAt(weighted, PerStep * step)
  BY <1>4, CursorAfter
<1>6. FilesTyped' /\ (~torn => FilesExact') /\ saved' \in 0..2
  BY <1>1, <1>5, StepsPositive, SavingStep
<1>7. RunPlaces' /\ (~torn => MemoryExact')
  BY <1>1, <1>2, <1>6, StayStep
<1> QED BY <1>1, <1>2, <1>6, <1>7 DEF TrainInv

\* The next step begins where this one has ended, or the process goes to its average.
LEMMA GoOnStep ==
  ASSUME TrainInv, place = "number", GoOn, saved' \in 0..2,
         UNCHANGED <<weighted, weights, grads, opt, loader, torn>>
  PROVE  RunPlaces' /\ (~torn => MemoryExact')
<1>1. step \in 1..Steps /\ step \in Nat \ {0} /\ micro = GradAccum /\ loader \in {0, GlobalBatch}
      /\ GradAccum \in Nat \ {0} /\ GradAccum \in 0..GradAccum
  BY StepsPositive, TrainingConstants DEF TrainInv, RunPlaces
<1>2. CASE ~stopping /\ step < Steps
  <2>1. place' = "micro" /\ step' = step + 1 /\ micro' = 0
    BY <1>2 DEF GoOn
  <2>2. GlobalBatch' = GlobalBatch
    <3>1. GlobalBatch = FirstBatch(step) + GradAccum
      BY <1>1 DEF GlobalBatch
    <3>2. GlobalBatch' = FirstBatch(step + 1) + 0
      BY <2>1 DEF GlobalBatch, FirstBatch
    <3>3. FirstBatch(step + 1) = FirstBatch(step) + GradAccum
      BY <1>1, Arithmetic
    <3>4. FirstBatch(step + 1) \in Int
      BY <1>1 DEF FirstBatch
    <3> QED BY <3>1, <3>2, <3>3, <3>4
  <2>3. step + 1 \in 1..Steps /\ 0 \in 0..GradAccum /\ 0 < GradAccum
    BY <1>1, <1>2, StepsPositive
  <2>4. RunPlaces'
    <3>1. loader' \in {0, GlobalBatch'} /\ torn' \in BOOLEAN
      BY <1>1, <2>2 DEF TrainInv, RunPlaces
    <3> QED BY <2>1, <2>3, <3>1 DEF RunPlaces
  <2>5. Done(place', step') = Done(place, step)
    BY <1>1, <2>1 DEF Done
  <2>6. Accumulated(place', micro') = Accumulated(place, micro)
    BY <1>1, <2>1, TrainingConstants DEF Accumulated
  <2>7. ~torn => MemoryExact'
    BY <2>5, <2>6, MemoryStays DEF TrainInv
  <2> QED BY <2>4, <2>7
<1>3. CASE ~(~stopping /\ step < Steps)
  <2>1. place' = "swa" /\ UNCHANGED <<step, micro>>
    BY <1>3 DEF GoOn
  <2> QED BY <2>1, StayStep
<1> QED BY <1>2, <1>3

LEMMA SaveNumberedStep == ASSUME TrainInv, SaveNumbered PROVE TrainInv'
<1> DEFINE g == FirstBatch(step) + GradAccum
<1>1. /\ place = "number" /\ Saving(step, CursorForNext(g))
      /\ GoOn \/ UNCHANGED <<place, step, micro>>
  BY DEF SaveNumbered
<1>2. UNCHANGED <<weighted, weights, grads, opt, loader, torn>>
  BY <1>1 DEF Saving
<1>3. step \in 1..Steps /\ step \in Nat \ {0} /\ GradAccum \in 0..GradAccum
  BY <1>1, StepsPositive, TrainingConstants DEF TrainInv, RunPlaces
<1>4. g \in Nat \ {0} /\ (g - 1) * BatchSize = PerStep * step
  <2>1. (FirstBatch(step) + GradAccum - 1) * BatchSize = PerStep * step
    BY <1>3, Arithmetic
  <2>2. FirstBatch(step) + GradAccum - 1 \in Nat \ {0}
    BY <1>3, Arithmetic
  <2>3. FirstBatch(step) \in Int /\ GradAccum \in Int
    BY <1>3, TrainingConstants DEF FirstBatch
  <2> QED BY <2>1, <2>2, <2>3
<1> HIDE DEF g
<1>5. CursorForNext(g) = CursorAt(weighted, PerStep * step)
  BY <1>4, NextCursor
<1>6. step \in Stems \ {Swa}
  BY <1>3, StepsPositive DEF Stems
<1>7. FilesTyped' /\ (~torn => FilesExact') /\ saved' \in 0..2
  BY <1>1, <1>5, <1>6, SavingStep
<1>8. RunPlaces' /\ (~torn => MemoryExact')
  <2>1. CASE GoOn
    BY <1>1, <1>2, <1>7, <2>1, GoOnStep
  <2>2. CASE UNCHANGED <<place, step, micro>>
    BY <1>1, <1>2, <1>7, <2>2, StayStep
  <2> QED BY <1>1, <2>1, <2>2
<1> QED BY <1>2, <1>7, <1>8 DEF TrainInv

LEMMA SkipNumberedStep == ASSUME TrainInv, SkipNumbered PROVE TrainInv'
<1>1. /\ place = "number" /\ GoOn
      /\ UNCHANGED <<weighted, weights, grads, opt, loader, saved, files, torn>>
  BY DEF SkipNumbered
<1>2. RunPlaces' /\ (~torn => MemoryExact')
  BY <1>1, GoOnStep DEF TrainInv, RunPlaces
<1>3. FilesTyped' /\ (FilesExact => FilesExact')
  BY <1>1, FilesStay DEF TrainInv
<1> QED BY <1>1, <1>2, <1>3 DEF TrainInv

LEMMA SaveSwaStep == ASSUME TrainInv, SaveSwa PROVE TrainInv'
<1>1. place = "swa" /\ UNCHANGED <<weighted, step, micro, weights, grads, opt, loader, torn>>
  BY DEF SaveSwa
<1>2. step \in 0..Steps /\ Swa \in Stems
  BY <1>1, StepsPositive DEF TrainInv, RunPlaces
<1>3. CASE saved = 0
  <2>1. /\ files' = [files EXCEPT ![Swa].weights = [step |-> step, averaged |-> swa']]
        /\ saved' = 1 /\ place' = place
    BY <1>3 DEF SaveSwa
  <2> DEFINE new == [step |-> step, averaged |-> swa']
  <2>2. files' = [files EXCEPT ![Swa]["weights"] = new] /\ "weights" \in MemberNames
    BY <2>1 DEF MemberNames
  <2> HIDE DEF new
  <2>3. FilesTyped' /\ (~torn => FilesExact')
    <3>1. MayBecome(Swa, "weights", new)
      BY <2>2 DEF MayBecome
    <3> QED BY <1>1, <1>2, <2>2, <3>1, MemberChanged
  <2>4. RunPlaces' /\ (~torn => MemoryExact')
    BY <1>1, <2>1, StayStep
  <2> QED BY <1>1, <2>3, <2>4 DEF TrainInv
<1>4. CASE saved = 1
  <2> DEFINE new == [step |-> step, cursor |-> CursorForNext(FirstBatch(step) + GradAccum)]
  <2>1. files' = [files EXCEPT ![Swa].manifest = new] /\ saved' = 0 /\ place' = "off"
    BY <1>4 DEF SaveSwa
  <2>2. files' = [files EXCEPT ![Swa]["manifest"] = new] /\ "manifest" \in MemberNames
        /\ new.step \in 0..Steps
    BY <1>2, <2>1 DEF MemberNames
  <2> HIDE DEF new
  <2>3. FilesTyped' /\ (~torn => FilesExact')
    <3>1. MayBecome(Swa, "manifest", new)
      BY <2>2 DEF MayBecome
    <3> QED BY <1>1, <1>2, <2>2, <3>1, MemberChanged
  <2>4. RunPlaces'
    BY <1>1, <2>1 DEF TrainInv, RunPlaces
  <2> QED BY <1>1, <2>1, <2>3, <2>4 DEF TrainInv
<1> QED BY <1>3, <1>4 DEF SaveSwa

LEMMA DieStep == ASSUME TrainInv, Die PROVE TrainInv'
<1>1. /\ place # "off" /\ place' = "off" /\ saved' = 0 /\ UNCHANGED <<weighted, torn>>
      /\ \/ UNCHANGED files
         \/ \E f \in InFlight : files' = [files EXCEPT ![f[1]][f[2]] = Unreadable]
  BY DEF Die
<1>2. RunPlaces'
  BY <1>1 DEF TrainInv, RunPlaces
<1>3. FilesTyped' /\ (~torn => FilesExact')
  <2>1. CASE UNCHANGED files
    BY <1>1, <2>1, FilesStay DEF TrainInv
  <2>2. ASSUME NEW f \in InFlight, files' = [files EXCEPT ![f[1]][f[2]] = Unreadable]
        PROVE  FilesTyped' /\ (~torn => FilesExact')
    <3>1. saved \in 0..2 /\ step \in 1..Steps
      BY <1>1 DEF TrainInv, RunPlaces
    <3>2. step \in Stems /\ Best \in Stems /\ Swa \in Stems
      BY <3>1, StepsPositive DEF Stems
    <3>3. Members[saved + 1] \in MemberNames
      BY <3>1 DEF Members, MemberNames
    <3>4. f[1] \in Stems /\ f[2] \in MemberNames
      <4>1. InFlight \subseteq Stems \X MemberNames
        BY <3>2, <3>3 DEF InFlight, MemberNames
      <4> QED BY <2>2, <4>1
    <3> DEFINE t == f[1] m == f[2]
    <3>5. t \in Stems /\ m \in MemberNames /\ files' = [files EXCEPT ![t][m] = Unreadable]
      BY <2>2, <3>4
    <3>6. MayBecome(t, m, Unreadable)
      BY StepsPositive DEF MayBecome, Unreadable, MemberExact, Loads
    <3> HIDE DEF t, m
    <3> QED BY <1>1, <3>5, <3>6, MemberChanged
  <2> QED BY <1>1, <2>1, <2>2
<1> QED BY <1>1, <1>2, <1>3 DEF TrainInv

LEMMA TrainStep == TrainInv /\ [TrainNext]_trainVars => TrainInv'
<1> SUFFICES ASSUME TrainInv, [TrainNext]_trainVars PROVE TrainInv'
  OBVIOUS
<1>1. CASE UNCHANGED trainVars
  <2>1. UNCHANGED <<weighted, place, step, micro, weights, grads, opt, loader, saved, files, torn>>
    BY <1>1 DEF trainVars, memory
  <2>2. RunPlaces'
    BY <2>1 DEF TrainInv, RunPlaces, GlobalBatch, FirstBatch
  <2>3. FilesTyped' /\ (FilesExact => FilesExact')
    BY <2>1, FilesStay DEF TrainInv
  <2>4. MemoryExact => MemoryExact'
    BY <2>1, MemoryStays
  <2> QED BY <2>1, <2>2, <2>3, <2>4 DEF TrainInv
<1> QED BY <1>1, StartStep, ResumeStep, MicroStep, ApplyStep, ValidateStep, SaveBestStep,
           SaveNumberedStep, SkipNumberedStep, SaveSwaStep, DieStep DEF TrainNext

\* Whatever dies and is resumed, for any corpus, batch, accumulation, cap and intervals,
\* unless members of two saves were mixed.
THEOREM StreamIsTrained == PythonSpec => []TrainsTheStream
<1>1. PythonInit => TrainInv
  BY TrainStarts DEF PythonInit
<1>2. TrainInv /\ [PythonNext]_pythonVars => TrainInv'
  BY TrainStep DEF PythonNext, pythonVars
<1> QED BY <1>1, <1>2, TrainedTheStream, PTL DEF PythonSpec

-----------------------------------------------------------------------------
(* The serve loop: where its threads hold the lines that are not answered.  *)

Line == [id : Nat \ {0}, kind : Kinds]

ServeTypes ==
  /\ written \in Nat /\ pendingError \in BOOLEAN
  /\ stdin \in Seq(Line)
  /\ reader \in {"reading", "ending", "done"}
  /\ phase \in {"take", "prepare", "drain", "handle", "stopped"}
  /\ line \in Line \cup {NoLine, Eof}
  /\ outstanding \in Line \cup {NoLine}

\* The sentinel is put once, after the lines, by a reader that has ended.
ReaderInv ==
  /\ reader = "reading" => ~broken
  /\ reader # "reading" => closed \/ broken
  /\ \E q \in Seq(Line) : queue = q \/ (reader = "done" /\ queue = Append(q, Eof))
  /\ line = Eof => reader = "done" /\ queue = <<>>

\* The line taken is the youngest but one, until the loop is done with it.
LoopInv ==
  /\ phase \in {"take", "stopped"} => line = NoLine
  /\ phase = "take" => ~pendingError
  /\ phase = "prepare" => line \in Line
  /\ phase \in {"drain", "handle"} => line # NoLine
  /\ phase = "handle" => outstanding = NoLine
  /\ pendingError => line.kind \in {"batch", "malformed"}
  /\ outstanding # NoLine => outstanding.kind = "batch"

ServeInv == ServeTypes /\ ReaderInv /\ LoopInv

Input == IF Running THEN Unanswered ELSE <<>>

LEMMA LinesAre ==
  /\ NoLine \notin Line /\ Eof \notin Line /\ NoLine # Eof
  /\ \A l \in Line : Held(l) = <<l>>
  /\ Held(NoLine) = <<>> /\ Held(Eof) = <<>>
<1>1. NoLine.id = 0 /\ Eof.id = 0 /\ NoLine.kind = "none" /\ Eof.kind = "eof"
  BY DEF NoLine, Eof
<1>2. \A l \in Line : l.id # 0
  BY DEF Line
<1> QED BY <1>1, <1>2 DEF Held

LEMMA LinesOfIs ==
  ASSUME NEW q \in Seq(Line)
  PROVE  LinesOf(q) = q /\ LinesOf(Append(q, Eof)) = q
<1>1. LinesOf(q) = q
  <2>1. q # <<>> => q[Len(q)] \in Line
    OBVIOUS
  <2> QED BY <2>1, LinesAre DEF LinesOf
<1>2. LinesOf(Append(q, Eof)) = q
  <2> DEFINE p == Append(q, Eof)
  <2>1. p # <<>> /\ Len(p) = Len(q) + 1 /\ p[Len(p)] = Eof /\ SubSeq(p, 1, Len(p) - 1) = q
    OBVIOUS
  <2> HIDE DEF p
  <2>2. LinesOf(p) = q
    BY <2>1 DEF LinesOf
  <2> QED BY <2>2 DEF p
<1> QED BY <1>1, <1>2

\* What a step does to the lines not answered, part by part.
LEMMA PartTypes ==
  ASSUME ServeInv
  PROVE  /\ Held(outstanding) \in Seq(Line) /\ Held(line) \in Seq(Line)
         /\ LinesOf(queue) \in Seq(Line) /\ Readable \in Seq(Line)
         /\ Unanswered = Four(Held(outstanding), Held(line), LinesOf(queue), Readable)
         /\ Unanswered \in Seq(Line)
<1>1. <<>> \in Seq(Line) /\ \A l \in Line : <<l>> \in Seq(Line)
  OBVIOUS
<1>2. Held(outstanding) \in Seq(Line) /\ Held(line) \in Seq(Line)
  BY <1>1, LinesAre DEF ServeInv, ServeTypes
<1>3. LinesOf(queue) \in Seq(Line)
  BY LinesOfIs DEF ServeInv, ReaderInv
<1>4. Readable \in Seq(Line)
  BY <1>1 DEF ServeInv, ServeTypes, Readable
<1>5. Unanswered = Four(Held(outstanding), Held(line), LinesOf(queue), Readable)
  BY DEF Unanswered, Four
<1> QED BY <1>2, <1>3, <1>4, <1>5, FourType

\* A step that answers the oldest line is an answer of the serial loop.
LEMMA AnswerIs ==
  ASSUME Running, NEW l \in Line, NEW rest \in Seq(Line), Unanswered = <<l>> \o rest,
         NEW ok \in Serial!Outcomes(l), Respond(l, ok),
         Running' = (l.kind # "shutdown"), Running' => Unanswered' = rest,
         UNCHANGED <<written, closed, broken>>
  PROVE  Serial!Answer
<1>1. /\ Unanswered # <<>> /\ Head(Unanswered) = l /\ Tail(Unanswered) = rest
  BY FrontIs
<1>2. Input # <<>> /\ Head(Input) = l /\ Tail(Input) = rest
  BY <1>1 DEF Input
<1>3. Input' = IF Running' THEN Tail(Input) ELSE <<>>
  BY <1>2 DEF Input
<1>4. \E y \in Serial!Outcomes(Head(Input)) :
         output' = Append(output, [of |-> Head(Input).id, ok |-> y])
  BY <1>2 DEF Respond
<1>5. Running' = (Head(Input).kind # "shutdown")
  BY <1>2
<1> QED BY <1>2, <1>3, <1>4, <1>5 DEF Serial!Answer, Input

\* A step the client does not see.
LEMMA HiddenIs ==
  ASSUME Running, Running', Unanswered' = Unanswered,
         UNCHANGED <<written, closed, broken, output>>
  PROVE  UNCHANGED Serial!serviceVars
<1>1. Running' = Running
  BY DEF Running
<1> QED BY <1>1 DEF Serial!serviceVars

LEMMA ServeInitIs == ServeInit => ServeInv /\ Serial!Init
<1> SUFFICES ASSUME ServeInit PROVE ServeInv /\ Serial!Init
  OBVIOUS
<1>1. /\ written = 0 /\ closed = FALSE /\ stdin = <<>> /\ reader = "reading" /\ broken = FALSE
      /\ queue = <<>> /\ phase = "take" /\ line = NoLine /\ pendingError = FALSE
      /\ outstanding = NoLine /\ output = <<>>
  BY DEF ServeInit
<1>2. <<>> \in Seq(Line)
  OBVIOUS
<1>3. ServeInv
  <2>1. ServeTypes
    BY <1>1, <1>2 DEF ServeTypes
  <2>2. \E q \in Seq(Line) : queue = q \/ (reader = "done" /\ queue = Append(q, Eof))
    <3> USE <1>2
    <3> WITNESS <<>> \in Seq(Line)
    <3> QED BY <1>1
  <2>3. ReaderInv
    BY <1>1, <2>2, LinesAre DEF ReaderInv
  <2>4. LoopInv
    BY <1>1 DEF LoopInv
  <2> QED BY <2>1, <2>3, <2>4 DEF ServeInv
<1>4. Unanswered = <<>> \o <<>> \o <<>> \o <<>>
  <2>1. LinesOf(<<>>) = <<>>
    BY <1>2, LinesOfIs
  <2> QED BY <1>1, <2>1, LinesAre DEF Unanswered, Readable
<1>5. Unanswered = <<>>
  BY <1>4
<1> QED BY <1>1, <1>3, <1>5 DEF Serial!Init, Running

LEMMA WriteIs == ServeInv /\ Write => ServeInv' /\ Serial!Write
<1> SUFFICES ASSUME ServeInv, Write PROVE ServeInv' /\ Serial!Write
  OBVIOUS
<1>1. PICK k \in Kinds : stdin' = Append(stdin, [id |-> written + 1, kind |-> k])
  BY DEF Write
<1>2. /\ Running /\ ~closed /\ written < MaxLines /\ written' = written + 1
      /\ closed' = closed /\ reader' = reader /\ broken' = broken /\ queue' = queue
      /\ phase' = phase /\ line' = line /\ pendingError' = pendingError
      /\ outstanding' = outstanding /\ output' = output
  BY DEF Write, readerVars, loopVars
<1> DEFINE l == [id |-> written + 1, kind |-> k]
<1>3. l \in Line /\ written \in Nat /\ stdin \in Seq(Line)
  BY DEF ServeInv, ServeTypes, Line
<1>4. stdin' = Append(stdin, l) /\ stdin' \in Seq(Line) /\ written' \in Nat
  BY <1>1, <1>2, <1>3
<1> HIDE DEF l
<1>5. ServeInv'
  BY <1>2, <1>4 DEF ServeInv, ServeTypes, ReaderInv, LoopInv
<1>6. Unanswered' = IF broken THEN Unanswered ELSE Append(Unanswered, l)
  <2>1. CASE reader = "reading"
    <3>1. Readable = stdin /\ Readable' = stdin' /\ ~broken
      BY <1>2, <2>1 DEF Readable, ServeInv, ReaderInv
    <3>2. Unanswered' = Four(Held(outstanding), Held(line), LinesOf(queue), Append(stdin, l))
      BY <1>2, <1>4, <3>1 DEF Unanswered, Four
    <3>3. Unanswered = Four(Held(outstanding), Held(line), LinesOf(queue), stdin)
      BY <3>1, PartTypes
    <3>4. SameFour(Four(Held(outstanding), Held(line), LinesOf(queue), Append(stdin, l)),
                   Append(Four(Held(outstanding), Held(line), LinesOf(queue), stdin), l))
      BY <1>3, PartTypes, FourIs
    <3> QED BY <3>1, <3>2, <3>3, <3>4 DEF SameFour
  <2>2. CASE reader # "reading"
    <3>1. Readable = <<>> /\ Readable' = <<>> /\ broken
      BY <1>2, <2>2 DEF Readable, ServeInv, ReaderInv
    <3> QED BY <1>2, <3>1 DEF Unanswered
  <2> QED BY <2>1, <2>2
<1>7. Running'
  BY <1>2 DEF Running
<1>8. Input' = IF broken THEN Input ELSE Append(Input, l)
  BY <1>2, <1>6, <1>7 DEF Input
<1>9. k \in Serial!Kinds
  BY DEF Kinds, Serial!Kinds
<1> QED BY <1>2, <1>5, <1>7, <1>8, <1>9 DEF Serial!Write, Input, l

LEMMA CloseIs == ServeInv /\ Close => ServeInv' /\ Serial!Close
<1> SUFFICES ASSUME ServeInv, Close PROVE ServeInv' /\ Serial!Close
  OBVIOUS
<1>1. /\ ~closed /\ closed' = TRUE /\ written' = written /\ stdin' = stdin
      /\ reader' = reader /\ broken' = broken /\ queue' = queue
      /\ phase' = phase /\ line' = line /\ pendingError' = pendingError
      /\ outstanding' = outstanding /\ output' = output
  BY DEF Close, readerVars, loopVars
<1>2. ServeInv'
  BY <1>1 DEF ServeInv, ServeTypes, ReaderInv, LoopInv
<1>3. Unanswered' = Unanswered /\ Running' = Running
  BY <1>1 DEF Unanswered, Readable, Running
<1> QED BY <1>1, <1>2, <1>3 DEF Serial!Close

LEMMA ReadLineIs == ServeInv /\ ReadLine => ServeInv' /\ UNCHANGED Serial!serviceVars
<1> SUFFICES ASSUME ServeInv, ReadLine PROVE ServeInv' /\ UNCHANGED Serial!serviceVars
  OBVIOUS
<1>1. /\ Running /\ reader = "reading" /\ stdin # <<>>
      /\ queue' = Append(queue, Head(stdin)) /\ stdin' = Tail(stdin)
      /\ closed' = closed /\ written' = written /\ reader' = reader /\ broken' = broken
      /\ phase' = phase /\ line' = line /\ pendingError' = pendingError
      /\ outstanding' = outstanding /\ output' = output
  BY DEF ReadLine, readerVars, loopVars
<1> DEFINE l == Head(stdin)
           rest == Tail(stdin)
<1>2. l \in Line /\ rest \in Seq(Line) /\ stdin = <<l>> \o rest
  BY <1>1 DEF ServeInv, ServeTypes
<1>3. queue \in Seq(Line)
  BY <1>1 DEF ServeInv, ReaderInv
<1> HIDE DEF l, rest
<1>4. queue' = Append(queue, l) /\ queue' \in Seq(Line) /\ stdin' = rest
  BY <1>1, <1>2, <1>3 DEF l, rest
<1>5. line # Eof
  BY <1>1 DEF ServeInv, ReaderInv
<1>6. ServeInv'
  BY <1>1, <1>2, <1>4, <1>5 DEF ServeInv, ServeTypes, ReaderInv, LoopInv
<1>7. Unanswered' = Unanswered
  <2>1. LinesOf(queue) = queue /\ LinesOf(queue') = Append(queue, l)
    BY <1>3, <1>4, LinesOfIs
  <2>2. Readable = <<l>> \o rest /\ Readable' = rest
    BY <1>1, <1>2, <1>4 DEF Readable
  <2>3. Unanswered' = Four(Held(outstanding), Held(line), Append(queue, l), rest)
    BY <1>1, <2>1, <2>2 DEF Unanswered, Four
  <2>4. Unanswered = Four(Held(outstanding), Held(line), queue, <<l>> \o rest)
    BY <2>1, <2>2 DEF Unanswered, Four
  <2>5. SameFour(Four(Held(outstanding), Held(line), Append(queue, l), rest),
                 Four(Held(outstanding), Held(line), queue, <<l>> \o rest))
    BY <1>2, <1>3, PartTypes, FourIs
  <2> QED BY <2>3, <2>4, <2>5 DEF SameFour
<1>8. Running'
  BY <1>1 DEF Running
<1> QED BY <1>1, <1>6, <1>7, <1>8, HiddenIs

LEMMA ReadEndsIs == ServeInv /\ ReadEnds => ServeInv' /\ UNCHANGED Serial!serviceVars
<1> SUFFICES ASSUME ServeInv, ReadEnds PROVE ServeInv' /\ UNCHANGED Serial!serviceVars
  OBVIOUS
<1>1. /\ Running /\ reader = "reading" /\ stdin = <<>> /\ closed /\ reader' = "ending"
      /\ stdin' = stdin /\ closed' = closed /\ written' = written /\ broken' = broken
      /\ queue' = queue /\ phase' = phase /\ line' = line /\ pendingError' = pendingError
      /\ outstanding' = outstanding /\ output' = output
  BY DEF ReadEnds, pipeVars, loopVars
<1>2. ServeInv'
  BY <1>1 DEF ServeInv, ServeTypes, ReaderInv, LoopInv
<1>3. Unanswered' = Unanswered /\ Running'
  BY <1>1 DEF Unanswered, Readable, Running
<1> QED BY <1>1, <1>2, <1>3, HiddenIs

LEMMA ReadRaisesIs == ServeInv /\ ReadRaises => ServeInv' /\ Serial!ReadFails
<1> SUFFICES ASSUME ServeInv, ReadRaises PROVE ServeInv' /\ Serial!ReadFails
  OBVIOUS
<1>1. /\ Running /\ reader = "reading" /\ reader' = "ending" /\ broken' = TRUE
      /\ stdin' = stdin /\ closed' = closed /\ written' = written
      /\ queue' = queue /\ phase' = phase /\ line' = line /\ pendingError' = pendingError
      /\ outstanding' = outstanding /\ output' = output
  BY DEF ReadRaises, pipeVars, loopVars
<1>2. ServeInv' /\ ~broken /\ Running'
  BY <1>1 DEF ServeInv, ServeTypes, ReaderInv, LoopInv, Running
<1>3. Unanswered' = Four(Held(outstanding), Held(line), LinesOf(queue), <<>>)
  BY <1>1 DEF Unanswered, Readable, Four
<1>4. PICK n \in 0..Len(Unanswered) : Unanswered' = SubSeq(Unanswered, 1, n)
  <2>1. \E n \in 0..Len(Four(Held(outstanding), Held(line), LinesOf(queue), Readable)) :
          SameFour(Four(Held(outstanding), Held(line), LinesOf(queue), <<>>),
                   SubSeq(Four(Held(outstanding), Held(line), LinesOf(queue), Readable), 1, n))
    BY PartTypes, FourCut
  <2> QED BY <1>3, <2>1, PartTypes DEF SameFour
<1>5. Input = Unanswered /\ Input' = SubSeq(Unanswered, 1, n)
  BY <1>1, <1>2, <1>4 DEF Input
<1>6. \E m \in 0..Len(Input) : Input' = SubSeq(Input, 1, m)
  BY <1>5
<1> QED BY <1>1, <1>2, <1>6 DEF Serial!ReadFails, Input

LEMMA PutEofIs == ServeInv /\ PutEof => ServeInv' /\ UNCHANGED Serial!serviceVars
<1> SUFFICES ASSUME ServeInv, PutEof PROVE ServeInv' /\ UNCHANGED Serial!serviceVars
  OBVIOUS
<1>1. /\ Running /\ reader = "ending" /\ reader' = "done" /\ queue' = Append(queue, Eof)
      /\ stdin' = stdin /\ closed' = closed /\ written' = written /\ broken' = broken
      /\ phase' = phase /\ line' = line /\ pendingError' = pendingError
      /\ outstanding' = outstanding /\ output' = output
  BY DEF PutEof, pipeVars, loopVars
<1>2. queue \in Seq(Line) /\ line # Eof
  BY <1>1 DEF ServeInv, ReaderInv
<1>3. ServeInv'
  BY <1>1, <1>2 DEF ServeInv, ServeTypes, ReaderInv, LoopInv
<1>4. LinesOf(queue') = LinesOf(queue)
  BY <1>1, <1>2, LinesOfIs
<1>5. Readable' = Readable
  BY <1>1 DEF Readable
<1>6. Unanswered' = Unanswered
  BY <1>1, <1>4, <1>5 DEF Unanswered
<1>7. Running'
  BY <1>1 DEF Running
<1> QED BY <1>1, <1>3, <1>6, <1>7, HiddenIs

\* The oldest line is the outstanding one; answering it leaves the others.
LEMMA FinalizeIs ==
  ASSUME ServeInv, Running, Running', outstanding # NoLine, Finalize,
         UNCHANGED <<written, closed, broken, stdin, reader, queue, line>>
  PROVE  Serial!Answer
<1>1. outstanding \in Line /\ outstanding.kind = "batch"
  BY DEF ServeInv, ServeTypes, LoopInv
<1>2. PICK ok \in BOOLEAN : Respond(outstanding, ok)
  BY DEF Finalize
<1>3. ok \in Serial!Outcomes(outstanding)
  BY <1>1 DEF Serial!Outcomes
<1> DEFINE rest == Four(<<>>, Held(line), LinesOf(queue), Readable)
<1>4. <<>> \in Seq(Line)
  OBVIOUS
<1>5. rest \in Seq(Line)
  BY <1>4, PartTypes, FourType
<1>6. Unanswered = <<outstanding>> \o rest
  <2>1. Unanswered = Four(<<outstanding>>, Held(line), LinesOf(queue), Readable)
    BY <1>1, LinesAre, PartTypes
  <2>2. SameFour(Four(<<outstanding>>, Held(line), LinesOf(queue), Readable), <<outstanding>> \o rest)
    BY <1>1, <1>4, PartTypes, FourIs
  <2> QED BY <2>1, <2>2 DEF SameFour
<1>7. Unanswered' = rest
  BY LinesAre DEF Finalize, Unanswered, Readable, Four
<1> HIDE DEF rest
<1> QED BY <1>1, <1>2, <1>3, <1>5, <1>6, <1>7, AnswerIs

\* Nothing is outstanding: the oldest line is the one in hand.
LEMMA HandleIs ==
  ASSUME ServeInv, Running, outstanding = NoLine, line \in Line,
         NEW ok \in Serial!Outcomes(line), Respond(line, ok),
         line' = NoLine, Running' = (line.kind # "shutdown"),
         UNCHANGED <<written, closed, broken, stdin, reader, queue, outstanding>>
  PROVE  Serial!Answer
<1> DEFINE rest == Four(<<>>, <<>>, LinesOf(queue), Readable)
<1>1. <<>> \in Seq(Line)
  OBVIOUS
<1>2. rest \in Seq(Line)
  BY <1>1, PartTypes, FourType
<1>3. Unanswered = <<line>> \o rest
  <2>1. Unanswered = Four(<<>>, <<line>>, LinesOf(queue), Readable)
    BY LinesAre, PartTypes
  <2>2. SameFour(Four(<<>>, <<line>>, LinesOf(queue), Readable),
                 Four(<<line>>, <<>>, LinesOf(queue), Readable))
    BY <1>1, PartTypes, FourIs
  <2>3. SameFour(Four(<<line>>, <<>>, LinesOf(queue), Readable), <<line>> \o rest)
    BY <1>1, PartTypes, FourIs
  <2> QED BY <2>1, <2>2, <2>3 DEF SameFour
<1>4. Unanswered' = rest
  BY LinesAre DEF Unanswered, Readable, Four
<1> HIDE DEF rest
<1> QED BY <1>2, <1>3, <1>4, AnswerIs

LEMMA TakeIs == ServeInv /\ Take => ServeInv' /\ UNCHANGED Serial!serviceVars
<1> SUFFICES ASSUME ServeInv, Take PROVE ServeInv' /\ UNCHANGED Serial!serviceVars
  OBVIOUS
<1>1. /\ phase = "take" /\ queue # <<>> /\ line' = Head(queue) /\ queue' = Tail(queue)
      /\ phase' = IF Head(queue) = Eof THEN "drain" ELSE "prepare"
      /\ closed' = closed /\ written' = written /\ stdin' = stdin /\ reader' = reader
      /\ broken' = broken /\ pendingError' = pendingError
      /\ outstanding' = outstanding /\ output' = output
  BY DEF Take, pipeVars, readerVars
<1>2. PICK q \in Seq(Line) : queue = q \/ (reader = "done" /\ queue = Append(q, Eof))
  BY DEF ServeInv, ReaderInv
<1>3. line = NoLine /\ ~pendingError /\ LinesOf(queue) = q
  BY <1>1, <1>2, LinesOfIs DEF ServeInv, LoopInv
<1>4. Running /\ Running' /\ Readable' = Readable
  BY <1>1 DEF Running, Readable
<1>5. CASE q = <<>>
  <2>1. queue = Append(q, Eof) /\ reader = "done"
    BY <1>1, <1>2, <1>5
  <2>2. Head(queue) = Eof /\ Tail(queue) = <<>>
    BY <1>5, <2>1
  <2>3. <<>> \in Seq(Line)
    OBVIOUS
  <2>4. ServeTypes'
    BY <1>1, <2>2 DEF ServeInv, ServeTypes
  <2>5. ReaderInv' /\ LoopInv'
    <3>1. \E p \in Seq(Line) : queue' = p \/ (reader' = "done" /\ queue' = Append(p, Eof))
      <4> USE <2>3
      <4> WITNESS <<>> \in Seq(Line)
      <4> QED BY <1>1, <2>2
    <3>2. ReaderInv'
      BY <1>1, <2>1, <2>2, <3>1 DEF ServeInv, ReaderInv
    <3>3. line' # NoLine /\ phase' = "drain"
      BY <1>1, <2>2, LinesAre
    <3>4. LoopInv'
      BY <1>1, <1>3, <3>3 DEF ServeInv, LoopInv
    <3> QED BY <3>2, <3>4
  <2>6. LinesOf(queue') = q /\ Held(line') = Held(line)
    BY <1>1, <1>3, <1>5, <2>2, <2>3, LinesOfIs, LinesAre
  <2>7. Unanswered' = Unanswered
    BY <1>1, <1>3, <1>4, <2>6 DEF Unanswered
  <2> QED BY <1>1, <1>4, <2>4, <2>5, <2>7, HiddenIs DEF ServeInv
<1>6. CASE q # <<>>
  <2> DEFINE l == Head(q)
             rest == Tail(q)
  <2>1. l \in Line /\ rest \in Seq(Line) /\ q = <<l>> \o rest
    BY <1>6
  <2>2. Head(queue) = l /\ (Tail(queue) = rest \/ (reader = "done" /\ Tail(queue) = Append(rest, Eof)))
    <3>1. Head(Append(q, Eof)) = Head(q) /\ Tail(Append(q, Eof)) = Append(Tail(q), Eof)
      BY <1>6
    <3> QED BY <1>2, <3>1
  <2> HIDE DEF l, rest
  <2>3. line' = l /\ l # Eof /\ l # NoLine /\ phase' = "prepare"
    BY <1>1, <2>1, <2>2, LinesAre
  <2>4. queue' = rest \/ (reader' = "done" /\ queue' = Append(rest, Eof))
    BY <1>1, <2>2
  <2>5. ServeTypes'
    BY <1>1, <2>1, <2>3 DEF ServeInv, ServeTypes
  <2>6. ReaderInv' /\ LoopInv'
    BY <1>1, <1>3, <2>1, <2>3, <2>4 DEF ServeInv, ReaderInv, LoopInv
  <2>7. LinesOf(queue') = rest /\ Held(line') = <<l>> /\ Held(line) = <<>>
    BY <1>3, <2>1, <2>3, <2>4, LinesOfIs, LinesAre
  <2>8. Unanswered' = Four(Held(outstanding), <<l>>, rest, Readable)
    BY <1>1, <1>4, <2>7 DEF Unanswered, Four
  <2>9. Unanswered = Four(Held(outstanding), <<>>, <<l>> \o rest, Readable)
    BY <1>3, <2>1, <2>7 DEF Unanswered, Four
  <2>10. SameFour(Four(Held(outstanding), <<>>, <<l>> \o rest, Readable),
                  Four(Held(outstanding), <<l>>, rest, Readable))
    <3>1. <<>> \in Seq(Line)
      OBVIOUS
    <3> QED BY <2>1, <3>1, PartTypes, FourIs
  <2> QED BY <1>1, <1>4, <2>5, <2>6, <2>8, <2>9, <2>10, HiddenIs DEF ServeInv, SameFour
<1> QED BY <1>5, <1>6

LEMMA NothingBufferedIs == ServeInv /\ NothingBuffered => ServeInv' /\ Serial!Answer
<1> SUFFICES ASSUME ServeInv, NothingBuffered PROVE ServeInv' /\ Serial!Answer
  OBVIOUS
<1>1. /\ phase = "take" /\ outstanding # NoLine /\ Finalize /\ outstanding' = NoLine
      /\ closed' = closed /\ written' = written /\ stdin' = stdin /\ reader' = reader
      /\ broken' = broken /\ queue' = queue /\ phase' = phase /\ line' = line
      /\ pendingError' = pendingError
  BY DEF NothingBuffered, Finalize, pipeVars, readerVars
<1>2. ServeInv'
  BY <1>1 DEF ServeInv, ServeTypes, ReaderInv, LoopInv
<1>3. Running /\ Running'
  BY <1>1 DEF Running
<1> QED BY <1>1, <1>2, <1>3, FinalizeIs

LEMMA PrepareIs == ServeInv /\ Prepare => ServeInv' /\ UNCHANGED Serial!serviceVars
<1> SUFFICES ASSUME ServeInv, Prepare PROVE ServeInv' /\ UNCHANGED Serial!serviceVars
  OBVIOUS
<1>1. /\ phase = "prepare" /\ phase' = "drain"
      /\ closed' = closed /\ written' = written /\ stdin' = stdin /\ reader' = reader
      /\ broken' = broken /\ queue' = queue /\ line' = line
      /\ outstanding' = outstanding /\ output' = output
  BY DEF Prepare, pipeVars, readerVars
<1>2. pendingError' \in BOOLEAN /\ (pendingError' => line.kind \in {"batch", "malformed"})
  BY DEF Prepare
<1>3. line \in Line /\ line # NoLine
  BY <1>1, LinesAre DEF ServeInv, LoopInv
<1>4. ServeInv'
  BY <1>1, <1>2, <1>3 DEF ServeInv, ServeTypes, ReaderInv, LoopInv
<1>5. Unanswered' = Unanswered /\ Running /\ Running'
  BY <1>1 DEF Unanswered, Readable, Running
<1> QED BY <1>1, <1>4, <1>5, HiddenIs

LEMMA DrainIs == ServeInv /\ Drain => ServeInv' /\ (Serial!Answer \/ UNCHANGED Serial!serviceVars)
<1> SUFFICES ASSUME ServeInv, Drain
             PROVE  ServeInv' /\ (Serial!Answer \/ UNCHANGED Serial!serviceVars)
  OBVIOUS
<1>1. /\ phase = "drain" /\ phase' = "handle" /\ outstanding' = NoLine
      /\ closed' = closed /\ written' = written /\ stdin' = stdin /\ reader' = reader
      /\ broken' = broken /\ queue' = queue /\ line' = line /\ pendingError' = pendingError
  BY DEF Drain, Finalize, pipeVars, readerVars
<1>2. ServeInv'
  BY <1>1 DEF ServeInv, ServeTypes, ReaderInv, LoopInv
<1>3. Running /\ Running' /\ Readable' = Readable
  BY <1>1 DEF Running, Readable
<1>4. CASE outstanding = NoLine
  <2>1. outstanding' = outstanding /\ output' = output
    BY <1>4 DEF Drain
  <2>2. Unanswered' = Unanswered
    BY <1>1, <1>3, <2>1 DEF Unanswered
  <2> QED BY <1>1, <1>2, <1>3, <2>1, <2>2, HiddenIs
<1>5. CASE outstanding # NoLine
  <2>1. Finalize
    BY <1>5 DEF Drain
  <2> QED BY <1>1, <1>2, <1>3, <1>5, <2>1, FinalizeIs
<1> QED BY <1>4, <1>5

\* The end of a line's own slot.
LEMMA HandledInv ==
  ASSUME ServeInv, NEW next \in {"take", "stopped"}, Handled(next),
         \/ outstanding' = outstanding
         \/ outstanding' = line /\ line \in Line /\ line.kind = "batch"
  PROVE  ServeInv'
<1>1. /\ phase' = next /\ line' = NoLine /\ pendingError' = FALSE
      /\ closed' = closed /\ written' = written /\ stdin' = stdin /\ reader' = reader
      /\ broken' = broken /\ queue' = queue
  BY DEF Handled, pipeVars, readerVars
<1>2. ServeTypes'
  BY <1>1 DEF ServeInv, ServeTypes
<1>3. ReaderInv'
  BY <1>1, LinesAre DEF ServeInv, ReaderInv
<1>4. LoopInv'
  BY <1>1 DEF ServeInv, LoopInv
<1> QED BY <1>2, <1>3, <1>4 DEF ServeInv

\* The line handled is no sentinel, and nothing is outstanding.
LEMMA InHand ==
  ASSUME ServeInv, phase = "handle", line # Eof
  PROVE  line \in Line /\ outstanding = NoLine /\ Running
BY DEF ServeInv, ServeTypes, LoopInv, Running

LEMMA AnswerErrorIs == ServeInv /\ AnswerError => ServeInv' /\ Serial!Answer
<1> SUFFICES ASSUME ServeInv, AnswerError PROVE ServeInv' /\ Serial!Answer
  OBVIOUS
<1>1. /\ phase = "handle" /\ pendingError /\ Respond(line, FALSE) /\ Handled("take")
      /\ outstanding' = outstanding
  BY DEF AnswerError
<1>2. line.kind \in {"batch", "malformed"}
  BY <1>1 DEF ServeInv, LoopInv
<1>3. line \in Line /\ outstanding = NoLine /\ Running
  <2>1. line # Eof
    BY <1>2 DEF Eof
  <2> QED BY <1>1, <2>1, InHand
<1>4. FALSE \in Serial!Outcomes(line) /\ line.kind # "shutdown"
  BY <1>2 DEF Serial!Outcomes
<1>5. ServeInv'
  BY <1>1, HandledInv
<1>6. /\ line' = NoLine /\ Running'
      /\ UNCHANGED <<written, closed, broken, stdin, reader, queue>>
  BY <1>1 DEF Handled, Running, pipeVars, readerVars
<1> QED BY <1>1, <1>3, <1>4, <1>5, <1>6, HandleIs

LEMMA LaunchIs == ServeInv /\ Launch => ServeInv' /\ (Serial!Answer \/ UNCHANGED Serial!serviceVars)
<1> SUFFICES ASSUME ServeInv, Launch
             PROVE  ServeInv' /\ (Serial!Answer \/ UNCHANGED Serial!serviceVars)
  OBVIOUS
<1>1. phase = "handle" /\ line.kind = "batch" /\ Handled("take")
  BY DEF Launch
<1>2. line \in Line /\ outstanding = NoLine /\ Running
  <2>1. line # Eof
    BY <1>1 DEF Eof
  <2> QED BY <1>1, <2>1, InHand
<1>3. /\ line' = NoLine /\ Running'
      /\ UNCHANGED <<written, closed, broken, stdin, reader, queue>>
  BY <1>1 DEF Handled, Running, pipeVars, readerVars
<1>4. CASE outstanding' = line /\ output' = output
  <2>1. ServeInv'
    BY <1>1, <1>2, <1>4, HandledInv
  <2>2. Held(outstanding') = Held(line) /\ Held(line') = Held(outstanding)
    BY <1>2, <1>3, <1>4, LinesAre
  <2>3. Unanswered' = Four(Held(line), Held(outstanding), LinesOf(queue), Readable)
    BY <1>3, <2>2 DEF Unanswered, Readable, Four
  <2>4. Unanswered = Four(Held(outstanding), Held(line), LinesOf(queue), Readable)
    BY PartTypes
  <2>5. SameFour(Four(<<>>, <<line>>, LinesOf(queue), Readable),
                 Four(<<line>>, <<>>, LinesOf(queue), Readable))
    <3>1. <<>> \in Seq(Line)
      OBVIOUS
    <3> QED BY <1>2, <3>1, PartTypes, FourIs
  <2>6. Held(line) = <<line>> /\ Held(outstanding) = <<>>
    BY <1>2, LinesAre
  <2>7. Unanswered' = Unanswered
    BY <2>3, <2>4, <2>5, <2>6 DEF SameFour
  <2> QED BY <1>2, <1>3, <1>4, <2>1, <2>7, HiddenIs
<1>5. CASE Respond(line, FALSE) /\ outstanding' = outstanding
  <2>1. ServeInv'
    BY <1>1, <1>5, HandledInv
  <2>2. FALSE \in Serial!Outcomes(line) /\ line.kind # "shutdown"
    BY <1>1 DEF Serial!Outcomes
  <2> QED BY <1>2, <1>3, <1>5, <2>1, <2>2, HandleIs
<1> QED BY <1>4, <1>5 DEF Launch

LEMMA HandleInlineIs == ServeInv /\ HandleInline => ServeInv' /\ Serial!Answer
<1> SUFFICES ASSUME ServeInv, HandleInline PROVE ServeInv' /\ Serial!Answer
  OBVIOUS
<1>1. PICK ok \in BOOLEAN : Respond(line, ok)
  BY DEF HandleInline
<1>2. /\ phase = "handle" /\ line.kind = "inline" /\ Handled("take")
      /\ outstanding' = outstanding
  BY DEF HandleInline
<1>3. line \in Line /\ outstanding = NoLine /\ Running
  <2>1. line # Eof
    BY <1>2 DEF Eof
  <2> QED BY <1>2, <2>1, InHand
<1>4. ok \in Serial!Outcomes(line) /\ line.kind # "shutdown"
  BY <1>2 DEF Serial!Outcomes
<1>5. ServeInv'
  BY <1>2, HandledInv
<1>6. /\ line' = NoLine /\ Running'
      /\ UNCHANGED <<written, closed, broken, stdin, reader, queue>>
  BY <1>2 DEF Handled, Running, pipeVars, readerVars
<1> QED BY <1>1, <1>2, <1>3, <1>4, <1>5, <1>6, HandleIs

LEMMA HandleShutdownIs == ServeInv /\ HandleShutdown => ServeInv' /\ Serial!Answer
<1> SUFFICES ASSUME ServeInv, HandleShutdown PROVE ServeInv' /\ Serial!Answer
  OBVIOUS
<1>1. /\ phase = "handle" /\ line.kind = "shutdown" /\ Respond(line, TRUE)
      /\ Handled("stopped") /\ outstanding' = outstanding
  BY DEF HandleShutdown
<1>2. line \in Line /\ outstanding = NoLine /\ Running
  <2>1. line # Eof
    BY <1>1 DEF Eof
  <2> QED BY <1>1, <2>1, InHand
<1>3. TRUE \in Serial!Outcomes(line)
  BY <1>1 DEF Serial!Outcomes
<1>4. ServeInv'
  BY <1>1, HandledInv
<1>5. /\ line' = NoLine /\ ~Running'
      /\ UNCHANGED <<written, closed, broken, stdin, reader, queue>>
  BY <1>1 DEF Handled, Running, pipeVars, readerVars
<1>6. Running' = (line.kind # "shutdown")
  BY <1>1, <1>5 DEF Running
<1> QED BY <1>1, <1>2, <1>3, <1>4, <1>5, <1>6, HandleIs

LEMMA ExitIs == ServeInv /\ Exit => ServeInv' /\ Serial!EndOfInput
<1> SUFFICES ASSUME ServeInv, Exit PROVE ServeInv' /\ Serial!EndOfInput
  OBVIOUS
<1>1. /\ phase = "handle" /\ line = Eof /\ Handled("stopped")
      /\ outstanding' = outstanding /\ output' = output
  BY DEF Exit
<1>2. outstanding = NoLine /\ reader = "done" /\ queue = <<>> /\ (closed \/ broken)
  BY <1>1 DEF ServeInv, ReaderInv, LoopInv
<1>3. Unanswered = <<>>
  <2>1. LinesOf(queue) = <<>>
    BY <1>2 DEF LinesOf
  <2>2. Held(outstanding) = <<>> /\ Held(line) = <<>> /\ Readable = <<>>
    BY <1>1, <1>2, LinesAre DEF Readable
  <2> QED BY <2>1, <2>2 DEF Unanswered
<1>4. /\ Running /\ ~Running' /\ Running' = FALSE
      /\ closed' = closed /\ written' = written /\ broken' = broken
  BY <1>1 DEF Handled, Running, pipeVars, readerVars
<1>5. ServeInv'
  BY <1>1, HandledInv
<1>6. Input = <<>> /\ Input' = <<>>
  BY <1>3, <1>4 DEF Input
<1> QED BY <1>1, <1>2, <1>4, <1>5, <1>6 DEF Serial!EndOfInput, Input

-----------------------------------------------------------------------------
LEMMA ServeStep ==
  ServeInv /\ [ServeNext]_serveVars => ServeInv' /\ [Serial!Next]_(Serial!serviceVars)
<1> SUFFICES ASSUME ServeInv, [ServeNext]_serveVars
             PROVE  ServeInv' /\ (Serial!Next \/ UNCHANGED Serial!serviceVars)
  OBVIOUS
<1>1. CASE Write
  BY <1>1, WriteIs DEF Serial!Next
<1>2. CASE Close
  BY <1>2, CloseIs DEF Serial!Next
<1>3. CASE Reader
  BY <1>3, ReadLineIs, ReadEndsIs, PutEofIs DEF Reader
<1>4. CASE ReadRaises
  BY <1>4, ReadRaisesIs DEF Serial!Next
<1>5. CASE Take \/ Prepare
  BY <1>5, TakeIs, PrepareIs
<1>6. CASE NothingBuffered \/ AnswerError \/ HandleInline \/ HandleShutdown
  BY <1>6, NothingBufferedIs, AnswerErrorIs, HandleInlineIs, HandleShutdownIs DEF Serial!Next
<1>7. CASE Drain \/ Launch
  BY <1>7, DrainIs, LaunchIs DEF Serial!Next
<1>8. CASE Exit
  BY <1>8, ExitIs DEF Serial!Next
<1>9. CASE UNCHANGED serveVars
  <2>1. /\ closed' = closed /\ written' = written /\ stdin' = stdin /\ reader' = reader
        /\ broken' = broken /\ queue' = queue /\ phase' = phase /\ line' = line
        /\ pendingError' = pendingError /\ outstanding' = outstanding /\ output' = output
    BY <1>9 DEF serveVars, pipeVars, readerVars, loopVars
  <2>2. ServeInv'
    BY <2>1 DEF ServeInv, ServeTypes, ReaderInv, LoopInv
  <2>3. UNCHANGED Serial!serviceVars
    BY <2>1 DEF Serial!serviceVars, Running, Unanswered, Readable
  <2> QED BY <2>2, <2>3
<1> QED BY <1>1, <1>2, <1>3, <1>4, <1>5, <1>6, <1>7, <1>8, <1>9 DEF ServeNext, Loop

\* Whatever the client writes, whichever request fails and wherever the read of the
\* input breaks, for every length of the queue: each step of the pipelined loop is a
\* step of the serial one to its client, or none (_serve_pipeline_loop, _serve_loop).
THEOREM AnswersInOrder ==
  PythonSpec => Serial!Init /\ [][Serial!Next]_(Serial!serviceVars)
<1>1. PythonInit => ServeInv /\ Serial!Init
  BY ServeInitIs DEF PythonInit
<1>2. ServeInv /\ [PythonNext]_pythonVars => ServeInv' /\ [Serial!Next]_(Serial!serviceVars)
  <2>1. [PythonNext]_pythonVars => [ServeNext]_serveVars
    BY DEF PythonNext, pythonVars
  <2> QED BY <2>1, ServeStep
<1> QED BY <1>1, <1>2, PTL DEF PythonSpec
=============================================================================
