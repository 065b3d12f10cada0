--------------------------- MODULE FleetHostProofs --------------------------
(***************************************************************************)
(* Safety of the parts of a fleet host, for every number of wrappers,      *)
(* launches, chunks, workers, seeds and rows, and without the bounds on    *)
(* what can go wrong.                                                      *)
(***************************************************************************)
EXTENDS FleetHost, SequenceLemmas

-----------------------------------------------------------------------------
(* The host lock.                                                           *)

\* Whoever is between acquiring and releasing has the flock; the file names who
\* has written it; a command has a wrapper that waits for it or was killed.
Places == {"away", "queued", "acquired", "recorded", "started", "waiting", "reaped", "erased",
           "ended", "killed"}
Holding == {"acquired", "recorded", "started", "waiting", "reaped", "erased"}
Named == {"recorded", "started", "waiting", "reaped"}

LockInv ==
  /\ wrapper \in [Wrappers -> Places]
  /\ command \in [Wrappers -> {"none", "running", "exited"}]
  /\ \A w \in Wrappers :
       /\ wrapper[w] \in Holding => holder = w
       /\ wrapper[w] \in Named => owner = w
       /\ command[w] = "running" => wrapper[w] \in {"started", "waiting", "killed"}

LEMMA LockStep == LockInv /\ [LockNext]_lockVars => LockInv'
<1> SUFFICES ASSUME LockInv, [LockNext]_lockVars PROVE LockInv'
  OBVIOUS
<1> USE LockAssumption DEF LockInv, At, Places, Holding, Named
<1>1. CASE Status
  BY <1>1 DEF Status, Nobody, Probe
<1>2. ASSUME NEW w \in Wrappers, Run(w) PROVE LockInv'
  <2>1. CASE Queue(w)
    BY <2>1 DEF Queue
  <2>2. CASE Acquire(w)
    BY <2>2 DEF Acquire
  <2>3. CASE TimeOut(w)
    BY <2>3 DEF TimeOut
  <2>4. CASE WriteOwner(w)
    BY <2>4 DEF WriteOwner
  <2>5. CASE StartCommand(w)
    BY <2>5 DEF StartCommand
  <2>6. CASE InstallHandlers(w)
    BY <2>6 DEF InstallHandlers
  <2>7. CASE CommandExits(w)
    BY <2>7 DEF CommandExits
  <2>8. CASE Reap(w)
    BY <2>8 DEF Reap
  <2>9. CASE Release(w)
    BY <2>9 DEF Release
  <2>10. CASE Forward(w)
    BY <2>10 DEF Forward
  <2>11. CASE Die(w)
    BY <2>11 DEF Die
  <2> QED
    BY <1>2, <2>1, <2>2, <2>3, <2>4, <2>5, <2>6, <2>7, <2>8, <2>9, <2>10, <2>11 DEF Run
<1>3. CASE UNCHANGED lockVars
  BY <1>3 DEF lockVars
<1> QED
  BY <1>1, <1>2, <1>3 DEF LockNext

\* A workload whose wrapper is there runs alone, but for what killed wrappers
\* left behind.
THEOREM LockSerializes == LockSpec => []RunsAlone
<1>1. LockInit => LockInv
  BY DEF LockInit, LockInv, Places, Holding, Named
<1>2. LockInv => RunsAlone
  BY DEF LockInv, RunsAlone, Holding, Named
<1> QED
  BY <1>1, <1>2, LockStep, PTL DEF LockSpec

-----------------------------------------------------------------------------
(* One pipeline.                                                            *)

\* The pid file names every running pipeline, so what the watchdog decides on
\* still covers them when it acts.
PipeInv ==
  /\ pipe \in [Launches -> {"none", "stage", "fork", "wait"}]
  /\ \A p \in Launches : PipeAlive(p) => pidFile = {p} /\ decision # "launch"
  /\ decision = "terminate" => target = pidFile

LEMMA PipeStep == PipeInv /\ [FleetNext]_fleetVars => PipeInv'
<1> SUFFICES ASSUME PipeInv, [FleetNext]_fleetVars PROVE PipeInv'
  OBVIOUS
<1> USE DEF PipeInv, PipeAlive
<1>1. ASSUME NEW p \in Launches, Pipeline(p) PROVE PipeInv'
  BY <1>1 DEF Pipeline, StartStage, StoreWorker, NextStage, StageFails, watchVars
<1>2. ASSUME NEW p \in Launches, Worker(p) PROVE PipeInv'
  BY <1>2 DEF Worker, StartSolver, StoreSolver, NextChunk, watchVars
<1>3. ASSUME NEW p \in Launches, Solve(p) PROVE PipeInv'
  BY <1>3 DEF Solve, CheckExisting, OpenTemporary, WriteTemporary, Publish, NotTheSolver, watchVars
<1>4. CASE Inspect
  BY <1>4 DEF Inspect, Running, hostVars
<1>5. CASE Launch
  BY <1>5 DEF Launch
<1>6. CASE Terminate \/ TerminateFails
  BY <1>6 DEF Terminate, TerminateFails, TerminateEnds, Stop, Hit
<1>7. CASE LaunchSync
  BY <1>7 DEF LaunchSync, hostVars
<1>8. CASE Sync
  BY <1>8 DEF Sync, Merge, CopyStage, hostVars, watchVars
<1>9. CASE Faults
  <2>1. ASSUME NEW p \in Launches, KillPipeline(p) \/ KillWorker(p) \/ KillSolver(p) \/ Stall(p)
        PROVE  PipeInv'
    BY <2>1 DEF KillPipeline, KillWorker, KillSolver, Stall, Fault, watchVars
  <2>2. CASE Reboot
    BY <2>2 DEF Reboot, Fault, watchVars
  <2>3. CASE SyncDies
    BY <2>3 DEF SyncDies, Fault, watchVars
  <2> QED
    BY <1>9, <2>1, <2>2, <2>3 DEF Faults
<1>10. CASE UNCHANGED fleetVars
  BY <1>10 DEF fleetVars, hostVars, watchVars
<1> QED
  BY <1>1, <1>2, <1>3, <1>4, <1>5, <1>6, <1>7, <1>8, <1>9, <1>10 DEF FleetNext, Watchdog

\* However processes are killed and whatever a pass decided on, no host runs two
\* pipelines.
THEOREM PipelinesAlone == FleetSpec => []OnePipeline
<1>1. FleetInit => PipeInv
  BY DEF FleetInit, PipeInv, PipeAlive
<1>2. PipeInv => OnePipeline
  <2> SUFFICES ASSUME PipeInv, NEW p \in Launches, NEW q \in Launches, PipeAlive(p), PipeAlive(q)
               PROVE  p = q
    BY DEF OnePipeline
  <2>1. pidFile = {p} /\ pidFile = {q}
    BY DEF PipeInv
  <2> QED
    BY <2>1
<1> QED
  BY <1>1, <1>2, PipeStep, PTL DEF FleetSpec

-----------------------------------------------------------------------------
(* The delivery.                                                            *)

\* The sync script leaves a stage when all of it is whole, and copies nothing of
\* that stage again.
WholeStage(s) == \A c \in Cells : c[1] = s => central[c] = "whole"

SyncInv ==
  /\ central \in [Cells -> {"absent", "legacy", "empty", "whole", "mixed"}]
  /\ out \in [Cells -> {"absent", "legacy", "empty", "whole", "mixed"}]
  /\ tmp \in [Cells -> {"absent", "empty", "whole", "mixed"}]
  /\ at \in [Launches -> Cells]
  /\ sync \in {"off", "shallow", "production", "merge"}
  /\ sync \in {"production", "merge"} => WholeStage("shallow")
  /\ sync = "merge" => WholeStage("production")
  /\ delivered => sync = "off" /\ \A c \in Cells : central[c] = "whole"

LEMMA StageOf == \A c \in Cells : c[1] \in Stages
  BY DEF Cells

\* The files of the host: no step but the script's touches what it copied.
LEMMA FilesTyped ==
  ASSUME SyncInv, NEW p \in Launches, Pipeline(p) \/ Worker(p) \/ Solve(p)
  PROVE  /\ out' \in [Cells -> {"absent", "legacy", "empty", "whole", "mixed"}]
         /\ tmp' \in [Cells -> {"absent", "empty", "whole", "mixed"}]
         /\ at' \in [Launches -> Cells]
         /\ UNCHANGED syncVars
<1> USE FleetAssumption DEF SyncInv, syncVars, chunkVars
<1>1. CASE Pipeline(p)
  <2>1. <<"production", 1>> \in Cells
    BY DEF Cells, Stages
  <2> QED
    BY <1>1, <2>1 DEF Pipeline, StartStage, StoreWorker, NextStage, StageFails
<1>2. CASE Worker(p)
  <2>1. CASE NextChunk(p)
    <3>1. at[p] \in Cells
      OBVIOUS
    <3>2. at[p][2] < Chunks => [at[p] EXCEPT ![2] = @ + 1] \in Cells
      BY <3>1 DEF Cells
    <3> QED
      BY <2>1, <3>2 DEF NextChunk
  <2> QED
    BY <1>2, <2>1 DEF Worker, StartSolver, StoreSolver
<1>3. CASE Solve(p)
  BY <1>3 DEF Solve, CheckExisting, OpenTemporary, WriteTemporary, Publish, NotTheSolver, After
<1> QED
  BY <1>1, <1>2, <1>3

LEMMA SyncStep == SyncInv /\ [FleetNext]_fleetVars => SyncInv'
<1> SUFFICES ASSUME SyncInv, [FleetNext]_fleetVars PROVE SyncInv'
  OBVIOUS
<1>1. ASSUME NEW p \in Launches, Pipeline(p) \/ Worker(p) \/ Solve(p) PROVE SyncInv'
  BY <1>1, FilesTyped DEF SyncInv, WholeStage, syncVars
<1>2. CASE Inspect \/ Terminate \/ TerminateFails
  BY <1>2 DEF SyncInv, WholeStage, Inspect, Terminate, TerminateFails, TerminateEnds, Stop, hostVars, chunkVars, syncVars
<1>3. CASE Launch
  <2>1. <<"shallow", 1>> \in Cells
    BY FleetAssumption DEF Cells, Stages
  <2> QED
    BY <1>3, <2>1 DEF SyncInv, WholeStage, Launch, chunkVars, syncVars
<1>4. CASE LaunchSync
  BY <1>4 DEF SyncInv, WholeStage, LaunchSync, hostVars, chunkVars
<1>5. ASSUME NEW s \in Stages, CopyStage(s) PROVE SyncInv'
  <2>1. /\ central' \in [Cells -> {"absent", "legacy", "empty", "whole", "mixed"}]
        /\ \A c \in Cells : c[1] # s => central'[c] = central[c]
        /\ sync = s /\ ~delivered /\ UNCHANGED <<out, tmp, at, delivered>>
    BY <1>5 DEF SyncInv, CopyStage, hostVars, chunkVars, Stages
  <2> DEFINE copies == [c \in {d \in Cells : d[1] = s} |-> central'[c]]
  <2>2. sync' = CASE Complete(copies) -> (IF s = "shallow" THEN "production" ELSE "merge")
                  [] \E c \in DOMAIN copies : Torn(copies[c]) -> "off"
                  [] OTHER -> s
    BY <1>5 DEF CopyStage
  <2>3. Complete(copies) => WholeStage(s)'
    BY DEF Complete, WholeStage
  <2>4. Complete(copies) => ~\E c \in DOMAIN copies : Torn(copies[c])
    BY DEF Complete, Torn
  <2> HIDE DEF copies
  <2>5. \/ Complete(copies) /\ sync' = (IF s = "shallow" THEN "production" ELSE "merge")
        \/ sync' \in {"off", s}
    BY <2>2, <2>4
  <2>6. CASE s = "shallow"
    BY <2>1, <2>3, <2>5, <2>6 DEF SyncInv
  <2>7. CASE s = "production"
    <3>1. WholeStage("shallow")'
      BY <2>1, <2>7 DEF SyncInv, WholeStage
    <3> QED
      BY <2>1, <2>3, <2>5, <2>7, <3>1 DEF SyncInv
  <2> QED
    BY <2>6, <2>7 DEF Stages
<1>6. CASE Merge
  BY <1>6, StageOf DEF SyncInv, WholeStage, Merge, hostVars, chunkVars, Stages
<1>7. CASE Faults
  BY <1>7 DEF SyncInv, WholeStage, Faults, Reboot, SyncDies, KillPipeline, KillWorker, KillSolver,
              Stall, Fault, chunkVars
<1>8. CASE UNCHANGED fleetVars
  BY <1>8 DEF SyncInv, WholeStage, fleetVars, hostVars, chunkVars, syncVars
<1> QED
  BY <1>1, <1>2, <1>3, <1>4, <1>5, <1>6, <1>7, <1>8 DEF FleetNext, Watchdog, Sync

\* A catalog is delivered from whole chunks only, for every number of chunks.
THEOREM DeliveryWhole == FleetSpec => []DeliversWhole
<1>1. FleetInit => SyncInv
  BY FleetAssumption DEF FleetInit, SyncInv, Cells, Stages
<1>2. SyncInv => DeliversWhole
  BY DEF SyncInv, DeliversWhole
<1> QED
  BY <1>1, <1>2, SyncStep, PTL DEF FleetSpec

-----------------------------------------------------------------------------
(* Completeness.                                                            *)

\* A launch moves on only past chunks that are there, and no chunk that is there
\* goes away.
Has(c) == out[c] \notin {"absent", "legacy"}
HasStage(s) == \A c \in Cells : c[1] = s => Has(c)

ProgressInv ==
  /\ SyncInv
  /\ work \in [Launches -> {"none", "chunk", "fork", "wait", "done", "failed"}]
  /\ solver \in [Launches -> Searching \cup {"none", "done", "failed"}]
  /\ \A p \in Launches :
       /\ \A c \in Cells : c[1] = at[p][1] /\ c[2] < at[p][2] => Has(c)
       /\ at[p][1] = "production" => HasStage("shallow")
       /\ solver[p] = "done" => Has(at[p])
       /\ work[p] = "done" => solver[p] = "none" /\ HasStage(at[p][1])
  /\ stageFile = "complete" => \A c \in Cells : Has(c)

LEMMA SameCell ==
  \A c, d \in Cells : c[2] \in 1..Chunks /\ (c[1] = d[1] /\ c[2] = d[2] => c = d)
  BY DEF Cells

LEMMA LastCell ==
  ASSUME NEW c \in Cells, NEW d \in Cells, c[1] = d[1], ~(c[2] < d[2]),
         c[2] < d[2] + 1 \/ ~(d[2] < Chunks)
  PROVE  c = d
<1>1. c[2] \in 1..Chunks /\ d[2] \in 1..Chunks
  BY SameCell
<1>2. c[2] = d[2]
  BY <1>1, FleetAssumption
<1> QED
  BY <1>2, SameCell

LEMMA ChunksStay ==
  ASSUME SyncInv, [FleetNext]_fleetVars
  PROVE  \A c \in Cells : Has(c) => Has(c)'
<1> USE DEF SyncInv, Has
<1>1. ASSUME NEW p \in Launches, Pipeline(p) \/ Worker(p)
      PROVE  UNCHANGED out
  BY <1>1 DEF Pipeline, StartStage, StoreWorker, NextStage, StageFails, Worker, StartSolver,
              StoreSolver, NextChunk, chunkVars
<1>2. ASSUME NEW p \in Launches, Solve(p) PROVE \A c \in Cells : Has(c) => Has(c)'
  BY <1>2 DEF Solve, CheckExisting, OpenTemporary, WriteTemporary, Publish, After, chunkVars
<1>3. Watchdog \/ Sync => UNCHANGED out
  BY DEF Watchdog, Inspect, Launch, Terminate, TerminateFails, TerminateEnds, Stop, LaunchSync, Sync, CopyStage, Merge, chunkVars
<1>4. Faults => UNCHANGED out
  BY DEF Faults, Reboot, SyncDies, KillPipeline, KillWorker, KillSolver, Stall, Fault, chunkVars
<1> QED
  BY <1>1, <1>2, <1>3, <1>4 DEF FleetNext, fleetVars, chunkVars

LEMMA ProgressStep == ProgressInv /\ [FleetNext]_fleetVars => ProgressInv'
<1> SUFFICES ASSUME ProgressInv, [FleetNext]_fleetVars PROVE ProgressInv'
  OBVIOUS
<1>a. SyncInv'
  BY SyncStep DEF ProgressInv
<1>b. \A c \in Cells : Has(c) => Has(c)'
  BY ChunksStay DEF ProgressInv
<1>c. \A s : HasStage(s) => HasStage(s)'
  BY <1>b DEF HasStage
<1> USE DEF ProgressInv, Searching, SyncInv
<1>1. ASSUME NEW p \in Launches, StartStage(p) \/ StoreWorker(p) \/ StageFails(p) PROVE ProgressInv'
  <2>1. at[p][1] # "complete"
    BY DEF Cells, Stages
  <2> QED
    BY <1>1, <1>a, <1>b, <1>c, <2>1 DEF StartStage, StoreWorker, StageFails
<1>2. ASSUME NEW p \in Launches, NextStage(p) PROVE ProgressInv'
  <2>1. HasStage(at[p][1]) /\ solver[p] = "none"
    BY <1>2 DEF NextStage, StageOver
  <2>2. CASE at[p][1] = "shallow"
    <3>1. /\ at' = [at EXCEPT ![p] = <<"production", 1>>] /\ UNCHANGED <<solver, stageFile>>
          /\ work' = [work EXCEPT ![p] = "none"]
      BY <1>2, <2>2 DEF NextStage
    <3>2. \A c \in Cells : ~(c[2] < 1)
      BY DEF Cells
    <3> QED
      BY <1>a, <1>b, <1>c, <2>1, <2>2, <3>1, <3>2
  <2>3. CASE at[p][1] # "shallow"
    <3>1. at[p][1] = "production"
      BY <2>3 DEF Cells, Stages
    <3>2. \A c \in Cells : Has(c)
      BY <2>1, <3>1, StageOf DEF HasStage, Stages
    <3> QED
      BY <1>2, <1>a, <1>b, <1>c, <2>3, <3>2 DEF NextStage
  <2> QED
    BY <2>2, <2>3
<1>3. ASSUME NEW p \in Launches, StartSolver(p) \/ StoreSolver(p) PROVE ProgressInv'
  BY <1>3, <1>a, <1>b, <1>c DEF StartSolver, StoreSolver
<1>4. ASSUME NEW p \in Launches, NextChunk(p) PROVE ProgressInv'
  <2>1. CASE solver[p] = "done" /\ at[p][2] < Chunks
    <3>1. /\ at' = [at EXCEPT ![p][2] = @ + 1] /\ work' = [work EXCEPT ![p] = "chunk"]
          /\ solver' = [solver EXCEPT ![p] = "none"] /\ UNCHANGED stageFile
      BY <1>4, <2>1 DEF NextChunk
    <3>2. Has(at[p]) /\ at[p] \in Cells
      BY <2>1
    <3>3. at'[p][1] = at[p][1] /\ at'[p][2] = at[p][2] + 1
      BY <3>1, <3>2 DEF Cells
    <3>4. \A c \in Cells : c[1] = at[p][1] /\ c[2] < at[p][2] + 1 => Has(c)
      <4> SUFFICES ASSUME NEW c \in Cells, c[1] = at[p][1], c[2] < at[p][2] + 1 PROVE Has(c)
        OBVIOUS
      <4>1. CASE c[2] < at[p][2]
        BY <4>1
      <4>2. CASE ~(c[2] < at[p][2])
        <5>1. c = at[p]
          BY <3>2, <4>2, LastCell
        <5> QED
          BY <3>2, <5>1
      <4> QED
        BY <4>1, <4>2
    <3>5. \A q \in Launches : q # p => at'[q] = at[q]
      BY <3>1
    <3> QED
      BY <1>a, <1>b, <1>c, <3>1, <3>3, <3>4, <3>5
  <2>2. CASE ~(solver[p] = "done" /\ at[p][2] < Chunks)
    <3>1. /\ work' = [work EXCEPT ![p] = solver[p]] /\ solver' = [solver EXCEPT ![p] = "none"]
          /\ UNCHANGED <<at, stageFile>> /\ solver[p] \in {"done", "failed"}
      BY <1>4, <2>2 DEF NextChunk
    <3>2. solver[p] = "done" => HasStage(at[p][1])
      <4> SUFFICES ASSUME solver[p] = "done", NEW c \in Cells, c[1] = at[p][1] PROVE Has(c)
        BY DEF HasStage
      <4>1. Has(at[p]) /\ at[p] \in Cells
        OBVIOUS
      <4>2. CASE c[2] < at[p][2]
        BY <4>2
      <4>3. CASE ~(c[2] < at[p][2])
        <5>1. c = at[p]
          BY <2>2, <4>1, <4>3, LastCell
        <5> QED
          BY <4>1, <5>1
      <4> QED
        BY <4>2, <4>3
    <3> QED
      BY <1>a, <1>b, <1>c, <3>1, <3>2
  <2> QED
    BY <2>1, <2>2
<1>5. ASSUME NEW p \in Launches, Solve(p) PROVE ProgressInv'
  <2>1. UNCHANGED <<work, at, stageFile>>
    BY <1>5 DEF Solve, CheckExisting, OpenTemporary, WriteTemporary, Publish, NotTheSolver
  <2>2. /\ solver[p] \in Searching
        /\ \E to \in {"open", "written", "search", "done", "failed"} :
             solver' = [solver EXCEPT ![p] = to] /\ (to = "done" => Has(at[p])')
    <3>1. CASE CheckExisting(p)
      <4>1. at'[p] = at[p] /\ out'[at[p]] = out[at[p]]
        BY <3>1 DEF CheckExisting, NotTheSolver, chunkVars
      <4>2. CASE out[at[p]] \in {"absent", "legacy"}
        BY <3>1, <4>2 DEF CheckExisting, Solver
      <4>3. CASE out[at[p]] = "whole"
        BY <3>1, <4>1, <4>3 DEF CheckExisting, Solver, Has
      <4>4. CASE out[at[p]] \notin {"absent", "legacy", "whole"}
        BY <3>1, <4>4 DEF CheckExisting, Solver
      <4> QED
        BY <4>2, <4>3, <4>4
    <3>2. CASE OpenTemporary(p) \/ WriteTemporary(p)
      BY <3>2 DEF OpenTemporary, WriteTemporary, Solver
    <3>3. CASE Publish(p)
      <4>1. at'[p] = at[p] /\ at[p] \in Cells
        BY <3>3 DEF Publish, NotTheSolver
      <4>2. tmp[at[p]] # "absent" => Has(at[p])'
        BY <3>3, <4>1 DEF Publish, Has
      <4> QED
        BY <3>3, <4>2 DEF Publish, Solver
    <3> QED
      BY <1>5, <3>1, <3>2, <3>3 DEF Solve
  <2> QED
    BY <1>a, <1>b, <1>c, <2>1, <2>2
<1>6. CASE Inspect \/ LaunchSync \/ Sync
  <2>1. UNCHANGED <<work, solver, at, stageFile>>
    BY <1>6 DEF Inspect, LaunchSync, Sync, Merge, CopyStage, hostVars
  <2> QED
    BY <1>a, <1>b, <1>c, <2>1
<1>7. CASE Launch
  <2>1. \A c \in Cells : ~(c[2] < 1)
    BY DEF Cells
  <2>2. PICK p \in Launches :
          /\ at' = [at EXCEPT ![p] = <<"shallow", 1>>] /\ UNCHANGED stageFile
          /\ work' = [work EXCEPT ![p] = "none"] /\ solver' = [solver EXCEPT ![p] = "none"]
    BY <1>7 DEF Launch
  <2> QED
    BY <1>a, <1>b, <1>c, <2>1, <2>2
<1>8. CASE Terminate \/ TerminateFails
  <2>1. UNCHANGED <<at, stageFile>>
    BY <1>8 DEF Terminate, TerminateFails, TerminateEnds
  <2>2. CASE Stop
    <3>1. \E W, S \in SUBSET Launches :
            /\ work' = [p \in Launches |-> IF p \in W THEN "failed" ELSE work[p]]
            /\ solver' = [p \in Launches |-> IF p \in S THEN "failed" ELSE solver[p]]
            /\ S \subseteq W
      <4> DEFINE W == {p \in Hit : pipe[p] = "wait" /\ WorkAlive(p)}
                 S == {p \in W : work[p] = "wait" /\ Alive(p)}
      <4>1. /\ work' = [p \in Launches |-> IF p \in W \cap Launches THEN "failed" ELSE work[p]]
            /\ solver' = [p \in Launches |-> IF p \in S \cap Launches THEN "failed" ELSE solver[p]]
        BY <2>2 DEF Stop
      <4> HIDE DEF W, S
      <4>2. S \cap Launches \subseteq W \cap Launches
        BY DEF S
      <4> QED
        BY <4>1, <4>2
    <3> QED
      BY <1>a, <1>b, <1>c, <2>1, <3>1
  <2>3. CASE UNCHANGED <<work, solver>>
    BY <1>a, <1>b, <1>c, <2>1, <2>3
  <2> QED
    BY <1>8, <2>2, <2>3 DEF Terminate, TerminateFails
<1>9. CASE Faults
  <2>1. ASSUME NEW p \in Launches, KillPipeline(p) \/ KillWorker(p) \/ KillSolver(p) \/ Stall(p)
        PROVE  ProgressInv'
    BY <2>1, <1>a, <1>b, <1>c DEF KillPipeline, KillWorker, KillSolver, Stall, Fault, Alive, WorkAlive
  <2>2. CASE Reboot \/ SyncDies
    BY <2>2, <1>a, <1>b, <1>c DEF Reboot, SyncDies, Fault
  <2> QED
    BY <1>9, <2>1, <2>2 DEF Faults
<1>10. CASE UNCHANGED fleetVars
  BY <1>10, <1>a, <1>b, <1>c DEF fleetVars, hostVars
<1> QED
  BY <1>1, <1>2, <1>3, <1>4, <1>5, <1>6, <1>7, <1>8, <1>9, <1>10
     DEF FleetNext, Watchdog, Pipeline, Worker

\* A host that reports its pipeline complete has published every chunk, and has
\* searched again each that an earlier version left, for every number of launches
\* and chunks and however many of them were killed.
THEOREM CompleteIsComplete == FleetSpec => []CompleteHasAll
<1>1. FleetInit => ProgressInv
  BY FleetAssumption DEF FleetInit, ProgressInv, SyncInv, Searching, Cells, Stages
<1>2. ProgressInv => CompleteHasAll
  BY DEF ProgressInv, CompleteHasAll, Has
<1> QED
  BY <1>1, <1>2, ProgressStep, PTL DEF FleetSpec

-----------------------------------------------------------------------------
(* The exporter's pool: evaluations.                                        *)

\* An evaluation is named by its row, so what a worker keeps is an identity.
Kept == {[r \in D |-> r] : D \in SUBSET Nat}

LEMMA KeptFacts ==
  ASSUME NEW kept \in Kept
  PROVE  DOMAIN kept \subseteq Nat /\ \A r \in DOMAIN kept : kept[r] = r
  BY DEF Kept

LEMMA InsertKeeps ==
  ASSUME NEW kept \in Kept, NEW row \in Nat
  PROVE  Insert(kept, row, row) \in Kept
<1> DEFINE base == IF Cardinality(DOMAIN kept) >= CacheLimit THEN << >> ELSE kept
<1>1. DOMAIN base \subseteq Nat /\ \A r \in DOMAIN base : base[r] = r
  BY KeptFacts
<1>2. Insert(kept, row, row) = [r \in DOMAIN base \cup {row} |-> IF r = row THEN row ELSE base[r]]
  BY DEF Insert
<1> HIDE DEF base
<1> DEFINE D == DOMAIN base \cup {row}
<1>3. \A r \in D : (IF r = row THEN row ELSE base[r]) = r
  BY <1>1
<1>4. Insert(kept, row, row) = [r \in D |-> r] /\ D \in SUBSET Nat
  BY <1>1, <1>2, <1>3
<1> QED BY <1>4 DEF Kept

LEMMA InsertAllKeeps ==
  ASSUME NEW kept \in Kept, NEW sent \in Seq(Nat)
  PROVE  InsertAll(kept, sent, sent) \in Kept
<1> DEFINE N == Len(sent)
           step == [p \in (1..N) \X Kept |-> Insert(p[2], sent[p[1]], sent[p[1]])]
           Eqn(h) == h = [i \in 0..N |-> IF i = 0 THEN kept ELSE Insert(h[i - 1], sent[i], sent[i])]
           filled == CHOOSE h : Eqn(h)
<1>1. N \in Nat /\ \A i \in 1..N : sent[i] \in Nat
  OBVIOUS
<1>2. step \in [(1..N) \X Kept -> Kept]
  BY InsertKeeps
<1>3. \A i \in 1..N : \A c \in Kept : step[<<i, c>>] = Insert(c, sent[i], sent[i])
  OBVIOUS
<1> HIDE DEF N, step
<1>4. PICK f \in [0..N -> Kept] : f[0] = kept /\ \A i \in 1..N : f[i] = step[<<i, f[i - 1]>>]
  <2>1. \E f \in [0..N -> Kept] : Follows(f, kept, step, N)
    BY <1>1, <1>2, Recursion
  <2> QED BY <2>1 DEF Follows
<1>5. Eqn(f)
  <2>1. ASSUME NEW i \in 0..N PROVE f[i] = IF i = 0 THEN kept ELSE Insert(f[i - 1], sent[i], sent[i])
    <3>1. CASE i = 0
      BY <1>4, <3>1
    <3>2. CASE i # 0
      <4>1. i \in 1..N /\ i - 1 \in 0..N
        BY <1>1, <3>2
      <4>2. f[i - 1] \in Kept
        BY <4>1
      <4> QED BY <1>3, <1>4, <3>2, <4>1, <4>2
    <3> QED BY <3>1, <3>2
  <2> QED BY <2>1
<1>6. Eqn(filled)
  BY <1>5
<1>7. InsertAll(kept, sent, sent) = filled[N]
  BY DEF InsertAll, N
<1> HIDE DEF filled
<1>8. filled[0] = kept /\ \A i \in 1..N : filled[i] = Insert(filled[i - 1], sent[i], sent[i])
  BY <1>1, <1>6
<1> DEFINE Good == {n \in 0..N : filled[n] \in Kept}
<1>9. ASSUME NEW n \in 0..(N - 1), n \in Good PROVE n + 1 \in Good
  <2>1. n + 1 \in 1..N /\ (n + 1) - 1 = n /\ sent[n + 1] \in Nat /\ filled[n] \in Kept
    BY <1>1, <1>9
  <2>2. filled[n + 1] = Insert(filled[n], sent[n + 1], sent[n + 1])
    BY <1>8, <2>1
  <2>3. filled[n + 1] \in Kept
    BY <2>1, <2>2, InsertKeeps
  <2> QED BY <1>1, <2>1, <2>3
<1>10. 0 \in Good
  BY <1>1, <1>8
<1>11. N \in Good
  <2> HIDE DEF Good
  <2> QED BY <1>1, <1>9, <1>10, ReachesEnd
<1> QED BY <1>7, <1>11

\* Every row that is not cached is sent.
LEMMA UniqueFacts ==
  ASSUME NEW rows \in Seq(Nat), NEW kept
  PROVE  /\ Unique(rows, kept) \in Seq(Nat)
         /\ \A i \in 1..Len(rows) : rows[i] \in DOMAIN kept \cup ToSet(Unique(rows, kept))
<1> DEFINE N == Len(rows)
           Next1(s, row) == IF row \in DOMAIN kept \cup ToSet(s) THEN s ELSE Append(s, row)
           step == [p \in (1..N) \X Seq(Nat) |-> Next1(p[2], rows[p[1]])]
           Eqn(h) == h = [i \in 0..N |-> IF i = 0 THEN <<>>
                                         ELSE IF rows[i] \in DOMAIN kept \cup ToSet(h[i - 1]) THEN h[i - 1]
                                         ELSE Append(h[i - 1], rows[i])]
           sent == CHOOSE h : Eqn(h)
<1>1. N \in Nat /\ \A i \in 1..N : rows[i] \in Nat
  OBVIOUS
<1>2. \A s \in Seq(Nat) : \A row \in Nat :
        Next1(s, row) \in Seq(Nat) /\ ToSet(s) \subseteq ToSet(Next1(s, row))
        /\ row \in DOMAIN kept \cup ToSet(Next1(s, row))
  <2> SUFFICES ASSUME NEW s \in Seq(Nat), NEW row \in Nat
               PROVE  Next1(s, row) \in Seq(Nat) /\ ToSet(s) \subseteq ToSet(Next1(s, row))
                      /\ row \in DOMAIN kept \cup ToSet(Next1(s, row))
    OBVIOUS
  <2>1. CASE row \in DOMAIN kept \cup ToSet(s)
    BY <2>1
  <2>2. CASE row \notin DOMAIN kept \cup ToSet(s)
    <3>1. Next1(s, row) = Append(s, row)
      BY <2>2
    <3>2. ToSet(Append(s, row)) = ToSet(s) \cup {row} /\ Append(s, row) \in Seq(Nat)
      BY ToSetAppend
    <3> HIDE DEF Next1
    <3> QED BY <3>1, <3>2
  <2> QED BY <2>1, <2>2
<1> HIDE DEF Next1
<1>3. step \in [(1..N) \X Seq(Nat) -> Seq(Nat)]
  BY <1>1, <1>2
<1>4. \A i \in 1..N : \A s \in Seq(Nat) : step[<<i, s>>] = Next1(s, rows[i])
  OBVIOUS
<1> HIDE DEF N, step
<1>5. PICK f \in [0..N -> Seq(Nat)] : f[0] = <<>> /\ \A i \in 1..N : f[i] = step[<<i, f[i - 1]>>]
  <2>1. <<>> \in Seq(Nat)
    OBVIOUS
  <2>2. \E f \in [0..N -> Seq(Nat)] : Follows(f, <<>>, step, N)
    BY <1>1, <1>3, <2>1, Recursion
  <2> QED BY <2>2 DEF Follows
<1>6. Eqn(f)
  <2>1. ASSUME NEW i \in 0..N
        PROVE  f[i] = IF i = 0 THEN <<>>
                      ELSE IF rows[i] \in DOMAIN kept \cup ToSet(f[i - 1]) THEN f[i - 1]
                      ELSE Append(f[i - 1], rows[i])
    <3>1. CASE i = 0
      BY <1>5, <3>1
    <3>2. CASE i # 0
      <4>1. i \in 1..N /\ i - 1 \in 0..N
        BY <1>1, <3>2
      <4>2. f[i - 1] \in Seq(Nat)
        BY <4>1
      <4>3. f[i] = Next1(f[i - 1], rows[i])
        BY <1>4, <1>5, <4>1, <4>2
      <4> QED BY <3>2, <4>3 DEF Next1
    <3> QED BY <3>1, <3>2
  <2> QED BY <2>1
<1>7. Eqn(sent)
  BY <1>6
<1>8. Unique(rows, kept) = sent[N]
  BY DEF Unique, N
<1> HIDE DEF sent
<1>9. sent[0] = <<>> /\ \A i \in 1..N : sent[i] = Next1(sent[i - 1], rows[i])
  <2>1. sent[0] = <<>>
    BY <1>1, <1>7
  <2>2. ASSUME NEW i \in 1..N PROVE sent[i] = Next1(sent[i - 1], rows[i])
    <3>1. i \in 0..N /\ i # 0
      BY <1>1
    <3>2. sent[i] = IF rows[i] \in DOMAIN kept \cup ToSet(sent[i - 1]) THEN sent[i - 1]
                    ELSE Append(sent[i - 1], rows[i])
      BY <1>7, <3>1
    <3> QED BY <3>2 DEF Next1
  <2> QED BY <2>1, <2>2
<1> DEFINE Good == {n \in 0..N : /\ sent[n] \in Seq(Nat)
                                 /\ \A i \in 1..n : rows[i] \in DOMAIN kept \cup ToSet(sent[n])}
<1>10. ASSUME NEW n \in 0..(N - 1), n \in Good PROVE n + 1 \in Good
  <2>1. /\ n + 1 \in 1..N /\ n + 1 \in 0..N /\ (n + 1) - 1 = n /\ rows[n + 1] \in Nat
        /\ sent[n] \in Seq(Nat)
    BY <1>1, <1>10
  <2>2. sent[n + 1] = Next1(sent[n], rows[n + 1])
    BY <1>9, <2>1
  <2>3. /\ sent[n + 1] \in Seq(Nat) /\ ToSet(sent[n]) \subseteq ToSet(sent[n + 1])
        /\ rows[n + 1] \in DOMAIN kept \cup ToSet(sent[n + 1])
    BY <1>2, <2>1, <2>2
  <2>4. \A i \in 1..(n + 1) : rows[i] \in DOMAIN kept \cup ToSet(sent[n + 1])
    <3> SUFFICES ASSUME NEW i \in 1..(n + 1) PROVE rows[i] \in DOMAIN kept \cup ToSet(sent[n + 1])
      OBVIOUS
    <3>1. CASE i = n + 1
      BY <2>3, <3>1
    <3>2. CASE i # n + 1
      <4>1. i \in 1..n
        BY <1>1, <3>2
      <4> QED BY <1>10, <2>3, <4>1
    <3> QED BY <3>1, <3>2
  <2> QED BY <2>1, <2>3, <2>4
<1>11. 0 \in Good
  <2>1. 0 \in 0..N /\ 1..0 = {} /\ <<>> \in Seq(Nat)
    BY <1>1
  <2> QED BY <1>9, <2>1
<1>12. N \in Good
  <2> HIDE DEF Good
  <2> QED BY <1>1, <1>10, <1>11, ReachesEnd
<1> QED BY <1>8, <1>12 DEF N

\* A row gets the evaluation named by it: the one that is kept, or the one at the place
\* where it was sent.
LEMMA FanOutIsOwn ==
  ASSUME NEW rows \in Seq(Nat), NEW kept \in Kept
  PROVE  FanOut(rows, kept, Unique(rows, kept), Unique(rows, kept)) = rows
<1> DEFINE sent == Unique(rows, kept)
           eval(row) == IF row \in DOMAIN kept THEN kept[row]
                        ELSE sent[CHOOSE j \in 1..Len(sent) : sent[j] = row]
<1>1. /\ sent \in Seq(Nat)
      /\ \A i \in 1..Len(rows) : rows[i] \in DOMAIN kept \cup ToSet(sent)
  BY UniqueFacts
<1>2. FanOut(rows, kept, sent, sent) = [i \in 1..Len(rows) |-> eval(rows[i])]
  BY DEF FanOut
<1> HIDE DEF sent
<1>3. ASSUME NEW i \in 1..Len(rows) PROVE eval(rows[i]) = rows[i]
  <2>1. CASE rows[i] \in DOMAIN kept
    BY <2>1, KeptFacts
  <2>2. CASE rows[i] \notin DOMAIN kept
    <3>1. \E j \in 1..Len(sent) : sent[j] = rows[i]
      BY <1>1, <2>2, ToSetPlaces
    <3> QED BY <2>2, <3>1
  <2> QED BY <2>1, <2>2
<1> HIDE DEF eval
<1>4. [i \in 1..Len(rows) |-> eval(rows[i])] = [i \in 1..Len(rows) |-> rows[i]]
  BY <1>3
<1>5. [i \in 1..Len(rows) |-> rows[i]] = rows
  OBVIOUS
<1> QED BY <1>2, <1>4, <1>5 DEF sent

-----------------------------------------------------------------------------
(* The exporter's pool: seeds.                                              *)

Threads == {"init", "check", "take", "play", "ok", "error", "panic"}

PoolTypes ==
  /\ next \in Nat \ {0} /\ failed \in BOOLEAN
  /\ thread \in [Workers -> Threads]
  /\ seed \in [Workers -> Nat]
  /\ batch \in [Workers -> Nat \ {0}]
  /\ cache \in [Workers -> Kept]
  /\ played \in [Workers -> Seq(Nat) \X Seq(Nat)]
  /\ outputs \in [Workers -> Seq(Seeds)]

Plays(w, s) == thread[w] = "play" /\ seed[w] = s
HasOutput(w, s) == s \in ToSet(outputs[w])

\* A seed is with one worker at most, as the one it plays or among its outputs, once, and
\* only when it was taken from the queue.
OneOwner ==
  /\ \A w \in Workers : thread[w] = "play" => seed[w] \in Seeds /\ seed[w] < next
  /\ \A w \in Workers : \A s \in ToSet(outputs[w]) : s < next
  /\ \A w \in Workers : IsInjective(outputs[w])
  /\ \A w, v \in Workers : \A s \in Seeds :
       /\ Plays(w, s) => ~HasOutput(v, s)
       /\ Plays(w, s) /\ Plays(v, s) => w = v
       /\ HasOutput(w, s) /\ HasOutput(v, s) => w = v

\* A seed that was taken is with a worker, unless a thread ended in an error or a panic; a
\* thread that ended well saw a failure or an empty queue.
NoneLost ==
  /\ \A s \in Seeds : s < next =>
       \/ \E w \in Workers : Plays(w, s) \/ HasOutput(w, s)
       \/ \E w \in Workers : thread[w] \in {"error", "panic"}
  /\ failed => \E w \in Workers : thread[w] = "error"
  /\ \A w \in Workers : thread[w] = "ok" => failed \/ next > Len(Games)

PoolInv == PoolTypes /\ OneOwner /\ NoneLost /\ OwnRows

LEMMA PoolStart == PoolInit => PoolInv
<1> SUFFICES ASSUME PoolInit PROVE PoolInv
  OBVIOUS
<1> USE DEF PoolInit
<1>1. << >> \in Kept
  <2>1. << >> = [r \in {} |-> r]
    OBVIOUS
  <2> QED BY <2>1 DEF Kept
<1>2. PoolTypes
  <2>1. <<>> \in Seq(Nat) /\ <<>> \in Seq(Seeds)
    OBVIOUS
  <2>2. played \in [Workers -> Seq(Nat) \X Seq(Nat)] /\ outputs \in [Workers -> Seq(Seeds)]
    BY <2>1
  <2>3. cache \in [Workers -> Kept] /\ thread \in [Workers -> Threads]
    BY <1>1 DEF Threads
  <2>4. next \in Nat \ {0} /\ seed \in [Workers -> Nat] /\ batch \in [Workers -> Nat \ {0}]
    OBVIOUS
  <2>5. failed \in BOOLEAN
    OBVIOUS
  <2> QED BY <2>2, <2>3, <2>4, <2>5 DEF PoolTypes
<1>3. \A w \in Workers : ToSet(outputs[w]) = {} /\ IsInjective(outputs[w])
  BY DEF ToSet, IsInjective
<1>4. OneOwner /\ NoneLost /\ OwnRows
  BY <1>3 DEF OneOwner, NoneLost, OwnRows, Plays, HasOutput, Seeds
<1> QED BY <1>2, <1>4 DEF PoolInv

\* A thread goes on without touching a seed.
LEMMA MoveStep ==
  ASSUME PoolInv, NEW w \in Workers, NEW place \in Threads \ {"play"}, thread[w] # "play",
         To(w, place), UNCHANGED <<next, failed, seed, batch, cache, played, outputs>>,
         place = "ok" => failed \/ next > Len(Games), thread[w] \notin {"ok", "error", "panic"}
  PROVE  PoolInv'
<1>1. thread' = [thread EXCEPT ![w] = place] /\ thread \in [Workers -> Threads]
  BY DEF To, PoolInv, PoolTypes
<1>2. thread'[w] = place /\ \A v \in Workers \ {w} : thread'[v] = thread[v]
  BY <1>1
<1>3. \A v \in Workers, s \in Seeds : Plays(v, s)' <=> Plays(v, s)
  BY <1>2 DEF Plays
<1>4. \A v \in Workers, s \in Seeds : HasOutput(v, s)' <=> HasOutput(v, s)
  BY DEF HasOutput
<1>5. PoolTypes' /\ OwnRows'
  BY <1>1 DEF PoolInv, PoolTypes, OwnRows
<1>6. OneOwner'
  BY <1>2, <1>3, <1>4 DEF PoolInv, OneOwner
<1>7. NoneLost'
  <2>1. \A v \in Workers : thread[v] \in {"error", "panic"} => thread'[v] = thread[v]
    BY <1>2
  <2> QED BY <1>2, <1>3, <1>4, <2>1 DEF PoolInv, NoneLost
<1> QED BY <1>5, <1>6, <1>7 DEF PoolInv

LEMMA TakeStep == ASSUME PoolInv, NEW w \in Workers, Take(w) PROVE PoolInv'
<1>0. next \in Nat \ {0} /\ thread \in [Workers -> Threads] /\ seed \in [Workers -> Nat] /\ Len(Games) \in Nat
  BY PoolAssumption DEF PoolInv, PoolTypes
<1>1. /\ thread[w] = "take" /\ next' = next + 1
      /\ UNCHANGED <<failed, cache, played, outputs>>
  BY DEF Take
<1>2. CASE next \in Seeds
  <2>1. /\ seed' = [seed EXCEPT ![w] = next] /\ batch' = [batch EXCEPT ![w] = 1]
        /\ thread' = [thread EXCEPT ![w] = "play"]
    BY <1>2 DEF Take, To
  <2>2. /\ thread'[w] = "play" /\ seed'[w] = next
        /\ \A v \in Workers \ {w} : thread'[v] = thread[v] /\ seed'[v] = seed[v]
    BY <1>0, <2>1
  <2>3. PoolTypes' /\ OwnRows'
    BY <1>0, <1>1, <2>1 DEF PoolInv, PoolTypes, OwnRows, Threads
  <2>4. \A s \in Seeds : Plays(w, s)' <=> s = next
    BY <2>2 DEF Plays
  <2>5. \A v \in Workers \ {w}, s \in Seeds : Plays(v, s)' <=> Plays(v, s)
    BY <2>2 DEF Plays
  <2>6. \A v \in Workers, s \in Seeds : HasOutput(v, s)' <=> HasOutput(v, s)
    BY <1>1 DEF HasOutput
  <2>7. \A v \in Workers : ~Plays(v, next) /\ ~HasOutput(v, next)
    <3>1. ~(next < next)
      BY <1>0
    <3> QED BY <3>1 DEF PoolInv, OneOwner, Plays, HasOutput
  <2>8. \A s \in Seeds : ~Plays(w, s)
    BY <1>1 DEF Plays
  <2>9. \A v \in Workers : thread'[v] = "play" => seed'[v] \in Seeds /\ seed'[v] < next'
    <3>1. \A v \in Workers \ {w} : thread[v] = "play" => seed[v] \in Seeds /\ seed[v] < next + 1
      BY <1>0 DEF PoolInv, OneOwner
    <3>2. next < next + 1
      BY <1>0
    <3> QED BY <1>1, <1>2, <2>2, <3>1, <3>2
  <2>10. \A v \in Workers : \A s \in ToSet(outputs[v]) : s < next + 1
    <3> SUFFICES ASSUME NEW v \in Workers, NEW s \in ToSet(outputs[v]) PROVE s < next + 1
      OBVIOUS
    <3>1. s < next /\ s \in Seeds
      BY InToSet DEF PoolInv, OneOwner, PoolTypes
    <3> QED BY <1>0, <3>1 DEF Seeds
  <2>11. OneOwner'
    <3>1. \A v, u \in Workers : \A s \in Seeds :
            /\ Plays(v, s)' => ~HasOutput(u, s)'
            /\ Plays(v, s)' /\ Plays(u, s)' => v = u
            /\ HasOutput(v, s)' /\ HasOutput(u, s)' => v = u
      <4> SUFFICES ASSUME NEW v \in Workers, NEW u \in Workers, NEW s \in Seeds
                   PROVE  /\ Plays(v, s)' => ~HasOutput(u, s)'
                          /\ Plays(v, s)' /\ Plays(u, s)' => v = u
                          /\ HasOutput(v, s)' /\ HasOutput(u, s)' => v = u
        OBVIOUS
      <4>1. /\ Plays(v, s) => ~HasOutput(u, s)
            /\ Plays(v, s) /\ Plays(u, s) => v = u
            /\ HasOutput(v, s) /\ HasOutput(u, s) => v = u
        BY DEF PoolInv, OneOwner
      <4> QED BY <2>4, <2>5, <2>6, <2>7, <4>1
    <3>2. \A v \in Workers : IsInjective(outputs'[v])
      BY <1>1 DEF PoolInv, OneOwner
    <3> QED BY <1>1, <2>9, <2>10, <3>1, <3>2 DEF OneOwner
  <2>12. NoneLost'
    <3>1. ASSUME NEW s \in Seeds, s < next'
          PROVE  \/ \E v \in Workers : Plays(v, s)' \/ HasOutput(v, s)'
                 \/ \E v \in Workers : thread'[v] \in {"error", "panic"}
      <4>1. CASE s = next
        BY <2>4, <4>1
      <4>2. CASE s # next
        <5>1. s < next
          BY <1>0, <1>1, <3>1, <4>2 DEF Seeds
        <5>2. CASE \E v \in Workers : Plays(v, s) \/ HasOutput(v, s)
          BY <2>5, <2>6, <2>8, <5>2
        <5>3. CASE \E v \in Workers : thread[v] \in {"error", "panic"}
          BY <1>1, <2>2, <5>3
        <5> QED BY <5>1, <5>2, <5>3 DEF PoolInv, NoneLost
      <4> QED BY <4>1, <4>2
    <3>2. failed => \E v \in Workers : thread'[v] = "error"
      BY <1>1, <2>2 DEF PoolInv, NoneLost
    <3>3. \A v \in Workers : thread'[v] = "ok" => failed \/ next' > Len(Games)
      BY <1>0, <1>1, <2>2 DEF PoolInv, NoneLost
    <3> QED BY <1>1, <3>1, <3>2, <3>3 DEF NoneLost
  <2> QED BY <2>3, <2>11, <2>12 DEF PoolInv
<1>3. CASE next \notin Seeds
  <2>1. thread' = [thread EXCEPT ![w] = "ok"] /\ UNCHANGED <<seed, batch>>
    BY <1>3 DEF Take, To
  <2>2. next > Len(Games)
    BY <1>0, <1>3 DEF Seeds
  <2>3. thread'[w] = "ok" /\ \A v \in Workers \ {w} : thread'[v] = thread[v]
    BY <1>0, <2>1
  <2>4. \A v \in Workers, s \in Seeds : (Plays(v, s)' <=> Plays(v, s)) /\ (HasOutput(v, s)' <=> HasOutput(v, s))
    BY <1>1, <2>1, <2>3 DEF Plays, HasOutput
  <2>5. PoolTypes' /\ OwnRows'
    BY <1>0, <1>1, <2>1 DEF PoolInv, PoolTypes, OwnRows, Threads
  <2>6. \A s \in Seeds : s < next /\ s < next + 1
    BY <1>0, <2>2 DEF Seeds
  <2>7. \A v \in Workers : \A s \in ToSet(outputs[v]) : s \in Seeds
    BY InToSet DEF PoolInv, PoolTypes
  <2>8. OneOwner'
    <3>1. \A v \in Workers : thread'[v] = "play" => seed'[v] \in Seeds /\ seed'[v] < next'
      BY <1>1, <2>1, <2>3, <2>6 DEF PoolInv, OneOwner
    <3>2. \A v \in Workers : \A s \in ToSet(outputs'[v]) : s < next'
      BY <1>1, <2>6, <2>7
    <3> QED BY <1>1, <2>4, <3>1, <3>2 DEF PoolInv, OneOwner
  <2>9. NoneLost'
    <3>1. \A s \in Seeds :
            \/ \E v \in Workers : Plays(v, s)' \/ HasOutput(v, s)'
            \/ \E v \in Workers : thread'[v] \in {"error", "panic"}
      BY <1>1, <2>3, <2>4, <2>6 DEF PoolInv, NoneLost
    <3>2. failed => \E v \in Workers : thread'[v] = "error"
      BY <1>1, <2>3 DEF PoolInv, NoneLost
    <3>3. next' > Len(Games)
      BY <1>0, <1>1, <2>2
    <3> QED BY <1>1, <3>1, <3>2, <3>3 DEF NoneLost
  <2> QED BY <2>5, <2>8, <2>9 DEF PoolInv
<1> QED BY <1>2, <1>3

LEMMA EvaluateStep == ASSUME PoolInv, NEW w \in Workers, EvaluateBatch(w) PROVE PoolInv'
<1> DEFINE rows == Games[seed[w]][batch[w]] sent == Unique(rows, cache[w])
<1>1. /\ played' = [played EXCEPT ![w] = <<rows, FanOut(rows, cache[w], sent, sent)>>]
      /\ cache' = [cache EXCEPT ![w] = InsertAll(cache[w], sent, sent)]
      /\ batch' = [batch EXCEPT ![w] = batch[w] + 1]
      /\ UNCHANGED <<next, failed, thread, seed, outputs>>
      /\ thread[w] = "play" /\ batch[w] <= Len(Games[seed[w]])
  BY DEF EvaluateBatch
<1>2. rows \in Seq(Nat)
  <2>1. seed[w] \in 1..Len(Games) /\ batch[w] \in Nat \ {0}
    BY <1>1 DEF PoolInv, PoolTypes, OneOwner, Seeds
  <2>2. Games[seed[w]] \in Seq(Seq(Nat) \ {<<>>})
    BY <2>1, PoolAssumption
  <2>3. batch[w] \in 1..Len(Games[seed[w]])
    BY <1>1, <2>1, <2>2
  <2> QED BY <2>2, <2>3
<1>3. cache[w] \in Kept /\ batch[w] \in Nat
  BY DEF PoolInv, PoolTypes
<1> HIDE DEF rows
<1>4. sent \in Seq(Nat) /\ FanOut(rows, cache[w], sent, sent) = rows
  BY <1>2, <1>3, UniqueFacts, FanOutIsOwn
<1> HIDE DEF sent
<1>5. InsertAll(cache[w], sent, sent) \in Kept
  BY <1>3, <1>4, InsertAllKeeps
<1>6. PoolTypes'
  BY <1>1, <1>2, <1>3, <1>4, <1>5 DEF PoolInv, PoolTypes
<1>7. OwnRows'
  <2> SUFFICES ASSUME NEW v \in Workers PROVE played'[v][1] = played'[v][2]
    BY DEF OwnRows
  <2>1. played'[v] = IF v = w THEN <<rows, rows>> ELSE played[v]
    BY <1>1, <1>4 DEF PoolInv, PoolTypes
  <2> QED BY <2>1 DEF PoolInv, OwnRows
<1>8. OneOwner' /\ NoneLost'
  BY <1>1 DEF PoolInv, OneOwner, NoneLost, Plays, HasOutput
<1> QED BY <1>6, <1>7, <1>8 DEF PoolInv

\* The seed that is played becomes an output.
LEMMA FinishStep ==
  ASSUME PoolInv, NEW w \in Workers, thread[w] = "play", Finish(w),
         UNCHANGED <<next, failed, batch, cache, played>>
  PROVE  PoolInv'
<1> DEFINE s == seed[w] o == outputs[w]
<1>0. /\ thread \in [Workers -> Threads] /\ seed \in [Workers -> Nat]
      /\ outputs \in [Workers -> Seq(Seeds)] /\ o \in Seq(Seeds)
  BY DEF PoolInv, PoolTypes
<1>1. /\ outputs' = [outputs EXCEPT ![w] = Append(o, s)]
      /\ seed' = [seed EXCEPT ![w] = 0] /\ thread' = [thread EXCEPT ![w] = "check"]
  BY DEF Finish, To
<1>2. s \in Seeds /\ s < next /\ \A v \in Workers : ~HasOutput(v, s)
  BY DEF PoolInv, OneOwner, Plays
<1>3. /\ thread'[w] = "check" /\ outputs'[w] = Append(o, s)
      /\ \A v \in Workers \ {w} : thread'[v] = thread[v] /\ seed'[v] = seed[v] /\ outputs'[v] = outputs[v]
  BY <1>0, <1>1
<1>4. Append(o, s) \in Seq(Seeds) /\ ToSet(Append(o, s)) = ToSet(o) \cup {s}
  BY <1>0, <1>2, ToSetAppend
<1>5. PoolTypes' /\ OwnRows'
  <2>1. outputs' \in [Workers -> Seq(Seeds)]
    BY <1>0, <1>1, <1>4
  <2> QED BY <1>0, <1>1, <2>1 DEF PoolInv, PoolTypes, OwnRows, Threads
<1> HIDE DEF o, s
<1>6. \A t \in Seeds : /\ Plays(w, t) <=> t = s
                       /\ ~Plays(w, t)'
                       /\ HasOutput(w, t)' <=> HasOutput(w, t) \/ t = s
  BY <1>3, <1>4 DEF Plays, HasOutput, o, s
<1>7. \A v \in Workers \ {w}, t \in Seeds :
        (Plays(v, t)' <=> Plays(v, t)) /\ (HasOutput(v, t)' <=> HasOutput(v, t))
  BY <1>3 DEF Plays, HasOutput
<1>8. IsInjective(Append(o, s))
  <2>1. IsInjective(o)
    BY DEF PoolInv, OneOwner, o
  <2>2. /\ Len(Append(o, s)) = Len(o) + 1 /\ Len(o) \in Nat /\ Append(o, s)[Len(o) + 1] = s
        /\ \A i \in 1..Len(o) : Append(o, s)[i] = o[i]
    BY <1>0, <1>2 DEF o
  <2>3. \A i \in 1..Len(o) : o[i] # s
    BY <1>0, <1>2, ToSetPlaces DEF HasOutput, o
  <2>4. ASSUME NEW i \in 1..(Len(o) + 1), NEW j \in 1..(Len(o) + 1), Append(o, s)[i] = Append(o, s)[j]
        PROVE  i = j
    <3>1. CASE i = Len(o) + 1 \/ j = Len(o) + 1
      BY <2>2, <2>3, <2>4, <3>1
    <3>2. CASE i # Len(o) + 1 /\ j # Len(o) + 1
      <4>1. i \in 1..Len(o) /\ j \in 1..Len(o)
        BY <2>2, <3>2
      <4>2. o[i] = o[j] /\ DOMAIN o = 1..Len(o)
        BY <1>0, <2>2, <2>4, <4>1 DEF o
      <4> QED BY <2>1, <4>1, <4>2 DEF IsInjective
    <3> QED BY <3>1, <3>2
  <2>5. DOMAIN Append(o, s) = 1..(Len(o) + 1)
    BY <1>4, <2>2
  <2> QED BY <2>4, <2>5 DEF IsInjective
<1>9. OneOwner'
  <2>1. \A v \in Workers : thread'[v] = "play" => seed'[v] \in Seeds /\ seed'[v] < next'
    BY <1>3 DEF PoolInv, OneOwner
  <2>2. \A v \in Workers : \A t \in ToSet(outputs'[v]) : t < next'
    BY <1>2, <1>3, <1>4 DEF PoolInv, OneOwner, o
  <2>3. \A v \in Workers : IsInjective(outputs'[v])
    BY <1>3, <1>8 DEF PoolInv, OneOwner
  <2>4. \A v, u \in Workers : \A t \in Seeds :
          /\ Plays(v, t)' => ~HasOutput(u, t)'
          /\ Plays(v, t)' /\ Plays(u, t)' => v = u
          /\ HasOutput(v, t)' /\ HasOutput(u, t)' => v = u
    <3> SUFFICES ASSUME NEW v \in Workers, NEW u \in Workers, NEW t \in Seeds
                 PROVE  /\ Plays(v, t)' => ~HasOutput(u, t)'
                        /\ Plays(v, t)' /\ Plays(u, t)' => v = u
                        /\ HasOutput(v, t)' /\ HasOutput(u, t)' => v = u
      OBVIOUS
    <3>1. /\ Plays(v, t) => ~HasOutput(u, t)
          /\ Plays(v, t) /\ Plays(u, t) => v = u
          /\ HasOutput(v, t) /\ HasOutput(u, t) => v = u
          /\ Plays(v, t) /\ Plays(w, t) => v = w
      BY DEF PoolInv, OneOwner
    <3> QED BY <1>2, <1>6, <1>7, <3>1
  <2> QED BY <2>1, <2>2, <2>3, <2>4 DEF OneOwner
<1>10. NoneLost'
  <2>1. ASSUME NEW t \in Seeds, t < next'
        PROVE  \/ \E v \in Workers : Plays(v, t)' \/ HasOutput(v, t)'
               \/ \E v \in Workers : thread'[v] \in {"error", "panic"}
    <3>1. CASE \E v \in Workers : Plays(v, t) \/ HasOutput(v, t)
      BY <1>6, <1>7, <3>1
    <3>2. CASE \E v \in Workers : thread[v] \in {"error", "panic"}
      BY <1>3, <3>2
    <3> QED BY <2>1, <3>1, <3>2 DEF PoolInv, NoneLost
  <2> QED BY <1>3, <2>1 DEF PoolInv, NoneLost
<1> QED BY <1>5, <1>9, <1>10 DEF PoolInv

\* A thread ends in an error or a panic, and the seed it played is with nobody.
LEMMA ThreadDies ==
  ASSUME PoolInv, NEW w \in Workers, NEW end \in {"error", "panic"}, To(w, end),
         thread[w] \in {"init", "play"}, (failed' = TRUE /\ end = "error") \/ failed' = failed,
         UNCHANGED <<next, seed, batch, cache, played, outputs>>
  PROVE  PoolInv'
<1>1. thread' = [thread EXCEPT ![w] = end] /\ thread \in [Workers -> Threads]
  BY DEF To, PoolInv, PoolTypes
<1>2. thread'[w] = end /\ \A v \in Workers \ {w} : thread'[v] = thread[v]
  BY <1>1
<1>3. \A v \in Workers, s \in Seeds : (Plays(v, s)' => Plays(v, s)) /\ (HasOutput(v, s)' <=> HasOutput(v, s))
  BY <1>2 DEF Plays, HasOutput
<1>4. PoolTypes' /\ OwnRows'
  BY <1>1 DEF PoolInv, PoolTypes, OwnRows, Threads
<1>5. OneOwner'
  BY <1>2, <1>3 DEF PoolInv, OneOwner
<1>6. NoneLost'
  <2>1. \E v \in Workers : thread'[v] \in {"error", "panic"}
    BY <1>2
  <2>2. failed' => \E v \in Workers : thread'[v] = "error"
    <3>1. CASE failed' = TRUE /\ end = "error"
      BY <1>2, <3>1
    <3>2. CASE failed' = failed
      BY <1>2, <3>2 DEF PoolInv, NoneLost
    <3> QED BY <3>1, <3>2
  <2>3. \A v \in Workers : thread'[v] = "ok" => failed' \/ next > Len(Games)
    BY <1>2 DEF PoolInv, NoneLost
  <2> QED BY <2>1, <2>2, <2>3 DEF NoneLost
<1> QED BY <1>4, <1>5, <1>6 DEF PoolInv

LEMMA PoolStep == PoolInv /\ [PoolNext]_poolVars => PoolInv'
<1> SUFFICES ASSUME PoolInv, [PoolNext]_poolVars PROVE PoolInv'
  OBVIOUS
<1>1. CASE UNCHANGED poolVars
  BY <1>1 DEF poolVars, PoolInv, PoolTypes, OneOwner, NoneLost, OwnRows, Plays, HasOutput
<1>2. ASSUME NEW w \in Workers, WorkerStep(w) PROVE PoolInv'
  <2>1. CASE Initialize(w)
    BY <2>1, MoveStep DEF Initialize, Threads
  <2>2. CASE SeesFailure(w)
    BY <2>2, MoveStep DEF SeesFailure, Threads
  <2>3. CASE SeesNoFailure(w)
    BY <2>3, MoveStep DEF SeesNoFailure, Threads
  <2>4. CASE GameOver(w)
    BY <2>4, FinishStep DEF GameOver
  <2>5. CASE SkipSeed(w)
    BY <2>5, FinishStep DEF SkipSeed
  <2>6. CASE Err(w)
    BY <2>6, ThreadDies DEF Err
  <2>7. CASE Panic(w)
    BY <2>7, ThreadDies DEF Panic
  <2> QED
    BY <1>2, <2>1, <2>2, <2>3, <2>4, <2>5, <2>6, <2>7, TakeStep, EvaluateStep DEF WorkerStep
<1> QED BY <1>1, <1>2 DEF PoolNext

LEMMA PoolAlways == FleetHostSpec => []PoolInv
<1>1. FleetHostInit => PoolInv
  BY PoolStart DEF FleetHostInit
<1>2. PoolInv /\ [FleetHostNext]_fleetHostVars => PoolInv'
  BY PoolStep DEF FleetHostNext, fleetHostVars
<1> QED BY <1>1, <1>2, PTL DEF FleetHostSpec

\* A decision sees the evaluations of its own rows, for any games, any limit of the cache
\* and any number of workers: what a worker keeps and what is sent back are identities, and
\* every row that is not kept is sent.
THEOREM EvaluationsAreOwn == FleetHostSpec => []OwnRows
<1>1. PoolInv => OwnRows
  BY DEF PoolInv
<1> QED BY <1>1, PoolAlways, PTL

LEMMA Accounted == PoolInv => SeedsAccounted
<1> SUFFICES ASSUME PoolInv PROVE SeedsAccounted
  OBVIOUS
<1> DEFINE n == Least(Greatest(MaxWorkers, 1), Len(Games))
           ss == [w \in Workers |-> outputs[w]]
           all == FlattenSeq(ss)
<1>1. Workers = 1..n /\ n \in Nat /\ Len(Games) \in Nat /\ (Len(Games) > 0 => n > 0)
  BY PoolAssumption DEF Workers, Least, Greatest
<1> HIDE DEF n
<1>2. ss \in Seq(Seq(Seeds)) /\ Len(ss) = n /\ \A w \in 1..n : ss[w] = outputs[w]
  BY <1>1 DEF PoolInv, PoolTypes
<1> HIDE DEF ss
<1>3. \A w, v \in 1..n : w # v => ToSet(ss[w]) \cap ToSet(ss[v]) = {}
  <2> SUFFICES ASSUME NEW w \in 1..n, NEW v \in 1..n, w # v,
                      NEW s \in ToSet(ss[w]), s \in ToSet(ss[v])
               PROVE  FALSE
    OBVIOUS
  <2>1. outputs[w] \in Seq(Seeds)
    BY <1>1 DEF PoolInv, PoolTypes
  <2>2. s \in Seeds
    BY <1>2, <2>1, InToSet
  <2>3. HasOutput(w, s) /\ HasOutput(v, s)
    BY <1>2 DEF HasOutput
  <2> QED BY <1>1, <2>2, <2>3 DEF PoolInv, OneOwner
<1>4. \A w \in 1..n : IsInjective(ss[w])
  BY <1>1, <1>2 DEF PoolInv, OneOwner
<1>5. IsInjective(all)
  BY <1>2, <1>3, <1>4, InjectiveFlatten
<1>6. all \in Seq(Seeds) /\ ToSet(all) = UNION {ToSet(ss[w]) : w \in DOMAIN ss}
  BY <1>2, FlattenType, ToSetFlatten
<1>7. SeedsAccounted <=>
        /\ \A i, j \in DOMAIN all : all[i] = all[j] => i = j
        /\ Joined => Result # "short"
        /\ Joined /\ Result = "ok" => ToSet(all) = Seeds
  BY DEF SeedsAccounted, ss
<1>8. Result = IF \E w \in Workers : thread[w] # "ok" THEN "error"
               ELSE IF Len(all) # Len(Games) THEN "short" ELSE "ok"
  BY DEF Result, ss
<1> HIDE DEF all
<1>9. ASSUME \A w \in Workers : thread[w] = "ok" PROVE ToSet(all) = Seeds /\ Len(all) = Len(Games)
  <2>1. ~failed
    BY <1>9 DEF PoolInv, NoneLost
  <2>2. \A s \in Seeds : s < next
    <3>1. CASE n > 0
      <4>1. 1 \in Workers
        BY <1>1, <3>1
      <4>2. next > Len(Games)
        BY <1>9, <2>1, <4>1 DEF PoolInv, NoneLost
      <4> QED BY <1>1, <4>2 DEF PoolInv, PoolTypes, Seeds
    <3>2. CASE ~(n > 0)
      BY <1>1, <3>2 DEF Seeds
    <3> QED BY <3>1, <3>2
  <2>3. \A s \in Seeds : \E w \in Workers : HasOutput(w, s)
    BY <1>9, <2>2 DEF PoolInv, NoneLost, Plays
  <2>4. Seeds \subseteq ToSet(all)
    <3> SUFFICES ASSUME NEW s \in Seeds PROVE s \in ToSet(all)
      OBVIOUS
    <3>1. PICK w \in Workers : HasOutput(w, s)
      BY <2>3
    <3>2. w \in DOMAIN ss /\ s \in ToSet(ss[w])
      BY <1>1, <1>2, <3>1 DEF HasOutput
    <3> QED BY <1>6, <3>2
  <2>5. ToSet(all) = Seeds
    BY <1>6, <2>4, InToSet
  <2>6. all \in [1..Len(all) -> Seeds] /\ Len(all) \in Nat
    BY <1>6
  <2>7. all \in Bijection(1..Len(all), Seeds)
    <3>1. \A s \in Seeds : \E i \in 1..Len(all) : s = all[i]
      BY <1>6, <2>5, ToSetPlaces
    <3>2. all \in Surjection(1..Len(all), Seeds)
      BY <2>6, <3>1 DEF Surjection
    <3>3. all \in Injection(1..Len(all), Seeds)
      BY <1>5, <2>6 DEF Injection, IsInjective
    <3> QED BY <3>2, <3>3 DEF Bijection
  <2>8. IsFiniteSet(1..Len(all)) /\ Cardinality(1..Len(all)) = Len(all)
        /\ IsFiniteSet(Seeds) /\ Cardinality(Seeds) = Len(Games)
    <3>1. \A m \in Nat : IsFiniteSet(1..m) /\ Cardinality(1..m) = m
      <4> SUFFICES ASSUME NEW m \in Nat PROVE IsFiniteSet(1..m) /\ Cardinality(1..m) = m
        OBVIOUS
      <4>1. /\ IsFiniteSet(1..m)
            /\ Cardinality(1..m) = IF 1 > m THEN 0 ELSE m - 1 + 1
        BY FS_Interval
      <4> QED BY <4>1
    <3> QED BY <1>1, <2>6, <3>1 DEF Seeds
  <2>9. Len(all) = Len(Games)
    <3>1. ExistsBijection(1..Len(all), Seeds)
      BY <2>7 DEF ExistsBijection
    <3>2. Cardinality(Seeds) = Cardinality(1..Len(all))
      BY <2>8, <3>1, FS_Bijection
    <3> QED BY <2>8, <3>2
  <2> QED BY <2>5, <2>9
<1>10. \A i, j \in DOMAIN all : all[i] = all[j] => i = j
  BY <1>5 DEF IsInjective
<1> QED BY <1>7, <1>8, <1>9, <1>10

\* No seed is played twice and the pool never ends short without an error, for any number
\* of workers and seeds and whatever fails: a seed that was taken is with one worker until
\* it has an output, and a thread that ends well has seen the queue empty or a failure,
\* and then some thread ended in the error that is returned.
THEOREM SeedsAreAccounted == FleetHostSpec => []SeedsAccounted
  BY PoolAlways, Accounted, PTL

=============================================================================
