------------------------------- MODULE Fleet -------------------------------
(***************************************************************************)
(* The fixed-count catalog on one host of the fleet.  A pipeline (shell)   *)
(* runs two stages; for each it starts a worker (shell), which starts a    *)
(* solver (all_wildlife_candidates.rs) for each chunk in turn; the solver  *)
(* writes the chunk to a temporary name and renames it.  An hourly         *)
(* watchdog (tools/all_wildlife_fixed_count_watchdog.py) judges the host   *)
(* by its files and restarts it.  On the main host a sync script copies    *)
(* the chunks, collects them and merges the complete stages.               *)
(*                                                                         *)
(* A launch is one pipeline with its worker and solver.  They can outlive  *)
(* each other: all three sit in processes of their own, and nothing but a  *)
(* trap of the parent stops a child.                                       *)
(***************************************************************************)
EXTENDS Naturals, FiniteSets

CONSTANTS
  Launches,  \* names of launches; one is used again when all of it has ended
  Chunks,    \* the chunks of this host are 1..Chunks in either stage
  Legacy,    \* the chunks an earlier version left, to be searched again
  MaxFaults  \* bound on killed processes, stalled solvers and unlucky passes

ASSUME FleetAssumption == Chunks \in Nat \ {0} /\ MaxFaults \in Nat

VARIABLES
  pipe,      \* "none", "stage", "fork" (its worker started, its pid not stored) or "wait"
  work,      \* "none", "chunk", "fork" or "wait", "done" and "failed" once it exited
  solver,    \* "none", "check", "search", "open", "written", "stalled", "done" or "failed"
  at,        \* the stage and chunk a launch is at
  file,      \* where the open temporary file of a launch is now: "tmp", "out" or "gone"
  pidFile,   \* the launch the pid file names
  stageFile, \* "none", a stage or "complete"
  tmp, out,  \* of each chunk: "absent", "legacy", "empty" (truncated), "whole" or "mixed"
  decision,  \* of the running pass of the watchdog: "idle", "launch", "terminate" or "sync"
  target,    \* the pid its inspection read
  sync,      \* what the sync script does: "off", the stage it copies, or "merge"
  central,   \* the copies of the chunks on the main host
  delivered, \* delivery_summary.json is there
  faults

hostVars == <<pipe, work, solver, at, file>>
chunkVars == <<tmp, out>>
watchVars == <<decision, target>>
syncVars == <<sync, central, delivered>>
fleetVars == <<hostVars, pidFile, stageFile, chunkVars, watchVars, syncVars, faults>>

Stages == {"shallow", "production"}
Cells == Stages \X (1..Chunks)

ASSUME LegacyAssumption == Legacy \subseteq Cells

Torn(content) == content \in {"empty", "mixed"}

Searching == {"check", "search", "open", "written", "stalled"}
PipeAlive(p) == pipe[p] # "none"
WorkAlive(p) == work[p] \in {"chunk", "fork", "wait"}
Alive(p) == solver[p] \in Searching
Free(p) == ~PipeAlive(p) /\ ~WorkAlive(p) /\ ~Alive(p)

FleetInit ==
  /\ pipe = [p \in Launches |-> "none"]
  /\ work = [p \in Launches |-> "none"]
  /\ solver = [p \in Launches |-> "none"]
  /\ at = [p \in Launches |-> <<"shallow", 1>>]
  /\ file = [p \in Launches |-> "gone"]
  /\ pidFile = {}
  /\ stageFile = "none"
  /\ tmp = [c \in Cells |-> "absent"] /\ out = [c \in Cells |-> IF c \in Legacy THEN "legacy" ELSE "absent"]
  /\ decision = "idle" /\ target = {}
  /\ sync = "off" /\ central = [c \in Cells |-> "absent"] /\ delivered = FALSE
  /\ faults = 0

-----------------------------------------------------------------------------
(* The pipeline and its worker.                                             *)

StartStage(p) ==
  /\ pipe[p] = "stage"
  /\ stageFile' = at[p][1]
  /\ pipe' = [pipe EXCEPT ![p] = "fork"]
  /\ work' = [work EXCEPT ![p] = "chunk"]
  /\ UNCHANGED <<solver, at, file, pidFile, chunkVars, watchVars, syncVars, faults>>

StoreWorker(p) ==
  /\ pipe[p] = "fork"
  /\ pipe' = [pipe EXCEPT ![p] = "wait"]
  /\ UNCHANGED <<work, solver, at, file, pidFile, stageFile, chunkVars, watchVars, syncVars, faults>>

\* Wrong: the status of the worker is not looked at.
StageDone(p) == work[p] \in {"done", "failed"}

StageOver(p) == work[p] = "done"

NextStage(p) ==
  /\ pipe[p] = "wait"
  /\ StageOver(p)
  /\ IF at[p][1] = "shallow"
     THEN /\ at' = [at EXCEPT ![p] = <<"production", 1>>]
          /\ pipe' = [pipe EXCEPT ![p] = "stage"]
          /\ UNCHANGED stageFile
     ELSE /\ stageFile' = "complete"
          /\ pipe' = [pipe EXCEPT ![p] = "none"]
          /\ UNCHANGED at
  /\ work' = [work EXCEPT ![p] = "none"]
  /\ UNCHANGED <<solver, file, pidFile, chunkVars, watchVars, syncVars, faults>>

StageFails(p) ==
  /\ pipe[p] = "wait"
  /\ work[p] = "failed"
  /\ ~StageOver(p)
  /\ pipe' = [pipe EXCEPT ![p] = "none"]
  /\ UNCHANGED <<work, solver, at, file, pidFile, stageFile, chunkVars, watchVars, syncVars, faults>>

StartSolver(p) ==
  /\ work[p] = "chunk"
  /\ work' = [work EXCEPT ![p] = "fork"]
  /\ solver' = [solver EXCEPT ![p] = "check"]
  /\ UNCHANGED <<pipe, at, file, pidFile, stageFile, chunkVars, watchVars, syncVars, faults>>

StoreSolver(p) ==
  /\ work[p] = "fork"
  /\ work' = [work EXCEPT ![p] = "wait"]
  /\ UNCHANGED <<pipe, solver, at, file, pidFile, stageFile, chunkVars, watchVars, syncVars, faults>>

NextChunk(p) ==
  /\ work[p] = "wait"
  /\ solver[p] \in {"done", "failed"}
  /\ IF solver[p] = "done" /\ at[p][2] < Chunks
     THEN at' = [at EXCEPT ![p][2] = @ + 1] /\ work' = [work EXCEPT ![p] = "chunk"]
     ELSE work' = [work EXCEPT ![p] = solver[p]] /\ UNCHANGED at
  /\ solver' = [solver EXCEPT ![p] = "none"]
  /\ UNCHANGED <<pipe, file, pidFile, stageFile, chunkVars, watchVars, syncVars, faults>>

-----------------------------------------------------------------------------
(* The solver: generate_fixed_count_chunk.                                  *)

Solver(p, to) == solver' = [solver EXCEPT ![p] = to]
NotTheSolver == UNCHANGED <<pipe, work, at, pidFile, stageFile, watchVars, syncVars, faults>>

\* A chunk that is there is used again, or the solver panics; one of the first
\* schema with rulesets whose scores have changed since is searched again.
CheckExisting(p) ==
  /\ solver[p] = "check"
  /\ Solver(p, CASE out[at[p]] \in {"absent", "legacy"} -> "search"
                 [] out[at[p]] = "whole" -> "done"
                 [] OTHER -> "failed")
  /\ NotTheSolver /\ UNCHANGED <<file, chunkVars>>

\* fs::write creates or truncates the temporary file,
OpenTemporary(p) ==
  /\ solver[p] = "search"
  /\ Solver(p, "open")
  /\ tmp' = [tmp EXCEPT ![at[p]] = "empty"]
  /\ file' = [file EXCEPT ![p] = "tmp"]
  /\ NotTheSolver /\ UNCHANGED out

\* and writes it. Two results for one chunk differ in the time they took, and
\* so in length: a second one may leave the end of the first behind.
After(content) == IF content = "empty" THEN {"whole"} ELSE {"whole", "mixed"}

WriteTemporary(p) ==
  /\ solver[p] = "open"
  /\ Solver(p, "written")
  /\ \/ file[p] = "tmp" /\ \E w \in After(tmp[at[p]]) : tmp' = [tmp EXCEPT ![at[p]] = w] /\ UNCHANGED out
     \/ file[p] = "out" /\ \E w \in After(out[at[p]]) : out' = [out EXCEPT ![at[p]] = w] /\ UNCHANGED tmp
     \/ file[p] = "gone" /\ UNCHANGED chunkVars
  /\ file' = [file EXCEPT ![p] = "gone"]
  /\ NotTheSolver

\* The rename moves the file under every solver that has it open.
Publish(p) ==
  /\ solver[p] = "written"
  /\ IF tmp[at[p]] = "absent"
     THEN Solver(p, "failed") /\ UNCHANGED <<file, chunkVars>>
     ELSE /\ Solver(p, "done")
          /\ out' = [out EXCEPT ![at[p]] = tmp[at[p]]]
          /\ tmp' = [tmp EXCEPT ![at[p]] = "absent"]
          /\ file' = [q \in Launches |-> IF at[q] # at[p] THEN file[q]
                                         ELSE IF file[q] = "tmp" THEN "out" ELSE "gone"]
  /\ NotTheSolver

-----------------------------------------------------------------------------
(* The watchdog.                                                            *)

Running == {p \in pidFile : PipeAlive(p)}
Beating == \E p \in Launches : Alive(p) /\ solver[p] # "stalled" /\ at[p][1] = stageFile

\* Wrong: a pipeline that has a process is well.
NeverStalled == FALSE

Stalled == \E p \in Running : solver[p] = "stalled"

\* inspect_host and _with_progress_health. A heartbeat is fresh, and its chunk
\* changes, while any solver of the stage is well, an orphan's too. Between two
\* solvers the heartbeat is missing or old for a moment: a pass that meets it
\* is bad luck.
Inspect ==
  /\ decision = "idle"
  /\ \/ /\ stageFile = "complete" \/ (Running # {} /\ (Beating \/ ~Stalled))
        /\ decision' = "sync"
        /\ UNCHANGED <<target, faults>>
     \/ /\ stageFile # "complete" /\ Running = {}
        /\ decision' = "launch"
        /\ UNCHANGED <<target, faults>>
     \/ /\ stageFile # "complete" /\ Running # {} /\ ~Beating
        /\ \/ Stalled /\ UNCHANGED faults
           \/ ~Stalled /\ faults < MaxFaults /\ faults' = faults + 1
        /\ decision' = "terminate"
        /\ target' = pidFile
  /\ UNCHANGED <<hostVars, pidFile, stageFile, chunkVars, syncVars>>

\* launch_host, after a successful terminate_host or none.
Launch ==
  /\ decision = "launch"
  /\ \E p \in Launches :
       /\ Free(p)
       /\ pipe' = [pipe EXCEPT ![p] = "stage"]
       /\ work' = [work EXCEPT ![p] = "none"]
       /\ solver' = [solver EXCEPT ![p] = "none"]
       /\ at' = [at EXCEPT ![p] = <<"shallow", 1>>]
       /\ file' = [file EXCEPT ![p] = "gone"]
       /\ pidFile' = {p}
  /\ decision' = "sync"
  /\ UNCHANGED <<stageFile, chunkVars, target, syncVars, faults>>

\* Wrong: the next pipeline is launched before this one is stopped.
TerminateAnything ==
  /\ decision = "terminate"
  /\ decision' = "launch"
  /\ target' = {}
  /\ UNCHANGED <<hostVars, pidFile, stageFile, chunkVars, syncVars, faults>>

Hit == {p \in target : PipeAlive(p)}

\* TERM: the traps of the pipeline and of the worker pass it on to a child
\* whose pid they have stored, and wait for it.
Stop ==
  LET workers == {p \in Hit : pipe[p] = "wait" /\ WorkAlive(p)}
      solvers == {p \in workers : work[p] = "wait" /\ Alive(p)}
  IN /\ pipe' = [p \in Launches |-> IF p \in Hit THEN "none" ELSE pipe[p]]
     /\ work' = [p \in Launches |-> IF p \in workers THEN "failed" ELSE work[p]]
     /\ solver' = [p \in Launches |-> IF p \in solvers THEN "failed" ELSE solver[p]]

TerminateEnds ==
  /\ decision = "terminate"
  /\ target' = {}
  /\ UNCHANGED <<at, file, pidFile, stageFile, chunkVars, syncVars, faults>>

Terminate ==
  /\ TerminateEnds
  /\ Stop
  /\ decision' = IF Hit = {} THEN "sync" ELSE "launch"

\* The host is not reached, or its pipeline has not ended after ten seconds: the
\* recovery of this pass has failed, and nothing is launched.
TerminateFails ==
  /\ TerminateEnds
  /\ Stop \/ UNCHANGED <<pipe, work, solver>>
  /\ decision' = "sync"

\* The end of the pass.
LaunchSync ==
  /\ decision = "sync"
  /\ decision' = "idle"
  /\ sync' = IF sync = "off" /\ ~delivered THEN "shallow" ELSE sync
  /\ UNCHANGED <<hostVars, pidFile, stageFile, chunkVars, target, central, delivered, faults>>

Watchdog == Inspect \/ Launch \/ Terminate \/ TerminateFails \/ LaunchSync

-----------------------------------------------------------------------------
(* The sync script.                                                         *)

\* Wrong: a chunk counts by its name.
CompleteByName(copies) == \A c \in DOMAIN copies : copies[c] # "absent"

\* collect validates every cell.
Complete(copies) == \A c \in DOMAIN copies : copies[c] = "whole"

\* A failing rsync is reported and passed over; a malformed chunk ends the script.
CopyStage(s) ==
  /\ sync = s
  /\ central' \in {central, [c \in Cells |-> IF c[1] = s /\ out[c] # "absent" THEN out[c] ELSE central[c]]}
  /\ LET copies == [c \in {d \in Cells : d[1] = s} |-> central'[c]] IN
       sync' = CASE Complete(copies) -> (IF s = "shallow" THEN "production" ELSE "merge")
                 [] \E c \in DOMAIN copies : Torn(copies[c]) -> "off"
                 [] OTHER -> s
  /\ UNCHANGED <<hostVars, pidFile, stageFile, chunkVars, watchVars, delivered, faults>>

Merge ==
  /\ sync = "merge"
  /\ delivered' = TRUE
  /\ sync' = "off"
  /\ UNCHANGED <<hostVars, pidFile, stageFile, chunkVars, watchVars, central, faults>>

Sync == Merge \/ \E s \in Stages : CopyStage(s)

-----------------------------------------------------------------------------
(* What can go wrong.                                                       *)

Fault ==
  /\ faults < MaxFaults
  /\ faults' = faults + 1
  /\ UNCHANGED <<at, file, pidFile, stageFile, chunkVars, watchVars, central, delivered>>

KillPipeline(p) ==
  /\ PipeAlive(p)
  /\ pipe' = [pipe EXCEPT ![p] = "none"]
  /\ Fault /\ UNCHANGED <<work, solver, sync>>

KillWorker(p) ==
  /\ WorkAlive(p)
  /\ work' = [work EXCEPT ![p] = "failed"]
  /\ Fault /\ UNCHANGED <<pipe, solver, sync>>

KillSolver(p) ==
  /\ Alive(p)
  /\ solver' = [solver EXCEPT ![p] = "failed"]
  /\ Fault /\ UNCHANGED <<pipe, work, sync>>

Stall(p) ==
  /\ solver[p] = "search"
  /\ solver' = [solver EXCEPT ![p] = "stalled"]
  /\ Fault /\ UNCHANGED <<pipe, work, sync>>

Reboot ==
  /\ pipe' = [p \in Launches |-> "none"]
  /\ work' = [p \in Launches |-> "none"]
  /\ solver' = [p \in Launches |-> "none"]
  /\ Fault /\ UNCHANGED sync

SyncDies ==
  /\ sync # "off"
  /\ sync' = "off"
  /\ Fault /\ UNCHANGED <<pipe, work, solver>>

Faults ==
  \/ Reboot \/ SyncDies
  \/ \E p \in Launches : KillPipeline(p) \/ KillWorker(p) \/ KillSolver(p) \/ Stall(p)

Pipeline(p) == StartStage(p) \/ StoreWorker(p) \/ NextStage(p) \/ StageFails(p)
Worker(p) == StartSolver(p) \/ StoreSolver(p) \/ NextChunk(p)
Solve(p) == CheckExisting(p) \/ OpenTemporary(p) \/ WriteTemporary(p) \/ Publish(p)

FleetNext ==
  \/ Watchdog \/ Sync \/ Faults
  \/ \E p \in Launches : Pipeline(p) \/ Worker(p) \/ Solve(p)

\* Processes run; the watchdog is started every hour; ssh and rsync succeed now
\* and then.
FleetFairness ==
  /\ WF_fleetVars(Watchdog) /\ SF_fleetVars(Terminate)
  /\ \A s \in Stages : SF_fleetVars(CopyStage(s) /\ \A c \in Cells : c[1] = s => central'[c] = out[c])
  /\ WF_fleetVars(Sync)
  /\ \A p \in Launches : WF_fleetVars(Pipeline(p)) /\ WF_fleetVars(Worker(p)) /\ WF_fleetVars(Solve(p))

FleetSpec == FleetInit /\ [][FleetNext]_fleetVars /\ FleetFairness

-----------------------------------------------------------------------------
(* Properties.                                                              *)

\* A host that says it is complete has every chunk of both stages, whoever
\* published them, and none that had to be searched again: the watchdog never
\* looks at it again.
CompleteHasAll == stageFile = "complete" => \A c \in Cells : out[c] \notin {"absent", "legacy"}

\* At most one pipeline runs on a host, though a pass acts on what it read
\* before; what a dead pipeline left behind may run beside it.
OnePipeline == \A p, q \in Launches : PipeAlive(p) /\ PipeAlive(q) => p = q

\* The catalog is delivered from whole chunks only.
DeliversWhole == delivered => \A c \in Cells : central[c] = "whole"

\* A published chunk is whole, or its writer is about to finish it: it is safe
\* to stop and resume at any point.
PublishedWhole ==
  \A c \in Cells : Torn(out[c]) =>
    \E p \in Launches : at[p] = c /\ file[p] = "out" /\ solver[p] = "open"

\* The catalog is delivered, whatever is killed, unless a torn chunk was published.
Delivers == <>(delivered \/ ~PublishedWhole)
=============================================================================
