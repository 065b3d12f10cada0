------------------------------ MODULE HostLock ------------------------------
(***************************************************************************)
(* tools/cluster_host_lock.py: "run" waits for the host's workload lock, a *)
(* flock, writes who it is into the lock file, starts its command in a     *)
(* session of its own, forwards signals to it, waits for it and releases   *)
(* the lock.  "status" takes the lock for a moment.                        *)
(*                                                                         *)
(* The kernel releases a flock when its process ends, and the command does *)
(* not inherit it.  The text in the file stays.                            *)
(***************************************************************************)
EXTENDS Naturals

CONSTANTS
  Wrappers,   \* processes that execute run, once each
  MaxSignals  \* bound on TERM and KILL

Nobody == "nobody"
Probe == "status"

ASSUME LockAssumption == MaxSignals \in Nat /\ {Nobody, Probe} \cap Wrappers = {}

VARIABLES
  holder,   \* who has the flock
  owner,    \* whom the lock file names
  wrapper,  \* where w is in run_locked, "ended" or "killed"
  command,  \* of w: "none", "running" or "exited"
  signals

lockVars == <<holder, owner, wrapper, command, signals>>

At(w, place, next) == wrapper[w] = place /\ wrapper' = [wrapper EXCEPT ![w] = next]

LockInit ==
  /\ holder = Nobody
  /\ owner = Nobody
  /\ wrapper = [w \in Wrappers |-> "away"]
  /\ command = [w \in Wrappers |-> "none"]
  /\ signals = 0

Queue(w) ==
  /\ At(w, "away", "queued")
  /\ UNCHANGED <<holder, owner, command, signals>>

Acquire(w) ==
  /\ holder = Nobody
  /\ holder' = w
  /\ At(w, "queued", "acquired")
  /\ UNCHANGED <<owner, command, signals>>

\* The deadline passed and the lock is busy, if only with a status.
TimeOut(w) ==
  /\ holder # Nobody
  /\ At(w, "queued", "ended")
  /\ UNCHANGED <<holder, owner, command, signals>>

WriteOwner(w) ==
  /\ owner' = w
  /\ At(w, "acquired", "recorded")
  /\ UNCHANGED <<holder, command, signals>>

StartCommand(w) ==
  /\ \/ At(w, "recorded", "started") /\ command' = [command EXCEPT ![w] = "running"]
     \/ At(w, "recorded", "reaped") /\ UNCHANGED command
  /\ UNCHANGED <<holder, owner, signals>>

InstallHandlers(w) ==
  /\ At(w, "started", "waiting")
  /\ UNCHANGED <<holder, owner, command, signals>>

CommandExits(w) ==
  /\ command[w] = "running"
  /\ command' = [command EXCEPT ![w] = "exited"]
  /\ UNCHANGED <<holder, owner, wrapper, signals>>

Reap(w) ==
  /\ command[w] = "exited"
  /\ At(w, "waiting", "reaped")
  /\ UNCHANGED <<holder, owner, command, signals>>

\* Wrong: the lock is given up before the file is emptied.
UnlockFirst(w) ==
  /\ \/ At(w, "reaped", "erased") /\ holder' = Nobody /\ UNCHANGED owner
     \/ At(w, "erased", "ended") /\ owner' = Nobody /\ UNCHANGED holder
  /\ UNCHANGED <<command, signals>>

Release(w) ==
  /\ \/ At(w, "reaped", "erased") /\ owner' = Nobody /\ UNCHANGED holder
     \/ At(w, "erased", "ended") /\ holder' = Nobody /\ UNCHANGED owner
  /\ UNCHANGED <<command, signals>>

\* The forwarded signal ends the command.
Forward(w) ==
  /\ signals < MaxSignals
  /\ signals' = signals + 1
  /\ wrapper[w] = "waiting"
  /\ command[w] = "running"
  /\ command' = [command EXCEPT ![w] = "exited"]
  /\ UNCHANGED <<holder, owner, wrapper>>

\* TERM when no handler is installed, or KILL at any time.
Die(w) ==
  /\ signals < MaxSignals
  /\ signals' = signals + 1
  /\ wrapper[w] \notin {"away", "ended", "killed"}
  /\ wrapper' = [wrapper EXCEPT ![w] = "killed"]
  /\ holder' = IF holder = w THEN Nobody ELSE holder
  /\ UNCHANGED <<owner, command>>

Status ==
  /\ \/ holder = Nobody /\ holder' = Probe
     \/ holder = Probe /\ holder' = Nobody
  /\ UNCHANGED <<owner, wrapper, command, signals>>

Run(w) ==
  \/ Queue(w) \/ Acquire(w) \/ TimeOut(w) \/ WriteOwner(w) \/ StartCommand(w)
  \/ InstallHandlers(w) \/ CommandExits(w) \/ Reap(w) \/ Release(w) \/ Forward(w) \/ Die(w)

LockNext == Status \/ \E w \in Wrappers : Run(w)

LockSpec == LockInit /\ [][LockNext]_lockVars

-----------------------------------------------------------------------------
(* Properties.                                                              *)

\* A wrapper that waits for its command has the lock, the file names it, and
\* every other command on the host is one whose wrapper was killed: what its
\* wrapper outlives is serialized, what was killed before may go on beside it.
RunsAlone ==
  \A w \in Wrappers : wrapper[w] \in {"started", "waiting"} =>
    /\ holder = w
    /\ owner = w
    /\ \A v \in Wrappers \ {w} : command[v] = "running" => wrapper[v] = "killed"
=============================================================================
