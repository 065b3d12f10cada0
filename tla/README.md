# Cascadia: TLA+ models, checks and proofs

This directory models the parts of the Cascadia repository whose correctness
depends on long sequences of steps, on several threads or processes, on failures, or on
two computations of one value agreeing: the game engine with its board and scores, the
bounds the catalog of best boards is searched with, the bridge between the Rust exporter
and the Python model process, the exporter's workers, the client that runs large maps on a
Bacalhau cluster, the processes and locks of the hosts, the trainer, and the web server.
Paths below are relative to `src/`.

Modules are parsed with SANY and checked with TLC (each `.cfg` names its bounds);
modules whose names end in `Proofs` are checked with TLAPS. `PROJECT.json` maps
every definition to the lines it models and lists runs, mutants (a plausible
bug per property that makes it fail), findings, hazards and theorems.

## 1. Inventory

| Component | State it keeps | Operations | Hard behaviour | What makes it correct |
|---|---|---|---|---|
| Game turn engine, `crates/cascadia-game/src/{game,market,types}.rs` | boards, market, bag, tile stack, discards, seat, turn | `new`, `transition`/`apply`, `validate`, legal turns | long sequences of wipes and refills, errors half-way through an action, an unbounded-looking loop, the last turn; one probe board changed and restored through thousands of turns | tokens conserved; supplies suffice; a refused action is free; the loop ends; the turns listed are the legal ones |
| Board and scoring, `board.rs`, `scoring.rs`, `hex.rs`, `replay.rs` | placed tiles and tokens, components of habitats | `place_tile`, `place_wildlife`, `undo`, scores, rotation | undo restoring exactly; incremental against full scores; searches over competing groups | undo is an inverse; incremental scores are the scores; a score is the best one |
| All-wildlife catalog rules, `tools/all_wildlife_rules.py`, `bin/all_wildlife_candidates.rs` | none | bounds and domains of scores from counts of species | a bound one too low loses the best board without a trace | no board exceeds a bound or leaves a domain |
| Shared model bridge, `cascadiav3/real-root-exporter/src/model_bridge.rs` | job channel, pending requests, one child process | `eval_batch`, gather, send, receive, reply, shutdown | worker threads and one aggregator, a positional stream, timeouts, crashes | each call gets its own rows or an error, exactly once, and returns; the thread ends |
| Model serve loop, `cascadiav3/src/cascadiav3/torch_inference_bridge.py` | input queue, one outstanding request | `serve`, `_serve_pipeline_loop`, reader thread | overlap of two requests, failures in every phase, end of input | the pipelined loop is the serial one |
| Exporter work pool and evaluation cache, `real-root-exporter/src/main.rs` | an atomic queue of seeds, a failed flag, a cache per worker | `run_dynamic_seed_workers`, `evaluate_rows_deduped` | workers failing or panicking while others run; a cache emptied inside a batch | each seed runs once or the export fails; a row gets its own evaluation |
| Cluster map client, `python/cascadia_cluster/client.py` | a state file per request, a handle in memory, jobs in Bacalhau | `submit_map`, `reconnect`, `status`, `wait`, `cancel`, `results` | the caller dies between a submission and its record | one job per item; the window; closed is closed; it completes |
| Cluster protocol and storage, `bacalhau_api.py`, `object_store.py`, `results.py` | none of its own | HTTP and S3 calls, validation | failing calls | taken as an external service |
| Fleet watchdog and pipeline, `tools/all_wildlife_fixed_count_watchdog.py`, `cascadiav3/scripts/fleet_all_wildlife_fixed_count_candidates_*.sh`, `bin/all_wildlife_candidates.rs` | pid, stage, exit and heartbeat files, temporary and published chunks | inspect, terminate, relaunch, sync; stages, chunks, rename | stale files, children that outlive their parents, two writers of one temporary name | one pipeline per host; complete means complete; whole chunks are delivered |
| Host workload lock, `tools/cluster_host_lock.py` | a flock and an owner record | `run`, `status` | the wrapper dies and its child does not; signals; a probe that takes the lock | one workload under the lock; the record names it |
| Training, `cascadiav3/src/cascadiav3/torch_train_cascadiaformer.py` | weights, optimizer, scheduler, cursor, checkpoints of three files | train, validate, save, resume | a kill anywhere, a loader that runs ahead, checkpoints written file by file | a resumed run goes on in the stream of examples where its checkpoint ends |
| Web API and champion server, `crates/cascadia-api/src` | the champion client slot, the cluster history file, nothing for games | suggest, record, query, new, turn, undo | a silent child under a mutex, a cut line, two collectors, a browser that holds the game | a suggestion is one's own; acknowledged samples are spaced and kept; every game it hands out loads |
| Gumbel search, `gumbel.rs` | a search tree | sequential halving | budget arithmetic over floating-point values | not modelled, see section 8 |
| Search, simulation and data crates; experiments; web application; infrastructure | numeric data, files, user interface | | | not modelled, see section 8 |

How they interact: an exporter worker takes a seed from the pool, plays a game with the
engine, gathers the rows it needs evaluated (deduplicated through its cache) and calls
`SharedBridgeClient::eval_batch`; the aggregator thread writes merged requests
to the child's stdin and reads response lines from its stdout; the child runs
one of the two serve loops on weights the trainer wrote. The cluster client starts such
exporters as container jobs; the host lock keeps two of them off one host. The catalog of
best boards is searched on bare hosts by pipelines under the watchdog, with the
engine's scoring and the bounds of the catalog rules. The web API calls the engine
directly and a champion server through the same kind of line protocol as the bridge.

## 2. Plan

The order was by what everything else rests on. Done:

1. `CascadiaGame`, the engine, because everything else plays its games.
2. `EvalService`, what `eval_batch` promises, and `SharedBridge`, which implements it.
3. `FifoService`, the serial serve loop, and `PipelinedServe`, which implements it.
4. `ClusterMap`: managed maps under crashes.
5. `PlayerBoard`, `LegalTurns`, `WildlifeScoring`: the board, the turns and the scores the
   engine's turns are about; `WildlifeRules`, `WildlifeProfiles` on the scores.
6. `Fleet`, `HostLock`, `SeedPool`: what runs on a host.
7. `ChampionSlot`, `ClusterHistory`, `SavedGames`: the web server.
8. `Training`: the trainer under crashes.
9. The theorems of section 7.

Left, in order of value: the redeterminisation of hidden state and the public previews of
the engine; a `ClusterMap` whose state file's write can fail and two live handles of one
request; a `SharedBridge` with a shell between the bridge and its model process; overlapping
passes of the watchdog and pids that are used again; the arithmetic of sequential halving.
Of theorems: nothing but what section 7 lists as only model-checked, which is out of the prover's reach.

## 3. Modules and the code

**CascadiaGame.** `game` is the caller's `GameState`, `work` the clone that
`transition` mutates, `aside` the tokens that are off the market in a local variable
(the `set_aside` vector of `replace_wildlife`, or the drafted token), `pc` the
place in `apply_in_place`. Each action is one step of the code between two
observable mutations: `FillEmptyWildlife` pops one token, `ReturnSetAside` puts a
wipe's tokens back, `AutomaticWipe` is one turn of the `while` loop, `Settled` its
exit, then the prelude, the draft, the placement, `FinishTurn`, `RefillSlot`,
`AdvancePlayer` and `Commit` (with `validate`). `Raise` is the `?` operator: the
clone is dropped. Bag and stack order come from a hash of a seed the players do
not know, so a pop yields any token the bag holds. Species counts replace the
vectors; cells and rotations are abstracted to "accepted, with or without a
token and an award" and "refused": what they do is in the next module.

**PlayerBoard / LegalTurns.** `PlayerBoard` holds operators: a board is a function
from coordinates to tiles with rotation and wildlife, the list of placed coordinates and the
nature tokens; placing and undoing; components of habitats as sets of cells;
`HabitatAnalysis`, from which `LargestAfterTileWithContext`,
`LargestAfterTerrainEdges` and `MatchingEdgesAfterTile` predict what a tile would do; the
rotation of a whole board. `LegalTurns` is the enumeration of
`visit_legal_turn_actions_with_tile_context`: `probe` is the one clone, and the
actions place a tile on it, turn it, settle and lift wildlife, and take the tile off
again; `visits` records what the visitor saw. `Play` then makes any turn the engine's own
rules accept and rescores the habitats, so that the next enumeration starts
from a played position. The market is full, as `CascadiaGame` shows it to be before every
turn; the prelude is the default one and no draft is dropped by `accept_draft`. A tile is a
keystone exactly when it has no second terrain, and the two terrains of another tile differ, as in
`tile_catalog.rs`. The order of the frontier is any fixed one. What the
constants must be is in `TurnsAssumption`: finitely many coordinates, starter clusters on cells of
their own about the origin, and a full game that fits on a board (3 tiles and 20 turns against 23 cells
of a board in the code). `RotationAssumption` is what turning a board needs of the coordinates: those nearer than
`MaxBoardTiles` turn into coordinates. The comment at `hex.rs:49-51` claims it of every coordinate in bounds,
which the corners of the grid, such as (24, 24), are not; no board reaches them, as section 7 shows.

**WildlifeScoring / WildlifeRules / WildlifeProfiles.** `WildlifeScoring` is `scoring.rs`: the
four cards of each species, with the code's searches (`MaximizeDisjointGroups` claims the
groups of the first free token in turn, `MaximumWeightMatching` pairs hawks and
foxes) over sets instead of bit masks. A behaviour places tokens one at a time and carries
`score` along by `Rescore`. `WildlifeRules` and `WildlifeProfiles` are
`tools/all_wildlife_rules.py`: what a count of each species bounds. A dynamic program or a
depth-first search that maximizes over a finite set of choices is given by that
set. `Bounds` tabulates the bounds as a set of records, since TLC evaluates a constant once.
`LatticeAssumption` is what the code takes on trust of two sets of cells: its tables of the edges between them
(`_BIPARTITE_HEX_EDGE_MAXIMUM`, found by a solver in `tools/derive_hex_bipartite_edge_bounds.py`) and of the cells
that have two neighbors across (`_FOX_B_QUALIFICATION_MAXIMUM`) hold upper bounds. TLC evaluates it for the cells of a run.
`Environment` composes these two with `LegalTurns`.

**EvalService / SharedBridge.** `EvalService` has a worker's three steps: call, be
answered with its own rows or an error, return. `SharedBridge` EXTENDS it and adds
the channel, the aggregator (`pc` is its place in the loop of
`spawn_with_options`), `pending`, the child's stdin and stdout and the child itself; the
channel closes when every client and the bridge's owner have dropped their senders, which
the aggregator notices in one of three places.
A response line is a pair of the request it answers and whether it
succeeded; `Accepted` is what `recv_eval_batch_response` and
`parse_model_response` can check of it: results, and equal action ids. The
reference to the request in the line is a ghost the aggregator never reads, and
serves `InStep`, `NeverAhead` and `Results`. `Faults` says what the child may do: answer by an
error, be slower than the timeout, hang or crash. The child's stdin is a pipe that holds `PipeRows`
rows: `Send` begins a write, `Written` ends it when what the child has not read (`unread`)
fits, so a child that hangs may block the aggregator in it. `Shutdown` and `Ended` are the end of
the loop and the wait for the child, which has no timeout either.
`MaxRows` does not bound a merged request: the job that reaches it is still taken, as in
the code.

**FifoService / PipelinedServe.** `FifoService` is the `for line in sys.stdin` loop:
each line is answered in order. `PipelinedServe` has the pipe, the reader thread,
the bounded queue, phase A (`Prepare`), phase B (`Drain`), phase C
(`AnswerError`, `Launch`, `HandleInline`, `HandleShutdown`), the loop's choice
between waiting and finalizing (`Take`, `NothingBuffered`), and end of input.
The refinement maps the abstract input to the outstanding request, the line in
hand, the queue and the pipe, in that order.

**ClusterMap.** `disk` is the state file, `handle` the `MapHandle` (window 0 stands
for "no file" and "no handle"), `jobs` what Bacalhau runs. `SubmitMap` is
`submit_map` up to its first admission, `Reconnect` is `reconnect`; `Status` enters
`_advance_admission`, whose steps are `CountActive`, `Submit` (with
`_submit_or_recover_item`), `Persist` and `Admitted`; `Cancel`, `PersistClosed`,
`StopNext` and `Cancelled` are `cancel`. `Crash` may come between any two of
them, `CallFails` at any call to Bacalhau. The file is replaced atomically
(`_write_atomic`), so a crash never leaves half a file. Every submission makes a new
job, as the fake service of the tests does: the service's idempotency token is
not relied on, so what the runs show is due to the client's own recovery.

**Training.** The weights are the sequence of the examples whose gradients made them, so
that two weights are equal when the same examples were trained in the same order. `Micro`
trains a batch and advances the cursor of the prefetching loader, `Apply` ends a
step, `Validate` draws a metric, `SaveBest` and `SaveNumbered` write a
checkpoint's three files one after another and `SaveSwa` an averaged one; `Die` may come
between any two files, `Resume` takes any checkpoint the code would load, a torn one of
`best_locked_val` included. A run starts afresh only when nothing can be loaded.
`PythonPrograms` composes `ClusterMap`, `PipelinedServe` and `Training`.

**Fleet.** A launch is a pipeline shell, a worker shell and a solver, each a process of its
own (`pipe`, `work`, `solver`); a child that was forked and whose pid was not stored yet is a
state of its own, because a trap can stop only what was stored. `OpenTemporary`,
`WriteTemporary` and `Publish` are the solver's truncation, write and rename; as two writers of
one name share the file, the content of a chunk is "empty", "mixed" or
"whole"; or "legacy", when an earlier version left it with scores that have changed since
(`fixed_count_chunk_needs_regeneration`), and it is searched again. `Inspect`, `Terminate`, `TerminateFails`, `Launch` and `LaunchSync` are a pass of the watchdog;
`CopyStage` is rsync and collection, `Merge` the delivery. The faults are killed
processes, a stalled solver, a reboot, a dying sync, and a pass that meets the pipeline between
two solvers. **HostLock** is `run_locked` step by step with signals between any two steps,
and `lock_status`, which takes the lock for a moment. **SeedPool** is the
exporter's pool: `next_seed_index`, the `failed` flag, a thread per worker that may skip a
seed, return an error or panic; and `evaluate_rows_deduped` with the cache that is emptied when
full. `FleetHost` composes the three.

**ClusterHistory / ChampionSlot / SavedGames.** `ClusterHistory` has the samples in memory and
the file as lines of records, so that a fragment, a missing newline and a line with two records
can be told apart; `Open` is the start of the server with its recovery of a trailing
fragment. `ChampionSlot` is the mutex-protected client of the suggest server and that server's
process, with its noise, exits and hangs. `SavedGames` is the stateless game handlers: the
state is the set of games a browser may hold, sealed ones with a hash. `ApiServer` composes the
three.

In each composition (`Environment`, `PythonPrograms`, `FleetHost`, `ApiServer`) the components
share no variable, because the code's parts share no state. `part` chooses one that moves
while the others rest in an initial state. For properties that each speak of one
component this loses nothing: a behaviour of the free product, restricted to
one component, is a behaviour of that component.

The `MC` modules give CONSTANTS their values; they define no behaviour.

## 4. Abstract specifications

`KeepsPromise` is `EvalService!Spec`: `SharedBridge` implements it with the identity
mapping on the worker variables. `IsSerial` is `FifoService!Spec`, liveness
included. Both are checked as TLC PROPERTYs. `OwnWhileInStep`, which is proved, is the next-state
relation of `EvalService` for the steps taken while the response stream is in step, and so
speaks of calls with equal action ids, too. Where a component computes, its reference is a
definition instead: `ScoreBoard` for the carried score, a maximum over all packings for the
searches (`BestPacking`), `AcceptedTurns` for the enumeration, `LargestHabitat` for the
predicted habitats, the stream of examples (`Stream`) for a trainer that is killed and resumed.

## 5. Runs

| Run | Bounds | Shows |
|---|---|---|
| `game_standard` | two seats, two turns each, 11 tokens (7 and 4), 8 tiles, wipe limit 1 | `TokenConservation`, `SupplyNeverRunsDry`, `NoEngineErrors`, `WipeCanResolve`, `TurnLedger`, `FailedCallIsFree`, `OneTurnOfTheMover` |
| `game_solo` | two solo turns, 10 tokens (6 and 4), 9 tiles, wipe limit 1 | `NoEngineErrors` with the solo discard, and `CallReturns` |
| `environment` | scores: eight cells, up to five tokens of three species, every card; turns: seven cells, a starter of three tiles, two market slots, two turns | `ScoreExact`, `ScoresOptimal`, `BoundsSound`; `EnumerationExact`, `RescoreExact`, `RotationCommutes` |
| `bridge` | three workers of one call each, depth 2, row cap 2, pipe of one row, errors, timeouts, hangs and crashes | `JobsAccountedFor`, `NeverAhead`, `KeepsPromise`, `CallsReturn`, `EndsWithItsUsers` |
| `bridge_desync` | three workers, error lines only | `InStep` is violated (finding 1) |
| `python` | map: four items, windows 1 to 3, three faults; serve: four lines of four kinds, queue of 2; trainer: three records, batches of 2, two per step, four steps, two crashes | `OneJobPerItem`, `OrphanIsNext`, `WindowRespected`, `ClosedForGood`, `SubmittedCompletes`; `IsSerial`; `TrainsTheStream` |
| `cluster_cancel` | the map alone | `CancelStopsAll` is violated (finding 2) |
| `api` | two collectors, time to 6, two faults; two callers of two calls, one line of noise; games of two turns | `Spaced`, `AcknowledgedKept`, `PointsBounded`; `OwnSuggestion`, `SuggestReturns`; `SavedGamesLoad` |
| `api_history` | the same | `OpensItsOwnFile` is violated (finding 3) |
| `fleet_host` | two launches, two chunks per stage, one of them of an earlier version, one fault; three wrappers, two signals; two workers, cache of 2, two failures | `OnePipeline`, `CompleteHasAll`, `DeliversWhole`, `CatalogDelivered`; `RunsAlone`; `SeedsAccounted`, `OwnRows` |
| `fleet_torn` | two launches, one chunk per stage, one fault | `PublishedWhole` is violated (finding 4) |
| `training_passes` | the trainer alone | `PassesCapped` is violated (finding 5) |

Why the bounds are enough:

- The game's supplies are the tightest the assumptions allow, as the real box is
  relative to its 80 turns: before the last refill just eight tokens are off the
  boards, the four of a shown market and the four a full wipe draws, and one
  species may be all but one of those. Each kind of wipe, an unplaced token, both drafts,
  both placements, all refusals and the limit on automatic wipes occur; two seats make
  "another seat" and "the mover" different. The theorems of section 7 remove these bounds.
- Eight cells hold every shape the cards speak of up to five tokens: lines, triangles,
  diamonds, runs, lines of sight with one and two cells between, and a centre with all
  six neighbors. The rulesets are the four uniform ones (one letter for all species), which
  suffice because a species' score and its rescore depend on its own card only. Three species
  at a time make the fox's and the hawk's counts of others differ. `TokenCount` is 5, and
  `CountCap` 4, so that bounds are computed for all the vectors such boards have. Two turns
  on seven cells put a second tile beside the first, so a habitat is merged by a
  tile and the carried habitat of the first turn is used in the second.
- Three workers over depth 2 give two requests in flight with one job waiting, and a
  merged request of two jobs. `DistinctMenu` has distinct action ids per call: that is what
  `Accepted` tells requests apart by. Two requests for positions with equal action
  lists would be indistinguishable to it, so in `bridge`, where the stream may fall out of step,
  `KeepsPromise` is a claim about distinct menus only, and it is here that finding 1 would matter most.
  For calls with equal ids, where the place in the stream is all there is to tell answers apart,
  there is the theorem `InStepAnswersAreOwn` and no run. One call for each worker is enough for calls after
  a failure, since the process serves those who come later; the theorems have any number. A pipe of one row takes some requests before the child reads anything and
  blocks on others, and on the second of two.
- Four lines over a queue of two fill the queue with one line outstanding, one in
  hand and the reader blocked. Four items give an orphan with items before it and after it, and
  three faults suffice for a crash during the recovery of an earlier crash. Three records in
  batches of two make an epoch end inside a batch and inside a step; two crashes let a resumed
  run die before it has saved anything of its own. The cap clamps five steps to four.
- Two collectors with an interval of 2 can collect within one interval and record in either
  order; time 6 is the retention plus a compaction. Two calls each leave a
  stale answer of one call to be met by the next.
- Two launches are what an orphan and its successor need; two chunks per stage
  distinguish the chunk two solvers share from the next one. One fault is enough for each
  fault by itself to lead to an orphan. A third launch and any number of faults are
  covered, for safety, by the theorems.
- Three wrappers let one hold the lock, one wait and one time out while `status` probes it. A pool
  of two workers with more rows than the cache holds empties the cache inside a batch.

`CHECK_DEADLOCK FALSE` is set because every one of these systems may stop: a game is
over, a board is full, all workers have left, the loop has ended, the request or the
training is complete.

Each property of a passing run has a mutant in `PROJECT.json`: a definition of the
module beginning with "Wrong" in its comment that replaces a mapped one and that
the same run rejects.

## 6. Fairness

- `CascadiaGame`: weak fairness of `Step`. A call runs on one thread and nothing
  blocks; that it returns is not assumed but checked, as wipes could go on.
- `SharedBridge`: weak fairness of the aggregator thread, whose waits for jobs and for lines are
  timed or end with a job, a line or the end of the file; and of the child as long as it
  runs: it reads, answers and exits when told, until it hangs or dies, and dies when it is killed. Hanging
  is an action without fairness. The aggregator's write to the child (`model_bridge.rs:275-279`) and
  its last wait (`:329`) have no timeout, and only a read kills a child; so both liveness properties
  except a run that ends in one of these with a hung child (`Blocked`), which blocks every worker for
  ever. It is a step of the model, not an assumption. `CallsReturn` needs no fairness of workers: an answer that is there ends the wait.
  `EndsWithItsUsers` starts when they have all gone, so it assumes nothing of them either.
- `FifoService` and `PipelinedServe`: the loop and the reader thread run; the client
  need not write or close anything.
- `ClusterMap`: `wait` polls (weak fairness of the handle's own steps), a caller that
  lost its handle submits or reconnects again, and each job ends. Nothing makes a caller
  cancel. `SubmittedCompletes` is therefore about a caller that keeps trying, which is
  what the state file is for.
- `ChampionSlot`: callers run, and the child starts and answers unless it exits or hangs; it is
  free to do either. A hung child is excused by `SuggestReturns` itself, because
  the code has no timeout there.
- `Fleet`: processes run, the watchdog passes again and again, as it is started every
  hour, and the copy of a stage and the termination of a stalled pipeline succeed now and then (strong
  fairness, since an unlucky one is tried again in the next pass). Torn chunks are excused by `Delivers`; they are finding 4.
- `HostLock`, `SeedPool`, `ClusterHistory`, `SavedGames`, `Training`, `Environment`:
  none; their properties are safety properties.

In a composition each conjunct of fairness speaks of one component's variables. Of a component
that rests no such action is enabled, or the conjunct names the part it holds of
(`PythonSpec`). `FleetFairness` is the exception: it leaves behaviours in which the lock or the
pool moves out of the temporal properties, of which there is only `CatalogDelivered`, about the
pipelines. Invariants are checked in every reachable state, whatever the fairness.

## 7. Proofs

TLAPS proves, for all values of the constants that satisfy the named assumptions,
of `CascadiaGame` (`ParameterAssumption`, `StackAssumption`, `SupplyAssumption`):

- `TypeCorrect`: `Spec => []TypeOK`. `TypeOK` is inductive as it stands. No run checks it
  again.
- `TokensConserved`: `Spec => []TokenConservation`. Not inductive alone, as a step out of
  `finish` empties the hand and `aside` must be empty wherever the code holds no token:
  `ConservationInv` adds `HandEmpty`, and `TypeOK` is used throughout. The lemmas
  say that a draw, a set-aside, a return, a placement and the solo discard each move
  tokens between the summands of one equation; the longest one is that compaction
  keeps what the market shows.
- `ApplyIsAtomic`: `Spec => FailedCallIsFree`, from the same invariant.
- `SuppliesSuffice`: `Spec => []SupplyNeverRunsDry`. The invariant relates the turns
  played to the tokens on boards and discarded (at most one each a turn),
  the tiles to the stack, and each place in the code to what may be missing from the
  market there; `SupplyAssumption` is then exactly what the last refill needs.
- `OverpopulationResolvable`: `Spec => []WipeCanResolve`, from the same invariant: four
  equal tokens and an empty rest of the bag would need more of one species than
  the supply holds.
- `LedgerHolds`: `Spec => []TurnLedger`, and `MoverAlone`: `Spec => OneTurnOfTheMover`. The
  ledger speaks of `turns_remaining_for_player`, a division; `TurnInv` says that the seat to
  move is the number of turns played modulo the seats, and that inside a call the clone
  differs from the game by a tile once it is placed, a turn once it is counted and a seat once
  it is passed on. The arithmetic is one lemma: quotient and remainder are unique.
- `EngineNeverFails`: `Spec => []NoEngineErrors`: a call fails for what the player did or for a hopeless
  run of draws, and for nothing else. No board overflows because a seat to move has turns
  left; `validate` accepts what the engine made because every tile dealt is in the stack, shown,
  discarded, on a board or in hand (`TilesHeld`), nothing is missing from the market where it runs, and it runs
  only when no four tokens are equal; its ranges of turns, seats and tiles hold because a turn is begun
with turns left. What it checks of the representation (the schema, the lengths of arrays, the index of occupied
cells) is not in the model, where a board is its number of tiles.

The two assumptions on supplies hold of the real box: 100 tokens of 20 per species with
at most 79 out, 85 tiles against 43, 63 or 83. `real-root-exporter/src/main.rs:3688`
still names "a game line that empties the wildlife bag" as a reason to skip a seed, and
`game.rs:678-680` a replacement "near exhaustion" that "cannot draw three tokens";
`SuppliesSuffice` agrees with `game.rs:1005-1007` that there is neither.

It proves of `ClusterMap` (`MapAssumption`: any number of items, windows, and any bound
on crashes and failed calls), from one inductive invariant, `MapInv`:

- `TypeCorrect`: `Spec => []TypeOK`, ids being those of the items' own jobs.
- `RunsOnce`: `Spec => []OneJobPerItem`. Not inductive alone: whether a submission may
  make a job depends on where a job may be that the file does not name. `MapInv` says
  that ids are given in order (`InOrder`), that a job without a name is that of the
  next item (`OnlyNext`), and that there is none once the handle no longer recovers
  (`AllKnown`), which holds as the first item of each handle is looked for. In-order
  submission in turn rests on the pass never skipping an item.
- `OrphanFound`: `Spec => []OrphanIsNext`, a part of the same invariant.
- `StaysClosed`: `Spec => ClosedForGood`: a closed file implies a closed handle, and a
  closed handle is never inside a pass over the items.
- `WindowKept`: `Spec => WindowRespected`. `WindowInv` adds to `MapInv` that the live jobs
  the handle knows are at most those it counted, as jobs only end meanwhile; that
  these are all live jobs at a submission which made one is `AllKnown` again, and a count
  of items bounds a count of jobs by an injection.

It proves of `SharedBridge` (`BridgeAssumption`: any workers, row cap, depth and faults):

- `StreamNeverAhead`: `BridgeSpec => []NeverAhead`. `StreamInv` is that the pending requests are
  the end of what is outstanding in the stream (answers, then requests); each action changes both
  at the front, at the back, or drops `pending` altogether, where the empty sequence is an end of
  anything.
- `JobsNeverLost`: `BridgeSpec => []JobsAccountedFor`. The invariant follows one bag of jobs through
  the channel, the batch and the requests in flight; gathering, sending and a failed session move
  jobs between the summands, and a reply takes them out for good.
- `InStepAnswersAreOwn`: `BridgeSpec => OwnWhileInStep`, for any calls, with equal action ids or
  not: a worker whose answer comes while the stream is in step gets the evaluation of the rows
  of its own call, or an error. It rests on what `FlattenSeq` returns for the jobs of a request: the
  slice that begins after the jobs before one, and is as long as it, is that job's results.
- `BridgeKeepsPromise`: `BridgeSpec => KeepsPromise`, the refinement, step by step, when the process
  answers each request by its results in time (`Faults \subseteq {"crash"}`; it may crash at any point).
  It assumes nothing of the calls. The invariant that `StreamInv` lacks is `Steady`: no line is an error
  and the stream is in step, so the theorem before applies to every step. With an error line, finding
  1 breaks `Steady`; what then still holds for distinct menus is left to the run `bridge`.

Of `ApiServer`:

- `SuggestionIsOwn`: `ApiSpec => []OwnSuggestion`. `SlotInv` says that at most one
  request is on its way, that of the caller that reads, either as a request or as an
  answer: `OwnSuggestion` alone knows nothing of the pipes.
- `GamesLoad`: `ApiSpec => []SavedGamesLoad`, for games of any length and any rule of legality: a turn
  that was legal in a game is legal in every game with the same turns before it.
- `SamplesAreSpaced`, `AcknowledgedIsKept`, `PointsAreBounded` (whose bound is
  `MAX_POINTS_PER_SERIES` + 1: a sample of the moment of the query opens a 481st bucket, which the
  test at `cluster_history.rs:505-510`, with at most 480 on its data, does not meet): `Spaced`, `AcknowledgedKept` and
  `PointsBounded` of the history file, from `HistoryInv`: no sample is later than the clock
  (`Past`), the file and the memory agree where nobody writes (`AtRest`), what a writer
  is about to leave is known from its place in the code (`Writer`), acknowledged and retained
  samples are in a whole line of the file (`Durable`) and in memory (`InMemory`), and the last one in memory
  is as late as every acknowledged one (`LatestLast`), which is what the check under the mutex reads.
  The proof needs `Interval <= Retention`, which the module assumes: with a retention shorter
  than the interval the last sample may be pruned and the next one come too early.
  The code's defaults are 25 seconds and 7 days.

Of `FleetHost`, for any number of launches, chunks, wrappers, workers, rows and faults:

- `LockSerializes` (`LockInv`: whoever is between acquiring and releasing holds the flock),
  `PipelinesAlone` (`PipeInv`: the pid file names every pipeline that is alive, and what the
  watchdog decided still covers them when it acts), `CompleteIsComplete` (`ProgressInv`: chunks
  before the one a launch is at are published, and published chunks stay), and `DeliveryWhole`
  (`SyncInv`: a stage that was collected was whole in the copy).
- `SeedsAreAccounted`, `EvaluationsAreOwn`: `SeedsAccounted` and `OwnRows`, from `PoolInv`: a seed
  below the shared index is in exactly one worker's hands, output or skip (`OneOwner`), or its worker
  failed (`NoneLost`), and cache, batch and results pair each row with its own evaluation (`OwnRows`).

Of `WildlifeScoring`, `ScoreIsExact`: `ScoringSpec => []ScoreExact`, for any set of cells and
rulesets: a species that the rescore leaves out reads neither the placed species' positions
nor the neighborhood that changed (`Unseen`).

`ScoresAreOptimal`: `ScoringSpec => []ScoresOptimal`. The search decides about one cell, whichever `CHOOSE` takes, and
looks up the rest in its table; the definition compares every way to take the cells apart, given as functions whose
cells with one image are a group (`BestPacking`). The lemmas say that the table exists and is unique, as a set is only decided from smaller
ones (`SubsetRecursion`, `GroupsDecided`); that taking the chosen cell's group out of a packing leaves a packing of the
other cells, and adding a group makes one (`PackingWithout`, `PackingWith`), so that each entry of the table is the best of all
packings of its cells (`DecidedBest`); and that the packings are those of functions (`PackingIsParts`). The search
may leave a cell without a score, which is no worse only because every cell is a group by itself: that is part of
`IsGroups`, and holds of the elk on every card (`LoneElk`) and of the matchings (`EdgesAreGroups`). The lines of
sight that one program walks and the other computes from coordinates agree (`LinesAgree`), because `Width`
is at least any distance in line, which `ScoringAssumption` states of `Cells`.

Of `LegalTurns`, `EnumerationIsExact`: `TurnsSpec => []EnumerationExact`, for any cells, tiles, markets,
starter clusters and number of turns. A *place* is what the four cursors are at: a draft, a frontier cell, a rotation
and a wildlife placement or none. The lemmas say that the turns at places are just the turns
the rules accept (`VisitedIsAccepted`, `AcceptedIsVisited`), each at one place (`PlacesDiffer`): the lists of
drafts, cells, rotations and placements hold each member once, and the placements that are listed before
the tile is placed are those on the board with the tile. Placing, turning, settling and undoing restore the board
(`TileUndone`, `WithWildlifeIs`). `EnumerationInv` says what the probe is at each place of the code
(`CursorInv`), and counts in two ways what was visited (`CountInv`): as the set of places before the
cursor, which a visit extends by one, and in closed form (`Tally`), which ends as the
announced `Capacity`. `IsGame` keeps a full game on a board, so that no placement is refused for want of
room.

`RescoreIsExact`: `TurnsSpec => []RescoreExact`. A habitat is found by a fold that joins each cell to the sets it
touches, in an order nobody knows. `IsComponents` says what a division into components is, without any order:
disjoint, closed under the edges, and connected; there is only one (`ComponentsUnique`), the fold finds it
(`HabitatsFound`), and a further cell joins the components it touches and leaves the others (`JoinedIs`, `MoreGround`).
As disjoint sets have the sum of their sizes (`SizesAddUp`), the three ways to ask are the size of the joined
set: by the context of the cell, each component once (`DirectIs`), by the neighbors on the board, which is the
same (`ReadIsDirect`), by the mask of the edges that show the terrain
(`QueriedIs`, `MaskIs`), and a terrain the tile has not keeps its habitats (`UnseenTerrain`). An edge that matches is
seen from two cells, so the pairs that are counted grow by twice the edges of the tile that match
(`MatchingWithTile`). `HabitatInv` adds to `EnumerationInv` that the score that is kept is the board's.

`RotationIsExact`: `TurnsSpec => []RotationCommutes`. A turn is a bijection that takes neighbors to neighbors across the
edge that is turned the other way (`TurnsNeighbors`), and an edge shows what it did (`TurnsTerrain`). `IsTurned` says that
one board is another turned, which fixes it (`TurnedUnique`), and placing a tile, settling wildlife and paying keep it
(`TurnedTile`, `TurnedWildlife`, `TurnedPaid`). The components of a graph whose points are moved are the components moved
(`ComponentsMoved`), so the habitats are as large. `RotationInv` adds to `EnumerationInv` that no cell is as far from the
origin as there are tiles (`Near`): a turn could otherwise leave the coordinates.

`BoundsAreSound`: `ScoringSpec => []BoundsSound`, for any patch of cells, palettes and rulesets. `BoardCounts` adds to
the invariants above that counts stay below the cap and the species in one palette. The argument follows the
code from the board to its bounds:

- *Sums.* Disjoint groups of tokens that are all offered make one of the sums that the dynamic programs over groups
  reach (`PackingSums`), so the worth of the groups is in the domain of the species, and their edges, which are edges inside
  the species, are those of a profile (`SumProfiles`); dropping dominated profiles loses nothing (`EfficientOffers`), and the best
  partition bounds every sum (`PartitionBounds`).
- *Lattice.* Two cells have at most two common neighbors (`CommonNeighbors`), a connected group of k tokens has k - 1 edges
  (`ConnectedEdges`), six tokens in a, b and c rows of the three directions leave few pairs in line (`Grid`, `RowCounts`), which
  bounds the edges inside a species and the lines of sight (`FewEdges`, `FewLines`), and a token has six sides, so edges
  inside and out of a species share 6n (`DegreeSum`).
- *Species.* With these, the score of each species is in its domain, below its bound and offered by a profile that needs no more
  edges than the board has: `BearsAre`, `ElkAre`, `SalmonAre`, `HawksAre`, `FoxesAre`. For runs of salmon the bonus is what lies around
  the run; for foxes, the searches of cards A and B that add one fox after the other reach what the foxes of the board see
  (`OutlookReached`, `FoxBReaches`), as few foxes see two given tokens (`SeersFew`) or many tokens (`DoublingsCounted`).
- *Together.* The edges between the species of the board are one way to share the sides that are left, which `EdgeShares` finds
  (`SharesReach`, `DemandsFit`), so the profiles of the board are a choice of the coupled bound (`CoupledHolds`), and the
  smallest of the three bounds is sound (`CountsSound`).

It rests on `LatticeAssumption` for edges between species; those inside a species and along lines are
derived from the coordinates.

`EnvironmentIsExact` puts these together: `EnvironmentSpec` implies `ScoringSpec` and `TurnsSpec`, as each part is at rest
while the other moves (`EnvironmentParts`), so `ScoreExact`, `ScoresOptimal`, `BoundsSound`, `EnumerationExact`, `RescoreExact`
and `RotationCommutes` hold of the specification that the run `environment` checks.

Of `Training`, `StreamIsTrained`: `PythonSpec => []TrainsTheStream`, for any corpus, batch size,
accumulation, intervals and crashes. The claim compares two computations: the trained examples are cut out by
the indices of `_batch_indices_for_global_batch`, a loop that wraps around epochs, and the cursors count. The lemmas
give both as positions in one stream (a quotient and a remainder of one number), show that the
loop's rounds are consecutive pieces of it (`EpochBatchFacts`, `PiecesJoin`), and that moving the
cursor by a batch moves the position by its size (`NextCursor`). `TrainInv` adds the positions of the
three files of every checkpoint, of the loader and of a step half done.

Of `PipelinedServe`, `AnswersInOrder`: every step of the pipelined loop is a step of `FifoService`
or a stutter, for any number of lines and any length of the queue; this is the safety part of `IsSerial`. The
refinement maps the unanswered lines to four places, one behind the other: the outstanding request, the line in
hand, the queue and the pipe. `ServeInv` says what makes them one line: nothing is outstanding when a line gets
its own slot (`LoopInv`), and the sentinel is put once, behind every line, by a reader that has ended (`ReaderInv`).
Most steps only move the boundary between two places; the lemma `FourIs` says so of sequences.

`SequenceLemmas` holds what these proofs share. The library's induction theorems take an operator as a
parameter, which the provers cannot instantiate; `ReachesEnd` replaces them by a fact about a
*set* of numbers (one that holds 0 and is closed under adding 1 up to n holds n, by the pigeonhole
principle of `FiniteSetTheorems`), and `Recursion` obtains from it that a recursively defined function exists. `ReachesSubsets`
and `SetRecursion` do the same over finite sets, element by element, and `SmallerSubsets` and `SubsetRecursion` where a
set is decided from any of its smaller subsets; `CourseRecursion` is for what is decided from all smaller numbers. With these, what `FlattenSeq`, `SumFunction`, the list of
wildlife placements and the trainer's rounds compute is proved for every input; `SumTakes` is that the order in which
a sum is taken does not matter.

Only model-checked is what must eventually happen: `CallReturns`,
`CallsReturn`, `EndsWithItsUsers`, `SubmittedCompletes`, `CatalogDelivered`, `SuggestReturns` and
the fairness part of `IsSerial`. Out of the prover's reach altogether are liveness under fairness
and `ENABLED`. No module declares a RECURSIVE operator; recursion is written as a function or a fold.

## 8. Findings, and what is not modelled

Findings (details and quotations in `PROJECT.json`):

1. `bridge_desync`: after an error line, a pipelined bridge forgets requests the live child still
   answers, and stays one line behind.
2. `cluster_cancel`: cancelling after a reconnect misses a job that was submitted and
   not recorded.
3. `api_history`: a write that fails part way leaves a fragment the next sample is appended to,
   and the server that starts later refuses its own file.
4. `fleet_torn`: a solver that outlives its killed pipeline and the relaunched one share a
   temporary name, and a torn chunk is published.
5. `training_passes`: the cap on passes over the corpus counts a batch per step, while a step
   trains `grad_accum` of them.

Not modelled, inside modelled components:

- **Engine and board.** Public previews and afterstates, redeterminisation, drafts dropped by
  `accept_draft`, the habitat bonuses of several players.
- **Bridge.** The handshake, the un-batched fallback, packed encodings, a session owned by one
  worker, and a shell between the bridge and the model that outlives the kill. A write that blocks
  is one of whole rows, and a child that is read too late never fills its own output pipe, as a reader
  thread empties it.
- **Cluster map.** A state file whose write fails (the handle goes on, and two jobs may be without a
  name), a submission whose reply is lost, two live handles that overwrite one state file, `wait` on a
  cancelled request whose items were never admitted, which never returns; unmanaged requests and
  results. One pass over the items of `_advance_admission` counts all jobs in one step: jobs
  only become terminal, so counting them one by one can only count fewer as active than
  a snapshot at the beginning, and at least as many as a snapshot at the end. A reply of the bridge to all
  jobs of a request is one step for a like reason: no other thread reads those channels but the workers
  they belong to.
- **Fleet.** One pass of the watchdog at a time, which the code does not enforce; other hosts, an inspection or
  a launch that ssh loses, disk checks, pids that are used again, the deep validation of chunks. A name of a launch is
  used again once everything of it has ended. A pipeline told to stop takes one step for it: that it may still wait
  for its worker when the next pass signals it an hour later, and then dies without its trap, which resets itself
  first (`fleet_all_wildlife_fixed_count_candidates_pipeline.sh:49`), is left out, as a solver dies of the signal
  at once. A second writer may leave the tail of
  the first one's text ("mixed"), as `elapsed_seconds` changes its length. Copying and collecting a stage is one
  step, as nothing but the script writes the central directory while it runs. Heartbeats of an orphan
  are taken to go on while it runs.
- **Host lock.** `caffeinate` and the event log. A killed wrapper's command runs on beside the next workload, which
  `RunsAlone` excepts, as nothing in the code prevents it; that a run without a timeout gives up when it meets the
  probe of `status` is in the model and no property forbids it. **Seed pool.** Building tensors and games, test-time
  averaging and fallback evaluations.
- **Trainer.** Losses, tensors, overfitting one batch; settings changed on a resume, which only print a
  warning; what a resume makes of a checkpoint of `best_locked_val` whose members
  are of two saves. The code takes it; `TrainsTheStream` excepts such runs (`torn`), since nothing in
  the repository says what should happen. A resume also takes `best_metric` from the checkpoint it
  loaded, so a worse model may replace the best one, and loses the snapshots of the
  average and the count of guard failures.
- **Web server.** The collector's calls to the cluster, action listings, static files.

Not modelled as components: numeric code (search, simulation, datasets, tensor layout, benchmarks,
reports and most of the training code) is a deterministic function of large floating-point
inputs, and is by far the greatest part of the repository's lines; the model of it would be the code
again. The cluster protocol and the storage scripts are HTTP and S3 calls with validation, taken
as an external service; the web application is a user interface over a stateless API. The
models therefore cover a small share of the repository's lines: those that keep state, run
concurrently, survive failures, or compute the same value in two ways.
