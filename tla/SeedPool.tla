------------------------------ MODULE SeedPool ------------------------------
(***************************************************************************)
(* The exporter's work pool: run_dynamic_seed_workers of real-root-        *)
(* exporter's main.rs gives the seeds of an export to worker threads, and  *)
(* each plays the game of a seed by having the rows of its decisions       *)
(* evaluated.  A worker has a bridge to the model and a cache of           *)
(* evaluations, both for all its seeds.                                    *)
(*                                                                         *)
(* A row is its key: equal keys have equal requests.  An evaluation is     *)
(* named by its row.  Whatever fails in a game makes the seed a skipped    *)
(* one; making a worker, or the shard of a game, may fail and stop the     *)
(* pool.                                                                   *)
(***************************************************************************)
EXTENDS Naturals, Sequences, FiniteSets, SequencesExt

CONSTANTS
  MaxWorkers,  \* --model-sessions
  Games,       \* Games[i]: the batches of rows the game of the i-th seed asks for
  CacheLimit,  \* EVAL_ROW_CACHE_MAX_ENTRIES
  MaxFailures  \* bound on what fails

ASSUME PoolAssumption ==
  /\ {MaxWorkers, MaxFailures} \subseteq Nat
  /\ CacheLimit \in Nat \ {0}
  /\ Games \in Seq(Seq(Seq(Nat) \ {<<>>}))

VARIABLES
  next,     \* next_seed_index
  failed,
  thread,   \* "init", "check", "take", "play", "ok", "error" or "panic"
  seed,     \* the seed a worker plays, and the batch it is at
  batch,
  cache,    \* the evaluations a worker keeps: row -> evaluation
  played,   \* what its last batch asked for and got
  outputs,  \* the seeds a worker has an output for
  skipped,  \* generation_skipped_seeds
  failures

poolVars == <<next, failed, thread, seed, batch, cache, played, outputs, skipped, failures>>

Least(m, n) == IF m < n THEN m ELSE n
Greatest(m, n) == IF m < n THEN n ELSE m
Seeds == 1..Len(Games)
Workers == 1..Least(Greatest(MaxWorkers, 1), Len(Games))

PoolInit ==
  /\ next = 1
  /\ failed = FALSE
  /\ thread = [w \in Workers |-> "init"]
  /\ seed = [w \in Workers |-> 0]
  /\ batch = [w \in Workers |-> 1]
  /\ cache = [w \in Workers |-> << >>]
  /\ played = [w \in Workers |-> <<<<>>, <<>>>>]
  /\ outputs = [w \in Workers |-> <<>>]
  /\ skipped = {}
  /\ failures = 0

To(w, place) == thread' = [thread EXCEPT ![w] = place]

-----------------------------------------------------------------------------
(* The threads.                                                             *)

Initialize(w) ==
  /\ thread[w] = "init"
  /\ To(w, "check")
  /\ UNCHANGED <<next, failed, seed, batch, cache, played, outputs, skipped, failures>>

SeesFailure(w) ==
  /\ thread[w] = "check"
  /\ failed
  /\ To(w, "ok")
  /\ UNCHANGED <<next, failed, seed, batch, cache, played, outputs, skipped, failures>>

SeesNoFailure(w) ==
  /\ thread[w] = "check"
  /\ ~failed
  /\ To(w, "take")
  /\ UNCHANGED <<next, failed, seed, batch, cache, played, outputs, skipped, failures>>

\* Wrong: the seed is read and the queue advanced in two steps.
TakeUnguarded(w) ==
  /\ thread[w] = "take"
  /\ next' \in {next, next + 1}
  /\ IF next \in Seeds
     THEN /\ seed' = [seed EXCEPT ![w] = next]
          /\ batch' = [batch EXCEPT ![w] = 1]
          /\ To(w, "play")
     ELSE To(w, "ok") /\ UNCHANGED <<seed, batch>>
  /\ UNCHANGED <<failed, cache, played, outputs, skipped, failures>>

Take(w) ==
  /\ thread[w] = "take"
  /\ next' = next + 1
  /\ IF next \in Seeds
     THEN /\ seed' = [seed EXCEPT ![w] = next]
          /\ batch' = [batch EXCEPT ![w] = 1]
          /\ To(w, "play")
     ELSE To(w, "ok") /\ UNCHANGED <<seed, batch>>
  /\ UNCHANGED <<failed, cache, played, outputs, skipped, failures>>

Finish(w) ==
  /\ outputs' = [outputs EXCEPT ![w] = Append(@, seed[w])]
  /\ seed' = [seed EXCEPT ![w] = 0]
  /\ To(w, "check")

-----------------------------------------------------------------------------
(* evaluate_rows_deduped: rows that are not cached are sent once each, in   *)
(* the order they first occur; a cache at its limit is emptied whole, which *)
(* may happen between two insertions.                                       *)

Unique(rows, kept) ==
  LET sent[i \in 0..Len(rows)] ==
        IF i = 0 THEN <<>>
        ELSE IF rows[i] \in DOMAIN kept \cup ToSet(sent[i - 1]) THEN sent[i - 1]
        ELSE Append(sent[i - 1], rows[i])
  IN sent[Len(rows)]

Insert(kept, row, eval) ==
  LET base == IF Cardinality(DOMAIN kept) >= CacheLimit THEN << >> ELSE kept
  IN [r \in DOMAIN base \cup {row} |-> IF r = row THEN eval ELSE base[r]]

InsertAll(kept, sent, evals) ==
  LET filled[i \in 0..Len(sent)] ==
        IF i = 0 THEN kept ELSE Insert(filled[i - 1], sent[i], evals[i])
  IN filled[Len(sent)]

\* Wrong: every row is served from the cache once the new ones are in it.
FanOutOfCache(rows, kept, sent, evals) ==
  LET all == InsertAll(kept, sent, evals)
  IN [i \in 1..Len(rows) |-> IF rows[i] \in DOMAIN all THEN all[rows[i]] ELSE 0]

\* Cached evaluations are copied before anything is inserted.
FanOut(rows, kept, sent, evals) ==
  [i \in 1..Len(rows) |->
     IF rows[i] \in DOMAIN kept THEN kept[rows[i]]
     ELSE evals[CHOOSE j \in 1..Len(sent) : sent[j] = rows[i]]]

\* The bridge returns the evaluations of the rows it was sent: see SharedBridge.
EvaluateBatch(w) ==
  /\ thread[w] = "play"
  /\ batch[w] <= Len(Games[seed[w]])
  /\ LET rows == Games[seed[w]][batch[w]]
         sent == Unique(rows, cache[w])
         evals == sent
     IN /\ played' = [played EXCEPT ![w] = <<rows, FanOut(rows, cache[w], sent, evals)>>]
        /\ cache' = [cache EXCEPT ![w] = InsertAll(@, sent, evals)]
  /\ batch' = [batch EXCEPT ![w] = @ + 1]
  /\ UNCHANGED <<next, failed, thread, seed, outputs, skipped, failures>>

GameOver(w) ==
  /\ thread[w] = "play"
  /\ batch[w] > Len(Games[seed[w]])
  /\ Finish(w)
  /\ UNCHANGED <<next, failed, batch, cache, played, skipped, failures>>

-----------------------------------------------------------------------------
(* What fails.                                                              *)

Failure == failures < MaxFailures /\ failures' = failures + 1

\* The game fails: its seed is skipped, with an empty shard for an output.
SkipSeed(w) ==
  /\ thread[w] = "play"
  /\ skipped' = skipped \cup {seed[w]}
  /\ Finish(w)
  /\ Failure
  /\ UNCHANGED <<next, failed, batch, cache, played>>

\* The worker cannot be made, or the shard cannot.
Err(w) ==
  /\ thread[w] \in {"init", "play"}
  /\ failed' = TRUE
  /\ To(w, "error")
  /\ Failure
  /\ UNCHANGED <<next, seed, batch, cache, played, outputs, skipped>>

Panic(w) ==
  /\ thread[w] \in {"init", "play"}
  /\ To(w, "panic")
  /\ Failure
  /\ UNCHANGED <<next, failed, seed, batch, cache, played, outputs, skipped>>

WorkerStep(w) ==
  \/ Initialize(w) \/ SeesFailure(w) \/ SeesNoFailure(w) \/ Take(w)
  \/ EvaluateBatch(w) \/ GameOver(w) \/ SkipSeed(w) \/ Err(w) \/ Panic(w)

PoolNext == \E w \in Workers : WorkerStep(w)

PoolSpec == PoolInit /\ [][PoolNext]_poolVars

\* What the pool returns once all threads are joined.
Joined == \A w \in Workers : thread[w] \in {"ok", "error", "panic"}
Result ==
  IF \E w \in Workers : thread[w] # "ok" THEN "error"
  ELSE IF Len(FlattenSeq([w \in Workers |-> outputs[w]])) # Len(Games) THEN "short" ELSE "ok"

-----------------------------------------------------------------------------
(* Properties.                                                              *)

\* No seed is played twice, and the pool never ends short without an error: it
\* returns an output for every seed or the error of a thread.
SeedsAccounted ==
  LET all == FlattenSeq([w \in Workers |-> outputs[w]]) IN
    /\ \A i, j \in DOMAIN all : all[i] = all[j] => i = j
    /\ Joined => Result # "short"
    /\ Joined /\ Result = "ok" => ToSet(all) = Seeds

\* A decision sees the evaluations of its own rows, in order, whatever was
\* deduplicated, cached or thrown out of the cache.
OwnRows == \A w \in Workers : played[w][1] = played[w][2]
=============================================================================
