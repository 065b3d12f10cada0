------------------------------ MODULE Training ------------------------------
(***************************************************************************)
(* run_training of torch_train_cascadiaformer.py: a process trains the     *)
(* stream of examples batch by batch, validates now and then, writes       *)
(* checkpoints of three files each, and may die at any moment and be       *)
(* resumed from one of them.                                               *)
(*                                                                         *)
(* The weights are the sequence of the examples whose gradients made them, *)
(* the state of optimizer and scheduler the number of their steps, and an  *)
(* example is its place in the stream.  A larger metric is a better one.   *)
(***************************************************************************)
EXTENDS Integers, Sequences

CONSTANTS
  Records,         \* examples of the corpus
  BatchSize, GradAccum,
  RequestedSteps,  \* --steps
  MaxPasses,       \* --max-example-passes, 0 for no cap
  EvalEvery,       \* --eval-every-steps
  SaveEvery,       \* 1000 in the code
  SwaPercent,      \* --swa-fraction
  GuardFailures,   \* --early-stop-selection-guard-failures, 0 for never
  EarlyStopAfter,  \* --early-stop-after-step
  Metrics,         \* values of the selection metric
  MaxCrashes       \* bound

ASSUME TrainingAssumption ==
  /\ {Records, BatchSize, GradAccum, RequestedSteps, EvalEvery, SaveEvery} \subseteq Nat \ {0}
  /\ {MaxPasses, GuardFailures, EarlyStopAfter, MaxCrashes} \subseteq Nat
  /\ SwaPercent \in 0..100
  /\ Metrics \subseteq Nat \ {0} /\ Metrics # {}

Smaller(a, b) == IF a <= b THEN a ELSE b
Larger(a, b) == IF a <= b THEN b ELSE a

Steps == IF MaxPasses = 0 THEN RequestedSteps
         ELSE Smaller(RequestedSteps, Larger(1, (MaxPasses * Records) \div BatchSize))
SwaStart == Larger(1, (Steps * (100 - SwaPercent)) \div 100 + 1)

VARIABLES
  weighted,  \* sources are sampled by weight; otherwise whole epochs are shuffled
  place,     \* of the process: "off", "micro", "apply", "validate", "best", "number", "swa"
  step,      \* the optimizer step, and the micro-batches of it that were taken
  micro,
  weights,   \* the examples trained
  grads,     \* the examples whose gradients are accumulated
  opt,       \* steps of optimizer and scheduler
  loader,    \* the next batch of the DataLoader's workers, 0 without them
  latest,    \* the selection metric of latest_metrics, 0 when there is none
  best,      \* best_metric
  failures,  \* consecutive_selection_guard_failures
  stopping,  \* stop_after_checkpoint
  swa,       \* the steps of the snapshots averaged
  saved,     \* members written of the checkpoint being saved
  files,     \* the checkpoints on disk
  torn,      \* a resume took its members from different saves
  crashes

memory == <<step, micro, weights, grads, opt, loader, latest, best, failures, stopping, swa>>
trainVars == <<weighted, place, memory, saved, files, torn, crashes>>

\* Stems: best_locked_val, swa, and step_ with the step.
Best == 0
Swa == Steps + 1
Stems == 0..(Steps + 1)
Unreadable == [step |-> 0]
Loads(member) == member.step # 0

-----------------------------------------------------------------------------
(* The stream: an example is an epoch and a position in its order, or the  *)
(* draw of a batch.                                                        *)

\* A round of the loop in _batch_indices_for_global_batch: to the end of the batch
\* or of the epoch; a batch may run through more than one epoch.
Round(b) ==
  LET take == Smaller(BatchSize - Len(b.indices), Records - b.position)
      wraps == b.position + take = Records /\ Len(b.indices) + take < BatchSize
  IN  IF Len(b.indices) = BatchSize THEN b
      ELSE [indices |-> b.indices \o [k \in 1..take |-> <<b.epoch, b.position + k - 1>>],
            epoch |-> IF wraps THEN b.epoch + 1 ELSE b.epoch,
            position |-> IF wraps THEN 0 ELSE b.position + take]

\* Every round but the last takes an example, so BatchSize of them are enough.
EpochBatch(g) ==
  LET start == (g - 1) * BatchSize
      after[i \in 0..BatchSize] ==
        IF i = 0 THEN [indices |-> <<>>, epoch |-> start \div Records, position |-> start % Records]
        ELSE Round(after[i - 1])
  IN  after[BatchSize]
WeightedBatch(g) == [k \in 1..BatchSize |-> <<g, k>>]
Indices(g) == IF weighted THEN WeightedBatch(g) ELSE EpochBatch(g).indices

CursorOfBatch(g) ==
  LET b == EpochBatch(g) IN
  IF weighted THEN [batch |-> g + 1]
  ELSE [batch |-> g + 1,
        epoch |-> b.epoch + (IF b.position = Records THEN 1 ELSE 0),
        position |-> b.position % Records]

\* _loader_cursor_for_next_batch and its weighted twin.
CursorForNext(g) ==
  LET start == (g - 1) * BatchSize IN
  IF weighted THEN [batch |-> g]
  ELSE [batch |-> g, epoch |-> start \div Records, position |-> start % Records]

-----------------------------------------------------------------------------
(* Starting.                                                               *)

TrainInit ==
  /\ weighted \in BOOLEAN
  /\ place = "off"
  /\ step = 0 /\ micro = 0
  /\ weights = <<>> /\ grads = <<>> /\ opt = 0 /\ loader = 0
  /\ latest = 0 /\ best = 0 /\ failures = 0 /\ stopping = FALSE
  /\ swa = <<>>
  /\ saved = 0
  /\ files = [t \in Stems |-> [weights |-> Unreadable, state |-> Unreadable, manifest |-> Unreadable]]
  /\ torn = FALSE
  /\ crashes = 0

FirstBatch(s) == (s - 1) * GradAccum + 1

\* The loop is entered at step s, with or without --data-workers.
Enter(s) ==
  /\ place = "off"
  /\ ~Loads(files[Swa].manifest)  \* a finished run is left alone
  /\ place' = "micro"
  /\ step' = s /\ micro' = 0
  /\ grads' = <<>>
  /\ \E useLoader \in BOOLEAN : loader' = IF useLoader THEN FirstBatch(s) ELSE 0
  /\ failures' = 0 /\ stopping' = FALSE
  /\ swa' = <<>>
  /\ UNCHANGED <<weighted, saved, files, crashes>>

OfOneSave(c) == c.weights.step = c.manifest.step /\ c.state.step = c.manifest.step
Loadable(t) ==
  /\ Loads(files[t].manifest) /\ Loads(files[t].weights) /\ Loads(files[t].state)
  /\ files[t].manifest.step < Steps

\* A run is begun afresh when none has left a checkpoint to go on from.
Start ==
  /\ ~\E t \in Stems : Loadable(t)
  /\ Enter(1)
  /\ weights' = <<>> /\ opt' = 0
  /\ latest' = 0 /\ best' = 0
  /\ UNCHANGED torn

\* Wrong: the step of the checkpoint is trained once more.
ResumeAtItsStep(t) ==
  /\ Loadable(t)
  /\ Enter(files[t].manifest.step)
  /\ weights' = files[t].weights.trained
  /\ opt' = files[t].state.opt
  /\ latest' = files[t].state.latest
  /\ best' = files[t].state.latest
  /\ torn' = (torn \/ ~OfOneSave(files[t]))

Resume(t) ==
  /\ Loadable(t)
  /\ Enter(files[t].manifest.step + 1)
  /\ weights' = files[t].weights.trained
  /\ opt' = files[t].state.opt
  /\ latest' = files[t].state.latest
  /\ best' = files[t].state.latest
  /\ torn' = (torn \/ ~OfOneSave(files[t]))

-----------------------------------------------------------------------------
(* A step.                                                                 *)

GlobalBatch == FirstBatch(step) + micro

\* The examples come from the workers, if there are any; the pairs of the path
\* consistency loss are attached by the indices computed here.
Micro ==
  /\ place = "micro"
  /\ LET examples == Indices(IF loader = 0 THEN GlobalBatch ELSE loader)
         pairs == Indices(GlobalBatch) IN
       grads' = grads \o [k \in 1..BatchSize |-> [example |-> examples[k], pair |-> pairs[k]]]
  /\ loader' = IF loader = 0 THEN 0 ELSE loader + 1
  /\ micro' = micro + 1
  /\ place' = IF micro' = GradAccum THEN "apply" ELSE "micro"
  /\ UNCHANGED <<weighted, step, weights, opt, latest, best, failures, stopping, swa,
                 saved, files, torn, crashes>>

Validates == step = 1 \/ step = Steps \/ step % EvalEvery = 0
Numbered == step % SaveEvery = 0 \/ step = Steps

Apply ==
  /\ place = "apply"
  /\ weights' = weights \o grads
  /\ grads' = <<>>
  /\ opt' = opt + 1
  /\ place' = IF Validates THEN "validate" ELSE "number"
  /\ UNCHANGED <<weighted, step, micro, loader, latest, best, failures, stopping, swa,
                 saved, files, torn, crashes>>

\* A metric that fails the selection guard never makes a best checkpoint.
Validate ==
  /\ place = "validate"
  /\ \E metric \in Metrics, passes \in BOOLEAN :
       /\ latest' = metric
       /\ failures' = IF passes THEN 0 ELSE failures + 1
       /\ \/ /\ metric > best /\ passes
             /\ best' = metric
             /\ place' = "best"
          \/ /\ ~(metric > best /\ passes)
             /\ best' = best
             /\ place' = "number"
  /\ stopping' = (GuardFailures > 0 /\ step >= EarlyStopAfter /\ failures' >= GuardFailures)
  /\ swa' = IF step >= SwaStart THEN Append(swa, step) ELSE swa
  /\ UNCHANGED <<weighted, step, micro, weights, grads, opt, loader, saved, files, torn, crashes>>

-----------------------------------------------------------------------------
(* Checkpoints: the weights, the state and the manifest, one after another. *)

Members == <<"weights", "state", "manifest">>
Content(cursor) ==
  [weights |-> [step |-> step, trained |-> weights],
   state |-> [step |-> step, opt |-> opt, latest |-> latest],
   manifest |-> [step |-> step, cursor |-> cursor]]

Saving(stem, cursor) ==
  LET m == Members[saved + 1] IN
  /\ files' = [files EXCEPT ![stem][m] = Content(cursor)[m]]
  /\ saved' = (saved + 1) % 3
  /\ UNCHANGED <<weighted, weights, grads, opt, loader, latest, best, failures, stopping, swa,
                 torn, crashes>>

SaveBest ==
  /\ place = "best"
  /\ Saving(Best, CursorOfBatch(FirstBatch(step) + GradAccum - 1))
  /\ place' = IF saved' = 0 THEN "number" ELSE "best"
  /\ UNCHANGED <<step, micro>>

\* After the numbered checkpoint, if there is one: the next step, or the end.
GoOn ==
  \/ /\ ~stopping /\ step < Steps
     /\ place' = "micro"
     /\ step' = step + 1 /\ micro' = 0
  \/ /\ ~(~stopping /\ step < Steps)
     /\ place' = "swa"
     /\ UNCHANGED <<step, micro>>

SaveNumbered ==
  /\ place = "number" /\ Numbered
  /\ Saving(step, CursorForNext(FirstBatch(step) + GradAccum))
  /\ \/ saved' = 0 /\ GoOn
     \/ saved' # 0 /\ UNCHANGED <<place, step, micro>>

SkipNumbered ==
  /\ place = "number" /\ ~Numbered
  /\ GoOn
  /\ UNCHANGED <<weighted, weights, grads, opt, loader, latest, best, failures, stopping, swa,
                 saved, files, torn, crashes>>

\* The average of the snapshots, or of the last weights alone; it has no state,
\* so no run goes on from it.
SaveSwa ==
  /\ place = "swa"
  /\ \/ /\ saved = 0
        /\ swa' = IF swa = <<>> THEN <<step>> ELSE swa
        /\ files' = [files EXCEPT ![Swa].weights = [step |-> step, averaged |-> swa']]
        /\ saved' = 1
        /\ UNCHANGED place
     \/ /\ saved = 1
        /\ files' = [files EXCEPT ![Swa].manifest =
             [step |-> step, cursor |-> CursorForNext(FirstBatch(step) + GradAccum)]]
        /\ saved' = 0
        /\ place' = "off"
        /\ UNCHANGED swa
  /\ UNCHANGED <<weighted, step, micro, weights, grads, opt, loader, latest, best, failures,
                 stopping, torn, crashes>>

-----------------------------------------------------------------------------
(* The process dies; the file it was writing may be cut.                    *)

InFlight ==
  CASE place = "best" -> {<<Best, Members[saved + 1]>>}
    [] place = "number" /\ Numbered -> {<<step, Members[saved + 1]>>}
    [] place = "swa" -> {<<Swa, IF saved = 0 THEN "weights" ELSE "manifest">>}
    [] OTHER -> {}

Die ==
  /\ place # "off"
  /\ crashes < MaxCrashes
  /\ crashes' = crashes + 1
  /\ \/ UNCHANGED files
     \/ \E f \in InFlight : files' = [files EXCEPT ![f[1]][f[2]] = Unreadable]
  /\ place' = "off"
  /\ saved' = 0
  /\ step' = 0 /\ micro' = 0
  /\ weights' = <<>> /\ grads' = <<>> /\ opt' = 0 /\ loader' = 0
  /\ latest' = 0 /\ best' = 0 /\ failures' = 0 /\ stopping' = FALSE
  /\ swa' = <<>>
  /\ UNCHANGED <<weighted, torn>>

TrainNext ==
  \/ Start \/ \E t \in Stems : Resume(t)
  \/ Micro \/ Apply \/ Validate
  \/ SaveBest \/ SaveNumbered \/ SkipNumbered \/ SaveSwa
  \/ Die

TrainSpec == TrainInit /\ [][TrainNext]_trainVars

-----------------------------------------------------------------------------
(* Properties.                                                              *)

\* The stream as it is meant: one epoch after another, or one draw after another.
Place(n) == IF weighted THEN <<(n - 1) \div BatchSize + 1, ((n - 1) % BatchSize) + 1>>
            ELSE <<(n - 1) \div Records, (n - 1) % Records>>
Stream(n) == [k \in 1..n |-> [example |-> Place(k), pair |-> Place(k)]]
PerStep == BatchSize * GradAccum

\* What the process has trained, and the steps its optimizer has made.
OfTheStream ==
  /\ weights \o grads = Stream(Len(weights \o grads))
  /\ Len(weights) = PerStep * opt
  /\ opt = step - (IF place \in {"micro", "apply"} THEN 1 ELSE 0)

\* The cursor of a checkpoint, computed in two ways, is at the first example that
\* was not trained (deterministic_epoch_position_for_next_unconsumed_microbatch).
NextUntrained(n) ==
  IF weighted THEN [batch |-> (n \div BatchSize) + 1]
  ELSE [batch |-> (n \div BatchSize) + 1,
        epoch |-> Place(n + 1)[1], position |-> Place(n + 1)[2]]
Exact(c) ==
  /\ c.weights.trained = Stream(PerStep * c.manifest.step)
  /\ c.state.opt = c.manifest.step
  /\ c.manifest.cursor = NextUntrained(PerStep * c.manifest.step)

\* However often a run dies and is resumed, it has trained the examples of the
\* stream, each at its place, none twice and none left out, and so has every
\* checkpoint that is of one save; unless a resume met members of two saves
\* (run_training, _GlobalBatchIndexSampler, _save_checkpoint).
TrainsTheStream ==
  ~torn =>
    /\ place # "off" => OfTheStream
    /\ \A t \in Stems \ {Swa} :
         Loads(files[t].manifest) /\ OfOneSave(files[t]) => Exact(files[t])

\* No example is trained more often than the cap says.
PassesCapped ==
  ~weighted /\ MaxPasses > 0 =>
    \A k \in DOMAIN weights : weights[k].example[1] < MaxPasses
=============================================================================
