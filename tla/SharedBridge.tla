---------------------------- MODULE SharedBridge ----------------------------
(***************************************************************************)
(* SharedBridge of real-root-exporter/src/model_bridge.rs: worker threads  *)
(* submit jobs to one aggregator thread, which merges them into requests,  *)
(* writes them to one model process and splits its response lines back to  *)
(* the jobs.  A line carries no request id: it is matched with the oldest  *)
(* unanswered request, and checked against its number of rows and its      *)
(* action ids only.                                                        *)
(*                                                                         *)
(* The model process (FifoService) answers every request by one line, in   *)
(* order: the results, or an error.  It may crash, hang, or be so slow     *)
(* that the read times out.  A write to it, and the wait for its end, have *)
(* no timeout.  A reply to all the jobs of a request is one step.          *)
(***************************************************************************)
EXTENDS EvalService, SequencesExt

CONSTANTS
  MaxRows,   \* shared_row_cap
  Inflight,  \* shared_inflight; 1 is the serial loop
  PipeRows,  \* how many rows the pipe to the process holds unread
  Faults     \* what the model process may do: "error", "timeout", "hang", "crash"

ASSUME BridgeAssumption ==
  /\ MaxRows \in Nat \ {0}
  /\ Inflight \in Nat \ {0}
  /\ PipeRows \in Nat
  /\ Faults \subseteq {"error", "timeout", "hang", "crash"}

VARIABLES
  owner,      \* the SharedBridge value, which holds a sender too, is alive
  jobs,       \* the channel of AggregateJobs
  accepting,
  pc,         \* of the aggregator thread
  batch,      \* the jobs gathered into the next merged request
  pending,    \* requests sent and not yet answered, oldest first
  stdin,      \* requests the process has not yet answered
  unread,     \* how many of them, the last ones, it has not yet read
  lines,      \* its lines not yet received: which request, and whether results
  process     \* "up", "hung", "dying" (killed, still running) or "dead"

aggregatorVars == <<owner, jobs, accepting, pc, batch, pending>>
processVars == <<stdin, unread, lines, process>>
bridgeVars == <<clientVars, aggregatorVars, processVars>>

Pipelining == Inflight > 1
Rows(b) == Len(FlattenSeq([i \in 1..Len(b) |-> RowsOf(b[i])]))
ActionIds(b) == FlattenSeq([i \in 1..Len(b) |-> RowsOf(b[i])])
Results(b) == FlattenSeq([i \in 1..Len(b) |-> Evals(b[i])])
Connected == owner \/ \E c \in Clients : status[c] # "gone"

BridgeInit ==
  /\ Init
  /\ owner = TRUE
  /\ jobs = <<>>
  /\ accepting = TRUE
  /\ pc = "top"
  /\ batch = <<>>
  /\ pending = <<>>
  /\ stdin = <<>>
  /\ unread = 0
  /\ lines = <<>>
  /\ process = "up"

-----------------------------------------------------------------------------
(* The workers.                                                             *)

Submit(c) ==
  /\ Call(c)
  /\ jobs' = Append(jobs, <<c, call'[c]>>)
  /\ UNCHANGED <<owner, accepting, pc, batch, pending, processVars>>

Worker(c) ==
  \/ Submit(c)
  \/ (Return(c) \/ Leave(c)) /\ UNCHANGED <<aggregatorVars, processVars>>

DropBridge ==
  /\ owner
  /\ owner' = FALSE
  /\ UNCHANGED <<clientVars, jobs, accepting, pc, batch, pending, processVars>>

-----------------------------------------------------------------------------
(* The aggregator: gather.                                                  *)

HasCapacity == accepting /\ Len(pending) < Inflight

TakeFirst ==
  /\ pc = "top"
  /\ HasCapacity
  /\ jobs # <<>>
  /\ batch' = <<Head(jobs)>>
  /\ jobs' = Tail(jobs)
  /\ pc' = "gather"
  /\ UNCHANGED <<clientVars, owner, accepting, pending, processVars>>

\* The pipeline is full, or all senders are gone.
NothingToTake ==
  /\ pc = "top"
  /\ ~HasCapacity
  /\ pc' = "reap"
  /\ UNCHANGED <<clientVars, owner, jobs, accepting, batch, pending, processVars>>

\* recv when nothing is outstanding, recv_timeout otherwise. Wrong when it
\* blocks although a response is outstanding.
WindowNeverPasses == FALSE /\ UNCHANGED bridgeVars

WindowPasses ==
  /\ pc = "top"
  /\ HasCapacity
  /\ jobs = <<>>
  /\ pending # <<>>
  /\ Connected
  /\ pc' = "reap"
  /\ UNCHANGED <<clientVars, owner, jobs, accepting, batch, pending, processVars>>

\* Wrong: the end of the channel is taken for an empty one.
HangUpUnnoticed ==
  /\ pc = "top"
  /\ HasCapacity
  /\ jobs = <<>>
  /\ ~Connected
  /\ pc' = "reap"
  /\ UNCHANGED <<clientVars, owner, jobs, accepting, batch, pending, processVars>>

HangUp ==
  /\ pc = "top"
  /\ HasCapacity
  /\ jobs = <<>>
  /\ ~Connected
  /\ accepting' = FALSE
  /\ pc' = "reap"
  /\ UNCHANGED <<clientVars, owner, jobs, batch, pending, processVars>>

GatherJob ==
  /\ pc = "gather"
  /\ Rows(batch) < MaxRows
  /\ jobs # <<>>
  /\ batch' = Append(batch, Head(jobs))
  /\ jobs' = Tail(jobs)
  /\ UNCHANGED <<clientVars, owner, accepting, pc, pending, processVars>>

\* The cap is reached, the window passed, or all senders are gone.
GatherEnds ==
  /\ pc = "gather"
  /\ Rows(batch) >= MaxRows \/ jobs = <<>>
  /\ pc' = "send"
  /\ accepting' = (accepting /\ (Rows(batch) >= MaxRows \/ Connected))
  /\ UNCHANGED <<clientVars, owner, jobs, batch, pending, processVars>>

-----------------------------------------------------------------------------
(* The aggregator: send, receive and reply.                                 *)

\* Every job of the requests rs is told that it failed.
Members(rs) == UNION {ToSet(rs[i]) : i \in DOMAIN rs}
FailJobs(rs) ==
  /\ answer' = [c \in Clients |-> IF Job(c) \in Members(rs) THEN Failed ELSE answer[c]]
  /\ UNCHANGED <<status, call>>

\* The write begins.
Send ==
  /\ pc = "send"
  /\ process # "dead"
  /\ stdin' = Append(stdin, batch)
  /\ unread' = unread + 1
  /\ pc' = "write"
  /\ UNCHANGED <<clientVars, owner, jobs, accepting, batch, pending, lines, process>>

\* It returns when the pipe holds what the process has not read.
Unread == SubSeq(stdin, Len(stdin) - unread + 1, Len(stdin))
Fits == Rows(FlattenSeq(Unread)) <= PipeRows
Written ==
  /\ pc = "write"
  /\ process # "dead"
  /\ Fits
  /\ pending' = Append(pending, batch)
  /\ batch' = <<>>
  /\ pc' = IF Pipelining THEN "top" ELSE "reap"
  /\ UNCHANGED <<clientVars, owner, jobs, accepting, processVars>>

\* Nobody reads the pipe any more.
SendFails ==
  /\ pc \in {"send", "write"}
  /\ process = "dead"
  /\ FailJobs(<<batch>>)
  /\ batch' = <<>>
  /\ pc' = "top"
  /\ UNCHANGED <<owner, jobs, accepting, pending, processVars>>

\* The response stream is positional: a failed read fails every outstanding
\* request. Wrong when the later ones are dropped without a reply.
FailFirst == FailJobs(<<Head(pending)>>) /\ pending' = <<>>

FailAll == FailJobs(pending) /\ pending' = <<>>

\* Demultiplexing: each job takes its number of results off the front.
Share(b, results, i) ==
  SubSeq(results, Rows(SubSeq(b, 1, i - 1)) + 1, Rows(SubSeq(b, 1, i)))
ReplyTo(b, results) ==
  /\ answer' = [c \in Clients |->
       IF Job(c) \in ToSet(b)
       THEN Ok(Share(b, results, CHOOSE i \in DOMAIN b : b[i] = Job(c)))
       ELSE answer[c]]
  /\ UNCHANGED <<status, call>>

\* Wrong: the length of the response is compared and the action ids are not.
Unchecked(line, b) == line.ok /\ Rows(line.of) = Rows(b)

\* recv_eval_batch_response and parse_model_response.
Accepted(line, b) == line.ok /\ ActionIds(line.of) = ActionIds(b)

\* Wrong: an error line is skipped, and the next line read in its place.
ReceiveSkipsErrors ==
  /\ pc = "reap"
  /\ pending # <<>>
  /\ lines # <<>>
  /\ lines' = Tail(lines)
  /\ IF Accepted(Head(lines), Head(pending))
     THEN /\ ReplyTo(Head(pending), Results(Head(lines).of))
          /\ pending' = Tail(pending)
          /\ pc' = "top"
     ELSE UNCHANGED <<clientVars, pending, pc>>
  /\ UNCHANGED <<owner, jobs, accepting, batch, stdin, unread, process>>

Receive ==
  /\ pc = "reap"
  /\ pending # <<>>
  /\ lines # <<>>
  /\ lines' = Tail(lines)
  /\ pc' = "top"
  /\ IF Accepted(Head(lines), Head(pending))
     THEN ReplyTo(Head(pending), Results(Head(lines).of)) /\ pending' = Tail(pending)
     ELSE FailAll
  /\ UNCHANGED <<owner, jobs, accepting, batch, stdin, unread, process>>

\* recv_model_line times out and kills the process; a line may still arrive in
\* between.
TimedOut ==
  /\ "timeout" \in Faults \/ process = "hung"
  /\ pc = "reap"
  /\ pending # <<>>
  /\ lines = <<>>
  /\ process # "dead"
  /\ pc' = "kill"
  /\ UNCHANGED <<clientVars, owner, jobs, accepting, batch, pending, processVars>>

Kill ==
  /\ pc = "kill"
  /\ process' = IF process = "dead" THEN "dead" ELSE "dying"
  /\ FailAll
  /\ pc' = "top"
  /\ UNCHANGED <<owner, jobs, accepting, batch, stdin, unread, lines>>

Disconnected ==
  /\ pc = "reap"
  /\ pending # <<>>
  /\ lines = <<>>
  /\ process = "dead"
  /\ FailAll
  /\ pc' = "top"
  /\ UNCHANGED <<owner, jobs, accepting, batch, processVars>>

\* Nothing is outstanding; when no job can come any more the loop ends and the
\* process is told to shut down. Nothing tells a write of that line which blocks
\* from the wait for the process that follows it: both last until it moves.
Shutdown ==
  /\ pc = "reap"
  /\ pending = <<>>
  /\ pc' = IF accepting THEN "top" ELSE "wait"
  /\ UNCHANGED <<clientVars, owner, jobs, accepting, batch, pending, processVars>>

\* The wait returns.
Ended ==
  /\ pc = "wait"
  /\ process = "dead"
  /\ pc' = "done"
  /\ UNCHANGED <<clientVars, owner, jobs, accepting, batch, pending, processVars>>

Aggregator ==
  \/ TakeFirst \/ NothingToTake \/ WindowPasses \/ HangUp \/ GatherJob \/ GatherEnds
  \/ Send \/ Written \/ SendFails \/ Receive \/ TimedOut \/ Kill \/ Disconnected
  \/ Shutdown \/ Ended

-----------------------------------------------------------------------------
(* The model process.                                                       *)

Running == process \in {"up", "dying"}

Read ==
  /\ Running
  /\ unread > 0
  /\ unread' = unread - 1
  /\ UNCHANGED <<clientVars, aggregatorVars, stdin, lines, process>>

Respond ==
  /\ Running
  /\ unread < Len(stdin)
  /\ \E ok \in {TRUE} \cup (IF "error" \in Faults THEN {FALSE} ELSE {}) :
       lines' = Append(lines, [of |-> Head(stdin), ok |-> ok])
  /\ stdin' = Tail(stdin)
  /\ UNCHANGED <<clientVars, aggregatorVars, unread, process>>

\* It has answered everything and reads the shutdown line.
Exit ==
  /\ process = "up"
  /\ pc = "wait"
  /\ stdin = <<>>
  /\ process' = "dead"
  /\ UNCHANGED <<clientVars, aggregatorVars, stdin, unread, lines>>

\* The last line may be cut short.
Dies ==
  /\ process' = "dead"
  /\ stdin' = <<>>
  /\ unread' = 0
  /\ \/ UNCHANGED lines
     \/ unread < Len(stdin) /\ lines' = Append(lines, [of |-> Head(stdin), ok |-> FALSE])
  /\ UNCHANGED <<clientVars, aggregatorVars>>

Killed == process = "dying" /\ Dies
Crash == "crash" \in Faults /\ process \in {"up", "hung"} /\ Dies

\* It stops reading and answering.
Hang ==
  /\ "hang" \in Faults
  /\ process = "up"
  /\ process' = "hung"
  /\ UNCHANGED <<clientVars, aggregatorVars, stdin, unread, lines>>

Service == Read \/ Respond \/ Exit \/ Killed

BridgeNext ==
  \/ \E c \in Clients : Worker(c)
  \/ DropBridge \/ Aggregator \/ Service \/ Crash \/ Hang

\* The aggregator thread runs, and its timed reads return. The process runs until
\* it hangs or dies, and dies once it is killed. A worker takes its answer.
BridgeSpec ==
  /\ BridgeInit
  /\ [][BridgeNext]_bridgeVars
  /\ WF_bridgeVars(Aggregator)
  /\ WF_bridgeVars(Service)

-----------------------------------------------------------------------------
(* Properties.                                                              *)

\* A worker that waits has its job in exactly one place, and a job in the
\* aggregator's hands always has a worker waiting for it: no reply is forgotten
\* and none is sent twice.
JobsAccountedFor ==
  LET held == jobs \o batch \o FlattenSeq(pending) IN
    /\ IsInjective(held)
    /\ ToSet(held) = {Job(c) : c \in {d \in Clients : Waiting(d)}}

\* What has been sent and not answered, a request that is being written included.
Sent == IF pc = "write" THEN Append(pending, batch) ELSE pending

\* The n-th line to come answers the n-th outstanding request: the contract of
\* send_eval_batch_request. A dead process need not have answered them all.
Outstanding == [i \in 1..Len(lines) |-> lines[i].of] \o stdin
InStep ==
  /\ \A i \in 1..Len(Outstanding) : i <= Len(Sent) => Outstanding[i] = Sent[i]
  /\ process # "dead" => Len(Outstanding) = Len(Sent)

\* Whatever was failed and forgotten, the stream is never ahead of the requests:
\* every outstanding one still has a line to come, in order and after the stale
\* ones, so a read never takes the line of a later request.
NeverAhead == process # "dead" => IsSuffix(Sent, Outstanding)

\* The bridge keeps the promise of eval_batch.
Promise == INSTANCE EvalService
KeepsPromise == Promise!Spec

\* As long as the stream is in step it keeps that promise for calls with the same
\* action ids, too: a job gets the results of its own rows by their place in the
\* request, and no check of ids is needed to tell them apart.
OwnWhileInStep == [][InStep => [Promise!Next]_clientVars]_bridgeVars

\* The aggregator is in one of its two waits without a timeout, for a process that
\* does not move.
Blocked == process = "hung" /\ pc \in {"write", "wait"}

\* Every call returns, whatever the process does and whenever it does it, but for
\* a process that hangs while it is written to. A hung process that is read from is
\* killed, and the calls behind it fail.
CallsReturn == (\A c \in Clients : Waiting(c) ~> ~Waiting(c)) \/ <>[]Blocked

\* When the bridge and all its clients are dropped, the thread tells the process to
\* shut down, sees it end, and ends, in whatever state the last failure left them;
\* but for a process that hangs while it is written to or waited for.
EndsWithItsUsers == (~Connected ~> pc = "done") \/ <>[]Blocked
=============================================================================
