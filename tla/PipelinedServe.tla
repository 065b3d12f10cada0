--------------------------- MODULE PipelinedServe ---------------------------
(***************************************************************************)
(* _serve_pipeline_loop of torch_inference_bridge.py: a reader thread puts *)
(* the lines of stdin into a bounded queue, and the main loop overlaps the *)
(* host work of request N+1 with the device work of request N, one request *)
(* deep, while it answers strictly in order.                               *)
(***************************************************************************)
EXTENDS Naturals, Sequences

CONSTANTS
  MaxLines,  \* bound: lines the client writes
  QueueMax   \* _PIPELINE_QUEUE_MAXSIZE, 4 in the code

ASSUME QueueAssumption == MaxLines \in Nat /\ QueueMax \in Nat \ {0}

VARIABLES
  written, closed,  \* the client's side of stdin
  stdin,            \* lines in the pipe
  reader,           \* the reader thread: "reading", "ending" or "done"
  broken,           \* the stdin iterator raised
  queue,            \* line_queue
  phase,            \* the main loop: "take", "prepare", "drain", "handle", "stopped"
  line,             \* the line taken: message and prepared
  pendingError,     \* preparing it failed
  outstanding,      \* the launched request, or NoLine
  output

pipeVars == <<written, closed, stdin>>
readerVars == <<reader, broken>>
loopVars == <<phase, line, pendingError, outstanding, output>>
serveVars == <<pipeVars, readerVars, queue, loopVars>>

Kinds == {"batch", "inline", "shutdown", "malformed"}
NoLine == [id |-> 0, kind |-> "none"]
Eof == [id |-> 0, kind |-> "eof"]

ServeInit ==
  /\ written = 0 /\ closed = FALSE /\ stdin = <<>>
  /\ reader = "reading" /\ broken = FALSE
  /\ queue = <<>>
  /\ phase = "take"
  /\ line = NoLine
  /\ pendingError = FALSE
  /\ outstanding = NoLine
  /\ output = <<>>

-----------------------------------------------------------------------------
(* The client and the reader thread, a daemon that ends with the process.   *)

Running == phase # "stopped"

Write ==
  /\ Running /\ ~closed
  /\ written < MaxLines
  /\ written' = written + 1
  /\ \E k \in Kinds : stdin' = Append(stdin, [id |-> written + 1, kind |-> k])
  /\ UNCHANGED <<closed, readerVars, queue, loopVars>>

Close ==
  /\ ~closed
  /\ closed' = TRUE
  /\ UNCHANGED <<written, stdin, readerVars, queue, loopVars>>

\* line_queue.put blocks while the queue is full.
ReadLine ==
  /\ Running /\ reader = "reading"
  /\ stdin # <<>>
  /\ Len(queue) < QueueMax
  /\ queue' = Append(queue, Head(stdin))
  /\ stdin' = Tail(stdin)
  /\ UNCHANGED <<written, closed, readerVars, loopVars>>

ReadEnds ==
  /\ Running /\ reader = "reading"
  /\ stdin = <<>> /\ closed
  /\ reader' = "ending"
  /\ UNCHANGED <<pipeVars, broken, queue, loopVars>>

ReadRaises ==
  /\ Running /\ reader = "reading"
  /\ reader' = "ending"
  /\ broken' = TRUE
  /\ UNCHANGED <<pipeVars, queue, loopVars>>

\* The sentinel is put in any case; wrong when a failed read skips it.
PutEofUnlessBroken ==
  /\ Running /\ reader = "ending"
  /\ Len(queue) < QueueMax
  /\ queue' = IF broken THEN queue ELSE Append(queue, Eof)
  /\ reader' = "done"
  /\ UNCHANGED <<pipeVars, broken, loopVars>>

PutEof ==
  /\ Running /\ reader = "ending"
  /\ Len(queue) < QueueMax
  /\ queue' = Append(queue, Eof)
  /\ reader' = "done"
  /\ UNCHANGED <<pipeVars, broken, loopVars>>

-----------------------------------------------------------------------------
(* The main loop.                                                           *)

Respond(l, ok) == output' = Append(output, [of |-> l.id, ok |-> ok])

\* finalize_outstanding may fail on its own.
Finalize ==
  /\ \E ok \in BOOLEAN : Respond(outstanding, ok)
  /\ outstanding' = NoLine

\* get_nowait while a request is outstanding, get otherwise.
Take ==
  /\ phase = "take"
  /\ queue # <<>>
  /\ line' = Head(queue)
  /\ queue' = Tail(queue)
  /\ phase' = IF Head(queue) = Eof THEN "drain" ELSE "prepare"
  /\ UNCHANGED <<pipeVars, readerVars, pendingError, outstanding, output>>

\* Wrong: blocks for the next line and holds the response of this one.
HoldResponse == FALSE /\ UNCHANGED serveVars

NothingBuffered ==
  /\ phase = "take"
  /\ queue = <<>>
  /\ outstanding # NoLine
  /\ Finalize
  /\ UNCHANGED <<pipeVars, readerVars, queue, phase, line, pendingError>>

\* Wrong: a failed line is answered at once, ahead of the outstanding request.
PrepareAnswersError ==
  /\ phase = "prepare"
  /\ \/ /\ line.kind # "malformed"
        /\ phase' = "drain"
        /\ UNCHANGED <<line, output>>
     \/ /\ line.kind \in {"batch", "malformed"}
        /\ phase' = "take"
        /\ line' = NoLine
        /\ Respond(line, FALSE)
  /\ UNCHANGED <<pipeVars, readerVars, queue, pendingError, outstanding>>

\* Phase A: decode and, for a batch, collate; an exception is kept for later.
Prepare ==
  /\ phase = "prepare"
  /\ pendingError' \in CASE line.kind = "malformed" -> {TRUE}
                        [] line.kind = "batch" -> BOOLEAN
                        [] OTHER -> {FALSE}
  /\ phase' = "drain"
  /\ UNCHANGED <<pipeVars, readerVars, queue, line, outstanding, output>>

\* Phase B: the outstanding request is answered before anything of this line.
Drain ==
  /\ phase = "drain"
  /\ IF outstanding = NoLine THEN UNCHANGED <<outstanding, output>> ELSE Finalize
  /\ phase' = "handle"
  /\ UNCHANGED <<pipeVars, readerVars, queue, line, pendingError>>

\* Phase C: the line's own slot.
Handled(next) ==
  /\ phase' = next
  /\ line' = NoLine
  /\ pendingError' = FALSE
  /\ UNCHANGED <<pipeVars, readerVars, queue>>

AnswerError ==
  /\ phase = "handle" /\ pendingError
  /\ Respond(line, FALSE)
  /\ Handled("take")
  /\ UNCHANGED outstanding

Launch ==
  /\ phase = "handle" /\ ~pendingError /\ line.kind = "batch"
  /\ \/ outstanding' = line /\ UNCHANGED output
     \/ Respond(line, FALSE) /\ UNCHANGED outstanding
  /\ Handled("take")

HandleInline ==
  /\ phase = "handle" /\ line.kind = "inline"
  /\ \E ok \in BOOLEAN : Respond(line, ok)
  /\ Handled("take")
  /\ UNCHANGED outstanding

HandleShutdown ==
  /\ phase = "handle" /\ line.kind = "shutdown"
  /\ Respond(line, TRUE)
  /\ Handled("stopped")
  /\ UNCHANGED outstanding

Exit ==
  /\ phase = "handle" /\ line = Eof
  /\ Handled("stopped")
  /\ UNCHANGED <<outstanding, output>>

Reader == ReadLine \/ ReadEnds \/ PutEof
Loop == Take \/ NothingBuffered \/ Prepare \/ Drain \/ AnswerError \/ Launch
        \/ HandleInline \/ HandleShutdown \/ Exit

ServeNext == Write \/ Close \/ Reader \/ ReadRaises \/ Loop

\* Both threads run; nothing is assumed of the client.
ServeFairness == WF_serveVars(Reader) /\ WF_serveVars(Loop)
ServeSpec == ServeInit /\ [][ServeNext]_serveVars /\ ServeFairness

-----------------------------------------------------------------------------
(* Properties.                                                              *)

\* Lines taken in and not answered, oldest first. The sentinel is not a line.
Held(l) == IF l.id = 0 THEN <<>> ELSE <<l>>
LinesOf(q) == IF q # <<>> /\ q[Len(q)] = Eof THEN SubSeq(q, 1, Len(q) - 1) ELSE q
Readable == IF reader = "reading" THEN stdin ELSE <<>>
Unanswered == Held(outstanding) \o Held(line) \o LinesOf(queue) \o Readable

\* The pipelined loop is a serial loop to its client: same answers, same order,
\* and none waits for a line that has not been written.
Serial == INSTANCE FifoService WITH
  input <- IF Running THEN Unanswered ELSE <<>>, serving <- Running
IsSerial == Serial!Spec
=============================================================================
