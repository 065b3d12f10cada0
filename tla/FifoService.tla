----------------------------- MODULE FifoService -----------------------------
(***************************************************************************)
(* The serial serve loop of torch_inference_bridge.py, and what a client   *)
(* of the model process may rely on: every line it writes is answered by   *)
(* one line, in order, until the input ends or a shutdown is answered.     *)
(* One failing request is answered by an error and touches no other.       *)
(***************************************************************************)
EXTENDS Naturals, Sequences

CONSTANT MaxLines  \* bound: lines the client writes

\* What a line asks for: a model-backed eval_batch_request, one of the messages
\* handled inline (a single eval, a hello), a shutdown, or nothing valid.
Kinds == {"batch", "inline", "shutdown", "malformed"}
Lines == [id : 1..MaxLines, kind : Kinds]

VARIABLES
  written,  \* lines the client has written
  closed,   \* the client has closed its end
  input,    \* lines not yet answered, oldest first
  output,   \* the responses: the line each answers, and whether it succeeded
  broken,   \* reading the input failed
  serving

serviceVars == <<written, closed, input, output, broken, serving>>

Init ==
  /\ written = 0
  /\ closed = FALSE
  /\ input = <<>>
  /\ output = <<>>
  /\ broken = FALSE
  /\ serving = TRUE

Write ==
  /\ serving /\ ~closed
  /\ written < MaxLines
  /\ written' = written + 1
  /\ \E k \in Kinds :
       input' = IF broken THEN input ELSE Append(input, [id |-> written + 1, kind |-> k])
  /\ UNCHANGED <<closed, output, broken, serving>>

Close ==
  /\ ~closed
  /\ closed' = TRUE
  /\ UNCHANGED <<written, input, output, broken, serving>>

\* A malformed line can only fail; a shutdown cannot.
Outcomes(line) == CASE line.kind = "malformed" -> {FALSE}
                    [] line.kind = "shutdown" -> {TRUE}
                    [] OTHER -> BOOLEAN

\* What follows an answered shutdown is never read.
Answer ==
  /\ serving
  /\ input # <<>>
  /\ \E ok \in Outcomes(Head(input)) :
       output' = Append(output, [of |-> Head(input).id, ok |-> ok])
  /\ serving' = (Head(input).kind # "shutdown")
  /\ input' = IF serving' THEN Tail(input) ELSE <<>>
  /\ UNCHANGED <<written, closed, broken>>

\* An I/O error on the input counts as its end; what was not read is lost.
ReadFails ==
  /\ serving /\ ~broken
  /\ broken' = TRUE
  /\ \E n \in 0..Len(input) : input' = SubSeq(input, 1, n)
  /\ UNCHANGED <<written, closed, output, serving>>

EndOfInput ==
  /\ serving
  /\ closed \/ broken
  /\ input = <<>>
  /\ serving' = FALSE
  /\ UNCHANGED <<written, closed, input, output, broken>>

Next == Write \/ Close \/ Answer \/ ReadFails \/ EndOfInput

Spec == Init /\ [][Next]_serviceVars /\ WF_serviceVars(Answer \/ EndOfInput)
=============================================================================
