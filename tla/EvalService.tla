----------------------------- MODULE EvalService -----------------------------
(***************************************************************************)
(* What SharedBridgeClient::eval_batch promises a worker: it blocks for    *)
(* one answer, and the answer is an error or the evaluation of the very    *)
(* rows it asked for.  Calls of different workers are independent.         *)
(***************************************************************************)
EXTENDS Naturals, Sequences

CONSTANTS
  Clients,  \* worker threads
  Menu      \* Menu[c]: the calls c makes, which bounds them; a call is its rows,
            \* and a row is its list of action ids, a number

ASSUME MenuAssumption ==
  \A c \in Clients : Menu[c] \in Seq(Seq(Nat) \ {<<>>})

VARIABLES
  status,  \* worker c is "idle", "waiting" in eval_batch, or "gone"
  call,    \* how many calls c has made
  answer   \* what its reply channel holds

clientVars == <<status, call, answer>>

\* A job is one call; a row of a job is what one result evaluates.
Job(c) == <<c, call[c]>>
RowsOf(job) == Menu[job[1]][job[2]]
Evals(job) == [i \in 1..Len(RowsOf(job)) |-> <<job, i>>]

NoAnswer == [kind |-> "none", evals |-> <<>>]
Failed == [kind |-> "error", evals |-> <<>>]
Ok(evals) == [kind |-> "ok", evals |-> evals]

Init ==
  /\ status = [c \in Clients |-> "idle"]
  /\ call = [c \in Clients |-> 0]
  /\ answer = [c \in Clients |-> NoAnswer]

Call(c) ==
  /\ status[c] = "idle"
  /\ call[c] < Len(Menu[c])
  /\ status' = [status EXCEPT ![c] = "waiting"]
  /\ call' = [call EXCEPT ![c] = @ + 1]
  /\ UNCHANGED answer

\* Several workers may be answered at once.
Waiting(c) == status[c] = "waiting" /\ answer[c] = NoAnswer
Reply ==
  /\ \E R \in SUBSET {c \in Clients : Waiting(c)} :
     \E E \in SUBSET R :
       answer' = [c \in Clients |-> IF c \in E THEN Failed
                                    ELSE IF c \in R THEN Ok(Evals(Job(c))) ELSE answer[c]]
  /\ UNCHANGED <<status, call>>

Return(c) ==
  /\ status[c] = "waiting"
  /\ answer[c] # NoAnswer
  /\ status' = [status EXCEPT ![c] = "idle"]
  /\ answer' = [answer EXCEPT ![c] = NoAnswer]
  /\ UNCHANGED call

\* The worker drops its client.
Leave(c) ==
  /\ status[c] = "idle"
  /\ status' = [status EXCEPT ![c] = "gone"]
  /\ UNCHANGED <<call, answer>>

Next == Reply \/ \E c \in Clients : Call(c) \/ Return(c) \/ Leave(c)

Spec == Init /\ [][Next]_clientVars
=============================================================================
