---------------------------- MODULE ChampionSlot ----------------------------
(***************************************************************************)
(* Champion suggestions of the web server: cascadia-api/src/champion.rs    *)
(* keeps one child process, the suggest server of real-root-exporter's     *)
(* main.rs, behind a mutex.  A caller spawns it when there is none, waits  *)
(* for its first line, writes one request and reads one response line,     *)
(* which carries an id that nobody compares.  After any error the child is *)
(* killed and its pipes are dropped with it.                               *)
(*                                                                         *)
(* A request stands for the game in it.  The child may answer with an      *)
(* error, print a line that is no response, exit, or hang.                 *)
(***************************************************************************)
EXTENDS Naturals, Sequences

CONSTANTS
  Callers,   \* blocking tasks that run suggest
  MaxCalls,  \* bound on the calls of each
  MaxNoise   \* bound on unexpected lines of the child

ASSUME ChampionAssumption == {MaxCalls, MaxNoise} \subseteq Nat

VARIABLES
  caller,  \* what c does: "away", "queued", "handshake", "write" or "read"
  calls,   \* how many calls c has made
  got,     \* what its last call returned
  slot,    \* the slot holds a client
  child,   \* "none", "starting", "up", "hung" or "exited"
  stdin,   \* requests the child has not answered
  stdout,  \* its lines not read yet
  noise

childVars == <<child, stdin, stdout, noise>>
slotVars == <<caller, calls, got, slot, childVars>>

Request(c) == <<c, calls[c]>>
Ready == "suggest_ready"
Line(kind, r) == [type |-> kind, of |-> r]
Nothing == Line("none", <<>>)
Error == Line("error", <<>>)

SlotInit ==
  /\ caller = [c \in Callers |-> "away"]
  /\ calls = [c \in Callers |-> 0]
  /\ got = [c \in Callers |-> Nothing]
  /\ slot = FALSE
  /\ child = "none"
  /\ stdin = <<>>
  /\ stdout = <<>>
  /\ noise = 0

-----------------------------------------------------------------------------
(* The callers.                                                             *)

Locked == \E c \in Callers : caller[c] \notin {"away", "queued"}

Suggest(c) ==
  /\ caller[c] = "away"
  /\ calls[c] < MaxCalls
  /\ caller' = [caller EXCEPT ![c] = "queued"]
  /\ calls' = [calls EXCEPT ![c] = @ + 1]
  /\ got' = [got EXCEPT ![c] = Nothing]
  /\ UNCHANGED <<slot, childVars>>

UseClient(c) ==
  /\ caller[c] = "queued" /\ ~Locked
  /\ slot
  /\ caller' = [caller EXCEPT ![c] = "write"]
  /\ UNCHANGED <<calls, got, slot, childVars>>

Spawn(c) ==
  /\ caller[c] = "queued" /\ ~Locked
  /\ ~slot
  /\ caller' = [caller EXCEPT ![c] = "handshake"]
  /\ child' = "starting"
  /\ stdin' = <<>> /\ stdout' = <<>>
  /\ UNCHANGED <<calls, got, slot, noise>>

Returns(c, what) ==
  /\ caller' = [caller EXCEPT ![c] = "away"]
  /\ got' = [got EXCEPT ![c] = what]

\* Wrong: the error is returned and the client stays in the slot.
FailKeepingClient(c) ==
  /\ Returns(c, Error)
  /\ slot' = (caller[c] # "handshake")
  /\ child' = child /\ stdin' = stdin
  /\ stdout' = IF stdout = <<>> THEN <<>> ELSE Tail(stdout)

\* Drop for ChampionClient kills the child and waits for it.
Fail(c) ==
  /\ Returns(c, Error)
  /\ slot' = FALSE
  /\ child' = "none"
  /\ stdin' = <<>> /\ stdout' = <<>>

ReceiveReady(c) ==
  /\ caller[c] = "handshake"
  /\ stdout # <<>>
  /\ IF Head(stdout).type = Ready
     THEN /\ slot' = TRUE
          /\ caller' = [caller EXCEPT ![c] = "write"]
          /\ stdout' = Tail(stdout)
          /\ UNCHANGED <<got, child, stdin>>
     ELSE Fail(c)
  /\ UNCHANGED <<calls, noise>>

WriteRequest(c) ==
  /\ caller[c] = "write"
  /\ IF child = "exited"
     THEN Fail(c)
     ELSE /\ stdin' = Append(stdin, Request(c))
          /\ caller' = [caller EXCEPT ![c] = "read"]
          /\ UNCHANGED <<got, slot, child, stdout>>
  /\ UNCHANGED <<calls, noise>>

ReadResponse(c) ==
  /\ caller[c] = "read"
  /\ stdout # <<>>
  /\ IF Head(stdout).type = "suggest_response"
     THEN /\ Returns(c, Head(stdout))
          /\ stdout' = Tail(stdout)
          /\ UNCHANGED <<slot, child, stdin>>
     ELSE Fail(c)
  /\ UNCHANGED <<calls, noise>>

\* Wrong: the end of the stream is taken for an empty line.
NeverEnds(c) == FALSE /\ UNCHANGED slotVars

EndOfStream(c) ==
  /\ caller[c] \in {"handshake", "read"}
  /\ stdout = <<>>
  /\ child = "exited"
  /\ Fail(c)
  /\ UNCHANGED <<calls, noise>>

Caller(c) ==
  \/ UseClient(c) \/ Spawn(c) \/ ReceiveReady(c) \/ WriteRequest(c)
  \/ ReadResponse(c) \/ EndOfStream(c)

-----------------------------------------------------------------------------
(* The child.                                                               *)

Start ==
  /\ child = "starting"
  /\ child' = "up"
  /\ stdout' = Append(stdout, Line(Ready, <<>>))
  /\ UNCHANGED <<caller, calls, got, slot, stdin, noise>>

\* One line for one request, in order.
Answer ==
  /\ child = "up"
  /\ stdin # <<>>
  /\ stdin' = Tail(stdin)
  /\ \E kind \in {"suggest_response", "suggest_error"} :
       stdout' = Append(stdout, Line(kind, Head(stdin)))
  /\ UNCHANGED <<caller, calls, got, slot, child, noise>>

PrintNoise ==
  /\ child \in {"starting", "up"}
  /\ noise < MaxNoise
  /\ noise' = noise + 1
  /\ stdout' = Append(stdout, Line("noise", <<>>))
  /\ UNCHANGED <<caller, calls, got, slot, child, stdin>>

Exit ==
  /\ child \in {"starting", "up", "hung"}
  /\ child' = "exited"
  /\ UNCHANGED <<caller, calls, got, slot, stdin, stdout, noise>>

Hang ==
  /\ child \in {"starting", "up"}
  /\ child' = "hung"
  /\ UNCHANGED <<caller, calls, got, slot, stdin, stdout, noise>>

Child == Start \/ Answer \/ PrintNoise \/ Exit \/ Hang

SlotNext == Child \/ \E c \in Callers : Suggest(c) \/ Caller(c)

\* Tasks run; as calls are bounded, the mutex goes to each that waits for it. A
\* child that does not hang starts and answers.
SlotFairness ==
  /\ \A c \in Callers : WF_slotVars(Caller(c))
  /\ WF_slotVars(Start) /\ WF_slotVars(Answer)

SlotSpec == SlotInit /\ [][SlotNext]_slotVars /\ SlotFairness

-----------------------------------------------------------------------------
(* Properties.                                                              *)

\* A suggestion is for the game the caller sent, although ids are not compared.
OwnSuggestion ==
  \A c \in Callers : got[c].type = "suggest_response" => got[c].of = Request(c)

\* Every call returns unless the child hangs: there is no timeout.
SuggestReturns ==
  \A c \in Callers : caller[c] = "queued" ~> caller[c] = "away" \/ child = "hung"
=============================================================================
