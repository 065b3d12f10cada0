------------------------- MODULE SharedBridgeProofs -------------------------
(***************************************************************************)
(* Proofs about SharedBridge, for any workers, calls, caps and faults: the *)
(* stream of lines never runs ahead of the requests, every job is in one   *)
(* place until its worker has a reply, and every step taken while the      *)
(* stream is in step is one of EvalService or a stutter.                   *)
(***************************************************************************)
EXTENDS SharedBridge, SequenceLemmas

AnyJob == {job \in Clients \X Nat : job[2] \in 1..Len(Menu[job[1]])}
Request == Seq(AnyJob)
Line == [of : Request, ok : BOOLEAN]

Types ==
  /\ call \in [Clients -> Nat]
  /\ jobs \in Seq(AnyJob)
  /\ batch \in Request
  /\ pending \in Seq(Request) /\ stdin \in Seq(Request) /\ unread \in Nat
  /\ lines \in Seq(Line)

\* p is the end of o.
Ends(p, o) == Len(p) <= Len(o) /\ \A i \in 1..Len(p) : p[i] = o[Len(o) - Len(p) + i]

StreamInv == Types /\ (process # "dead" => Ends(Sent, Outstanding))

-----------------------------------------------------------------------------
(* Ends of sequences.                                                       *)

LEMMA AppendFacts ==
  ASSUME NEW S, NEW s \in Seq(S), NEW e \in S
  PROVE  /\ Append(s, e) \in Seq(S)
         /\ Len(Append(s, e)) = Len(s) + 1
         /\ \A i \in 1..Len(s) : Append(s, e)[i] = s[i]
         /\ Append(s, e)[Len(s) + 1] = e
OBVIOUS

LEMMA TailFacts ==
  ASSUME NEW S, NEW s \in Seq(S), s # <<>>
  PROVE  /\ Head(s) = s[1] /\ Head(s) \in S
         /\ Tail(s) \in Seq(S) /\ Len(Tail(s)) = Len(s) - 1 /\ Len(s) > 0
         /\ \A i \in 1..Len(s) - 1 : Tail(s)[i] = s[i + 1]
OBVIOUS

LEMMA SameSeq ==
  ASSUME NEW S, NEW s \in Seq(S), NEW t \in Seq(S),
         Len(s) = Len(t), \A i \in 1..Len(s) : s[i] = t[i]
  PROVE  s = t
OBVIOUS

LEMMA EndsAppend ==
  ASSUME NEW S, NEW p \in Seq(S), NEW o \in Seq(S), NEW e \in S, Ends(p, o)
  PROVE  Ends(Append(p, e), Append(o, e))
<1> DEFINE pe == Append(p, e) oe == Append(o, e)
<1>1. /\ Len(pe) = Len(p) + 1 /\ pe[Len(p) + 1] = e
      /\ \A i \in 1..Len(p) : pe[i] = p[i]
  BY AppendFacts
<1>2. /\ Len(oe) = Len(o) + 1 /\ oe[Len(o) + 1] = e
      /\ \A i \in 1..Len(o) : oe[i] = o[i]
  BY AppendFacts
<1> HIDE DEF pe, oe
<1>3. ASSUME NEW i \in 1..Len(pe) PROVE pe[i] = oe[Len(oe) - Len(pe) + i]
  <2>1. Len(oe) - Len(pe) + i = Len(o) - Len(p) + i
    BY <1>1, <1>2
  <2>2. CASE i = Len(p) + 1
    BY <1>1, <1>2, <2>1, <2>2
  <2>3. CASE i # Len(p) + 1
    <3>1. i \in 1..Len(p) /\ Len(o) - Len(p) + i \in 1..Len(o)
      BY <1>1, <2>3 DEF Ends
    <3> QED BY <1>1, <1>2, <2>1, <3>1 DEF Ends
  <2> QED BY <2>2, <2>3
<1>4. Ends(pe, oe)
  BY <1>1, <1>2, <1>3 DEF Ends
<1> QED BY <1>4 DEF pe, oe

LEMMA EndsTail ==
  ASSUME NEW S, NEW p \in Seq(S), NEW o \in Seq(S), Ends(p, o), p # <<>>
  PROVE  Ends(Tail(p), Tail(o))
BY DEF Ends

LEMMA EndsEmpty == ASSUME NEW S, NEW o \in Seq(S) PROVE Ends(<<>>, o)
BY DEF Ends

LEMMA EndsSuffix ==
  ASSUME NEW S, NEW p \in Seq(S), NEW o \in Seq(S), Ends(p, o)
  PROVE  IsSuffix(p, o)
<1> DEFINE rp == Reverse(p) ro == Reverse(o)
<1>1. rp \in Seq(S) /\ Len(rp) = Len(p) /\ \A i \in 1..Len(p) : rp[i] = p[Len(p) - i + 1]
  BY DEF Reverse
<1>2. ro \in Seq(S) /\ Len(ro) = Len(o) /\ \A i \in 1..Len(o) : ro[i] = o[Len(o) - i + 1]
  BY DEF Reverse
<1>3. ASSUME NEW i \in 1..Len(p) PROVE rp[i] = ro[i]
  <2>1. Len(p) - i + 1 \in 1..Len(p) /\ Len(o) - Len(p) + (Len(p) - i + 1) = Len(o) - i + 1
    OBVIOUS
  <2>2. p[Len(p) - i + 1] = o[Len(o) - i + 1]
    BY <2>1 DEF Ends
  <2> QED BY <1>1, <1>2, <2>2 DEF Ends
<1>4. SubSeq(rp, 1, Len(rp)) = SubSeq(ro, 1, Len(rp))
  <2> HIDE DEF rp, ro
  <2> QED BY <1>1, <1>2, <1>3 DEF Ends
<1> QED BY <1>1, <1>2, <1>4 DEF IsSuffix, IsPrefix, Ends

\* The lines still to come, and the requests still to be answered after them.
LEMMA Stream ==
  ASSUME NEW ls \in Seq(Line), NEW rs \in Seq(Request)
  PROVE  LET o == [i \in 1..Len(ls) |-> ls[i].of] \o rs IN
         /\ o \in Seq(Request)
         /\ Len(o) = Len(ls) + Len(rs)
         /\ \A i \in 1..Len(ls) : o[i] = ls[i].of
         /\ \A i \in 1..Len(rs) : o[Len(ls) + i] = rs[i]
<1> DEFINE ofs == [i \in 1..Len(ls) |-> ls[i].of]
<1>2. \A i \in 1..Len(ls) : ofs[i] = ls[i].of
  OBVIOUS
<1>1. ofs \in Seq(Request) /\ Len(ofs) = Len(ls)
  <2>0. Len(ls) \in Nat /\ \A i \in 1..Len(ls) : ls[i] \in Line
    OBVIOUS
  <2>1. \A r \in Line : r.of \in Request
    BY DEF Line
  <2>2. ofs \in [1..Len(ls) -> Request]
    BY <2>0, <2>1
  <2> QED BY <2>0, <2>2
<1> HIDE DEF ofs
<1> QED BY <1>1, <1>2 DEF ofs

-----------------------------------------------------------------------------
(* The steps.                                                               *)

LEMMA OutstandingType == Types => Outstanding \in Seq(Request)
BY Stream DEF Types, Outstanding

LEMMA SentType == Types => Sent \in Seq(Request)
BY DEF Types, Sent

LEMMA SameStream ==
  ASSUME StreamInv, Types', UNCHANGED <<lines, stdin>>, Sent' = Sent,
         process' # "dead" => process # "dead"
  PROVE  StreamInv'
BY DEF StreamInv, Outstanding, Ends

LEMMA WorkerStep == ASSUME StreamInv, NEW c \in Clients, Worker(c) PROVE StreamInv'
<1>1. Types'
  <2>1. CASE Submit(c)
    BY <2>1 DEF Submit, Call, StreamInv, Types, processVars, AnyJob, Request
  <2>2. CASE Return(c) \/ Leave(c)
    BY <2>2 DEF Worker, Submit, Return, Leave, StreamInv, Types, aggregatorVars, processVars,
       clientVars, Call
  <2> QED BY <2>1, <2>2 DEF Worker
<1> QED
  BY <1>1, SameStream DEF Worker, Submit, aggregatorVars, processVars, Sent

LEMMA GatherStep ==
  ASSUME StreamInv,
         DropBridge \/ TakeFirst \/ NothingToTake \/ WindowPasses \/ HangUp \/ GatherJob
           \/ GatherEnds \/ TimedOut \/ Shutdown \/ Ended
  PROVE  Types' /\ UNCHANGED <<lines, stdin, process>> /\ Sent' = Sent /\ StreamInv'
<1>1. Types'
  <2> USE DEF StreamInv, Types, clientVars, processVars
  <2>1. CASE TakeFirst BY <2>1 DEF TakeFirst, Request
  <2>2. CASE GatherJob BY <2>2 DEF GatherJob, Request
  <2>3. CASE DropBridge BY <2>3 DEF DropBridge
  <2>4. CASE NothingToTake \/ WindowPasses \/ HangUp
    BY <2>4 DEF NothingToTake, WindowPasses, HangUp
  <2>5. CASE GatherEnds \/ TimedOut \/ Shutdown \/ Ended
    BY <2>5 DEF GatherEnds, TimedOut, Shutdown, Ended
  <2> QED BY <2>1, <2>2, <2>3, <2>4, <2>5
<1>2. UNCHANGED <<pending, processVars>> /\ Sent' = Sent
  BY DEF DropBridge, TakeFirst, NothingToTake, WindowPasses, HangUp, GatherJob, GatherEnds,
         TimedOut, Shutdown, Ended, Sent
<1> QED BY <1>1, <1>2, SameStream DEF processVars

\* A request that is sent comes last.
LEMMA StreamGrows ==
  ASSUME Types, Types', stdin' = Append(stdin, batch), lines' = lines
  PROVE  Outstanding' = Append(Outstanding, batch)
<1>1. Outstanding \in Seq(Request) /\ Outstanding' \in Seq(Request) /\ batch \in Request
  BY Stream DEF Types, Outstanding
<1>2. /\ stdin' \in Seq(Request) /\ Len(stdin') = Len(stdin) + 1
      /\ stdin'[Len(stdin) + 1] = batch
      /\ \A i \in 1..Len(stdin) : stdin'[i] = stdin[i]
  BY <1>1, AppendFacts DEF Types
<1>3. lines' = lines
  OBVIOUS
<1>4. Len(Outstanding') = Len(Outstanding) + 1
  <2>1. Len(Outstanding') = Len(lines') + Len(stdin')
    BY Stream DEF Types, Outstanding
  <2>2. Len(Outstanding) = Len(lines) + Len(stdin)
    BY Stream DEF Types, Outstanding
  <2> QED BY <1>2, <1>3, <2>1, <2>2 DEF Types
<1>5. Outstanding'[Len(Outstanding) + 1] = batch
  <2>1. Len(stdin) + 1 \in 1..Len(stdin')
    BY <1>2 DEF Types
  <2>2. Outstanding'[Len(lines') + (Len(stdin) + 1)] = stdin'[Len(stdin) + 1]
    BY <2>1, Stream DEF Types, Outstanding
  <2>3. Len(Outstanding) + 1 = Len(lines') + (Len(stdin) + 1)
    BY <1>3, Stream DEF Types, Outstanding
  <2> QED BY <1>2, <2>2, <2>3
<1>6. ASSUME NEW i \in 1..Len(Outstanding) PROVE Outstanding'[i] = Outstanding[i]
  <2>1. CASE i <= Len(lines)
    BY <1>3, <2>1, Stream DEF Types, Outstanding
  <2>2. CASE i > Len(lines)
    <3>1. i - Len(lines) \in 1..Len(stdin)
      BY <2>2, Stream DEF Types, Outstanding
    <3>2. Outstanding[Len(lines) + (i - Len(lines))] = stdin[i - Len(lines)]
      BY <3>1, Stream DEF Types, Outstanding
    <3>3. Outstanding'[Len(lines) + (i - Len(lines))] = stdin'[i - Len(lines)]
      BY <3>1, <1>2, <1>3, Stream, SMTT(30) DEF Types, Outstanding
    <3> QED BY <1>2, <3>1, <3>2, <3>3, SMTT(30) DEF Types
  <2> QED BY <2>1, <2>2 DEF Types
<1> DEFINE grown == Append(Outstanding, batch)
<1>7. /\ grown \in Seq(Request) /\ Len(grown) = Len(Outstanding) + 1
      /\ \A i \in 1..Len(Outstanding) : grown[i] = Outstanding[i]
      /\ grown[Len(Outstanding) + 1] = batch
  BY <1>1, AppendFacts
<1> HIDE DEF grown
<1>8. Outstanding' = grown
  BY <1>1, <1>4, <1>5, <1>6, <1>7, SameSeq
<1> QED BY <1>8 DEF grown

LEMMA SendStep ==
  ASSUME StreamInv, Send
  PROVE  Types' /\ Sent' = Append(Sent, batch) /\ Outstanding' = Append(Outstanding, batch) /\ StreamInv'
<1>1. /\ stdin' = Append(stdin, batch) /\ unread' = unread + 1
      /\ process # "dead" /\ pc = "send" /\ pc' = "write"
      /\ UNCHANGED <<clientVars, jobs, batch, pending, lines, process>>
  BY DEF Send
<1>2. Types'
  BY <1>1 DEF StreamInv, Types, Request, clientVars
<1>3. Outstanding' = Append(Outstanding, batch)
  BY <1>1, <1>2, StreamGrows DEF StreamInv
<1>4. Sent' = Append(Sent, batch)
  BY <1>1 DEF Sent
<1>5. Ends(Sent', Outstanding')
  BY <1>1, <1>3, <1>4, EndsAppend, OutstandingType, SentType DEF StreamInv, Types
<1> QED BY <1>2, <1>3, <1>4, <1>5 DEF StreamInv

LEMMA WrittenStep ==
  ASSUME StreamInv, Written
  PROVE  Types' /\ UNCHANGED <<lines, stdin, process>> /\ Sent' = Sent /\ StreamInv'
<1>1. /\ pc = "write" /\ pc' # "write" /\ pending' = Append(pending, batch) /\ batch' = <<>>
      /\ UNCHANGED <<call, jobs, stdin, unread, lines, process>>
  BY DEF Written, clientVars, processVars
<1>2. Types' /\ Sent' = Sent
  BY <1>1 DEF StreamInv, Types, Request, Sent
<1> QED BY <1>1, <1>2, SameStream

LEMMA SendFailsStep ==
  ASSUME StreamInv, SendFails
  PROVE  Types' /\ UNCHANGED <<lines, stdin, pending>> /\ process' = "dead" /\ StreamInv'
<1>1. /\ batch' = <<>> /\ process = "dead"
      /\ UNCHANGED <<call, jobs, pending, stdin, unread, lines, process>>
  BY DEF SendFails, FailJobs, processVars
<1>2. Types'
  BY <1>1 DEF StreamInv, Types, Request
<1> QED BY <1>1, <1>2 DEF StreamInv

LEMMA ReplyTypes ==
  ASSUME Types, UNCHANGED <<call, jobs, batch>>,
         pending' \in Seq(Request), stdin' \in Seq(Request), unread' \in Nat, lines' \in Seq(Line)
  PROVE  Types'
BY DEF Types

LEMMA ReceiveStep ==
  ASSUME StreamInv, Receive
  PROVE  Types' /\ Outstanding' = Tail(Outstanding) /\ StreamInv'
<1>1. /\ pending # <<>> /\ lines # <<>> /\ lines' = Tail(lines)
      /\ Sent = pending /\ Sent' = pending'
      /\ UNCHANGED <<call, jobs, batch, stdin, unread, process>>
      /\ pending' = Tail(pending) \/ pending' = <<>>
  BY DEF Receive, ReplyTo, FailAll, FailJobs, Sent
<1>2. Types'
  <2>1. pending' \in Seq(Request)
    <3>1. pending \in Seq(Request) /\ <<>> \in Seq(Request)
      BY DEF StreamInv, Types
    <3>2. Tail(pending) \in Seq(Request)
      BY <1>1, <3>1, TailFacts
    <3> QED BY <1>1, <3>1, <3>2
  <2>2. lines' \in Seq(Line)
    BY <1>1, TailFacts DEF StreamInv, Types
  <2> QED BY <1>1, <2>1, <2>2, ReplyTypes DEF StreamInv, Types
<1>3. Outstanding' = Tail(Outstanding)
  <2>0. /\ Len(lines') = Len(lines) - 1 /\ Len(lines) > 0
        /\ \A i \in 1..Len(lines) - 1 : lines'[i] = lines[i + 1]
    BY <1>1, TailFacts DEF StreamInv, Types
  <2>1. Outstanding \in Seq(Request) /\ Outstanding' \in Seq(Request)
    BY <1>2, Stream DEF StreamInv, Types, Outstanding
  <2>2. Len(Outstanding') = Len(Outstanding) - 1 /\ Len(Outstanding) > 0
    BY <1>1, <1>2, <2>0, Stream DEF StreamInv, Types, Outstanding
  <2>3. ASSUME NEW i \in 1..Len(Outstanding') PROVE Outstanding'[i] = Outstanding[i + 1]
    <3>1. CASE i <= Len(lines')
      BY <1>1, <1>2, <2>0, <3>1, Stream, SMTT(30) DEF StreamInv, Types, Outstanding
    <3>2. CASE i > Len(lines')
      <4>1. stdin' = stdin
        BY <1>1
      <4>2. i - Len(lines') \in 1..Len(stdin)
        BY <1>2, <3>2, <4>1, Stream DEF Types, Outstanding
      <4>3. Outstanding'[Len(lines') + (i - Len(lines'))] = stdin[i - Len(lines')]
        BY <1>2, <4>1, <4>2, Stream DEF Types, Outstanding
      <4>4. Outstanding[Len(lines) + (i - Len(lines'))] = stdin[i - Len(lines')]
        BY <4>2, Stream DEF StreamInv, Types, Outstanding
      <4>5. Len(lines') + (i - Len(lines')) = i /\ Len(lines) + (i - Len(lines')) = i + 1
        BY <2>0, <1>2 DEF StreamInv, Types
      <4> QED BY <4>3, <4>4, <4>5
    <3> QED BY <1>2, <3>1, <3>2 DEF Types
  <2> DEFINE rest == Tail(Outstanding)
  <2>4. /\ rest \in Seq(Request) /\ Len(rest) = Len(Outstanding) - 1
        /\ \A i \in 1..Len(Outstanding) - 1 : rest[i] = Outstanding[i + 1]
    BY <2>1, <2>2, TailFacts
  <2> HIDE DEF rest
  <2>5. Outstanding' = rest
    BY <2>1, <2>2, <2>3, <2>4, SameSeq
  <2> QED BY <2>5 DEF rest
<1>4. process # "dead" => Ends(Sent', Outstanding')
  <2>1. Outstanding' \in Seq(Request)
    BY <1>2, Stream DEF Types, Outstanding
  <2> QED BY <1>1, <1>3, <2>1, EndsTail, EndsEmpty, OutstandingType DEF StreamInv, Types
<1> QED BY <1>1, <1>2, <1>3, <1>4 DEF StreamInv

LEMMA FailStep ==
  ASSUME StreamInv, Kill \/ Disconnected
  PROVE  Types' /\ Sent' = <<>> /\ StreamInv'
<1>1. /\ pending' = <<>> /\ Sent' = <<>> /\ UNCHANGED <<call, jobs, batch, stdin, unread, lines>>
      /\ process' # "dead" => process # "dead"
  BY DEF Kill, Disconnected, FailAll, FailJobs, processVars, Sent
<1>2. Types'
  BY <1>1, ReplyTypes DEF StreamInv, Types
<1>3. Ends(Sent', Outstanding')
  BY <1>1, <1>2, Stream, EndsEmpty DEF Types, Outstanding
<1> QED BY <1>1, <1>2, <1>3 DEF StreamInv

LEMMA RespondStep ==
  ASSUME StreamInv, Respond
  PROVE  Types' /\ Outstanding' = Outstanding /\ Sent' = Sent /\ StreamInv'
<1>1. PICK ok \in BOOLEAN : lines' = Append(lines, [of |-> Head(stdin), ok |-> ok])
  BY DEF Respond
<1>0. stdin # <<>>
  BY DEF Respond, StreamInv, Types
<1>2. /\ stdin # <<>> /\ stdin' = Tail(stdin) /\ Sent' = Sent
      /\ UNCHANGED <<call, jobs, batch, pending, unread, process>>
  BY <1>0 DEF Respond, clientVars, aggregatorVars, Sent
<1>3. Types'
  <2>1. [of |-> Head(stdin), ok |-> ok] \in Line
    BY <1>2 DEF StreamInv, Types, Line
  <2> QED BY <1>1, <1>2, <2>1, ReplyTypes DEF StreamInv, Types
<1>4. Outstanding' = Outstanding
  <2>1. Outstanding \in Seq(Request) /\ Outstanding' \in Seq(Request)
    BY <1>3, Stream DEF StreamInv, Types, Outstanding
  <2>2. Len(Outstanding') = Len(Outstanding)
    BY <1>1, <1>2, <1>3, Stream DEF StreamInv, Types, Outstanding
  <2>3. ASSUME NEW i \in 1..Len(Outstanding) PROVE Outstanding'[i] = Outstanding[i]
    <3>1. CASE i <= Len(lines)
      BY <1>1, <1>2, <1>3, <3>1, Stream DEF StreamInv, Types, Outstanding
    <3>2. CASE i = Len(lines) + 1
      BY <1>1, <1>2, <1>3, <3>2, Stream DEF StreamInv, Types, Outstanding
    <3>3. CASE i > Len(lines) + 1
      BY <1>1, <1>2, <1>3, <3>3, Stream DEF StreamInv, Types, Outstanding
    <3> QED BY <3>1, <3>2, <3>3 DEF StreamInv, Types
  <2> QED BY <2>1, <2>2, <2>3
<1> QED BY <1>2, <1>3, <1>4 DEF StreamInv

LEMMA DiesStep ==
  ASSUME StreamInv, Dies
  PROVE  Types' /\ process' = "dead" /\ Sent' = Sent /\ StreamInv'
<1>1. lines' \in Seq(Line)
  <2>1. CASE UNCHANGED lines BY <2>1 DEF StreamInv, Types
  <2>2. CASE unread < Len(stdin) /\ lines' = Append(lines, [of |-> Head(stdin), ok |-> FALSE])
    <3>1. stdin # <<>>
      BY <2>2 DEF StreamInv, Types
    <3>2. [of |-> Head(stdin), ok |-> FALSE] \in Line
      BY <3>1 DEF StreamInv, Types, Line
    <3> QED BY <2>2, <3>2 DEF StreamInv, Types
  <2> QED BY <2>1, <2>2 DEF Dies
<1>2. Types'
  BY <1>1, ReplyTypes DEF Dies, StreamInv, Types, clientVars, aggregatorVars
<1> QED BY <1>2 DEF Dies, StreamInv, Sent, aggregatorVars

LEMMA ProcessStep ==
  ASSUME StreamInv, Read \/ Exit \/ Hang
  PROVE  Types' /\ UNCHANGED <<lines, stdin>> /\ Sent' = Sent /\ StreamInv'
<1>1. /\ UNCHANGED <<call, jobs, batch, pending, stdin, lines>> /\ Sent' = Sent
      /\ process' # "dead" => process # "dead"
  BY DEF Read, Exit, Hang, clientVars, aggregatorVars, Sent
<1>2. unread' \in Nat
  BY DEF Read, Exit, Hang, StreamInv, Types
<1>3. Types'
  BY <1>1, <1>2 DEF StreamInv, Types
<1> QED BY <1>1, <1>3, SameStream

LEMMA NextStream == StreamInv /\ [BridgeNext]_bridgeVars => StreamInv'
<1> SUFFICES ASSUME StreamInv, [BridgeNext]_bridgeVars PROVE StreamInv'
  OBVIOUS
<1>1. CASE UNCHANGED bridgeVars
  BY <1>1, SameStream DEF bridgeVars, clientVars, aggregatorVars, processVars, StreamInv, Types,
                          Sent
<1> QED
  BY <1>1, WorkerStep, GatherStep, SendStep, WrittenStep, SendFailsStep, ReceiveStep, FailStep,
     RespondStep, ProcessStep, DiesStep
  DEF BridgeNext, Aggregator, Service, Killed, Crash

\* A process that lives always has a line to come for each outstanding request,
\* after those of the requests that were given up: a read takes its own line or an
\* older one, never that of a later request.
THEOREM StreamNeverAhead == BridgeSpec => []NeverAhead
<1>1. BridgeInit => StreamInv
  BY DEF BridgeInit, Init, StreamInv, Types, Ends, Outstanding, Request, Sent
<1>2. StreamInv => NeverAhead
  BY EndsSuffix, OutstandingType, SentType DEF StreamInv, NeverAhead
<1> QED
  BY <1>1, <1>2, NextStream, PTL DEF BridgeSpec

-----------------------------------------------------------------------------
(* Where the jobs are.                                                      *)

WaitingJobs == {Job(c) : c \in {d \in Clients : Waiting(d)}}

\* The jobs of W, once each, in the channel j, the batch b and the requests p.
Split(j, b, p, W) ==
  /\ IsInjective(j) /\ IsInjective(b) /\ IsInjective(p)
  /\ ToSet(j) \cap ToSet(b) = {} /\ ToSet(j) \cap ToSet(p) = {} /\ ToSet(b) \cap ToSet(p) = {}
  /\ ToSet(j) \cup ToSet(b) \cup ToSet(p) = W

\* Only a worker that waits has an answer.
Quiet == \A c \in Clients : status[c] # "waiting" => answer[c] = NoAnswer

Clerk ==
  /\ DOMAIN status = Clients /\ DOMAIN answer = Clients
  /\ Quiet
  /\ pc \notin {"gather", "send", "write"} => batch = <<>>
  /\ Split(jobs, batch, FlattenSeq(pending), WaitingJobs)

LEMMA HeldSplit ==
  ASSUME NEW S, NEW j \in Seq(S), NEW b \in Seq(S), NEW p \in Seq(S), NEW W
  PROVE  IsInjective(j \o b \o p) /\ ToSet(j \o b \o p) = W <=> Split(j, b, p, W)
<1>1. j \o b \in Seq(S)
  OBVIOUS
<1>2. /\ ToSet(j \o b) = ToSet(j) \cup ToSet(b)
      /\ ToSet((j \o b) \o p) = ToSet(j \o b) \cup ToSet(p)
  <2>1. ToSet(j \o b) = ToSet(j) \cup ToSet(b)
    BY ToSetConcat
  <2>2. ToSet((j \o b) \o p) = ToSet(j \o b) \cup ToSet(p)
    <3> DEFINE jb == j \o b
    <3> HIDE DEF jb
    <3>1. ToSet(jb \o p) = ToSet(jb) \cup ToSet(p)
      BY <1>1, ToSetConcat, ZenonT(30) DEF jb
    <3> QED BY <3>1 DEF jb
  <2> QED BY <2>1, <2>2
<1>3. /\ IsInjective(j \o b) <=>
           IsInjective(j) /\ IsInjective(b) /\ ToSet(j) \cap ToSet(b) = {}
      /\ IsInjective((j \o b) \o p) <=>
           IsInjective(j \o b) /\ IsInjective(p) /\ ToSet(j \o b) \cap ToSet(p) = {}
  BY <1>1, InjectiveConcat
<1> QED BY <1>2, <1>3 DEF Split

LEMMA OneElement ==
  ASSUME NEW S, NEW x \in S
  PROVE  <<x>> \in Seq(S) /\ IsInjective(<<x>>) /\ ToSet(<<x>>) = {x}
BY DEF IsInjective, ToSet

LEMMA NoElement == IsInjective(<<>>) /\ ToSet(<<>>) = {}
BY DEF IsInjective, ToSet

\* The head of the channel joins the batch.
LEMMA SplitTake ==
  ASSUME NEW S, NEW j \in Seq(S), NEW b \in Seq(S), NEW p \in Seq(S), NEW W,
         Split(j, b, p, W), j # <<>>
  PROVE  Split(Tail(j), Append(b, Head(j)), p, W)
<1> DEFINE h == <<Head(j)>> t == Tail(j)
<1>1. Head(j) \in S /\ t \in Seq(S) /\ j = h \o t /\ Append(b, Head(j)) = b \o h
  OBVIOUS
<1>2. h \in Seq(S) /\ IsInjective(h)
  BY <1>1, OneElement
<1> HIDE DEF h, t
<1>3. /\ ToSet(j) = ToSet(h) \cup ToSet(t)
      /\ IsInjective(t) /\ ToSet(h) \cap ToSet(t) = {}
  BY <1>1, <1>2, ToSetConcat, InjectiveConcat DEF Split
<1>4. /\ ToSet(b \o h) = ToSet(b) \cup ToSet(h)
      /\ IsInjective(b \o h)
  <2>1. ToSet(b) \cap ToSet(h) = {}
    BY <1>3 DEF Split
  <2> QED BY <1>2, <2>1, ToSetConcat, InjectiveConcat DEF Split
<1>5. Split(t, b \o h, p, W)
  BY <1>3, <1>4 DEF Split
<1> QED BY <1>1, <1>5 DEF t

\* The batch becomes a request.
LEMMA SplitSend ==
  ASSUME NEW S, NEW j \in Seq(S), NEW b \in Seq(S), NEW p \in Seq(S), NEW W, Split(j, b, p, W)
  PROVE  Split(j, <<>>, p \o b, W)
<1>1. ToSet(p \o b) = ToSet(p) \cup ToSet(b) /\ IsInjective(p \o b)
  BY ToSetConcat, InjectiveConcat DEF Split
<1> QED BY <1>1, NoElement DEF Split

\* The batch, or the first of the requests, is answered.
LEMMA SplitDropBatch ==
  ASSUME NEW j, NEW b, NEW p, NEW W, Split(j, b, p, W)
  PROVE  Split(j, <<>>, p, W \ ToSet(b))
BY NoElement DEF Split

LEMMA SplitDropFirst ==
  ASSUME NEW S, NEW j, NEW b, NEW p \in Seq(S), NEW q \in Seq(S), NEW W, Split(j, b, p \o q, W)
  PROVE  Split(j, b, q, W \ ToSet(p))
<1>1. ToSet(p \o q) = ToSet(p) \cup ToSet(q) /\ IsInjective(q) /\ ToSet(p) \cap ToSet(q) = {}
  BY ToSetConcat, InjectiveConcat DEF Split
<1> QED BY <1>1 DEF Split

LEMMA SplitDropAll ==
  ASSUME NEW j, NEW b, NEW p, NEW W, Split(j, b, p, W)
  PROVE  Split(j, b, <<>>, W \ ToSet(p))
BY NoElement DEF Split

\* A new job enters the channel.
LEMMA SplitAdd ==
  ASSUME NEW S, NEW j \in Seq(S), NEW b \in Seq(S), NEW p \in Seq(S), NEW W, Split(j, b, p, W),
         NEW x \in S, x \notin W
  PROVE  Split(Append(j, x), b, p, W \cup {x})
<1>1. Append(j, x) = j \o <<x>>
  OBVIOUS
<1>2. ToSet(j) \cap ToSet(<<x>>) = {}
  BY OneElement DEF Split
<1>3. ToSet(j \o <<x>>) = ToSet(j) \cup {x} /\ IsInjective(j \o <<x>>)
  <2> DEFINE one == <<x>>
  <2>1. one \in Seq(S) /\ IsInjective(one) /\ ToSet(one) = {x}
    BY OneElement
  <2> HIDE DEF one
  <2>2. ToSet(j \o one) = ToSet(j) \cup ToSet(one)
    BY <2>1, ToSetConcat
  <2>3. IsInjective(j \o one)
    BY <1>2, <2>1, InjectiveConcat DEF Split, one
  <2> QED BY <2>1, <2>2, <2>3 DEF one
<1> QED BY <1>1, <1>3 DEF Split

-----------------------------------------------------------------------------
(* A reply takes its jobs, and no others, off the waiting ones.             *)

LEMMA JobOfOne == \A c \in Clients : Job(c) \in WaitingJobs => Waiting(c)
BY DEF Job, WaitingJobs

LEMMA Replied ==
  ASSUME Clerk, NEW S, S \subseteq WaitingJobs, UNCHANGED <<status, call>>,
         \A c \in Clients : IF Job(c) \in S THEN answer'[c] # NoAnswer
                                           ELSE answer'[c] = answer[c]
  PROVE  WaitingJobs' = WaitingJobs \ S /\ Quiet'
<1>1. \A c \in Clients : Job(c)' = Job(c)
  BY DEF Job
<1>2. \A c \in Clients : Waiting(c)' <=> Waiting(c) /\ Job(c) \notin S
  BY DEF Waiting
<1>3. WaitingJobs' = WaitingJobs \ S
  BY <1>1, <1>2 DEF WaitingJobs
<1>4. \A c \in Clients : Job(c) \in S => status[c] = "waiting"
  BY JobOfOne DEF Waiting
<1> QED BY <1>3, <1>4 DEF Clerk, Quiet

LEMMA FailedJobs ==
  ASSUME Clerk, NEW rs, FailJobs(rs), Members(rs) \subseteq WaitingJobs
  PROVE  WaitingJobs' = WaitingJobs \ Members(rs) /\ Quiet' /\ DOMAIN answer' = Clients
<1>1. /\ answer' = [c \in Clients |-> IF Job(c) \in Members(rs) THEN Failed ELSE answer[c]]
      /\ UNCHANGED <<status, call>>
  BY DEF FailJobs
<1>2. Failed # NoAnswer
  BY DEF Failed, NoAnswer
<1> QED BY <1>1, <1>2, Replied

LEMMA RepliedJobs ==
  ASSUME Clerk, NEW b, NEW results, ReplyTo(b, results), ToSet(b) \subseteq WaitingJobs
  PROVE  WaitingJobs' = WaitingJobs \ ToSet(b) /\ Quiet' /\ DOMAIN answer' = Clients
<1> DEFINE own(c) == Ok(Share(b, results, CHOOSE i \in DOMAIN b : b[i] = Job(c)))
<1>1. /\ answer' = [c \in Clients |-> IF Job(c) \in ToSet(b) THEN own(c) ELSE answer[c]]
      /\ UNCHANGED <<status, call>>
  BY DEF ReplyTo
<1>2. \A c \in Clients : own(c) # NoAnswer
  BY DEF Ok, NoAnswer
<1> HIDE DEF own
<1> QED BY <1>1, <1>2, Replied

LEMMA MembersAll ==
  ASSUME NEW rs \in Seq(Request) PROVE Members(rs) = ToSet(FlattenSeq(rs))
BY ToSetFlatten DEF Members, Request

LEMMA FailedAll ==
  ASSUME StreamInv, Clerk, FailAll, UNCHANGED <<jobs, batch>>
  PROVE  /\ Split(jobs', batch', FlattenSeq(pending'), WaitingJobs')
         /\ Quiet' /\ DOMAIN answer' = Clients
<1>0. Members(pending) = ToSet(FlattenSeq(pending)) /\ Members(pending) \subseteq WaitingJobs
  BY MembersAll DEF StreamInv, Types, Clerk, Split
<1>1. /\ WaitingJobs' = WaitingJobs \ ToSet(FlattenSeq(pending))
      /\ Quiet' /\ DOMAIN answer' = Clients /\ pending' = <<>>
  BY <1>0, FailedJobs DEF FailAll
<1>2. Split(jobs, batch, <<>>, WaitingJobs \ ToSet(FlattenSeq(pending)))
  BY SplitDropAll DEF Clerk
<1> QED BY <1>1, <1>2, FlattenEmpty

-----------------------------------------------------------------------------
(* The steps.                                                               *)

LEMMA ClerkSame ==
  ASSUME Clerk, UNCHANGED <<clientVars, jobs, batch, pending>>,
         pc' \notin {"gather", "send", "write"} => batch = <<>>
  PROVE  Clerk'
<1>1. WaitingJobs' = WaitingJobs
  BY DEF WaitingJobs, Waiting, Job, clientVars
<1> QED BY <1>1 DEF Clerk, Quiet, clientVars

LEMMA ClerkWorker ==
  ASSUME StreamInv, Clerk, NEW c \in Clients, Worker(c)
  PROVE  Clerk'
<1>1. CASE Submit(c)
  <2>1. /\ status[c] = "idle" /\ UNCHANGED <<answer, batch, pending, pc>>
        /\ status' = [status EXCEPT ![c] = "waiting"]
        /\ call' = [call EXCEPT ![c] = @ + 1]
        /\ jobs' = Append(jobs, <<c, call'[c]>>)
    BY <1>1 DEF Submit, Call
  <2> DEFINE x == <<c, call'[c]>>
  <2>2. /\ \A d \in Clients \ {c} : Job(d)' = Job(d) /\ status'[d] = status[d]
        /\ Job(c)' = x /\ status'[c] = "waiting" /\ DOMAIN status' = Clients
    BY <2>1 DEF Job, StreamInv, Types, Clerk
  <2>3. x \in AnyJob /\ FlattenSeq(pending) \in Seq(AnyJob)
    <3>1. call[c] < Len(Menu[c]) /\ call[c] \in Nat /\ Len(Menu[c]) \in Nat
      BY <1>1, MenuAssumption DEF Submit, Call, StreamInv, Types
    <3>2. call'[c] = call[c] + 1
      BY <2>1 DEF StreamInv, Types
    <3>3. x \in AnyJob
      BY <3>1, <3>2 DEF AnyJob
    <3> QED BY <3>3, FlattenType DEF StreamInv, Types, Request
  <2>4. x \notin WaitingJobs
    <3>1. \A d \in Clients : Waiting(d) => d # c
      BY <2>1 DEF Waiting
    <3> QED BY <3>1 DEF WaitingJobs, Job
  <2> HIDE DEF x
  <2>5. WaitingJobs' = WaitingJobs \cup {x}
    <3>1. answer[c] = NoAnswer
      BY <2>1 DEF Clerk, Quiet
    <3> QED BY <2>1, <2>2, <3>1 DEF WaitingJobs, Waiting
  <2>6. Split(Append(jobs, x), batch, FlattenSeq(pending), WaitingJobs \cup {x})
    BY <2>3, <2>4, SplitAdd DEF Clerk, StreamInv, Types, Request
  <2>7. Quiet'
    BY <2>1, <2>2 DEF Clerk, Quiet
  <2> QED BY <2>1, <2>2, <2>5, <2>6, <2>7 DEF Clerk, x
<1>2. CASE (Return(c) \/ Leave(c)) /\ UNCHANGED <<aggregatorVars, processVars>>
  <2>1. /\ UNCHANGED <<call, jobs, batch, pending, pc>> /\ ~Waiting(c)
        /\ status' = [status EXCEPT ![c] = status'[c]] /\ status'[c] # "waiting"
        /\ DOMAIN answer' = Clients /\ answer'[c] = NoAnswer
        /\ \A d \in Clients \ {c} : answer'[d] = answer[d]
    <3>1. CASE Return(c)
      BY <1>2, <3>1 DEF Return, aggregatorVars, Waiting, Clerk
    <3>2. CASE Leave(c)
      <4>1. /\ status[c] = "idle" /\ UNCHANGED <<call, answer>>
            /\ status' = [status EXCEPT ![c] = "gone"]
        BY <3>2 DEF Leave
      <4>2. answer[c] = NoAnswer
        BY <4>1 DEF Clerk, Quiet
      <4> QED BY <1>2, <4>1, <4>2 DEF aggregatorVars, Waiting, Clerk
    <3> QED BY <1>2, <3>1, <3>2
  <2>2. \A d \in Clients : Job(d)' = Job(d) /\ (Waiting(d)' <=> Waiting(d))
    BY <2>1 DEF Job, Waiting, Clerk
  <2>3. WaitingJobs' = WaitingJobs
    BY <2>2 DEF WaitingJobs
  <2>4. Quiet'
    BY <2>1 DEF Clerk, Quiet
  <2> QED BY <2>1, <2>3, <2>4 DEF Clerk
<1> QED BY <1>1, <1>2 DEF Worker

LEMMA FlatRequests == Types => FlattenSeq(pending) \in Seq(AnyJob)
BY FlattenType DEF Types, Request

LEMMA ClerkGather ==
  ASSUME StreamInv, Clerk, TakeFirst \/ GatherJob
  PROVE  Clerk'
<1>1. /\ jobs # <<>> /\ batch' = Append(batch, Head(jobs)) /\ jobs' = Tail(jobs)
      /\ UNCHANGED <<clientVars, pending>> /\ pc' \in {"gather", "send"}
  <2>1. CASE TakeFirst
    <3>1. pc = "top" /\ batch = <<>>
      BY <2>1 DEF TakeFirst, Clerk
    <3> QED BY <2>1, <3>1 DEF TakeFirst
  <2>2. CASE GatherJob
    BY <2>2 DEF GatherJob
  <2> QED BY <2>1, <2>2
<1>2. Split(Tail(jobs), Append(batch, Head(jobs)), FlattenSeq(pending), WaitingJobs)
  BY <1>1, FlatRequests, SplitTake DEF Clerk, StreamInv, Types, Request
<1>3. WaitingJobs' = WaitingJobs /\ Quiet'
  BY <1>1 DEF WaitingJobs, Waiting, Job, clientVars, Clerk, Quiet
<1> QED BY <1>1, <1>2, <1>3 DEF Clerk, clientVars

LEMMA ClerkWritten == ASSUME StreamInv, Clerk, Written PROVE Clerk'
<1>1. /\ UNCHANGED <<clientVars, jobs>> /\ batch' = <<>> /\ pending' = Append(pending, batch)
  BY DEF Written
<1>2. FlattenSeq(pending') = FlattenSeq(pending) \o batch
  BY <1>1, FlattenAppend DEF StreamInv, Types, Request
<1>3. Split(jobs, <<>>, FlattenSeq(pending) \o batch, WaitingJobs)
  BY FlatRequests, SplitSend DEF Clerk, StreamInv, Types, Request
<1>4. WaitingJobs' = WaitingJobs /\ Quiet'
  BY <1>1 DEF WaitingJobs, Waiting, Job, clientVars, Clerk, Quiet
<1> QED BY <1>1, <1>2, <1>3, <1>4 DEF Clerk, clientVars

LEMMA ClerkSendFails == ASSUME StreamInv, Clerk, SendFails PROVE Clerk'
<1>1. /\ FailJobs(<<batch>>) /\ batch' = <<>> /\ UNCHANGED <<jobs, pending, status>>
  BY DEF SendFails, FailJobs
<1>2. Members(<<batch>>) = ToSet(batch)
  BY DEF Members
<1>3. /\ WaitingJobs' = WaitingJobs \ ToSet(batch) /\ Quiet' /\ DOMAIN answer' = Clients
  BY <1>1, <1>2, FailedJobs DEF Clerk, Split
<1>4. Split(jobs, <<>>, FlattenSeq(pending), WaitingJobs \ ToSet(batch))
  BY SplitDropBatch DEF Clerk
<1> QED BY <1>1, <1>3, <1>4 DEF Clerk

LEMMA ClerkReceive == ASSUME StreamInv, Clerk, Receive PROVE Clerk'
<1>1. pending # <<>> /\ UNCHANGED <<jobs, batch, status>> /\ pc = "reap" /\ pc' = "top"
  BY DEF Receive, ReplyTo, FailAll, FailJobs
<1>2. batch = <<>>
  BY <1>1 DEF Clerk
<1>3. CASE ReplyTo(Head(pending), Results(Head(lines).of)) /\ pending' = Tail(pending)
  <2> DEFINE h == Head(pending) q == FlattenSeq(Tail(pending))
  <2>1. /\ h \in Seq(AnyJob) /\ q \in Seq(AnyJob) /\ FlattenSeq(pending) = h \o q
    BY <1>1, FlattenTail, FlattenType, TailFacts DEF StreamInv, Types, Request
  <2>2. ToSet(h) \subseteq WaitingJobs
    <3>1. ToSet(h \o q) = ToSet(h) \cup ToSet(q)
      BY <2>1, ToSetConcat
    <3> QED BY <2>1, <3>1 DEF Clerk, Split
  <2>3. /\ WaitingJobs' = WaitingJobs \ ToSet(h) /\ Quiet' /\ DOMAIN answer' = Clients
    BY <1>3, <2>2, RepliedJobs
  <2>4. Split(jobs, batch, q, WaitingJobs \ ToSet(h))
    BY <2>1, SplitDropFirst DEF Clerk
  <2> QED BY <1>1, <1>2, <1>3, <2>3, <2>4 DEF Clerk
<1>4. CASE FailAll
  BY <1>1, <1>2, <1>4, FailedAll DEF Clerk
<1> QED BY <1>3, <1>4 DEF Receive

LEMMA ClerkFail == ASSUME StreamInv, Clerk, Kill \/ Disconnected PROVE Clerk'
<1>1. /\ FailAll /\ UNCHANGED <<jobs, batch, status>>
      /\ pc \notin {"gather", "send", "write"} /\ pc' = "top"
  BY DEF Kill, Disconnected, FailAll, FailJobs
<1> QED BY <1>1, FailedAll DEF Clerk

LEMMA NextClerk == StreamInv /\ Clerk /\ [BridgeNext]_bridgeVars => Clerk'
<1> SUFFICES ASSUME StreamInv, Clerk, [BridgeNext]_bridgeVars PROVE Clerk'
  OBVIOUS
<1>1. CASE UNCHANGED bridgeVars
  BY <1>1, ClerkSame DEF bridgeVars, aggregatorVars, Clerk
<1>2. CASE DropBridge \/ NothingToTake \/ WindowPasses \/ HangUp \/ TimedOut \/ Shutdown \/ Ended
           \/ Service \/ Crash \/ Hang
  <2>1. /\ UNCHANGED <<clientVars, jobs, batch, pending>>
        /\ pc' = pc \/ pc \notin {"gather", "send", "write"}
    BY <1>2 DEF DropBridge, NothingToTake, WindowPasses, HangUp, TimedOut, Shutdown, Ended, Service,
                Read, Respond, Exit, Killed, Crash, Hang, Dies, aggregatorVars
  <2> QED BY <2>1, ClerkSame DEF Clerk
<1>3. CASE GatherEnds \/ Send
  BY <1>3, ClerkSame DEF GatherEnds, Send
<1> QED
  BY <1>1, <1>2, <1>3, ClerkWorker, ClerkGather, ClerkWritten, ClerkSendFails, ClerkReceive,
     ClerkFail
  DEF BridgeNext, Aggregator

LEMMA ClerkStarts == BridgeInit => StreamInv /\ Clerk
<1> SUFFICES ASSUME BridgeInit PROVE StreamInv /\ Clerk
  OBVIOUS
<1>1. StreamInv
  BY DEF BridgeInit, Init, StreamInv, Types, Ends, Outstanding, Request, Sent
<1>2. WaitingJobs = {}
  BY DEF BridgeInit, Init, WaitingJobs, Waiting
<1>3. FlattenSeq(pending) = <<>> /\ Split(<<>>, <<>>, <<>>, {})
  BY FlattenEmpty, NoElement DEF BridgeInit, Split
<1> QED BY <1>1, <1>2, <1>3 DEF BridgeInit, Init, Clerk, Quiet

\* A worker that waits has its job in exactly one place, and each job the aggregator
\* holds has a worker waiting for it: no reply is forgotten and none is sent twice.
THEOREM JobsNeverLost == BridgeSpec => []JobsAccountedFor
<1>1. BridgeInit => StreamInv /\ Clerk
  BY ClerkStarts
<1>2. StreamInv /\ Clerk => JobsAccountedFor
  <2> SUFFICES ASSUME StreamInv, Clerk PROVE JobsAccountedFor
    OBVIOUS
  <2>1. jobs \in Seq(AnyJob) /\ batch \in Seq(AnyJob) /\ FlattenSeq(pending) \in Seq(AnyJob)
    BY FlatRequests DEF StreamInv, Types, Request
  <2> QED BY <2>1, HeldSplit DEF Clerk, JobsAccountedFor, WaitingJobs
<1> QED BY <1>1, <1>2, NextStream, NextClerk, PTL DEF BridgeSpec

-----------------------------------------------------------------------------
(* The share of a job.                                                      *)

RowSeq(b) == [i \in 1..Len(b) |-> RowsOf(b[i])]
EvalSeq(b) == [i \in 1..Len(b) |-> Evals(b[i])]
Result == AnyJob \X Nat

LEMMA RowsType == \A job \in AnyJob : RowsOf(job) \in Seq(Nat)
<1> SUFFICES ASSUME NEW job \in AnyJob PROVE RowsOf(job) \in Seq(Nat)
  OBVIOUS
<1>1. job[1] \in Clients /\ job[2] \in 1..Len(Menu[job[1]])
  BY DEF AnyJob
<1>2. Menu[job[1]] \in Seq(Seq(Nat) \ {<<>>})
  BY <1>1, MenuAssumption
<1> QED BY <1>1, <1>2 DEF RowsOf

LEMMA EvalsType ==
  ASSUME NEW job \in AnyJob
  PROVE  /\ Evals(job) \in Seq(Result) /\ Len(Evals(job)) = Len(RowsOf(job))
         /\ \A k \in 1..Len(RowsOf(job)) : Evals(job)[k] = <<job, k>>
<1>1. Len(RowsOf(job)) \in Nat
  BY RowsType
<1>2. \A k \in 1..Len(RowsOf(job)) : <<job, k>> \in Result
  BY <1>1 DEF Result
<1> DEFINE n == Len(RowsOf(job))
<1>3. Evals(job) \in [1..n -> Result]
  BY <1>2 DEF Evals
<1> QED BY <1>1, <1>3 DEF Evals

LEMMA Requested ==
  ASSUME NEW b \in Request
  PROVE  /\ RowSeq(b) \in Seq(Seq(Nat)) /\ EvalSeq(b) \in Seq(Seq(Result))
         /\ Len(RowSeq(b)) = Len(b) /\ Len(EvalSeq(b)) = Len(b) /\ Len(b) \in Nat
         /\ \A i \in 1..Len(b) : /\ b[i] \in AnyJob
                                 /\ RowSeq(b)[i] = RowsOf(b[i]) /\ EvalSeq(b)[i] = Evals(b[i])
<1>1. Len(b) \in Nat /\ \A i \in 1..Len(b) : b[i] \in AnyJob
  BY DEF Request
<1> DEFINE n == Len(b)
<1>2. RowSeq(b) \in [1..n -> Seq(Nat)]
  BY <1>1, RowsType DEF RowSeq
<1>3. EvalSeq(b) \in [1..n -> Seq(Result)]
  BY <1>1, EvalsType DEF EvalSeq
<1> QED BY <1>1, <1>2, <1>3 DEF RowSeq, EvalSeq

\* A request has as many rows as its jobs have results.
LEMMA AsManyResults ==
  ASSUME NEW b \in Request
  PROVE  Rows(b) = Len(FlattenSeq(EvalSeq(b)))
<1>1. /\ EvalSeq(b) \in Seq(Seq(Result)) /\ RowSeq(b) \in Seq(Seq(Nat))
      /\ Len(EvalSeq(b)) = Len(RowSeq(b))
  BY Requested
<1>2. \A j \in 1..Len(EvalSeq(b)) : Len(EvalSeq(b)[j]) = Len(RowSeq(b)[j])
  BY Requested, EvalsType, SMTT(30)
<1>3. Len(FlattenSeq(EvalSeq(b))) = Len(FlattenSeq(RowSeq(b)))
  BY <1>1, <1>2, FlattenTogether
<1> QED BY <1>3 DEF Rows, RowSeq

LEMMA RowsUpTo ==
  ASSUME NEW b \in Request, NEW n \in 0..Len(b)
  PROVE  Rows(SubSeq(b, 1, n)) = Len(FlattenSeq(SubSeq(EvalSeq(b), 1, n)))
<1> DEFINE c == SubSeq(b, 1, n) s == EvalSeq(b)
<1>0. s \in Seq(Seq(Result)) /\ Len(s) = Len(b) /\ \A i \in 1..Len(b) : s[i] = Evals(b[i])
  BY Requested
<1>1. c \in Request /\ Len(c) = n /\ \A i \in 1..n : c[i] = b[i]
  BY DEF Request
<1> HIDE DEF c, s
<1>2. /\ SubSeq(s, 1, n) \in Seq(Seq(Result)) /\ Len(SubSeq(s, 1, n)) = n
      /\ \A i \in 1..n : SubSeq(s, 1, n)[i] = s[i]
  BY <1>0
<1>3. /\ EvalSeq(c) \in Seq(Seq(Result)) /\ Len(EvalSeq(c)) = n
      /\ \A i \in 1..n : EvalSeq(c)[i] = Evals(c[i])
  BY <1>1, Requested
<1>4. \A i \in 1..n : EvalSeq(c)[i] = SubSeq(s, 1, n)[i]
  BY <1>0, <1>1, <1>2, <1>3
<1> DEFINE u == EvalSeq(c) v == SubSeq(s, 1, n)
<1> HIDE DEF u, v
<1>5. u = v
  BY <1>2, <1>3, <1>4, SameSeq DEF u, v
<1>6. Rows(c) = Len(FlattenSeq(EvalSeq(c)))
  BY <1>1, AsManyResults
<1> QED BY <1>5, <1>6 DEF u, v, c, s

\* A job's share of the results of its request is its own results, whatever the
\* action ids of its rows and of the other jobs' rows are.
LEMMA ShareOf ==
  ASSUME NEW b \in Request, NEW i \in 1..Len(b)
  PROVE  Share(b, Results(b), i) = Evals(b[i])
<1> DEFINE s == EvalSeq(b) ev == FlattenSeq(s)
           lo == Len(FlattenSeq(SubSeq(s, 1, i - 1)))
           hi == Len(FlattenSeq(SubSeq(s, 1, i)))
<1>1. s \in Seq(Seq(Result)) /\ i \in 1..Len(s) /\ s[i] = Evals(b[i])
  BY Requested
<1>2. SubSeq(ev, lo + 1, hi) = s[i]
  BY <1>1, FlattenPart
<1>3. lo = Rows(SubSeq(b, 1, i - 1)) /\ hi = Rows(SubSeq(b, 1, i))
  <2>1. i - 1 \in 0..Len(b) /\ i \in 0..Len(b)
    BY Requested
  <2> QED BY <2>1, RowsUpTo
<1>4. ev = Results(b)
  BY DEF Results, EvalSeq
<1> HIDE DEF s, ev, lo, hi
<1> QED BY <1>1, <1>2, <1>3, <1>4 DEF Share

\* What a step may do to the clients.
WorkerMoves == \E c \in Clients : Call(c) \/ Return(c) \/ Leave(c)

LEMMA AnsweringSteps ==
  ASSUME [BridgeNext]_bridgeVars
  PROVE  \/ UNCHANGED clientVars
         \/ WorkerMoves
         \/ FailJobs(<<batch>>) /\ SendFails
         \/ FailJobs(pending)
         \/ Receive /\ Accepted(Head(lines), Head(pending))
<1>1. CASE \E c \in Clients : Worker(c)
  BY <1>1 DEF Worker, Submit, WorkerMoves
<1>2. CASE UNCHANGED bridgeVars
  BY <1>2 DEF bridgeVars
<1>3. CASE DropBridge \/ Service \/ Crash \/ Hang
  BY <1>3 DEF DropBridge, Service, Read, Respond, Exit, Killed, Crash, Hang, Dies
<1>4. CASE TakeFirst \/ NothingToTake \/ WindowPasses \/ HangUp \/ GatherJob \/ GatherEnds
           \/ Send \/ Written \/ TimedOut \/ Shutdown \/ Ended
  BY <1>4 DEF TakeFirst, NothingToTake, WindowPasses, HangUp, GatherJob, GatherEnds, Send, Written,
              TimedOut, Shutdown, Ended
<1>5. CASE SendFails
  BY <1>5 DEF SendFails
<1>6. CASE Receive
  BY <1>6 DEF Receive, FailAll
<1>7. CASE Kill \/ Disconnected
  BY <1>7 DEF Kill, Disconnected, FailAll
<1> QED BY <1>1, <1>2, <1>3, <1>4, <1>5, <1>6, <1>7 DEF BridgeNext, Aggregator

-----------------------------------------------------------------------------
(* The promise of eval_batch.                                               *)

\* Failing the jobs of S, or answering them with their own evaluations.
LEMMA FailureIsReply ==
  ASSUME StreamInv, Clerk, NEW rs, FailJobs(rs), Members(rs) \subseteq WaitingJobs
  PROVE  Promise!Reply
<1> DEFINE R == {c \in Clients : Job(c) \in Members(rs)}
<1>1. R \subseteq {c \in Clients : Promise!Waiting(c)}
  BY JobOfOne DEF Waiting, Promise!Waiting, NoAnswer, Promise!NoAnswer
<1>2. answer' = [c \in Clients |-> IF c \in R THEN Failed ELSE answer[c]]
  BY DEF FailJobs
<1> HIDE DEF R
<1>3. answer' = [c \in Clients |->
        IF c \in R THEN Promise!Failed
        ELSE IF c \in R THEN Promise!Ok(Promise!Evals(Promise!Job(c))) ELSE answer[c]]
  BY <1>2 DEF Failed, Promise!Failed
<1>4. R \in SUBSET {c \in Clients : Promise!Waiting(c)} /\ R \in SUBSET R
  BY <1>1
<1> QED BY <1>3, <1>4 DEF Promise!Reply, FailJobs

\* In step, the line that is read is that of the oldest request.
LEMMA OwnLine ==
  ASSUME StreamInv, InStep, Receive
  PROVE  Head(lines).of = Head(pending) /\ Head(pending) \in Request
<1>1. pending # <<>> /\ lines # <<>> /\ Sent = pending
  BY DEF Receive, Sent
<1>2. /\ Head(pending) = pending[1] /\ Head(pending) \in Request /\ Len(pending) > 0
      /\ Head(lines) = lines[1] /\ Len(lines) > 0
  BY <1>1, TailFacts DEF StreamInv, Types
<1>3. Outstanding[1] = lines[1].of /\ 1 \in 1..Len(Outstanding)
  BY <1>2, Stream DEF StreamInv, Types, Outstanding
<1> QED BY <1>1, <1>2, <1>3 DEF InStep, StreamInv, Types

LEMMA ResponseIsReply ==
  ASSUME StreamInv, Clerk, InStep, Receive, Accepted(Head(lines), Head(pending))
  PROVE  Promise!Reply
<1> DEFINE b == Head(pending)
           R == {c \in Clients : Job(c) \in ToSet(b)}
           own(c) == Share(b, Results(b), CHOOSE i \in DOMAIN b : b[i] = Job(c))
<1>1. b \in Request /\ ReplyTo(b, Results(b))
  BY OwnLine DEF Receive
<1>2. ToSet(b) \subseteq WaitingJobs
  <2> DEFINE q == FlattenSeq(Tail(pending))
  <2>0. pending # <<>>
    BY DEF Receive
  <2>1. /\ b \in Seq(AnyJob) /\ q \in Seq(AnyJob) /\ FlattenSeq(pending) = b \o q
    BY <2>0, FlattenTail, FlattenType, TailFacts DEF StreamInv, Types, Request
  <2>2. ToSet(b \o q) = ToSet(b) \cup ToSet(q)
    BY <2>1, ToSetConcat
  <2> QED BY <2>1, <2>2 DEF Clerk, Split
<1> HIDE DEF b
<1>3. \A c \in R : own(c) = Evals(Job(c))
  <2> SUFFICES ASSUME NEW c \in R PROVE own(c) = Evals(Job(c))
    OBVIOUS
  <2> DEFINE i == CHOOSE j \in DOMAIN b : b[j] = Job(c)
  <2>1. DOMAIN b = 1..Len(b) /\ \E j \in DOMAIN b : b[j] = Job(c)
    BY <1>1 DEF ToSet, Request
  <2>2. i \in 1..Len(b) /\ b[i] = Job(c)
    BY <2>1
  <2> HIDE DEF i
  <2>3. Share(b, Results(b), i) = Evals(b[i])
    BY <1>1, <2>2, ShareOf
  <2> QED BY <2>2, <2>3 DEF i
<1>4. R \subseteq {c \in Clients : Promise!Waiting(c)}
  BY <1>2, JobOfOne DEF Waiting, Promise!Waiting, NoAnswer, Promise!NoAnswer
<1>5. answer' = [c \in Clients |-> IF c \in R THEN Ok(own(c)) ELSE answer[c]]
  BY <1>1 DEF ReplyTo
<1> HIDE DEF own, R
<1>6. answer' = [c \in Clients |->
        IF c \in {} THEN Promise!Failed
        ELSE IF c \in R THEN Promise!Ok(Promise!Evals(Promise!Job(c))) ELSE answer[c]]
  BY <1>3, <1>5 DEF Ok, Promise!Ok, Evals, Promise!Evals, Job, Promise!Job, RowsOf, Promise!RowsOf
<1>7. R \in SUBSET {c \in Clients : Promise!Waiting(c)} /\ {} \in SUBSET R
  BY <1>4
<1> QED BY <1>1, <1>6, <1>7 DEF Promise!Reply, ReplyTo

LEMMA InStepIsPromise ==
  ASSUME StreamInv, Clerk, InStep, [BridgeNext]_bridgeVars
  PROVE  [Promise!Next]_(Promise!clientVars)
<1>1. CASE UNCHANGED clientVars
  BY <1>1 DEF clientVars, Promise!clientVars
<1>2. CASE WorkerMoves
  BY <1>2 DEF WorkerMoves, Promise!Next, Call, Promise!Call, Return, Promise!Return, Leave,
              Promise!Leave, NoAnswer, Promise!NoAnswer
<1>3. CASE FailJobs(<<batch>>) /\ SendFails
  <2>1. Members(<<batch>>) \subseteq WaitingJobs
    BY DEF Members, Clerk, Split
  <2> QED BY <1>3, <2>1, FailureIsReply DEF Promise!Next
<1>4. CASE FailJobs(pending)
  <2>1. Members(pending) \subseteq WaitingJobs
    BY MembersAll DEF StreamInv, Types, Clerk, Split
  <2> QED BY <1>4, <2>1, FailureIsReply DEF Promise!Next
<1>5. CASE Receive /\ Accepted(Head(lines), Head(pending))
  BY <1>5, ResponseIsReply DEF Promise!Next
<1> QED BY <1>1, <1>2, <1>3, <1>4, <1>5, AnsweringSteps

\* For any workers and calls, those with the same action ids included, and any
\* faults: a step taken while the stream is in step gives a job an error or its own
\* results, and nothing to anybody else.
THEOREM InStepAnswersAreOwn == BridgeSpec => OwnWhileInStep
<1>1. StreamInv /\ Clerk /\ [BridgeNext]_bridgeVars
        => [InStep => [Promise!Next]_clientVars]_bridgeVars
  BY InStepIsPromise DEF clientVars, Promise!clientVars
<1> QED BY <1>1, ClerkStarts, NextStream, NextClerk, PTL DEF BridgeSpec, OwnWhileInStep

-----------------------------------------------------------------------------
(* What keeps the stream in step.                                           *)

\* No read fails while the process lives: it answers no request by an error, and
\* is neither hung nor killed.
Steady ==
  /\ process \in {"up", "dead"} /\ pc # "kill"
  /\ process # "dead" => \A i \in 1..Len(lines) : lines[i].ok
  /\ InStep

LEMMA GrowsInStep ==
  ASSUME StreamInv, Steady, Send
  PROVE  InStep'
<1>1. Sent' = Append(Sent, batch) /\ Outstanding' = Append(Outstanding, batch) /\ process # "dead"
  BY SendStep DEF Send
<1>2. Sent \in Seq(Request) /\ Outstanding \in Seq(Request) /\ batch \in Request
  BY SentType, OutstandingType DEF StreamInv, Types
<1>3. /\ Len(Sent) = Len(Outstanding)
      /\ \A i \in 1..Len(Outstanding) : i <= Len(Sent) => Outstanding[i] = Sent[i]
  BY <1>1 DEF Steady, InStep
<1> DEFINE o == Outstanding p == Sent
<1>4. /\ Len(Append(p, batch)) = Len(p) + 1 /\ Append(p, batch)[Len(p) + 1] = batch
      /\ \A i \in 1..Len(p) : Append(p, batch)[i] = p[i]
  BY <1>2, AppendFacts
<1>5. /\ Len(Append(o, batch)) = Len(o) + 1 /\ Append(o, batch)[Len(o) + 1] = batch
      /\ \A i \in 1..Len(o) : Append(o, batch)[i] = o[i]
  BY <1>2, AppendFacts
<1> DEFINE oo == Append(o, batch) pp == Append(p, batch)
<1>6. Outstanding' = oo /\ Sent' = pp
  BY <1>1
<1>7. Len(o) \in Nat
  BY <1>2
<1> HIDE DEF o, p, oo, pp
<1>8. Len(oo) = Len(pp) /\ \A i \in 1..Len(oo) : oo[i] = pp[i]
  BY <1>3, <1>4, <1>5, <1>7 DEF o, p, oo, pp
<1> QED BY <1>6, <1>8 DEF InStep

LEMMA ReceiveInStep ==
  ASSUME StreamInv, Steady, Receive
  PROVE  Steady'
<1>1. /\ pending # <<>> /\ lines # <<>> /\ lines' = Tail(lines) /\ UNCHANGED process /\ pc' = "top"
      /\ Sent = pending /\ Sent' = pending'
  BY DEF Receive, Sent
<1>2. Head(lines).of = Head(pending) /\ Head(pending) \in Request
  BY OwnLine DEF Steady
<1>3. /\ Head(lines) = lines[1] /\ Len(lines) > 0 /\ Len(lines') = Len(lines) - 1
      /\ \A i \in 1..Len(lines) - 1 : lines'[i] = lines[i + 1]
  BY <1>1, TailFacts DEF StreamInv, Types
<1>4. Len(lines) \in Nat
  BY DEF StreamInv, Types
<1>5. process # "dead" => \A i \in 1..Len(lines') : lines'[i].ok
  BY <1>1, <1>3, <1>4 DEF Steady
<1>6. process # "dead" => Accepted(Head(lines), Head(pending))
  BY <1>2, <1>3, <1>4 DEF Steady, Accepted
<1>7. Outstanding' = Tail(Outstanding) /\ Outstanding \in Seq(Request) /\ pending \in Seq(Request)
  BY ReceiveStep, OutstandingType DEF StreamInv, Types
<1>8. Outstanding # <<>>
  BY <1>3, <1>4, Stream DEF StreamInv, Types, Outstanding
<1>9. /\ Len(Outstanding') = Len(Outstanding) - 1 /\ Len(Outstanding) \in Nat
      /\ \A i \in 1..Len(Outstanding) - 1 : Outstanding'[i] = Outstanding[i + 1]
  BY <1>7, <1>8, TailFacts
<1>10. CASE pending' = Tail(pending)
  <2>1. /\ Len(pending') = Len(pending) - 1 /\ Len(pending) \in Nat
        /\ \A i \in 1..Len(pending) - 1 : pending'[i] = pending[i + 1]
    BY <1>1, <1>7, <1>10, TailFacts
  <2>2. /\ \A i \in 1..Len(Outstanding) : i <= Len(pending) => Outstanding[i] = pending[i]
        /\ process # "dead" => Len(Outstanding) = Len(pending)
    BY <1>1 DEF Steady, InStep
  <2>3. ASSUME NEW i \in 1..Len(Outstanding'), i <= Len(pending')
        PROVE  Outstanding'[i] = pending'[i]
    <3>1. i + 1 \in 1..Len(Outstanding) /\ i + 1 <= Len(pending) /\ i \in 1..Len(Outstanding) - 1
          /\ i \in 1..Len(pending) - 1
      BY <1>9, <2>1, <2>3
    <3> QED BY <1>9, <2>1, <2>2, <3>1
  <2>4. InStep'
    BY <1>1, <1>9, <2>1, <2>2, <2>3 DEF InStep
  <2> QED BY <1>1, <1>5, <2>4 DEF Steady
<1>11. CASE FailAll
  <2>1. CASE process = "dead"
    <3>1. pending' = <<>>
      BY <1>11 DEF FailAll
    <3>2. InStep'
      BY <1>1, <1>9, <2>1, <3>1 DEF InStep
    <3> QED BY <1>1, <2>1, <3>2 DEF Steady
  <2>2. CASE process # "dead"
    BY <1>6, <1>10, <2>2 DEF Receive
  <2> QED BY <2>1, <2>2
<1> QED BY <1>10, <1>11 DEF Receive

\* A process that dies leaves the beginning of what was outstanding.
LEMMA DiesInStep ==
  ASSUME StreamInv, Steady, Dies
  PROVE  InStep'
<1>1. process' = "dead" /\ Sent' = Sent /\ stdin' = <<>> /\ Types'
  BY DiesStep DEF Dies
<1>2. Outstanding' \in Seq(Request) /\ Len(Outstanding') = Len(lines')
      /\ \A i \in 1..Len(lines') : Outstanding'[i] = lines'[i].of
  BY <1>1, Stream DEF Types, Outstanding
<1>3. /\ Len(Outstanding) = Len(lines) + Len(stdin) /\ Len(lines) \in Nat /\ Len(stdin) \in Nat
      /\ \A i \in 1..Len(lines) : Outstanding[i] = lines[i].of
      /\ \A i \in 1..Len(stdin) : Outstanding[Len(lines) + i] = stdin[i]
  BY Stream DEF StreamInv, Types, Outstanding
<1>4. /\ Len(lines') <= Len(Outstanding)
      /\ \A i \in 1..Len(lines') : lines'[i].of = Outstanding[i]
  <2>1. CASE UNCHANGED lines
    BY <1>3, <2>1
  <2>2. CASE unread < Len(stdin) /\ lines' = Append(lines, [of |-> Head(stdin), ok |-> FALSE])
    <3> DEFINE cutLine == [of |-> Head(stdin), ok |-> FALSE]
    <3>1. stdin # <<>> /\ Len(stdin) > 0
      BY <1>3, <2>2 DEF StreamInv, Types
    <3>2. Head(stdin) = stdin[1] /\ Head(stdin) \in Request
      BY <3>1, TailFacts DEF StreamInv, Types
    <3>3. cutLine \in Line /\ cutLine.of = stdin[1]
      BY <3>2 DEF Line
    <3> HIDE DEF cutLine
    <3>4. /\ Len(lines') = Len(lines) + 1 /\ lines'[Len(lines) + 1] = cutLine
          /\ \A i \in 1..Len(lines) : lines'[i] = lines[i]
      BY <2>2, <3>3, AppendFacts DEF StreamInv, Types, cutLine
    <3>5. Outstanding[Len(lines) + 1] = stdin[1]
      BY <1>3, <3>1
    <3> QED BY <1>3, <3>1, <3>3, <3>4, <3>5
  <2> QED BY <2>1, <2>2 DEF Dies
<1>5. \A i \in 1..Len(Outstanding) : i <= Len(Sent) => Outstanding[i] = Sent[i]
  BY DEF Steady, InStep
<1>6. ASSUME NEW i \in 1..Len(Outstanding'), i <= Len(Sent') PROVE Outstanding'[i] = Sent'[i]
  <2>1. i \in 1..Len(lines') /\ i \in 1..Len(Outstanding)
    BY <1>2, <1>3, <1>4
  <2> QED BY <1>1, <1>2, <1>4, <1>5, <1>6, <2>1
<1> QED BY <1>1, <1>6 DEF InStep

LEMMA NextSteady ==
  ASSUME Faults \subseteq {"crash"}
  PROVE  StreamInv /\ Steady /\ [BridgeNext]_bridgeVars => Steady'
<1> SUFFICES ASSUME StreamInv, Steady, [BridgeNext]_bridgeVars PROVE Steady'
  OBVIOUS
<1>1. CASE UNCHANGED bridgeVars \/ \E c \in Clients : Worker(c)
  <2>1. UNCHANGED <<pc, batch, pending, stdin, lines, process>>
    BY <1>1 DEF bridgeVars, Worker, Submit, aggregatorVars, processVars
  <2> QED BY <2>1 DEF Steady, InStep, Outstanding, Sent
<1>2. CASE \/ DropBridge \/ TakeFirst \/ NothingToTake \/ WindowPasses \/ HangUp \/ GatherJob
           \/ GatherEnds \/ Shutdown \/ Ended
  <2>1. UNCHANGED <<lines, stdin, process>> /\ Sent' = Sent
    BY <1>2, GatherStep
  <2>2. pc' # "kill"
    BY <1>2 DEF DropBridge, TakeFirst, NothingToTake, WindowPasses, HangUp, GatherJob, GatherEnds,
                Shutdown, Ended, Steady
  <2> QED BY <2>1, <2>2 DEF Steady, InStep, Outstanding
<1>3. CASE Written
  <2>1. UNCHANGED <<lines, stdin, process>> /\ Sent' = Sent /\ pc' # "kill"
    BY <1>3, WrittenStep DEF Written
  <2> QED BY <2>1 DEF Steady, InStep, Outstanding
<1>4. CASE Send
  BY <1>4, GrowsInStep DEF Send, Steady
<1>5. CASE SendFails
  <2>1. process' = "dead" /\ process = "dead" /\ UNCHANGED <<lines, stdin, pending>> /\ pc' = "top"
    BY <1>5, SendFailsStep DEF SendFails
  <2>2. Sent' = pending /\ Outstanding' = Outstanding
    BY <2>1 DEF Sent, Outstanding
  <2>3. \A i \in 1..Len(Outstanding) : i <= Len(pending) => Outstanding[i] = pending[i]
    <3>1. pending \in Seq(Request) /\ batch \in Request
      BY DEF StreamInv, Types
    <3>2. Len(pending) \in Nat /\ Len(pending) <= Len(Sent) /\ \A i \in 1..Len(pending) : Sent[i] = pending[i]
      BY <3>1, AppendFacts DEF Sent
    <3>3. Len(Sent) \in Nat /\ Len(Outstanding) \in Nat
      BY SentType, OutstandingType DEF StreamInv
    <3> QED BY <3>2, <3>3 DEF Steady, InStep
  <2> QED BY <2>1, <2>2, <2>3 DEF Steady, InStep
<1>6. CASE Receive
  BY <1>6, ReceiveInStep
<1>7. CASE Disconnected
  <2>1. Sent' = <<>> /\ process' = "dead" /\ pc' = "top"
    BY <1>7, FailStep DEF Disconnected, processVars
  <2>2. Outstanding' \in Seq(Request)
    BY <1>7, FailStep, Stream DEF Types, Outstanding
  <2> QED BY <2>1, <2>2 DEF Steady, InStep
<1>8. CASE Respond
  <2>1. PICK ok \in BOOLEAN : lines' = Append(lines, [of |-> Head(stdin), ok |-> ok]) /\ ok
    BY <1>8 DEF Respond
  <2>2. /\ Outstanding' = Outstanding /\ Sent' = Sent /\ UNCHANGED <<pc, process>> /\ process # "dead"
    BY <1>8, RespondStep DEF Respond, Running, aggregatorVars
  <2>3. [of |-> Head(stdin), ok |-> ok] \in Line
    <3>1. stdin # <<>>
      BY <1>8 DEF Respond, StreamInv, Types
    <3> QED BY <3>1, TailFacts DEF StreamInv, Types, Line
  <2>4. \A i \in 1..Len(lines') : lines'[i].ok
    <3> DEFINE line == [of |-> Head(stdin), ok |-> ok]
    <3>1. line.ok
      BY <2>1
    <3> HIDE DEF line
    <3>2. /\ Len(lines') = Len(lines) + 1 /\ lines'[Len(lines) + 1] = line /\ Len(lines) \in Nat
          /\ \A i \in 1..Len(lines) : lines'[i] = lines[i]
      BY <2>1, <2>3, AppendFacts DEF StreamInv, Types, line
    <3> QED BY <2>2, <3>1, <3>2 DEF Steady
  <2> QED BY <2>2, <2>4 DEF Steady, InStep
<1>9. CASE Read \/ Exit
  <2>1. UNCHANGED <<lines, stdin, pc>> /\ Sent' = Sent /\ process' \in {process, "dead"}
    BY <1>9, ProcessStep DEF Read, Exit, aggregatorVars
  <2> QED BY <2>1 DEF Steady, InStep, Outstanding
<1>10. CASE Crash
  BY <1>10, DiesInStep, DiesStep DEF Crash, Steady, Dies, aggregatorVars
<1>11. ~TimedOut /\ ~Kill /\ ~Killed /\ ~Hang
  BY DEF TimedOut, Kill, Killed, Hang, Steady
<1> QED
  BY <1>1, <1>2, <1>3, <1>4, <1>5, <1>6, <1>7, <1>8, <1>9, <1>10, <1>11
  DEF BridgeNext, Aggregator, Service

\* A process that answers in time, and by results, never leaves the stream out of
\* step, wherever it crashes: then the bridge implements the eval_batch that answers
\* each call by itself, an error or the evaluation of its own rows, though lines carry
\* no ids and rows of different calls may have the same action ids.
THEOREM BridgeKeepsPromise ==
  ASSUME Faults \subseteq {"crash"}
  PROVE  BridgeSpec => KeepsPromise
<1>1. BridgeInit => Promise!Init
  BY DEF BridgeInit, Init, Promise!Init, NoAnswer, Promise!NoAnswer
<1>2. StreamInv /\ Clerk /\ Steady /\ [BridgeNext]_bridgeVars
        => [Promise!Next]_(Promise!clientVars)
  BY InStepIsPromise DEF Steady
<1>3. BridgeInit => Steady
  <2>1. BridgeInit => Outstanding = <<>> /\ Sent = <<>>
    BY DEF BridgeInit, Outstanding, Sent
  <2> QED BY <2>1 DEF BridgeInit, Steady, InStep
<1> QED
  BY <1>1, <1>2, <1>3, ClerkStarts, NextStream, NextClerk, NextSteady, PTL
  DEF BridgeSpec, KeepsPromise, Promise!Spec

=============================================================================
