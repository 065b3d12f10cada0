--------------------------- MODULE ApiServerProofs ---------------------------
(***************************************************************************)
(* Safety of the web server's parts: for any callers, calls and noise of   *)
(* the suggest server, for games of any length and legality with any number *)
(* of saved games in the hands of browsers, and for any collectors, time,  *)
(* crashes and failing writes of the history file.                         *)
(***************************************************************************)
EXTENDS ApiServer, SequenceLemmas

-----------------------------------------------------------------------------
(* The champion slot.                                                       *)

Requests == Callers \X Nat
Kinds == {Ready, "noise", "suggest_response", "suggest_error"}
Lines == [type : Kinds, of : Requests \cup {<<>>}]
IsAnswer(line) == line.type \in {"suggest_response", "suggest_error"}
HoldsMutex(c) == caller[c] \in {"handshake", "write", "read"}

SlotTypes ==
  /\ caller \in [Callers -> {"away", "queued", "handshake", "write", "read"}]
  /\ calls \in [Callers -> Nat]
  /\ got \in [Callers -> Lines \cup {Nothing, Error}]
  /\ stdin \in Seq(Requests)
  /\ stdout \in Seq(Lines)

\* One request is on its way while its caller reads, as a request or as an
\* answer; none is while nobody reads.
OneOnItsWay ==
  /\ \A i \in 1..Len(stdout) : IsAnswer(stdout[i]) =>
       /\ stdin = <<>>
       /\ \E c \in Callers : caller[c] = "read" /\ stdout[i].of = Request(c)
  /\ \A i, j \in 1..Len(stdout) : IsAnswer(stdout[i]) /\ IsAnswer(stdout[j]) => i = j
  /\ stdin # <<>> => \E c \in Callers : caller[c] = "read" /\ stdin = <<Request(c)>>

SlotInv ==
  /\ SlotTypes
  /\ \A c, d \in Callers : HoldsMutex(c) /\ HoldsMutex(d) => c = d
  /\ OneOnItsWay
  /\ OwnSuggestion

\* What a tail and an appended line have.
LEMMA TailLines ==
  ASSUME NEW S, NEW s \in Seq(S), s # <<>>
  PROVE  /\ Head(s) = s[1] /\ 1 \in 1..Len(s)
         /\ Tail(s) \in Seq(S) /\ Len(Tail(s)) = Len(s) - 1
         /\ \A i \in 1..Len(Tail(s)) : Tail(s)[i] = s[i + 1] /\ i + 1 \in 1..Len(s)
  OBVIOUS

LEMMA AppendedLines ==
  ASSUME NEW S, NEW s \in Seq(S), NEW x \in S
  PROVE  /\ Append(s, x) \in Seq(S) /\ Len(Append(s, x)) = Len(s) + 1
         /\ \A i \in 1..Len(s) : Append(s, x)[i] = s[i]
         /\ Append(s, x)[Len(s) + 1] = x
  OBVIOUS

\* A line that is no answer adds nothing to what is on its way.
LEMMA OtherLine ==
  ASSUME SlotTypes, OneOnItsWay, NEW x \in Lines, ~IsAnswer(x),
         stdout' = Append(stdout, x), UNCHANGED <<caller, calls, stdin>>
  PROVE  stdout' \in Seq(Lines) /\ OneOnItsWay'
<1>1. /\ stdout' \in Seq(Lines) /\ Len(stdout') = Len(stdout) + 1 /\ Len(stdout) \in Nat
      /\ \A i \in 1..Len(stdout) : stdout'[i] = stdout[i]
      /\ stdout'[Len(stdout) + 1] = x
  BY AppendedLines DEF SlotTypes
<1>2. \A i \in 1..Len(stdout') : IsAnswer(stdout'[i]) => i \in 1..Len(stdout)
  BY <1>1
<1> QED
  BY <1>1, <1>2 DEF OneOnItsWay, Request

\* Nothing is on its way after an error: the child's pipes are dropped.
LEMMA FailStep ==
  ASSUME SlotInv, NEW c \in Callers, HoldsMutex(c), Fail(c), calls' = calls
  PROVE  SlotInv'
<1>1. /\ caller' = [caller EXCEPT ![c] = "away"] /\ got' = [got EXCEPT ![c] = Error]
      /\ stdin' = <<>> /\ stdout' = <<>>
  BY DEF Fail, Returns
<1>2. SlotTypes'
  BY <1>1 DEF SlotInv, SlotTypes
<1>3. OneOnItsWay'
  BY <1>1 DEF OneOnItsWay
<1>4. OwnSuggestion'
  BY <1>1 DEF SlotInv, SlotTypes, OwnSuggestion, Error, Line, Request
<1>5. (\A d, e \in Callers : HoldsMutex(d) /\ HoldsMutex(e) => d = e)'
  BY <1>1 DEF SlotInv, SlotTypes, HoldsMutex
<1> QED
  BY <1>2, <1>3, <1>4, <1>5 DEF SlotInv

LEMMA CallerStep == ASSUME SlotInv, NEW c \in Callers, Suggest(c) \/ Caller(c) PROVE SlotInv'
<1> USE DEF SlotInv, SlotTypes, HoldsMutex
<1>1. CASE Suggest(c)
  <2>1. (SlotTypes /\ (\A d, e \in Callers : HoldsMutex(d) /\ HoldsMutex(e) => d = e))'
    BY <1>1 DEF Suggest, childVars
  <2>2. \A d \in Callers : caller[d] = "read" => d # c /\ caller'[d] = "read" /\ Request(d)' = Request(d)
    <3>1. /\ caller' = [caller EXCEPT ![c] = "queued"] /\ caller[c] = "away"
          /\ calls' = [calls EXCEPT ![c] = @ + 1]
      BY <1>1 DEF Suggest
    <3> SUFFICES ASSUME NEW d \in Callers, caller[d] = "read"
                 PROVE  d # c /\ caller'[d] = "read" /\ Request(d)' = Request(d)
      OBVIOUS
    <3>2. d # c
      BY <3>1
    <3>3. caller'[d] = caller[d] /\ calls'[d] = calls[d]
      BY <3>1, <3>2
    <3> QED
      BY <3>2, <3>3 DEF Request
  <2>3. OneOnItsWay'
    <3>1. UNCHANGED <<stdin, stdout>>
      BY <1>1 DEF Suggest, childVars
    <3>2. ASSUME NEW i \in 1..Len(stdout), IsAnswer(stdout[i])
          PROVE  stdin = <<>> /\ \E d \in Callers : caller'[d] = "read" /\ stdout[i].of = Request(d)'
      <4>1. stdin = <<>> /\ \E d \in Callers : caller[d] = "read" /\ stdout[i].of = Request(d)
        BY <3>2 DEF OneOnItsWay
      <4> QED
        BY <4>1, <2>2
    <3>3. stdin # <<>> => \E d \in Callers : caller'[d] = "read" /\ stdin = <<Request(d)'>>
      BY <2>2 DEF OneOnItsWay
    <3>4. \A i, j \in 1..Len(stdout) : IsAnswer(stdout[i]) /\ IsAnswer(stdout[j]) => i = j
      BY DEF OneOnItsWay
    <3> QED
      BY <3>1, <3>2, <3>3, <3>4 DEF OneOnItsWay
  <2>4. OwnSuggestion'
    BY <1>1 DEF Suggest, OwnSuggestion, Request, Nothing, Line
  <2> QED
    BY <2>1, <2>3, <2>4
<1>2. CASE UseClient(c)
  <2>1. (SlotTypes /\ (\A d, e \in Callers : HoldsMutex(d) /\ HoldsMutex(e) => d = e))'
    BY <1>2 DEF UseClient, Locked, childVars
  <2>2. OneOnItsWay'
    BY <1>2 DEF UseClient, Locked, childVars, OneOnItsWay, Request
  <2>3. OwnSuggestion'
    BY <1>2 DEF UseClient, OwnSuggestion, Request
  <2> QED
    BY <2>1, <2>2, <2>3
<1>3. CASE Spawn(c)
  <2>1. (SlotTypes /\ (\A d, e \in Callers : HoldsMutex(d) /\ HoldsMutex(e) => d = e))'
    BY <1>3 DEF Spawn, Locked
  <2>2. OneOnItsWay'
    BY <1>3 DEF Spawn, OneOnItsWay
  <2>3. OwnSuggestion'
    BY <1>3 DEF Spawn, OwnSuggestion, Request
  <2> QED
    BY <2>1, <2>2, <2>3
<1>4. CASE ReceiveReady(c)
  <2>1. CASE Head(stdout).type = Ready
    <3>1. /\ caller' = [caller EXCEPT ![c] = "write"] /\ stdout' = Tail(stdout)
          /\ UNCHANGED <<got, stdin, calls>> /\ caller[c] = "handshake" /\ stdout # <<>>
      BY <1>4, <2>1 DEF ReceiveReady
    <3>2. \A d \in Callers : caller[d] # "read" /\ caller'[d] # "read"
      BY <3>1
    <3>3. stdin = <<>> /\ \A i \in 1..Len(stdout) : ~IsAnswer(stdout[i])
      BY <3>2 DEF OneOnItsWay
    <3>4. stdout' \in Seq(Lines) /\ \A i \in 1..Len(stdout') : ~IsAnswer(stdout'[i])
      BY <3>1, <3>3, TailLines
    <3>5. OneOnItsWay'
      BY <3>1, <3>3, <3>4 DEF OneOnItsWay
    <3>6. (SlotTypes /\ (\A d, e \in Callers : HoldsMutex(d) /\ HoldsMutex(e) => d = e))'
      BY <3>1, <3>4
    <3>7. OwnSuggestion'
      BY <3>1 DEF OwnSuggestion, Request
    <3> QED
      BY <3>5, <3>6, <3>7
  <2>2. CASE Head(stdout).type # Ready
    BY <1>4, <2>2, FailStep DEF ReceiveReady
  <2> QED
    BY <2>1, <2>2
<1>5. CASE WriteRequest(c)
  <2>1. CASE child = "exited"
    BY <1>5, <2>1, FailStep DEF WriteRequest
  <2>2. CASE child # "exited"
    <3>1. /\ stdin' = Append(stdin, Request(c)) /\ caller' = [caller EXCEPT ![c] = "read"]
          /\ UNCHANGED <<got, stdout, calls>> /\ caller[c] = "write"
      BY <1>5, <2>2 DEF WriteRequest
    <3>2. \A d \in Callers : caller[d] # "read"
      BY <3>1
    <3>3. stdin = <<>> /\ \A i \in 1..Len(stdout) : ~IsAnswer(stdout[i])
      BY <3>2 DEF OneOnItsWay
    <3>4. stdin' = <<Request(c)>> /\ Request(c) \in Requests
      BY <3>1, <3>3 DEF Request, Requests
    <3>5. OneOnItsWay'
      BY <3>1, <3>3, <3>4 DEF OneOnItsWay, Request
    <3>6. (SlotTypes /\ (\A d, e \in Callers : HoldsMutex(d) /\ HoldsMutex(e) => d = e))'
      BY <3>1, <3>4
    <3>7. OwnSuggestion'
      BY <3>1 DEF OwnSuggestion, Request
    <3> QED
      BY <3>5, <3>6, <3>7
  <2> QED
    BY <2>1, <2>2
<1>6. CASE ReadResponse(c)
  <2>1. CASE Head(stdout).type = "suggest_response"
    <3>1. /\ caller' = [caller EXCEPT ![c] = "away"] /\ got' = [got EXCEPT ![c] = Head(stdout)]
          /\ stdout' = Tail(stdout) /\ UNCHANGED <<stdin, calls>>
          /\ caller[c] = "read" /\ stdout # <<>>
      BY <1>6, <2>1 DEF ReadResponse, Returns
    <3>2. /\ Head(stdout) = stdout[1] /\ 1 \in 1..Len(stdout) /\ stdout' \in Seq(Lines)
          /\ \A i \in 1..Len(stdout') : stdout'[i] = stdout[i + 1] /\ i + 1 \in 1..Len(stdout) /\ i + 1 # 1
      BY <3>1, TailLines
    <3>3. IsAnswer(stdout[1]) /\ stdout[1].of = Request(c) /\ stdin = <<>>
      BY <2>1, <3>1, <3>2 DEF OneOnItsWay, IsAnswer
    <3>4. \A i \in 1..Len(stdout') : ~IsAnswer(stdout'[i])
      BY <3>2, <3>3 DEF OneOnItsWay
    <3>5. OneOnItsWay'
      BY <3>1, <3>3, <3>4 DEF OneOnItsWay
    <3>6. stdout[1] \in Lines
      BY <3>2
    <3>7. (SlotTypes /\ (\A d, e \in Callers : HoldsMutex(d) /\ HoldsMutex(e) => d = e))'
      BY <3>1, <3>2, <3>6
    <3>8. OwnSuggestion'
      BY <3>1, <3>2, <3>3 DEF OwnSuggestion, Request
    <3> QED
      BY <3>5, <3>7, <3>8
  <2>2. CASE Head(stdout).type # "suggest_response"
    BY <1>6, <2>2, FailStep DEF ReadResponse
  <2> QED
    BY <2>1, <2>2
<1>7. CASE EndOfStream(c)
  BY <1>7, FailStep DEF EndOfStream
<1> QED
  BY <1>1, <1>2, <1>3, <1>4, <1>5, <1>6, <1>7 DEF Caller

LEMMA ChildStep == ASSUME SlotInv, Child PROVE SlotInv'
<1> USE DEF SlotInv, SlotTypes, HoldsMutex
<1>1. ASSUME UNCHANGED <<caller, calls, got>>, OneOnItsWay', stdin' \in Seq(Requests), stdout' \in Seq(Lines)
      PROVE  SlotInv'
  BY <1>1 DEF OwnSuggestion, Request
<1>2. CASE Start
  <2>1. Line(Ready, <<>>) \in Lines /\ ~IsAnswer(Line(Ready, <<>>))
    BY DEF Line, Ready, Lines, Kinds, IsAnswer
  <2> QED
    BY <1>1, <1>2, <2>1, OtherLine DEF Start
<1>3. CASE Answer
  <2>1. PICK kind \in {"suggest_response", "suggest_error"} : stdout' = Append(stdout, Line(kind, Head(stdin)))
    BY <1>3 DEF Answer
  <2>2. PICK c \in Callers : caller[c] = "read" /\ stdin = <<Request(c)>>
    BY <1>3 DEF Answer, OneOnItsWay
  <2>3. Head(stdin) = Request(c) /\ stdin' = <<>> /\ Request(c) \in Requests
    BY <1>3, <2>2 DEF Answer, Request, Requests
  <2>4. Line(kind, Request(c)) \in Lines /\ Line(kind, Request(c)).of = Request(c)
    BY <2>3 DEF Line, Lines, Kinds
  <2>5. /\ stdout' \in Seq(Lines) /\ Len(stdout') = Len(stdout) + 1 /\ Len(stdout) \in Nat
        /\ \A i \in 1..Len(stdout) : stdout'[i] = stdout[i]
        /\ stdout'[Len(stdout) + 1] = Line(kind, Request(c))
    BY <2>1, <2>3, <2>4, AppendedLines
  <2>6. \A i \in 1..Len(stdout) : ~IsAnswer(stdout[i])
    BY <2>2 DEF OneOnItsWay
  <2>7. \A i \in 1..Len(stdout') : IsAnswer(stdout'[i]) => i = Len(stdout) + 1
    <3> SUFFICES ASSUME NEW i \in 1..Len(stdout'), IsAnswer(stdout'[i]), i # Len(stdout) + 1
                 PROVE  FALSE
      OBVIOUS
    <3>1. i \in 1..Len(stdout)
      BY <2>5
    <3> QED
      BY <2>5, <2>6, <3>1
  <2>8. UNCHANGED <<caller, calls, got>>
    BY <1>3 DEF Answer
  <2>9. OneOnItsWay'
    BY <2>2, <2>3, <2>4, <2>5, <2>7, <2>8 DEF OneOnItsWay, Request
  <2> QED
    BY <1>1, <2>3, <2>5, <2>8, <2>9
<1>4. CASE PrintNoise
  <2>1. Line("noise", <<>>) \in Lines /\ ~IsAnswer(Line("noise", <<>>))
    BY DEF Line, Lines, Kinds, IsAnswer
  <2> QED
    BY <1>1, <1>4, <2>1, OtherLine DEF PrintNoise
<1>5. CASE Exit \/ Hang
  BY <1>1, <1>5 DEF Exit, Hang, OneOnItsWay, Request
<1> QED
  BY <1>2, <1>3, <1>4, <1>5 DEF Child

LEMMA SlotStep == SlotInv /\ [SlotNext]_slotVars => SlotInv'
<1> SUFFICES ASSUME SlotInv, [SlotNext]_slotVars PROVE SlotInv'
  OBVIOUS
<1>1. CASE UNCHANGED slotVars
  BY <1>1 DEF slotVars, childVars, SlotInv, SlotTypes, HoldsMutex, OneOnItsWay, OwnSuggestion, Request
<1> QED
  BY <1>1, CallerStep, ChildStep DEF SlotNext

LEMMA SlotStart == SlotInit => SlotInv
  BY DEF SlotInit, SlotInv, SlotTypes, HoldsMutex, OneOnItsWay, OwnSuggestion, Nothing, Line

\* A suggestion is for the game its caller sent, though neither side compares ids:
\* the mutex keeps all but one request away from the pipes, and an error
\* takes the pipes with it.
THEOREM SuggestionIsOwn == ApiSpec => []OwnSuggestion
<1>1. ApiInit => SlotInv
  BY SlotStart DEF ApiInit
<1>2. SlotInv /\ [ApiNext]_apiVars => SlotInv'
  BY SlotStep DEF ApiNext, apiVars
<1>3. SlotInv => OwnSuggestion
  BY DEF SlotInv
<1> QED
  BY <1>1, <1>2, <1>3, PTL DEF ApiSpec

-----------------------------------------------------------------------------
(* Saved games.                                                             *)

IsGame(g) == g.turns \in Seq(Actions) /\ g = Game(g.turns, g.final_state_hash)
SealedWhenOver(g) == g.final_state_hash # Unsealed <=> GameOver(g.turns)
GamesInv == \A g \in saved : IsGame(g) /\ Loads(g) /\ SealedWhenOver(g)

LegalTurn(turns, n) == ~GameOver(SubSeq(turns, 1, n - 1)) /\ turns[n] \in Legal(SubSeq(turns, 1, n - 1))

\* What a handler returns is sealed exactly when it is over, and loads when its
\* turns were legal and it is not sealed early.
LEMMA ViewLoads ==
  ASSUME NEW g, IsGame(g), Loads(g), g.final_state_hash # Unsealed => GameOver(g.turns)
  PROVE  IsGame(View(g)) /\ Loads(View(g)) /\ SealedWhenOver(View(g))
<1>1. Sealed(g.turns) # Unsealed
  BY DEF Sealed, Unsealed
<1>2. CASE GameOver(g.turns)
  <2>1. View(g) = Game(g.turns, Sealed(g.turns))
    BY <1>2 DEF View, IsGame, Game
  <2> QED
    BY <1>1, <1>2, <2>1 DEF IsGame, Loads, SealedWhenOver, Game
<1>3. CASE ~GameOver(g.turns)
  BY <1>3 DEF View, SealedWhenOver
<1> QED
  BY <1>2, <1>3

LEMMA LoadsByTurn ==
  ASSUME NEW turns, NEW hash
  PROVE  Loads(Game(turns, hash)) <=>
           (\A n \in 1..Len(turns) : LegalTurn(turns, n)) /\ hash \in {Unsealed, Sealed(turns)}
  BY DEF Loads, LegalTurn, Game

\* A turn is legal after the turns before it, whatever comes later.
LEMMA LegalInPrefix ==
  ASSUME NEW s \in Seq(Actions), NEW t \in Seq(Actions), NEW n \in 1..Len(s), n \in 1..Len(t),
         \A i \in 1..n : s[i] = t[i], LegalTurn(s, n)
  PROVE  LegalTurn(t, n)
<1>1. SubSeq(s, 1, n - 1) = SubSeq(t, 1, n - 1)
  OBVIOUS
<1>2. s[n] = t[n]
  <2>1. n \in 1..n
    OBVIOUS
  <2> QED
    BY <2>1
<1> QED
  BY <1>1, <1>2 DEF LegalTurn

LEMMA NewGameStep == ASSUME GamesInv, NewGame PROVE GamesInv'
<1> DEFINE g == Game(<<>>, Unsealed)
<1>1. IsGame(g) /\ g.turns = <<>> /\ g.final_state_hash = Unsealed
  BY DEF IsGame, Game
<1>2. Loads(g)
  BY LoadsByTurn
<1> HIDE DEF g
<1>3. IsGame(View(g)) /\ Loads(View(g)) /\ SealedWhenOver(View(g))
  BY <1>1, <1>2, ViewLoads
<1> QED
  BY <1>3 DEF NewGame, GamesInv, g

LEMMA ApplyTurnStep ==
  ASSUME GamesInv, NEW g \in saved, NEW a \in Actions, ApplyTurn(g, a)
  PROVE  GamesInv'
<1> DEFINE t == Append(g.turns, a)
           next == Game(t, Unsealed)
<1>1. g.turns \in Seq(Actions) /\ Loads(Game(g.turns, g.final_state_hash))
  BY DEF GamesInv, IsGame
<1>2. /\ t \in Seq(Actions) /\ Len(t) = Len(g.turns) + 1 /\ t[Len(g.turns) + 1] = a
      /\ \A n \in 1..Len(g.turns) : t[n] = g.turns[n]
  BY <1>1
<1>3. IsGame(next) /\ next.turns = t /\ next.final_state_hash = Unsealed
  BY <1>2 DEF IsGame, Game
<1>4. SubSeq(t, 1, Len(g.turns)) = g.turns
  BY <1>1
<1>5. \A n \in 1..Len(t) : LegalTurn(t, n)
  <2> SUFFICES ASSUME NEW n \in 1..Len(t) PROVE LegalTurn(t, n)
    OBVIOUS
  <2>1. CASE n = Len(g.turns) + 1
    <3>1. n - 1 = Len(g.turns)
      BY <1>1, <2>1
    <3>2. ~GameOver(g.turns) /\ a \in Legal(g.turns)
      BY DEF ApplyTurn
    <3> QED
      BY <1>2, <1>4, <2>1, <3>1, <3>2 DEF LegalTurn
  <2>2. CASE n # Len(g.turns) + 1
    <3>1. n \in 1..Len(g.turns)
      BY <1>1, <1>2, <2>2
    <3>2. LegalTurn(g.turns, n)
      BY <1>1, <3>1, LoadsByTurn
    <3>3. \A i \in 1..n : g.turns[i] = t[i]
      BY <1>1, <1>2, <3>1
    <3> QED
      BY <1>1, <1>2, <3>1, <3>2, <3>3, LegalInPrefix
  <2> QED
    BY <2>1, <2>2
<1>6. Loads(next)
  BY <1>5, LoadsByTurn
<1>7. IsGame(View(next)) /\ Loads(View(next)) /\ SealedWhenOver(View(next))
  <2> HIDE DEF next
  <2> QED
    BY <1>3, <1>6, ViewLoads
<1> QED
  BY <1>7 DEF ApplyTurn, GamesInv

LEMMA UndoTurnStep ==
  ASSUME GamesInv, NEW g \in saved, UndoTurn(g)
  PROVE  GamesInv'
<1> DEFINE t == Front(g.turns)
           next == Game(t, Unsealed)
<1>1. g.turns \in Seq(Actions) /\ g.turns # <<>> /\ Loads(Game(g.turns, g.final_state_hash))
  BY DEF GamesInv, IsGame, UndoTurn
<1>2. /\ t \in Seq(Actions) /\ Len(t) = Len(g.turns) - 1
      /\ \A n \in 1..Len(t) : t[n] = g.turns[n] /\ n \in 1..Len(g.turns)
  BY <1>1 DEF Front
<1>3. IsGame(next) /\ next.turns = t /\ next.final_state_hash = Unsealed
  BY <1>2 DEF IsGame, Game
<1>4. \A n \in 1..Len(t) : LegalTurn(t, n)
  <2> SUFFICES ASSUME NEW n \in 1..Len(t) PROVE LegalTurn(t, n)
    OBVIOUS
  <2>1. LegalTurn(g.turns, n)
    BY <1>1, <1>2, LoadsByTurn
  <2>2. \A i \in 1..n : g.turns[i] = t[i]
    BY <1>1, <1>2
  <2> QED
    BY <1>1, <1>2, <2>1, <2>2, LegalInPrefix
<1>5. Loads(next)
  BY <1>4, LoadsByTurn
<1>6. IsGame(View(next)) /\ Loads(View(next)) /\ SealedWhenOver(View(next))
  <2> HIDE DEF next
  <2> QED
    BY <1>3, <1>5, ViewLoads
<1> QED
  BY <1>6 DEF UndoTurn, GamesInv

LEMMA SavedStep == GamesInv /\ [SavedNext]_saved => GamesInv'
<1> SUFFICES ASSUME GamesInv, [SavedNext]_saved PROVE GamesInv'
  OBVIOUS
<1>1. CASE UNCHANGED saved
  BY <1>1 DEF GamesInv
<1>2. ASSUME NEW g \in saved, ViewGame(g) PROVE GamesInv'
  <2>1. IsGame(g) /\ Loads(g) /\ SealedWhenOver(g)
    BY DEF GamesInv
  <2>2. IsGame(View(g)) /\ Loads(View(g)) /\ SealedWhenOver(View(g))
    BY <2>1, ViewLoads DEF SealedWhenOver
  <2> QED
    BY <1>2, <2>2 DEF ViewGame, GamesInv
<1> QED
  BY <1>1, <1>2, NewGameStep, ApplyTurnStep, UndoTurnStep DEF SavedNext

\* Every saved game the server hands out loads again and is sealed exactly when
\* it is over, whatever clients apply and undo, in whatever order.
THEOREM GamesLoad == ApiSpec => []SavedGamesLoad
<1>1. ApiInit => GamesInv
  BY DEF ApiInit, SavedInit, GamesInv
<1>2. GamesInv /\ [ApiNext]_apiVars => GamesInv'
  BY SavedStep DEF ApiNext, apiVars
<1>3. GamesInv => SavedGamesLoad
  BY DEF GamesInv, SavedGamesLoad, SealedWhenOver
<1> QED
  BY <1>1, <1>2, <1>3, PTL DEF ApiSpec
-----------------------------------------------------------------------------
(* The history of the cluster.                                              *)

HistoryTypes ==
  /\ clock \in Nat \ {0}
  /\ file \in Seq(Seq(Nat)) /\ file # <<>>
  /\ samples \in Seq(Nat)
  /\ compacted \in Nat
  /\ collected \in [Collectors -> Nat]
  /\ writing \in {Idle} \cup (Collectors \X {"record", "newline", "sync"})
  /\ kept \subseteq Nat

\* Nothing is later than the clock.
Past ==
  /\ \A i \in 1..Len(file) : \A x \in ToSet(file[i]) : x <= clock
  /\ \A x \in ToSet(samples) : x <= clock
  /\ compacted <= clock
  /\ \A c \in Collectors : collected[c] <= clock
  /\ \A u \in kept : u <= clock

\* A server that is not up holds nothing.
AtRest ==
  server # "up" =>
    samples = <<>> /\ writing = Idle /\ \A c \in Collectors : collected[c] = 0

\* The collector that holds the mutex found its sample late enough, and its token is
\* in the line that it writes.
Writer ==
  \A c \in Collectors :
    /\ writing # Idle /\ writing[1] = c => server = "up" /\ collected[c] # 0 /\ ~TooSoon(collected[c])
    /\ writing = <<c, "newline">> => collected[c] \in ToSet(file[Len(file)])
    /\ writing = <<c, "sync">> =>
         \E i \in 1..(Len(file) - 1) : collected[c] \in ToSet(file[i])

\* What was acknowledged and is retained is in a line that was ended, and in the memory of
\* a server that is up.
Durable ==
  \A u \in kept : u >= clock - Retention => \E i \in 1..(Len(file) - 1) : u \in ToSet(file[i])
InMemory ==
  server = "up" => \A u \in kept : u >= clock - Retention => u \in ToSet(samples)

\* The last sample is the latest of all; without one, all that was acknowledged is older
\* than what the server looked for when it opened the file.
LatestLast ==
  samples # <<>> =>
    /\ \A x \in ToSet(samples) : x <= samples[Len(samples)]
    /\ \A u \in kept : u <= samples[Len(samples)]
NoneLeft ==
  server = "up" /\ samples = <<>> =>
    /\ \A u \in kept : u < compacted - Retention
    /\ \A c \in Collectors : collected[c] # 0 => collected[c] >= compacted

HistoryInv ==
  /\ HistoryTypes /\ Past /\ AtRest /\ Writer
  /\ Durable /\ InMemory /\ LatestLast /\ NoneLeft
  /\ Spaced

\* What prune_samples leaves: an end of the samples with every sample that is retained.
LEMMA PruneFacts ==
  ASSUME NEW s \in Seq(Nat), NEW now \in Nat
  PROVE  /\ Prune(s, now) \in Seq(Nat)
         /\ ToSet(Prune(s, now)) \subseteq ToSet(s)
         /\ \A x \in ToSet(s) : x >= now - Retention => x \in ToSet(Prune(s, now))
         /\ Prune(s, now) # <<>> =>
              /\ Prune(s, now)[Len(Prune(s, now))] = s[Len(s)] /\ s # <<>>
              /\ \E x \in ToSet(Prune(s, now)) : x >= now - Retention
<1> DEFINE fresh == {i \in 1..Len(s) : s[i] >= now - Retention}
<1>1. CASE fresh = {}
  <2>1. Prune(s, now) = <<>>
    BY <1>1 DEF Prune
  <2>2. \A x \in ToSet(s) : ~(x >= now - Retention)
    BY <1>1 DEF ToSet
  <2> QED BY <2>1, <2>2 DEF ToSet
<1>2. CASE fresh # {}
  <2> DEFINE first == Min(fresh) r == SubSeq(s, first, Len(s))
  <2>1. Prune(s, now) = r
    BY <1>2 DEF Prune
  <2>2. first \in fresh /\ \A i \in fresh : first <= i
    <3>1. fresh \subseteq Nat
      OBVIOUS
    <3> HIDE DEF fresh
    <3> QED BY <1>2, <3>1, LeastIn
  <2> HIDE DEF first
  <2>3. first \in 1..Len(s) /\ Len(s) \in Nat
    BY <2>2
  <2>4. /\ r \in Seq(Nat) /\ Len(r) = Len(s) - first + 1
        /\ \A k \in 1..Len(r) : r[k] = s[first + k - 1] /\ first + k - 1 \in 1..Len(s)
    BY <2>3
  <2>5. ToSet(r) \subseteq ToSet(s)
    BY <2>4 DEF ToSet
  <2>6. ASSUME NEW x \in ToSet(s), x >= now - Retention PROVE x \in ToSet(r)
    <3>1. PICK i \in 1..Len(s) : x = s[i]
      BY DEF ToSet
    <3>2. i - first + 1 \in 1..Len(r) /\ first + (i - first + 1) - 1 = i
      BY <2>2, <2>3, <2>4, <2>6, <3>1
    <3>3. r[i - first + 1] = x
      BY <2>4, <3>1, <3>2
    <3>4. r[i - first + 1] \in ToSet(r)
      <4> HIDE DEF r
      <4> QED BY <2>4, <3>2, ToSetPlaces
    <3> QED BY <3>3, <3>4
  <2>7. r[Len(r)] = s[Len(s)]
    <3>1. Len(r) \in 1..Len(r) /\ first + Len(r) - 1 = Len(s)
      BY <2>3, <2>4
    <3> QED BY <2>4, <3>1
  <2>8. s # <<>> /\ s[first] >= now - Retention /\ s[first] \in ToSet(r)
    BY <2>2, <2>3, <2>6, ToSetPlaces
  <2> QED BY <2>1, <2>4, <2>5, <2>6, <2>7, <2>8
<1> QED BY <1>1, <1>2

\* What a sample that is pushed leaves.
LEMMA PushedFacts ==
  ASSUME HistoryAssumption, samples \in Seq(Nat), NEW t \in Nat
  PROVE  /\ Pushed(t) \in Seq(Nat) /\ Pushed(t) # <<>>
         /\ Pushed(t)[Len(Pushed(t))] = t /\ t \in ToSet(Pushed(t))
         /\ ToSet(Pushed(t)) \subseteq ToSet(samples) \cup {t}
         /\ \A x \in ToSet(samples) : x >= t - Retention => x \in ToSet(Pushed(t))
<1> DEFINE s == Append(samples, t)
<1>1. s \in Seq(Nat) /\ s[Len(s)] = t /\ ToSet(s) = ToSet(samples) \cup {t}
  BY ToSetAppend
<1>2. Pushed(t) = Prune(s, t)
  BY DEF Pushed
<1>3. t >= t - Retention
  BY DEF HistoryAssumption
<1> HIDE DEF s
<1>4. /\ Pushed(t) \in Seq(Nat) /\ ToSet(Pushed(t)) \subseteq ToSet(s)
      /\ \A x \in ToSet(s) : x >= t - Retention => x \in ToSet(Pushed(t))
      /\ Pushed(t) # <<>> => Pushed(t)[Len(Pushed(t))] = s[Len(s)]
  BY <1>1, <1>2, PruneFacts, ZenonT(30)
<1>5. t \in ToSet(Pushed(t))
  BY <1>1, <1>3, <1>4
<1>6. Pushed(t) # <<>>
  BY <1>5 DEF ToSet
<1> QED BY <1>1, <1>4, <1>5, <1>6

\* What the file has when it is rewritten: each sample on a line that was ended.
LEMMA RewrittenFacts ==
  ASSUME NEW s \in Seq(Nat)
  PROVE  /\ Rewritten(s) \in Seq(Seq(Nat)) /\ Rewritten(s) # <<>>
         /\ \A i \in 1..Len(Rewritten(s)) : ToSet(Rewritten(s)[i]) \subseteq ToSet(s)
         /\ \A x \in ToSet(s) : \E i \in 1..(Len(Rewritten(s)) - 1) : x \in ToSet(Rewritten(s)[i])
<1> DEFINE lines == [i \in 1..Len(s) |-> <<s[i]>>]
<1>1. lines \in Seq(Seq(Nat)) /\ Len(lines) = Len(s) /\ << <<>> >> \in Seq(Seq(Nat))
  OBVIOUS
<1>2. \A i \in 1..Len(s) : lines[i] = <<s[i]>> /\ ToSet(lines[i]) = {s[i]}
  BY DEF ToSet
<1> HIDE DEF lines
<1>3. /\ lines \o << <<>> >> \in Seq(Seq(Nat)) /\ Len(lines \o << <<>> >>) = Len(s) + 1
      /\ \A i \in 1..Len(s) : (lines \o << <<>> >>)[i] = lines[i]
      /\ (lines \o << <<>> >>)[Len(s) + 1] = <<>>
  BY <1>1
<1>4. Rewritten(s) = lines \o << <<>> >>
  BY DEF Rewritten, lines
<1> DEFINE f == Rewritten(s)
<1>5. /\ f \in Seq(Seq(Nat)) /\ Len(f) = Len(s) + 1 /\ Len(s) \in Nat
      /\ \A i \in 1..Len(s) : ToSet(f[i]) = {s[i]}
      /\ f[Len(s) + 1] = <<>>
  <2>1. f = lines \o << <<>> >>
    BY <1>4
  <2> HIDE DEF f
  <2>2. \A i \in 1..Len(s) : f[i] = lines[i]
    BY <1>3, <2>1
  <2>3. \A i \in 1..Len(s) : ToSet(f[i]) = {s[i]}
    BY <1>2, <2>2
  <2>4. f \in Seq(Seq(Nat)) /\ Len(f) = Len(s) + 1 /\ Len(s) \in Nat /\ f[Len(s) + 1] = <<>>
    BY <1>3, <2>1
  <2> QED BY <2>3, <2>4
<1> HIDE DEF f
<1>6. f # <<>>
  BY <1>5
<1>7. ASSUME NEW i \in 1..Len(f) PROVE ToSet(f[i]) \subseteq ToSet(s)
  <2>1. CASE i = Len(s) + 1
    BY <1>5, <2>1 DEF ToSet
  <2>2. CASE i # Len(s) + 1
    <3>1. i \in 1..Len(s)
      BY <1>5, <2>2
    <3>2. s[i] \in ToSet(s)
      BY <3>1 DEF ToSet
    <3> QED BY <1>5, <3>1, <3>2
  <2> QED BY <2>1, <2>2
<1>8. ASSUME NEW x \in ToSet(s) PROVE \E i \in 1..(Len(f) - 1) : x \in ToSet(f[i])
  <2>1. PICK i \in 1..Len(s) : x = s[i]
    BY DEF ToSet
  <2>2. i \in 1..(Len(f) - 1)
    BY <1>5, <2>1
  <2>3. x \in ToSet(f[i])
    BY <1>5, <2>1
  <2> QED BY <2>2, <2>3
<1> QED BY <1>5, <1>6, <1>7, <1>8 DEF f

\* What the file has when a token is written at its end.
LEMMA ExtendFacts ==
  ASSUME HistoryTypes, NEW token \in Nat
  PROVE  /\ Extend(token) \in Seq(Seq(Nat)) /\ Extend(token) # <<>>
         /\ Len(Extend(token)) = Len(file) /\ Len(file) \in Nat \ {0}
         /\ \A i \in 1..(Len(file) - 1) : Extend(token)[i] = file[i]
         /\ ToSet(Extend(token)[Len(file)]) = ToSet(file[Len(file)]) \cup {token}
<1>1. Len(file) \in Nat \ {0} /\ Len(file) \in 1..Len(file) /\ file[Len(file)] \in Seq(Nat)
  BY DEF HistoryTypes
<1> DEFINE line == Append(file[Len(file)], token)
<1>2. line \in Seq(Nat) /\ ToSet(line) = ToSet(file[Len(file)]) \cup {token}
  BY <1>1, ToSetAppend
<1> HIDE DEF line
<1>3. Extend(token) = [file EXCEPT ![Len(file)] = line]
  BY DEF Extend, line
<1> DEFINE f == Extend(token)
<1>4. /\ f \in Seq(Seq(Nat)) /\ Len(f) = Len(file) /\ f[Len(file)] = line
      /\ \A i \in 1..(Len(file) - 1) : f[i] = file[i]
  BY <1>1, <1>2, <1>3 DEF HistoryTypes
<1> HIDE DEF f
<1> QED BY <1>1, <1>2, <1>4 DEF f

\* What the collector that holds the mutex writes is far enough from all there is.
LEMMA WriterIsLate ==
  ASSUME HistoryInv, NEW c \in Collectors, writing # Idle, writing[1] = c
  PROVE  /\ collected[c] \in Nat /\ collected[c] <= clock /\ collected[c] # 0
         /\ \A u \in kept : u < collected[c] /\ collected[c] - u >= Interval
         /\ \A x \in ToSet(samples) : x < collected[c]
<1>1. /\ collected[c] \in Nat /\ collected[c] <= clock /\ collected[c] # 0
      /\ server = "up" /\ ~TooSoon(collected[c])
  BY DEF HistoryInv, HistoryTypes, Past, Writer
<1>2. Interval \in Nat \ {0} /\ Retention \in Nat /\ Interval <= Retention
  BY HistoryAssumption
<1>3. kept \subseteq Nat /\ samples \in Seq(Nat) /\ compacted \in Nat
  BY DEF HistoryInv, HistoryTypes
<1> DEFINE t == collected[c]
<1>4. CASE samples = <<>>
  <2>1. \A x \in ToSet(samples) : FALSE
    BY <1>4 DEF ToSet
  <2>2. t >= compacted /\ \A u \in kept : u < compacted - Retention
    BY <1>1, <1>4 DEF HistoryInv, NoneLeft
  <2> HIDE DEF t
  <2>3. \A u \in kept : u < t /\ t - u >= Interval
    <3> SUFFICES ASSUME NEW u \in kept PROVE u < t /\ t - u >= Interval
      OBVIOUS
    <3>1. u \in Nat /\ u < compacted - Retention /\ t \in Nat
      BY <1>1, <1>3, <2>2 DEF t
    <3> QED BY <1>2, <1>3, <2>2, <3>1
  <2> QED BY <1>1, <2>1, <2>3 DEF t
<1>5. CASE samples # <<>>
  <2> DEFINE last == samples[Len(samples)]
  <2>1. ~(t <= last \/ t - last < Interval) /\ last \in Nat
    BY <1>1, <1>3, <1>5 DEF TooSoon, Last
  <2>2. (\A u \in kept : u <= last) /\ \A x \in ToSet(samples) : x <= last
    BY <1>5 DEF HistoryInv, LatestLast
  <2>3. \A x \in ToSet(samples) : x \in Nat
    BY <1>3, ToSetPlaces
  <2> HIDE DEF t, last
  <2>4. t \in Nat
    BY <1>1 DEF t
  <2>5. \A u \in kept : u < t /\ t - u >= Interval
    BY <1>2, <1>3, <2>1, <2>2, <2>4
  <2>6. \A x \in ToSet(samples) : x < t
    BY <1>2, <2>1, <2>2, <2>3, <2>4
  <2> QED BY <1>1, <2>5, <2>6 DEF t
<1> QED BY <1>4, <1>5

LEMMA TickStep == ASSUME HistoryInv, Tick PROVE HistoryInv'
<1>1. /\ clock' = clock + 1 /\ clock \in Nat \ {0} /\ Retention \in Nat
      /\ UNCHANGED <<file, server, samples, compacted, collected, writing, kept>>
  BY HistoryAssumption DEF Tick, HistoryInv, HistoryTypes, storeVars
<1>2. HistoryTypes'
  BY <1>1 DEF HistoryInv, HistoryTypes
<1>3. Past'
  <2>1. \A n \in Nat : n <= clock => n <= clock'
    BY <1>1
  <2>2. \A i \in 1..Len(file) : \A x \in ToSet(file[i]) : x \in Nat
    <3> SUFFICES ASSUME NEW i \in 1..Len(file) PROVE \A x \in ToSet(file[i]) : x \in Nat
      OBVIOUS
    <3>1. file[i] \in Seq(Nat)
      BY DEF HistoryInv, HistoryTypes
    <3> QED BY <3>1, InToSet
  <2>3. \A x \in ToSet(samples) : x \in Nat
    <3>1. samples \in Seq(Nat)
      BY DEF HistoryInv, HistoryTypes
    <3> QED BY <3>1, InToSet
  <2> QED BY <1>1, <2>1, <2>2, <2>3 DEF HistoryInv, HistoryTypes, Past
<1>4. (AtRest /\ Writer /\ LatestLast /\ NoneLeft /\ Spaced)'
  BY <1>1 DEF HistoryInv, AtRest, Writer, LatestLast, NoneLeft, Spaced, TooSoon, Last
<1>5. \A u \in kept : u >= clock' - Retention => u >= clock - Retention
  BY <1>1 DEF HistoryInv, HistoryTypes
<1>6. (Durable /\ InMemory)'
  BY <1>1, <1>5 DEF HistoryInv, Durable, InMemory
<1> QED BY <1>2, <1>3, <1>4, <1>6 DEF HistoryInv

LEMMA RefuseStep == ASSUME HistoryInv, Refuse PROVE HistoryInv'
<1>1. /\ server = "down" /\ server' = "refused"
      /\ UNCHANGED <<clock, file, samples, compacted, collected, writing, kept>>
  BY DEF Refuse
<1>2. writing = Idle
  BY <1>1 DEF HistoryInv, AtRest
<1>3. Writer'
  BY <1>1, <1>2 DEF Writer, Idle
<1> QED
  BY <1>1, <1>3 DEF HistoryInv, HistoryTypes, Past, AtRest, Durable, InMemory, LatestLast, NoneLeft, Spaced

\* What a file that loads gives: the records of the lines that were ended are among them,
\* they are of the file, and the last is the greatest.
LEMMA RecordsFacts ==
  ASSUME HistoryTypes, FileLoads(file)
  PROVE  /\ Records(file) \in Seq(Nat)
         /\ \A i \in 1..(Len(file) - 1) : \A u \in ToSet(file[i]) : u \in ToSet(Records(file))
         /\ \A x \in ToSet(Records(file)) : \E i \in 1..Len(file) : x \in ToSet(file[i])
         /\ \A x \in ToSet(Records(file)) : x <= Records(file)[Len(Records(file))]
<1> DEFINE lines == IF Complete(Last(file)) THEN file ELSE Front(file)
           R == Records(file)
<1>1. Len(file) \in Nat \ {0} /\ file \in Seq(Seq(Nat))
  BY DEF HistoryTypes
<1>2. /\ lines \in Seq(Seq(Nat)) /\ Len(lines) \in (Len(file) - 1)..Len(file) /\ Len(lines) \in Nat
      /\ \A i \in 1..Len(lines) : lines[i] = file[i] /\ Complete(file[i]) /\ i \in 1..Len(file)
  <2>0. \A i \in 1..(Len(file) - 1) : Complete(file[i])
    BY DEF FileLoads
  <2>1. CASE Complete(Last(file))
    <3>1. lines = file
      BY <2>1
    <3>2. Complete(file[Len(file)])
      BY <2>1 DEF Last
    <3>3. ASSUME NEW i \in 1..Len(file) PROVE Complete(file[i])
      BY <1>1, <2>0, <3>2
    <3> QED BY <1>1, <3>1, <3>3
  <2>2. CASE ~Complete(Last(file))
    <3>1. lines = Front(file) /\ file # <<>>
      BY <2>2 DEF HistoryTypes
    <3> HIDE DEF lines
    <3>2. /\ lines \in Seq(Seq(Nat)) /\ Len(lines) = Len(file) - 1
          /\ \A i \in 1..Len(lines) : lines[i] = file[i]
      BY <1>1, <3>1, FrontFacts
    <3> HIDE DEF lines
    <3> QED BY <1>1, <2>0, <3>2
  <2> QED BY <2>1, <2>2
<1>3. R = [i \in 1..Len(lines) |-> lines[i][1]]
  BY DEF Records
<1> HIDE DEF lines, R
<1>4. \A i \in 1..Len(lines) : file[i] \in Seq(Nat) /\ Len(file[i]) = 1 /\ file[i][1] \in Nat
  BY <1>1, <1>2 DEF Complete
<1>5. R \in Seq(Nat) /\ Len(R) = Len(lines) /\ \A i \in 1..Len(R) : R[i] = file[i][1]
  <2>1. \A i \in 1..Len(lines) : lines[i][1] = file[i][1] /\ lines[i][1] \in Nat
    BY <1>2, <1>4
  <2>2. R \in [1..Len(lines) -> Nat] /\ \A i \in 1..Len(lines) : R[i] = file[i][1]
    BY <1>3, <2>1
  <2>3. R \in Seq(Nat) /\ Len(R) = Len(lines)
    <3>1. ASSUME NEW n \in Nat, NEW r \in [1..n -> Nat] PROVE r \in Seq(Nat) /\ Len(r) = n
      OBVIOUS
    <3> QED BY <1>2, <2>2, <3>1
  <2> QED BY <2>2, <2>3
<1>6. ASSUME NEW i \in 1..(Len(file) - 1), NEW u \in ToSet(file[i]) PROVE u \in ToSet(R)
  <2>1. i \in 1..Len(R) /\ R[i] = file[i][1] /\ file[i] \in Seq(Nat) /\ Len(file[i]) = 1
    BY <1>1, <1>2, <1>4, <1>5, SMTT(30)
  <2>2. PICK k \in 1..Len(file[i]) : u = file[i][k]
    BY <2>1, ToSetPlaces
  <2>3. k = 1
    BY <2>1
  <2> QED BY <1>5, <2>1, <2>2, <2>3, ToSetPlaces
<1>7. ASSUME NEW x \in ToSet(R) PROVE \E i \in 1..Len(file) : x \in ToSet(file[i])
  <2>1. PICK i \in 1..Len(R) : x = R[i]
    BY <1>5, ToSetPlaces
  <2>2. /\ i \in 1..Len(file) /\ x = file[i][1] /\ file[i] \in Seq(Nat) /\ 1 \in 1..Len(file[i])
    BY <1>2, <1>4, <1>5, <2>1
  <2>3. x \in ToSet(file[i])
    BY <2>2, ToSetPlaces
  <2> QED BY <2>2, <2>3
<1>8. \A i \in 1..(Len(R) - 1) : R[i] < R[i + 1]
  BY DEF FileLoads, Increasing, R
<1>9. ASSUME NEW x \in ToSet(R) PROVE x <= R[Len(R)]
  <2>1. PICK i \in 1..Len(R) : x = R[i]
    BY <1>5, ToSetPlaces
  <2>2. R[i] <= R[Len(R)]
    BY <1>5, <1>8, LastGreatest
  <2> QED BY <2>1, <2>2
<1> QED BY <1>5, <1>6, <1>7, <1>9 DEF R

LEMMA OpenStep == ASSUME HistoryInv, Open PROVE HistoryInv'
<1> DEFINE R == Records(file)
<1>1. /\ server = "down" /\ server' = "up" /\ compacted' = clock /\ samples' = Prune(R, clock)
      /\ file' = Rewritten(samples') \/ (file' = file /\ samples' = R)
      /\ UNCHANGED <<clock, collected, writing, kept>>
  BY DEF Open
<1>2. HistoryTypes /\ clock \in Nat /\ Retention \in Nat
  BY HistoryAssumption DEF HistoryInv, HistoryTypes
<1>3. /\ R \in Seq(Nat)
      /\ \A i \in 1..(Len(file) - 1) : \A u \in ToSet(file[i]) : u \in ToSet(R)
      /\ \A x \in ToSet(R) : \E i \in 1..Len(file) : x \in ToSet(file[i])
      /\ \A x \in ToSet(R) : x <= R[Len(R)]
  BY <1>2, RecordsFacts DEF Open
<1> HIDE DEF R
<1> DEFINE s == samples'
<1>4. /\ s \in Seq(Nat) /\ ToSet(s) \subseteq ToSet(R)
      /\ \A x \in ToSet(R) : x >= clock - Retention => x \in ToSet(s)
      /\ s # <<>> => /\ s[Len(s)] = R[Len(R)] /\ R # <<>>
                     /\ \E x \in ToSet(s) : x >= clock - Retention
  BY <1>1, <1>2, <1>3, PruneFacts
<1>5. writing = Idle /\ \A c \in Collectors : collected[c] = 0
  BY <1>1 DEF HistoryInv, AtRest
<1>6. \A x \in ToSet(s) : x \in Nat /\ x <= clock
  <2>1. \A x \in ToSet(s) : x \in Nat
    BY <1>4, InToSet
  <2>2. \A x \in ToSet(R) : x <= clock
    BY <1>3 DEF HistoryInv, Past
  <2> QED BY <1>4, <2>1, <2>2
<1>7. \A u \in kept : u \in Nat /\ (u >= clock - Retention => u \in ToSet(s))
  <2> SUFFICES ASSUME NEW u \in kept PROVE u \in Nat /\ (u >= clock - Retention => u \in ToSet(s))
    OBVIOUS
  <2>1. u \in Nat
    BY <1>2 DEF HistoryTypes
  <2>2. CASE u >= clock - Retention
    <3>1. PICK i \in 1..(Len(file) - 1) : u \in ToSet(file[i])
      BY <2>2 DEF HistoryInv, Durable
    <3> QED BY <1>3, <1>4, <2>1, <2>2, <3>1
  <2> QED BY <2>1, <2>2
<1>8. /\ Rewritten(s) \in Seq(Seq(Nat)) /\ Rewritten(s) # <<>>
      /\ \A i \in 1..Len(Rewritten(s)) : ToSet(Rewritten(s)[i]) \subseteq ToSet(s)
      /\ \A x \in ToSet(s) : \E i \in 1..(Len(Rewritten(s)) - 1) : x \in ToSet(Rewritten(s)[i])
  BY <1>4, RewrittenFacts
<1>9. HistoryTypes' /\ AtRest'
  <2>1. file' \in Seq(Seq(Nat)) /\ file' # <<>>
    BY <1>1, <1>2, <1>8 DEF HistoryTypes
  <2> QED BY <1>1, <1>2, <1>4, <2>1 DEF HistoryTypes, AtRest
<1>10. \A i \in 1..Len(file') : \A x \in ToSet(file'[i]) : x <= clock
  <2>1. CASE file' = file
    BY <2>1 DEF HistoryInv, Past
  <2>2. CASE file' = Rewritten(s)
    BY <1>6, <1>8, <2>2
  <2> QED BY <1>1, <2>1, <2>2
<1>11. Past'
  BY <1>1, <1>2, <1>6, <1>10 DEF HistoryInv, Past
<1>12. Writer'
  BY <1>1, <1>5 DEF Writer, Idle
<1>13. \A u \in kept : u >= clock - Retention => \E i \in 1..(Len(file') - 1) : u \in ToSet(file'[i])
  <2>1. CASE file' = file
    BY <2>1 DEF HistoryInv, Durable
  <2>2. CASE file' = Rewritten(s)
    BY <1>7, <1>8, <2>2
  <2> QED BY <1>1, <2>1, <2>2
<1>14. Durable' /\ InMemory'
  BY <1>1, <1>7, <1>13 DEF Durable, InMemory
<1>15. LatestLast'
  <2> SUFFICES ASSUME s # <<>> PROVE (\A x \in ToSet(s) : x <= s[Len(s)]) /\ \A u \in kept : u <= s[Len(s)]
    BY <1>1 DEF LatestLast
  <2>1. \A x \in ToSet(s) : x <= s[Len(s)]
    BY <1>3, <1>4
  <2>2. PICK x \in ToSet(s) : x >= clock - Retention
    BY <1>4
  <2>3. s[Len(s)] \in Nat /\ x \in Nat /\ x <= s[Len(s)]
    BY <1>4, <1>6, <2>1
  <2>4. ASSUME NEW u \in kept PROVE u <= s[Len(s)]
    <3>1. CASE u >= clock - Retention
      BY <1>7, <2>1, <3>1
    <3>2. CASE ~(u >= clock - Retention)
      <4> HIDE DEF s
      <4> QED BY <1>2, <1>7, <2>2, <2>3, <3>2
    <3> QED BY <3>1, <3>2
  <2> QED BY <2>1, <2>4
<1>16. NoneLeft'
  <2> SUFFICES ASSUME s = <<>> PROVE \A u \in kept : u < clock - Retention
    BY <1>1, <1>5 DEF NoneLeft
  <2>1. \A x \in ToSet(s) : FALSE
    BY DEF ToSet
  <2> QED BY <1>2, <1>7, <2>1
<1>17. Spaced'
  BY <1>1 DEF HistoryInv, Spaced
<1> QED
  BY <1>9, <1>11, <1>12, <1>14, <1>15, <1>16, <1>17 DEF HistoryInv

LEMMA CollectStep == ASSUME HistoryInv, NEW c \in Collectors, Collect(c) PROVE HistoryInv'
<1>1. /\ server = "up" /\ collected[c] = 0 /\ collected' = [collected EXCEPT ![c] = clock]
      /\ UNCHANGED <<clock, file, server, samples, compacted, writing, kept>>
  BY DEF Collect
<1>2. /\ collected'[c] = clock /\ \A d \in Collectors \ {c} : collected'[d] = collected[d]
      /\ collected' \in [Collectors -> Nat] /\ clock \in Nat \ {0} /\ compacted <= clock
  BY <1>1 DEF HistoryInv, HistoryTypes, Past
<1>3. HistoryTypes' /\ Past' /\ AtRest'
  <2>1. clock <= clock
    BY <1>2
  <2> QED BY <1>1, <1>2, <2>1 DEF HistoryInv, HistoryTypes, Past, AtRest
<1>4. Writer'
  <2>1. ~(writing # Idle /\ writing[1] = c)
    BY <1>1 DEF HistoryInv, Writer
  <2>2. \A step \in {"record", "newline", "sync"} : writing # <<c, step>>
    <3> SUFFICES ASSUME NEW step \in {"record", "newline", "sync"}, writing = <<c, step>> PROVE FALSE
      OBVIOUS
    <3>1. writing[1] = c /\ writing[2] # ""
      OBVIOUS
    <3> QED BY <2>1, <3>1 DEF Idle
  <2> QED BY <1>1, <1>2, <2>1, <2>2 DEF HistoryInv, Writer, TooSoon, Last
<1>5. (Durable /\ InMemory /\ LatestLast /\ Spaced)'
  BY <1>1 DEF HistoryInv, Durable, InMemory, LatestLast, Spaced
<1>6. NoneLeft'
  BY <1>1, <1>2 DEF HistoryInv, NoneLeft
<1> QED BY <1>3, <1>4, <1>5, <1>6 DEF HistoryInv

LEMMA SkipStep == ASSUME HistoryInv, NEW c \in Collectors, Skip(c) PROVE HistoryInv'
<1>1. /\ writing = Idle /\ collected' = [collected EXCEPT ![c] = 0]
      /\ UNCHANGED <<clock, file, server, samples, compacted, writing, kept>>
  BY DEF Skip
<1>2. /\ collected'[c] = 0 /\ \A d \in Collectors \ {c} : collected'[d] = collected[d]
      /\ collected' \in [Collectors -> Nat] /\ clock \in Nat
  BY <1>1 DEF HistoryInv, HistoryTypes
<1>3. HistoryTypes' /\ Past' /\ AtRest'
  BY <1>1, <1>2 DEF HistoryInv, HistoryTypes, Past, AtRest
<1>4. Writer'
  BY <1>1 DEF Writer, Idle
<1>5. (Durable /\ InMemory /\ LatestLast /\ NoneLeft /\ Spaced)'
  BY <1>1, <1>2 DEF HistoryInv, Durable, InMemory, LatestLast, NoneLeft, Spaced
<1> QED BY <1>3, <1>4, <1>5 DEF HistoryInv

LEMMA RecordStep == ASSUME HistoryInv, NEW c \in Collectors, Record(c) PROVE HistoryInv'
<1>1. /\ collected[c] # 0 /\ ~TooSoon(collected[c]) /\ writing' = <<c, "record">>
      /\ UNCHANGED <<clock, file, server, samples, compacted, collected, kept>>
  BY DEF Record
<1>2. server = "up"
  BY <1>1 DEF HistoryInv, AtRest
<1>3. HistoryTypes' /\ Past' /\ AtRest'
  BY <1>1, <1>2 DEF HistoryInv, HistoryTypes, Past, AtRest
<1>4. Writer'
  <2>1. \A d \in Collectors : writing'[1] = d => d = c
    BY <1>1
  <2>2. \A d \in Collectors : writing' # <<d, "newline">> /\ writing' # <<d, "sync">>
    BY <1>1
  <2>3. \A d \in Collectors : TooSoon(collected[d])' <=> TooSoon(collected[d])
    BY <1>1 DEF TooSoon, Last
  <2> QED BY <1>1, <1>2, <2>1, <2>2, <2>3 DEF Writer
<1>5. (Durable /\ InMemory /\ LatestLast /\ NoneLeft /\ Spaced)'
  BY <1>1, <1>2 DEF HistoryInv, Durable, InMemory, LatestLast, NoneLeft, Spaced
<1> QED BY <1>3, <1>4, <1>5 DEF HistoryInv

\* Nothing that was ended is lost when a token is written at the end of the file.
LEMMA ExtendKeeps ==
  ASSUME HistoryInv, NEW token \in Nat, token <= clock
  PROVE  /\ Extend(token) \in Seq(Seq(Nat)) /\ Extend(token) # <<>> /\ Len(Extend(token)) = Len(file)
         /\ \A i \in 1..Len(file) : \A x \in ToSet(Extend(token)[i]) : x <= clock
         /\ \A u \in kept : u >= clock - Retention =>
              \E i \in 1..(Len(file) - 1) : u \in ToSet(Extend(token)[i])
<1> DEFINE f == Extend(token)
<1>1. /\ f \in Seq(Seq(Nat)) /\ f # <<>> /\ Len(f) = Len(file) /\ Len(file) \in Nat \ {0}
      /\ \A i \in 1..(Len(file) - 1) : f[i] = file[i]
      /\ ToSet(f[Len(file)]) = ToSet(file[Len(file)]) \cup {token}
  BY ExtendFacts DEF HistoryInv
<1> HIDE DEF f
<1>2. ASSUME NEW i \in 1..Len(file), NEW x \in ToSet(f[i]) PROVE x <= clock
  <2>1. CASE i = Len(file)
    BY <1>1, <1>2, <2>1 DEF HistoryInv, Past
  <2>2. CASE i # Len(file)
    <3>1. i \in 1..(Len(file) - 1)
      BY <1>1, <2>2
    <3> QED BY <1>1, <1>2, <3>1 DEF HistoryInv, Past
  <2> QED BY <2>1, <2>2
<1>3. ASSUME NEW u \in kept, u >= clock - Retention
      PROVE  \E i \in 1..(Len(file) - 1) : u \in ToSet(f[i])
  <2>1. PICK i \in 1..(Len(file) - 1) : u \in ToSet(file[i])
    BY <1>3 DEF HistoryInv, Durable
  <2>2. u \in ToSet(f[i])
    BY <1>1, <2>1
  <2> QED BY <2>2
<1> QED BY <1>1, <1>2, <1>3 DEF f

LEMMA WriteRecordStep == ASSUME HistoryInv, NEW c \in Collectors, WriteRecord(c) PROVE HistoryInv'
<1>1. /\ writing = <<c, "record">> /\ file' = Extend(collected[c]) /\ writing' = <<c, "newline">>
      /\ UNCHANGED <<clock, server, samples, compacted, collected, kept>>
  BY DEF WriteRecord
<1>2. writing # Idle /\ writing[1] = c
  BY <1>1 DEF Idle
<1>3. /\ collected[c] \in Nat /\ collected[c] <= clock /\ collected[c] # 0
      /\ server = "up" /\ ~TooSoon(collected[c])
  BY <1>2 DEF HistoryInv, HistoryTypes, Past, Writer
<1>4. /\ file' \in Seq(Seq(Nat)) /\ file' # <<>> /\ Len(file') = Len(file)
      /\ \A i \in 1..Len(file) : \A x \in ToSet(file'[i]) : x <= clock
      /\ \A u \in kept : u >= clock - Retention =>
           \E i \in 1..(Len(file) - 1) : u \in ToSet(file'[i])
  BY <1>1, <1>3, ExtendKeeps
<1>5. collected[c] \in ToSet(file'[Len(file)])
  BY <1>1, <1>3, ExtendFacts DEF HistoryInv
<1>6. HistoryTypes' /\ Past' /\ AtRest'
  BY <1>1, <1>3, <1>4 DEF HistoryInv, HistoryTypes, Past, AtRest
<1>7. Writer'
  <2>1. \A d \in Collectors : writing'[1] = d => d = c
    BY <1>1
  <2>2. \A d \in Collectors : writing' # <<d, "sync">> /\ (writing' = <<d, "newline">> => d = c)
    BY <1>1
  <2>3. \A d \in Collectors : TooSoon(collected[d])' <=> TooSoon(collected[d])
    BY <1>1 DEF TooSoon, Last
  <2> QED BY <1>1, <1>3, <1>4, <1>5, <2>1, <2>2, <2>3 DEF Writer
<1>8. (Durable /\ InMemory /\ LatestLast /\ NoneLeft /\ Spaced)'
  BY <1>1, <1>4 DEF HistoryInv, Durable, InMemory, LatestLast, NoneLeft, Spaced
<1> QED BY <1>6, <1>7, <1>8 DEF HistoryInv

LEMMA WriteNewlineStep == ASSUME HistoryInv, NEW c \in Collectors, WriteNewline(c) PROVE HistoryInv'
<1>1. /\ writing = <<c, "newline">> /\ file' = Append(file, <<>>) /\ writing' = <<c, "sync">>
      /\ UNCHANGED <<clock, server, samples, compacted, collected, kept>>
  BY DEF WriteNewline
<1>2. writing # Idle /\ writing[1] = c
  BY <1>1 DEF Idle
<1>3. /\ collected[c] # 0 /\ server = "up" /\ ~TooSoon(collected[c])
      /\ collected[c] \in ToSet(file[Len(file)])
  BY <1>1, <1>2 DEF HistoryInv, Writer
<1>4. /\ file' \in Seq(Seq(Nat)) /\ file' # <<>> /\ Len(file') = Len(file) + 1
      /\ Len(file) \in Nat \ {0} /\ file'[Len(file) + 1] = <<>>
      /\ \A i \in 1..Len(file) : file'[i] = file[i]
  <2>1. file \in Seq(Seq(Nat)) /\ file # <<>> /\ <<>> \in Seq(Nat)
    BY DEF HistoryInv, HistoryTypes
  <2>2. file' \in Seq(Seq(Nat)) /\ Len(file') = Len(file) + 1 /\ file'[Len(file) + 1] = <<>>
        /\ \A i \in 1..Len(file) : file'[i] = file[i]
    BY <1>1, <2>1, AppendedLines
  <2>3. Len(file) \in Nat \ {0}
    BY <2>1
  <2>4. file' # <<>>
    BY <2>2, <2>3
  <2> QED BY <2>2, <2>3, <2>4
<1>5. \A i \in 1..Len(file') : \A x \in ToSet(file'[i]) : x <= clock
  <2> SUFFICES ASSUME NEW i \in 1..Len(file'), NEW x \in ToSet(file'[i]) PROVE x <= clock
    OBVIOUS
  <2>1. CASE i = Len(file) + 1
    BY <1>4, <2>1 DEF ToSet
  <2>2. CASE i # Len(file) + 1
    <3>1. i \in 1..Len(file)
      BY <1>4, <2>2
    <3> QED BY <1>4, <3>1 DEF HistoryInv, Past
  <2> QED BY <2>1, <2>2
<1>6. Len(file) \in 1..(Len(file') - 1) /\ \A i \in 1..(Len(file) - 1) :
        i \in 1..(Len(file') - 1) /\ file'[i] = file[i]
  BY <1>4
<1>7. HistoryTypes' /\ Past' /\ AtRest'
  BY <1>1, <1>3, <1>4, <1>5 DEF HistoryInv, HistoryTypes, Past, AtRest
<1>8. Writer'
  <2>1. \A d \in Collectors : writing'[1] = d => d = c
    BY <1>1
  <2>2. \A d \in Collectors : writing' # <<d, "newline">> /\ (writing' = <<d, "sync">> => d = c)
    BY <1>1
  <2>3. \A d \in Collectors : TooSoon(collected[d])' <=> TooSoon(collected[d])
    BY <1>1 DEF TooSoon, Last
  <2>4. \E i \in 1..(Len(file') - 1) : collected[c] \in ToSet(file'[i])
    <3>1. Len(file) \in 1..Len(file)
      BY <1>4
    <3>2. collected[c] \in ToSet(file'[Len(file)])
      BY <1>3, <1>4, <3>1
    <3> QED BY <1>6, <3>2
  <2> QED BY <1>1, <1>3, <2>1, <2>2, <2>3, <2>4 DEF Writer
<1>9. Durable'
  <2> SUFFICES ASSUME NEW u \in kept, u >= clock - Retention
               PROVE  \E i \in 1..(Len(file') - 1) : u \in ToSet(file'[i])
    BY <1>1 DEF Durable
  <2>1. PICK i \in 1..(Len(file) - 1) : u \in ToSet(file[i])
    BY DEF HistoryInv, Durable
  <2>2. i \in 1..(Len(file') - 1) /\ u \in ToSet(file'[i])
    BY <1>6, <2>1
  <2> QED BY <2>2
<1>10. (InMemory /\ LatestLast /\ NoneLeft /\ Spaced)'
  BY <1>1 DEF HistoryInv, InMemory, LatestLast, NoneLeft, Spaced
<1> QED BY <1>7, <1>8, <1>9, <1>10 DEF HistoryInv

\* The sample that was written is pushed.
LEMMA PushedKeeps ==
  ASSUME HistoryInv, NEW c \in Collectors, writing # Idle, writing[1] = c
  PROVE  /\ Pushed(collected[c]) \in Seq(Nat) /\ Pushed(collected[c]) # <<>>
         /\ Pushed(collected[c])[Len(Pushed(collected[c]))] = collected[c]
         /\ collected[c] \in ToSet(Pushed(collected[c]))
         /\ \A x \in ToSet(Pushed(collected[c])) : x <= collected[c] /\ x <= clock
         /\ \A u \in kept : u >= clock - Retention => u \in ToSet(Pushed(collected[c]))
<1> DEFINE t == collected[c] s == Pushed(t)
<1>1. /\ t \in Nat /\ t <= clock /\ clock \in Nat /\ samples \in Seq(Nat)
      /\ \A x \in ToSet(samples) : x < t
      /\ server = "up" /\ kept \subseteq Nat /\ Retention \in Nat
  BY WriterIsLate, HistoryAssumption DEF HistoryInv, HistoryTypes, Writer
<1> HIDE DEF t
<1>2. /\ s \in Seq(Nat) /\ s # <<>> /\ s[Len(s)] = t /\ t \in ToSet(s)
      /\ ToSet(s) \subseteq ToSet(samples) \cup {t}
      /\ \A x \in ToSet(samples) : x >= t - Retention => x \in ToSet(s)
  BY <1>1, PushedFacts, HistoryAssumption
<1>3. \A x \in ToSet(samples) : x \in Nat
  BY <1>1, InToSet
<1> HIDE DEF s
<1>4. \A x \in ToSet(s) : x <= t /\ x <= clock
  BY <1>1, <1>2, <1>3
<1>5. \A u \in kept : u >= clock - Retention => u \in ToSet(samples) /\ u >= t - Retention
  BY <1>1 DEF HistoryInv, InMemory
<1> QED BY <1>2, <1>4, <1>5 DEF s, t

LEMMA RecordedStep == ASSUME HistoryInv, NEW c \in Collectors, Recorded(c) PROVE HistoryInv'
<1> DEFINE t == collected[c] s == Pushed(t)
<1>1. /\ writing = <<c, "sync">> /\ samples' = s
      /\ compacted' \in {t, compacted} /\ file' \in {Rewritten(s), file}
      /\ kept' = kept \cup {t} /\ writing' = Idle /\ collected' = [collected EXCEPT ![c] = 0]
      /\ UNCHANGED <<clock, server>>
  BY DEF Recorded
<1>2. writing # Idle /\ writing[1] = c
  BY <1>1 DEF Idle
<1>3. /\ s \in Seq(Nat) /\ s # <<>> /\ s[Len(s)] = t /\ t \in ToSet(s)
      /\ \A x \in ToSet(s) : x <= t /\ x <= clock
      /\ \A u \in kept : u >= clock - Retention => u \in ToSet(s)
  BY <1>2, PushedKeeps
<1>4. t \in Nat /\ t <= clock /\ \A u \in kept : u < t /\ t - u >= Interval
  BY <1>2, WriterIsLate
<1>5. server = "up" /\ \E i \in 1..(Len(file) - 1) : t \in ToSet(file[i])
  BY <1>1, <1>2 DEF HistoryInv, Writer
<1>6. /\ \A d \in Collectors : collected'[d] \in {0, collected[d]}
      /\ collected' \in [Collectors -> Nat] /\ clock \in Nat
  BY <1>1 DEF HistoryInv, HistoryTypes
<1> HIDE DEF s, t
<1>7. /\ Rewritten(s) \in Seq(Seq(Nat)) /\ Rewritten(s) # <<>>
      /\ \A i \in 1..Len(Rewritten(s)) : ToSet(Rewritten(s)[i]) \subseteq ToSet(s)
      /\ \A x \in ToSet(s) : \E i \in 1..(Len(Rewritten(s)) - 1) : x \in ToSet(Rewritten(s)[i])
  BY <1>3, RewrittenFacts
<1>8. HistoryTypes' /\ AtRest'
  <2>1. file' \in Seq(Seq(Nat)) /\ file' # <<>>
    BY <1>1, <1>7 DEF HistoryInv, HistoryTypes
  <2>2. compacted' \in Nat /\ kept' \subseteq Nat
    BY <1>1, <1>4 DEF HistoryInv, HistoryTypes
  <2> QED BY <1>1, <1>3, <1>5, <1>6, <2>1, <2>2 DEF HistoryInv, HistoryTypes, AtRest
<1>9. Past'
  <2>1. \A i \in 1..Len(file') : \A x \in ToSet(file'[i]) : x <= clock
    <3>1. CASE file' = file
      BY <3>1 DEF HistoryInv, Past
    <3>2. CASE file' = Rewritten(s)
      BY <1>3, <1>7, <3>2
    <3> QED BY <1>1, <3>1, <3>2
  <2>2. compacted' <= clock /\ \A u \in kept' : u <= clock
    BY <1>1, <1>4 DEF HistoryInv, Past
  <2>3. \A d \in Collectors : collected'[d] <= clock
    BY <1>6 DEF HistoryInv, Past
  <2> QED BY <1>1, <1>3, <2>1, <2>2, <2>3 DEF Past
<1>10. Writer'
  BY <1>1 DEF Writer, Idle
<1>11. Durable'
  <2> SUFFICES ASSUME NEW u \in kept \cup {t}, u >= clock - Retention
               PROVE  \E i \in 1..(Len(file') - 1) : u \in ToSet(file'[i])
    BY <1>1 DEF Durable
  <2>1. CASE file' = file
    BY <1>5, <2>1 DEF HistoryInv, Durable
  <2>2. CASE file' = Rewritten(s)
    BY <1>3, <1>7, <2>2
  <2> QED BY <1>1, <2>1, <2>2
<1>12. InMemory'
  BY <1>1, <1>3 DEF InMemory
<1>13. LatestLast' /\ NoneLeft'
  <2>1. \A u \in kept \cup {t} : u <= t
    BY <1>4 DEF HistoryInv, HistoryTypes
  <2> QED BY <1>1, <1>3, <2>1 DEF LatestLast, NoneLeft
<1>14. Spaced'
  <2> SUFFICES ASSUME NEW u \in kept \cup {t}, NEW v \in kept \cup {t}, u < v PROVE v - u >= Interval
    BY <1>1 DEF Spaced
  <2>1. kept \subseteq Nat
    BY DEF HistoryInv, HistoryTypes
  <2> QED BY <1>4, <2>1 DEF HistoryInv, Spaced
<1> QED
  BY <1>8, <1>9, <1>10, <1>11, <1>12, <1>13, <1>14 DEF HistoryInv

LEMMA RewriteFailsStep == ASSUME HistoryInv, NEW c \in Collectors, RewriteFails(c) PROVE HistoryInv'
<1> DEFINE t == collected[c] s == Pushed(t)
<1>1. /\ writing = <<c, "sync">> /\ samples' = s
      /\ writing' = Idle /\ collected' = [collected EXCEPT ![c] = 0]
      /\ UNCHANGED <<clock, file, server, compacted, kept>>
  BY DEF RewriteFails
<1>2. writing # Idle /\ writing[1] = c
  BY <1>1 DEF Idle
<1>3. /\ s \in Seq(Nat) /\ s # <<>> /\ s[Len(s)] = t
      /\ \A x \in ToSet(s) : x <= t /\ x <= clock
      /\ \A u \in kept : u >= clock - Retention => u \in ToSet(s)
  BY <1>2, PushedKeeps
<1>4. t \in Nat /\ \A u \in kept : u < t
  BY <1>2, WriterIsLate
<1>5. server = "up"
  BY <1>2 DEF HistoryInv, Writer
<1>6. /\ \A d \in Collectors : collected'[d] \in {0, collected[d]}
      /\ collected' \in [Collectors -> Nat] /\ clock \in Nat
  BY <1>1 DEF HistoryInv, HistoryTypes
<1> HIDE DEF s, t
<1>7. HistoryTypes' /\ AtRest'
  BY <1>1, <1>3, <1>5, <1>6 DEF HistoryInv, HistoryTypes, AtRest
<1>8. Past'
  <2>1. \A d \in Collectors : collected'[d] <= clock
    BY <1>6 DEF HistoryInv, Past
  <2> QED BY <1>1, <1>3, <2>1 DEF HistoryInv, Past
<1>9. Writer'
  BY <1>1 DEF Writer, Idle
<1>10. LatestLast' /\ NoneLeft'
  <2>1. \A u \in kept : u <= t
    BY <1>4 DEF HistoryInv, HistoryTypes
  <2> QED BY <1>1, <1>3, <2>1 DEF LatestLast, NoneLeft
<1>11. (Durable /\ InMemory /\ Spaced)'
  BY <1>1, <1>3 DEF HistoryInv, Durable, InMemory, Spaced
<1> QED BY <1>7, <1>8, <1>9, <1>10, <1>11 DEF HistoryInv

LEMMA AppendFailsStep == ASSUME HistoryInv, NEW c \in Collectors, AppendFails(c) PROVE HistoryInv'
<1>1. /\ file' \in {file, Extend(Fragment)} /\ writing' = Idle
      /\ collected' = [collected EXCEPT ![c] = 0]
      /\ UNCHANGED <<clock, server, samples, compacted, kept>>
  BY DEF AppendFails
<1>2. /\ \A d \in Collectors : collected'[d] \in {0, collected[d]}
      /\ collected' \in [Collectors -> Nat] /\ clock \in Nat
  BY <1>1 DEF HistoryInv, HistoryTypes
<1>3. /\ file' \in Seq(Seq(Nat)) /\ file' # <<>> /\ Len(file') = Len(file)
      /\ \A i \in 1..Len(file) : \A x \in ToSet(file'[i]) : x <= clock
      /\ \A u \in kept : u >= clock - Retention =>
           \E i \in 1..(Len(file) - 1) : u \in ToSet(file'[i])
  <2>1. Fragment \in Nat /\ Fragment <= clock
    BY <1>2 DEF Fragment
  <2>2. CASE file' = file
    BY <2>2 DEF HistoryInv, HistoryTypes, Past, Durable
  <2>3. CASE file' = Extend(Fragment)
    BY <2>1, <2>3, ExtendKeeps
  <2> QED BY <1>1, <2>2, <2>3
<1>4. HistoryTypes' /\ AtRest'
  BY <1>1, <1>2, <1>3 DEF HistoryInv, HistoryTypes, AtRest
<1>5. Past'
  <2>1. \A d \in Collectors : collected'[d] <= clock
    BY <1>2 DEF HistoryInv, Past
  <2> QED BY <1>1, <1>3, <2>1 DEF HistoryInv, Past
<1>6. Writer'
  BY <1>1 DEF Writer, Idle
<1>7. (Durable /\ InMemory /\ LatestLast /\ Spaced)'
  BY <1>1, <1>3 DEF HistoryInv, Durable, InMemory, LatestLast, Spaced
<1>8. NoneLeft'
  BY <1>1, <1>2 DEF HistoryInv, NoneLeft
<1> QED BY <1>4, <1>5, <1>6, <1>7, <1>8 DEF HistoryInv

LEMMA HistoryCrashStep == ASSUME HistoryInv, HistoryCrash PROVE HistoryInv'
<1>1. /\ file' \in {file, Extend(Fragment)} /\ writing' = Idle /\ server' = "down"
      /\ samples' = <<>> /\ collected' = [c \in Collectors |-> 0]
      /\ UNCHANGED <<clock, compacted, kept>>
  BY DEF HistoryCrash
<1>2. clock \in Nat
  BY DEF HistoryInv, HistoryTypes
<1>3. /\ file' \in Seq(Seq(Nat)) /\ file' # <<>> /\ Len(file') = Len(file)
      /\ \A i \in 1..Len(file) : \A x \in ToSet(file'[i]) : x <= clock
      /\ \A u \in kept : u >= clock - Retention =>
           \E i \in 1..(Len(file) - 1) : u \in ToSet(file'[i])
  <2>1. Fragment \in Nat /\ Fragment <= clock
    BY <1>2 DEF Fragment
  <2>2. CASE file' = file
    BY <2>2 DEF HistoryInv, HistoryTypes, Past, Durable
  <2>3. CASE file' = Extend(Fragment)
    BY <2>1, <2>3, ExtendKeeps
  <2> QED BY <1>1, <2>2, <2>3
<1>4. HistoryTypes' /\ AtRest'
  BY <1>1, <1>3 DEF HistoryInv, HistoryTypes, AtRest
<1>5. Past'
  <2>1. \A x \in ToSet(samples') : x <= clock
    BY <1>1 DEF ToSet
  <2>2. \A c \in Collectors : collected'[c] <= clock
    BY <1>1, <1>2
  <2> QED BY <1>1, <1>3, <2>1, <2>2 DEF HistoryInv, Past
<1>6. Writer'
  BY <1>1 DEF Writer, Idle
<1>7. (Durable /\ InMemory /\ LatestLast /\ NoneLeft /\ Spaced)'
  BY <1>1, <1>3 DEF HistoryInv, Durable, InMemory, LatestLast, NoneLeft, Spaced
<1> QED BY <1>4, <1>5, <1>6, <1>7 DEF HistoryInv

LEMMA HistoryStepKeeps == HistoryInv /\ [HistoryNext]_historyVars => HistoryInv'
<1> SUFFICES ASSUME HistoryInv, [HistoryNext]_historyVars PROVE HistoryInv'
  OBVIOUS
<1>1. CASE UNCHANGED historyVars
  BY <1>1 DEF historyVars, storeVars, HistoryInv, HistoryTypes, Past, AtRest, Writer, TooSoon, Last,
              Durable, InMemory, LatestLast, NoneLeft, Spaced
<1>2. CASE \E c \in Collectors : Recording(c)
  BY <1>2, CollectStep, SkipStep, RecordStep, WriteRecordStep, WriteNewlineStep, RecordedStep,
     RewriteFailsStep, AppendFailsStep DEF Recording
<1>3. CASE Tick \/ Refuse \/ Open \/ HistoryCrash
  BY <1>3, TickStep, RefuseStep, OpenStep, HistoryCrashStep
<1> QED BY <1>1, <1>2, <1>3 DEF HistoryNext, HistoryStep

LEMMA HistoryStart == HistoryInit => HistoryInv
<1> SUFFICES ASSUME HistoryInit PROVE HistoryInv
  OBVIOUS
<1> USE DEF HistoryInit
<1>1. HistoryTypes
  <2>1. file \in Seq(Seq(Nat)) /\ file # <<>>
    OBVIOUS
  <2>2. samples \in Seq(Nat) /\ collected \in [Collectors -> Nat] /\ clock \in Nat \ {0}
    OBVIOUS
  <2> QED BY <2>1, <2>2 DEF HistoryTypes
<1>2. AtRest /\ Writer
  BY DEF AtRest, Writer, Idle
<1>3. Past
  BY DEF Past, ToSet
<1>4. Durable /\ InMemory /\ LatestLast /\ NoneLeft /\ Spaced
  BY DEF Durable, InMemory, LatestLast, NoneLeft, Spaced
<1> QED BY <1>1, <1>2, <1>3, <1>4 DEF HistoryInv

LEMMA HistoryAlways == ApiSpec => []HistoryInv
<1>1. ApiInit => HistoryInv
  BY HistoryStart DEF ApiInit
<1>2. HistoryInv /\ [ApiNext]_apiVars => HistoryInv'
  BY HistoryStepKeeps DEF ApiNext, apiVars
<1> QED BY <1>1, <1>2, PTL DEF ApiSpec

\* Acknowledged samples are an interval apart, whichever collector records when: the one
\* that holds the mutex has a sample later, by the interval, than all that were
\* acknowledged, since the last in memory is the latest of them or, with none in memory,
\* all were too old for the server to keep when it opened the file.
THEOREM SamplesAreSpaced == ApiSpec => []Spaced
<1>1. HistoryInv => Spaced
  BY DEF HistoryInv
<1> QED BY <1>1, HistoryAlways, PTL

\* An acknowledged sample is in the file while it is retained: it is on a line that was
\* ended, which a torn write does not reach, and a rewrite writes what is in memory.
THEOREM AcknowledgedIsKept == ApiSpec => []AcknowledgedKept
<1>1. HistoryInv => AcknowledgedKept
  <2> SUFFICES ASSUME HistoryInv, NEW t \in kept, t >= clock - Retention
               PROVE  t \in ToSet(FlattenSeq(file))
    BY DEF AcknowledgedKept
  <2>1. PICK i \in 1..(Len(file) - 1) : t \in ToSet(file[i])
    BY DEF HistoryInv, Durable
  <2>2. file \in Seq(Seq(Nat)) /\ i \in DOMAIN file
    BY DEF HistoryInv, HistoryTypes
  <2>3. ToSet(FlattenSeq(file)) = UNION {ToSet(file[j]) : j \in DOMAIN file}
    BY <2>2, ToSetFlatten
  <2> QED BY <2>1, <2>2, <2>3
<1> QED BY <1>1, HistoryAlways, PTL

\* A quotient is the greatest multiple that fits.
LEMMA QuotientBelow ==
  ASSUME NEW n \in Nat, NEW d \in Nat \ {0}, NEW m \in Nat, n < d * m
  PROVE  n \div d \in Nat /\ n \div d < m
  OBVIOUS

LEMMA QuotientAbove ==
  ASSUME NEW n \in Nat, NEW d \in Nat \ {0}
  PROVE  n \div d \in Nat /\ n < d * ((n \div d) + 1)
  OBVIOUS

\* MaxPoints buckets of the width chosen, and one more, are longer than the range.
LEMMA BucketsCover ==
  ASSUME NEW range \in Nat \ {0}, NEW points \in Nat \ {0}
  PROVE  /\ CeilDiv(range, points) \in Nat \ {0}
         /\ range < CeilDiv(range, points) * (points + 1)
<1> DEFINE n == range + points - 1 width == n \div points
<1>1. n \in Nat /\ CeilDiv(range, points) = width
  BY DEF CeilDiv
<1>2. width \in Nat /\ n < points * (width + 1)
  <2> HIDE DEF n
  <2> QED BY <1>1, QuotientAbove
<1> HIDE DEF width
<1>3. points * (width + 1) = points * width + points
  BY <1>2, SMT
<1>4. range - 1 < points * width
  BY <1>2, <1>3, SMT DEF n
<1>5. width # 0
  BY <1>4, SMT
<1>6. width * (points + 1) = points * width + width
  BY <1>2, SMT
<1> QED BY <1>1, <1>2, <1>4, <1>5, <1>6, SMT

LEMMA FewPoints ==
  ASSUME HistoryInv, NEW range \in Nat \ {0}
  PROVE  Cardinality(Points(range)) <= MaxPoints + 1
<1> DEFINE start == IF clock > range THEN clock - range ELSE 0
           width == CeilDiv(range, MaxPoints)
<1>1. clock \in Nat /\ MaxPoints \in Nat \ {0}
  BY HistoryAssumption DEF HistoryInv, HistoryTypes
<1>2. start \in Nat /\ clock - start <= range
  BY <1>1
<1>3. width \in Nat \ {0} /\ range < width * (MaxPoints + 1)
  BY <1>1, BucketsCover
<1>4. samples \in Seq(Nat) /\ \A t \in ToSet(samples) : t <= clock
  BY DEF HistoryInv, HistoryTypes, Past
<1>5. \A t \in ToSet(samples) : t \in Nat
  BY <1>4, InToSet
<1>6. Points(range) = {(t - start) \div width : t \in {u \in ToSet(samples) : u >= start}}
  BY DEF Points
<1> HIDE DEF start, width
<1>7. ASSUME NEW t \in {u \in ToSet(samples) : u >= start} PROVE (t - start) \div width \in 0..MaxPoints
  <2> DEFINE n == t - start
  <2>1. width * (MaxPoints + 1) \in Nat
    BY <1>1, <1>3
  <2>2. n \in Nat /\ n < width * (MaxPoints + 1)
    BY <1>1, <1>2, <1>3, <1>4, <1>5, <1>7, <2>1
  <2> HIDE DEF n
  <2>3. n \div width \in Nat /\ n \div width < MaxPoints + 1
    BY <1>1, <1>3, <2>2, QuotientBelow
  <2>4. n \div width \in 0..MaxPoints
    BY <1>1, <2>3
  <2> QED BY <2>4 DEF n
<1>8. Points(range) \in SUBSET (0..MaxPoints)
  BY <1>6, <1>7
<1>9. IsFiniteSet(0..MaxPoints) /\ Cardinality(0..MaxPoints) = MaxPoints + 1
  BY <1>1, FS_Interval
<1> QED BY <1>8, <1>9, FS_Subset

\* A response has at most one point more than the limit, for any range, limit and clock:
\* the width of a bucket is rounded up, and no sample is later than the clock.
THEOREM PointsAreBounded == ApiSpec => []PointsBounded
<1>1. HistoryInv => PointsBounded
  BY FewPoints, HistoryAssumption DEF PointsBounded
<1> QED BY <1>1, HistoryAlways, PTL

=============================================================================
