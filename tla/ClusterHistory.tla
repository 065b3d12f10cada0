--------------------------- MODULE ClusterHistory ---------------------------
(***************************************************************************)
(* ClusterHistoryStore of cascadia-api/src/cluster_history.rs: samples of  *)
(* the cluster's load, kept in memory under a mutex and appended to a file *)
(* of one record a line.  The sampler task and the handlers of GET         *)
(* /api/v1/cluster collect a sample each and then record it.  The server   *)
(* opens the file when it starts, and cannot start when that fails.        *)
(*                                                                         *)
(* A record is its timestamp.  A file is a sequence of lines and a line a  *)
(* sequence of the records that were written on it; the last line is what  *)
(* follows the last newline, <<>> when nothing does.                       *)
(***************************************************************************)
EXTENDS Integers, Sequences, FiniteSets, SequencesExt

CONSTANTS
  Collectors,  \* the sampler and the handlers
  MaxTime,     \* bound on the clock
  Interval,    \* MINIMUM_RECORD_INTERVAL_MS
  Retention,   \* RETENTION_MS, and the longer of the two query ranges
  Day,         \* the shorter query range
  Compaction,  \* six hours
  MaxPoints,   \* MAX_POINTS_PER_SERIES
  MaxFaults    \* bound on crashes of the server and failing writes

ASSUME HistoryAssumption ==
  /\ {MaxTime, MaxFaults} \subseteq Nat
  /\ {Interval, Retention, Day, Compaction, MaxPoints} \subseteq Nat \ {0}
  /\ Interval <= Retention

VARIABLES
  clock,
  file,
  server,     \* "down", "up", or "refused": open failed and the server did not start
  samples,    \* HistoryState.samples, oldest first
  compacted,  \* HistoryState.last_compaction_unix_ms
  collected,  \* the timestamp of the sample a collector holds; 0 is none
  writing,    \* the collector that holds the mutex, and its next step in append_sample
  kept,       \* the samples record answered Ok(true) for
  faults      \* how many there have been

storeVars == <<file, server, samples, compacted, collected, writing, kept>>
historyVars == <<clock, storeVars, faults>>

Idle == <<"nobody", "">>
Fragment == 0                \* a record cut short
Complete(line) == Len(line) = 1 /\ line[1] # Fragment
Increasing(s) == \A i \in 1..(Len(s) - 1) : s[i] < s[i + 1]

HistoryInit ==
  /\ clock = 1
  /\ file = << <<>> >>
  /\ server = "down"
  /\ samples = <<>>
  /\ compacted = 0
  /\ collected = [c \in Collectors |-> 0]
  /\ writing = Idle
  /\ kept = {}
  /\ faults = 0

Tick ==
  /\ clock < MaxTime
  /\ clock' = clock + 1
  /\ UNCHANGED <<storeVars, faults>>

-----------------------------------------------------------------------------
(* The file.                                                                *)

\* load_samples: every line parses, except a last one without its newline.
Records(f) == LET lines == IF Complete(Last(f)) THEN f ELSE Front(f)
              IN  [i \in 1..Len(lines) |-> lines[i][1]]
FileLoads(f) == (\A i \in 1..(Len(f) - 1) : Complete(f[i])) /\ Increasing(Records(f))
Recovered(f) == Last(f) # <<>> /\ ~Complete(Last(f))

\* prune_samples drops from the front, up to the first sample that is retained.
Prune(s, now) ==
  LET fresh == {i \in 1..Len(s) : s[i] >= now - Retention}
  IN  IF fresh = {} THEN <<>> ELSE SubSeq(s, Min(fresh), Len(s))

\* rewrite_samples: a temporary file and a rename.
Rewritten(s) == [i \in 1..Len(s) |-> <<s[i]>>] \o << <<>> >>

Extend(token) == [file EXCEPT ![Len(file)] = Append(@, token)]

-----------------------------------------------------------------------------
(* The store.                                                               *)

Refuse ==
  /\ server = "down"
  /\ ~FileLoads(file)
  /\ server' = "refused"
  /\ UNCHANGED <<clock, file, samples, compacted, collected, writing, kept, faults>>

Open ==
  /\ server = "down"
  /\ FileLoads(file)
  /\ server' = "up"
  /\ samples' = Prune(Records(file), clock)
  /\ compacted' = clock
  /\ file' = IF Recovered(file) \/ samples' # Records(file)
             THEN Rewritten(samples') ELSE file
  /\ UNCHANGED <<clock, collected, writing, kept, faults>>

\* collect_cluster, before the mutex is taken.
Collect(c) ==
  /\ server = "up"
  /\ collected[c] = 0
  /\ collected' = [collected EXCEPT ![c] = clock]
  /\ UNCHANGED <<clock, file, server, samples, compacted, writing, kept, faults>>

TooSoon(t) == samples # <<>> /\ (t <= Last(samples) \/ t - Last(samples) < Interval)

Skip(c) ==
  /\ collected[c] # 0
  /\ writing = Idle
  /\ TooSoon(collected[c])
  /\ collected' = [collected EXCEPT ![c] = 0]
  /\ UNCHANGED <<clock, file, server, samples, compacted, writing, kept, faults>>

\* Wrong: only a sample with the last one's timestamp is skipped.
RecordUnlessEqual(c) ==
  /\ collected[c] # 0
  /\ writing = Idle
  /\ ~(samples # <<>> /\ collected[c] = Last(samples))
  /\ writing' = <<c, "record">>
  /\ UNCHANGED <<clock, file, server, samples, compacted, collected, kept, faults>>

Record(c) ==
  /\ collected[c] # 0
  /\ writing = Idle
  /\ ~TooSoon(collected[c])
  /\ writing' = <<c, "record">>
  /\ UNCHANGED <<clock, file, server, samples, compacted, collected, kept, faults>>

WriteRecord(c) ==
  /\ writing = <<c, "record">>
  /\ file' = Extend(collected[c])
  /\ writing' = <<c, "newline">>
  /\ UNCHANGED <<clock, server, samples, compacted, collected, kept, faults>>

WriteNewline(c) ==
  /\ writing = <<c, "newline">>
  /\ file' = Append(file, <<>>)
  /\ writing' = <<c, "sync">>
  /\ UNCHANGED <<clock, server, samples, compacted, collected, kept, faults>>

\* The samples after t is pushed, and whether the file is rewritten then.
Pushed(t) == Prune(Append(samples, t), t)
Due(t) == Len(Pushed(t)) <= Len(samples) /\ t - compacted >= Compaction

\* Wrong: the file is rewritten without the sample just appended.
RewriteBeforePush(c) ==
  LET t == collected[c]
  IN /\ writing = <<c, "sync">>
     /\ samples' = Pushed(t)
     /\ compacted' = IF Due(t) THEN t ELSE compacted
     /\ file' = IF Due(t) THEN Rewritten(Prune(samples, t)) ELSE file
     /\ kept' = kept \cup {t}
     /\ writing' = Idle
     /\ collected' = [collected EXCEPT ![c] = 0]
     /\ UNCHANGED <<clock, server, faults>>

\* sync_data, and the rest of record.
Recorded(c) ==
  LET t == collected[c]
  IN /\ writing = <<c, "sync">>
     /\ samples' = Pushed(t)
     /\ compacted' = IF Due(t) THEN t ELSE compacted
     /\ file' = IF Due(t) THEN Rewritten(Pushed(t)) ELSE file
     /\ kept' = kept \cup {t}
     /\ writing' = Idle
     /\ collected' = [collected EXCEPT ![c] = 0]
     /\ UNCHANGED <<clock, server, faults>>

\* The rewrite fails: an error is reported, the sample is in memory and in the file.
RewriteFails(c) ==
  /\ faults < MaxFaults
  /\ faults' = faults + 1
  /\ writing = <<c, "sync">>
  /\ Due(collected[c])
  /\ samples' = Pushed(collected[c])
  /\ writing' = Idle
  /\ collected' = [collected EXCEPT ![c] = 0]
  /\ UNCHANGED <<clock, file, server, compacted, kept>>

\* A write fails part way: the error is reported, and the store goes on.
AppendFails(c) ==
  /\ faults < MaxFaults
  /\ faults' = faults + 1
  /\ writing \in {<<c, "record">>, <<c, "newline">>, <<c, "sync">>}
  /\ file' \in {file} \cup (IF writing[2] = "record" THEN {Extend(Fragment)} ELSE {})
  /\ writing' = Idle
  /\ collected' = [collected EXCEPT ![c] = 0]
  /\ UNCHANGED <<clock, server, samples, compacted, kept>>

\* A record may be in the file in part.
HistoryCrash ==
  /\ faults < MaxFaults
  /\ faults' = faults + 1
  /\ server = "up"
  /\ server' = "down"
  /\ file' \in {file} \cup (IF writing[2] = "record" THEN {Extend(Fragment)} ELSE {})
  /\ samples' = <<>>
  /\ collected' = [c \in Collectors |-> 0]
  /\ writing' = Idle
  /\ UNCHANGED <<clock, compacted, kept>>

Recording(c) ==
  \/ Collect(c) \/ Skip(c) \/ Record(c) \/ WriteRecord(c) \/ WriteNewline(c)
  \/ Recorded(c) \/ RewriteFails(c) \/ AppendFails(c)

HistoryStep == Tick \/ Refuse \/ Open \/ \E c \in Collectors : Recording(c)
HistoryNext == HistoryStep \/ HistoryCrash

HistorySpec == HistoryInit /\ [][HistoryNext]_historyVars

-----------------------------------------------------------------------------
(* Queries: build_response and build_series read the samples of a range and *)
(* give one point for each bucket that has any.                             *)

CeilDiv(n, d) == (n + d - 1) \div d

\* Wrong: samples older than the range are not left out.
PointsOfAll(range) ==
  {(t - (clock - range)) \div CeilDiv(range, MaxPoints) : t \in ToSet(samples)}

Points(range) ==
  LET start == IF clock > range THEN clock - range ELSE 0
  IN {(t - start) \div CeilDiv(range, MaxPoints) : t \in {u \in ToSet(samples) : u >= start}}

-----------------------------------------------------------------------------
(* Properties.                                                              *)

\* Acknowledged samples are at least Interval apart, although samples are
\* collected outside the mutex, in another order than they are recorded, and
\* although writes fail and the server restarts.
Spaced == \A t, u \in kept : t < u => u - t >= Interval

\* A sample that record acknowledged stays in the file, through compactions and
\* restarts, for as long as it is retained.
AcknowledgedKept ==
  \A t \in kept : t >= clock - Retention => t \in ToSet(FlattenSeq(file))

\* A response has at most one point more than MAX_POINTS_PER_SERIES: a sample
\* of this very moment opens a bucket of its own.
PointsBounded == \A range \in {Day, Retention} : Cardinality(Points(range)) <= MaxPoints + 1

\* The server opens the file it wrote itself, whenever it was killed.
OpensItsOwnFile == server # "refused"
=============================================================================
