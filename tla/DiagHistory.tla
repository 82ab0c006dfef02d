---------------------------- MODULE DiagHistory ----------------------------
(***************************************************************************)
(* lib/netcheck/diag/history.py: one file (a shard) for each day, pruned to *)
(* the newest Keep reports over all files.  append(), delete() and clear() *)
(* hold one lock for as long as they work, so each is one step; a report   *)
(* is named after its job.                                                 *)
(***************************************************************************)
EXTENDS JobManager, Lists, SequencesExt

CONSTANTS Keep,
          LastDay,  \* bound: the calendar ends there
          Stored    \* the reports that an earlier process of the service left

ASSUME HistoryAssumption ==
  /\ Keep \in Nat \ {0} /\ LastDay \in Nat \ {0}
  /\ Stored \in Seq(Int \ Jobs) /\ Len(Stored) <= Keep

Reports == Jobs \cup Range(Stored)

VARIABLES
  shards,      \* day -> the reports in its file; none if there is no file
  day,         \* today; the clock is taken to go forward
  diskFailed   \* the last operation ended in an OSError

historyVars == <<shards, day, diskFailed>>
Days == 1..LastDay

HistoryInit ==
  /\ shards = [d \in Days |-> IF d = 1 THEN Stored ELSE <<>>]
  /\ day = 1
  /\ diskFailed = FALSE

Total(h) == Len(FlattenSeq(h))

\* What _prune() leaves of h when it drops `excess' reports, the oldest days
\* first: `skip' of them are dropped before day d is reached.
DropOldest(h, excess) ==
  [d \in Days |->
     LET skip == Total(SubSeq(h, 1, d - 1))
     IN  SubSeq(h[d], (IF excess > skip THEN excess - skip ELSE 0) + 1, Len(h[d]))]

PruneEachDay(h) ==
  [d \in Days |-> SubSeq(h[d], (IF Len(h[d]) > Keep THEN Len(h[d]) - Keep ELSE 0) + 1, Len(h[d]))]
Prune(h) == DropOldest(h, Total(h) - Keep)

Written(j) == [shards EXCEPT ![day] = Append(@, j)]

AppendReport(j) ==
  /\ shards' = Prune(Written(j))
  /\ diskFailed' = FALSE
  /\ UNCHANGED day

\* The new file cannot be written; or it is, and the files of the pruning only
\* in part, because they are written one after the other.
AppendFails(j) ==
  /\ \/ UNCHANGED shards
     \/ \E n \in Keep..Total(Written(j)) : shards' = DropOldest(Written(j), Total(Written(j)) - n)
  /\ diskFailed' = TRUE
  /\ UNCHANGED day

\* delete() stops after the first file that has the report.
DeleteReport(j) ==
  /\ shards' = [d \in Days |-> Without(shards[d], {j})]
  /\ diskFailed' = FALSE
  /\ UNCHANGED day

\* The file that has the report cannot be written or removed.
DeleteFails(j) ==
  /\ \E d \in Days : Contains(shards[d], j)
  /\ diskFailed' = TRUE
  /\ UNCHANGED <<shards, day>>

ClearHistory ==
  /\ shards' = [d \in Days |-> <<>>]
  /\ diskFailed' = FALSE
  /\ UNCHANGED day

\* One of the files cannot be removed: those before it are gone.
ClearFails ==
  /\ \E d \in Days : shards[d] # <<>>
  /\ \E S \in SUBSET Days : shards' = [d \in Days |-> IF d \in S THEN <<>> ELSE shards[d]]
  /\ diskFailed' = TRUE
  /\ UNCHANGED day

Midnight == day < LastDay /\ day' = day + 1 /\ UNCHANGED <<shards, diskFailed>>

-----------------------------------------------------------------------------
HistoryTypeOK ==
  /\ shards \in [Days -> Seq(Reports)]
  /\ day \in Days
  /\ diskFailed \in BOOLEAN

\* The reports that list() shows.
Listed == UNION {Range(shards[d]) : d \in Days}

\* The shards together are one log of the newest Keep reports: retention works
\* across days, and a report appended today is never the one that is dropped
\* (history.py:23-30, 63-79).
Log == INSTANCE BoundedLog WITH Items <- Reports, log <- FlattenSeq(shards), failed <- diskFailed
ImplementsLog == Log!Spec
=============================================================================
