----------------------------- MODULE JobManager -----------------------------
(***************************************************************************)
(* lib/netcheck/jobs.py: the registry of asynchronous jobs.  create() and  *)
(* get() hold the lock; wrap(), in the thread of a job, sets the state     *)
(* without it.  stop() is not modelled: nothing in src/ calls it.          *)
(***************************************************************************)
EXTENDS Integers, FiniteSets

CONSTANTS MaxTracked,  \* max_tracked
          LastJob      \* bound: how many jobs are made

ASSUME JobsAssumption == MaxTracked \in Nat \ {0} /\ LastJob \in Nat

\* Jobs are numbered as create() makes them: the order of the keys in _jobs.
Jobs == 1..LastJob

VARIABLES
  tracked,    \* the keys of _jobs
  jobState    \* job.state; "none" before create() makes the job

jobsVars == <<tracked, jobState>>

JobsInit ==
  /\ tracked = {}
  /\ jobState = [j \in Jobs |-> "none"]

Finished == {j \in tracked : jobState[j] # "running"}

\* (Here and below, a definition that is followed by a correct one of nearly
\* the same name is a faulty variant: the properties are tried on it to see
\* that they notice.)

\* How many items the Python slice [: end] of a list of n items has.
SliceLen(n, end) ==
  IF end >= 0 THEN (IF end < n THEN end ELSE n) ELSE (IF n + end > 0 THEN n + end ELSE 0)

OldestOf(S, n) == {j \in S : Cardinality({i \in S : i < j}) < n}
NewestOf(S, n) == {j \in S : Cardinality({i \in S : i > j}) < n}

\* finished[: len(finished) - self._max + 1], once the registry is full
EvictedNewest ==
  LET n == Cardinality(Finished)
  IN  IF Cardinality(tracked) >= MaxTracked
      THEN NewestOf(Finished, SliceLen(n, n - MaxTracked + 1)) ELSE {}
Evicted ==
  LET n == Cardinality(Finished)
  IN  IF Cardinality(tracked) >= MaxTracked
      THEN OldestOf(Finished, SliceLen(n, n - MaxTracked + 1)) ELSE {}

Create(j) ==
  /\ jobState[j] = "none" /\ \A i \in 1..(j - 1) : jobState[i] # "none"
  /\ tracked' = (tracked \ Evicted) \cup {j}
  /\ jobState' = [jobState EXCEPT ![j] = "running"]

\* The end of wrap(): the runner has returned, or it has raised.
Finish(j, how) ==
  /\ jobState' = [jobState EXCEPT ![j] = how]
  /\ UNCHANGED tracked

-----------------------------------------------------------------------------
JobsTypeOK ==
  /\ tracked \subseteq {j \in Jobs : jobState[j] # "none"}
  /\ jobState \in [Jobs -> {"none", "running", "done", "failed"}]

\* A job that runs can be asked for: making room never evicts it (jobs.py:43-46).
RunningTracked == \A j \in Jobs : jobState[j] = "running" => j \in tracked

\* Whatever number of jobs run at the moment, a new one leaves at most
\* MaxTracked - 1 finished jobs (jobs.py:43-47).  The registry as a whole may be
\* larger than MaxTracked, by the jobs that run.
FinishedBounded ==
  [][tracked' # tracked => Cardinality(Finished') < MaxTracked]_jobsVars

\* A job is evicted only while a finished one that was made later stays
\* (jobs.py:44-46): with room for two jobs, the last result is never lost.
NewestKept ==
  [][\A j \in tracked \ tracked' : \E i \in Finished \cap tracked' : i > j]_jobsVars

\* What the registry promises to who asks for a job (jobs.py:36-59): it holds
\* every job that runs, few that are finished, and of those the newest.
Registry == []RunningTracked /\ FinishedBounded /\ NewestKept
=============================================================================
