------------------------------ MODULE DiagRun ------------------------------
(***************************************************************************)
(* lib/netcheck/diag/engine.py: the registry of the checkers, and          *)
(* run_diag(): the checks in two stages, each in a pool of threads of its  *)
(* own, with a deadline for the whole stage.                               *)
(*                                                                         *)
(* A run belongs to a job.  The runs of different jobs share the registry: *)
(* one that finds it empty imports the checkers, one after the other and   *)
(* without a lock; one that finds it half filled uses it as it is.  (The   *)
(* request for a repair, app.py:626, asks the registry too: to the others  *)
(* it is a run that raises when it has it.)                                *)
(***************************************************************************)
EXTENDS JobManager

CONSTANTS Local,      \* the checks of the groups ABC
          External,   \* the checks of the groups DEFGHI
          Workers,    \* max_workers
          Quick       \* bound: the jobs to which no check applies

\* The checks are numbered as their modules are imported, which is also the order
\* in which run_diag() comes to them: by their groups.
ASSUME ChecksAssumption ==
  /\ Local \cup External \subseteq Nat /\ \A c \in Local, d \in External : c < d
  /\ Workers \in Nat \ {0}

Checks == Local \cup External
StageChecks(s) == IF s = 1 THEN Local ELSE External

VARIABLES
  loaded,     \* the keys of _CHECKERS
  phase,      \* where run_diag() is in the job's thread
  stage,      \* 1 for ABC, 2 for DEFGHI
  check,      \* the future of a check and the thread that works on it
  pending,    \* the futures of the stage whose results are not read yet
  reported,   \* how many results of a check are in the local `results'
  saw         \* what _CHECKERS held when registry() looked at it for this run

localVars == <<stage, check, pending, reported>>
runVars == <<loaded, phase, localVars, saw>>

RunInit ==
  /\ loaded = {}
  /\ phase = [j \in Jobs |-> "none"]
  /\ stage = [j \in Jobs |-> 1]
  /\ check = [j \in Jobs |-> [c \in Checks |-> "todo"]]
  /\ pending = [j \in Jobs |-> {}]
  /\ reported = [j \in Jobs |-> [c \in Checks |-> 0]]
  /\ saw = [j \in Jobs |-> {}]

Goto(j, from, to) == phase[j] = from /\ phase' = [phase EXCEPT ![j] = to]
AddResults(j, S) ==
  reported' = [reported EXCEPT ![j] = [c \in Checks |-> @[c] + (IF c \in S THEN 1 ELSE 0)]]
At(j, where) == {c \in Checks : check[j][c] = where}
AtWork(j) == At(j, "queued") \cup At(j, "running")
Becomes(j, c, what) == check' = [check EXCEPT ![j][c] = what]

-----------------------------------------------------------------------------
(* registry() *)

\* A checker registers itself when its module is executed.
ImportOne ==
  \E c \in Checks \ loaded :
    /\ \A d \in Checks \ loaded : c <= d
    /\ loaded' = loaded \cup {c}

\* The status of the TOS services and the interfaces, either of which may raise;
\* then `if not _CHECKERS'.
LookUp(j) ==
  /\ \/ Goto(j, "setup", "raised") /\ UNCHANGED saw
     \/ /\ Goto(j, "setup", IF loaded = {} THEN "import" ELSE "submit")
        /\ saw' = [saw EXCEPT ![j] = loaded]
  /\ UNCHANGED <<loaded, localVars>>

\* Two threads may both have found it empty: the second waits for each module
\* that the first is importing.  A module that cannot be read ends the run and
\* leaves the registry as it is.
Import(j) ==
  /\ \/ phase[j] = "import" /\ ImportOne /\ UNCHANGED phase
     \/ loaded = Checks /\ Goto(j, "import", "submit") /\ UNCHANGED loaded
     \/ Goto(j, "import", "raised") /\ UNCHANGED loaded
  /\ UNCHANGED <<localVars, saw>>

-----------------------------------------------------------------------------
(* run_diag() *)

NextStageCounts(j) ==
  /\ phase' = [phase EXCEPT ![j] = IF stage[j] = 1 THEN "submit" ELSE "report"]
  /\ stage' = [stage EXCEPT ![j] = @ + 1]
NextStage(j) ==
  /\ phase' = [phase EXCEPT ![j] = IF stage[j] = 1 THEN "submit" ELSE "report"]
  /\ stage' = [stage EXCEPT ![j] = 2]

StartRun(j) == Goto(j, "none", "setup") /\ UNCHANGED <<loaded, localVars, saw>>

\* The loop over the groups of a stage comes to a check.  It passes over one
\* that is not in the registry yet; one that does not apply gets its result at
\* once, and the others a future.
ToTake(j) == StageChecks(stage[j]) \cap At(j, "todo")
Take(j, c) ==
  /\ phase[j] = "submit" /\ c \in ToTake(j) /\ \A d \in ToTake(j) : c <= d
  /\ \/ c \notin loaded /\ Becomes(j, c, "gone") /\ UNCHANGED <<pending, reported>>
     \/ c \in loaded /\ Becomes(j, c, "gone") /\ AddResults(j, {c}) /\ UNCHANGED pending
     \/ /\ c \in loaded /\ j \notin Quick /\ Becomes(j, c, "queued")
        /\ pending' = [pending EXCEPT ![j] = @ \cup {c}]
        /\ UNCHANGED reported
  /\ UNCHANGED <<loaded, phase, stage, saw>>

Submitted(j) ==
  /\ phase[j] = "submit" /\ ToTake(j) = {}
  /\ IF pending[j] = {} THEN NextStage(j) ELSE Goto(j, "submit", "wait") /\ UNCHANGED stage
  /\ UNCHANGED <<loaded, check, pending, reported, saw>>

\* An exception leaves the `with': nothing is cancelled and the pool is waited
\* for, but what run_diag() had got is lost, and nobody reads the futures.
Raise(j, from) ==
  /\ Goto(j, from, "unwind")
  /\ check' = [check EXCEPT ![j] = [c \in Checks |-> IF c \in AtWork(j) THEN @[c] ELSE "gone"]]
  /\ pending' = [pending EXCEPT ![j] = {}]
  /\ reported' = [reported EXCEPT ![j] = [c \in Checks |-> 0]]
  /\ saw' = [saw EXCEPT ![j] = {}]
  /\ UNCHANGED <<loaded, stage>>

\* A checker that registers itself while the loop is at the registry ("dictionary
\* changed size"), a na_fn, an na() or a pool that cannot start a thread.
SubmitRaises(j) == Raise(j, "submit")

\* fut.result() raises what broke a check.
ReadRaises(j) == pending[j] \cap At(j, "broken") # {} /\ Raise(j, "wait")

\* A thread of the pool takes a check, and ends it: _run_one() catches whatever
\* the check raises, but breaks on one that returns None.
BeginCheck(j, c) ==
  /\ check[j][c] = "queued" /\ Cardinality(At(j, "running")) < Workers
  /\ Becomes(j, c, "running")
  /\ UNCHANGED <<loaded, phase, stage, pending, reported, saw>>

EndCheck(j, c) ==
  /\ check[j][c] = "running"
  /\ IF c \in pending[j] THEN Becomes(j, c, "ended") \/ Becomes(j, c, "broken")
                         ELSE Becomes(j, c, "gone")
  /\ UNCHANGED <<loaded, phase, stage, pending, reported, saw>>

\* wait() returns when all futures are done or the deadline has passed, which
\* it may at any moment; the futures that are done by then are read.
WaitReturns(j) ==
  LET done == pending[j] \cap At(j, "ended")
  IN  /\ Goto(j, "wait", "drop")
      /\ pending[j] \cap At(j, "broken") = {}
      /\ AddResults(j, done)
      /\ pending' = [pending EXCEPT ![j] = @ \ done]
      /\ check' = [check EXCEPT ![j] = [c \in Checks |-> IF c \in done THEN "gone" ELSE @[c]]]
      /\ UNCHANGED <<loaded, stage, saw>>

\* After the deadline: each future that was not done is cancelled, which has
\* an effect only while it is queued, and reported as a timeout; a result that
\* comes meanwhile or later is not read.
DropAll(j, c) ==
  /\ phase[j] = "drop" /\ c \in pending[j]
  /\ Becomes(j, c, IF check[j][c] = "running" THEN "running" ELSE "gone")
  /\ AddResults(j, StageChecks(stage[j]))
  /\ pending' = [pending EXCEPT ![j] = @ \ {c}]
  /\ UNCHANGED <<loaded, phase, stage, saw>>
Drop(j, c) ==
  /\ phase[j] = "drop" /\ c \in pending[j]
  /\ Becomes(j, c, IF check[j][c] = "running" THEN "running" ELSE "gone")
  /\ AddResults(j, {c})
  /\ pending' = [pending EXCEPT ![j] = @ \ {c}]
  /\ UNCHANGED <<loaded, phase, stage, saw>>

\* The end of the `with': the pool waits for its threads, past the deadline too.
LeavePoolAtOnce(j) ==
  /\ phase[j] = "drop" /\ pending[j] = {}
  /\ NextStage(j)
  /\ UNCHANGED <<loaded, check, pending, reported, saw>>
LeavePool(j) ==
  /\ phase[j] = "drop" /\ pending[j] = {} /\ AtWork(j) = {}
  /\ NextStage(j)
  /\ UNCHANGED <<loaded, check, pending, reported, saw>>

Unwind(j) ==
  /\ Goto(j, "unwind", "raised") /\ AtWork(j) = {}
  /\ stage' = [stage EXCEPT ![j] = 1]
  /\ UNCHANGED <<loaded, check, pending, reported, saw>>

Pool(j) == \E c \in Checks : BeginCheck(j, c) \/ EndCheck(j, c)
RunDiag(j) == \/ LookUp(j) \/ Import(j)
              \/ (\E c \in Checks : Take(j, c)) \/ Submitted(j) \/ SubmitRaises(j)
              \/ WaitReturns(j) \/ ReadRaises(j) \/ (\E c \in Checks : Drop(j, c))
              \/ LeavePool(j) \/ Unwind(j)

-----------------------------------------------------------------------------
Phases == {"none", "setup", "import", "submit", "wait", "drop", "unwind",
           "report", "raised", "over"}
Places == {"todo", "queued", "running", "ended", "broken", "gone"}

RunTypeOK ==
  /\ loaded \subseteq Checks
  /\ phase \in [Jobs -> Phases]
  /\ stage \in [Jobs -> {1, 2}]
  /\ check \in [Jobs -> [Checks -> Places]]
  /\ \A j \in Jobs : pending[j] \subseteq StageChecks(stage[j])
  /\ reported \in [Jobs -> [Checks -> Nat]]
  /\ saw \in [Jobs -> SUBSET Checks]

\* The checks a run answers for: all of them if it found the registry empty,
\* and has imported them; those it found there otherwise.
Owed(j) == IF saw[j] = {} THEN Checks ELSE saw[j]

\* A report has one result for every check the run answers for, whether it did
\* not apply, ended, was late, or ended while its stage was being given up, and
\* no check has two.  Only a check that was still being imported by another
\* thread when the run looked into the registry may be missing: one that came
\* in later is in the report or is not (engine.py:59-62, 149-177).
OncePerCheck ==
  \A j \in Jobs : phase[j] \in {"report", "over"} =>
    \A c \in Checks : reported[j][c] = 1 \/ (reported[j][c] = 0 /\ c \notin Owed(j))

\* "Two-stage scheduling: ABC (local) then DEFGHI (external probing)"
\* (engine.py:143): no check works or waits outside its own stage, and none
\* outlives the run, late ones and those of a run that raised included.
StagesApart ==
  \A j \in Jobs, c \in Checks :
    check[j][c] \in {"queued", "running"} =>
      /\ phase[j] \in {"submit", "wait", "drop", "unwind"}
      /\ c \in StageChecks(stage[j])
=============================================================================
