----------------------------- MODULE Diagnosis -----------------------------
(***************************************************************************)
(* lib/netcheck/app.py, the endpoints /api/diag/run, /api/diag/history/*   *)
(* and /api/history/clear: a request makes a job, whose thread runs the    *)
(* checks, assembles the report and appends it to the history.  Any number *)
(* of jobs run at the same time; other requests delete or clear.           *)
(***************************************************************************)
EXTENDS DiagRun, DiagHistory

CONSTANT Threads   \* bound: the jobs for which the system has a thread

vars == <<jobsVars, runVars, historyVars>>

Init == JobsInit /\ RunInit /\ HistoryInit

\* POST /api/diag/run.
DiagRunRequest(j) ==
  /\ j \in Threads /\ Create(j) /\ StartRun(j)
  /\ UNCHANGED historyVars

\* The job is registered before its thread is started: if the system has none,
\* the request fails and the job stays.
ThreadFails(j) ==
  /\ Create(j)
  /\ UNCHANGED <<runVars, historyVars>>

RunStep(j) == (RunDiag(j) \/ Pool(j)) /\ UNCHANGED <<jobsVars, historyVars>>

\* The end of the runner: job.result is set, the report is appended; an OSError
\* of that is logged and no failure of the job.
SaveReportAnyway(j) ==
  /\ Goto(j, "report", "over") \/ Goto(j, "raised", "over")
  /\ AppendReport(j) \/ AppendFails(j)
  /\ UNCHANGED <<jobsVars, loaded, localVars, saw>>
SaveReport(j) ==
  /\ Goto(j, "report", "over")
  /\ AppendReport(j) \/ AppendFails(j)
  /\ UNCHANGED <<jobsVars, loaded, localVars, saw>>

\* The report cannot be made, or append() raises something else (json.dump() on
\* the report): nothing is filed and the job fails, with its result set or not.
SaveRaises(j) ==
  /\ Raise(j, "report")
  /\ UNCHANGED <<jobsVars, historyVars>>

\* The end of wrap().
FinishAlways(j) ==
  /\ jobState[j] = "running" /\ phase[j] # "setup"
  /\ Finish(j, IF phase[j] = "raised" THEN "failed" ELSE "done")
  /\ UNCHANGED <<runVars, historyVars>>
FinishNoExcept(j) ==
  /\ jobState[j] = "running" /\ phase[j] = "over"
  /\ Finish(j, "done")
  /\ UNCHANGED <<runVars, historyVars>>
FinishJob(j) ==
  /\ jobState[j] = "running"
  /\ \/ phase[j] = "over" /\ Finish(j, "done")
     \/ phase[j] = "raised" /\ Finish(j, "failed")
  /\ UNCHANGED <<runVars, historyVars>>

Job(j) == RunStep(j) \/ SaveReport(j) \/ SaveRaises(j) \/ FinishJob(j)

\* POST /api/diag/history/delete and /api/history/clear
Delete == (\E j \in Reports : DeleteReport(j) \/ DeleteFails(j)) /\ UNCHANGED <<jobsVars, runVars>>
Clear == (ClearHistory \/ ClearFails) /\ UNCHANGED <<jobsVars, runVars>>

Next ==
  \/ \E j \in Jobs : DiagRunRequest(j) \/ ThreadFails(j) \/ Job(j)
  \/ Delete \/ Clear
  \/ Midnight /\ UNCHANGED <<jobsVars, runVars>>

Spec == Init /\ [][Next]_vars

\* The threads of a job and of its pool are scheduled, and every command and
\* connection of a check has a timeout.
Fairness == \A j \in Threads : WF_vars(Job(j))

FairSpec == Spec /\ Fairness

-----------------------------------------------------------------------------
\* Every variable of the three parts has its type.
TypeOK == JobsTypeOK /\ RunTypeOK /\ HistoryTypeOK

\* A job a client sees as done has a result of every check its run answers for,
\* and nothing of its run is still at work (app.py:384-402, jobs.py:51-55).
DoneMeansComplete ==
  \A j \in Jobs : jobState[j] = "done" =>
    /\ AtWork(j) = {}
    /\ \A c \in Owed(j) : reported[j][c] = 1

\* A report comes into the history while its job is not yet seen as ended, when
\* its run has a result of every check it answers for and nothing at work: a run
\* that raised leaves none, and a report that was deleted, cleared or pruned
\* never comes back, whatever other jobs append meanwhile (app.py:384-402,
\* history.py:23-55).
ReportFiled ==
  [][\A j \in Jobs : j \in Listed' \ Listed =>
       /\ jobState[j] = "running" /\ phase[j] = "report" /\ phase'[j] = "over"
       /\ AtWork(j) = {}
       /\ \A c \in Owed(j) : reported[j][c] = 1]_vars

\* A diagnosis whose thread was started ends, late checks, whatever is raised and
\* a failing history notwithstanding, so that a client that polls the job is not
\* left waiting (jobs.py:51-64).  To be not running again and again is what
\* running ~> not running says; a job without a thread is in phase "none".
JobEnds == \A j \in Threads : []<>(jobState[j] # "running" \/ phase[j] = "none")
=============================================================================
