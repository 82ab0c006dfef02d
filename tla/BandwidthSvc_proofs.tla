------------------------- MODULE BandwidthSvc_proofs -------------------------
(***************************************************************************)
(* Theorems about BandwidthSvc, for every number of jobs, server sessions  *)
(* and request threads.                                                    *)
(***************************************************************************)
EXTENDS BandwidthSvc, TLAPS

-----------------------------------------------------------------------------
(* Type correctness.                                                       *)

\* At the start no thread but the requests exists (service.py:34-39).

\* At the start no thread but the requests exists (service.py:34-39).
LEMMA TypeInit == Init => TypeOK
BY NamesAssumption DEF Init, TypeOK, Threads, Whos, RequestPcs, RunnerPcs, MonitorPcs, StopPcs

\* No step of a thread leaves the types, or takes a thread out of its code.

\* No step of a thread leaves the types, or takes a thread out of its code.
LEMMA TypeNext == TypeOK /\ [Next]_vars => TypeOK'
<1> SUFFICES ASSUME TypeOK, [Next]_vars PROVE TypeOK'
  OBVIOUS
<1> USE NamesAssumption DEF TypeOK, Threads, Whos, shared, jobVars, sessVars,
        RequestPcs, RunnerPcs, MonitorPcs, StopPcs
<1>1. ASSUME NEW j \in Jobs, StartJob(j) PROVE TypeOK'
  BY <1>1 DEF StartJob, TryAcquire, Goto
<1>2. ASSUME NEW j \in Jobs, ReadToken(j) PROVE TypeOK'
  BY <1>2 DEF ReadToken, Goto
<1>3. ASSUME NEW j \in Jobs, Measure(j) PROVE TypeOK'
  BY <1>3 DEF Measure, Goto
<1>4. ASSUME NEW j \in Jobs, CheckStopped(j) PROVE TypeOK'
  BY <1>4 DEF CheckStopped, Goto
<1>5. ASSUME NEW j \in Jobs, RecordResult(j) PROVE TypeOK'
  BY <1>5 DEF RecordResult, Goto
<1>6. ASSUME NEW j \in Jobs, AppendHistory(j) PROVE TypeOK'
  BY <1>6 DEF AppendHistory, Goto
<1>7. ASSUME NEW j \in Jobs, RunnerExcept(j) PROVE TypeOK'
  BY <1>7 DEF RunnerExcept, Goto
<1>8. ASSUME NEW j \in Jobs, RunnerFinally(j) PROVE TypeOK'
  BY <1>8 DEF RunnerFinally, Goto
<1>9. ASSUME NEW j \in Jobs, RunnerRelease(j) PROVE TypeOK'
  BY <1>9 DEF RunnerRelease, Release, Goto
<1>10. ASSUME NEW r \in Requests, NEW s \in Sessions, ServerAcquire(r, s) PROVE TypeOK'
  BY <1>10 DEF ServerAcquire, TryAcquire, Goto
<1>11. ASSUME NEW r \in Requests, ServerLaunch(r) PROVE TypeOK'
  BY <1>11 DEF ServerLaunch, Goto
<1>12. ASSUME NEW r \in Requests, ServerAbort(r) PROVE TypeOK'
  BY <1>12 DEF ServerAbort, Release, Forget, Goto
<1>13. ASSUME NEW r \in Requests, ServerPublish(r) PROVE TypeOK'
  BY <1>13 DEF ServerPublish, Goto
<1>14. ASSUME NEW r \in Requests, StartMonitor(r) PROVE TypeOK'
  BY <1>14 DEF StartMonitor, MonitorAlive, Forget, Goto
<1>15. ASSUME NEW r \in Requests, StopServerCall(r) PROVE TypeOK'
  BY <1>15 DEF StopServerCall, SSReadFrom, Return, Goto
<1>16. ASSUME NEW t \in Requests \cup Sessions, SSRead(t) PROVE TypeOK'
  BY <1>16 DEF SSRead, SSReadFrom, Return, Goto
<1>17. ASSUME NEW t \in Requests \cup Sessions, SSStop(t) PROVE TypeOK'
  BY <1>17 DEF SSStop, Goto
<1>18. ASSUME NEW t \in Requests \cup Sessions, SSRelease(t) PROVE TypeOK'
  BY <1>18 DEF SSRelease, Release, Goto
<1>19. ASSUME NEW t \in Requests \cup Sessions, SSAppend(t) PROVE TypeOK'
  BY <1>19 DEF SSAppend, Return, Forget, Goto
<1>20. ASSUME NEW t \in Requests \cup Sessions, SSClear(t) PROVE TypeOK'
  BY <1>20 DEF SSClear, Return, Forget, Goto
<1>21. ASSUME NEW s \in Sessions, MonitorWake(s) PROVE TypeOK'
  BY <1>21 DEF MonitorWake, Goto
<1>22. ASSUME NEW s \in Sessions, MonitorPoll(s) PROVE TypeOK'
  BY <1>22 DEF MonitorPoll, Expired, Forget, Goto
<1>23. ASSUME NEW s \in Sessions, Age(s) PROVE TypeOK'
  BY <1>23 DEF Age, Goto
<1>24. ASSUME NEW r \in Requests, StopRead(r) PROVE TypeOK'
  BY <1>24 DEF StopRead, Goto
<1>25. ASSUME NEW r \in Requests, StopMark(r) PROVE TypeOK'
  BY <1>25 DEF StopMark, Goto
<1>26. ASSUME NEW r \in Requests, StopRelease(r) PROVE TypeOK'
  BY <1>26 DEF StopRelease, Release, Forget, Goto
<1>27. CASE UNCHANGED vars
  BY <1>27 DEF vars
<1> QED
  BY <1>1, <1>2, <1>3, <1>4, <1>5, <1>6, <1>7, <1>8, <1>9, <1>10, <1>11, <1>12, <1>13, <1>14, <1>15, <1>16, <1>17, <1>18, <1>19, <1>20, <1>21, <1>22, <1>23, <1>24, <1>25, <1>26, <1>27 DEF Next, Runner, Monitor, ServerStop, Request

\* Every variable keeps its type, and every thread stays where its code can be.
THEOREM TypeCorrect == Spec => []TypeOK
<1> QED BY TypeInit, TypeNext, PTL DEF Spec
-----------------------------------------------------------------------------
(* The lock.                                                               *)

\* Only start() puts a job into _active, once, and only its own runner's last
\* step or a stop() takes it out (service.py:41-52, 134-138, 153, 240).

\* Only start() puts a job into _active, once, and only its own runner's last
\* step or a stop() takes it out (service.py:41-52, 134-138, 153, 240).
LEMMA HolderTokenNext ==
  ASSUME TypeOK, LockHolderRuns, TokenInv, [Next]_vars PROVE (LockHolderRuns /\ TokenInv)'
<1> USE NamesAssumption DEF TypeOK, Threads, Whos, shared, jobVars, sessVars, LockHolderRuns, TokenInv
<1>1. ASSUME NEW j \in Jobs, StartJob(j) PROVE (LockHolderRuns /\ TokenInv)'
  BY <1>1 DEF StartJob, TryAcquire, Goto
<1>2. ASSUME NEW j \in Jobs, ReadToken(j) PROVE (LockHolderRuns /\ TokenInv)'
  BY <1>2 DEF ReadToken, Goto
<1>3. ASSUME NEW j \in Jobs, Measure(j) PROVE (LockHolderRuns /\ TokenInv)'
  BY <1>3 DEF Measure, Goto
<1>4. ASSUME NEW j \in Jobs, CheckStopped(j) PROVE (LockHolderRuns /\ TokenInv)'
  BY <1>4 DEF CheckStopped, Goto
<1>5. ASSUME NEW j \in Jobs, RecordResult(j) PROVE (LockHolderRuns /\ TokenInv)'
  BY <1>5 DEF RecordResult, Goto
<1>6. ASSUME NEW j \in Jobs, AppendHistory(j) PROVE (LockHolderRuns /\ TokenInv)'
  BY <1>6 DEF AppendHistory, Goto
<1>7. ASSUME NEW j \in Jobs, RunnerExcept(j) PROVE (LockHolderRuns /\ TokenInv)'
  BY <1>7 DEF RunnerExcept, Goto
<1>8. ASSUME NEW j \in Jobs, RunnerFinally(j) PROVE (LockHolderRuns /\ TokenInv)'
  BY <1>8 DEF RunnerFinally, Goto
<1>9. ASSUME NEW j \in Jobs, RunnerRelease(j) PROVE (LockHolderRuns /\ TokenInv)'
  BY <1>9 DEF RunnerRelease, Release, Goto
<1>10. ASSUME NEW r \in Requests, NEW s \in Sessions, ServerAcquire(r, s) PROVE (LockHolderRuns /\ TokenInv)'
  BY <1>10 DEF ServerAcquire, TryAcquire, Goto
<1>11. ASSUME NEW r \in Requests, ServerLaunch(r) PROVE (LockHolderRuns /\ TokenInv)'
  BY <1>11 DEF ServerLaunch, Goto
<1>12. ASSUME NEW r \in Requests, ServerAbort(r) PROVE (LockHolderRuns /\ TokenInv)'
  BY <1>12 DEF ServerAbort, Release, Forget, Goto
<1>13. ASSUME NEW r \in Requests, ServerPublish(r) PROVE (LockHolderRuns /\ TokenInv)'
  BY <1>13 DEF ServerPublish, Goto
<1>14. ASSUME NEW r \in Requests, StartMonitor(r) PROVE (LockHolderRuns /\ TokenInv)'
  BY <1>14 DEF StartMonitor, MonitorAlive, Forget, Goto
<1>15. ASSUME NEW r \in Requests, StopServerCall(r) PROVE (LockHolderRuns /\ TokenInv)'
  BY <1>15 DEF StopServerCall, SSReadFrom, Return, Goto
<1>16. ASSUME NEW t \in Requests \cup Sessions, SSRead(t) PROVE (LockHolderRuns /\ TokenInv)'
  BY <1>16 DEF SSRead, SSReadFrom, Return, Goto
<1>17. ASSUME NEW t \in Requests \cup Sessions, SSStop(t) PROVE (LockHolderRuns /\ TokenInv)'
  BY <1>17 DEF SSStop, Goto
<1>18. ASSUME NEW t \in Requests \cup Sessions, SSRelease(t) PROVE (LockHolderRuns /\ TokenInv)'
  BY <1>18 DEF SSRelease, Release, Goto
<1>19. ASSUME NEW t \in Requests \cup Sessions, SSAppend(t) PROVE (LockHolderRuns /\ TokenInv)'
  BY <1>19 DEF SSAppend, Return, Forget, Goto
<1>20. ASSUME NEW t \in Requests \cup Sessions, SSClear(t) PROVE (LockHolderRuns /\ TokenInv)'
  BY <1>20 DEF SSClear, Return, Forget, Goto
<1>21. ASSUME NEW s \in Sessions, MonitorWake(s) PROVE (LockHolderRuns /\ TokenInv)'
  BY <1>21 DEF MonitorWake, Goto
<1>22. ASSUME NEW s \in Sessions, MonitorPoll(s) PROVE (LockHolderRuns /\ TokenInv)'
  BY <1>22 DEF MonitorPoll, Expired, Forget, Goto
<1>23. ASSUME NEW s \in Sessions, Age(s) PROVE (LockHolderRuns /\ TokenInv)'
  BY <1>23 DEF Age, Goto
<1>24. ASSUME NEW r \in Requests, StopRead(r) PROVE (LockHolderRuns /\ TokenInv)'
  BY <1>24 DEF StopRead, Goto
<1>25. ASSUME NEW r \in Requests, StopMark(r) PROVE (LockHolderRuns /\ TokenInv)'
  BY <1>25 DEF StopMark, Goto
<1>26. ASSUME NEW r \in Requests, StopRelease(r) PROVE (LockHolderRuns /\ TokenInv)'
  BY <1>26 DEF StopRelease, Release, Forget, Goto
<1>27. CASE UNCHANGED vars
  BY <1>27 DEF vars
<1> QED
  BY <1>1, <1>2, <1>3, <1>4, <1>5, <1>6, <1>7, <1>8, <1>9, <1>10, <1>11, <1>12, <1>13, <1>14, <1>15, <1>16, <1>17, <1>18, <1>19, <1>20, <1>21, <1>22, <1>23, <1>24, <1>25, <1>26, <1>27 DEF Next, Runner, Monitor, ServerStop, Request

\* Whoever is about to give a job's lock back has marked the job as not
\* running (service.py:150-153, 219-240).

\* Whoever is about to give a job's lock back has marked the job as not
\* running (service.py:150-153, 219-240).
LEMMA NotRunningNext ==
  ASSUME TypeOK, LockHolderRuns, NotRunningInv, [Next]_vars PROVE NotRunningInv'
<1> USE NamesAssumption DEF TypeOK, Threads, Whos, shared, jobVars, sessVars, LockHolderRuns, NotRunningInv
<1>1. ASSUME NEW j \in Jobs, StartJob(j) PROVE NotRunningInv'
  BY <1>1 DEF StartJob, TryAcquire, Goto
<1>2. ASSUME NEW j \in Jobs, ReadToken(j) PROVE NotRunningInv'
  BY <1>2 DEF ReadToken, Goto
<1>3. ASSUME NEW j \in Jobs, Measure(j) PROVE NotRunningInv'
  BY <1>3 DEF Measure, Goto
<1>4. ASSUME NEW j \in Jobs, CheckStopped(j) PROVE NotRunningInv'
  BY <1>4 DEF CheckStopped, Goto
<1>5. ASSUME NEW j \in Jobs, RecordResult(j) PROVE NotRunningInv'
  BY <1>5 DEF RecordResult, Goto
<1>6. ASSUME NEW j \in Jobs, AppendHistory(j) PROVE NotRunningInv'
  BY <1>6 DEF AppendHistory, Goto
<1>7. ASSUME NEW j \in Jobs, RunnerExcept(j) PROVE NotRunningInv'
  BY <1>7 DEF RunnerExcept, Goto
<1>8. ASSUME NEW j \in Jobs, RunnerFinally(j) PROVE NotRunningInv'
  BY <1>8 DEF RunnerFinally, Goto
<1>9. ASSUME NEW j \in Jobs, RunnerRelease(j) PROVE NotRunningInv'
  BY <1>9 DEF RunnerRelease, Release, Goto
<1>10. ASSUME NEW r \in Requests, NEW s \in Sessions, ServerAcquire(r, s) PROVE NotRunningInv'
  BY <1>10 DEF ServerAcquire, TryAcquire, Goto
<1>11. ASSUME NEW r \in Requests, ServerLaunch(r) PROVE NotRunningInv'
  BY <1>11 DEF ServerLaunch, Goto
<1>12. ASSUME NEW r \in Requests, ServerAbort(r) PROVE NotRunningInv'
  BY <1>12 DEF ServerAbort, Release, Forget, Goto
<1>13. ASSUME NEW r \in Requests, ServerPublish(r) PROVE NotRunningInv'
  BY <1>13 DEF ServerPublish, Goto
<1>14. ASSUME NEW r \in Requests, StartMonitor(r) PROVE NotRunningInv'
  BY <1>14 DEF StartMonitor, MonitorAlive, Forget, Goto
<1>15. ASSUME NEW r \in Requests, StopServerCall(r) PROVE NotRunningInv'
  BY <1>15 DEF StopServerCall, SSReadFrom, Return, Goto
<1>16. ASSUME NEW t \in Requests \cup Sessions, SSRead(t) PROVE NotRunningInv'
  BY <1>16 DEF SSRead, SSReadFrom, Return, Goto
<1>17. ASSUME NEW t \in Requests \cup Sessions, SSStop(t) PROVE NotRunningInv'
  BY <1>17 DEF SSStop, Goto
<1>18. ASSUME NEW t \in Requests \cup Sessions, SSRelease(t) PROVE NotRunningInv'
  BY <1>18 DEF SSRelease, Release, Goto
<1>19. ASSUME NEW t \in Requests \cup Sessions, SSAppend(t) PROVE NotRunningInv'
  BY <1>19 DEF SSAppend, Return, Forget, Goto
<1>20. ASSUME NEW t \in Requests \cup Sessions, SSClear(t) PROVE NotRunningInv'
  BY <1>20 DEF SSClear, Return, Forget, Goto
<1>21. ASSUME NEW s \in Sessions, MonitorWake(s) PROVE NotRunningInv'
  BY <1>21 DEF MonitorWake, Goto
<1>22. ASSUME NEW s \in Sessions, MonitorPoll(s) PROVE NotRunningInv'
  BY <1>22 DEF MonitorPoll, Expired, Forget, Goto
<1>23. ASSUME NEW s \in Sessions, Age(s) PROVE NotRunningInv'
  BY <1>23 DEF Age, Goto
<1>24. ASSUME NEW r \in Requests, StopRead(r) PROVE NotRunningInv'
  BY <1>24 DEF StopRead, Goto
<1>25. ASSUME NEW r \in Requests, StopMark(r) PROVE NotRunningInv'
  BY <1>25 DEF StopMark, Goto
<1>26. ASSUME NEW r \in Requests, StopRelease(r) PROVE NotRunningInv'
  BY <1>26 DEF StopRelease, Release, Forget, Goto
<1>27. CASE UNCHANGED vars
  BY <1>27 DEF vars
<1> QED
  BY <1>1, <1>2, <1>3, <1>4, <1>5, <1>6, <1>7, <1>8, <1>9, <1>10, <1>11, <1>12, <1>13, <1>14, <1>15, <1>16, <1>17, <1>18, <1>19, <1>20, <1>21, <1>22, <1>23, <1>24, <1>25, <1>26, <1>27 DEF Next, Runner, Monitor, ServerStop, Request

\* A session belongs to the one request that made it until it listens
\* (service.py:58-72).

\* A session belongs to the one request that made it until it listens
\* (service.py:58-72).
LEMMA SessionNext ==
  ASSUME TypeOK, SessionInv, [Next]_vars PROVE SessionInv'
<1> USE NamesAssumption DEF TypeOK, Threads, Whos, shared, jobVars, sessVars, SessionInv, Launching
<1>1. ASSUME NEW j \in Jobs, StartJob(j) PROVE SessionInv'
  BY <1>1 DEF StartJob, TryAcquire, Goto
<1>2. ASSUME NEW j \in Jobs, ReadToken(j) PROVE SessionInv'
  BY <1>2 DEF ReadToken, Goto
<1>3. ASSUME NEW j \in Jobs, Measure(j) PROVE SessionInv'
  BY <1>3 DEF Measure, Goto
<1>4. ASSUME NEW j \in Jobs, CheckStopped(j) PROVE SessionInv'
  BY <1>4 DEF CheckStopped, Goto
<1>5. ASSUME NEW j \in Jobs, RecordResult(j) PROVE SessionInv'
  BY <1>5 DEF RecordResult, Goto
<1>6. ASSUME NEW j \in Jobs, AppendHistory(j) PROVE SessionInv'
  BY <1>6 DEF AppendHistory, Goto
<1>7. ASSUME NEW j \in Jobs, RunnerExcept(j) PROVE SessionInv'
  BY <1>7 DEF RunnerExcept, Goto
<1>8. ASSUME NEW j \in Jobs, RunnerFinally(j) PROVE SessionInv'
  BY <1>8 DEF RunnerFinally, Goto
<1>9. ASSUME NEW j \in Jobs, RunnerRelease(j) PROVE SessionInv'
  BY <1>9 DEF RunnerRelease, Release, Goto
<1>10. ASSUME NEW r \in Requests, NEW s \in Sessions, ServerAcquire(r, s) PROVE SessionInv'
  BY <1>10 DEF ServerAcquire, TryAcquire, Goto
<1>11. ASSUME NEW r \in Requests, ServerLaunch(r) PROVE SessionInv'
  BY <1>11 DEF ServerLaunch, Goto
<1>12. ASSUME NEW r \in Requests, ServerAbort(r) PROVE SessionInv'
  BY <1>12 DEF ServerAbort, Release, Forget, Goto
<1>13. ASSUME NEW r \in Requests, ServerPublish(r) PROVE SessionInv'
  BY <1>13 DEF ServerPublish, Goto
<1>14. ASSUME NEW r \in Requests, StartMonitor(r) PROVE SessionInv'
  BY <1>14 DEF StartMonitor, MonitorAlive, Forget, Goto
<1>15. ASSUME NEW r \in Requests, StopServerCall(r) PROVE SessionInv'
  BY <1>15 DEF StopServerCall, SSReadFrom, Return, Goto
<1>16. ASSUME NEW t \in Requests \cup Sessions, SSRead(t) PROVE SessionInv'
  BY <1>16 DEF SSRead, SSReadFrom, Return, Goto
<1>17. ASSUME NEW t \in Requests \cup Sessions, SSStop(t) PROVE SessionInv'
  BY <1>17 DEF SSStop, Goto
<1>18. ASSUME NEW t \in Requests \cup Sessions, SSRelease(t) PROVE SessionInv'
  BY <1>18 DEF SSRelease, Release, Goto
<1>19. ASSUME NEW t \in Requests \cup Sessions, SSAppend(t) PROVE SessionInv'
  BY <1>19 DEF SSAppend, Return, Forget, Goto
<1>20. ASSUME NEW t \in Requests \cup Sessions, SSClear(t) PROVE SessionInv'
  BY <1>20 DEF SSClear, Return, Forget, Goto
<1>21. ASSUME NEW s \in Sessions, MonitorWake(s) PROVE SessionInv'
  BY <1>21 DEF MonitorWake, Goto
<1>22. ASSUME NEW s \in Sessions, MonitorPoll(s) PROVE SessionInv'
  BY <1>22 DEF MonitorPoll, Expired, Forget, Goto
<1>23. ASSUME NEW s \in Sessions, Age(s) PROVE SessionInv'
  BY <1>23 DEF Age, Goto
<1>24. ASSUME NEW r \in Requests, StopRead(r) PROVE SessionInv'
  BY <1>24 DEF StopRead, Goto
<1>25. ASSUME NEW r \in Requests, StopMark(r) PROVE SessionInv'
  BY <1>25 DEF StopMark, Goto
<1>26. ASSUME NEW r \in Requests, StopRelease(r) PROVE SessionInv'
  BY <1>26 DEF StopRelease, Release, Forget, Goto
<1>27. CASE UNCHANGED vars
  BY <1>27 DEF vars
<1> QED
  BY <1>1, <1>2, <1>3, <1>4, <1>5, <1>6, <1>7, <1>8, <1>9, <1>10, <1>11, <1>12, <1>13, <1>14, <1>15, <1>16, <1>17, <1>18, <1>19, <1>20, <1>21, <1>22, <1>23, <1>24, <1>25, <1>26, <1>27 DEF Next, Runner, Monitor, ServerStop, Request

\* With runners that hold their own tokens, whatever occupies the service is
\* what _active says (service.py:41-52, 55-72, 95, 123-139, 199).

\* With runners that hold their own tokens, whatever occupies the service is
\* what _active says (service.py:41-52, 55-72, 95, 123-139, 199).
LEMMA OwnerNext ==
  ASSUME TypeOK, TokenInv, NotRunningInv, SessionInv, OwnerInv, [Next]_vars PROVE OwnerInv'
<1> USE NamesAssumption DEF TypeOK, Threads, Whos, shared, jobVars, sessVars, TokenInv, NotRunningInv, SessionInv, OwnerInv, OwnTokens, Occupied, Launching
<1>1. ASSUME NEW j \in Jobs, StartJob(j) PROVE OwnerInv'
  BY <1>1 DEF StartJob, TryAcquire, Goto
<1>2. ASSUME NEW j \in Jobs, ReadToken(j) PROVE OwnerInv'
  BY <1>2 DEF ReadToken, Goto
<1>3. ASSUME NEW j \in Jobs, Measure(j) PROVE OwnerInv'
  BY <1>3 DEF Measure, Goto
<1>4. ASSUME NEW j \in Jobs, CheckStopped(j) PROVE OwnerInv'
  BY <1>4 DEF CheckStopped, Goto
<1>5. ASSUME NEW j \in Jobs, RecordResult(j) PROVE OwnerInv'
  BY <1>5 DEF RecordResult, Goto
<1>6. ASSUME NEW j \in Jobs, AppendHistory(j) PROVE OwnerInv'
  BY <1>6 DEF AppendHistory, Goto
<1>7. ASSUME NEW j \in Jobs, RunnerExcept(j) PROVE OwnerInv'
  BY <1>7 DEF RunnerExcept, Goto
<1>8. ASSUME NEW j \in Jobs, RunnerFinally(j) PROVE OwnerInv'
  BY <1>8 DEF RunnerFinally, Goto
<1>9. ASSUME NEW j \in Jobs, RunnerRelease(j) PROVE OwnerInv'
  BY <1>9 DEF RunnerRelease, Release, Goto
<1>10. ASSUME NEW r \in Requests, NEW s \in Sessions, ServerAcquire(r, s) PROVE OwnerInv'
  BY <1>10 DEF ServerAcquire, TryAcquire, Goto
<1>11. ASSUME NEW r \in Requests, ServerLaunch(r) PROVE OwnerInv'
  BY <1>11 DEF ServerLaunch, Goto
<1>12. ASSUME NEW r \in Requests, ServerAbort(r) PROVE OwnerInv'
  BY <1>12 DEF ServerAbort, Release, Forget, Goto
<1>13. ASSUME NEW r \in Requests, ServerPublish(r) PROVE OwnerInv'
  BY <1>13 DEF ServerPublish, Goto
<1>14. ASSUME NEW r \in Requests, StartMonitor(r) PROVE OwnerInv'
  BY <1>14 DEF StartMonitor, MonitorAlive, Forget, Goto
<1>15. ASSUME NEW r \in Requests, StopServerCall(r) PROVE OwnerInv'
  BY <1>15 DEF StopServerCall, SSReadFrom, Return, Goto
<1>16. ASSUME NEW t \in Requests \cup Sessions, SSRead(t) PROVE OwnerInv'
  BY <1>16 DEF SSRead, SSReadFrom, Return, Goto
<1>17. ASSUME NEW t \in Requests \cup Sessions, SSStop(t) PROVE OwnerInv'
  BY <1>17 DEF SSStop, Goto
<1>18. ASSUME NEW t \in Requests \cup Sessions, SSRelease(t) PROVE OwnerInv'
  BY <1>18 DEF SSRelease, Release, Goto
<1>19. ASSUME NEW t \in Requests \cup Sessions, SSAppend(t) PROVE OwnerInv'
  BY <1>19 DEF SSAppend, Return, Forget, Goto
<1>20. ASSUME NEW t \in Requests \cup Sessions, SSClear(t) PROVE OwnerInv'
  BY <1>20 DEF SSClear, Return, Forget, Goto
<1>21. ASSUME NEW s \in Sessions, MonitorWake(s) PROVE OwnerInv'
  BY <1>21 DEF MonitorWake, Goto
<1>22. ASSUME NEW s \in Sessions, MonitorPoll(s) PROVE OwnerInv'
  BY <1>22 DEF MonitorPoll, Expired, Forget, Goto
<1>23. ASSUME NEW s \in Sessions, Age(s) PROVE OwnerInv'
  BY <1>23 DEF Age, Goto
<1>24. ASSUME NEW r \in Requests, StopRead(r) PROVE OwnerInv'
  BY <1>24 DEF StopRead, Goto
<1>25. ASSUME NEW r \in Requests, StopMark(r) PROVE OwnerInv'
  BY <1>25 DEF StopMark, Goto
<1>26. ASSUME NEW r \in Requests, StopRelease(r) PROVE OwnerInv'
  BY <1>26 DEF StopRelease, Release, Forget, Goto
<1>27. CASE UNCHANGED vars
  BY <1>27 DEF vars
<1> QED
  BY <1>1, <1>2, <1>3, <1>4, <1>5, <1>6, <1>7, <1>8, <1>9, <1>10, <1>11, <1>12, <1>13, <1>14, <1>15, <1>16, <1>17, <1>18, <1>19, <1>20, <1>21, <1>22, <1>23, <1>24, <1>25, <1>26, <1>27 DEF Next, Runner, Monitor, ServerStop, Request

\* Nothing is active at the start (service.py:35).

\* Nothing is active at the start (service.py:35).
LEMMA LockInit == Init => LockInv
BY NamesAssumption DEF Init, LockInv, LockHolderRuns, TokenInv, NotRunningInv, SessionInv,
     Launching, OwnerInv, Occupied, Threads, Whos

\* The four parts of LockInv, put together.

\* The four parts of LockInv, put together.
LEMMA LockNext == TypeOK /\ LockInv /\ [Next]_vars => LockInv'
<1> SUFFICES ASSUME TypeOK, LockInv, [Next]_vars PROVE LockInv'
  OBVIOUS
<1>1. (LockHolderRuns /\ TokenInv)'
  BY HolderTokenNext DEF LockInv
<1>2. NotRunningInv'
  BY NotRunningNext DEF LockInv
<1>3. SessionInv'
  BY SessionNext DEF LockInv
<1>4. OwnerInv'
  BY OwnerNext DEF LockInv
<1> QED
  BY <1>1, <1>2, <1>3, <1>4 DEF LockInv

\* The invariant that explains the next two theorems: who may still release
\* what, and what has stopped by then (service.py:41-52, 143-155, 198-240).
THEOREM LockInvariant == Spec => []LockInv
<1> QED BY TypeCorrect, LockInit, LockNext, PTL DEF Spec

\* A job that has the lock has a runner that is still to give it back.
THEOREM LockHolder == Spec => []LockHolderRuns
<1>1. LockInv => LockHolderRuns
  BY DEF LockInv
<1> QED BY LockInvariant, <1>1, PTL

\* One active task at a time, unless a runner took another task's entry in
\* _active for its own: this is the only way the service breaks its promise.
THEOREM SingleTask == Spec => []SingleActiveOwnTokens
<1>1. LockInv => SingleActiveOwnTokens
  BY DEF LockInv, OwnerInv, SingleActiveOwnTokens
<1> QED BY LockInvariant, <1>1, PTL
=============================================================================
