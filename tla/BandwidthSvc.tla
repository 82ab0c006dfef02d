---------------------------- MODULE BandwidthSvc ----------------------------
(***************************************************************************)
(* lib/netcheck/bandwidth/service.py: one bandwidth task at a time.        *)
(*                                                                         *)
(* Every job has a runner thread (named after the job), every iperf3       *)
(* server session has the monitor thread its server_start would create     *)
(* (named after the session), and HTTP requests run in threads of their    *)
(* own.  They share _active (the "lock"), _server_session, _monitor,       *)
(* _last_done and the job dictionaries.  A step is what a thread does      *)
(* between two points where another thread can be seen: one block under    *)
(* _guard, one blocking call, one assignment.                              *)
(***************************************************************************)
EXTENDS FiniteSets

CONSTANTS
  Jobs,         \* the job dictionaries start() may create, one runner each
  Sessions,     \* the ServerSession objects server_start() may create
  Requests,     \* concurrent HTTP request threads
  None,         \* Python's None
  ServerToken   \* {"type": "lan", "mode": "server"}: what server_stop releases

ASSUME NamesAssumption ==
  /\ Jobs \cap Sessions = {} /\ Jobs \cap Requests = {} /\ Sessions \cap Requests = {}
  /\ None \notin Jobs \cup Sessions
  \* every dictionary put into _active has a "job" or a "session" key, so none
  \* of them is equal to the one server_stop() passes to _release()
  /\ ServerToken \notin Jobs \cup Sessions \cup {None}

VARIABLES
  active,         \* _active: None, or the job or session of the `who' in it
  serverSession,  \* _server_session
  monitor,        \* _monitor: the session whose server_start made the thread
  lastDone,       \* _last_done
  jobState,       \* job["state"]; "none" before start() makes the job
  outcome,        \* what the measurement returned, until it is recorded
  token,          \* the runner's local `token'
  sess,           \* session.state; "none" before server_start() makes it, and
                  \* "listening" while its iperf3 -s runs and has the port
  aged,           \* the idle timeout or the maximal lifetime has passed
  held,           \* a thread's local `session' or `active'; None when out of scope
  pc

shared   == <<active, serverSession, monitor, lastDone>>
jobVars  == <<jobState, outcome, token>>
sessVars == <<sess, aged>>
vars     == <<shared, jobVars, sessVars, held, pc>>

Threads == Requests \cup Jobs \cup Sessions
Whos    == Jobs \cup Sessions

Goto(t, from, to) == pc[t] = from /\ pc' = [pc EXCEPT ![t] = to]
Forget(t) == held' = [held EXCEPT ![t] = None]

-----------------------------------------------------------------------------
(* The lock.  (Here and below, a definition that is followed by a correct   *)
(* one of nearly the same name is a faulty variant: the properties are     *)
(* tried on it to see that they notice.)                                   *)

TryAcquire(who) == active = None /\ active' = who

ReleaseAny(tok) == active' = None
Release(tok) == active' = IF active = tok THEN None ELSE active

-----------------------------------------------------------------------------
(* start() and the runner thread _run_job().                               *)

\* The runner starts after the lock is taken; its first step is its own.
StartJob(j) ==
  /\ Goto(j, "unborn", "spawned")
  /\ TryAcquire(j)
  /\ jobState' = [jobState EXCEPT ![j] = "running"]
  /\ UNCHANGED <<serverSession, monitor, lastDone, outcome, token, sessVars, held>>

\* `token = self._active', read in the new thread and not under _guard.
ReadToken(j) ==
  /\ Goto(j, "spawned", "measuring")
  /\ token' = [token EXCEPT ![j] = active]
  /\ UNCHANGED <<shared, jobState, outcome, sessVars, held>>

\* The measurement returns ok, returns an error, or raises (iperf3 missing,
\* a parameter that is no number).  Its subprocess and socket timeouts bound it.
Measure(j) ==
  /\ \/ /\ \E o \in {"ok", "bad"} : outcome' = [outcome EXCEPT ![j] = o]
        /\ Goto(j, "measuring", "check")
     \/ /\ UNCHANGED outcome
        /\ Goto(j, "measuring", "except")
  /\ UNCHANGED <<shared, jobState, token, sessVars, held>>

CheckStopped(j) ==
  /\ Goto(j, "check", IF jobState[j] = "stopped" THEN "finally" ELSE "record")
  /\ outcome' = [outcome EXCEPT ![j] = IF jobState[j] = "stopped" THEN "none" ELSE @]
  /\ UNCHANGED <<shared, jobState, token, sessVars, held>>

RecordResult(j) ==
  /\ Goto(j, "record", "append")
  /\ jobState' = [jobState EXCEPT ![j] = IF outcome[j] = "ok" THEN "done" ELSE "failed"]
  /\ outcome' = [outcome EXCEPT ![j] = "none"]
  /\ UNCHANGED <<shared, token, sessVars, held>>

\* _append_history: module HistoryFile has the file.  Here it is one step
\* that returns, or raises an OSError (the disk, or the .tmp moved away by
\* another thread that appends at the same time).
AppendHistory(j) ==
  /\ \E next \in {"finally", "except"} : Goto(j, "append", next)
  /\ UNCHANGED <<shared, jobVars, sessVars, held>>

RunnerExcept(j) ==
  /\ Goto(j, "except", "finally")
  /\ jobState' = [jobState EXCEPT ![j] = "failed"]
  /\ UNCHANGED <<shared, outcome, token, sessVars, held>>

RunnerFinally(j) ==
  /\ Goto(j, "finally", "release")
  /\ lastDone' = j
  /\ UNCHANGED <<active, serverSession, monitor, jobVars, sessVars, held>>

RunnerReleaseDropped(j) ==
  /\ Goto(j, "release", "end")
  /\ UNCHANGED <<shared, jobVars, sessVars, held>>
RunnerRelease(j) ==
  /\ Goto(j, "release", "end")
  /\ Release(token[j])
  /\ UNCHANGED <<serverSession, monitor, lastDone, jobVars, sessVars, held>>

Runner(j) ==
  \/ ReadToken(j) \/ Measure(j) \/ CheckStopped(j) \/ RecordResult(j)
  \/ AppendHistory(j) \/ RunnerExcept(j) \/ RunnerFinally(j) \/ RunnerRelease(j)

-----------------------------------------------------------------------------
(* server_start(): the lock, the port, the process, then two plain         *)
(* assignments after the lock has already been visible to other threads.   *)

ServerAcquire(r, s) ==
  /\ Goto(r, "idle", "launch")
  /\ sess[s] = "none"
  /\ TryAcquire(s)
  /\ sess' = [sess EXCEPT ![s] = "inactive"]
  /\ held' = [held EXCEPT ![r] = s]
  /\ UNCHANGED <<serverSession, monitor, lastDone, jobVars, aged>>

\* The port check or the launch may always fail (another program has the port,
\* iperf3 is missing); it does fail while a session of ours has the port.
ServerLaunch(r) ==
  /\ \/ /\ Goto(r, "launch", "publish")
        /\ \A s \in Sessions : sess[s] # "listening"
        /\ sess' = [sess EXCEPT ![held[r]] = "listening"]
     \/ /\ Goto(r, "launch", "abort")
        /\ UNCHANGED sess
  /\ UNCHANGED <<shared, jobVars, aged, held>>

ServerAbort(r) ==
  /\ Goto(r, "abort", "idle")
  /\ Release(held[r])
  /\ Forget(r)
  /\ UNCHANGED <<serverSession, monitor, lastDone, jobVars, sessVars>>

ServerPublish(r) ==
  /\ Goto(r, "publish", "start_monitor")
  /\ serverSession' = held[r]
  /\ UNCHANGED <<active, monitor, lastDone, jobVars, sessVars, held>>

MonitorAlive == monitor # None /\ pc[monitor] \notin {"unborn", "end"}

StartMonitorNever(r) ==
  /\ pc[r] = "start_monitor"
  /\ pc' = [pc EXCEPT ![r] = "idle"]
  /\ Forget(r)
  /\ UNCHANGED <<shared, jobVars, sessVars>>
StartMonitor(r) ==
  /\ pc[r] = "start_monitor"
  /\ \/ /\ MonitorAlive
        /\ pc' = [pc EXCEPT ![r] = "idle"]
        /\ UNCHANGED monitor
     \/ /\ ~MonitorAlive
        /\ pc' = [pc EXCEPT ![r] = "idle", ![held[r]] = "sleep"]
        /\ monitor' = held[r]
  /\ Forget(r)
  /\ UNCHANGED <<active, serverSession, lastDone, jobVars, sessVars>>

-----------------------------------------------------------------------------
(* server_stop(): called by the endpoint, by stop() and by the monitor.    *)

Return(t) == IF t \in Requests THEN "idle" ELSE "end"

SSReadFromUnchecked(t, from) ==
  /\ Goto(t, from, "ss_stop")
  /\ held' = [held EXCEPT ![t] = serverSession]
  /\ UNCHANGED <<shared, jobVars, sessVars>>
SSReadFrom(t, from) ==
  /\ Goto(t, from, IF serverSession = None THEN Return(t) ELSE "ss_stop")
  /\ held' = [held EXCEPT ![t] = serverSession]
  /\ UNCHANGED <<shared, jobVars, sessVars>>

SSRead(t) == SSReadFrom(t, "ss_read")
StopServerCall(r) == SSReadFrom(r, "idle")

\* session.stop() kills the process group and reads the log; "done" means a
\* client ran a test.
SSStop(t) ==
  /\ Goto(t, "ss_stop", "ss_release")
  /\ \E st \in {"done", "stopped"} : sess' = [sess EXCEPT ![held[t]] = st]
  /\ UNCHANGED <<shared, jobVars, aged, held>>

SSRelease(t) ==
  /\ Goto(t, "ss_release", "append")
  /\ Release(ServerToken)
  /\ UNCHANGED <<serverSession, monitor, lastDone, jobVars, sessVars, held>>

SSClear(t) ==
  /\ Goto(t, "ss_clear", Return(t))
  /\ serverSession' = None
  /\ Forget(t)
  /\ UNCHANGED <<active, monitor, lastDone, jobVars, sessVars>>

SSAppend(t) ==
  \/ /\ Goto(t, "append", "ss_clear")
     /\ UNCHANGED <<shared, jobVars, sessVars, held>>
  \/ /\ Goto(t, "append", Return(t))
     /\ Forget(t)
     /\ UNCHANGED <<shared, jobVars, sessVars>>

ServerStop(t) ==
  SSRead(t) \/ SSStop(t) \/ SSRelease(t) \/ SSAppend(t) \/ SSClear(t)

-----------------------------------------------------------------------------
(* The monitor thread: sleep, read the session, poll it, stop it when it   *)
(* has expired.                                                            *)

Expired(s) == sess[s] = "listening" /\ aged[s]

MonitorWake(m) ==
  /\ Goto(m, "sleep", IF serverSession = None THEN "end" ELSE "poll")
  /\ held' = [held EXCEPT ![m] = serverSession]
  /\ UNCHANGED <<shared, jobVars, sessVars>>

MonitorPoll(m) ==
  /\ Goto(m, "poll", IF Expired(held[m]) THEN "ss_read" ELSE "sleep")
  /\ Forget(m)
  /\ UNCHANGED <<shared, jobVars, sessVars>>

Monitor(m) == MonitorWake(m) \/ MonitorPoll(m) \/ ServerStop(m)

\* Wall-clock time: the maximal lifetime (or five idle minutes) goes by.
Age(s) ==
  /\ sess[s] = "listening" /\ ~aged[s]
  /\ aged' = [aged EXCEPT ![s] = TRUE]
  /\ UNCHANGED <<shared, jobVars, sess, held, pc>>

-----------------------------------------------------------------------------
(* stop(): reads _active, then acts on what it read.                       *)

StopRead(r) ==
  /\ \/ active \in Jobs /\ Goto(r, "idle", "stop_mark")
                        /\ held' = [held EXCEPT ![r] = active]
     \/ active \in Sessions /\ Goto(r, "idle", "ss_read") /\ UNCHANGED held
  /\ UNCHANGED <<shared, jobVars, sessVars>>

StopMark(r) ==
  /\ Goto(r, "stop_mark", "stop_release")
  /\ jobState' = [jobState EXCEPT ![held[r]] = "stopped"]
  /\ UNCHANGED <<shared, outcome, token, sessVars, held>>

StopRelease(r) ==
  /\ Goto(r, "stop_release", "idle")
  /\ Release(held[r])
  /\ Forget(r)
  /\ UNCHANGED <<serverSession, monitor, lastDone, jobVars, sessVars>>

Request(r) ==
  \/ \E s \in Sessions : ServerAcquire(r, s)
  \/ ServerLaunch(r) \/ ServerAbort(r) \/ ServerPublish(r) \/ StartMonitor(r)
  \/ StopServerCall(r) \/ ServerStop(r)
  \/ StopRead(r) \/ StopMark(r) \/ StopRelease(r)

-----------------------------------------------------------------------------
Init ==
  /\ active = None /\ serverSession = None /\ monitor = None /\ lastDone = None
  /\ jobState = [j \in Jobs |-> "none"]
  /\ outcome = [j \in Jobs |-> "none"]
  /\ token = [j \in Jobs |-> None]
  /\ sess = [s \in Sessions |-> "none"]
  /\ aged = [s \in Sessions |-> FALSE]
  /\ held = [t \in Requests \cup Sessions |-> None]
  /\ pc = [t \in Threads |-> IF t \in Requests THEN "idle" ELSE "unborn"]

Next ==
  \/ \E j \in Jobs : StartJob(j) \/ Runner(j)
  \/ \E s \in Sessions : Monitor(s) \/ Age(s)
  \/ \E r \in Requests : Request(r)

Spec == Init /\ [][Next]_vars

\* The threads are scheduled, time passes, and a request thread that has begun
\* a call finishes it; nobody is obliged to make a request.
Busied(r) ==
  \/ ServerLaunch(r) \/ ServerAbort(r) \/ ServerPublish(r) \/ StartMonitor(r)
  \/ ServerStop(r) \/ StopMark(r) \/ StopRelease(r)

Fairness ==
  /\ \A j \in Jobs : WF_vars(Runner(j))
  /\ \A s \in Sessions : WF_vars(Monitor(s)) /\ WF_vars(Age(s))
  /\ \A r \in Requests : WF_vars(Busied(r))

FairSpec == Spec /\ Fairness

-----------------------------------------------------------------------------
RequestPcs == {"idle", "launch", "abort", "publish", "start_monitor", "stop_mark", "stop_release"}
RunnerPcs  == {"unborn", "spawned", "measuring", "check", "record", "append", "except", "finally",
               "release", "end"}
MonitorPcs == {"unborn", "sleep", "poll", "end"}
StopPcs    == {"ss_read", "ss_stop", "ss_release", "append", "ss_clear"}

\* Every variable has its type, every thread is where its code can be, and its
\* local variable refers to what that place needs.
TypeOK ==
  /\ active \in Whos \cup {None}
  /\ serverSession \in Sessions \cup {None} /\ monitor \in Sessions \cup {None}
  /\ lastDone \in Jobs \cup {None}
  /\ jobState \in [Jobs -> {"none", "running", "done", "failed", "stopped"}]
  /\ outcome \in [Jobs -> {"none", "ok", "bad"}]
  /\ token \in [Jobs -> Whos \cup {None}]
  /\ sess \in [Sessions -> {"none", "inactive", "listening", "done", "stopped"}]
  /\ aged \in [Sessions -> BOOLEAN]
  /\ held \in [Requests \cup Sessions -> Whos \cup {None}]
  /\ pc \in [Threads -> RequestPcs \cup RunnerPcs \cup MonitorPcs \cup StopPcs]
  /\ \A r \in Requests : pc[r] \in RequestPcs \cup StopPcs
  /\ \A j \in Jobs : pc[j] \in RunnerPcs
  /\ \A s \in Sessions : pc[s] \in MonitorPcs \cup StopPcs
  /\ \A r \in Requests :
       /\ pc[r] \in {"launch", "abort", "publish", "start_monitor"} => held[r] \in Sessions
       /\ pc[r] \in {"stop_mark", "stop_release"} => held[r] \in Jobs
  /\ \A t \in Requests \cup Sessions :
       pc[t] \in {"poll", "ss_stop", "ss_release", "append", "ss_clear"} => held[t] \in Sessions

\* A job never holds the lock without a runner that is still to release it
\* (service.py:237-240): a finished job cannot leave the service busy.
LockHolderRuns == active \in Jobs => pc[active] \notin {"unborn", "end"}

\* What "a bandwidth task is running" means to a user: a job reported as
\* running, or an iperf3 server that listens.
Occupied == {j \in Jobs : jobState[j] = "running"} \cup {s \in Sessions : sess[s] = "listening"}

\* Single active task OR server session (service.py:20, F18).
SingleActive == \A x, y \in Occupied : x = y

\* Every runner that has read _active found itself there, or nobody.
OwnTokens == \A j \in Jobs : token[j] \in {None, j}

\* As long as no runner took another task's entry for its own token
\* (service.py:199), there is one active task at a time and it has the lock.
SingleActiveOwnTokens == OwnTokens => \A x \in Occupied : active = x

\* Once the session has been stopped and no thread is still inside
\* server_stop() with it, it does not hold the lock (service.py:95).
InServerStop(s) == \E t \in Requests \cup Sessions : held[t] = s /\ pc[t] \in StopPcs
ServerStopFrees ==
  \A s \in Sessions : sess[s] \in {"done", "stopped"} /\ ~InServerStop(s) => active # s

\* A job gives the lock back, whatever its measurement does and whoever stops
\* it (service.py:143-155, 237-240).
JobLockFreed == \A j \in Jobs : (active = j) ~> (active # j)

\* "The server stops after 5 minutes idle" (service.py:86): the monitor ends
\* every session nobody stops, unless a foreign token let a second one in.
SessionAutoStops ==
  \A s \in Sessions : (sess[s] = "listening") ~> (sess[s] # "listening" \/ ~OwnTokens)

-----------------------------------------------------------------------------
(* The inductive strengthening of LockHolderRuns and SingleActiveOwnTokens *)
(* (service.py:41-52, 143-155, 198-240).                                   *)

\* A runner past its read of _active that did not find itself there will not
\* find itself there later: nobody puts a job back into _active.
TokenInv ==
  \A j \in Jobs :
    /\ pc[j] \in {"unborn", "spawned"} => token[j] = None
    /\ pc[j] \notin {"unborn", "spawned"} /\ token[j] # j => active # j

\* Whoever gives a job's lock back has seen to it that the job is not running.
NotRunningInv ==
  /\ \A j \in Jobs : pc[j] \in {"append", "finally", "release", "end"} => jobState[j] # "running"
  /\ \A r \in Requests :
       /\ pc[r] \in {"stop_mark", "stop_release"} => pc[held[r]] # "unborn"
       /\ pc[r] = "stop_release" => jobState[held[r]] # "running"

\* A session belongs to the request that made it until it listens.
Launching(r) == pc[r] \in {"launch", "abort"}
SessionInv ==
  /\ \A r \in Requests : Launching(r) => sess[held[r]] = "inactive"
  /\ \A q, r \in Requests : Launching(q) /\ Launching(r) /\ held[q] = held[r] => q = r
  /\ \A r \in Requests : pc[r] = "publish" => sess[held[r]] \notin {"none", "inactive"}
  /\ serverSession # None => sess[serverSession] \notin {"none", "inactive"}
  /\ \A t \in Requests \cup Sessions : pc[t] = "ss_stop" => sess[held[t]] \notin {"none", "inactive"}

\* With runners that read their own tokens, what occupies the service is what
\* _active says, and a launching session has the lock (service.py:55-72, 199).
OwnerInv ==
  OwnTokens => /\ \A x \in Occupied : active = x
               /\ \A r \in Requests : Launching(r) => active = held[r]

\* The inductive invariant behind "single active task": who holds the lock, who
\* will release it, and what has stopped by then (service.py:41-155, 198-240).
LockInv == LockHolderRuns /\ TokenInv /\ NotRunningInv /\ SessionInv /\ OwnerInv
=============================================================================
