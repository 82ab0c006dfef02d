------------------------------- MODULE WebDiag -------------------------------
(****************************************************************************)
(* The diagnosis page and the repair dialog (app.js): runDiag() starts a    *)
(* job and asks for its report until it has ended, openFix(), doFix() and   *)
(* closeFix() lead through a repair.                                        *)
(*                                                                          *)
(* The dialog has one context, fixCtx.  doFix() sends the request of the    *)
(* context it was called in, and gives the answer to the context it finds   *)
(* afterwards: the same, another one, or none (a TypeError).                *)
(****************************************************************************)
EXTENDS WebShell

CONSTANTS Checks,     \* the checks of the report that can be repaired
          MaxPolls    \* how often runDiag() asks; 120 in the code

ASSUME PollsAssumption == MaxPolls \in Nat \ {0}

VARIABLES diagRunning,  \* state.diagRunning
          diagReport,   \* state.diagReport is there
          fixCtx        \* the repair in the dialog

diagVars == <<diagRunning, diagReport, fixCtx>>

NoFix == [phase |-> "none"]

----------------------------------------------------------------------------
(* runDiag() *)

\* By the button of the page, which is off during a run.
RunDiag ==
  /\ "diagnose" \in Does[scene]
  /\ dom.page = "diagnose" /\ ~diagRunning /\ modal.kind = "none"
  /\ Send("diagPost", "none")
  /\ diagRunning' = TRUE /\ Render
  /\ UNCHANGED <<apiRest, frame, modal, diagReport, fixCtx>>

\* By the button of the dashboard, which always works: nav("diagnose") first.
RunDiagFromDash ==
  /\ "diagnose" \in Does[scene] /\ dom.page = "dashboard" /\ modal.kind = "none"
  /\ Free(calls) # {}
  /\ diagRunning' = TRUE
  /\ Nav(Begin(calls, CHOOSE s \in Free(calls) : TRUE, "diagPost", "none", 0, token),
         token, "diagnose", Fresh(Current, bootError))
  /\ UNCHANGED <<apiRest, still, modal, diagReport, fixCtx>>

\* The job is started, or not.
DiagPosted(s) ==
  /\ Answered(s, "diagPost")
  /\ \/ /\ Good(s, "diagRun")
        /\ calls' = Begin(calls, s, "diagWait", "none", MaxPolls, token)
        /\ UNCHANGED <<dom, diagRunning>>
     \/ /\ ~Good(s, "diagRun")
        /\ calls' = End(s) /\ diagRunning' = FALSE /\ Render
  /\ UNCHANGED <<apiRest, frame, modal, diagReport, fixCtx>>

\* 0.7 s later.
DiagPoll(s) ==
  /\ Answered(s, "diagWait")
  /\ calls' = Begin(calls, s, "diagPoll", "none", calls[s].left, token)
  /\ UNCHANGED <<apiRest, shellVars, diagVars>>

\* How many times more runDiag() asks, after an answer.
Left_okonly(s) == IF Good(s, "diagReport") THEN calls[s].left - 1 ELSE calls[s].left
Left(s) == calls[s].left - 1

\* The job has ended, or this was the last time: the diagnosis page is shown
\* from wherever the user has gone, with the report if there is one (a failed
\* job has none).
DiagPolled(s) ==
  /\ Answered(s, "diagPoll")
  /\ LET a     == calls[s].ans["diagReport"]
         ended == a.code = "ok" /\ a.val # "running"
     IN /\ diagReport' = IF ended THEN a.val = "report" ELSE diagReport
        /\ IF ended \/ Left(s) = 0
           THEN /\ diagRunning' = FALSE
                /\ dom' = Fresh("diagnose", bootError)
                /\ calls' = End(s)
           ELSE /\ calls' = Begin(calls, s, "diagWait", "none", Left(s), token)
                /\ UNCHANGED <<diagRunning, dom>>
  /\ UNCHANGED <<apiRest, frame, modal, fixCtx>>

----------------------------------------------------------------------------
(* Repair *)

\* renderModal(): the dialog of the context, or nothing, in place of whatever
\* dialog is open.
RenderModal == modal' = Dialog(IF fixCtx' = NoFix THEN "none" ELSE "fix")

OpenFix ==
  /\ "repair" \in Does[scene]
  /\ dom.page = "diagnose" /\ diagReport /\ modal.kind = "none"
  /\ \E c \in Checks : fixCtx' = [check |-> c, phase |-> "confirm", result |-> "none"]
  /\ RenderModal
  /\ UNCHANGED <<apiVars, frame, dom, diagRunning, diagReport>>

\* openGuide() and showNic(): a text to read.
OpenInfo ==
  /\ "repair" \in Does[scene]
  /\ \/ dom.page = "diagnose" /\ diagReport
     \/ dom.page = "interfaces"
  /\ Open("info")
  /\ UNCHANGED <<apiVars, frame, dom, diagVars>>

CloseFix ==
  /\ modal.kind = "fix" /\ fixCtx' = NoFix /\ RenderModal
  /\ UNCHANGED <<apiVars, frame, dom, diagRunning, diagReport>>

\* doFix(), with its box ticked and its fields filled in.
FixStart ==
  /\ modal.kind = "fix" /\ fixCtx.phase = "confirm"
  /\ Send("fix", fixCtx.check)
  /\ fixCtx' = [fixCtx EXCEPT !.phase = "running"] /\ RenderModal
  /\ UNCHANGED <<apiRest, frame, dom, diagRunning, diagReport>>

FixEnd(s) ==
  /\ Answered(s, "fix")
  /\ \/ /\ fixCtx = NoFix                                      \* TypeError
        /\ calls' = End(s) /\ UNCHANGED <<fixCtx, modal>>
     \/ /\ fixCtx # NoFix
        /\ fixCtx' = [fixCtx EXCEPT !.phase = "done", !.result = calls[s].arg]
        /\ RenderModal
        /\ calls' = IF Good(s, "fix")
                    THEN Begin(calls, s, "ifaces", "none", 0, token)  \* loadInterfaces()
                    ELSE End(s)
  /\ UNCHANGED <<apiRest, frame, dom, diagRunning, diagReport>>

\* The button of the interfaces page.
Scan ==
  /\ "repair" \in Does[scene] /\ dom.page = "interfaces" /\ modal.kind = "none" /\ Send("ifaces", "none")
  /\ UNCHANGED <<apiRest, shellVars, diagVars>>

----------------------------------------------------------------------------
(* The service's side *)

ServeDiag(s) ==
  /\ Known(s)
  /\ \/ \E code \in {"ok", "no"} : Reply(s, "diagRun", code, "none")
     \/ \E v \in {"running", "report", "failed"} : Reply(s, "diagReport", "ok", v)
     \/ Reply(s, "fix", "ok", "none")
  /\ UNCHANGED apiRest

DiagUser == RunDiag \/ RunDiagFromDash \/ OpenFix \/ OpenInfo \/ CloseFix
            \/ FixStart \/ Scan

DiagResume(s) == DiagPosted(s) \/ DiagPoll(s) \/ DiagPolled(s) \/ FixEnd(s)

\* A repair starts from a report.
DiagInit == /\ diagRunning = FALSE /\ fixCtx = NoFix
            /\ diagReport = (scene = "repair")

----------------------------------------------------------------------------
(* Properties *)

DiagTypeOK ==
  /\ diagRunning \in BOOLEAN /\ diagReport \in BOOLEAN
  /\ fixCtx \in {NoFix} \cup [check : Checks, phase : {"confirm", "running", "done"},
                              result : Checks \cup {"none"}]

\* The page says that it works only while a handler of that work waits: the
\* spinner of the diagnosis and the bar of a repair cannot stay behind a run
\* that failed, was refused, or ended under another one (app.js:809-821,
\* 966-983).
RunningHasCall ==
  /\ diagRunning => \E s \in Slots :
                      calls[s].op \in {"diagPost", "diagWait", "diagPoll"}
  /\ fixCtx.phase = "running" => \E s \in Slots : calls[s].op = "fix"
=============================================================================
