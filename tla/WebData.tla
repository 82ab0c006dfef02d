------------------------------- MODULE WebData -------------------------------
(****************************************************************************)
(* The pages that show what the service keeps (app.js): history, monitor    *)
(* and snapshots, and the tools, whose answers are written into the page    *)
(* they were asked on.                                                      *)
(*                                                                          *)
(* "kept" are the service's data, "shown" the page's copy.  The copy comes  *)
(* from loadHistory(), loadMonitor() and loadSnapshots(), which route() and *)
(* other handlers start, which may overlap, and whose requests may succeed  *)
(* apart; nothing orders their answers.  Others change the data too: the    *)
(* sampling thread, diagnoses and repairs (this page's own included, which  *)
(* load no history), other tabs.  "trust" (no part of the code) are the     *)
(* topics whose copy was loaded as a whole while nothing else about the     *)
(* same data was going on, since when no request of the page about them     *)
(* failed and nobody else changed them.                                     *)
(****************************************************************************)
EXTENDS WebShell, FiniteSets

CONSTANTS DiagRecords, FixRecords,  \* records the history can hold
          PageSize,                 \* of the diagnoses, on a page of the history
          MaxSamples, MaxSnapshots  \* bounds: samples in range, snapshots made

ASSUME RecordsAssumption == /\ DiagRecords \cap FixRecords = {}
                            /\ PageSize \in Nat \ {0}
                            /\ MaxSamples \in Nat /\ MaxSnapshots \in Nat

VARIABLES kept,       \* the service: records, sampling on, samples, snapshots made
          shown,      \* the page's copy of them
          toggling,   \* state.monitorToggling
          sampling,   \* state.monitorSampling
          deleteCtx,  \* historyDeleteCtx
          trust

busyVars   == <<toggling, sampling>>
dataVars   == <<kept, shown, busyVars, deleteCtx, trust>>

NoRecord == "none"

Trusted(topic, good) ==
  trust' = IF good THEN trust \cup {topic} ELSE trust \ {topic}

----------------------------------------------------------------------------
(* History *)

\* loadHistory(): each half is replaced if its own request succeeded.
HistoryLoaded(s) ==
  /\ Answered(s, "history")
  /\ shown' = [shown EXCEPT !.diag = IF Good(s, "diagHistory")
                                     THEN Value(s, "diagHistory") ELSE @,
                            !.fix  = IF Good(s, "fixHistory")
                                     THEN Value(s, "fixHistory") ELSE @]
  /\ Trusted("history", /\ calls[s].alone
                        /\ Good(s, "diagHistory") /\ Good(s, "fixHistory"))
  /\ Render /\ calls' = End(s)
  /\ UNCHANGED <<apiRest, frame, modal, kept, busyVars, deleteCtx>>

\* requestHistoryDelete() for a record on show.
RequestDelete ==
  /\ dom.page = "history" /\ modal.kind = "none"
  /\ \E r \in shown.diag \cup shown.fix :
       deleteCtx' = r /\ modal' = [Dialog("delete") EXCEPT !.rec = r]
  /\ UNCHANGED <<apiVars, frame, dom, kept, shown, busyVars, trust>>

\* doHistoryDelete(): the button is off until the answer comes, but the dialog
\* can be closed, and opened for another record or the same one.
DeleteStart ==
  /\ modal.kind = "delete" /\ ~modal.off /\ deleteCtx # NoRecord
  /\ modal' = [modal EXCEPT !.off = TRUE] /\ Send("delete", deleteCtx)
  /\ UNCHANGED <<apiRest, frame, dom, dataVars>>

\* requestHistoryClear(), off when the page shows no record.
RequestClear ==
  /\ dom.page = "history" /\ shown.diag \cup shown.fix # {} /\ Open("clear")
  /\ UNCHANGED <<apiVars, frame, dom, dataVars>>

ClearStart ==
  /\ modal.kind = "clear" /\ ~modal.off
  /\ modal' = [modal EXCEPT !.off = TRUE] /\ Send("clear", "none")
  /\ UNCHANGED <<apiRest, frame, dom, dataVars>>

\* After a success the list is loaded again.
Reload_never(s, good) == End(s)
Reload(s, good) == IF good THEN Begin(calls, s, "history", "none", 0, token)
                   ELSE End(s)

\* The answers close whatever dialog is open.
DeleteEnd_dialogstays(s) ==
  /\ Answered(s, "delete")
  /\ deleteCtx' = NoRecord /\ UNCHANGED modal
  /\ calls' = Reload(s, Good(s, "historyDelete"))
  /\ Trusted("history", "history" \in trust /\ Good(s, "historyDelete"))
  /\ UNCHANGED <<apiRest, frame, dom, kept, shown, busyVars>>
DeleteEnd(s) ==
  /\ Answered(s, "delete")
  /\ deleteCtx' = NoRecord /\ modal' = Dialog("none")
  /\ calls' = Reload(s, Good(s, "historyDelete"))
  /\ Trusted("history", "history" \in trust /\ Good(s, "historyDelete"))
  /\ UNCHANGED <<apiRest, frame, dom, kept, shown, busyVars>>

ClearEnd(s) ==
  /\ Answered(s, "clear")
  /\ modal' = Dialog("none")
  /\ calls' = Reload(s, Good(s, "historyClear"))
  /\ Trusted("history", "history" \in trust /\ Good(s, "historyClear"))
  /\ UNCHANGED <<apiRest, frame, dom, kept, shown, busyVars, deleteCtx>>

----------------------------------------------------------------------------
(* Monitor *)

\* setMonitorRange()
SetRange ==
  /\ dom.page = "monitor" /\ modal.kind = "none" /\ Free(calls) # {}
  /\ range' \in Ranges \ {range}
  /\ calls' = Begin(calls, CHOOSE s \in Free(calls) : TRUE, "monitor", "none",
                    range', token)
  /\ UNCHANGED <<apiRest, scene, initialized, hash, hashEvent, bootError, ticker,
                 dom, modal, dataVars>>

\* loadMonitor(), called from route() or setMonitorRange().  A range chosen
\* while it waited has its own load on the way, so this one was not alone.
MonitorShown(s) ==
  shown' = IF Good(s, "monitorQuality")
           THEN [shown EXCEPT !.on      = Value(s, "monitorQuality").on,
                              !.samples = Value(s, "monitorQuality").samples,
                              !.days    = Value(s, "monitorQuality").days]
           ELSE shown

MonitorLoaded(s) ==
  /\ Answered(s, "monitor")
  /\ MonitorShown(s)
  /\ Trusted("monitor", calls[s].alone /\ Good(s, "monitorQuality"))
  /\ Render /\ calls' = End(s)
  /\ UNCHANGED <<apiRest, frame, modal, kept, busyVars, deleteCtx>>

\* toggleMonitor(): the opposite of what the page shows is asked for.
ToggleStart ==
  /\ dom.page = "monitor" /\ modal.kind = "none" /\ ~toggling
  /\ Send("toggle", IF shown.on THEN "off" ELSE "on")
  /\ toggling' = TRUE /\ Render
  /\ UNCHANGED <<apiRest, frame, modal, kept, shown, sampling, deleteCtx, trust>>

ToggleEnd_nofinally(s) ==
  /\ Answered(s, "toggle")
  /\ shown' = [shown EXCEPT !.on = IF Good(s, "monitorEnabled")
                                   THEN Value(s, "monitorEnabled") ELSE @]
  /\ Trusted("monitor", "monitor" \in trust /\ Good(s, "monitorEnabled"))
  /\ toggling' = ~Good(s, "monitorEnabled") /\ Render /\ calls' = End(s)
  /\ UNCHANGED <<apiRest, frame, modal, kept, sampling, deleteCtx>>
ToggleEnd(s) ==
  /\ Answered(s, "toggle")
  /\ shown' = [shown EXCEPT !.on = IF Good(s, "monitorEnabled")
                                   THEN Value(s, "monitorEnabled") ELSE @]
  /\ Trusted("monitor", "monitor" \in trust /\ Good(s, "monitorEnabled"))
  /\ toggling' = FALSE /\ Render /\ calls' = End(s)
  /\ UNCHANGED <<apiRest, frame, modal, kept, sampling, deleteCtx>>

\* doMonitorSample(), which awaits loadMonitor() after a success.
SampleStart ==
  /\ dom.page = "monitor" /\ modal.kind = "none" /\ ~sampling
  /\ Send("sample", "none")
  /\ sampling' = TRUE /\ Render
  /\ UNCHANGED <<apiRest, frame, modal, kept, shown, toggling, deleteCtx, trust>>

SampleTaken(s) ==
  /\ Answered(s, "sample")
  /\ \/ /\ Good(s, "monitorSample")
        /\ calls' = Begin(calls, s, "sampleLoad", "none", range, token)
        /\ UNCHANGED <<sampling, dom, trust>>
     \/ /\ ~Good(s, "monitorSample")
        /\ sampling' = FALSE /\ Render /\ calls' = End(s)
        /\ Trusted("monitor", FALSE)
  /\ UNCHANGED <<apiRest, frame, modal, kept, shown, toggling, deleteCtx>>

SampleLoaded(s) ==
  /\ Answered(s, "sampleLoad")
  /\ MonitorShown(s)
  /\ Trusted("monitor", calls[s].alone /\ Good(s, "monitorQuality"))
  /\ sampling' = FALSE /\ Render /\ calls' = End(s)
  /\ UNCHANGED <<apiRest, frame, modal, kept, toggling, deleteCtx>>

----------------------------------------------------------------------------
(* Snapshots, and handlers that only say how it went *)

SnapshotsLoaded(s) ==
  /\ Answered(s, "snapshots")
  /\ shown' = [shown EXCEPT !.snaps = IF Good(s, "snapshots")
                                      THEN Value(s, "snapshots") ELSE @]
  /\ Trusted("snapshots", calls[s].alone /\ Good(s, "snapshots"))
  /\ Render /\ calls' = End(s)
  /\ UNCHANGED <<apiRest, frame, modal, kept, busyVars, deleteCtx>>

CreateStart ==
  /\ dom.page = "snapshots" /\ modal.kind = "none" /\ Send("create", "none")
  /\ UNCHANGED <<apiRest, shellVars, dataVars>>

CreateEnd(s) ==
  /\ Answered(s, "create")
  /\ calls' = IF Good(s, "snapshotCreate")
              THEN Begin(calls, s, "snapshots", "none", 0, token) ELSE End(s)
  /\ Trusted("snapshots", "snapshots" \in trust /\ Good(s, "snapshotCreate"))
  /\ UNCHANGED <<apiRest, shellVars, kept, shown, busyVars, deleteCtx>>

DiffStart ==
  /\ dom.page = "snapshots" /\ modal.kind = "none" /\ shown.snaps > 0
  /\ Send("diff", "none")
  /\ UNCHANGED <<apiRest, shellVars, dataVars>>

\* The differences appear in place of whatever dialog is open.
DiffEnd(s) ==
  /\ Answered(s, "diff")
  /\ modal' = IF Good(s, "snapshotDiff") THEN Dialog("info") ELSE modal
  /\ calls' = End(s)
  /\ UNCHANGED <<apiRest, frame, dom, dataVars>>

\* downloadHistoryLog(), doAlertTest(), doSnapshotRestore(): a toast.
AskStart ==
  /\ \/ dom.page = "history" /\ shown.diag \cup shown.fix # {}
     \/ dom.page = "monitor"
     \/ dom.page = "snapshots" /\ shown.snaps > 0
  /\ "ask" \in Does[scene] /\ modal.kind = "none" /\ Send("ask", "none")
  /\ UNCHANGED <<apiRest, shellVars, dataVars>>

AskEnd(s) ==
  /\ Answered(s, "ask") /\ calls' = End(s)
  /\ UNCHANGED <<apiRest, shellVars, dataVars>>

\* doDiscover(), doPortCheck(), doTrace(), doDnsCompare() and loadSecurity().
ToolStart ==
  /\ dom.page \in {"tools", "security"} /\ modal.kind = "none" /\ Send("tool", dom.page)
  /\ UNCHANGED <<apiRest, shellVars, dataVars>>

\* The result goes into the box of that page; without the box a TypeError.
ToolEnd(s) ==
  /\ Answered(s, "tool")
  /\ dom' = [dom EXCEPT !.result = @ \/ (Good(s, "tool") /\ calls[s].arg = dom.page)]
  /\ calls' = End(s)
  /\ UNCHANGED <<apiRest, frame, modal, dataVars>>

----------------------------------------------------------------------------
(* The service's side *)

\* A request that changes something: its answer may get lost.
Done(s, r, val) ==
  \/ Reply(s, r, "ok", val)
  \/ Reply(s, r, "no", "none")

\* The first page of the diagnoses in S; which of them are the newest is
\* abstracted.
FirstPage(S) == {P \in SUBSET S : Cardinality(P) = IF Cardinality(S) < PageSize
                                                   THEN Cardinality(S) ELSE PageSize}

ServeHistory(s) ==
  \/ /\ \/ \E P \in FirstPage(kept.diag) : Reply(s, "diagHistory", "ok", P)
        \/ Reply(s, "fixHistory", "ok", kept.fix)
     /\ UNCHANGED kept
  \/ /\ calls[s].arg \in kept.diag \cup kept.fix
     /\ Done(s, "historyDelete", "none")
     /\ kept' = [kept EXCEPT !.diag = @ \ {calls[s].arg}, !.fix = @ \ {calls[s].arg}]
  \/ Done(s, "historyClear", "none") /\ kept' = [kept EXCEPT !.diag = {}, !.fix = {}]

ServeMonitor(s) ==
  \/ /\ Reply(s, "monitorQuality", "ok",
              [days |-> calls[s].left, on |-> kept.on, samples |-> kept.samples])
     /\ UNCHANGED kept
  \/ /\ Done(s, "monitorEnabled", calls[s].arg = "on")
     /\ kept' = [kept EXCEPT !.on = calls[s].arg = "on"]
  \/ /\ kept.samples < MaxSamples
     /\ Done(s, "monitorSample", "none")
     /\ kept' = [kept EXCEPT !.samples = @ + 1]

ServeSnapshots(s) ==
  \/ Reply(s, "snapshots", "ok", kept.snaps) /\ UNCHANGED kept
  \/ /\ kept.snaps < MaxSnapshots
     /\ Done(s, "snapshotCreate", "none")
     /\ kept' = [kept EXCEPT !.snaps = @ + 1]
  \/ /\ \/ Reply(s, "snapshotDiff", "ok", "none")
        \/ Reply(s, "ask", "ok", "none")
        \/ Reply(s, "tool", "ok", "none")
     /\ UNCHANGED kept

ServeData(s) ==
  /\ Known(s) /\ (ServeHistory(s) \/ ServeMonitor(s) \/ ServeSnapshots(s))
  /\ UNCHANGED <<apiRest, shown, busyVars, deleteCtx, trust>>

\* Somebody else changes the data of a topic: a copy on show may be out of date
\* from now on, and so may the answers that already wait for a handler.
Meanwhile(topic) ==
  /\ trust' = trust \ {topic}
  /\ calls' = [s \in Slots |->
                 IF calls[s].op \in Kin(topic) /\ DOMAIN calls[s].ans # {}
                 THEN [calls[s] EXCEPT !.alone = FALSE] ELSE calls[s]]

\* A diagnosis or a repair is filed, an old one pruned, another tab deletes or
\* clears.  (A record that comes may bear the name of one that went.)
OthersHistory ==
  /\ \/ \E new \in (DiagRecords \cup FixRecords) \ (kept.diag \cup kept.fix) :
          kept' = [kept EXCEPT !.diag = @ \cup ({new} \cap DiagRecords),
                               !.fix  = @ \cup ({new} \cap FixRecords)]
     \/ \E gone \in (SUBSET (kept.diag \cup kept.fix)) \ {{}} :
          kept' = [kept EXCEPT !.diag = @ \ gone, !.fix = @ \ gone]
  /\ Meanwhile("history")

\* The sampling thread adds a sample, also one it was at when it was switched
\* off; another tab switches.  (That samples grow older than the range is left out.)
OthersMonitor ==
  /\ \/ kept.samples < MaxSamples /\ kept' = [kept EXCEPT !.samples = @ + 1]
     \/ kept' = [kept EXCEPT !.on = ~@]
  /\ Meanwhile("monitor")

\* Another tab, or a reset of the network, makes a snapshot.
OthersSnapshots ==
  /\ kept.snaps < MaxSnapshots /\ kept' = [kept EXCEPT !.snaps = @ + 1]
  /\ Meanwhile("snapshots")

\* In each scene, to the data that its user looks at.
Others ==
  /\ \/ scene = "history" /\ OthersHistory
     \/ scene = "monitor" /\ OthersMonitor
     \/ scene = "snapshots" /\ OthersSnapshots
  /\ UNCHANGED <<apiRest, shown, busyVars, deleteCtx>>

DataUser == \/ RequestDelete \/ DeleteStart \/ RequestClear \/ ClearStart
            \/ SetRange \/ ToggleStart \/ SampleStart
            \/ CreateStart \/ DiffStart \/ AskStart \/ ToolStart

DataResume(s) == \/ HistoryLoaded(s) \/ DeleteEnd(s) \/ ClearEnd(s)
                 \/ MonitorLoaded(s) \/ ToggleEnd(s) \/ SampleTaken(s)
                 \/ SampleLoaded(s) \/ SnapshotsLoaded(s) \/ CreateEnd(s)
                 \/ DiffEnd(s) \/ AskEnd(s) \/ ToolEnd(s)

\* The page has loaded nothing yet.
DataInit ==
  /\ kept = [diag |-> DiagRecords, fix |-> FixRecords, on |-> scene # "monitor",
             samples |-> 0, days |-> 0, snaps |-> 0]
  /\ shown = [diag |-> {}, fix |-> {}, on |-> TRUE, samples |-> 0, days |-> 0,
              snaps |-> 0]
  /\ toggling = FALSE /\ sampling = FALSE
  /\ deleteCtx = NoRecord /\ trust = {}

----------------------------------------------------------------------------
(* Properties *)

Holding == [diag : SUBSET DiagRecords, fix : SUBSET FixRecords, on : BOOLEAN,
            samples : 0..MaxSamples, days : Ranges \cup {0}, snaps : 0..MaxSnapshots]

DataTypeOK ==
  /\ kept \in Holding /\ shown \in Holding
  /\ toggling \in BOOLEAN /\ sampling \in BOOLEAN
  /\ deleteCtx \in DiagRecords \cup FixRecords \cup {NoRecord}
  /\ trust \subseteq {"history", "monitor", "snapshots"}

\* The monitor page shows its spinners only while their handlers wait
\* (app.js:1357-1389, the finally blocks).
MonitorHasCall ==
  /\ toggling => \E s \in Slots : calls[s].op = "toggle"
  /\ sampling => \E s \in Slots : calls[s].op \in {"sample", "sampleLoad"}

\* The record that the dialog on show was opened for is the one its button
\* deletes, also when the answer to an earlier deletion comes while the dialog
\* is open (app.js:1114, 1139-1163: one context for all dialogs).
DeleteWhatIsAsked == modal.kind = "delete" => deleteCtx = modal.rec

\* What the page shows of a topic at rest is what the service keeps (of the
\* diagnoses, its first page), from one undisturbed load on, through every
\* change the page makes itself, until a request about it fails, loads overlap,
\* or somebody else changes the data: that the page shows nothing of the
\* latter, its own diagnoses among them, before the next load, is the exception
\* (app.js:1108-1113, 1162, 1182, 1364, 1397, 1456; sampler.py:65-70).
AtRestTrue ==
  LET quiet(topic) == \A s \in Slots : calls[s].op \notin Kin(topic)
  IN /\ "history" \in trust /\ quiet("history")
          => shown.diag \in FirstPage(kept.diag) /\ shown.fix = kept.fix
     /\ "monitor" \in trust /\ quiet("monitor")
          => shown.on = kept.on /\ shown.samples = kept.samples /\ shown.days = range
     /\ "snapshots" \in trust /\ quiet("snapshots") => shown.snaps = kept.snaps
=============================================================================
