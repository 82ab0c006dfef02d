-------------------------------- MODULE WebUI --------------------------------
(****************************************************************************)
(* The web page as a whole (src/webui/assets): the frame, the diagnosis and *)
(* the data pages work on one API client, one #app and one #modalRoot; the  *)
(* handlers of each wait beside those of the others.                        *)
(*                                                                          *)
(* A behaviour is one scene: what its user does.  The languages, the copy   *)
(* button, the computations of two views and the tools of the language      *)
(* packs share no state with the rest and have scenes of their own.         *)
(****************************************************************************)
EXTENDS WebDiag, WebData, I18n, Clipboard, PackTools, Views

diagPage == <<pageVars, diagVars>>
apart    == <<i18nVars, clipVars, packVars, given>>
vars     == <<diagPage, dataVars, apart>>

PageScenes  == DOMAIN Visits
ApartScenes == {"language", "clipboard", "packs", "views"}

ASSUME ScenesAssumption == Scenes \subseteq PageScenes \cup ApartScenes

----------------------------------------------------------------------------
(* What a part that is not in the scene holds. *)

LanguageAtRest == /\ wishes = <<English>> /\ stored = NoLang
                  /\ curLang = English /\ dir = "none"

ClipAtRest == /\ secure = FALSE /\ code = "" /\ clip = "other"
              /\ marked = FALSE /\ button = Label

PacksAtRest == /\ listed = {EnglishPack}
               /\ packs = [c \in listed |-> [k \in {} |-> "hand"]]
               /\ ran = [tool |-> "none", ok |-> TRUE, before |-> File]

ViewsAtRest == given = [view |-> "none"]

Init ==
  /\ ShellInit /\ DiagInit /\ DataInit
  /\ IF scene = "language"  THEN I18nInit ELSE LanguageAtRest
  /\ IF scene = "clipboard" THEN ClipInit ELSE ClipAtRest
  /\ IF scene = "packs"     THEN PackInit ELSE PacksAtRest
  /\ IF scene = "views"     THEN ViewInit ELSE ViewsAtRest

----------------------------------------------------------------------------
(* One step of the page: of its user, a timer or the browser's event ... *)

UserStep ==
  /\ scene \in PageScenes
  /\ \/ ShellUser /\ UNCHANGED <<diagVars, dataVars>>
     \/ DiagUser /\ UNCHANGED dataVars
     \/ DataUser /\ UNCHANGED diagVars
  /\ UNCHANGED apart

Event == HashChange /\ UNCHANGED <<diagVars, dataVars, apart>>

Timer == ShellTimers /\ UNCHANGED <<diagVars, dataVars, apart>>
TimesUp == (TickEnd \/ TickOver) /\ UNCHANGED <<diagVars, dataVars, apart>>

\* ... a handler that resumes, or an answer of the service.
Resume(s) ==
  /\ calls[s] # Idle
  /\ \/ ShellResume(s) /\ UNCHANGED <<diagVars, dataVars>>
     \/ DiagResume(s) /\ UNCHANGED dataVars
     \/ DataResume(s) /\ UNCHANGED diagVars
  /\ UNCHANGED apart

Serve(s) ==
  /\ calls[s] # Idle
  /\ \/ ShellServe(s) /\ UNCHANGED <<diagVars, dataVars>>
     \/ ServeDiag(s) /\ UNCHANGED <<shellVars, diagVars, dataVars>>
     \/ ServeData(s) /\ UNCHANGED <<shellVars, diagVars>>
  /\ UNCHANGED apart

\* Others at the service change what it keeps.
OthersStep == Others /\ UNCHANGED <<shellVars, diagVars, apart>>

\* A step of the part that the scene is about.
Apart ==
  /\ \/ scene = "language" /\ I18nNext /\ UNCHANGED <<clipVars, packVars, given>>
     \/ scene = "clipboard" /\ ClipNext /\ UNCHANGED <<i18nVars, packVars, given>>
     \/ scene = "packs" /\ PackNext /\ UNCHANGED <<i18nVars, clipVars, given>>
  /\ UNCHANGED <<diagPage, dataVars>>

ButtonStep == (Written \/ Restored) /\ UNCHANGED <<i18nVars, packVars, given, diagPage, dataVars>>

Next == \/ UserStep \/ Event \/ Timer \/ Apart \/ OthersStep
        \/ \E s \in Slots : Resume(s) \/ Serve(s)

Spec == Init /\ [][Next]_vars

\* The scenes in which a handler shows that it is at work.
Working == {"lockout", "diagnosis", "repair", "monitor"}

\* Timers fire, and a handler moves on: its requests are answered or fail, and
\* the event loop resumes it when all of them are.  (Asked for only where
\* something waits for it.)
Fairness == /\ \A s \in Slots : WF_calls(scene \in Working /\ (Resume(s) \/ Serve(s)))
            /\ WF_<<ticker, button>>(TimesUp \/ ButtonStep)

FairSpec == Spec /\ Fairness

----------------------------------------------------------------------------
(* Properties *)

\* Types of all parts.
TypeOK == ShellTypeOK /\ DiagTypeOK /\ DataTypeOK /\ I18nTypeOK /\ ClipTypeOK

\* Whatever the page shows as at work, a handler of it waits (app.js:809-821,
\* 966-983, 1357-1389).
BusyHasCall == RunningHasCall /\ MonitorHasCall

\* Nothing that shows work or locks a control does so for ever, whatever the
\* answers are and however the user goes about: the lockout box, the spinner of
\* a diagnosis and its 120 questions, the bar of a repair, the two spinners of
\* the monitor, the copy button (app.js:434-443, 809-821, 966-983, 1357-1389,
\* clipboard.js:66-69).
BusyEnds ==
  LET busy == \/ dom.lock \/ diagRunning \/ fixCtx.phase = "running"
              \/ toggling \/ button.off         \* no two of them in a scene
  IN []<>~busy /\ []<>~sampling     \* the same as busy ~> ~busy
=============================================================================
