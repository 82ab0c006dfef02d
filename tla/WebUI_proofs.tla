---------------------------- MODULE WebUI_proofs ----------------------------
(****************************************************************************)
(* Proofs about the page, for any number of waiting handlers, any records,  *)
(* tokens and clocks: without a token no page of the application stays on   *)
(* show, the lockout box locks the form, the dialog of a deletion deletes   *)
(* the record it was opened for, and every spinner belongs to a handler     *)
(* that waits.                                                              *)
(*                                                                          *)
(* The inductive invariant adds the one fact about the start on which the   *)
(* first of them rests: before anything is drawn only boot() waits, with a  *)
(* token if it waits for the dashboard, and no dialog is open.              *)
(****************************************************************************)
EXTENDS WebUI, TLAPS

\* A table of handlers.
IsCalls(c) == /\ c = [x \in Slots |-> c[x]]
              /\ \A x \in Slots : "op" \in DOMAIN c[x]

Starting == {"none", "boot", "bootDash"}

Shapes ==
  /\ IsCalls(calls)
  /\ dom = [page |-> dom.page, retry |-> dom.retry, lock |-> dom.lock,
            off |-> dom.off, own |-> dom.own, result |-> dom.result]
  /\ modal = [kind |-> modal.kind, rec |-> modal.rec, off |-> modal.off]
  /\ ticker \in Nat
  /\ hash # Blank

BlankIsStart ==
  dom.page = Blank =>
    /\ modal.kind = "none"
    /\ \A x \in Slots : /\ calls[x].op \in Starting
                        /\ calls[x].op = "bootDash" => token # NoToken

PageInv == /\ Shapes /\ BlankIsStart
           /\ LoggedOutIsPublic /\ LockLocksForm /\ DeleteWhatIsAsked

----------------------------------------------------------------------------
(* Tables of handlers *)

LEMMA BeginTable ==
  ASSUME NEW c, IsCalls(c), NEW s, NEW op, NEW arg, NEW left, NEW tk
  PROVE  /\ IsCalls(Begin(c, s, op, arg, left, tk))
         /\ \A x \in Slots : Begin(c, s, op, arg, left, tk)[x].op
                               = IF x = s THEN op ELSE c[x].op
<1> DEFINE near == {x \in Slots \ {s} : c[x].op \in Kin(op)}
           b(x) == IF x = s THEN [op |-> op, arg |-> arg, left |-> left, tok |-> tk,
                                  ans |-> <<>>, alone |-> near = {}]
                   ELSE IF x \in near THEN [c[x] EXCEPT !.alone = FALSE]
                   ELSE c[x]
<1>1. Begin(c, s, op, arg, left, tk) = [x \in Slots |-> b(x)]
  BY DEF Begin
<1>2. ASSUME NEW x \in Slots
      PROVE  "op" \in DOMAIN b(x) /\ b(x).op = IF x = s THEN op ELSE c[x].op
  <2>1. "op" \in DOMAIN c[x]  BY DEF IsCalls
  <2>2. CASE x = s  BY <2>2
  <2>3. CASE x # s /\ x \in near
    <3>1. b(x) = [c[x] EXCEPT !.alone = FALSE]  BY <2>3
    <3> QED  BY <3>1, <2>1, <2>3
  <2>4. CASE x # s /\ x \notin near
    <3>1. b(x) = c[x]  BY <2>4
    <3> QED  BY <3>1, <2>1, <2>4
  <2> QED  BY <2>2, <2>3, <2>4
<1> HIDE DEF b
<1> QED  BY <1>1, <1>2 DEF IsCalls

LEMMA EndTable ==
  ASSUME IsCalls(calls), NEW s \in Slots
  PROVE  /\ IsCalls(End(s))
         /\ \A x \in Slots : End(s)[x].op = IF x = s THEN "none" ELSE calls[x].op
BY DEF IsCalls, End, Idle

LEMMA ReplyTable ==
  ASSUME IsCalls(calls), NEW s \in Slots, NEW r, NEW code1, NEW val,
         Reply(s, r, code1, val)
  PROVE  /\ IsCalls(calls')
         /\ \A x \in Slots : calls'[x].op = calls[x].op
<1>1. PICK a : calls' = [calls EXCEPT ![s] = [calls[s] EXCEPT !.ans = a]]
  BY DEF Reply
<1>2. \A x \in Slots : calls'[x] = IF x = s THEN [calls[s] EXCEPT !.ans = a] ELSE calls[x]
  BY <1>1 DEF IsCalls
<1>3. "op" \in DOMAIN calls[s]
  BY DEF IsCalls
<1>4. /\ "op" \in DOMAIN [calls[s] EXCEPT !.ans = a]
      /\ [calls[s] EXCEPT !.ans = a].op = calls[s].op
  BY <1>3
<1> QED  BY <1>1, <1>2, <1>4 DEF IsCalls

\* What others do at the service leaves every handler at its place.
LEMMA OthersTable ==
  ASSUME IsCalls(calls), Others
  PROVE  /\ IsCalls(calls')
         /\ \A x \in Slots : calls'[x].op = calls[x].op
<1>1. PICK topic : Meanwhile(topic)
  BY DEF Others, OthersHistory, OthersMonitor, OthersSnapshots
<1> DEFINE late(x) == calls[x].op \in Kin(topic) /\ DOMAIN calls[x].ans # {}
           b(x) == IF late(x) THEN [calls[x] EXCEPT !.alone = FALSE] ELSE calls[x]
<1>2. calls' = [x \in Slots |-> b(x)]
  BY <1>1 DEF Meanwhile
<1>3. ASSUME NEW x \in Slots
      PROVE  "op" \in DOMAIN b(x) /\ b(x).op = calls[x].op
  <2>1. "op" \in DOMAIN calls[x]
    BY DEF IsCalls
  <2>2. CASE late(x)
    <3>1. b(x) = [calls[x] EXCEPT !.alone = FALSE]
      BY <2>2
    <3> QED  BY <2>1, <3>1
  <2>3. CASE ~late(x)
    <3>1. b(x) = calls[x]
      BY <2>3
    <3> QED  BY <2>1, <3>1
  <2> QED  BY <2>2, <2>3
<1> HIDE DEF b
<1> QED  BY <1>2, <1>3 DEF IsCalls

LEMMA SendTable ==
  ASSUME IsCalls(calls), NEW op, NEW arg, Send(op, arg)
  PROVE  IsCalls(calls')
BY BeginTable DEF Send

----------------------------------------------------------------------------
(* Kinds of steps *)

\* Only the handlers of the start wait before anything is drawn.
LEMMA StartOnly ==
  ASSUME PageInv, NEW s \in Slots, calls[s].op \notin Starting
  PROVE  dom.page # Blank
BY DEF PageInv, BlankIsStart

\* Nothing on the page changes.
LEMMA QuietStep ==
  ASSUME PageInv, IsCalls(calls'), dom.page # Blank,
         UNCHANGED <<token, hash, hashEvent, dom, ticker, modal, deleteCtx>>
  PROVE  PageInv'
BY DEF PageInv, Shapes, BlankIsStart, LoggedOutIsPublic, LockLocksForm,
       DeleteWhatIsAsked, IsCalls

\* The page on show is drawn again.
LEMMA DrawStep ==
  ASSUME PageInv, IsCalls(calls'), dom.page # Blank, Render,
         UNCHANGED <<token, hash, hashEvent, ticker, modal, deleteCtx>>
  PROVE  PageInv'
BY DEF PageInv, Shapes, BlankIsStart, LoggedOutIsPublic, LockLocksForm,
       DeleteWhatIsAsked, Render, Fresh, Current, IsCalls

\* A dialog appears that is not about a deletion, or the dialog goes.
LEMMA DialogStep ==
  ASSUME PageInv, IsCalls(calls'), dom.page # Blank,
         NEW k, k # "delete", modal' = Dialog(k),
         UNCHANGED <<token, hash, hashEvent, dom, ticker>>
  PROVE  PageInv'
BY DEF PageInv, Shapes, BlankIsStart, LoggedOutIsPublic, LockLocksForm,
       DeleteWhatIsAsked, Dialog, IsCalls

\* The page that route() shows.
LEMMA LandingPage ==
  ASSUME NEW tk, NEW h, h # Blank
  PROVE  /\ Landing(tk, h) # Blank
         /\ tk = NoToken => Landing(tk, h) \in Public
BY DEF Landing, Blank, Public

LEMMA RouteResult ==
  ASSUME NEW c, IsCalls(c), NEW tk, NEW h, h # Blank, Route(c, tk, h)
  PROVE  /\ IsCalls(calls')
         /\ dom' = Fresh(Landing(tk, h), bootError)
         /\ dom'.page # Blank /\ ~dom'.lock
         /\ tk = NoToken => dom'.page \in Public
<1>1. IsCalls(calls')
  BY BeginTable DEF Route
<1>2. dom' = Fresh(Landing(tk, h), bootError)
  BY DEF Route
<1>3. dom'.page = Landing(tk, h) /\ ~dom'.lock
  BY <1>2 DEF Fresh
<1> QED  BY <1>1, <1>2, <1>3, LandingPage

\* nav() shows a page at once or leaves it to the event that is waiting then.
LEMMA NavStep ==
  ASSUME PageInv, dom.page # Blank,
         NEW c, IsCalls(c), NEW p, p # Blank, NEW d, Nav(c, token', p, d),
         d = [page |-> d.page, retry |-> d.retry, lock |-> d.lock, off |-> d.off,
              own |-> d.own, result |-> d.result],
         d.page # Blank, ~d.lock \/ d = dom,
         \/ UNCHANGED <<modal, deleteCtx>>
         \/ \E k : k # "delete" /\ modal' = Dialog(k),
         UNCHANGED ticker
  PROVE  PageInv'
<1> DEFINE target == IF token' = NoToken /\ p \notin Public THEN "login" ELSE p
<1>1. target # Blank
  BY DEF Blank
<1>2. CASE hash = target
  <2>1. Route(c, token', hash) /\ UNCHANGED <<hash, hashEvent>>
    BY <1>2 DEF Nav
  <2>2. /\ IsCalls(calls') /\ dom' = Fresh(Landing(token', hash), bootError)
        /\ dom'.page # Blank /\ ~dom'.lock
        /\ token' = NoToken => dom'.page \in Public
    BY <2>1, <1>1, <1>2, RouteResult
  <2> QED  BY <2>1, <2>2 DEF PageInv, Shapes, BlankIsStart, LoggedOutIsPublic,
              LockLocksForm, DeleteWhatIsAsked, Dialog, Fresh
<1>3. CASE hash # target
  <2>1. hash' = target /\ hashEvent' = TRUE /\ calls' = c /\ dom' = d
    BY <1>3 DEF Nav
  <2> QED  BY <2>1, <1>1 DEF PageInv, Shapes, BlankIsStart, LoggedOutIsPublic,
              LockLocksForm, DeleteWhatIsAsked, Dialog, IsCalls
<1> QED  BY <1>2, <1>3

----------------------------------------------------------------------------
(* The frame of the page *)

LEMMA VisitsPages == \A x \in PageScenes : Blank \notin Visits[x]
<1> SUFFICES ASSUME NEW x \in PageScenes PROVE "blank" \notin Visits[x]
  BY DEF Blank
<1>1. x \in {"login", "session", "account", "lockout", "diagnosis", "repair",
             "history", "monitor", "snapshots", "tools"}
  BY DEF PageScenes, Visits
<1>2. CASE x = "login"      BY <1>2 DEF Visits
<1>3. CASE x = "session"    BY <1>3 DEF Visits
<1>4. CASE x = "account"    BY <1>4 DEF Visits
<1>5. CASE x = "lockout"    BY <1>5 DEF Visits
<1>6. CASE x = "diagnosis"  BY <1>6 DEF Visits
<1>7. CASE x = "repair"     BY <1>7 DEF Visits
<1>8. CASE x = "history"    BY <1>8 DEF Visits
<1>9. CASE x = "monitor"    BY <1>9 DEF Visits
<1>10. CASE x = "snapshots"  BY <1>10 DEF Visits
<1>11. CASE x = "tools"      BY <1>11 DEF Visits
<1> QED  BY <1>1, <1>2, <1>3, <1>4, <1>5, <1>6, <1>7, <1>8, <1>9, <1>10, <1>11

LEMMA ShellUserKeeps ==
  ASSUME PageInv, scene \in PageScenes, ShellUser, UNCHANGED deleteCtx
  PROVE  PageInv'
<1> USE DEF still, frame, shellVars, apiRest, apiVars
<1>0. /\ IsCalls(calls)
      /\ dom = [page |-> dom.page, retry |-> dom.retry, lock |-> dom.lock,
                off |-> dom.off, own |-> dom.own, result |-> dom.result]
  BY DEF PageInv, Shapes
<1>1. CASE EditHash
  <2>1. hash' # Blank
    BY <1>1, VisitsPages DEF EditHash
  <2> QED  BY <1>1, <2>1 DEF EditHash, PageInv, Shapes, BlankIsStart,
              LoggedOutIsPublic, LockLocksForm, DeleteWhatIsAsked
<1>2. CASE Click
  <2>1. PICK q \in Links \cap Visits[scene] : Nav(calls, token, q, dom)
    BY <1>2 DEF Click
  <2>2. q # Blank
    BY VisitsPages
  <2>3. dom.page # Blank
    BY <2>1 DEF Links, Blank
  <2> QED  BY <1>0, <1>2, <2>1, <2>2, <2>3, NavStep DEF Click
<1>3. CASE CloseModal
  <2>1. dom.page # Blank
    BY <1>3 DEF CloseModal, PageInv, BlankIsStart
  <2> QED  BY <1>0, <1>3, <2>1, DialogStep DEF CloseModal
<1>4. CASE Continue
  <2>1. dom.page # Blank
    BY <1>4 DEF Continue, PageInv, BlankIsStart
  <2> QED  BY <1>0, <1>4, <2>1, NavStep DEF Continue, Blank
<1>5. CASE RetryBoot
  <2>1. IsCalls(calls')
    BY <1>0, <1>5, SendTable DEF RetryBoot
  <2> QED  BY <1>5, <2>1 DEF RetryBoot, PageInv, Shapes, BlankIsStart,
              LoggedOutIsPublic, LockLocksForm, DeleteWhatIsAsked, Fresh, Blank, Public
<1>6. CASE Refresh
  BY <1>0, <1>6, SendTable, QuietStep DEF Refresh, Blank
<1>7. CASE LoginStart
  <2>1. IsCalls(calls')
    BY <1>0, <1>7, SendTable DEF LoginStart
  <2>2. PICK o : dom' = [page |-> dom.page, retry |-> dom.retry, lock |-> dom.lock,
                         off |-> TRUE, own |-> o, result |-> dom.result]
    BY <1>0, <1>7 DEF LoginStart
  <2> QED  BY <1>7, <2>1, <2>2 DEF LoginStart, PageInv, Shapes, BlankIsStart,
              LoggedOutIsPublic, LockLocksForm, DeleteWhatIsAsked, Blank
<1>8. CASE RequestLogout
  BY <1>0, <1>8, DialogStep DEF RequestLogout, Open
<1>9. CASE LogoutStart
  <2>1. dom.page # Blank
    BY <1>9 DEF LogoutStart, PageInv, BlankIsStart
  <2> QED  BY <1>0, <1>9, <2>1, SendTable, QuietStep DEF LogoutStart
<1>10. CASE InitStart
  BY <1>0, <1>10, SendTable, QuietStep DEF InitStart, Blank
<1>11. CASE RecoverStart
  BY <1>0, <1>11, SendTable, QuietStep DEF RecoverStart, Blank
<1> QED  BY <1>1, <1>2, <1>3, <1>4, <1>5, <1>6, <1>7, <1>8, <1>9, <1>10, <1>11
            DEF ShellUser

LEMMA TimersKeep ==
  ASSUME PageInv, ShellTimers, UNCHANGED deleteCtx
  PROVE  PageInv'
<1> USE DEF still, frame, apiRest, apiVars, PageInv, Shapes, BlankIsStart,
            LoggedOutIsPublic, LockLocksForm, DeleteWhatIsAsked
<1>1. CASE TickEnd   BY <1>1 DEF TickEnd
<1>2. CASE TickOver
  <2>1. dom' = [page |-> dom.page, retry |-> dom.retry, lock |-> FALSE, off |-> FALSE,
                own |-> dom.own, result |-> dom.result]
    BY <1>2 DEF TickOver
  <2>2. ticker' \in Nat
    BY <1>2 DEF TickOver
  <2> QED  BY <1>2, <2>1, <2>2 DEF TickOver
<1>3. CASE TickOn    BY <1>3 DEF TickOn
<1> QED  BY <1>1, <1>2, <1>3 DEF ShellTimers

LEMMA EventKeeps ==
  ASSUME PageInv, HashChange, UNCHANGED deleteCtx
  PROVE  PageInv'
<1>1. Route(calls, token, hash) /\ UNCHANGED <<token, hash, ticker, modal>>
  BY DEF HashChange, apiRest, still
<1>2. hash # Blank /\ IsCalls(calls)
  BY DEF PageInv, Shapes
<1>3. /\ IsCalls(calls') /\ dom' = Fresh(Landing(token, hash), bootError)
      /\ dom'.page # Blank /\ ~dom'.lock
      /\ token = NoToken => dom'.page \in Public
  BY <1>1, <1>2, RouteResult
<1> QED  BY <1>1, <1>3 DEF PageInv, Shapes, BlankIsStart, LoggedOutIsPublic,
            LockLocksForm, DeleteWhatIsAsked, Fresh

\* What an answer to a login leaves under #app.
LEMMA ReleasedForm ==
  ASSUME NEW s,
         dom = [page |-> dom.page, retry |-> dom.retry, lock |-> dom.lock,
                off |-> dom.off, own |-> dom.own, result |-> dom.result]
  PROVE  \E o, u : Released(s) = [page |-> dom.page, retry |-> dom.retry, lock |-> FALSE,
                                  off |-> u, own |-> o, result |-> dom.result]
<1> DEFINE u == dom.off /\ s \notin dom.own
           o == dom.own \ {s}
<1>1. Released(s) = [dom EXCEPT !.lock = FALSE, !.off = u, !.own = o]
  BY DEF Released
<1> HIDE DEF u, o
<1>2. Released(s) = [page |-> dom.page, retry |-> dom.retry, lock |-> FALSE,
                     off |-> u, own |-> o, result |-> dom.result]
  BY <1>1
<1> QED  BY <1>2

LEMMA ShellResumeKeeps ==
  ASSUME PageInv, NEW s \in Slots, ShellResume(s), UNCHANGED deleteCtx
  PROVE  PageInv'
<1> USE DEF still, frame, apiRest
<1>0. /\ IsCalls(calls) /\ IsCalls(End(s))
      /\ dom = [page |-> dom.page, retry |-> dom.retry, lock |-> dom.lock,
                off |-> dom.off, own |-> dom.own, result |-> dom.result]
  BY EndTable DEF PageInv, Shapes
<1>1. CASE BootStatus(s)
  <2>1. /\ calls[s].op = "boot"
        /\ UNCHANGED <<hash, hashEvent, ticker, modal>>
    BY <1>1 DEF BootStatus, Answered
  <2>2. CASE /\ \E p \in {"login", "init"}, e \in BOOLEAN : dom' = Fresh(p, e)
             /\ calls' = End(s)
    <3>1. dom'.page \in Public /\ dom'.page # Blank /\ ~dom'.lock
      BY <2>2 DEF Fresh, Public, Blank
    <3> QED  BY <1>0, <2>1, <2>2, <3>1 DEF PageInv, Shapes, BlankIsStart,
                LoggedOutIsPublic, LockLocksForm, DeleteWhatIsAsked, Fresh
  <2>3. CASE /\ token' # NoToken /\ UNCHANGED dom
             /\ calls' = Begin(calls, s, "bootDash", "none", 0, token')
    <3>1. /\ IsCalls(calls')
          /\ \A x \in Slots : calls'[x].op = IF x = s THEN "bootDash" ELSE calls[x].op
      BY <1>0, <2>3, BeginTable
    <3> QED  BY <2>1, <2>3, <3>1 DEF PageInv, Shapes, BlankIsStart, Starting,
                LoggedOutIsPublic, LockLocksForm, DeleteWhatIsAsked
  <2> QED  BY <1>1, <2>2, <2>3 DEF BootStatus
<1>2. CASE Dashboard(s)
  <2>1. /\ calls[s].op \in {"bootDash", "dash"} /\ Render /\ calls' = End(s)
        /\ UNCHANGED <<token, hash, hashEvent, ticker, modal>>
    BY <1>2 DEF Dashboard, Answered
  <2>2. CASE dom.page = Blank
    <3>1. token # NoToken /\ dom'.page = "dashboard" /\ ~dom'.lock
      BY <2>1, <2>2 DEF PageInv, BlankIsStart, Starting, Render, Fresh, Current
    <3> QED  BY <1>0, <2>1, <3>1 DEF PageInv, Shapes, BlankIsStart, Blank, Render,
                Fresh, LoggedOutIsPublic, LockLocksForm, DeleteWhatIsAsked
  <2> QED  BY <1>0, <2>1, <2>2, DrawStep
<1>3. CASE Interfaces(s)
  <2>1. dom.page # Blank
    BY <1>3, StartOnly DEF Interfaces, Answered, Starting
  <2> QED  BY <1>0, <1>3, <2>1, DrawStep, QuietStep DEF Interfaces
<1>4. CASE LoginEnd(s)
  <2> DEFINE r == calls[s].ans["login"]
             d == Released(s)
  <2>1. dom.page # Blank
    BY <1>4, StartOnly DEF LoginEnd, Answered, Starting
  <2>2. PICK o, u : d = [page |-> dom.page, retry |-> dom.retry, lock |-> FALSE,
                         off |-> u, own |-> o, result |-> dom.result]
    BY <1>0, ReleasedForm
  <2>3. CASE /\ calls' = End(s) /\ UNCHANGED <<token, dom, hash, hashEvent, ticker>>
    BY <1>0, <1>4, <2>1, <2>3, QuietStep DEF LoginEnd
  <2>4. CASE /\ token' = r.val /\ UNCHANGED ticker
             /\ Nav(Begin(calls, s, "dash", "none", 0, r.val), r.val, "dashboard", d)
    <3>1. IsCalls(Begin(calls, s, "dash", "none", 0, r.val))
      BY <1>0, BeginTable
    <3>2. /\ d = [page |-> d.page, retry |-> d.retry, lock |-> d.lock, off |-> d.off,
                  own |-> d.own, result |-> d.result]
          /\ d.page # Blank /\ ~d.lock
      BY <2>1, <2>2
    <3>3. UNCHANGED <<modal, deleteCtx>>
      BY <1>4 DEF LoginEnd
    <3> HIDE DEF d, r
    <3> QED  BY <2>1, <2>4, <3>1, <3>2, <3>3, NavStep DEF Blank
  <2> HIDE DEF d
  <2>5. CASE /\ dom' = [d EXCEPT !.lock = TRUE, !.off = TRUE]
             /\ ticker' = ticker + 1
             /\ calls' = End(s) /\ UNCHANGED <<token, hash, hashEvent>>
    <3>1. dom' = [page |-> dom.page, retry |-> dom.retry, lock |-> TRUE, off |-> TRUE,
                  own |-> o, result |-> dom.result]
      BY <2>2, <2>5
    <3>2. UNCHANGED modal
      BY <1>4 DEF LoginEnd
    <3>3. ticker' \in Nat /\ ticker' > 0
      BY <2>5 DEF PageInv, Shapes
    <3>4. dom'.page = dom.page /\ dom'.off = TRUE
      BY <3>1
    <3>5. IsCalls(calls')
      BY <1>0, <2>5
    <3> QED  BY <2>1, <2>5, <3>1, <3>2, <3>3, <3>4, <3>5 DEF PageInv, Shapes, BlankIsStart,
                LoggedOutIsPublic, LockLocksForm, DeleteWhatIsAsked
  <2>6. CASE /\ dom' = d
             /\ calls' = End(s) /\ UNCHANGED <<token, hash, hashEvent, ticker>>
    <3>1. UNCHANGED modal
      BY <1>4 DEF LoginEnd
    <3> QED  BY <1>0, <2>1, <2>2, <2>6, <3>1 DEF PageInv, Shapes, BlankIsStart,
                LoggedOutIsPublic, LockLocksForm, DeleteWhatIsAsked
  <2> QED  BY <1>4, <2>3, <2>4, <2>5, <2>6 DEF LoginEnd, d
<1>5. CASE LogoutEnd(s)
  <2>1. dom.page # Blank
    BY <1>5, StartOnly DEF LogoutEnd, Answered, Starting
  <2>2. Nav(End(s), token', "login", dom)
    BY <1>5 DEF LogoutEnd
  <2>3. "none" # "delete" /\ modal' = Dialog("none") /\ UNCHANGED ticker
    BY <1>5 DEF LogoutEnd
  <2>4. (~dom.lock \/ dom = dom) /\ "login" # Blank
    BY DEF Blank
  <2> QED  BY <1>0, <2>1, <2>2, <2>3, <2>4, NavStep
<1>6. CASE CodeShown(s)
  <2>1. dom.page # Blank
    BY <1>6, StartOnly DEF CodeShown, Answered, Starting
  <2>2. modal' = Dialog("recovery") \/ UNCHANGED modal
    BY <1>6 DEF CodeShown
  <2> QED  BY <1>0, <1>6, <2>1, <2>2, DialogStep, QuietStep DEF CodeShown
<1> QED  BY <1>1, <1>2, <1>3, <1>4, <1>5, <1>6 DEF ShellResume

----------------------------------------------------------------------------
(* An answer arrives: the handlers wait for the same work as before. *)

LEMMA ServeStep ==
  ASSUME PageInv, NEW s \in Slots,
         \E r, code1, val : Reply(s, r, code1, val),
         UNCHANGED <<token, hash, hashEvent, dom, ticker, modal, deleteCtx>>
  PROVE  PageInv'
<1>1. /\ IsCalls(calls')
      /\ \A x \in Slots : calls'[x].op = calls[x].op
  BY ReplyTable DEF PageInv, Shapes
<1> QED  BY <1>1 DEF PageInv, Shapes, BlankIsStart, LoggedOutIsPublic,
            LockLocksForm, DeleteWhatIsAsked

LEMMA ShellServeKeeps ==
  ASSUME PageInv, NEW s \in Slots, ShellServe(s), UNCHANGED deleteCtx
  PROVE  PageInv'
<1> USE DEF still, frame, shellVars, apiRest
<1>1. \E r, code1, val : Reply(s, r, code1, val)
  BY DEF ShellServe, ServeSetup, ServeStatus, ServeRead, ServeLogin, ServeLocked,
         ServeLogout, ServeRecover, Refuse
<1>2. UNCHANGED <<token, hash, hashEvent, dom, ticker, modal>>
  BY DEF ShellServe, ServeSetup, ServeStatus, ServeRead, ServeLogin, ServeLocked,
         ServeLogout, ServeRecover, Refuse
<1> QED  BY <1>1, <1>2, ServeStep

----------------------------------------------------------------------------
(* Diagnosis and repair *)

\* renderModal() shows the dialog of a repair or none.
LEMMA RepairDialog ==
  ASSUME RenderModal
  PROVE  \E k : k # "delete" /\ modal' = Dialog(k)
<1>1. CASE fixCtx' = NoFix  BY <1>1 DEF RenderModal
<1>2. CASE fixCtx' # NoFix  BY <1>2 DEF RenderModal
<1> QED  BY <1>1, <1>2

LEMMA DiagUserKeeps ==
  ASSUME PageInv, DiagUser, UNCHANGED deleteCtx
  PROVE  PageInv'
<1> USE DEF still, frame, shellVars, apiRest, apiVars
<1>0. IsCalls(calls)
  BY DEF PageInv, Shapes
<1>1. CASE RunDiag
  BY <1>0, <1>1, SendTable, DrawStep DEF RunDiag, Blank
<1>2. CASE RunDiagFromDash
  <2> DEFINE c == Begin(calls, CHOOSE x \in Free(calls) : TRUE, "diagPost", "none", 0, token)
             d == Fresh(Current, bootError)
  <2>1. IsCalls(c) /\ token' = token /\ UNCHANGED <<modal, deleteCtx, ticker>>
    BY <1>0, <1>2, BeginTable DEF RunDiagFromDash
  <2>2. /\ d = [page |-> d.page, retry |-> d.retry, lock |-> d.lock, off |-> d.off,
                own |-> d.own, result |-> d.result]
        /\ d.page # Blank /\ ~d.lock /\ dom.page # Blank
    BY <1>2 DEF RunDiagFromDash, Fresh, Current, Blank
  <2>3. Nav(c, token', "diagnose", d)
    BY <1>2, <2>1 DEF RunDiagFromDash
  <2> HIDE DEF c, d
  <2> QED  BY <2>1, <2>2, <2>3, NavStep DEF Blank
<1>3. CASE OpenFix
  <2>1. IsCalls(calls') /\ dom.page # Blank /\ RenderModal
        /\ UNCHANGED <<token, hash, hashEvent, dom, ticker>>
    BY <1>0, <1>3 DEF OpenFix, Blank
  <2> QED  BY <2>1, RepairDialog, DialogStep
<1>4. CASE OpenInfo
  <2>1. IsCalls(calls') /\ dom.page # Blank /\ modal' = Dialog("info")
        /\ UNCHANGED <<token, hash, hashEvent, dom, ticker>>
    BY <1>0, <1>4 DEF OpenInfo, Open
  <2> QED  BY <2>1, DialogStep
<1>5. CASE CloseFix
  <2>1. IsCalls(calls') /\ dom.page # Blank /\ RenderModal
        /\ UNCHANGED <<token, hash, hashEvent, dom, ticker>>
    BY <1>0, <1>5 DEF CloseFix, PageInv, BlankIsStart
  <2> QED  BY <2>1, RepairDialog, DialogStep
<1>6. CASE FixStart
  <2>1. IsCalls(calls') /\ dom.page # Blank /\ RenderModal
        /\ UNCHANGED <<token, hash, hashEvent, dom, ticker>>
    BY <1>0, <1>6, SendTable DEF FixStart, PageInv, BlankIsStart
  <2> QED  BY <2>1, RepairDialog, DialogStep
<1>7. CASE Scan
  BY <1>0, <1>7, SendTable, QuietStep DEF Scan, Blank
<1> QED  BY <1>1, <1>2, <1>3, <1>4, <1>5, <1>6, <1>7 DEF DiagUser

LEMMA DiagResumeKeeps ==
  ASSUME PageInv, NEW s \in Slots, DiagResume(s), UNCHANGED deleteCtx
  PROVE  PageInv'
<1> USE DEF still, frame, shellVars, apiRest
<1>0. IsCalls(calls) /\ IsCalls(End(s))
  BY EndTable DEF PageInv, Shapes
<1>1. CASE DiagPosted(s)
  <2>1. dom.page # Blank
    BY <1>1, StartOnly DEF DiagPosted, Answered, Starting
  <2>2. IsCalls(calls')
    BY <1>0, <1>1, BeginTable DEF DiagPosted
  <2> QED  BY <1>1, <2>1, <2>2, QuietStep, DrawStep DEF DiagPosted
<1>2. CASE DiagPoll(s)
  <2>1. dom.page # Blank
    BY <1>2, StartOnly DEF DiagPoll, Answered, Starting
  <2>2. IsCalls(calls')
    BY <1>0, <1>2, BeginTable DEF DiagPoll
  <2> QED  BY <1>2, <2>1, <2>2, QuietStep DEF DiagPoll
<1>3. CASE DiagPolled(s)
  <2>1. dom.page # Blank
    BY <1>3, StartOnly DEF DiagPolled, Answered, Starting
  <2>2. UNCHANGED <<token, hash, hashEvent, ticker, modal, deleteCtx>>
    BY <1>3 DEF DiagPolled
  <2>3. CASE dom' = Fresh("diagnose", bootError) /\ calls' = End(s)
    BY <1>0, <2>2, <2>3 DEF PageInv, Shapes, BlankIsStart, LoggedOutIsPublic,
       LockLocksForm, DeleteWhatIsAsked, Fresh, Blank
  <2>4. CASE /\ calls' = Begin(calls, s, "diagWait", "none", Left(s), token)
             /\ UNCHANGED dom
    BY <1>0, <2>1, <2>2, <2>4, BeginTable, QuietStep
  <2> QED  BY <1>3, <2>3, <2>4 DEF DiagPolled
<1>4. CASE FixEnd(s)
  <2>1. dom.page # Blank
    BY <1>4, StartOnly DEF FixEnd, Answered, Starting
  <2>2. IsCalls(calls')
    BY <1>0, <1>4, BeginTable DEF FixEnd
  <2>3. UNCHANGED <<token, hash, hashEvent, dom, ticker>>
    BY <1>4 DEF FixEnd
  <2>4. UNCHANGED modal \/ RenderModal
    BY <1>4 DEF FixEnd
  <2> QED  BY <2>1, <2>2, <2>3, <2>4, QuietStep, RepairDialog, DialogStep
<1> QED  BY <1>1, <1>2, <1>3, <1>4 DEF DiagResume

LEMMA DiagServeKeeps ==
  ASSUME PageInv, NEW s \in Slots, ServeDiag(s), UNCHANGED <<shellVars, deleteCtx>>
  PROVE  PageInv'
<1>1. \E r, code1, val : Reply(s, r, code1, val)
  BY DEF ServeDiag
<1>2. UNCHANGED <<token, hash, hashEvent, dom, ticker, modal>>
  BY DEF ServeDiag, apiRest, shellVars, frame, still
<1> QED  BY <1>1, <1>2, ServeStep

----------------------------------------------------------------------------
(* History, monitor, snapshots and tools *)

LEMMA DataUserKeeps ==
  ASSUME PageInv, DataUser
  PROVE  PageInv'
<1> USE DEF still, frame, shellVars, apiRest, apiVars, dataVars, busyVars
<1>0. /\ IsCalls(calls)
      /\ modal = [kind |-> modal.kind, rec |-> modal.rec, off |-> modal.off]
  BY DEF PageInv, Shapes
<1>1. CASE RequestDelete
  <2>1. PICK r : deleteCtx' = r /\ modal' = [Dialog("delete") EXCEPT !.rec = r]
    BY <1>1 DEF RequestDelete
  <2>2. modal' = [kind |-> "delete", rec |-> r, off |-> FALSE]
    BY <2>1 DEF Dialog
  <2>3. dom.page # Blank /\ UNCHANGED <<calls, token, hash, hashEvent, dom, ticker>>
    BY <1>1 DEF RequestDelete, Blank
  <2> QED  BY <2>1, <2>2, <2>3 DEF PageInv, Shapes, BlankIsStart, LoggedOutIsPublic,
              LockLocksForm, DeleteWhatIsAsked
<1>2. CASE DeleteStart \/ ClearStart
  <2>1. IsCalls(calls') /\ dom.page # Blank
        /\ UNCHANGED <<token, hash, hashEvent, dom, ticker, deleteCtx>>
    BY <1>0, <1>2, SendTable DEF DeleteStart, ClearStart, PageInv, BlankIsStart
  <2>2. modal' = [kind |-> modal.kind, rec |-> modal.rec, off |-> TRUE]
    BY <1>0, <1>2 DEF DeleteStart, ClearStart
  <2> QED  BY <2>1, <2>2 DEF PageInv, Shapes, BlankIsStart, LoggedOutIsPublic,
              LockLocksForm, DeleteWhatIsAsked
<1>3. CASE RequestClear
  <2>1. IsCalls(calls') /\ dom.page # Blank /\ modal' = Dialog("clear")
        /\ UNCHANGED <<token, hash, hashEvent, dom, ticker, deleteCtx>>
    BY <1>0, <1>3 DEF RequestClear, Open
  <2> QED  BY <2>1, DialogStep
<1>4. CASE SetRange
  <2>1. IsCalls(calls')
    BY <1>0, <1>4, BeginTable DEF SetRange
  <2> QED  BY <1>4, <2>1, QuietStep DEF SetRange, Blank
<1>5. CASE ToggleStart
  BY <1>0, <1>5, SendTable, DrawStep DEF ToggleStart, Blank
<1>6. CASE SampleStart
  BY <1>0, <1>6, SendTable, DrawStep DEF SampleStart, Blank
<1>7. CASE CreateStart \/ DiffStart \/ AskStart \/ ToolStart
  <2>1. IsCalls(calls')
    BY <1>0, <1>7, SendTable DEF CreateStart, DiffStart, AskStart, ToolStart
  <2>2. dom.page # Blank /\ UNCHANGED <<token, hash, hashEvent, dom, ticker, modal, deleteCtx>>
    BY <1>7 DEF CreateStart, DiffStart, AskStart, ToolStart, Blank
  <2> QED  BY <2>1, <2>2, QuietStep
<1> QED  BY <1>1, <1>2, <1>3, <1>4, <1>5, <1>6, <1>7 DEF DataUser

LEMMA DataResumeKeeps ==
  ASSUME PageInv, NEW s \in Slots, DataResume(s)
  PROVE  PageInv'
<1> USE DEF still, frame, shellVars, apiRest, dataVars, busyVars
<1>0. /\ IsCalls(calls) /\ IsCalls(End(s))
      /\ dom = [page |-> dom.page, retry |-> dom.retry, lock |-> dom.lock,
                off |-> dom.off, own |-> dom.own, result |-> dom.result]
  BY EndTable DEF PageInv, Shapes
<1>1. ASSUME NEW good PROVE IsCalls(Reload(s, good))
  BY <1>0, BeginTable DEF Reload
<1>2. CASE HistoryLoaded(s) \/ MonitorLoaded(s) \/ ToggleEnd(s) \/ SampleLoaded(s)
           \/ SnapshotsLoaded(s)
  <2>1. dom.page # Blank
    BY <1>2, StartOnly DEF HistoryLoaded, MonitorLoaded, ToggleEnd, SampleLoaded,
       SnapshotsLoaded, Answered, Starting
  <2>2. /\ IsCalls(calls') /\ Render
        /\ UNCHANGED <<token, hash, hashEvent, ticker, modal, deleteCtx>>
    BY <1>0, <1>2 DEF HistoryLoaded, MonitorLoaded, ToggleEnd, SampleLoaded,
       SnapshotsLoaded
  <2> QED  BY <2>1, <2>2, DrawStep
<1>3. CASE DeleteEnd(s) \/ ClearEnd(s)
  <2>1. dom.page # Blank
    BY <1>3, StartOnly DEF DeleteEnd, ClearEnd, Answered, Starting
  <2>2. /\ IsCalls(calls') /\ modal' = Dialog("none")
        /\ UNCHANGED <<token, hash, hashEvent, dom, ticker>>
    BY <1>1, <1>3 DEF DeleteEnd, ClearEnd
  <2> QED  BY <2>1, <2>2, DialogStep
<1>4. CASE SampleTaken(s)
  <2>1. dom.page # Blank
    BY <1>4, StartOnly DEF SampleTaken, Answered, Starting
  <2>2. UNCHANGED <<token, hash, hashEvent, ticker, modal, deleteCtx>>
    BY <1>4 DEF SampleTaken
  <2>3. CASE calls' = Begin(calls, s, "sampleLoad", "none", range, token) /\ UNCHANGED dom
    BY <1>0, <2>1, <2>2, <2>3, BeginTable, QuietStep
  <2>4. CASE calls' = End(s) /\ Render
    BY <1>0, <2>1, <2>2, <2>4, DrawStep
  <2> QED  BY <1>4, <2>3, <2>4 DEF SampleTaken
<1>5. CASE CreateEnd(s) \/ AskEnd(s)
  <2>1. dom.page # Blank
    BY <1>5, StartOnly DEF CreateEnd, AskEnd, Answered, Starting
  <2>2. /\ IsCalls(calls')
        /\ UNCHANGED <<token, hash, hashEvent, dom, ticker, modal, deleteCtx>>
    BY <1>0, <1>5, BeginTable DEF CreateEnd, AskEnd
  <2> QED  BY <2>1, <2>2, QuietStep
<1>6. CASE DiffEnd(s)
  <2>1. dom.page # Blank
    BY <1>6, StartOnly DEF DiffEnd, Answered, Starting
  <2>2. /\ IsCalls(calls') /\ (modal' = Dialog("info") \/ UNCHANGED modal)
        /\ UNCHANGED <<token, hash, hashEvent, dom, ticker, deleteCtx>>
    BY <1>0, <1>6 DEF DiffEnd
  <2> QED  BY <2>1, <2>2, DialogStep, QuietStep
<1>7. CASE ToolEnd(s)
  <2>1. dom.page # Blank
    BY <1>7, StartOnly DEF ToolEnd, Answered, Starting
  <2>2. PICK r : dom' = [dom EXCEPT !.result = r]
    BY <1>7 DEF ToolEnd
  <2>3. dom' = [page |-> dom.page, retry |-> dom.retry, lock |-> dom.lock,
                off |-> dom.off, own |-> dom.own, result |-> r]
    BY <1>0, <2>2
  <2>4. /\ IsCalls(calls')
        /\ UNCHANGED <<token, hash, hashEvent, ticker, modal, deleteCtx>>
    BY <1>0, <1>7 DEF ToolEnd
  <2> QED  BY <2>1, <2>3, <2>4 DEF PageInv, Shapes, BlankIsStart, LoggedOutIsPublic,
              LockLocksForm, DeleteWhatIsAsked
<1> QED  BY <1>2, <1>3, <1>4, <1>5, <1>6, <1>7 DEF DataResume

LEMMA DataServeKeeps ==
  ASSUME PageInv, NEW s \in Slots, ServeData(s), UNCHANGED shellVars
  PROVE  PageInv'
<1>1. \E r, code1, val : Reply(s, r, code1, val)
  BY DEF ServeData, ServeHistory, ServeMonitor, ServeSnapshots, Done
<1>2. UNCHANGED <<token, hash, hashEvent, dom, ticker, modal, deleteCtx>>
  BY DEF ServeData, apiRest, shellVars, frame, still
<1> QED  BY <1>1, <1>2, ServeStep

----------------------------------------------------------------------------
(* The whole page *)

\* The other parts leave the page alone, and so does a stuttering step.
LEMMA ApartKeeps ==
  ASSUME PageInv, UNCHANGED <<diagPage, dataVars>>
  PROVE  PageInv'
<1>1. UNCHANGED <<token, calls, hash, hashEvent, dom, ticker, modal, deleteCtx>>
  BY DEF diagPage, dataVars, pageVars, apiVars, apiRest, shellVars, frame, still
<1> QED  BY <1>1 DEF PageInv, Shapes, BlankIsStart, LoggedOutIsPublic, LockLocksForm,
            DeleteWhatIsAsked, IsCalls

LEMMA OthersKeep ==
  ASSUME PageInv, OthersStep
  PROVE  PageInv'
<1>1. UNCHANGED <<token, hash, hashEvent, dom, ticker, modal, deleteCtx>>
  BY DEF OthersStep, Others, apiRest, shellVars, frame, still
<1>2. IsCalls(calls') /\ \A x \in Slots : calls'[x].op = calls[x].op
  BY OthersTable DEF OthersStep, PageInv, Shapes
<1> QED  BY <1>1, <1>2 DEF PageInv, Shapes, BlankIsStart, LoggedOutIsPublic,
            LockLocksForm, DeleteWhatIsAsked

LEMMA OpenedTable ==
  ASSUME Opened
  PROVE  IsCalls(calls) /\ \A x \in Slots : calls[x].op \in {"none", "boot"}
<1>1. PICK s \in Slots :
        calls = [Begin([x \in Slots |-> Idle], s, "boot", "none", 0, token)
                   EXCEPT ![s].alone = TRUE]
  BY DEF Opened
<1> DEFINE c == [x \in Slots |-> Idle]
           b == Begin(c, s, "boot", "none", 0, token)
<1>2. IsCalls(c) /\ \A x \in Slots : c[x].op = "none"
  BY DEF IsCalls, Idle
<1>3. /\ IsCalls(b)
      /\ \A x \in Slots : b[x].op = IF x = s THEN "boot" ELSE c[x].op
  BY <1>2, BeginTable
<1>4. calls = [b EXCEPT ![s] = [b[s] EXCEPT !.alone = TRUE]]
  BY <1>1
<1> HIDE DEF b, c
<1>5. /\ "op" \in DOMAIN [b[s] EXCEPT !.alone = TRUE]
      /\ [b[s] EXCEPT !.alone = TRUE].op = b[s].op
  BY <1>3 DEF IsCalls
<1>6. \A x \in Slots : calls[x] = IF x = s THEN [b[s] EXCEPT !.alone = TRUE] ELSE b[x]
  BY <1>3, <1>4 DEF IsCalls
<1>7. calls = [x \in Slots |-> calls[x]]
  BY <1>3, <1>4 DEF IsCalls
<1> QED  BY <1>2, <1>3, <1>5, <1>6, <1>7 DEF IsCalls

LEMMA InitPage == Init => PageInv
<1> SUFFICES ASSUME Init PROVE PageInv
  OBVIOUS
<1>1. hashEvent = FALSE /\ ticker = 0 /\ modal = Dialog("none")
  BY DEF Init, ShellInit
<1>2. modal = [kind |-> modal.kind, rec |-> modal.rec, off |-> modal.off]
      /\ modal.kind = "none" /\ ticker \in Nat
  BY <1>1 DEF Dialog
<1>3. CASE scene \in {"login", "session", "account"}
  <2>1. Opened
    BY <1>3 DEF Init, ShellInit
  <2>2. hash # Blank
    <3>1. scene \in PageScenes
      BY <1>3 DEF PageScenes, Visits
    <3> QED  BY <2>1, <3>1, VisitsPages DEF Opened, Blank
  <2>3. dom = [page |-> "blank", retry |-> FALSE, lock |-> FALSE, off |-> FALSE,
               own |-> {}, result |-> FALSE]
    BY <2>1 DEF Opened, Blank
  <2>4. IsCalls(calls) /\ \A x \in Slots : calls[x].op \in {"none", "boot"}
    BY <2>1, OpenedTable
  <2> QED  BY <1>2, <2>2, <2>3, <2>4 DEF PageInv, Shapes, BlankIsStart, Starting,
              Blank, LoggedOutIsPublic, LockLocksForm, DeleteWhatIsAsked
<1>4. CASE scene \notin {"login", "session", "account"}
  <2>1. Entered("login", NoToken) \/ Entered("dashboard", 1)
    BY <1>4 DEF Init, ShellInit
  <2>2. ASSUME NEW p, NEW tk, Entered(p, tk), p # Blank, tk = NoToken => p \in Public
        PROVE  PageInv
    <3>1. token = tk /\ hash = p /\ dom = Fresh(p, FALSE) /\ calls = [x \in Slots |-> Idle]
      BY <2>2 DEF Entered
    <3>2. IsCalls(calls)
      BY <3>1 DEF IsCalls, Idle
    <3> QED  BY <1>2, <2>2, <3>1, <3>2 DEF PageInv, Shapes, BlankIsStart, Fresh,
                LoggedOutIsPublic, LockLocksForm, DeleteWhatIsAsked
  <2>3. "login" \in Public /\ "login" # Blank /\ "dashboard" # Blank /\ 1 # NoToken
    BY DEF Public, Blank, NoToken
  <2> QED  BY <2>1, <2>2, <2>3
<1> QED  BY <1>3, <1>4

LEMMA NextKeeps ==
  ASSUME PageInv, [Next]_vars
  PROVE  PageInv'
<1> USE DEF dataVars
<1>1. CASE UserStep
  BY <1>1, ShellUserKeeps, DiagUserKeeps, DataUserKeeps DEF UserStep
<1>2. CASE Event
  BY <1>2, EventKeeps DEF Event
<1>3. CASE Timer
  BY <1>3, TimersKeep DEF Timer
<1>4. CASE Apart
  BY <1>4, ApartKeeps DEF Apart
<1>5. ASSUME NEW s \in Slots, Resume(s) PROVE PageInv'
  BY <1>5, ShellResumeKeeps, DiagResumeKeeps, DataResumeKeeps DEF Resume
<1>6. ASSUME NEW s \in Slots, Serve(s) PROVE PageInv'
  BY <1>6, ShellServeKeeps, DiagServeKeeps, DataServeKeeps DEF Serve
<1>7. CASE UNCHANGED vars
  BY <1>7, ApartKeeps DEF vars
<1> QED  BY <1>1, <1>2, <1>3, <1>4, <1>5, <1>6, <1>7, OthersKeep DEF Next

\* Whatever the user, the timers and the answers do: the inductive invariant.
THEOREM PageInvariant == Spec => []PageInv
<1>1. Init => PageInv
  BY InitPage
<1>2. PageInv /\ [Next]_vars => PageInv'
  BY NextKeeps
<1> QED  BY <1>1, <1>2, PTL DEF Spec

\* Without a token a page of the application is on show only until the event
\* that is waiting leads to the login (app.js:306-322: nav() and route()).
THEOREM SafeLoggedOut == Spec => []LoggedOutIsPublic
<1>1. PageInv => LoggedOutIsPublic
  BY DEF PageInv
<1> QED  BY <1>1, PageInvariant, PTL

\* Under the lockout box the login button is off, and a timer runs that will
\* end it (app.js:409-443: doLogin() and tickLockout()).
THEOREM SafeLock == Spec => []LockLocksForm
<1>1. PageInv => LockLocksForm
  BY DEF PageInv
<1> QED  BY <1>1, PageInvariant, PTL

\* The button of the dialog of a deletion deletes the record for which the
\* dialog was opened (app.js:1114-1163).
THEOREM SafeDelete == Spec => []DeleteWhatIsAsked
<1>1. PageInv => DeleteWhatIsAsked
  BY DEF PageInv
<1> QED  BY <1>1, PageInvariant, PTL
----------------------------------------------------------------------------
(* Spinners.  A flag is set by the step in which its handler begins to wait, *)
(* and cleared by the one in which the handler ends; other handlers neither  *)
(* touch it nor take the handler's slot.  Of two handlers with one flag the  *)
(* first to end clears it, so nothing is said of the other direction.        *)

DiagWork   == {"diagPost", "diagWait", "diagPoll"}
SampleWork == {"sample", "sampleLoad"}
Work       == DiagWork \cup {"fix", "toggle"} \cup SampleWork

Works(c, ops) == \E x \in Slots : c[x].op \in ops

BusyInv ==
  /\ IsCalls(calls)
  /\ "phase" \in DOMAIN fixCtx
  /\ diagRunning => Works(calls, DiagWork)
  /\ fixCtx.phase = "running" => Works(calls, {"fix"})
  /\ toggling => Works(calls, {"toggle"})
  /\ sampling => Works(calls, SampleWork)

\* Table d is table c but for slot s, which becomes op.
Takes(c, d, s, op) ==
  /\ IsCalls(d)
  /\ \A x \in Slots : d[x].op = IF x = s THEN op ELSE c[x].op

\* Nobody who works is disturbed.
Spares(c, d) ==
  /\ IsCalls(d)
  /\ \A x \in Slots : c[x].op \in Work => d[x].op = c[x].op

LEMMA SendTakes ==
  ASSUME IsCalls(calls), NEW op, NEW arg, Send(op, arg)
  PROVE  \E s \in Slots : calls[s].op = "none" /\ Takes(calls, calls', s, op)
<1> DEFINE s == CHOOSE x \in Free(calls) : TRUE
<1>1. s \in Free(calls) /\ calls' = Begin(calls, s, op, arg, 0, token)
  BY DEF Send
<1>2. s \in Slots /\ calls[s].op = "none"
  BY <1>1 DEF Free, Idle
<1> HIDE DEF s
<1>3. Takes(calls, calls', s, op)
  BY <1>1, BeginTable DEF Takes
<1> QED  BY <1>2, <1>3

LEMMA TakesSpares ==
  ASSUME NEW c, NEW d, NEW s, NEW op, Takes(c, d, s, op), c[s].op \notin Work
  PROVE  Spares(c, d)
BY DEF Takes, Spares

LEMMA SendSpares ==
  ASSUME IsCalls(calls), NEW op, NEW arg, Send(op, arg)
  PROVE  Spares(calls, calls')
<1>1. PICK s \in Slots : calls[s].op = "none" /\ Takes(calls, calls', s, op)
  BY SendTakes
<1>2. "none" \notin Work
  BY DEF Work, DiagWork, SampleWork
<1> QED  BY <1>1, <1>2, TakesSpares

LEMMA RouteSpares ==
  ASSUME NEW c, IsCalls(c), NEW tk, NEW h, Route(c, tk, h)
  PROVE  Spares(c, calls')
<1>1. CASE calls' = c
  BY <1>1 DEF Spares
<1>2. CASE /\ Free(c) # {}
           /\ calls' = Begin(c, CHOOSE s \in Free(c) : TRUE, h, "none", range, tk)
  <2> DEFINE s == CHOOSE x \in Free(c) : TRUE
  <2>1. s \in Slots /\ c[s].op = "none" /\ calls' = Begin(c, s, h, "none", range, tk)
    BY <1>2 DEF Free, Idle
  <2> HIDE DEF s
  <2>2. Takes(c, calls', s, h)
    BY <2>1, BeginTable DEF Takes
  <2>3. "none" \notin Work
    BY DEF Work, DiagWork, SampleWork
  <2> QED  BY <2>1, <2>2, <2>3, TakesSpares
<1> QED  BY <1>1, <1>2 DEF Route

LEMMA NavSpares ==
  ASSUME NEW c, IsCalls(c), NEW tk, NEW p, NEW d, Nav(c, tk, p, d)
  PROVE  Spares(c, calls')
<1> DEFINE target == IF tk = NoToken /\ p \notin Public THEN "login" ELSE p
<1>1. CASE hash = target
  BY <1>1, RouteSpares DEF Nav
<1>2. CASE hash # target
  BY <1>2 DEF Nav, Spares
<1> QED  BY <1>1, <1>2

\* A step of handlers without a flag.
LEMMA SpareStep ==
  ASSUME BusyInv, Spares(calls, calls'),
         UNCHANGED <<diagRunning, fixCtx, toggling, sampling>>
  PROVE  BusyInv'
BY DEF BusyInv, Spares, Works, Work, DiagWork, SampleWork

\* A handler ends, or goes on as another one, in slot s.
LEMMA SlotTakes ==
  ASSUME IsCalls(calls), NEW s \in Slots
  PROVE  /\ Takes(calls, End(s), s, "none")
         /\ \A op, arg, left, tk : Takes(calls, Begin(calls, s, op, arg, left, tk), s, op)
BY EndTable, BeginTable DEF Takes

LEMMA ShellSpares ==
  ASSUME IsCalls(calls),
         ShellUser \/ ShellTimers \/ HashChange
  PROVE  Spares(calls, calls')
<1> USE DEF still, frame, shellVars, apiRest, apiVars
<1>1. CASE EditHash \/ CloseModal \/ RequestLogout \/ ShellTimers
  BY <1>1 DEF EditHash, CloseModal, RequestLogout, ShellTimers, TickEnd, TickOver,
     TickOn, Spares
<1>2. CASE Click \/ Continue
  <2>1. PICK q : Nav(calls, token, q, dom)
    BY <1>2 DEF Click, Continue
  <2> QED  BY <2>1, NavSpares
<1>3. CASE RetryBoot \/ Refresh \/ LoginStart \/ LogoutStart \/ InitStart \/ RecoverStart
  <2>1. PICK op, arg : Send(op, arg)
    BY <1>3 DEF RetryBoot, Refresh, LoginStart, LogoutStart, InitStart, RecoverStart
  <2> QED  BY <2>1, SendSpares
<1>4. CASE HashChange
  BY <1>4, RouteSpares DEF HashChange
<1> QED  BY <1>1, <1>2, <1>3, <1>4 DEF ShellUser

LEMMA ShellResumeSpares ==
  ASSUME IsCalls(calls), NEW s \in Slots, ShellResume(s)
  PROVE  Spares(calls, calls')
<1>1. calls[s].op \notin Work
  BY DEF ShellResume, BootStatus, Dashboard, Interfaces, LoginEnd, LogoutEnd, CodeShown,
     Answered, Work, DiagWork, SampleWork
<1>2. Spares(calls, End(s))
  BY <1>1, SlotTakes, TakesSpares
<1>3. ASSUME NEW op, NEW arg, NEW left, NEW tk
      PROVE  Spares(calls, Begin(calls, s, op, arg, left, tk))
  BY <1>1, SlotTakes, TakesSpares
<1>4. CASE calls' = End(s) \/ \E op, arg, left, tk : calls' = Begin(calls, s, op, arg, left, tk)
  BY <1>2, <1>3, <1>4
<1>5. ASSUME NEW c, Spares(calls, c), NEW tk, NEW p, NEW d, Nav(c, tk, p, d)
      PROVE  Spares(calls, calls')
  BY <1>5, NavSpares DEF Spares
<1>6. CASE LoginEnd(s)
  <2>1. \/ calls' = End(s)
        \/ \E v : Nav(Begin(calls, s, "dash", "none", 0, v), v, "dashboard", Released(s))
    BY <1>6 DEF LoginEnd
  <2> QED  BY <2>1, <1>2, <1>3, <1>5
<1>7. CASE LogoutEnd(s)
  BY <1>2, <1>5, <1>7 DEF LogoutEnd
<1>8. CASE BootStatus(s) \/ Dashboard(s) \/ Interfaces(s) \/ CodeShown(s)
  BY <1>4, <1>8 DEF BootStatus, Dashboard, Interfaces, CodeShown
<1> QED  BY <1>6, <1>7, <1>8 DEF ShellResume

LEMMA ServeSpares ==
  ASSUME IsCalls(calls), NEW s \in Slots, Serve(s)
  PROVE  Spares(calls, calls')
<1>1. \E r, code1, val : Reply(s, r, code1, val)
  BY DEF Serve, ShellServe, ServeSetup, ServeStatus, ServeRead, ServeLogin, ServeLocked,
     ServeLogout, ServeRecover, Refuse, ServeDiag, ServeData, ServeHistory, ServeMonitor,
     ServeSnapshots, Done
<1> QED  BY <1>1, ReplyTable DEF Spares

----------------------------------------------------------------------------
\* Beginning to work: the flag is set, and the slot taken had no work.
LEMMA StartStep ==
  ASSUME BusyInv, NEW s \in Slots, calls[s].op = "none",
         NEW op, Takes(calls, calls', s, op),
         "phase" \in DOMAIN fixCtx',
         UNCHANGED diagRunning \/ op \in DiagWork,
         fixCtx'.phase = "running" => fixCtx.phase = "running" \/ op = "fix",
         UNCHANGED toggling \/ op = "toggle",
         UNCHANGED sampling \/ op \in SampleWork
  PROVE  BusyInv'
BY DEF BusyInv, Takes, Works, Work, DiagWork, SampleWork

LEMMA DiagUserBusy ==
  ASSUME BusyInv, DiagUser, UNCHANGED <<toggling, sampling>>
  PROVE  BusyInv'
<1> USE DEF still, frame, shellVars, apiRest, apiVars, diagVars
<1>0. IsCalls(calls) /\ "phase" \in DOMAIN fixCtx
  BY DEF BusyInv
<1>1. CASE RunDiag
  <2>1. Send("diagPost", "none") /\ UNCHANGED fixCtx
    BY <1>1 DEF RunDiag
  <2>2. PICK s \in Slots : calls[s].op = "none" /\ Takes(calls, calls', s, "diagPost")
    BY <1>0, <2>1, SendTakes
  <2> QED  BY <1>0, <2>1, <2>2, StartStep DEF DiagWork
<1>2. CASE RunDiagFromDash
  <2> DEFINE s == CHOOSE x \in Free(calls) : TRUE
             c == Begin(calls, s, "diagPost", "none", 0, token)
  <2>1. s \in Slots /\ calls[s].op = "none"
    BY <1>2 DEF RunDiagFromDash, Free, Idle
  <2>2. PICK d : Nav(c, token, "diagnose", d)
    BY <1>2 DEF RunDiagFromDash
  <2>3. UNCHANGED fixCtx
    BY <1>2 DEF RunDiagFromDash
  <2> HIDE DEF s
  <2>4. Takes(calls, c, s, "diagPost")
    BY <1>0, BeginTable DEF Takes
  <2> HIDE DEF c
  <2>5. Spares(c, calls')
    BY <2>2, <2>4, NavSpares DEF Takes
  <2>6. calls'[s].op = "diagPost" /\ Spares(calls, calls')
    BY <2>1, <2>4, <2>5 DEF Takes, Spares, Work, DiagWork, SampleWork
  <2> QED  BY <2>1, <2>3, <2>6 DEF BusyInv, Spares, Works, Work, DiagWork, SampleWork
<1>3. CASE OpenFix
  <2>1. PICK k : fixCtx' = [check |-> k, phase |-> "confirm", result |-> "none"]
    BY <1>3 DEF OpenFix
  <2>2. UNCHANGED <<calls, diagRunning>>
    BY <1>3 DEF OpenFix
  <2> QED  BY <2>1, <2>2 DEF BusyInv, IsCalls, Works
<1>4. CASE OpenInfo
  BY <1>0, <1>4, SpareStep DEF OpenInfo, Spares
<1>5. CASE CloseFix
  <2>1. fixCtx' = NoFix /\ UNCHANGED <<calls, diagRunning>>
    BY <1>5 DEF CloseFix
  <2> QED  BY <2>1 DEF BusyInv, NoFix, IsCalls, Works
<1>6. CASE FixStart
  <2>1. PICK s \in Slots : calls[s].op = "none" /\ Takes(calls, calls', s, "fix")
    BY <1>0, <1>6, SendTakes DEF FixStart
  <2>2. "phase" \in DOMAIN fixCtx' /\ UNCHANGED diagRunning
    BY <1>0, <1>6 DEF FixStart
  <2> QED  BY <2>1, <2>2, StartStep
<1>7. CASE Scan
  BY <1>0, <1>7, SendSpares, SpareStep DEF Scan
<1> QED  BY <1>1, <1>2, <1>3, <1>4, <1>5, <1>6, <1>7 DEF DiagUser

\* A handler with a flag ends and clears it, or goes on with the same work.
LEMMA EndStep ==
  ASSUME BusyInv, NEW s \in Slots, NEW op, Takes(calls, calls', s, op),
         "phase" \in DOMAIN fixCtx',
         diagRunning' => diagRunning /\ (calls[s].op \in DiagWork => op \in DiagWork),
         fixCtx'.phase = "running" => fixCtx.phase = "running" /\ calls[s].op # "fix",
         toggling' => toggling /\ calls[s].op # "toggle",
         sampling' => sampling /\ (calls[s].op \in SampleWork => op \in SampleWork)
  PROVE  BusyInv'
<1>1. IsCalls(calls')
  BY DEF Takes
<1>2. ASSUME diagRunning' PROVE Works(calls', DiagWork)
  BY <1>2 DEF BusyInv, Takes, Works
<1>3. ASSUME fixCtx'.phase = "running" PROVE Works(calls', {"fix"})
  BY <1>3 DEF BusyInv, Takes, Works
<1>4. ASSUME toggling' PROVE Works(calls', {"toggle"})
  BY <1>4 DEF BusyInv, Takes, Works
<1>5. ASSUME sampling' PROVE Works(calls', SampleWork)
  BY <1>5 DEF BusyInv, Takes, Works
<1> QED  BY <1>1, <1>2, <1>3, <1>4, <1>5 DEF BusyInv, Works

LEMMA DiagResumeBusy ==
  ASSUME BusyInv, NEW s \in Slots, DiagResume(s), UNCHANGED <<toggling, sampling>>
  PROVE  BusyInv'
<1> USE DEF still, frame, shellVars, apiRest, diagVars
<1>0. IsCalls(calls) /\ "phase" \in DOMAIN fixCtx
  BY DEF BusyInv
<1>1. /\ Takes(calls, End(s), s, "none")
      /\ \A op, arg, left, tk : Takes(calls, Begin(calls, s, op, arg, left, tk), s, op)
  BY <1>0, SlotTakes
<1>2. CASE DiagPosted(s) \/ DiagPoll(s) \/ DiagPolled(s)
  <2>1. calls[s].op \in DiagWork /\ UNCHANGED fixCtx
    BY <1>2 DEF DiagPosted, DiagPoll, DiagPolled, Answered, DiagWork
  <2>2. calls[s].op \notin {"fix", "toggle"} \cup SampleWork
    BY <2>1 DEF DiagWork, SampleWork
  <2>3. \/ calls' = End(s) /\ ~diagRunning'
        \/ /\ UNCHANGED diagRunning
           /\ \E op \in DiagWork : \E left : calls' = Begin(calls, s, op, "none", left, token)
    BY <1>2 DEF DiagPosted, DiagPoll, DiagPolled, DiagWork
  <2>4. CASE calls' = End(s) /\ ~diagRunning'
    BY <1>0, <1>1, <2>1, <2>2, <2>4, EndStep
  <2>5. CASE /\ UNCHANGED diagRunning
             /\ \E op \in DiagWork : \E left : calls' = Begin(calls, s, op, "none", left, token)
    <3>1. PICK op \in DiagWork : Takes(calls, calls', s, op)
      BY <1>1, <2>5
    <3> QED  BY <1>0, <2>1, <2>2, <2>5, <3>1, EndStep
  <2> QED  BY <2>3, <2>4, <2>5
<1>3. CASE FixEnd(s)
  <2>1. calls[s].op \notin DiagWork \cup SampleWork \cup {"toggle"} /\ UNCHANGED diagRunning
    BY <1>3 DEF FixEnd, Answered, DiagWork, SampleWork
  <2>2. "phase" \in DOMAIN fixCtx' /\ fixCtx'.phase # "running"
    <3>1. CASE fixCtx = NoFix /\ UNCHANGED fixCtx
      BY <3>1 DEF NoFix
    <3>2. CASE fixCtx' = [fixCtx EXCEPT !.phase = "done", !.result = calls[s].arg]
      BY <1>0, <3>2
    <3> QED  BY <1>3, <3>1, <3>2 DEF FixEnd
  <2>3. PICK op : Takes(calls, calls', s, op)
    BY <1>1, <1>3 DEF FixEnd
  <2> QED  BY <2>1, <2>2, <2>3, EndStep
<1> QED  BY <1>2, <1>3 DEF DiagResume

LEMMA DataUserBusy ==
  ASSUME BusyInv, DataUser, UNCHANGED <<diagRunning, fixCtx>>
  PROVE  BusyInv'
<1> USE DEF still, frame, shellVars, apiRest, apiVars, dataVars, busyVars
<1>0. IsCalls(calls) /\ "phase" \in DOMAIN fixCtx
  BY DEF BusyInv
<1>1. CASE RequestDelete \/ RequestClear
  BY <1>0, <1>1, SpareStep DEF RequestDelete, RequestClear, Spares
<1>2. CASE DeleteStart \/ ClearStart \/ CreateStart \/ DiffStart \/ AskStart \/ ToolStart
  <2>1. PICK op, arg : Send(op, arg)
    BY <1>2 DEF DeleteStart, ClearStart, CreateStart, DiffStart, AskStart, ToolStart
  <2>2. UNCHANGED <<toggling, sampling>>
    BY <1>2 DEF DeleteStart, ClearStart, CreateStart, DiffStart, AskStart, ToolStart
  <2> QED  BY <1>0, <2>1, <2>2, SendSpares, SpareStep
<1>3. CASE SetRange
  <2> DEFINE s == CHOOSE x \in Free(calls) : TRUE
  <2>1. s \in Slots /\ calls[s].op = "none" /\ UNCHANGED <<toggling, sampling>>
    BY <1>3 DEF SetRange, Free, Idle
  <2>2. calls' = Begin(calls, s, "monitor", "none", range', token)
    BY <1>3 DEF SetRange
  <2> HIDE DEF s
  <2>3. Takes(calls, calls', s, "monitor")
    BY <1>0, <2>2, BeginTable DEF Takes
  <2> QED  BY <1>0, <2>1, <2>3, StartStep
<1>4. CASE ToggleStart
  <2>1. PICK s \in Slots : calls[s].op = "none" /\ Takes(calls, calls', s, "toggle")
    BY <1>0, <1>4, SendTakes DEF ToggleStart
  <2> QED  BY <1>0, <1>4, <2>1, StartStep DEF ToggleStart
<1>5. CASE SampleStart
  <2>1. PICK s \in Slots : calls[s].op = "none" /\ Takes(calls, calls', s, "sample")
    BY <1>0, <1>5, SendTakes DEF SampleStart
  <2> QED  BY <1>0, <1>5, <2>1, StartStep DEF SampleStart, SampleWork
<1> QED  BY <1>1, <1>2, <1>3, <1>4, <1>5 DEF DataUser

LEMMA DataResumeBusy ==
  ASSUME BusyInv, NEW s \in Slots, DataResume(s), UNCHANGED <<diagRunning, fixCtx>>
  PROVE  BusyInv'
<1> USE DEF still, frame, shellVars, apiRest, dataVars, busyVars
<1>0. IsCalls(calls) /\ "phase" \in DOMAIN fixCtx
  BY DEF BusyInv
<1>1. /\ Takes(calls, End(s), s, "none")
      /\ \A op, arg, left, tk : Takes(calls, Begin(calls, s, op, arg, left, tk), s, op)
  BY <1>0, SlotTakes
<1>2. CASE HistoryLoaded(s) \/ DeleteEnd(s) \/ ClearEnd(s) \/ MonitorLoaded(s)
           \/ SnapshotsLoaded(s) \/ CreateEnd(s) \/ DiffEnd(s) \/ AskEnd(s) \/ ToolEnd(s)
  <2>1. calls[s].op \notin Work /\ UNCHANGED <<toggling, sampling>>
    BY <1>2 DEF HistoryLoaded, DeleteEnd, ClearEnd, MonitorLoaded, SnapshotsLoaded,
       CreateEnd, DiffEnd, AskEnd, ToolEnd, Answered, Work, DiagWork, SampleWork
  <2>2. PICK op : Takes(calls, calls', s, op)
    BY <1>1, <1>2 DEF HistoryLoaded, DeleteEnd, ClearEnd, MonitorLoaded, SnapshotsLoaded,
       CreateEnd, DiffEnd, AskEnd, ToolEnd, Reload
  <2> QED  BY <2>1, <2>2, TakesSpares, SpareStep
<1>3. CASE ToggleEnd(s)
  <2>1. /\ calls[s].op \notin DiagWork \cup SampleWork \cup {"fix"}
        /\ ~toggling' /\ UNCHANGED sampling /\ Takes(calls, calls', s, "none")
    BY <1>1, <1>3 DEF ToggleEnd, Answered, DiagWork, SampleWork
  <2> QED  BY <1>0, <2>1, EndStep
<1>4. CASE SampleTaken(s) \/ SampleLoaded(s)
  <2>1. calls[s].op \notin DiagWork \cup {"fix", "toggle"} /\ UNCHANGED toggling
    BY <1>4 DEF SampleTaken, SampleLoaded, Answered, DiagWork
  <2>2. \/ ~sampling' /\ Takes(calls, calls', s, "none")
        \/ UNCHANGED sampling /\ Takes(calls, calls', s, "sampleLoad")
    BY <1>1, <1>4 DEF SampleTaken, SampleLoaded
  <2>3. "sampleLoad" \in SampleWork
    BY DEF SampleWork
  <2> QED  BY <1>0, <2>1, <2>2, <2>3, EndStep
<1> QED  BY <1>2, <1>3, <1>4 DEF DataResume

LEMMA InitBusy == Init => BusyInv
<1> SUFFICES ASSUME Init PROVE BusyInv
  OBVIOUS
<1>1. /\ diagRunning = FALSE /\ fixCtx = NoFix /\ toggling = FALSE /\ sampling = FALSE
      /\ IsCalls(calls)
  BY InitPage DEF Init, DiagInit, DataInit, PageInv, Shapes
<1> QED  BY <1>1 DEF BusyInv, NoFix

LEMMA NextBusy ==
  ASSUME BusyInv, [Next]_vars
  PROVE  BusyInv'
<1> USE DEF dataVars, busyVars, diagVars
<1>0. IsCalls(calls)
  BY DEF BusyInv
<1>1. CASE UserStep
  BY <1>0, <1>1, ShellSpares, SpareStep, DiagUserBusy, DataUserBusy DEF UserStep
<1>2. CASE Event \/ Timer
  BY <1>0, <1>2, ShellSpares, SpareStep DEF Event, Timer
<1>3. ASSUME NEW s \in Slots, Resume(s) PROVE BusyInv'
  BY <1>0, <1>3, ShellResumeSpares, SpareStep, DiagResumeBusy, DataResumeBusy DEF Resume
<1>4. ASSUME NEW s \in Slots, Serve(s) PROVE BusyInv'
  <2>1. UNCHANGED <<diagRunning, fixCtx, toggling, sampling>>
    BY <1>4 DEF Serve, ServeData
  <2> QED  BY <1>0, <1>4, <2>1, ServeSpares, SpareStep
<1>5. CASE Apart \/ UNCHANGED vars
  <2>1. UNCHANGED <<calls, diagRunning, fixCtx, toggling, sampling>>
    BY <1>5 DEF Apart, vars, diagPage, pageVars, apiVars
  <2> QED  BY <1>0, <2>1, SpareStep DEF Spares
<1>6. CASE OthersStep
  <2>1. UNCHANGED <<diagRunning, fixCtx, toggling, sampling>>
    BY <1>6 DEF OthersStep, Others
  <2> QED  BY <1>0, <1>6, <2>1, OthersTable, SpareStep DEF OthersStep, Spares
<1> QED  BY <1>1, <1>2, <1>3, <1>4, <1>5, <1>6 DEF Next

LEMMA BusyInvariant == Spec => []BusyInv
<1>1. BusyInv /\ [Next]_vars => BusyInv'
  BY NextBusy
<1> QED  BY <1>1, InitBusy, PTL DEF Spec

\* The spinner of the diagnosis, the bar of a repair and the two spinners of the
\* monitor are shown only while a handler of that work waits (app.js:809-821,
\* 966-983, 1357-1389).
THEOREM SafeBusy == Spec => []BusyHasCall
<1>1. BusyInv => BusyHasCall
  BY DEF BusyInv, BusyHasCall, MonitorHasCall, RunningHasCall, Works, DiagWork, SampleWork
<1> QED  BY <1>1, BusyInvariant, PTL

----------------------------------------------------------------------------
(* Which pages a step draws.  A page is drawn from the hash, from the answer *)
(* to boot(), or is one of those that handlers go to by themselves; every    *)
(* other step leaves the page on show.                                       *)

ByHash == hash = "init"

ToldNew == \E s \in Slots : /\ Answered(s, "boot") /\ Good(s, "authStatus")
                            /\ ~Value(s, "authStatus").initialized

NewPage == dom'.page = "init" /\ dom.page # "init" => ByHash \/ ToldNew

LEMMA RouteDraws ==
  ASSUME NEW c, NEW tk, NEW h, Route(c, tk, h), h # "init"
  PROVE  dom'.page # "init"
BY DEF Route, Fresh, Landing

LEMMA NavDraws ==
  ASSUME NEW c, NEW tk, NEW p, NEW d, Nav(c, tk, p, d),
         d.page = "init" => dom.page = "init"
  PROVE  NewPage
<1> DEFINE target == IF tk = NoToken /\ p \notin Public THEN "login" ELSE p
<1>1. CASE hash = target
  <2>1. Route(c, tk, hash)
    BY <1>1 DEF Nav
  <2> QED  BY <2>1, RouteDraws DEF NewPage, ByHash
<1>2. CASE hash # target
  BY <1>2 DEF Nav, NewPage
<1> QED  BY <1>1, <1>2

LEMMA RenderDraws ==
  ASSUME Render
  PROVE  NewPage
BY DEF Render, Fresh, Current, NewPage

LEMMA ShellDraws ==
  ASSUME PageInv, ShellUser \/ ShellTimers \/ HashChange
  PROVE  NewPage
<1> USE DEF still, frame, shellVars, apiRest, apiVars
<1>0. dom = [page |-> dom.page, retry |-> dom.retry, lock |-> dom.lock,
             off |-> dom.off, own |-> dom.own, result |-> dom.result]
  BY DEF PageInv, Shapes
<1>1. CASE \/ EditHash \/ CloseModal \/ Refresh \/ RequestLogout \/ LogoutStart
           \/ InitStart \/ RecoverStart \/ TickEnd
  BY <1>1 DEF EditHash, CloseModal, Refresh, RequestLogout, LogoutStart, InitStart,
     RecoverStart, TickEnd, NewPage
<1>2. CASE Click \/ Continue
  <2>1. PICK q : Nav(calls, token, q, dom)
    BY <1>2 DEF Click, Continue
  <2> QED  BY <2>1, NavDraws
<1>3. CASE RetryBoot
  BY <1>3 DEF RetryBoot, Fresh, NewPage
<1>4. CASE LoginStart \/ TickOver \/ TickOn
  <2>1. dom'.page = dom.page
    <3>1. CASE LoginStart
      <4>1. PICK o : dom' = [dom EXCEPT !.off = TRUE, !.own = o]
        BY <3>1 DEF LoginStart
      <4> QED  BY <4>1, <1>0
    <3>2. CASE TickOver  BY <3>2, <1>0 DEF TickOver
    <3>3. CASE TickOn    BY <3>3, <1>0 DEF TickOn
    <3> QED  BY <1>4, <3>1, <3>2, <3>3
  <2> QED  BY <2>1 DEF NewPage
<1>5. CASE HashChange
  BY <1>5, RouteDraws DEF HashChange, NewPage, ByHash
<1> QED  BY <1>1, <1>2, <1>3, <1>4, <1>5 DEF ShellUser, ShellTimers

LEMMA ShellResumeDraws ==
  ASSUME PageInv, NEW s \in Slots, ShellResume(s)
  PROVE  NewPage
<1> USE DEF still, frame, apiRest
<1>1. CASE BootStatus(s)
  <2> DEFINE r == calls[s].ans["authStatus"]
  <2>1. CASE NoAccount(r)
    <3>1. ToldNew
      BY <1>1, <2>1 DEF BootStatus, NoAccount, ToldNew, Good, Value
    <3> QED  BY <3>1 DEF NewPage
  <2>2. CASE ~NoAccount(r)
    <3>1. \/ dom' = Fresh("login", TRUE) \/ dom' = Fresh("login", FALSE)
          \/ UNCHANGED dom
      BY <1>1, <2>2 DEF BootStatus
    <3> QED  BY <3>1 DEF NewPage, Fresh
  <2> QED  BY <2>1, <2>2
<1>2. CASE Dashboard(s) \/ Interfaces(s) \/ CodeShown(s)
  <2>1. Render \/ UNCHANGED dom
    BY <1>2 DEF Dashboard, Interfaces, CodeShown
  <2> QED  BY <2>1, RenderDraws DEF NewPage
<1>3. CASE LoginEnd(s)
  <2>1. CASE dom.page # "login"
    BY <1>3, <2>1 DEF LoginEnd, NewPage
  <2>2. CASE dom.page = "login"
    <3> DEFINE d == Released(s)
    <3>1. PICK o, u : d = [page |-> dom.page, retry |-> dom.retry, lock |-> FALSE,
                           off |-> u, own |-> o, result |-> dom.result]
      BY ReleasedForm DEF PageInv, Shapes
    <3>2. d.page = "login"
      BY <3>1, <2>2
    <3>3. \/ \E c, tk : Nav(c, tk, "dashboard", d)
          \/ dom' = [d EXCEPT !.lock = TRUE, !.off = TRUE]
          \/ dom' = d
      BY <1>3, <2>2 DEF LoginEnd
    <3> HIDE DEF d
    <3>4. CASE \E c, tk : Nav(c, tk, "dashboard", d)
      BY <3>2, <3>4, NavDraws
    <3>5. CASE dom' = [d EXCEPT !.lock = TRUE, !.off = TRUE] \/ dom' = d
      BY <3>1, <3>2, <3>5 DEF NewPage
    <3> QED  BY <3>3, <3>4, <3>5
  <2> QED  BY <2>1, <2>2
<1>4. CASE LogoutEnd(s)
  BY <1>4, NavDraws DEF LogoutEnd
<1> QED  BY <1>1, <1>2, <1>3, <1>4 DEF ShellResume

LEMMA WorkDraws ==
  ASSUME PageInv, \/ DiagUser \/ DataUser
                  \/ \E s \in Slots : DiagResume(s) \/ DataResume(s)
  PROVE  NewPage
<1> USE DEF still, frame, shellVars, apiRest, apiVars, diagVars, dataVars, busyVars
<1>1. CASE RunDiagFromDash
  <2> DEFINE d == Fresh(Current, bootError)
  <2>1. PICK c : Nav(c, token, "diagnose", d)
    BY <1>1 DEF RunDiagFromDash
  <2>2. d.page = "init" => dom.page = "init"
    BY DEF Fresh, Current
  <2> HIDE DEF d
  <2> QED  BY <2>1, <2>2, NavDraws
<1>2. CASE \E s \in Slots : DiagPolled(s)
  BY <1>2 DEF DiagPolled, Fresh, NewPage
<1>3. CASE \E s \in Slots : ToolEnd(s)
  <2>1. PICK r : dom' = [dom EXCEPT !.result = r]
    BY <1>3 DEF ToolEnd
  <2>2. dom'.page = dom.page
    BY <2>1 DEF PageInv, Shapes
  <2> QED  BY <2>2 DEF NewPage
<1>4. CASE \/ RunDiag \/ OpenFix \/ OpenInfo \/ CloseFix \/ FixStart \/ Scan
           \/ DataUser
           \/ \E s \in Slots :
                \/ DiagPosted(s) \/ DiagPoll(s) \/ FixEnd(s)
                \/ HistoryLoaded(s) \/ DeleteEnd(s) \/ ClearEnd(s) \/ MonitorLoaded(s)
                \/ ToggleEnd(s) \/ SampleTaken(s) \/ SampleLoaded(s)
                \/ SnapshotsLoaded(s) \/ CreateEnd(s) \/ DiffEnd(s) \/ AskEnd(s)
  <2>1. Render \/ UNCHANGED dom
    BY <1>4 DEF RunDiag, OpenFix, OpenInfo, CloseFix, FixStart, Scan, DataUser,
       RequestDelete, DeleteStart, RequestClear, ClearStart, SetRange, ToggleStart,
       SampleStart, CreateStart, DiffStart, AskStart, ToolStart, DiagPosted, DiagPoll,
       FixEnd, HistoryLoaded, DeleteEnd, ClearEnd, MonitorLoaded, ToggleEnd,
       SampleTaken, SampleLoaded, SnapshotsLoaded, CreateEnd, DiffEnd, AskEnd
  <2> QED  BY <2>1, RenderDraws DEF NewPage
<1> QED  BY <1>1, <1>2, <1>3, <1>4 DEF DiagUser, DiagResume, DataResume

LEMMA ServeDraws ==
  ASSUME NEW s \in Slots, Serve(s)
  PROVE  UNCHANGED <<dom, modal>>
BY DEF Serve, ShellServe, ServeSetup, ServeData, shellVars

\* The form for a first account comes on show by itself only where the service
\* has no account, or said so in an answer (app.js:1525-1529: boot()).
THEOREM SafeNewPage == Spec => NewOnlyIfNew
<1>1. PageInv /\ [Next]_vars => NewPage
  <2> SUFFICES ASSUME PageInv, [Next]_vars PROVE NewPage
    OBVIOUS
  <2>1. CASE UserStep \/ Event \/ Timer
    BY <2>1, ShellDraws, WorkDraws DEF UserStep, Event, Timer
  <2>2. CASE \E s \in Slots : Resume(s)
    BY <2>2, ShellResumeDraws, WorkDraws DEF Resume
  <2>3. CASE \E s \in Slots : Serve(s)
    BY <2>3, ServeDraws DEF NewPage
  <2>4. CASE Apart \/ UNCHANGED vars
    BY <2>4 DEF Apart, vars, diagPage, pageVars, shellVars, NewPage
  <2>5. CASE OthersStep
    BY <2>5 DEF OthersStep, shellVars, NewPage
  <2> QED  BY <2>1, <2>2, <2>3, <2>4, <2>5 DEF Next
<1>2. NewPage => (dom'.page = "init" /\ dom.page # "init" /\ hash \notin {"init"} =>
       ~initialized \/ \E s \in Slots : /\ Answered(s, "boot")
                                       /\ Good(s, "authStatus")
                                       /\ ~Value(s, "authStatus").initialized)
  BY DEF NewPage, ByHash, ToldNew
<1> QED  BY <1>1, <1>2, PageInvariant, PTL DEF Spec, NewOnlyIfNew

----------------------------------------------------------------------------
(* Which steps close the dialog with a recovery code. *)

CodeKept == modal.kind = "recovery" /\ modal'.kind # "recovery" =>
              calls' = calls \/ \E s \in Slots, op \in Dialogs : Answered(s, op)

\* What its reader, or whoever opens another dialog, does.
LEMMA UserKeepsCode ==
  ASSUME PageInv, ShellUser \/ ShellTimers \/ HashChange \/ DiagUser \/ DataUser
  PROVE  CodeKept
<1> USE DEF still, frame, shellVars, apiRest, apiVars, diagVars, dataVars, busyVars
<1>1. CASE CloseModal
  BY <1>1 DEF CloseModal, CodeKept
<1>2. CASE Continue
  <2>1. Nav(calls, token, "login", dom)
    BY <1>2 DEF Continue
  <2>2. calls' = calls
    BY <2>1 DEF Nav, Route, Loading, Public
  <2> QED  BY <2>2 DEF CodeKept
<1>3. CASE modal.kind # "recovery" \/ UNCHANGED modal
  BY <1>3 DEF CodeKept
<1>4. CASE \/ EditHash \/ Click \/ RetryBoot \/ Refresh \/ LoginStart \/ RequestLogout
           \/ LogoutStart \/ InitStart \/ RecoverStart \/ ShellTimers \/ HashChange
  <2>1. modal.kind # "recovery" \/ UNCHANGED modal
    BY <1>4 DEF EditHash, Click, RetryBoot, Refresh, LoginStart, RequestLogout, Open,
       LogoutStart, InitStart, RecoverStart, ShellTimers, TickEnd, TickOver, TickOn,
       HashChange
  <2> QED  BY <2>1, <1>3
<1>5. CASE DiagUser \/ DataUser
  <2>1. modal.kind # "recovery"
    BY <1>5 DEF DiagUser, RunDiag, RunDiagFromDash, OpenFix, OpenInfo, Open, CloseFix,
       FixStart, Scan, DataUser, RequestDelete, DeleteStart, RequestClear, ClearStart,
       SetRange, ToggleStart, SampleStart, CreateStart, DiffStart, AskStart, ToolStart
  <2> QED  BY <2>1, <1>3
<1> QED  BY <1>1, <1>2, <1>4, <1>5 DEF ShellUser

\* What a late answer does.
LEMMA AnswerKeepsCode ==
  ASSUME PageInv, NEW s \in Slots, ShellResume(s) \/ DiagResume(s) \/ DataResume(s)
  PROVE  CodeKept
<1> USE DEF still, frame, shellVars, apiRest, apiVars, diagVars, dataVars, busyVars
<1>1. CASE LogoutEnd(s) \/ FixEnd(s) \/ DeleteEnd(s) \/ ClearEnd(s) \/ DiffEnd(s)
  <2>1. \E op \in Dialogs : Answered(s, op)
    BY <1>1 DEF LogoutEnd, FixEnd, DeleteEnd, ClearEnd, DiffEnd, Dialogs
  <2> QED  BY <2>1 DEF CodeKept
<1>2. CASE CodeShown(s)
  BY <1>2 DEF CodeShown, Dialog, CodeKept
<1>3. CASE \/ BootStatus(s) \/ Dashboard(s) \/ Interfaces(s) \/ LoginEnd(s)
           \/ DiagPosted(s) \/ DiagPoll(s) \/ DiagPolled(s)
           \/ HistoryLoaded(s) \/ MonitorLoaded(s) \/ ToggleEnd(s) \/ SampleTaken(s)
           \/ SampleLoaded(s) \/ SnapshotsLoaded(s) \/ CreateEnd(s) \/ AskEnd(s)
           \/ ToolEnd(s)
  <2>1. UNCHANGED modal
    BY <1>3 DEF BootStatus, Dashboard, Interfaces, LoginEnd, DiagPosted, DiagPoll,
       DiagPolled, HistoryLoaded, MonitorLoaded, ToggleEnd, SampleTaken, SampleLoaded,
       SnapshotsLoaded, CreateEnd, AskEnd, ToolEnd
  <2> QED  BY <2>1 DEF CodeKept
<1> QED  BY <1>1, <1>2, <1>3 DEF ShellResume, DiagResume, DataResume

\* A recovery code stays on show until its reader closes it, but for the late
\* answers named in Dialogs (app.js:382, 872, 1160, 1179, 1470).
THEOREM SafeCode == Spec => CodeStays
<1>1. PageInv /\ [Next]_vars => CodeKept
  <2> SUFFICES ASSUME PageInv, [Next]_vars PROVE CodeKept
    OBVIOUS
  <2>1. CASE UserStep \/ Event \/ Timer
    BY <2>1, UserKeepsCode DEF UserStep, Event, Timer
  <2>2. CASE \E s \in Slots : Resume(s)
    BY <2>2, AnswerKeepsCode DEF Resume
  <2>3. CASE \E s \in Slots : Serve(s)
    BY <2>3, ServeDraws DEF CodeKept
  <2>4. CASE Apart \/ UNCHANGED vars
    BY <2>4 DEF Apart, vars, diagPage, pageVars, shellVars, CodeKept
  <2>5. CASE OthersStep
    BY <2>5 DEF OthersStep, shellVars, CodeKept
  <2> QED  BY <2>1, <2>2, <2>3, <2>4, <2>5 DEF Next
<1> QED  BY <1>1, PageInvariant, PTL DEF Spec, CodeStays, CodeKept
=============================================================================
