------------------------------- MODULE WebShell -------------------------------
(****************************************************************************)
(* The frame of the page (src/webui/assets/app.js): router, render, start,  *)
(* login with its lockout clock, logout, first account and recovery.        *)
(*                                                                          *)
(* The page shows state.page, the address bar holds location.hash.  nav()   *)
(* writes the hash; the browser runs route() later, as a hashchange event,  *)
(* and handlers that waited meanwhile may draw another page.  Drawing       *)
(* replaces every element under #app: what a handler remembered of the old  *)
(* page (its login button, its result box) is gone.  #modalRoot is not      *)
(* redrawn.                                                                 *)
(****************************************************************************)
EXTENDS ApiClient

CONSTANTS Scenes,      \* what users do: one scene per behaviour
          Ranges,      \* days the monitor page can show
          MaxTickers   \* lockout clocks at the same time

ASSUME FrameAssumption == Ranges # {} /\ MaxTickers \in Nat

VARIABLES scene,        \* what the user of this behaviour does
          initialized,  \* the service has an account
          hash,         \* location.hash, "" when empty
          hashEvent,    \* a hashchange event is waiting
          bootError,    \* state.bootError is not empty
          dom,          \* the elements under #app
          ticker,       \* timers of tickLockout
          modal,        \* what #modalRoot shows
          range         \* state.monitorRange, the days asked for

still     == <<scene, initialized, bootError, ticker, range>>
frame     == <<still, hash, hashEvent>>
shellVars == <<frame, dom, modal>>
pageVars  == <<apiVars, shellVars>>

\* The pages the users of a scene visit, and what else they do.
Visits == [login     |-> {"login", "dashboard"},
           session   |-> {"dashboard"},
           account   |-> {"login", "init", "forgot", "dashboard"},
           lockout   |-> {"login"},
           diagnosis |-> {"dashboard", "diagnose"},
           repair    |-> {"diagnose", "interfaces"},
           history   |-> {"history"},
           monitor   |-> {"monitor"},
           snapshots |-> {"snapshots", "dashboard"},
           tools     |-> {"tools", "security", ""}]    \* the address without a hash

Does == [login     |-> {"retry", "login"},
         session   |-> {"login", "logout"},
         account   |-> {"logout", "setup", "recover"},
         lockout   |-> {"login", "lockout"},
         diagnosis |-> {"diagnose", "logout"},
         repair    |-> {"repair", "logout"},
         history   |-> {},
         monitor   |-> {},
         snapshots |-> {"ask", "reenter"},
         tools     |-> {"refresh", "reenter"}]

Public == {"login", "init", "forgot"}
Blank  == "blank"                       \* #app before the first render

----------------------------------------------------------------------------
(* render() *)

\* The elements under #app right after page p was drawn: the lockout box is
\* off, the login button works and no waiting handler holds it.
Fresh(p, err) == [page |-> p, retry |-> err, lock |-> FALSE,
                  off |-> FALSE, own |-> {}, result |-> FALSE]

\* state.page, which is "dashboard" before anything is drawn.
Current == IF dom.page = Blank THEN "dashboard" ELSE dom.page

Render == dom' = Fresh(Current, bootError)

----------------------------------------------------------------------------
(* route() and nav() *)

\* The page route() shows for hash h with token tk.
Landing_nodefault(tk, h) ==
  CASE tk = NoToken /\ h \notin Public -> "login"
    [] tk # NoToken /\ h \in Public    -> "dashboard"
    [] OTHER                           -> h
Landing_unguarded(tk, h) ==
  LET p == IF h = "" THEN "dashboard" ELSE h
  IN IF tk # NoToken /\ p \in Public THEN "dashboard" ELSE p
Landing(tk, h) ==
  LET p == IF h = "" THEN "dashboard" ELSE h
  IN CASE tk = NoToken /\ p \notin Public -> "login"
       [] tk # NoToken /\ p \in Public    -> "dashboard"
       [] OTHER                           -> p

\* The pages whose data route() asks for.
Loading == {"history", "monitor", "snapshots"}

\* route() with token tk and hash h, when c are the handlers that wait.
Route(c, tk, h) ==
  /\ IF tk # NoToken /\ h \in Loading
     THEN /\ Free(c) # {}
          /\ calls' = Begin(c, CHOOSE s \in Free(c) : TRUE, h, "none", range, tk)
     ELSE calls' = c
  /\ dom' = Fresh(Landing(tk, h), bootError)

\* nav(p): the same hash routes at once, another one through an event; d is
\* what stays under #app until then.
Nav(c, tk, p, d) ==
  LET target == IF tk = NoToken /\ p \notin Public THEN "login" ELSE p
  IN IF hash = target
     THEN Route(c, tk, hash) /\ UNCHANGED <<hash, hashEvent>>
     ELSE /\ hash' = target /\ hashEvent' = TRUE
          /\ calls' = c /\ dom' = d

HashChange ==
  /\ hashEvent /\ hashEvent' = FALSE
  /\ Route(calls, token, hash)
  /\ UNCHANGED <<apiRest, still, hash, modal>>

\* The address bar, a bookmark, the back button: they work under a dialog too,
\* and before the first page is drawn.
EditHash ==
  /\ \E p \in Visits[scene] \ {hash} : hash' = p
  /\ hashEvent' = TRUE
  /\ UNCHANGED <<apiVars, still, dom, modal>>

\* A link of the page on show.
Links == CASE dom.page = "login"  -> {"init", "forgot"}
           [] dom.page = "forgot" -> {"login"}
           [] dom.page \in {"init", Blank} -> {}
           [] OTHER -> Visits[scene] \ (Public \cup {""})

Click ==
  /\ modal.kind = "none"
  /\ \E p \in Links \cap Visits[scene] :
       /\ p = dom.page => "reenter" \in Does[scene]
       /\ Nav(calls, token, p, dom)
  /\ UNCHANGED <<apiRest, still, modal>>

----------------------------------------------------------------------------
(* Dialogs *)

\* What a dialog is about, and whether its button is off after a click.
Dialog(kind) == [kind |-> kind, rec |-> "none", off |-> FALSE]

Open(kind) == modal.kind = "none" /\ dom.page # Blank /\ modal' = Dialog(kind)

\* The cancel or close button, or a click beside the dialog.
CloseModal ==
  /\ modal.kind \in {"logout", "info", "delete", "clear", "recovery"}
  /\ modal' = Dialog("none")
  /\ UNCHANGED <<apiVars, frame, dom>>

\* "Continue" under a recovery code.
Continue ==
  /\ modal.kind = "recovery" /\ modal' = Dialog("none")
  /\ Nav(calls, token, "login", dom)
  /\ UNCHANGED <<apiRest, still>>

----------------------------------------------------------------------------
(* boot() *)

\* retryBoot(), the button beside the error on the login page.
RetryBoot ==
  /\ "retry" \in Does[scene]
  /\ dom.page = "login" /\ dom.retry /\ modal.kind = "none"
  /\ Send("boot", "none")
  /\ bootError' = FALSE /\ dom' = Fresh("login", FALSE)
  /\ UNCHANGED <<apiRest, scene, initialized, hash, hashEvent, ticker, range, modal>>

\* The service answered, and it has no account.
NoAccount_deadisnew(r) == r.code # "ok" \/ ~r.val.initialized
NoAccount(r) == r.code = "ok" /\ ~r.val.initialized

BootStatus(s) ==
  /\ Answered(s, "boot")
  /\ LET r    == calls[s].ans["authStatus"]
         good == r.code = "ok"
         tk   == IF r.val.authenticated THEN token ELSE NoToken
     IN \/ /\ ~good
           /\ bootError' = TRUE /\ dom' = Fresh("login", TRUE)
           /\ calls' = End(s) /\ UNCHANGED token
        \/ /\ NoAccount(r) /\ token = NoToken
           /\ bootError' = FALSE /\ dom' = Fresh("init", FALSE)
           /\ calls' = End(s) /\ UNCHANGED token
        \/ /\ good /\ (r.val.initialized \/ token # NoToken)
           /\ bootError' = FALSE /\ token' = tk
           /\ IF tk # NoToken
              THEN /\ calls' = Begin(calls, s, "bootDash", "none", 0, tk)
                   /\ UNCHANGED dom
              ELSE calls' = End(s) /\ dom' = Fresh("login", FALSE)
  /\ UNCHANGED <<sessions, minted, scene, initialized, hash, hashEvent, ticker, range,
                 modal>>

\* loadDashboard() of boot, of the login or of its button: the data are in,
\* the page is drawn again.
Dashboard(s) ==
  /\ Answered(s, "bootDash") \/ Answered(s, "dash")
  /\ Render /\ calls' = End(s)
  /\ UNCHANGED <<apiRest, frame, modal>>

Refresh ==
  /\ "refresh" \in Does[scene]
  /\ dom.page = "dashboard" /\ modal.kind = "none" /\ Send("dash", "none")
  /\ UNCHANGED <<apiRest, shellVars>>

\* loadInterfaces() alone: only the two pages with interfaces are drawn again.
Interfaces(s) ==
  /\ Answered(s, "ifaces")
  /\ IF Good(s, "interfaces") /\ Current \in {"dashboard", "interfaces"}
     THEN Render ELSE UNCHANGED dom
  /\ calls' = End(s)
  /\ UNCHANGED <<apiRest, frame, modal>>

----------------------------------------------------------------------------
(* Login *)

\* doLogin(): by its button, or by Enter in the password field even while
\* the button is off.
LoginStart ==
  /\ "login" \in Does[scene] /\ dom.page = "login" /\ modal.kind = "none"
  /\ Send("login", "none")
  /\ dom' = [dom EXCEPT !.off = TRUE,
                        !.own = @ \cup {CHOOSE s \in Free(calls) : TRUE}]
  /\ UNCHANGED <<apiRest, frame, modal>>

\* #app after the answer: the button that the handler remembers works again,
\* and the boxes of the page on show are off.
Released_keepsbox(s) == [dom EXCEPT !.off = @ /\ s \notin dom.own,
                                    !.own = @ \ {s}]
Released(s) == [dom EXCEPT !.lock = FALSE, !.off = @ /\ s \notin dom.own,
                           !.own = @ \ {s}]

\* If another page is on show the handler finds no box and ends with a
\* TypeError: the token it was given is lost.
LoginEnd(s) ==
  /\ Answered(s, "login")
  /\ LET r == calls[s].ans["login"]
         d == Released(s)
     IN \/ /\ dom.page # "login"
           /\ calls' = End(s) /\ UNCHANGED <<token, dom, hash, hashEvent, ticker>>
        \/ /\ dom.page = "login" /\ r.code = "ok"
           /\ token' = r.val
           /\ Nav(Begin(calls, s, "dash", "none", 0, r.val), r.val, "dashboard", d)
           /\ UNCHANGED ticker
        \/ /\ dom.page = "login" /\ r.code = "locked" /\ ticker < MaxTickers
           /\ dom' = [d EXCEPT !.lock = TRUE, !.off = TRUE]  \* tickLockout()
           /\ ticker' = ticker + 1
           /\ calls' = End(s) /\ UNCHANGED <<token, hash, hashEvent>>
        \/ /\ dom.page = "login" /\ r.code = "no"
           /\ dom' = d
           /\ calls' = End(s) /\ UNCHANGED <<token, hash, hashEvent, ticker>>
  /\ UNCHANGED <<sessions, minted, scene, initialized, bootError, range, modal>>

\* A timer of tickLockout() finds the box gone or off, or the time over.  (A
\* timer that finds time left switches the button off and starts the next.)
TickEnd ==
  /\ ticker > 0 /\ ~dom.lock /\ ticker' = ticker - 1
  /\ UNCHANGED <<apiVars, scene, initialized, hash, hashEvent, bootError, range, dom,
                 modal>>
TickOver ==
  /\ ticker > 0 /\ dom.lock /\ ticker' = ticker - 1
  /\ dom' = [dom EXCEPT !.lock = FALSE, !.off = FALSE]
  /\ UNCHANGED <<apiVars, scene, initialized, hash, hashEvent, bootError, range, modal>>
TickOn ==
  /\ ticker > 0 /\ dom.lock
  /\ dom' = [dom EXCEPT !.off = TRUE]
  /\ UNCHANGED <<apiVars, frame, modal>>

----------------------------------------------------------------------------
(* Logout *)

RequestLogout ==
  /\ "logout" \in Does[scene] /\ dom.page \notin Public /\ Open("logout")
  /\ UNCHANGED <<apiVars, frame, dom>>

\* The dialog stays until the answer, its button too.
LogoutStart ==
  /\ modal.kind = "logout" /\ Send("logout", "none")
  /\ UNCHANGED <<apiRest, shellVars>>

\* Any answer ends the session of the page, and whatever dialog is open.
LogoutEnd(s) ==
  /\ Answered(s, "logout")
  /\ token' = NoToken
  /\ Nav(End(s), NoToken, "login", dom)
  /\ modal' = Dialog("none")
  /\ UNCHANGED <<sessions, minted, still>>

----------------------------------------------------------------------------
(* First account and recovery *)

InitStart ==                     \* doInit() with two equal passwords
  /\ dom.page = "init" /\ modal.kind = "none" /\ Send("setup", "none")
  /\ UNCHANGED <<apiRest, shellVars>>

RecoverStart ==
  /\ dom.page = "forgot" /\ modal.kind = "none" /\ Send("recover", "none")
  /\ UNCHANGED <<apiRest, shellVars>>

\* showRecoveryCode() over whatever page is on show; a failure only writes to
\* the error box of the form.
CodeShown_failureclears(s) ==
  /\ \E op \in {"setup", "recover"} :
       /\ Answered(s, op)
       /\ modal' = IF Good(s, op) THEN Dialog("recovery") ELSE Dialog("none")
  /\ calls' = End(s)
  /\ UNCHANGED <<apiRest, frame, dom>>
CodeShown(s) ==
  /\ \E op \in {"setup", "recover"} :
       /\ Answered(s, op)
       /\ modal' = IF Good(s, op) THEN Dialog("recovery") ELSE modal
  /\ calls' = End(s)
  /\ UNCHANGED <<apiRest, frame, dom>>

----------------------------------------------------------------------------
(* The service's side of these requests *)

ServeStatus(s) ==
  /\ Reply(s, "authStatus", "ok", [initialized   |-> initialized,
                                   authenticated |-> Known(s)])
  /\ UNCHANGED apiRest

ServeRead(s) ==
  /\ Known(s)
  /\ Reply(s, "interfaces", "ok", "none") \/ Reply(s, "dashboard", "ok", "none")
  /\ UNCHANGED apiRest

\* A session is opened; its answer may still get lost.
ServeLogin(s) ==
  /\ initialized /\ minted < MaxTokens
  /\ minted' = minted + 1 /\ sessions' = sessions \cup {minted + 1}
  /\ Reply(s, "login", "ok", minted + 1) \/ Reply(s, "login", "no", "none")
  /\ UNCHANGED token

ServeLocked(s) ==
  /\ Reply(s, "login", "locked", "none") /\ UNCHANGED apiRest
  /\ "lockout" \in Does[scene]

ServeLogout(s) ==
  /\ \E code \in {"ok", "no"} : Reply(s, "logout", code, "none")
  /\ sessions' = sessions \ {calls[s].tok}
  /\ UNCHANGED <<token, minted>>

ServeSetup(s) ==
  /\ ~initialized /\ initialized' = TRUE
  /\ \E code \in {"ok", "no"} : Reply(s, "setup", code, "none")
  /\ UNCHANGED apiRest

\* A new code, a new password, and every session ends.
ServeRecover(s) ==
  /\ initialized /\ sessions' = {}
  /\ \E code \in {"ok", "no"} : Reply(s, "recover", code, "none")
  /\ UNCHANGED <<token, minted>>

----------------------------------------------------------------------------
ShellUser == \/ EditHash \/ Click \/ CloseModal \/ Continue \/ RetryBoot
             \/ Refresh \/ LoginStart \/ RequestLogout \/ LogoutStart
             \/ InitStart \/ RecoverStart

ShellTimers == TickEnd \/ TickOver \/ TickOn

ShellResume(s) == \/ BootStatus(s) \/ Dashboard(s) \/ Interfaces(s)
                  \/ LoginEnd(s) \/ LogoutEnd(s) \/ CodeShown(s)

ShellServe(s) ==
  \/ ServeSetup(s) /\ UNCHANGED <<scene, hash, hashEvent, bootError, dom, ticker, range,
                                 modal>>
  \/ /\ \/ ServeStatus(s) \/ ServeRead(s) \/ ServeLogin(s) \/ ServeLocked(s)
        \/ ServeLogout(s) \/ ServeRecover(s) \/ Refuse(s)
     /\ UNCHANGED shellVars

\* The page has been opened and boot() has sent its request, in the tab of a
\* user who was logged in, whose session has ended, or who is new.
Opened ==
  /\ token \in {NoToken} \cup {1 : x \in Does[scene] \cap {"logout"}}
  /\ sessions \in {{}, {token} \ {NoToken}}
  /\ initialized \in {TRUE, scene # "account" \/ token # NoToken}
  /\ hash \in Visits[scene] \cup {""}
  /\ dom = [page |-> Blank, retry |-> FALSE, lock |-> FALSE, off |-> FALSE,
            own |-> {}, result |-> FALSE]
  /\ \E s \in Slots :
       calls = [Begin([x \in Slots |-> Idle], s, "boot", "none", 0, token)
                  EXCEPT ![s].alone = TRUE]

\* The page of a user who is logged in, or logged out.
Entered(page, tk) ==
  /\ token = tk /\ sessions = {tk} \ {NoToken} /\ initialized = TRUE
  /\ hash = page /\ dom = Fresh(page, FALSE)
  /\ calls = [x \in Slots |-> Idle]

ShellInit ==
  /\ scene \in Scenes
  /\ CASE scene \in {"login", "session", "account"} -> Opened
       [] scene = "lockout" -> Entered("login", NoToken)
       [] OTHER             -> Entered("dashboard", 1)
  /\ minted = token
  /\ hashEvent = FALSE /\ bootError = FALSE /\ ticker = 0 /\ modal = Dialog("none")
  /\ range = CHOOSE d \in Ranges : TRUE

----------------------------------------------------------------------------
(* Properties *)

Pages == {Blank, "login", "init", "forgot", "dashboard", "interfaces", "diagnose",
          "tools", "monitor", "security", "snapshots", "history"}

Kinds == {"none", "logout", "info", "fix", "delete", "clear", "recovery"}

ShellTypeOK ==
  /\ token \in Tokens \cup {NoToken} /\ sessions \subseteq Tokens
  /\ minted \in 0..MaxTokens
  /\ scene \in Scenes /\ initialized \in BOOLEAN
  /\ hash \in Pages \cup {""} /\ hashEvent \in BOOLEAN
  /\ bootError \in BOOLEAN
  /\ dom \in [page : Pages, retry : BOOLEAN, lock : BOOLEAN, off : BOOLEAN,
              own : SUBSET Slots, result : BOOLEAN]
  /\ ticker \in 0..MaxTickers /\ modal.kind \in Kinds /\ range \in Ranges

\* Without a token no page of the application stays on show: a page other than
\* login, init and forgot is there only until the hashchange event that is
\* waiting leads away from it.  (app.js:307, 318: the guards of nav() and
\* route(); boot(), the logout and every late render must respect them.)  The
\* one exception is the diagnosis page: the end of a run shows it, whoever has
\* logged out meanwhile (app.js:821).
LoggedOutIsPublic ==
  token = NoToken /\ dom.page \notin Public \cup {Blank, "diagnose"} => hashEvent

\* While the lockout box is on, the login button is off and a timer is running
\* that will end it: no answer to another login, and no redrawing of the page,
\* leaves a box that stays for ever or a button that works under it
\* (app.js:409-443).
LockLocksForm == dom.lock => dom.off /\ ticker > 0

\* The form for a first account appears on its own only where the service has
\* no account.  "A failed status query ... is NEVER treated as uninitialized"
\* (app.js:1525-1529).  An answer on its way may be older than the account.
NewOnlyIfNew ==
  [][dom'.page = "init" /\ dom.page # "init" /\ hash \notin {"init"} =>
       ~initialized \/ \E s \in Slots : /\ Answered(s, "boot")
                                       /\ Good(s, "authStatus")
                                       /\ ~Value(s, "authStatus").initialized]_pageVars

\* A recovery code is shown once.  No answer and no redrawing takes it away
\* before its reader does, but for a late answer of the handlers that write to
\* #modalRoot without a look at it (app.js:382, 872, 1160, 1179, 1470).
Dialogs == {"logout", "fix", "delete", "clear", "diff"}
CodeStays ==
  [][modal.kind = "recovery" /\ modal'.kind # "recovery" =>
       calls' = calls \/ \E s \in Slots, op \in Dialogs : Answered(s, op)]_pageVars
=============================================================================
