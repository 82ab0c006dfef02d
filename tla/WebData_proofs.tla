--------------------------- MODULE WebData_proofs ---------------------------
(****************************************************************************)
(* Proofs about what the page holds and shows: the types of its state, for  *)
(* any number of waiting handlers, and that its copy of the service's data  *)
(* is true when nothing about them is going on.                             *)
(*                                                                          *)
(* An answer is used long after it was given, so both invariants speak of   *)
(* the answers on their way: that they have the form the handler expects,   *)
(* and, while the handler is alone with its data, that they still hold.     *)
(****************************************************************************)
EXTENDS WebUI_proofs, Scenes_proofs

----------------------------------------------------------------------------
(* The answers of waiting handlers have the form that the handlers expect. *)

\* v is the value of an answer to request r.
Fit(r, v) ==
  /\ r = "login" => v \in Tokens
  /\ r = "diagHistory" => v \in SUBSET DiagRecords
  /\ r = "fixHistory" => v \in SUBSET FixRecords
  /\ r = "monitorQuality" => v \in [days : Ranges, on : BOOLEAN, samples : 0..MaxSamples]
  /\ r = "monitorEnabled" => v \in BOOLEAN
  /\ r = "snapshots" => v \in 0..MaxSnapshots

\* The handlers that load the data of the monitor.
Loads == {"monitor", "sampleLoad"}

\* What a handler works with.
FitCall(op, arg, left) == /\ op = "fix" => arg \in Checks
                          /\ op \in Loads => left \in Ranges

IsCall(k) ==
  \/ k = Idle
  \/ /\ k = [op |-> k.op, arg |-> k.arg, left |-> k.left, tok |-> k.tok,
             ans |-> k.ans, alone |-> k.alone]
     /\ k.op # "none" /\ k.alone \in BOOLEAN
     /\ FitCall(k.op, k.arg, k.left)
     /\ \A r \in DOMAIN k.ans : k.ans[r].code = "ok" => Fit(r, k.ans[r].val)

Typed(c) == IsCalls(c) /\ \A x \in Slots : IsCall(c[x])

\* Table d is table c in which slot s has begun to wait in op.
Begun(c, d, s, op, left) ==
  /\ IsCalls(d)
  /\ d[s].op = op /\ d[s].left = left /\ d[s].ans = <<>>
  /\ d[s].alone = ({x \in Slots \ {s} : c[x].op \in Kin(op)} = {})
  /\ \A x \in Slots \ {s} :
       IF c[x].op \in Kin(op)
       THEN /\ d[x].op = c[x].op /\ d[x].left = c[x].left /\ d[x].ans = c[x].ans
            /\ ~d[x].alone
       ELSE d[x] = c[x]

LEMMA KinOfNone == Kin("none") = {} /\ \A op : "none" \notin Kin(op)
<1>1. \A g \in Topics : "none" \notin g
  BY DEF Topics
<1> QED  BY <1>1 DEF Kin

LEMMA BeginCall ==
  ASSUME NEW c, Typed(c), NEW s \in Slots, NEW op, NEW arg, NEW left, NEW tk,
         op # "none", FitCall(op, arg, left)
  PROVE  /\ Typed(Begin(c, s, op, arg, left, tk))
         /\ Begun(c, Begin(c, s, op, arg, left, tk), s, op, left)
<1> DEFINE near == {x \in Slots \ {s} : c[x].op \in Kin(op)}
           new  == [op |-> op, arg |-> arg, left |-> left, tok |-> tk,
                    ans |-> <<>>, alone |-> near = {}]
           b(x) == IF x = s THEN new
                   ELSE IF x \in near THEN [c[x] EXCEPT !.alone = FALSE]
                   ELSE c[x]
<1> DEFINE d == Begin(c, s, op, arg, left, tk)
<1>1. d = [x \in Slots |-> b(x)]
  BY DEF Begin
<1>2. IsCalls(d)
  BY BeginTable DEF Typed
<1>3. b(s) = new /\ IsCall(new)
  <2>1. new.op = op /\ new.alone \in BOOLEAN /\ new.ans = <<>> /\ new.left = left /\ new.arg = arg
    OBVIOUS
  <2>2. DOMAIN new.ans = {}
    BY <2>1
  <2>3. new = [op |-> new.op, arg |-> new.arg, left |-> new.left, tok |-> new.tok,
               ans |-> new.ans, alone |-> new.alone]
    OBVIOUS
  <2> HIDE DEF new
  <2> QED  BY <2>1, <2>2, <2>3 DEF IsCall
<1>4. ASSUME NEW x \in Slots, x \in near
      PROVE  /\ b(x).op = c[x].op /\ b(x).left = c[x].left /\ b(x).ans = c[x].ans
             /\ ~b(x).alone /\ IsCall(b(x))
  <2>1. b(x) = [c[x] EXCEPT !.alone = FALSE]
    BY <1>4
  <2>2. c[x].op # "none"
    BY <1>4, KinOfNone
  <2>3. c[x] # Idle
    BY <2>2 DEF Idle
  <2>4. /\ c[x] = [op |-> c[x].op, arg |-> c[x].arg, left |-> c[x].left, tok |-> c[x].tok,
                   ans |-> c[x].ans, alone |-> c[x].alone]
        /\ FitCall(c[x].op, c[x].arg, c[x].left)
        /\ \A r \in DOMAIN c[x].ans : c[x].ans[r].code = "ok" => Fit(r, c[x].ans[r].val)
    BY <2>3 DEF Typed, IsCall
  <2> HIDE DEF b
  <2>5. b(x) = [op |-> c[x].op, arg |-> c[x].arg, left |-> c[x].left, tok |-> c[x].tok,
                ans |-> c[x].ans, alone |-> FALSE]
    BY <2>1, <2>4
  <2>6. /\ b(x).op = c[x].op /\ b(x).arg = c[x].arg /\ b(x).left = c[x].left
        /\ b(x).tok = c[x].tok /\ b(x).ans = c[x].ans /\ b(x).alone = FALSE
    BY <2>5
  <2> QED  BY <2>2, <2>4, <2>5, <2>6 DEF IsCall
<1>5. ASSUME NEW x \in Slots, x # s, x \notin near
      PROVE  b(x) = c[x] /\ IsCall(b(x))
  BY <1>5 DEF Typed
<1> HIDE DEF b, new
<1>6. \A x \in Slots : d[x] = b(x)
  BY <1>1
<1>7. Typed(d)
  BY <1>2, <1>3, <1>4, <1>5, <1>6 DEF Typed
<1>8. /\ d[s].op = op /\ d[s].left = left /\ d[s].ans = <<>>
      /\ d[s].alone = (near = {})
  BY <1>3, <1>6 DEF new
<1> QED  BY <1>2, <1>4, <1>5, <1>6, <1>7, <1>8 DEF Begun

LEMMA EndCall ==
  ASSUME Typed(calls), NEW s \in Slots
  PROVE  /\ Typed(End(s))
         /\ \A x \in Slots : End(s)[x] = IF x = s THEN Idle ELSE calls[x]
<1>1. IsCalls(End(s))
  BY EndTable DEF Typed
<1>2. \A x \in Slots : End(s)[x] = IF x = s THEN Idle ELSE calls[x]
  BY DEF Typed, IsCalls, End
<1> QED  BY <1>1, <1>2 DEF Typed, IsCall

LEMMA SendCall ==
  ASSUME Typed(calls), NEW op, NEW arg, Send(op, arg), op # "none",
         op = "fix" => arg \in Checks, op \notin Loads
  PROVE  Typed(calls') /\ \E s \in Free(calls) : Begun(calls, calls', s, op, 0)
<1> DEFINE s == CHOOSE x \in Free(calls) : TRUE
<1>1. s \in Free(calls) /\ calls' = Begin(calls, s, op, arg, 0, token)
  BY DEF Send
<1> HIDE DEF s
<1>2. s \in Slots
  BY <1>1 DEF Free
<1> QED  BY <1>1, <1>2, BeginCall DEF FitCall

\* Reply(): one answer more in slot s, to a request of its handler.
Replied(s, r, code1, val) ==
  /\ calls[s].op \in Ops /\ r \in Asks[calls[s].op] /\ r \notin DOMAIN calls[s].ans
  /\ IsCalls(calls')
  /\ \A x \in Slots \ {s} : calls'[x] = calls[x]
  /\ LET k == calls[s]
         l == calls'[s]
     IN /\ l.op = k.op /\ l.left = k.left /\ l.alone = k.alone /\ l.arg = k.arg
        /\ DOMAIN l.ans = DOMAIN k.ans \cup {r}
        /\ l.ans[r] = [code |-> code1, val |-> val]
        /\ \A q \in DOMAIN k.ans : l.ans[q] = k.ans[q]

LEMMA ReplyTells ==
  ASSUME Typed(calls), NEW s \in Slots, calls[s] # Idle, NEW r, NEW code1, NEW val,
         Reply(s, r, code1, val)
  PROVE  /\ Replied(s, r, code1, val)
         /\ LET l == calls'[s]
            IN l = [op |-> l.op, arg |-> l.arg, left |-> l.left, tok |-> l.tok,
                    ans |-> l.ans, alone |-> l.alone]
<1> DEFINE k == calls[s]
           a == [x \in DOMAIN k.ans \cup {r} |->
                   IF x = r THEN [code |-> code1, val |-> val] ELSE k.ans[x]]
           l == [op |-> k.op, arg |-> k.arg, left |-> k.left, tok |-> k.tok,
                 ans |-> a, alone |-> k.alone]
<1>1. k = [op |-> k.op, arg |-> k.arg, left |-> k.left, tok |-> k.tok,
           ans |-> k.ans, alone |-> k.alone]
  BY DEF Typed, IsCall
<1>2. /\ calls' = [calls EXCEPT ![s] = [k EXCEPT !.ans = a]]
      /\ k.op \in Ops /\ r \in Asks[k.op] \ DOMAIN k.ans
  BY DEF Reply, Waits
<1>3. IsCalls(calls') /\ calls = [x \in Slots |-> calls[x]]
  BY ReplyTable DEF Typed, IsCalls
<1>4. /\ DOMAIN a = DOMAIN k.ans \cup {r} /\ a[r] = [code |-> code1, val |-> val]
      /\ \A q \in DOMAIN k.ans : a[q] = k.ans[q]
  BY <1>2
<1> HIDE DEF a
<1>5. [k EXCEPT !.ans = a] = l
  <2> HIDE DEF k
  <2> QED  BY <1>1
<1>6. calls'[s] = l /\ \A x \in Slots \ {s} : calls'[x] = calls[x]
  BY <1>2, <1>3, <1>5
<1>7. /\ l.op = k.op /\ l.arg = k.arg /\ l.left = k.left /\ l.tok = k.tok
      /\ l.ans = a /\ l.alone = k.alone
      /\ l = [op |-> l.op, arg |-> l.arg, left |-> l.left, tok |-> l.tok,
              ans |-> l.ans, alone |-> l.alone]
  OBVIOUS
<1> HIDE DEF l
<1>8. k.op \in Ops /\ r \in Asks[k.op] /\ r \notin DOMAIN k.ans
  BY <1>2
<1> HIDE DEF k
<1>9. Replied(s, r, code1, val)
  BY Zenon, <1>3, <1>4, <1>6, <1>7, <1>8 DEF Replied, k
<1>10. calls'[s] = [op |-> calls'[s].op, arg |-> calls'[s].arg, left |-> calls'[s].left,
                    tok |-> calls'[s].tok, ans |-> calls'[s].ans, alone |-> calls'[s].alone]
  BY Zenon, <1>6, <1>7
<1> QED  BY Zenon, <1>9, <1>10

LEMMA ReplyCall ==
  ASSUME Typed(calls), NEW s \in Slots, calls[s] # Idle, NEW r, NEW code1, NEW val,
         Reply(s, r, code1, val), code1 = "ok" => Fit(r, val)
  PROVE  Typed(calls')
<1>1. /\ calls[s].op # "none" /\ calls[s].alone \in BOOLEAN
      /\ FitCall(calls[s].op, calls[s].arg, calls[s].left)
      /\ \A q \in DOMAIN calls[s].ans :
           calls[s].ans[q].code = "ok" => Fit(q, calls[s].ans[q].val)
  BY DEF Typed, IsCall
<1>2. /\ Replied(s, r, code1, val)
      /\ LET l == calls'[s]
         IN l = [op |-> l.op, arg |-> l.arg, left |-> l.left, tok |-> l.tok,
                 ans |-> l.ans, alone |-> l.alone]
  BY ReplyTells
<1>3. \A q \in DOMAIN calls'[s].ans :
        calls'[s].ans[q].code = "ok" => Fit(q, calls'[s].ans[q].val)
  <2>1. [code |-> code1, val |-> val].code = code1 /\ [code |-> code1, val |-> val].val = val
    OBVIOUS
  <2> QED  BY <1>1, <1>2, <2>1 DEF Replied
<1>4. IsCall(calls'[s])
  BY <1>1, <1>2, <1>3 DEF IsCall, Replied
<1>5. \A x \in Slots : IsCall(calls'[x])
  BY <1>2, <1>4 DEF Replied, Typed
<1> QED  BY <1>2, <1>5 DEF Replied, Typed

\* What others do to the data of a topic: the handlers wait on, those about the
\* topic who have an answer are not alone any more.
LEMMA MeanwhileCalls ==
  ASSUME Typed(calls), NEW topic, Meanwhile(topic)
  PROVE  /\ Typed(calls')
         /\ \A x \in Slots :
              IF calls[x].op \in Kin(topic) /\ DOMAIN calls[x].ans # {}
              THEN /\ calls'[x].op = calls[x].op /\ calls'[x].ans = calls[x].ans
                   /\ ~calls'[x].alone
              ELSE calls'[x] = calls[x]
<1> DEFINE late(x) == calls[x].op \in Kin(topic) /\ DOMAIN calls[x].ans # {}
           b(x) == IF late(x) THEN [calls[x] EXCEPT !.alone = FALSE] ELSE calls[x]
<1>1. calls' = [x \in Slots |-> b(x)]
  BY DEF Meanwhile
<1>2. ASSUME NEW x \in Slots, late(x)
      PROVE  /\ b(x).op = calls[x].op /\ b(x).ans = calls[x].ans /\ ~b(x).alone
             /\ IsCall(b(x)) /\ "op" \in DOMAIN b(x)
  <2>1. b(x) = [calls[x] EXCEPT !.alone = FALSE]
    BY <1>2
  <2>2. calls[x].op # "none"
    BY <1>2, KinOfNone
  <2>3. calls[x] # Idle
    BY <2>2 DEF Idle
  <2> DEFINE k == calls[x]
  <2>4. /\ k = [op |-> k.op, arg |-> k.arg, left |-> k.left, tok |-> k.tok,
                ans |-> k.ans, alone |-> k.alone]
        /\ FitCall(k.op, k.arg, k.left)
        /\ \A r \in DOMAIN k.ans : k.ans[r].code = "ok" => Fit(r, k.ans[r].val)
    BY <2>3 DEF Typed, IsCall
  <2> HIDE DEF b
  <2>5. b(x) = [op |-> k.op, arg |-> k.arg, left |-> k.left, tok |-> k.tok,
                ans |-> k.ans, alone |-> FALSE]
    BY <2>1, <2>4
  <2>6. /\ b(x).op = k.op /\ b(x).arg = k.arg /\ b(x).left = k.left
        /\ b(x).tok = k.tok /\ b(x).ans = k.ans /\ b(x).alone = FALSE
        /\ "op" \in DOMAIN b(x)
    BY <2>5
  <2> QED  BY <2>2, <2>4, <2>5, <2>6 DEF IsCall
<1>3. ASSUME NEW x \in Slots, ~late(x)
      PROVE  b(x) = calls[x] /\ IsCall(b(x)) /\ "op" \in DOMAIN b(x)
  BY <1>3 DEF Typed, IsCalls
<1> HIDE DEF b
<1>4. \A x \in Slots : calls'[x] = b(x)
  BY <1>1
<1>5. IsCalls(calls')
  BY <1>1, <1>2, <1>3, <1>4 DEF IsCalls
<1>6. Typed(calls')
  BY <1>2, <1>3, <1>4, <1>5 DEF Typed
<1> QED  BY <1>2, <1>3, <1>4, <1>6

----------------------------------------------------------------------------
(* Types of the frame *)

DomSet == [page : Pages, retry : BOOLEAN, lock : BOOLEAN, off : BOOLEAN,
           own : SUBSET Slots, result : BOOLEAN]

Hashes == Pages \cup {""}

FrameInv == Typed(calls) /\ ShellTypeOK

LEMMA VisitsTypes == \A x \in PageScenes : Visits[x] \subseteq Hashes
<1> SUFFICES ASSUME NEW x \in PageScenes, NEW p \in Visits[x] PROVE p \in Hashes
  OBVIOUS
<1>1. x \in {"login", "session", "account", "lockout", "diagnosis", "repair",
             "history", "monitor", "snapshots", "tools"}
  BY DEF PageScenes, Visits
<1> USE DEF Visits, Hashes, Pages
<1>2. CASE x = "login"      BY <1>2
<1>3. CASE x = "session"    BY <1>3
<1>4. CASE x = "account"    BY <1>4
<1>5. CASE x = "lockout"    BY <1>5
<1>6. CASE x = "diagnosis"  BY <1>6
<1>7. CASE x = "repair"     BY <1>7
<1>8. CASE x = "history"    BY <1>8
<1>9. CASE x = "monitor"    BY <1>9
<1>10. CASE x = "snapshots"  BY <1>10
<1>11. CASE x = "tools"      BY <1>11
<1> QED  BY <1>1, <1>2, <1>3, <1>4, <1>5, <1>6, <1>7, <1>8, <1>9, <1>10, <1>11

LEMMA LandingType ==
  ASSUME NEW tk, NEW h \in Hashes
  PROVE  Landing(tk, h) \in Pages
BY DEF Landing, Hashes, Pages

LEMMA FreshType ==
  ASSUME NEW p \in Pages, NEW e \in BOOLEAN
  PROVE  Fresh(p, e) \in DomSet
BY DEF Fresh, DomSet

LEMMA RenderType ==
  ASSUME ShellTypeOK, Render
  PROVE  dom' \in DomSet
<1>1. Current \in Pages
  BY DEF ShellTypeOK, Current, Pages
<1>2. bootError \in BOOLEAN
  BY DEF ShellTypeOK
<1> QED  BY <1>1, <1>2, FreshType DEF Render

LEMMA RouteTypes ==
  ASSUME NEW c, Typed(c), ShellTypeOK, NEW tk, NEW h \in Hashes, Route(c, tk, h)
  PROVE  Typed(calls') /\ dom' \in DomSet
<1>1. dom' \in DomSet
  BY LandingType, FreshType DEF Route, ShellTypeOK
<1>2. CASE calls' = c
  BY <1>2, <1>1
<1>3. CASE /\ h \in Loading /\ Free(c) # {}
           /\ calls' = Begin(c, CHOOSE s \in Free(c) : TRUE, h, "none", range, tk)
  <2>1. \A s \in Free(c) : s \in Slots
    BY DEF Free
  <2>2. h # "none" /\ FitCall(h, "none", range)
    BY <1>3 DEF Loading, FitCall, ShellTypeOK
  <2> QED  BY <1>1, <1>3, <2>1, <2>2, BeginCall
<1> QED  BY <1>2, <1>3 DEF Route

LEMMA NavTypes ==
  ASSUME NEW c, Typed(c), ShellTypeOK, NEW tk, NEW p \in Hashes, NEW d \in DomSet,
         Nav(c, tk, p, d)
  PROVE  /\ Typed(calls') /\ dom' \in DomSet
         /\ hash' \in Hashes /\ hashEvent' \in BOOLEAN
<1> DEFINE target == IF tk = NoToken /\ p \notin Public THEN "login" ELSE p
<1>1. target \in Hashes
  BY DEF Hashes, Pages
<1>2. CASE hash = target
  <2>1. Route(c, tk, hash) /\ UNCHANGED <<hash, hashEvent>>
    BY <1>2 DEF Nav
  <2> QED  BY <1>1, <1>2, <2>1, RouteTypes DEF ShellTypeOK
<1>3. CASE hash # target
  BY <1>1, <1>3 DEF Nav
<1> QED  BY <1>2, <1>3

\* The page and its handlers move on; token, clocks and data of the frame stay.
LEMMA FrameStep ==
  ASSUME FrameInv, Typed(calls'), dom' \in DomSet, hash' \in Hashes,
         hashEvent' \in BOOLEAN, modal'.kind \in Kinds,
         token' \in Tokens \cup {NoToken}, ticker' \in 0..MaxTickers,
         range' \in Ranges, bootError' \in BOOLEAN,
         UNCHANGED <<sessions, minted, scene, initialized>>
  PROVE  FrameInv'
BY DEF FrameInv, ShellTypeOK, DomSet, Hashes

LEMMA FrameParts ==
  ASSUME FrameInv
  PROVE  /\ Typed(calls) /\ ShellTypeOK /\ dom \in DomSet /\ hash \in Hashes
         /\ hashEvent \in BOOLEAN /\ modal.kind \in Kinds
         /\ token \in Tokens \cup {NoToken} /\ ticker \in 0..MaxTickers
         /\ range \in Ranges /\ bootError \in BOOLEAN
BY DEF FrameInv, ShellTypeOK, DomSet, Hashes

LEMMA DialogKind == \A k : Dialog(k).kind = k
BY DEF Dialog

LEMMA ShellUserTypes ==
  ASSUME FrameInv, scene \in PageScenes, ShellUser
  PROVE  FrameInv'
<1> USE FrameParts DEF still, frame, shellVars, apiRest, apiVars
<1>1. CASE EditHash
  <2>1. hash' \in Hashes
    BY <1>1, VisitsTypes DEF EditHash
  <2>2. Typed(calls') /\ dom' \in DomSet /\ UNCHANGED modal
    BY <1>1 DEF EditHash
  <2>3. /\ hashEvent' \in BOOLEAN
        /\ UNCHANGED <<sessions, minted, scene, initialized, token, ticker, range, bootError>>
    BY <1>1 DEF EditHash
  <2> QED  BY <2>1, <2>2, <2>3, FrameStep
<1>2. CASE Click
  <2>1. PICK q \in Visits[scene] : Nav(calls, token, q, dom)
    BY <1>2 DEF Click
  <2>2. q \in Hashes
    BY VisitsTypes
  <2>3. /\ Typed(calls') /\ dom' \in DomSet
        /\ hash' \in Hashes /\ hashEvent' \in BOOLEAN
    BY <2>1, <2>2, NavTypes
  <2> QED  BY <1>2, <2>3, FrameStep DEF Click
<1>3. CASE CloseModal
  <2>1. modal'.kind \in Kinds /\ UNCHANGED <<apiVars, frame, dom>>
    BY <1>3, DialogKind DEF CloseModal, Kinds
  <2> QED  BY <2>1, FrameStep
<1>4. CASE Continue
  <2>1. "login" \in Hashes
    BY DEF Hashes, Pages
  <2>2. /\ Typed(calls') /\ dom' \in DomSet
        /\ hash' \in Hashes /\ hashEvent' \in BOOLEAN
    BY <1>4, <2>1, NavTypes DEF Continue
  <2>3. modal'.kind \in Kinds
    BY <1>4, DialogKind DEF Continue, Kinds
  <2> QED  BY <1>4, <2>2, <2>3, FrameStep DEF Continue
<1>5. CASE RetryBoot
  <2>1. dom' \in DomSet
    BY <1>5, FreshType DEF RetryBoot, Pages
  <2>2. Typed(calls')
    BY <1>5, SendCall DEF RetryBoot, Loads
  <2> QED  BY <1>5, <2>1, <2>2, FrameStep DEF RetryBoot
<1>6. CASE Refresh \/ LogoutStart \/ InitStart \/ RecoverStart
  <2>1. PICK op \in {"dash", "logout", "setup", "recover"} : Send(op, "none")
    BY <1>6 DEF Refresh, LogoutStart, InitStart, RecoverStart
  <2>2. Typed(calls')
    BY <2>1, SendCall DEF Loads
  <2>3. UNCHANGED <<apiRest, shellVars>>
    BY <1>6 DEF Refresh, LogoutStart, InitStart, RecoverStart
  <2> QED  BY <2>2, <2>3, FrameStep
<1>7. CASE LoginStart
  <2>1. Typed(calls') /\ Free(calls) # {}
    BY <1>7, SendCall DEF LoginStart, Loads, Send
  <2>2. PICK s \in Free(calls) : dom' = [dom EXCEPT !.off = TRUE, !.own = @ \cup {s}]
    BY <1>7, <2>1 DEF LoginStart
  <2>3. s \in Slots
    BY DEF Free
  <2>4. dom' \in DomSet
    BY <2>2, <2>3 DEF DomSet
  <2> QED  BY <1>7, <2>1, <2>4, FrameStep DEF LoginStart
<1>8. CASE RequestLogout
  <2>1. modal'.kind \in Kinds /\ UNCHANGED <<apiVars, frame, dom>>
    BY <1>8, DialogKind DEF RequestLogout, Open, Kinds
  <2> QED  BY <2>1, FrameStep
<1> QED  BY <1>1, <1>2, <1>3, <1>4, <1>5, <1>6, <1>7, <1>8 DEF ShellUser

LEMMA TimerTypes ==
  ASSUME FrameInv, ShellTimers \/ HashChange
  PROVE  FrameInv'
<1> USE FrameParts DEF still, frame, shellVars, apiRest, apiVars
<1>1. CASE HashChange
  <2>1. Typed(calls') /\ dom' \in DomSet
    BY <1>1, RouteTypes DEF HashChange
  <2> QED  BY <1>1, <2>1, FrameStep DEF HashChange
<1>2. CASE TickEnd \/ TickOver
  <2>1. ticker' \in 0..MaxTickers
    BY <1>2, FrameAssumption DEF TickEnd, TickOver
  <2>2. dom' \in DomSet
    BY <1>2 DEF TickEnd, TickOver, DomSet
  <2>3. UNCHANGED <<apiVars, scene, initialized, hash, hashEvent, bootError, range, modal>>
    BY <1>2 DEF TickEnd, TickOver
  <2> QED  BY <2>1, <2>2, <2>3, FrameStep
<1>3. CASE TickOn
  <2>1. dom' \in DomSet
    BY <1>3 DEF TickOn, DomSet
  <2> QED  BY <1>3, <2>1, FrameStep DEF TickOn
<1> QED  BY <1>1, <1>2, <1>3 DEF ShellTimers

LEMMA ReleasedType ==
  ASSUME NEW s, dom \in DomSet
  PROVE  Released(s) \in DomSet
<1> DEFINE u == dom.off /\ s \notin dom.own
           o == dom.own \ {s}
<1>1. Released(s) = [dom EXCEPT !.lock = FALSE, !.off = u, !.own = o]
  BY DEF Released
<1>2. u \in BOOLEAN /\ o \in SUBSET Slots
  BY DEF DomSet
<1> HIDE DEF u, o
<1> QED  BY <1>1, <1>2 DEF DomSet

\* The good answer to a request has the form its handler expects.
LEMMA GoodFits ==
  ASSUME Typed(calls), NEW s \in Slots, NEW op, Answered(s, op), op # "none",
         NEW r \in Asks[op], Good(s, r)
  PROVE  Fit(r, Value(s, r))
<1>1. calls[s] # Idle
  BY DEF Answered, Idle
<1>2. r \in DOMAIN calls[s].ans /\ calls[s].ans[r].code = "ok"
  BY DEF Answered, Good
<1> QED  BY <1>1, <1>2 DEF Typed, IsCall, Value

LEMMA ShellResumeTypes ==
  ASSUME FrameInv, NEW s \in Slots, ShellResume(s)
  PROVE  FrameInv'
<1> USE FrameParts DEF still, frame, shellVars, apiRest, apiVars
<1>0. Typed(End(s))
  BY EndCall
<1>1. CASE BootStatus(s)
  <2>1. /\ dom' \in DomSet /\ bootError' \in BOOLEAN
        /\ UNCHANGED <<sessions, minted, scene, initialized, hash, hashEvent, ticker,
                       range, modal>>
    BY <1>1, FreshType DEF BootStatus, Pages
  <2>2. token' \in Tokens \cup {NoToken}
    BY <1>1 DEF BootStatus
  <2>3. Typed(calls')
    <3>1. \A tk : Typed(Begin(calls, s, "bootDash", "none", 0, tk))
      BY BeginCall DEF FitCall, Loads
    <3>2. calls' = End(s) \/ \E tk : calls' = Begin(calls, s, "bootDash", "none", 0, tk)
      BY <1>1 DEF BootStatus
    <3> QED  BY <1>0, <3>1, <3>2
  <2> QED  BY <2>1, <2>2, <2>3, FrameStep
<1>2. CASE Dashboard(s) \/ Interfaces(s)
  <2>1. dom' \in DomSet
    BY <1>2, RenderType DEF Dashboard, Interfaces
  <2>2. calls' = End(s) /\ UNCHANGED <<apiRest, frame, modal>>
    BY <1>2 DEF Dashboard, Interfaces
  <2> QED  BY <1>0, <2>1, <2>2, FrameStep
<1>3. CASE LoginEnd(s)
  <2> DEFINE r == calls[s].ans["login"]
             d == Released(s)
  <2>0. d \in DomSet /\ UNCHANGED <<sessions, minted, scene, initialized, bootError, range, modal>>
    BY <1>3, ReleasedType DEF LoginEnd
  <2>1. CASE /\ calls' = End(s) /\ UNCHANGED <<token, hash, hashEvent>>
             /\ dom' \in DomSet /\ ticker' \in 0..MaxTickers
    BY <1>0, <2>0, <2>1, FrameStep
  <2>2. CASE /\ r.code = "ok" /\ token' = r.val /\ UNCHANGED ticker
             /\ Nav(Begin(calls, s, "dash", "none", 0, r.val), r.val, "dashboard", d)
    <3>1. r.val \in Tokens
      <4>1. "login" \in Asks["login"]
        BY DEF Asks
      <4>2. Good(s, "login") /\ Answered(s, "login")
        BY <1>3, <2>2 DEF Good, LoginEnd
      <4>3. Fit("login", Value(s, "login"))
        BY <4>1, <4>2, GoodFits
      <4> QED  BY <4>3 DEF Fit, Value
    <3>2. Typed(Begin(calls, s, "dash", "none", 0, r.val))
      BY BeginCall DEF FitCall, Loads
    <3>3. "dashboard" \in Hashes
      BY DEF Hashes, Pages
    <3> HIDE DEF r, d
    <3>4. /\ Typed(calls') /\ dom' \in DomSet
          /\ hash' \in Hashes /\ hashEvent' \in BOOLEAN
      BY <2>0, <2>2, <3>2, <3>3, NavTypes
    <3> QED  BY <2>0, <2>2, <3>1, <3>4, FrameStep
  <2>3. \/ /\ calls' = End(s) /\ UNCHANGED <<token, dom, hash, hashEvent, ticker>>
        \/ /\ r.code = "ok" /\ token' = r.val /\ UNCHANGED ticker
           /\ Nav(Begin(calls, s, "dash", "none", 0, r.val), r.val, "dashboard", d)
        \/ /\ ticker < MaxTickers /\ dom' = [d EXCEPT !.lock = TRUE, !.off = TRUE]
           /\ ticker' = ticker + 1
           /\ calls' = End(s) /\ UNCHANGED <<token, hash, hashEvent>>
        \/ /\ dom' = d /\ calls' = End(s) /\ UNCHANGED <<token, hash, hashEvent, ticker>>
    BY <1>3 DEF LoginEnd
  <2> HIDE DEF d, r
  <2>4. CASE /\ ticker < MaxTickers /\ dom' = [d EXCEPT !.lock = TRUE, !.off = TRUE]
             /\ ticker' = ticker + 1
             /\ calls' = End(s) /\ UNCHANGED <<token, hash, hashEvent>>
    <3>1. dom' \in DomSet
      BY <2>0, <2>4 DEF DomSet
    <3>2. ticker' \in 0..MaxTickers
      BY <2>4, FrameAssumption
    <3> QED  BY <2>1, <2>4, <3>1, <3>2
  <2> QED  BY <2>0, <2>1, <2>2, <2>3, <2>4
<1>4. CASE LogoutEnd(s)
  <2>1. "login" \in Hashes
    BY DEF Hashes, Pages
  <2>2. /\ Typed(calls') /\ dom' \in DomSet
        /\ hash' \in Hashes /\ hashEvent' \in BOOLEAN
    BY <1>0, <1>4, <2>1, NavTypes DEF LogoutEnd
  <2>3. modal'.kind \in Kinds
    BY <1>4, DialogKind DEF LogoutEnd, Kinds
  <2> QED  BY <1>4, <2>2, <2>3, FrameStep DEF LogoutEnd
<1>5. CASE CodeShown(s)
  <2>1. modal'.kind \in Kinds
    BY <1>5, DialogKind DEF CodeShown, Kinds
  <2>2. calls' = End(s) /\ UNCHANGED <<apiRest, frame, dom>>
    BY <1>5 DEF CodeShown
  <2> QED  BY <1>0, <2>1, <2>2, FrameStep
<1> QED  BY <1>1, <1>2, <1>3, <1>4, <1>5 DEF ShellResume

\* Answers of the service, but for those about the data: a session's token is
\* one of its tokens.
LEMMA ShellServeTypes ==
  ASSUME FrameInv, NEW s \in Slots, calls[s] # Idle, ShellServe(s)
  PROVE  FrameInv'
<1> USE FrameParts DEF still, frame, shellVars, apiRest, apiVars
<1>1. ASSUME NEW r, NEW code1, NEW val, Reply(s, r, code1, val),
             r \notin {"diagHistory", "fixHistory", "monitorQuality", "monitorEnabled",
                       "snapshots", "login"} \/ code1 # "ok"
      PROVE  Typed(calls')
  BY <1>1, ReplyCall DEF Fit
<1>2. CASE ServeSetup(s) /\ UNCHANGED <<scene, hash, hashEvent, bootError, dom, ticker,
                                       range, modal>>
  <2>1. Typed(calls')
    BY <1>1, <1>2 DEF ServeSetup
  <2> QED  BY <1>2, <2>1 DEF ServeSetup, FrameInv, ShellTypeOK
<1>3. CASE /\ ServeStatus(s) \/ ServeRead(s) \/ ServeLocked(s) \/ Refuse(s)
           /\ UNCHANGED shellVars
  <2>1. UNCHANGED <<apiRest, shellVars>>
    BY <1>3 DEF ServeStatus, ServeRead, ServeLocked, Refuse
  <2>2. Typed(calls')
    BY <1>1, <1>3 DEF ServeStatus, ServeRead, ServeLocked, Refuse
  <2> QED  BY <2>1, <2>2, FrameStep
<1>4. CASE ServeLogin(s) /\ UNCHANGED shellVars
  <2>1. /\ minted < MaxTokens /\ minted' = minted + 1
        /\ sessions' = sessions \cup {minted + 1}
        /\ UNCHANGED <<token, shellVars>>
    BY <1>4 DEF ServeLogin
  <2>2. minted \in 0..MaxTokens /\ sessions \subseteq Tokens
    BY DEF ShellTypeOK
  <2>3. minted + 1 \in Tokens
    BY <2>1, <2>2, TokensAssumption DEF Tokens
  <2>4. Typed(calls')
    BY <1>4, <2>3, <1>1, ReplyCall DEF ServeLogin, Fit
  <2>5. minted' \in 0..MaxTokens /\ sessions' \subseteq Tokens
    BY <2>1, <2>2, <2>3, TokensAssumption
  <2> QED  BY <2>1, <2>4, <2>5 DEF FrameInv, ShellTypeOK
<1>5. CASE (ServeLogout(s) \/ ServeRecover(s)) /\ UNCHANGED shellVars
  <2>1. Typed(calls')
    BY <1>1, <1>5 DEF ServeLogout, ServeRecover
  <2>2. sessions' \subseteq Tokens /\ UNCHANGED <<token, minted, shellVars>>
    BY <1>5 DEF ServeLogout, ServeRecover, ShellTypeOK
  <2> QED  BY <2>1, <2>2 DEF FrameInv, ShellTypeOK
<1> QED  BY <1>2, <1>3, <1>4, <1>5 DEF ShellServe

----------------------------------------------------------------------------
(* Types of the diagnosis, the repair and the data *)

LEMMA FixTypes ==
  ASSUME DiagTypeOK, fixCtx # NoFix
  PROVE  fixCtx \in [check : Checks, phase : {"confirm", "running", "done"},
                     result : Checks \cup {"none"}]
BY DEF DiagTypeOK

LEMMA DiagUserTypes ==
  ASSUME FrameInv, DiagTypeOK, DiagUser
  PROVE  FrameInv' /\ DiagTypeOK'
<1> USE FrameParts DEF still, frame, shellVars, apiRest, apiVars, diagVars
<1>1. CASE RunDiag
  <2>1. Typed(calls') /\ dom' \in DomSet
    BY <1>1, SendCall, RenderType DEF RunDiag, Loads
  <2> QED  BY <1>1, <2>1, FrameStep DEF RunDiag, DiagTypeOK
<1>2. CASE RunDiagFromDash
  <2> DEFINE s == CHOOSE x \in Free(calls) : TRUE
             c == Begin(calls, s, "diagPost", "none", 0, token)
             d == Fresh(Current, bootError)
  <2>1. s \in Slots
    BY <1>2 DEF RunDiagFromDash, Free
  <2> HIDE DEF s
  <2>2. Typed(c)
    BY <2>1, BeginCall DEF FitCall, Loads
  <2>3. Current \in Pages /\ "diagnose" \in Hashes
    BY DEF ShellTypeOK, Current, Pages, Hashes
  <2>4. d \in DomSet
    BY <2>3, FreshType
  <2>5. Nav(c, token, "diagnose", d)
    BY <1>2 DEF RunDiagFromDash, s
  <2> HIDE DEF c, d
  <2>6. /\ Typed(calls') /\ dom' \in DomSet
        /\ hash' \in Hashes /\ hashEvent' \in BOOLEAN
    BY <2>2, <2>3, <2>4, <2>5, NavTypes
  <2> QED  BY <1>2, <2>6, FrameStep DEF RunDiagFromDash, DiagTypeOK
<1>3. CASE OpenFix \/ CloseFix
  <2>1. modal'.kind \in Kinds
    BY <1>3, DialogKind DEF OpenFix, CloseFix, RenderModal, Kinds
  <2>2. DiagTypeOK'
    BY <1>3 DEF OpenFix, CloseFix, DiagTypeOK
  <2>3. UNCHANGED <<apiVars, frame, dom>>
    BY <1>3 DEF OpenFix, CloseFix
  <2> QED  BY <2>1, <2>2, <2>3, FrameStep
<1>4. CASE OpenInfo
  <2>1. modal'.kind \in Kinds
    BY <1>4, DialogKind DEF OpenInfo, Open, Kinds
  <2> QED  BY <1>4, <2>1, FrameStep DEF OpenInfo, DiagTypeOK
<1>5. CASE FixStart
  <2>1. modal'.kind \in Kinds
    BY <1>5, DialogKind DEF FixStart, RenderModal, Kinds
  <2>2. fixCtx # NoFix
    BY <1>5 DEF FixStart, NoFix
  <2>3. fixCtx.check \in Checks
    BY <2>2, FixTypes
  <2>4. Typed(calls')
    BY <1>5, <2>3, SendCall DEF FixStart, Loads
  <2>5. DiagTypeOK'
    <3>1. fixCtx' = [fixCtx EXCEPT !.phase = "running"]
      BY <1>5 DEF FixStart
    <3>2. fixCtx' \in [check : Checks, phase : {"confirm", "running", "done"},
                       result : Checks \cup {"none"}]
      BY <2>2, <3>1, FixTypes
    <3> QED  BY <1>5, <3>2 DEF FixStart, DiagTypeOK
  <2> QED  BY <1>5, <2>1, <2>4, <2>5, FrameStep DEF FixStart
<1>6. CASE Scan
  <2>1. Typed(calls')
    BY <1>6, SendCall DEF Scan, Loads
  <2> QED  BY <1>6, <2>1, FrameStep DEF Scan, DiagTypeOK
<1> QED  BY <1>1, <1>2, <1>3, <1>4, <1>5, <1>6 DEF DiagUser

LEMMA DiagResumeTypes ==
  ASSUME FrameInv, DiagTypeOK, NEW s \in Slots, DiagResume(s)
  PROVE  FrameInv' /\ DiagTypeOK'
<1> USE FrameParts DEF still, frame, shellVars, apiRest, apiVars, diagVars
<1>0. Typed(End(s))
  BY EndCall
<1>1. ASSUME NEW op \in {"diagWait", "diagPoll", "ifaces"}, NEW left
      PROVE  Typed(Begin(calls, s, op, "none", left, token))
  BY BeginCall DEF FitCall, Loads
<1>2. CASE DiagPosted(s)
  <2>1. Typed(calls')
    BY <1>0, <1>1, <1>2 DEF DiagPosted
  <2>2. dom' \in DomSet
    BY <1>2, RenderType DEF DiagPosted
  <2> QED  BY <1>2, <2>1, <2>2, FrameStep DEF DiagPosted, DiagTypeOK
<1>3. CASE DiagPoll(s)
  <2>1. Typed(calls')
    BY <1>1, <1>3 DEF DiagPoll
  <2> QED  BY <1>3, <2>1, FrameStep DEF DiagPoll, DiagTypeOK
<1>4. CASE DiagPolled(s)
  <2>1. Typed(calls')
    BY <1>0, <1>1, <1>4 DEF DiagPolled
  <2>2. dom' \in DomSet
    BY <1>4, FreshType DEF DiagPolled, Pages
  <2>3. diagReport' \in BOOLEAN /\ diagRunning' \in BOOLEAN
    BY <1>4 DEF DiagPolled, DiagTypeOK
  <2> QED  BY <1>4, <2>1, <2>2, <2>3, FrameStep DEF DiagPolled, DiagTypeOK
<1>5. CASE FixEnd(s)
  <2>1. calls[s].arg \in Checks
    <3>1. calls[s].op = "fix"
      BY <1>5 DEF FixEnd, Answered
    <3>2. calls[s] # Idle
      BY <3>1 DEF Idle
    <3> QED  BY <3>1, <3>2 DEF Typed, IsCall, FitCall
  <2>2. Typed(calls')
    BY <1>0, <1>1, <1>5 DEF FixEnd
  <2>3. modal'.kind \in Kinds
    BY <1>5, DialogKind DEF FixEnd, RenderModal, Kinds
  <2>4. fixCtx' \in {NoFix} \cup [check : Checks, phase : {"confirm", "running", "done"},
                                  result : Checks \cup {"none"}]
    <3>1. CASE fixCtx = NoFix /\ UNCHANGED fixCtx
      BY <3>1
    <3>2. CASE /\ fixCtx # NoFix
               /\ fixCtx' = [fixCtx EXCEPT !.phase = "done", !.result = calls[s].arg]
      BY <2>1, <3>2, FixTypes
    <3> QED  BY <1>5, <3>1, <3>2 DEF FixEnd
  <2> QED  BY <1>5, <2>2, <2>3, <2>4, FrameStep DEF FixEnd, DiagTypeOK
<1> QED  BY <1>2, <1>3, <1>4, <1>5 DEF DiagResume

LEMMA DiagServeTypes ==
  ASSUME FrameInv, NEW s \in Slots, calls[s] # Idle, ServeDiag(s), UNCHANGED shellVars
  PROVE  FrameInv'
<1>1. PICK r \in {"diagRun", "diagReport", "fix"} : \E code1, v : Reply(s, r, code1, v)
  BY DEF ServeDiag
<1>2. Typed(calls')
  BY <1>1, FrameParts, ReplyCall DEF Fit
<1> QED  BY <1>2, FrameParts, FrameStep DEF ServeDiag, shellVars, frame, still, apiRest

LEMMA DataUserTypes ==
  ASSUME PageInv, FrameInv, DataTypeOK, DataUser
  PROVE  FrameInv' /\ DataTypeOK'
<1> USE FrameParts DEF still, frame, shellVars, apiRest, apiVars, dataVars, busyVars
<1>1. CASE RequestDelete
  <2>1. PICK r \in shown.diag \cup shown.fix :
          deleteCtx' = r /\ modal' = [Dialog("delete") EXCEPT !.rec = r]
    BY <1>1 DEF RequestDelete
  <2>2. modal'.kind \in Kinds
    BY <2>1 DEF Dialog, Kinds
  <2>3. r \in DiagRecords \cup FixRecords
    BY <2>1 DEF DataTypeOK, Holding
  <2>4. DataTypeOK'
    BY <1>1, <2>1, <2>3 DEF RequestDelete, DataTypeOK
  <2> QED  BY <1>1, <2>2, <2>4, FrameStep DEF RequestDelete
<1>2. CASE DeleteStart \/ ClearStart
  <2>1. PICK op \in {"delete", "clear"} : \E arg : Send(op, arg)
    BY <1>2 DEF DeleteStart, ClearStart
  <2>2. Typed(calls')
    BY <2>1, SendCall DEF Loads
  <2>3. modal'.kind \in Kinds
    <3>1. modal = [kind |-> modal.kind, rec |-> modal.rec, off |-> modal.off]
      BY DEF PageInv, Shapes
    <3>2. modal' = [kind |-> modal.kind, rec |-> modal.rec, off |-> TRUE]
      BY <1>2, <3>1 DEF DeleteStart, ClearStart
    <3> QED  BY <3>2
  <2>4. UNCHANGED <<apiRest, frame, dom, dataVars>>
    BY <1>2 DEF DeleteStart, ClearStart
  <2> QED  BY <2>2, <2>3, <2>4, FrameStep DEF DataTypeOK
<1>3. CASE RequestClear
  <2>1. modal'.kind \in Kinds
    BY <1>3, DialogKind DEF RequestClear, Open, Kinds
  <2> QED  BY <1>3, <2>1, FrameStep DEF RequestClear, DataTypeOK
<1>4. CASE SetRange
  <2> DEFINE s == CHOOSE x \in Free(calls) : TRUE
  <2>1. s \in Slots /\ range' \in Ranges
    BY <1>4 DEF SetRange, Free
  <2>2. calls' = Begin(calls, s, "monitor", "none", range', token)
    BY <1>4 DEF SetRange
  <2> HIDE DEF s
  <2>3. Typed(calls')
    BY <2>1, <2>2, BeginCall DEF FitCall
  <2> QED  BY <1>4, <2>1, <2>3, FrameStep DEF SetRange, DataTypeOK
<1>5. CASE ToggleStart \/ SampleStart
  <2>1. dom' \in DomSet
    BY <1>5, RenderType DEF ToggleStart, SampleStart
  <2>2. PICK op \in {"toggle", "sample"} : \E arg : Send(op, arg)
    BY <1>5 DEF ToggleStart, SampleStart
  <2>3. Typed(calls')
    BY <2>2, SendCall DEF Loads
  <2>4. UNCHANGED <<apiRest, frame, modal>> /\ DataTypeOK'
    BY <1>5 DEF ToggleStart, SampleStart, DataTypeOK
  <2> QED  BY <2>1, <2>3, <2>4, FrameStep
<1>6. CASE CreateStart \/ DiffStart \/ AskStart \/ ToolStart
  <2>1. PICK op \in {"create", "diff", "ask", "tool"} : \E arg : Send(op, arg)
    BY <1>6 DEF CreateStart, DiffStart, AskStart, ToolStart
  <2>2. Typed(calls')
    BY <2>1, SendCall DEF Loads
  <2>3. UNCHANGED <<apiRest, shellVars, dataVars>>
    BY <1>6 DEF CreateStart, DiffStart, AskStart, ToolStart
  <2> QED  BY <2>2, <2>3, FrameStep DEF DataTypeOK
<1> QED  BY <1>1, <1>2, <1>3, <1>4, <1>5, <1>6 DEF DataUser

\* What the handlers that load find in their answers.
LEMMA AnswerForms ==
  ASSUME Typed(calls), NEW s \in Slots
  PROVE  /\ Answered(s, "history") /\ Good(s, "diagHistory") =>
              Value(s, "diagHistory") \in SUBSET DiagRecords
         /\ Answered(s, "history") /\ Good(s, "fixHistory") =>
              Value(s, "fixHistory") \in SUBSET FixRecords
         /\ \A op \in Loads : Answered(s, op) /\ Good(s, "monitorQuality") =>
              Value(s, "monitorQuality") \in [days : Ranges, on : BOOLEAN,
                                              samples : 0..MaxSamples]
         /\ Answered(s, "toggle") /\ Good(s, "monitorEnabled") =>
              Value(s, "monitorEnabled") \in BOOLEAN
         /\ Answered(s, "snapshots") /\ Good(s, "snapshots") =>
              Value(s, "snapshots") \in 0..MaxSnapshots
<1>1. /\ Asks["history"] = {"diagHistory", "fixHistory"}
      /\ \A op \in Loads : Asks[op] = {"monitorQuality"}
      /\ Asks["toggle"] = {"monitorEnabled"} /\ Asks["snapshots"] = {"snapshots"}
  BY DEF Asks, Loads
<1>2. \A op, r : Answered(s, op) /\ op # "none" /\ r \in Asks[op] /\ Good(s, r) =>
                   Fit(r, Value(s, r))
  BY GoodFits
<1> QED  BY <1>1, <1>2 DEF Fit, Loads

LEMMA MonitorTypes ==
  ASSUME Typed(calls), shown \in Holding, NEW s \in Slots, NEW op \in Loads,
         Answered(s, op), MonitorShown(s)
  PROVE  shown' \in Holding
<1>1. CASE Good(s, "monitorQuality")
  <2> DEFINE v == Value(s, "monitorQuality")
  <2>1. v \in [days : Ranges, on : BOOLEAN, samples : 0..MaxSamples]
    BY <1>1, AnswerForms
  <2>2. shown' = [shown EXCEPT !.on = v.on, !.samples = v.samples, !.days = v.days]
    BY <1>1 DEF MonitorShown
  <2> HIDE DEF v
  <2>3. v.on \in BOOLEAN /\ v.samples \in 0..MaxSamples /\ v.days \in Ranges \cup {0}
    BY <2>1
  <2> QED  BY <2>2, <2>3 DEF Holding
<1>2. CASE ~Good(s, "monitorQuality")
  BY <1>2 DEF MonitorShown
<1> QED  BY <1>1, <1>2

LEMMA DataResumeTypes ==
  ASSUME FrameInv, DataTypeOK, NEW s \in Slots, DataResume(s)
  PROVE  FrameInv' /\ DataTypeOK'
<1> USE FrameParts DEF still, frame, shellVars, apiRest, apiVars, dataVars, busyVars
<1>0. /\ Typed(End(s)) /\ shown \in Holding
      /\ trust \subseteq {"history", "monitor", "snapshots"}
  BY EndCall DEF DataTypeOK
<1>1. CASE HistoryLoaded(s)
  <2>1. dom' \in DomSet /\ calls' = End(s) /\ UNCHANGED <<apiRest, frame, modal>>
    BY <1>1, RenderType DEF HistoryLoaded
  <2>2. shown' \in Holding
    <3> DEFINE a == IF Good(s, "diagHistory") THEN Value(s, "diagHistory") ELSE shown.diag
               b == IF Good(s, "fixHistory") THEN Value(s, "fixHistory") ELSE shown.fix
    <3>1. a \in SUBSET DiagRecords /\ b \in SUBSET FixRecords
      BY <1>0, <1>1, AnswerForms DEF HistoryLoaded, Holding
    <3>2. shown' = [shown EXCEPT !.diag = a, !.fix = b]
      BY <1>1 DEF HistoryLoaded
    <3> HIDE DEF a, b
    <3> QED  BY <1>0, <3>1, <3>2 DEF Holding
  <2>3. DataTypeOK'
    BY <1>0, <1>1, <2>2 DEF HistoryLoaded, DataTypeOK, Trusted
  <2> QED  BY <1>0, <2>1, <2>3, FrameStep
<1>2. CASE MonitorLoaded(s) \/ SampleLoaded(s)
  <2>1. dom' \in DomSet /\ calls' = End(s) /\ UNCHANGED <<apiRest, frame, modal>>
    BY <1>2, RenderType DEF MonitorLoaded, SampleLoaded
  <2>2. PICK op \in Loads : Answered(s, op) /\ MonitorShown(s)
    BY <1>2 DEF MonitorLoaded, SampleLoaded, Loads
  <2>3. shown' \in Holding
    BY <1>0, <2>2, MonitorTypes
  <2>4. DataTypeOK'
    BY <1>0, <1>2, <2>3 DEF MonitorLoaded, SampleLoaded, DataTypeOK, Trusted
  <2> QED  BY <1>0, <2>1, <2>4, FrameStep
<1>3. CASE ToggleEnd(s)
  <2>1. dom' \in DomSet /\ calls' = End(s) /\ UNCHANGED <<apiRest, frame, modal>>
    BY <1>3, RenderType DEF ToggleEnd
  <2>2. shown' \in Holding
    <3> DEFINE a == IF Good(s, "monitorEnabled") THEN Value(s, "monitorEnabled") ELSE shown.on
    <3>1. a \in BOOLEAN
      BY <1>0, <1>3, AnswerForms DEF ToggleEnd, Holding
    <3>2. shown' = [shown EXCEPT !.on = a]
      BY <1>3 DEF ToggleEnd
    <3> HIDE DEF a
    <3> QED  BY <1>0, <3>1, <3>2 DEF Holding
  <2>3. DataTypeOK'
    BY <1>0, <1>3, <2>2 DEF ToggleEnd, DataTypeOK, Trusted
  <2> QED  BY <1>0, <2>1, <2>3, FrameStep
<1>4. CASE SnapshotsLoaded(s)
  <2>1. dom' \in DomSet /\ calls' = End(s) /\ UNCHANGED <<apiRest, frame, modal>>
    BY <1>4, RenderType DEF SnapshotsLoaded
  <2>2. shown' \in Holding
    <3> DEFINE a == IF Good(s, "snapshots") THEN Value(s, "snapshots") ELSE shown.snaps
    <3>1. a \in 0..MaxSnapshots
      BY <1>0, <1>4, AnswerForms DEF SnapshotsLoaded, Holding
    <3>2. shown' = [shown EXCEPT !.snaps = a]
      BY <1>4 DEF SnapshotsLoaded
    <3> HIDE DEF a
    <3> QED  BY <1>0, <3>1, <3>2 DEF Holding
  <2>3. DataTypeOK'
    BY <1>0, <1>4, <2>2 DEF SnapshotsLoaded, DataTypeOK, Trusted
  <2> QED  BY <1>0, <2>1, <2>3, FrameStep
<1>5. CASE DeleteEnd(s) \/ ClearEnd(s)
  <2>1. Typed(calls')
    <3>1. \A tk : Typed(Begin(calls, s, "history", "none", 0, tk))
      BY BeginCall DEF FitCall, Loads
    <3> QED  BY <1>0, <1>5, <3>1 DEF DeleteEnd, ClearEnd, Reload
  <2>2. modal'.kind \in Kinds /\ UNCHANGED <<apiRest, frame, dom>>
    BY <1>5, DialogKind DEF DeleteEnd, ClearEnd, Kinds
  <2>3. DataTypeOK'
    BY <1>0, <1>5 DEF DeleteEnd, ClearEnd, DataTypeOK, Trusted
  <2> QED  BY <2>1, <2>2, <2>3, FrameStep
<1>6. CASE SampleTaken(s)
  <2>1. Typed(calls')
    <3>1. \A tk : Typed(Begin(calls, s, "sampleLoad", "none", range, tk))
      BY BeginCall DEF FitCall
    <3> QED  BY <1>0, <1>6, <3>1 DEF SampleTaken
  <2>2. dom' \in DomSet /\ UNCHANGED <<apiRest, frame, modal>>
    BY <1>6, RenderType DEF SampleTaken
  <2>3. DataTypeOK'
    BY <1>0, <1>6 DEF SampleTaken, DataTypeOK, Trusted
  <2> QED  BY <2>1, <2>2, <2>3, FrameStep
<1>7. CASE CreateEnd(s)
  <2>1. Typed(calls')
    <3>1. \A tk : Typed(Begin(calls, s, "snapshots", "none", 0, tk))
      BY BeginCall DEF FitCall, Loads
    <3> QED  BY <1>0, <1>7, <3>1 DEF CreateEnd
  <2>2. DataTypeOK'
    BY <1>0, <1>7 DEF CreateEnd, DataTypeOK, Trusted
  <2> QED  BY <1>7, <2>1, <2>2, FrameStep DEF CreateEnd
<1>8. CASE DiffEnd(s)
  <2>1. modal'.kind \in Kinds
    BY <1>8, DialogKind DEF DiffEnd, Kinds
  <2> QED  BY <1>0, <1>8, <2>1, FrameStep DEF DiffEnd, DataTypeOK
<1>9. CASE AskEnd(s)
  BY <1>0, <1>9, FrameStep DEF AskEnd, DataTypeOK
<1>10. CASE ToolEnd(s)
  <2>1. PICK b \in BOOLEAN : dom' = [dom EXCEPT !.result = b]
    BY <1>10 DEF ToolEnd, DomSet
  <2>2. dom' \in DomSet
    BY <2>1 DEF DomSet
  <2> QED  BY <1>0, <1>10, <2>2, FrameStep DEF ToolEnd, DataTypeOK
<1> QED  BY <1>1, <1>2, <1>3, <1>4, <1>5, <1>6, <1>7, <1>8, <1>9, <1>10 DEF DataResume

\* The service answers with data of its own, which stay within their bounds.
LEMMA DataServeTypes ==
  ASSUME FrameInv, DataTypeOK, NEW s \in Slots, calls[s] # Idle, ServeData(s),
         UNCHANGED shellVars
  PROVE  FrameInv' /\ DataTypeOK'
<1> USE FrameParts DEF still, frame, shellVars, apiRest, apiVars, dataVars, busyVars
<1>0. /\ kept \in Holding
      /\ UNCHANGED <<apiRest, shown, busyVars, deleteCtx, trust>>
  BY DEF DataTypeOK, ServeData
<1>1. ASSUME Typed(calls'), kept' \in Holding
      PROVE  FrameInv' /\ DataTypeOK'
  BY <1>0, <1>1, FrameStep DEF DataTypeOK
<1>2. ASSUME NEW r, NEW v, Fit(r, v), Reply(s, r, "ok", v) \/ Reply(s, r, "no", "none")
      PROVE  Typed(calls')
  BY <1>2, ReplyCall
<1>3. CASE ServeHistory(s)
  <2>1. kept' \in Holding
    <3>1. CASE UNCHANGED kept
      BY <1>0, <3>1
    <3>2. ASSUME NEW x, kept' = [kept EXCEPT !.diag = @ \ x, !.fix = @ \ x]
          PROVE  kept' \in Holding
      BY <1>0, <3>2 DEF Holding
    <3>3. CASE kept' = [kept EXCEPT !.diag = {}, !.fix = {}]
      BY <1>0, <3>3 DEF Holding
    <3> QED  BY <1>3, <3>1, <3>2, <3>3 DEF ServeHistory
  <2>2. /\ \A P \in FirstPage(kept.diag) : Fit("diagHistory", P)
        /\ Fit("fixHistory", kept.fix)
        /\ Fit("historyDelete", "none") /\ Fit("historyClear", "none")
    BY <1>0 DEF Fit, Holding, FirstPage
  <2> QED  BY <1>1, <1>2, <1>3, <2>1, <2>2 DEF ServeHistory, Done
<1>4. CASE ServeMonitor(s)
  <2>1. CASE /\ Reply(s, "monitorQuality", "ok",
                      [days |-> calls[s].left, on |-> kept.on, samples |-> kept.samples])
             /\ UNCHANGED kept
    <3>1. calls[s].op \in Loads
      <4>1. calls[s].op \in Ops /\ "monitorQuality" \in Asks[calls[s].op]
        BY <2>1 DEF Reply, Waits
      <4> QED  BY <4>1 DEF Ops, Asks, Loads
    <3>2. calls[s].left \in Ranges
      BY <3>1 DEF Typed, IsCall, FitCall
    <3>3. Fit("monitorQuality",
              [days |-> calls[s].left, on |-> kept.on, samples |-> kept.samples])
      BY <1>0, <3>2 DEF Fit, Holding
    <3> QED  BY <1>0, <1>1, <1>2, <2>1, <3>3
  <2>2. CASE /\ Done(s, "monitorEnabled", calls[s].arg = "on")
             /\ kept' = [kept EXCEPT !.on = calls[s].arg = "on"]
    <3> DEFINE b == calls[s].arg = "on"
    <3>1. b \in BOOLEAN
      OBVIOUS
    <3>2. Done(s, "monitorEnabled", b) /\ kept' = [kept EXCEPT !.on = b]
      BY <2>2
    <3> HIDE DEF b
    <3>3. Fit("monitorEnabled", b)
      BY <3>1 DEF Fit
    <3>4. kept' \in Holding
      BY <1>0, <3>1, <3>2 DEF Holding
    <3> QED  BY <1>1, <1>2, <3>2, <3>3, <3>4 DEF Done
  <2>3. CASE /\ kept.samples < MaxSamples
             /\ Done(s, "monitorSample", "none")
             /\ kept' = [kept EXCEPT !.samples = @ + 1]
    <3>1. kept' \in Holding
      BY <1>0, <2>3, RecordsAssumption DEF Holding
    <3>2. Fit("monitorSample", "none")
      BY DEF Fit
    <3> QED  BY <1>1, <1>2, <2>3, <3>1, <3>2 DEF Done
  <2> QED  BY <1>4, <2>1, <2>2, <2>3 DEF ServeMonitor
<1>5. CASE ServeSnapshots(s)
  <2>1. kept' \in Holding
    <3>1. CASE UNCHANGED kept
      BY <1>0, <3>1
    <3>2. CASE kept.snaps < MaxSnapshots /\ kept' = [kept EXCEPT !.snaps = @ + 1]
      BY <1>0, <3>2, RecordsAssumption DEF Holding
    <3> QED  BY <1>5, <3>1, <3>2 DEF ServeSnapshots
  <2>2. /\ Fit("snapshots", kept.snaps)
        /\ \A r \in {"snapshotCreate", "snapshotDiff", "ask", "tool"} : Fit(r, "none")
    BY <1>0 DEF Fit, Holding
  <2> QED  BY <1>1, <1>2, <1>5, <2>1, <2>2 DEF ServeSnapshots, Done
<1> QED  BY <1>3, <1>4, <1>5 DEF ServeData

\* What others change at the service, and whose copies that leaves behind.
LEMMA OthersChange ==
  ASSUME DataTypeOK, Others
  PROVE  /\ kept' \in Holding
         /\ \E topic \in {"history", "monitor", "snapshots"} :
              /\ Meanwhile(topic)
              /\ topic # "history" => kept'.diag = kept.diag /\ kept'.fix = kept.fix
              /\ topic # "monitor" => kept'.on = kept.on /\ kept'.samples = kept.samples
              /\ topic # "snapshots" => kept'.snaps = kept.snaps
<1>0. kept \in Holding
  BY DEF DataTypeOK
<1>1. CASE OthersHistory
  <2>1. PICK a \in SUBSET DiagRecords, b \in SUBSET FixRecords :
          kept' = [kept EXCEPT !.diag = a, !.fix = b]
    <3>1. ASSUME NEW new,
                 kept' = [kept EXCEPT !.diag = @ \cup ({new} \cap DiagRecords),
                                      !.fix  = @ \cup ({new} \cap FixRecords)]
          PROVE  \E a \in SUBSET DiagRecords, b \in SUBSET FixRecords :
                   kept' = [kept EXCEPT !.diag = a, !.fix = b]
      <4>1. /\ kept.diag \cup ({new} \cap DiagRecords) \in SUBSET DiagRecords
            /\ kept.fix \cup ({new} \cap FixRecords) \in SUBSET FixRecords
        BY <1>0 DEF Holding
      <4> QED  BY <3>1, <4>1
    <3>2. ASSUME NEW gone,
                 kept' = [kept EXCEPT !.diag = @ \ gone, !.fix = @ \ gone]
          PROVE  \E a \in SUBSET DiagRecords, b \in SUBSET FixRecords :
                   kept' = [kept EXCEPT !.diag = a, !.fix = b]
      <4>1. /\ kept.diag \ gone \in SUBSET DiagRecords
            /\ kept.fix \ gone \in SUBSET FixRecords
        BY <1>0 DEF Holding
      <4> QED  BY <3>2, <4>1
    <3> QED  BY <1>1, <3>1, <3>2 DEF OthersHistory
  <2>2. /\ kept' \in Holding /\ kept'.on = kept.on /\ kept'.samples = kept.samples
        /\ kept'.snaps = kept.snaps
    BY <1>0, <2>1 DEF Holding
  <2> QED  BY <1>1, <2>2 DEF OthersHistory
<1>2. CASE OthersMonitor
  <2>1. /\ kept' \in Holding /\ kept'.diag = kept.diag /\ kept'.fix = kept.fix
        /\ kept'.snaps = kept.snaps
    <3>1. CASE kept.samples < MaxSamples /\ kept' = [kept EXCEPT !.samples = @ + 1]
      BY <1>0, <3>1, RecordsAssumption DEF Holding
    <3>2. CASE kept' = [kept EXCEPT !.on = ~@]
      BY <1>0, <3>2 DEF Holding
    <3> QED  BY <1>2, <3>1, <3>2 DEF OthersMonitor
  <2> QED  BY <1>2, <2>1 DEF OthersMonitor
<1>3. CASE OthersSnapshots
  <2>1. /\ kept' \in Holding /\ kept'.diag = kept.diag /\ kept'.fix = kept.fix
        /\ kept'.on = kept.on /\ kept'.samples = kept.samples
    BY <1>0, <1>3, RecordsAssumption DEF OthersSnapshots, Holding
  <2> QED  BY <1>3, <2>1 DEF OthersSnapshots
<1> QED  BY <1>1, <1>2, <1>3 DEF Others

LEMMA OthersTypes ==
  ASSUME FrameInv, DataTypeOK, OthersStep
  PROVE  FrameInv' /\ DataTypeOK'
<1> USE FrameParts DEF still, frame, shellVars, apiRest, busyVars
<1>1. PICK topic \in {"history", "monitor", "snapshots"} : Meanwhile(topic)
  BY OthersChange DEF OthersStep
<1>2. Typed(calls')
  BY <1>1, MeanwhileCalls
<1>3. kept' \in Holding /\ trust' \subseteq trust
  BY <1>1, OthersChange DEF OthersStep, Meanwhile
<1>4. UNCHANGED <<apiRest, shellVars, shown, busyVars, deleteCtx>>
  BY DEF OthersStep, Others
<1> QED  BY <1>2, <1>3, <1>4, FrameStep DEF DataTypeOK

----------------------------------------------------------------------------
(* Types of the whole page *)

TypeInv == FrameInv /\ DiagTypeOK /\ DataTypeOK

\* boot() waits alone.
LEMMA OpenedTypes ==
  ASSUME Opened
  PROVE  Typed(calls)
<1>1. PICK s \in Slots :
        calls = [Begin([x \in Slots |-> Idle], s, "boot", "none", 0, token)
                   EXCEPT ![s].alone = TRUE]
  BY DEF Opened
<1> DEFINE c == [x \in Slots |-> Idle]
           b == Begin(c, s, "boot", "none", 0, token)
           k == [b[s] EXCEPT !.alone = TRUE]
<1>2. Typed(c)
  BY DEF Typed, IsCalls, IsCall, Idle
<1>3. "boot" # "none" /\ FitCall("boot", "none", 0)
  BY DEF FitCall, Loads
<1> HIDE DEF c
<1>4. Typed(b) /\ Begun(c, b, s, "boot", 0)
  BY <1>2, <1>3, BeginCall
<1>5. calls = [b EXCEPT ![s] = k]
  BY <1>1 DEF c
<1> HIDE DEF b
<1>6. /\ b = [x \in Slots |-> b[x]]
      /\ \A x \in Slots : "op" \in DOMAIN b[x] /\ IsCall(b[x])
      /\ b[s].op = "boot"
  BY <1>4 DEF Typed, Begun, IsCalls
<1>7. /\ b[s] = [op |-> b[s].op, arg |-> b[s].arg, left |-> b[s].left, tok |-> b[s].tok,
                 ans |-> b[s].ans, alone |-> b[s].alone]
      /\ FitCall(b[s].op, b[s].arg, b[s].left)
      /\ \A r \in DOMAIN b[s].ans : b[s].ans[r].code = "ok" => Fit(r, b[s].ans[r].val)
  <2>1. b[s] # Idle
    BY <1>6 DEF Idle
  <2> QED  BY <1>6, <2>1 DEF IsCall
<1>8. k = [op |-> b[s].op, arg |-> b[s].arg, left |-> b[s].left, tok |-> b[s].tok,
           ans |-> b[s].ans, alone |-> TRUE]
  <2> DEFINE l == b[s]
  <2>1. l = [op |-> l.op, arg |-> l.arg, left |-> l.left, tok |-> l.tok,
             ans |-> l.ans, alone |-> l.alone]
    BY <1>7
  <2>2. k = [l EXCEPT !.alone = TRUE]
    OBVIOUS
  <2> HIDE DEF l, k
  <2>3. k = [op |-> l.op, arg |-> l.arg, left |-> l.left, tok |-> l.tok,
             ans |-> l.ans, alone |-> TRUE]
    BY <2>1, <2>2
  <2> QED  BY <2>3 DEF l
<1> HIDE DEF k
<1>9. /\ k.op = b[s].op /\ k.arg = b[s].arg /\ k.left = b[s].left
      /\ k.tok = b[s].tok /\ k.ans = b[s].ans /\ k.alone = TRUE
      /\ "op" \in DOMAIN k
  BY <1>8
<1>10. IsCall(k)
  BY <1>6, <1>7, <1>8, <1>9 DEF IsCall
<1>11. calls = [x \in Slots |-> calls[x]]
       /\ \A x \in Slots : calls[x] = IF x = s THEN k ELSE b[x]
  BY <1>5, <1>6
<1> QED  BY <1>6, <1>9, <1>10, <1>11 DEF Typed, IsCalls

LEMMA InitTypes == Init => TypeInv
<1> SUFFICES ASSUME Init PROVE TypeInv
  OBVIOUS
<1>1. range \in Ranges
  BY FrameAssumption DEF Init, ShellInit
<1>2. 1 \in Tokens
  BY TokensAssumption DEF Tokens
<1>3. /\ Typed(calls) /\ token \in Tokens \cup {NoToken} /\ sessions \subseteq Tokens
      /\ initialized \in BOOLEAN /\ hash \in Hashes /\ dom \in DomSet
  <2>1. CASE scene \in {"login", "session", "account"}
    <3>1. Opened
      BY <2>1 DEF Init, ShellInit
    <3>2. Visits[scene] \subseteq Hashes
      BY <2>1, VisitsTypes DEF PageScenes, Visits
    <3>3. token \in {NoToken, 1}
      BY <3>1 DEF Opened
    <3>4. sessions \in {{}, {token} \ {NoToken}}
      BY <3>1 DEF Opened
    <3>5. dom \in DomSet
      BY <3>1 DEF Opened, DomSet, Pages, Blank
    <3>6. hash \in Hashes /\ initialized \in BOOLEAN
      BY <3>1, <3>2 DEF Opened, Hashes
    <3> QED  BY <1>2, <3>1, <3>3, <3>4, <3>5, <3>6, OpenedTypes
  <2>2. CASE scene \notin {"login", "session", "account"}
    <3>1. PICK p \in {"login", "dashboard"}, tk \in {NoToken, 1} : Entered(p, tk)
      BY <2>2 DEF Init, ShellInit
    <3>2. p \in Pages /\ p \in Hashes
      BY DEF Pages, Hashes
    <3>3. Typed(calls)
      BY <3>1 DEF Entered, Typed, IsCalls, IsCall, Idle
    <3> QED  BY <1>2, <3>1, <3>2, <3>3, FreshType DEF Entered
  <2> QED  BY <2>1, <2>2
<1>4. /\ minted = token /\ scene \in Scenes /\ hashEvent \in BOOLEAN
      /\ bootError \in BOOLEAN /\ ticker = 0 /\ modal.kind = "none"
  BY DialogKind DEF Init, ShellInit
<1>5. minted \in 0..MaxTokens /\ ticker \in 0..MaxTickers
  BY <1>3, <1>4, TokensAssumption, FrameAssumption DEF Tokens, NoToken
<1>6. FrameInv
  BY <1>1, <1>3, <1>4, <1>5 DEF FrameInv, ShellTypeOK, DomSet, Hashes, Kinds
<1>7. DiagTypeOK
  BY DEF Init, DiagInit, DiagTypeOK
<1>8. DataTypeOK
  <2>1. 0 \in 0..MaxSamples /\ 0 \in 0..MaxSnapshots
    BY RecordsAssumption
  <2>2. kept \in Holding /\ shown \in Holding
    BY <2>1 DEF Init, DataInit, Holding
  <2> QED  BY <2>2 DEF Init, DataInit, DataTypeOK
<1> QED  BY <1>6, <1>7, <1>8 DEF TypeInv

LEMMA NextTypes ==
  ASSUME PageInv, TypeInv, [Next]_vars
  PROVE  TypeInv'
<1> USE DEF TypeInv, dataVars, busyVars, diagVars
<1>0. /\ UNCHANGED diagVars => DiagTypeOK'
      /\ UNCHANGED dataVars => DataTypeOK'
  BY DEF DiagTypeOK, DataTypeOK
<1>1. CASE UserStep
  BY <1>0, <1>1, ShellUserTypes, DiagUserTypes, DataUserTypes DEF UserStep
<1>2. CASE Event \/ Timer
  BY <1>0, <1>2, TimerTypes DEF Event, Timer
<1>3. ASSUME NEW s \in Slots, Resume(s) PROVE TypeInv'
  BY <1>0, <1>3, ShellResumeTypes, DiagResumeTypes, DataResumeTypes DEF Resume
<1>4. ASSUME NEW s \in Slots, Serve(s) PROVE TypeInv'
  BY <1>0, <1>4, ShellServeTypes, DiagServeTypes, DataServeTypes DEF Serve
<1>5. CASE Apart \/ UNCHANGED vars
  <2>1. UNCHANGED <<diagPage, dataVars>>
    BY <1>5 DEF Apart, vars
  <2>2. UNCHANGED <<token, sessions, minted, calls, scene, initialized, hash, hashEvent,
                    bootError, dom, ticker, modal, range>>
    BY <2>1 DEF diagPage, pageVars, apiVars, apiRest, shellVars, frame, still
  <2>3. FrameInv'
    BY <2>2 DEF FrameInv, ShellTypeOK, Typed, IsCalls, DomSet
  <2> QED  BY <1>0, <2>1, <2>3 DEF diagPage
<1>6. CASE OthersStep
  BY <1>0, <1>6, OthersTypes DEF OthersStep
<1> QED  BY <1>1, <1>2, <1>3, <1>4, <1>5, <1>6 DEF Next

LEMMA TypeInvariant == Spec => []TypeInv
<1>1. PageInv /\ TypeInv /\ [Next]_vars => TypeInv'
  BY NextTypes
<1> QED  BY <1>1, InitTypes, PageInvariant, PTL DEF Spec

\* Every variable of the page keeps its type, for any number of waiting
\* handlers and any answers; the answers have the form their handlers expect.
THEOREM SafeTypes == Spec => []TypeOK
<1>1. TypeInv /\ LanguageInv /\ ClipInv => TypeOK
  BY DEF TypeInv, FrameInv, LanguageInv, ClipInv, TypeOK
<1> QED  BY <1>1, TypeInvariant, LanguageInvariant, ClipInvariant, PTL

----------------------------------------------------------------------------
(* The copy of the data.  A handler is alone with its data as long as no    *)
(* other handler about them waits and nobody else changes them once it has  *)
(* an answer: so what its answers say stays true until it resumes.  A       *)
(* toggle need not be alone: who else switches takes away the trust, which  *)
(* only a load that no toggle waits beside gives back, and the answer to a  *)
(* toggle leaves the samples on show as they are.                           *)

HistoryWork  == {"history", "delete", "clear"}
LoadWork     == {"monitor", "sample", "sampleLoad"}
MonitorWork  == LoadWork \cup {"toggle"}
SnapshotWork == {"snapshots", "create"}
DataWork     == HistoryWork \cup MonitorWork \cup SnapshotWork

Groups       == {HistoryWork, LoadWork, MonitorWork, SnapshotWork}

Undisturbed(c) ==
  \A x, y \in Slots : x # y /\ c[x].op # "none" /\ c[x].alone => c[y].op \notin Kin(c[x].op)

\* If handler h has a good answer to request r, it says one of V.
Says(h, r, V) == r \in DOMAIN h.ans /\ h.ans[r].code = "ok" => h.ans[r].val \in V

\* What the answers of c say is so: k are the service's data, d the days.  That
\* of a toggle is, while the copy tr of the monitor is trusted.
StillTrue(c, k, d, tr) ==
  \A x \in Slots :
    /\ c[x].op = "history" /\ c[x].alone =>
         /\ Says(c[x], "diagHistory", FirstPage(k.diag))
         /\ Says(c[x], "fixHistory", {k.fix})
    /\ c[x].op \in Loads /\ c[x].alone =>
         /\ c[x].left = d
         /\ Says(c[x], "monitorQuality", {[days |-> d, on |-> k.on, samples |-> k.samples]})
    /\ c[x].op = "snapshots" /\ c[x].alone => Says(c[x], "snapshots", {k.snaps})
    /\ c[x].op = "toggle" /\ "monitor" \in tr => Says(c[x], "monitorEnabled", {k.on})

OneToggle(c, busy) ==
  /\ \A x \in Slots : c[x].op = "toggle" => busy
  /\ \A x, y \in Slots : c[x].op = "toggle" /\ c[y].op = "toggle" => x = y

Quiet(c, ops) == \A x \in Slots : c[x].op \notin ops

\* The page's copy w of k is true where it is trusted and nothing goes on.
Shows(c, k, w, d, tr) ==
  /\ "history" \in tr /\ Quiet(c, HistoryWork) =>
       w.diag \in FirstPage(k.diag) /\ w.fix = k.fix
  /\ "monitor" \in tr /\ Quiet(c, LoadWork) => w.samples = k.samples /\ w.days = d
  /\ "monitor" \in tr /\ Quiet(c, MonitorWork) => w.on = k.on
  /\ "snapshots" \in tr /\ Quiet(c, SnapshotWork) => w.snaps = k.snaps

\* Table c of handlers, beside the data as they are.
Rests(c) == /\ Undisturbed(c) /\ StillTrue(c, kept, range, trust)
            /\ OneToggle(c, toggling) /\ Shows(c, kept, shown, range, trust)

RestInv == Rests(calls)

LEMMA KinSets ==
  /\ \A op \in HistoryWork : Kin(op) = HistoryWork
  /\ \A op \in MonitorWork : Kin(op) = MonitorWork
  /\ \A op \in SnapshotWork : Kin(op) = SnapshotWork
  /\ \A op : op \notin DataWork => Kin(op) = {}
<1> USE DEF HistoryWork, LoadWork, MonitorWork, SnapshotWork, DataWork
<1>1. Topics = {HistoryWork, MonitorWork, SnapshotWork}
  BY DEF Topics
<1> HIDE DEF HistoryWork, MonitorWork, SnapshotWork
<1>2. \A op, x : x \in Kin(op) <=> \E g \in Topics : op \in g /\ x \in g
  BY DEF Kin
<1>3. \A op, x : x \in Kin(op) <=> (\/ (op \in HistoryWork /\ x \in HistoryWork)
                                   \/ (op \in MonitorWork /\ x \in MonitorWork)
                                   \/ (op \in SnapshotWork /\ x \in SnapshotWork))
  BY <1>1, <1>2
<1>4. /\ \A op \in HistoryWork : op \notin MonitorWork \cup SnapshotWork
      /\ \A op \in MonitorWork : op \notin HistoryWork \cup SnapshotWork
      /\ \A op \in SnapshotWork : op \notin HistoryWork \cup MonitorWork
  BY DEF HistoryWork, MonitorWork, SnapshotWork
<1> HIDE DEF LoadWork
<1> QED  BY <1>3, <1>4

LEMMA KinBoth == \A a, b : a \in Kin(b) <=> b \in Kin(a)
BY DEF Kin

\* A handler that begins, in a slot whose handler has returned or leads to it.
LEMMA BegunUndisturbed ==
  ASSUME NEW c, NEW d, NEW s \in Slots, NEW op, NEW left, Begun(c, d, s, op, left),
         Undisturbed(c)
  PROVE  Undisturbed(d)
<1> SUFFICES ASSUME NEW x \in Slots, NEW y \in Slots, x # y, d[x].op # "none", d[x].alone
             PROVE  d[y].op \notin Kin(d[x].op)
  BY DEF Undisturbed
<1>1. CASE x = s
  <2>1. c[y].op \notin Kin(op) /\ d[x].op = op
    BY <1>1 DEF Begun
  <2>2. d[y].op = c[y].op
    BY <1>1, <2>1 DEF Begun
  <2> QED  BY <2>1, <2>2
<1>2. CASE x # s
  <2>1. c[x].op \notin Kin(op) /\ d[x] = c[x]
    BY <1>2 DEF Begun
  <2>2. CASE y = s
    <3>1. d[y].op = op
      BY <2>2 DEF Begun
    <3> QED  BY <2>1, <3>1, KinBoth
  <2>3. CASE y # s
    <3>1. d[y].op = c[y].op
      BY <2>3 DEF Begun
    <3> QED  BY <2>1, <3>1 DEF Undisturbed
  <2> QED  BY <2>2, <2>3
<1> QED  BY <1>1, <1>2

LEMMA BegunStillTrue ==
  ASSUME NEW c, NEW d, NEW s \in Slots, NEW op, NEW left, Begun(c, d, s, op, left),
         NEW k, NEW was, NEW days, NEW tr, StillTrue(c, k, was, tr),
         days = was \/ op = "monitor", op \in Loads => left = days
  PROVE  StillTrue(d, k, days, tr)
<1> SUFFICES ASSUME NEW x \in Slots
             PROVE  /\ d[x].op = "history" /\ d[x].alone =>
                         /\ Says(d[x], "diagHistory", FirstPage(k.diag))
                         /\ Says(d[x], "fixHistory", {k.fix})
                    /\ d[x].op \in Loads /\ d[x].alone =>
                         /\ d[x].left = days
                         /\ Says(d[x], "monitorQuality",
                                 {[days |-> days, on |-> k.on, samples |-> k.samples]})
                    /\ d[x].op = "snapshots" /\ d[x].alone => Says(d[x], "snapshots", {k.snaps})
                    /\ d[x].op = "toggle" /\ "monitor" \in tr =>
                         Says(d[x], "monitorEnabled", {k.on})
  BY DEF StillTrue
<1>1. CASE x = s
  <2>1. d[x].op = op /\ d[x].left = left /\ d[x].ans = <<>>
    BY <1>1 DEF Begun
  <2>2. \A r, V : Says(d[x], r, V)
    BY <2>1 DEF Says
  <2> QED  BY <2>1, <2>2
<1>2. CASE x # s /\ c[x].op \in Kin(op)
  <2>1. d[x].op = c[x].op /\ d[x].ans = c[x].ans /\ ~d[x].alone
    BY <1>2 DEF Begun
  <2> QED  BY <2>1 DEF StillTrue, Says
<1>3. CASE x # s /\ c[x].op \notin Kin(op)
  <2>1. d[x] = c[x]
    BY <1>3 DEF Begun
  <2>2. op = "monitor" => c[x].op \notin Loads
    BY <1>3, KinSets DEF MonitorWork, LoadWork, Loads
  <2> QED  BY <2>1, <2>2 DEF StillTrue
<1> QED  BY <1>1, <1>2, <1>3

LEMMA BegunOps ==
  ASSUME NEW c, NEW d, NEW s, NEW op, NEW left, Begun(c, d, s, op, left)
  PROVE  \A x \in Slots : d[x].op = IF x = s THEN op ELSE c[x].op
BY DEF Begun

\* The copy stays as true as it was while no handler about the data is lost.
LEMMA ShowsStay ==
  ASSUME NEW c, NEW d, NEW k, NEW w, NEW days, NEW tr, NEW tr1,
         Shows(c, k, w, days, tr), tr1 \subseteq tr,
         \A g \in Groups : Quiet(d, g) => Quiet(c, g)
  PROVE  Shows(d, k, w, days, tr1)
BY DEF Shows, Groups

\* Slot s goes on with the same data, or begins with some.
LEMMA BegunQuiet ==
  ASSUME NEW c, NEW d, NEW s \in Slots, NEW op, NEW left, Begun(c, d, s, op, left),
         \A g \in Groups : c[s].op \in g => op \in g
  PROVE  \A g \in Groups : Quiet(d, g) => Quiet(c, g)
<1>1. \A x \in Slots : d[x].op = IF x = s THEN op ELSE c[x].op
  BY BegunOps
<1> QED  BY <1>1 DEF Quiet

LEMMA NoGroup == \A op : op \notin DataWork => \A g \in Groups : op \notin g
BY DEF DataWork, Groups, MonitorWork

\* A handler begins in a free slot, or in that of one it continues.
LEMMA BeginRests ==
  ASSUME NEW c, Typed(c), Rests(c), NEW s \in Slots,
         NEW op, NEW arg, NEW left, NEW tk, op \notin {"none", "toggle"},
         \A g \in Groups : c[s].op \in g => op \in g,
         FitCall(op, arg, left), op \in Loads => left = range
  PROVE  Typed(Begin(c, s, op, arg, left, tk)) /\ Rests(Begin(c, s, op, arg, left, tk))
<1> DEFINE d == Begin(c, s, op, arg, left, tk)
<1>1. Typed(d) /\ Begun(c, d, s, op, left)
  BY BeginCall
<1> HIDE DEF d
<1>2. \A x \in Slots : d[x].op = IF x = s THEN op ELSE c[x].op
  BY <1>1, BegunOps
<1>3. Undisturbed(d) /\ StillTrue(d, kept, range, trust)
  BY <1>1, BegunUndisturbed, BegunStillTrue DEF Rests
<1>4. OneToggle(d, toggling)
  BY <1>2 DEF Rests, OneToggle
<1>5. Shows(d, kept, shown, range, trust)
  BY <1>1, BegunQuiet, ShowsStay DEF Rests
<1> QED  BY <1>1, <1>3, <1>4, <1>5 DEF Rests, d

LEMMA IdleNone == Idle.op = "none" /\ "none" \notin DataWork /\ "none" \notin Loads
BY DEF Idle, DataWork, HistoryWork, MonitorWork, LoadWork, SnapshotWork, Loads

\* The handler in slot s returns.
LEMMA EndKeeps ==
  ASSUME Typed(calls), RestInv, NEW s \in Slots
  PROVE  /\ Undisturbed(End(s)) /\ StillTrue(End(s), kept, range, trust)
         /\ OneToggle(End(s), toggling)
         /\ calls[s].op = "toggle" => OneToggle(End(s), FALSE)
<1> DEFINE d == End(s)
<1>1. \A x \in Slots : d[x] = IF x = s THEN Idle ELSE calls[x]
  BY EndCall
<1> HIDE DEF d
<1>2. Undisturbed(d)
  BY <1>1, IdleNone, KinOfNone DEF Undisturbed, RestInv, Rests
<1>3. StillTrue(d, kept, range, trust)
  <2>1. ASSUME NEW x \in Slots, x = s
        PROVE  d[x].op = "none"
    BY <1>1, <2>1, IdleNone
  <2>2. ASSUME NEW x \in Slots, x # s
        PROVE  d[x] = calls[x]
    BY <1>1, <2>2
  <2> QED  BY <2>1, <2>2, IdleNone DEF StillTrue, RestInv, Rests
<1>4. OneToggle(d, toggling) /\ (calls[s].op = "toggle" => OneToggle(d, FALSE))
  BY <1>1, IdleNone DEF OneToggle, RestInv, Rests
<1> QED  BY <1>2, <1>3, <1>4 DEF d

LEMMA EndQuiet ==
  ASSUME Typed(calls), NEW s \in Slots, NEW ops, calls[s].op \notin ops, Quiet(End(s), ops)
  PROVE  Quiet(calls, ops)
<1>1. \A x \in Slots : x # s => End(s)[x] = calls[x]
  BY EndCall
<1> QED  BY <1>1 DEF Quiet

LEMMA EndRests ==
  ASSUME Typed(calls), RestInv, NEW s \in Slots, calls[s].op \notin DataWork
  PROVE  Typed(End(s)) /\ Rests(End(s))
<1>1. \A g \in Groups : Quiet(End(s), g) => Quiet(calls, g)
  BY NoGroup, EndQuiet
<1>2. Shows(End(s), kept, shown, range, trust)
  BY <1>1, ShowsStay DEF RestInv, Rests
<1> QED  BY <1>2, EndCall, EndKeeps DEF Rests

----------------------------------------------------------------------------
(* Steps that leave the data, and what is known of them, alone *)

LEMMA FreeOps == \A c, s : s \in Free(c) => s \in Slots /\ c[s].op \notin DataWork
BY IdleNone DEF Free

LEMMA RouteRests ==
  ASSUME NEW c, Typed(c), Rests(c), range \in Ranges, NEW tk, NEW h, Route(c, tk, h)
  PROVE  Rests(calls')
<1>1. CASE calls' = c
  BY <1>1
<1>2. CASE /\ h \in Loading /\ Free(c) # {}
           /\ calls' = Begin(c, CHOOSE s \in Free(c) : TRUE, h, "none", range, tk)
  <2> DEFINE s == CHOOSE x \in Free(c) : TRUE
  <2>1. s \in Slots /\ c[s].op \notin DataWork
    BY <1>2, FreeOps
  <2> HIDE DEF s
  <2>2. h \notin {"none", "toggle"} /\ FitCall(h, "none", range)
    BY <1>2 DEF Loading, FitCall
  <2>3. Rests(Begin(c, s, h, "none", range, tk))
    BY <2>1, <2>2, BeginRests, NoGroup
  <2> QED  BY <1>2, <2>3 DEF s
<1> QED  BY <1>1, <1>2 DEF Route

LEMMA NavRests ==
  ASSUME NEW c, Typed(c), Rests(c), range \in Ranges, NEW tk, NEW p, NEW d, Nav(c, tk, p, d)
  PROVE  Rests(calls')
<1> DEFINE target == IF tk = NoToken /\ p \notin Public THEN "login" ELSE p
<1>1. CASE hash = target
  BY <1>1, RouteRests DEF Nav
<1>2. CASE hash # target
  BY <1>2 DEF Nav
<1> QED  BY <1>1, <1>2

LEMMA SendRests ==
  ASSUME Typed(calls), RestInv, NEW op, NEW arg, Send(op, arg),
         op \notin Loads \cup {"none", "toggle"}, op = "fix" => arg \in Checks
  PROVE  Rests(calls')
<1> DEFINE s == CHOOSE x \in Free(calls) : TRUE
<1>1. s \in Slots /\ calls[s].op \notin DataWork
  BY FreeOps DEF Send
<1>2. calls' = Begin(calls, s, op, arg, 0, token)
  BY DEF Send
<1> HIDE DEF s
<1> QED  BY <1>1, <1>2, BeginRests, NoGroup DEF FitCall, RestInv

LEMMA RestStep ==
  ASSUME Rests(calls'), UNCHANGED <<kept, shown, range, trust, toggling>>
  PROVE  RestInv'
BY DEF RestInv, Rests

LEMMA StillRest ==
  ASSUME RestInv, UNCHANGED <<calls, kept, shown, range, trust, toggling>>
  PROVE  RestInv'
BY DEF RestInv, Rests

\* What a good answer to request r of handler h must say of the data k.
Right(h, r, v, k) ==
  /\ r = "diagHistory" => v \in FirstPage(k.diag)
  /\ r = "fixHistory" => v = k.fix
  /\ r = "monitorQuality" => v = [days |-> h.left, on |-> k.on, samples |-> k.samples]
  /\ r = "monitorEnabled" => v = k.on
  /\ r = "snapshots" => v = k.snaps

Reads == {"diagHistory", "fixHistory", "monitorQuality", "monitorEnabled", "snapshots"}

\* The service answers a handler that waits in op, and its data become k.
Changes(op, k) ==
  /\ op \notin {"delete", "clear"} => k.diag = kept.diag /\ k.fix = kept.fix
  /\ op # "toggle" => k.on = kept.on
  /\ op # "sample" => k.samples = kept.samples
  /\ op # "create" => k.snaps = kept.snaps

LEMMA AnswerUndisturbed ==
  ASSUME RestInv, NEW s \in Slots, NEW r, NEW code1, NEW val, Replied(s, r, code1, val)
  PROVE  Undisturbed(calls') /\ OneToggle(calls', toggling)
<1>1. \A x \in Slots : calls'[x].op = calls[x].op /\ calls'[x].alone = calls[x].alone
  BY DEF Replied
<1> QED  BY <1>1 DEF RestInv, Rests, Undisturbed, OneToggle

\* What the answers said of the data stays true, for whom they are told.
LEMMA AnswerStillTrue ==
  ASSUME RestInv, NEW s \in Slots, NEW r, NEW code1, NEW val, Replied(s, r, code1, val),
         NEW k, Changes(calls[s].op, k), code1 = "ok" => Right(calls[s], r, val, k)
  PROVE  StillTrue(calls', k, range, trust)
<1>1. \A x \in Slots : /\ calls'[x].op = calls[x].op /\ calls'[x].left = calls[x].left
                       /\ calls'[x].alone = calls[x].alone
  BY DEF Replied
<1>2. ASSUME NEW x \in Slots, NEW q, NEW V, Says(calls[x], q, V),
             x = s /\ q = r /\ code1 = "ok" => val \in V
      PROVE  Says(calls'[x], q, V)
  <2>1. CASE x # s
    BY <1>2, <2>1 DEF Replied
  <2>2. CASE x = s /\ q = r
    <3>1. calls'[x].ans[q] = [code |-> code1, val |-> val]
      BY <2>2 DEF Replied
    <3>2. calls'[x].ans[q].code = code1 /\ calls'[x].ans[q].val = val
      BY <3>1
    <3> QED  BY <1>2, <2>2, <3>2 DEF Says
  <2>3. CASE x = s /\ q # r
    <3>1. q \in DOMAIN calls'[x].ans => /\ q \in DOMAIN calls[x].ans
                                        /\ calls'[x].ans[q] = calls[x].ans[q]
      BY <2>3 DEF Replied
    <3> QED  BY <1>2, <3>1 DEF Says
  <2> QED  BY <2>1, <2>2, <2>3
<1>3. ASSUME NEW x \in Slots, calls[x].op # "none", calls[x].alone, x # s
      PROVE  calls[s].op \notin Kin(calls[x].op)
  BY <1>3 DEF RestInv, Rests, Undisturbed
<1> SUFFICES ASSUME NEW x \in Slots
             PROVE  LET h == calls'[x]
                    IN /\ h.op = "history" /\ h.alone =>
                            /\ Says(h, "diagHistory", FirstPage(k.diag))
                            /\ Says(h, "fixHistory", {k.fix})
                       /\ h.op \in Loads /\ h.alone =>
                            /\ h.left = range
                            /\ Says(h, "monitorQuality",
                                    {[days |-> range, on |-> k.on, samples |-> k.samples]})
                       /\ h.op = "snapshots" /\ h.alone => Says(h, "snapshots", {k.snaps})
                       /\ h.op = "toggle" /\ "monitor" \in trust =>
                            Says(h, "monitorEnabled", {k.on})
  BY DEF StillTrue
<1>4. CASE calls[x].op = "history" /\ calls[x].alone
  <2>1. calls[s].op \notin {"delete", "clear"}
    BY <1>3, <1>4, KinSets DEF HistoryWork
  <2>2. k.diag = kept.diag /\ k.fix = kept.fix
    BY <2>1 DEF Changes
  <2>3. Says(calls[x], "diagHistory", FirstPage(k.diag)) /\ Says(calls[x], "fixHistory", {k.fix})
    BY <1>4, <2>2 DEF RestInv, Rests, StillTrue
  <2>4. Says(calls'[x], "diagHistory", FirstPage(k.diag)) /\ Says(calls'[x], "fixHistory", {k.fix})
    BY <1>2, <2>3 DEF Right
  <2> QED  BY <1>1, <1>4, <2>4 DEF Loads
<1>5. CASE calls[x].op \in Loads /\ calls[x].alone
  <2>1. calls[s].op \notin {"toggle", "sample"}
    BY <1>3, <1>5, KinSets DEF MonitorWork, LoadWork, Loads
  <2>2. k.on = kept.on /\ k.samples = kept.samples
    BY <2>1 DEF Changes
  <2> DEFINE v == [days |-> range, on |-> k.on, samples |-> k.samples]
  <2>3. Says(calls[x], "monitorQuality", {v}) /\ calls[x].left = range
    BY <1>5, <2>2 DEF RestInv, Rests, StillTrue
  <2>4. x = s /\ "monitorQuality" = r /\ code1 = "ok" => val \in {v}
    BY <2>3 DEF Right
  <2> HIDE DEF v
  <2>5. Says(calls'[x], "monitorQuality", {v})
    BY <1>2, <2>3, <2>4
  <2> QED  BY <1>1, <1>5, <2>3, <2>5 DEF Loads, v
<1>6. CASE calls[x].op = "snapshots" /\ calls[x].alone
  <2>1. calls[s].op # "create"
    BY <1>3, <1>6, KinSets DEF SnapshotWork
  <2>2. Says(calls[x], "snapshots", {k.snaps})
    BY <1>6, <2>1 DEF RestInv, Rests, StillTrue, Changes
  <2>3. Says(calls'[x], "snapshots", {k.snaps})
    BY <1>2, <2>2 DEF Right
  <2> QED  BY <1>1, <1>6, <2>3 DEF Loads
<1>7. CASE calls[x].op = "toggle" /\ "monitor" \in trust
  <2>1. Says(calls[x], "monitorEnabled", {kept.on})
    BY <1>7 DEF RestInv, Rests, StillTrue
  <2>2. CASE x = s
    <3>1. r = "monitorEnabled"
      BY <1>7, <2>2 DEF Replied, Asks
    <3>2. calls'[x].ans[r] = [code |-> code1, val |-> val]
      BY <2>2 DEF Replied
    <3>3. calls'[x].ans[r].code = code1 /\ calls'[x].ans[r].val = val
      BY <3>2
    <3>4. Says(calls'[x], "monitorEnabled", {k.on})
      BY <3>1, <3>3 DEF Says, Right
    <3> QED  BY <1>1, <1>7, <3>4 DEF Loads
  <2>3. CASE x # s
    <3>1. calls[s].op # "toggle"
      BY <1>7, <2>3 DEF RestInv, Rests, OneToggle
    <3>2. Says(calls'[x], "monitorEnabled", {k.on})
      BY <1>2, <2>1, <2>3, <3>1 DEF Changes
    <3> QED  BY <1>1, <1>7, <3>2 DEF Loads
  <2> QED  BY <2>2, <2>3
<1>8. CASE /\ ~(calls[x].alone /\ calls[x].op \in Loads \cup {"history", "snapshots"})
           /\ ~(calls[x].op = "toggle" /\ "monitor" \in trust)
  BY <1>1, <1>8
<1> QED  BY <1>4, <1>5, <1>6, <1>7, <1>8

\* Whose data change waits: while he does, nothing is said of the copy.
LEMMA AnswerShows ==
  ASSUME RestInv, NEW s \in Slots, NEW r, NEW code1, NEW val, Replied(s, r, code1, val),
         NEW k, Changes(calls[s].op, k)
  PROVE  Shows(calls', k, shown, range, trust)
<1>1. \A x \in Slots : calls'[x].op = calls[x].op
  BY DEF Replied
<1>2. \A g : Quiet(calls', g) => Quiet(calls, g) /\ calls[s].op \notin g
  BY <1>1 DEF Quiet
<1>3. /\ calls[s].op \notin HistoryWork => k.diag = kept.diag /\ k.fix = kept.fix
      /\ calls[s].op \notin LoadWork => k.samples = kept.samples
      /\ calls[s].op \notin MonitorWork => k.on = kept.on
      /\ calls[s].op \notin SnapshotWork => k.snaps = kept.snaps
  BY DEF Changes, HistoryWork, LoadWork, MonitorWork, SnapshotWork
<1> QED  BY <1>2, <1>3 DEF RestInv, Rests, Shows

LEMMA AnswerRests ==
  ASSUME Typed(calls), RestInv, NEW s \in Slots, calls[s] # Idle,
         NEW r, NEW code1, NEW val, Reply(s, r, code1, val),
         Changes(calls[s].op, kept'), code1 = "ok" => Right(calls[s], r, val, kept'),
         UNCHANGED <<shown, range, trust, toggling>>
  PROVE  RestInv'
<1>1. Replied(s, r, code1, val)
  BY ReplyTells
<1>2. /\ Undisturbed(calls') /\ OneToggle(calls', toggling)
      /\ StillTrue(calls', kept', range, trust) /\ Shows(calls', kept', shown, range, trust)
  BY <1>1, AnswerUndisturbed, AnswerStillTrue, AnswerShows
<1> QED  BY <1>2 DEF RestInv, Rests

\* An answer about something else, or a refusal.
LEMMA ReplyRest ==
  ASSUME Typed(calls), RestInv, NEW s \in Slots, calls[s] # Idle, NEW r, NEW code1, NEW val,
         Reply(s, r, code1, val), code1 # "ok" \/ r \notin Reads
  PROVE  Rests(calls')
<1>1. Replied(s, r, code1, val)
  BY ReplyTells
<1>2. Changes(calls[s].op, kept) /\ (code1 = "ok" => Right(calls[s], r, val, kept))
  BY DEF Changes, Right, Reads
<1> QED  BY <1>1, <1>2, AnswerUndisturbed, AnswerStillTrue, AnswerShows DEF Rests

LEMMA ShellUserRests ==
  ASSUME FrameInv, RestInv, ShellUser, UNCHANGED dataVars
  PROVE  RestInv'
<1> USE FrameParts DEF still, frame, shellVars, apiRest, apiVars, dataVars, busyVars
<1>1. CASE EditHash \/ CloseModal \/ RequestLogout
  BY <1>1, StillRest DEF EditHash, CloseModal, RequestLogout
<1>2. CASE Click \/ Continue
  <2>1. \E p : Nav(calls, token, p, dom) /\ UNCHANGED range
    BY <1>2 DEF Click, Continue
  <2> QED  BY <2>1, NavRests, RestStep DEF RestInv
<1>3. CASE RetryBoot \/ Refresh \/ LoginStart \/ LogoutStart \/ InitStart \/ RecoverStart
  <2>1. \E op \in {"boot", "dash", "login", "logout", "setup", "recover"} :
          Send(op, "none") /\ UNCHANGED range
    BY <1>3 DEF RetryBoot, Refresh, LoginStart, LogoutStart, InitStart, RecoverStart
  <2> QED  BY <2>1, SendRests, RestStep DEF Loads
<1> QED  BY <1>1, <1>2, <1>3 DEF ShellUser

LEMMA TimerRests ==
  ASSUME FrameInv, RestInv, ShellTimers \/ HashChange, UNCHANGED dataVars
  PROVE  RestInv'
<1> USE FrameParts DEF still, frame, shellVars, apiRest, apiVars, dataVars, busyVars
<1>1. CASE HashChange
  <2>1. Route(calls, token, hash) /\ UNCHANGED range
    BY <1>1 DEF HashChange
  <2> QED  BY <2>1, RouteRests, RestStep DEF RestInv
<1>2. CASE ShellTimers
  BY <1>2, StillRest DEF ShellTimers, TickEnd, TickOver, TickOn
<1> QED  BY <1>1, <1>2

LEMMA ShellResumeRests ==
  ASSUME FrameInv, RestInv, NEW s \in Slots, ShellResume(s), UNCHANGED dataVars
  PROVE  RestInv'
<1> USE FrameParts DEF still, frame, shellVars, apiRest, apiVars, dataVars, busyVars
<1>1. calls[s].op \notin DataWork /\ UNCHANGED range
  BY DEF ShellResume, BootStatus, Dashboard, Interfaces, LoginEnd, LogoutEnd, CodeShown,
         Answered, DataWork, HistoryWork, MonitorWork, LoadWork, SnapshotWork
<1>2. Typed(End(s)) /\ Rests(End(s))
  BY <1>1, EndRests
<1>3. ASSUME NEW op \in {"bootDash", "dash"}, NEW tk
      PROVE  /\ Typed(Begin(calls, s, op, "none", 0, tk))
             /\ Rests(Begin(calls, s, op, "none", 0, tk))
  BY <1>1, BeginRests, NoGroup DEF FitCall, Loads, RestInv
<1>4. CASE BootStatus(s) \/ Dashboard(s) \/ Interfaces(s) \/ CodeShown(s)
  <2>1. calls' = End(s) \/ \E tk : calls' = Begin(calls, s, "bootDash", "none", 0, tk)
    BY <1>4 DEF BootStatus, Dashboard, Interfaces, CodeShown
  <2> QED  BY <1>1, <1>2, <1>3, <2>1, RestStep
<1>5. CASE LoginEnd(s)
  <2>1. \/ calls' = End(s)
        \/ \E tk, d : Nav(Begin(calls, s, "dash", "none", 0, tk), tk, "dashboard", d)
    BY <1>5 DEF LoginEnd
  <2> QED  BY <1>1, <1>2, <1>3, <2>1, NavRests, RestStep
<1>6. CASE LogoutEnd(s)
  BY <1>1, <1>2, <1>6, NavRests, RestStep DEF LogoutEnd
<1> QED  BY <1>4, <1>5, <1>6 DEF ShellResume

LEMMA ShellServeRests ==
  ASSUME FrameInv, RestInv, NEW s \in Slots, calls[s] # Idle, ShellServe(s), UNCHANGED dataVars
  PROVE  RestInv'
<1> USE FrameParts DEF still, frame, shellVars, apiRest, apiVars, dataVars, busyVars
<1>1. UNCHANGED range
  BY DEF ShellServe
<1>2. ASSUME NEW r, NEW code1, NEW val, Reply(s, r, code1, val),
             code1 # "ok" \/ r \notin Reads
      PROVE  Rests(calls')
  BY <1>2, ReplyRest
<1>3. \E r, code1, val : Reply(s, r, code1, val) /\ (code1 # "ok" \/ r \notin Reads)
  BY DEF ShellServe, ServeSetup, ServeStatus, ServeRead, ServeLogin, ServeLocked, ServeLogout,
         ServeRecover, Refuse, Reads
<1> QED  BY <1>1, <1>2, <1>3, RestStep

LEMMA DiagRests ==
  ASSUME FrameInv, DiagTypeOK, RestInv, UNCHANGED dataVars,
         \/ DiagUser
         \/ \E s \in Slots : DiagResume(s)
         \/ \E s \in Slots : calls[s] # Idle /\ ServeDiag(s) /\ UNCHANGED shellVars
  PROVE  RestInv'
<1> USE FrameParts DEF still, frame, shellVars, apiRest, apiVars, dataVars, busyVars
<1>1. CASE OpenFix \/ OpenInfo \/ CloseFix
  BY <1>1, StillRest DEF OpenFix, OpenInfo, CloseFix
<1>2. CASE RunDiag \/ Scan
  <2>1. \E op \in {"diagPost", "ifaces"} : Send(op, "none") /\ UNCHANGED range
    BY <1>2 DEF RunDiag, Scan
  <2> QED  BY <2>1, SendRests, RestStep DEF Loads
<1>3. CASE FixStart
  <2>1. fixCtx # NoFix
    BY <1>3 DEF FixStart, NoFix
  <2>2. fixCtx.check \in Checks
    BY <2>1, FixTypes
  <2> QED  BY <1>3, <2>2, SendRests, RestStep DEF FixStart, Loads
<1>4. CASE RunDiagFromDash
  <2> DEFINE s == CHOOSE x \in Free(calls) : TRUE
  <2>1. s \in Slots /\ calls[s].op \notin DataWork /\ UNCHANGED range
    BY <1>4, FreeOps DEF RunDiagFromDash
  <2>2. \E d : Nav(Begin(calls, s, "diagPost", "none", 0, token), token, "diagnose", d)
    BY <1>4 DEF RunDiagFromDash
  <2> HIDE DEF s
  <2>3. /\ Typed(Begin(calls, s, "diagPost", "none", 0, token))
        /\ Rests(Begin(calls, s, "diagPost", "none", 0, token))
    BY <2>1, BeginRests, NoGroup DEF FitCall, Loads, RestInv
  <2> QED  BY <2>1, <2>2, <2>3, NavRests, RestStep
<1>5. ASSUME NEW s \in Slots, DiagResume(s)
      PROVE  RestInv'
  <2>1. calls[s].op \notin DataWork /\ UNCHANGED range
    BY <1>5 DEF DiagResume, DiagPosted, DiagPoll, DiagPolled, FixEnd,
       Answered, DataWork, HistoryWork, MonitorWork, LoadWork, SnapshotWork
  <2>2. \/ calls' = End(s)
        \/ \E op \in {"diagWait", "diagPoll", "ifaces"} : \E left :
             calls' = Begin(calls, s, op, "none", left, token)
    BY <1>5 DEF DiagResume, DiagPosted, DiagPoll, DiagPolled, FixEnd
  <2>3. ASSUME NEW op \in {"diagWait", "diagPoll", "ifaces"}, NEW left
        PROVE  Rests(Begin(calls, s, op, "none", left, token))
    BY <2>1, BeginRests, NoGroup DEF FitCall, Loads, RestInv
  <2> QED  BY <2>1, <2>2, <2>3, EndRests, RestStep
<1>6. ASSUME NEW s \in Slots, calls[s] # Idle, ServeDiag(s), UNCHANGED shellVars
      PROVE  RestInv'
  <2>1. \E r \in {"diagRun", "diagReport", "fix"} : \E code1, v : Reply(s, r, code1, v)
    BY <1>6 DEF ServeDiag
  <2> QED  BY <1>6, <2>1, ReplyRest, RestStep DEF Reads
<1> QED  BY <1>1, <1>2, <1>3, <1>4, <1>5, <1>6 DEF DiagUser

----------------------------------------------------------------------------
(* Steps of the pages that show the data *)

LEMMA GroupsThere == /\ HistoryWork \in Groups /\ LoadWork \in Groups
                     /\ MonitorWork \in Groups /\ SnapshotWork \in Groups
BY DEF Groups

LEMMA DataUserRests ==
  ASSUME FrameInv, DataTypeOK, RestInv, DataUser
  PROVE  RestInv'
<1> USE FrameParts DEF still, frame, shellVars, apiRest, apiVars, dataVars, busyVars
<1>1. CASE RequestDelete \/ RequestClear
  BY <1>1, StillRest DEF RequestDelete, RequestClear
<1>2. CASE \/ DeleteStart \/ ClearStart \/ SampleStart
           \/ CreateStart \/ DiffStart \/ AskStart \/ ToolStart
  <2>1. /\ \E op \in {"delete", "clear", "sample", "create", "diff", "ask", "tool"} :
             \E arg : Send(op, arg)
        /\ UNCHANGED <<kept, shown, range, trust, toggling>>
    BY <1>2 DEF DeleteStart, ClearStart, SampleStart, CreateStart, DiffStart, AskStart,
                ToolStart
  <2> QED  BY <2>1, SendRests, RestStep DEF Loads
<1>3. CASE ToggleStart
  <2>1. /\ ~toggling /\ toggling' = TRUE /\ UNCHANGED <<kept, shown, range, trust>>
        /\ \E arg : Send("toggle", arg)
    BY <1>3 DEF ToggleStart
  <2>2. PICK s \in Free(calls) : Begun(calls, calls', s, "toggle", 0)
    BY <2>1, SendCall DEF Loads
  <2>3. s \in Slots /\ \A g \in Groups : calls[s].op \notin g
    BY FreeOps, NoGroup
  <2>4. Undisturbed(calls') /\ StillTrue(calls', kept, range, trust)
    BY <2>2, <2>3, BegunUndisturbed, BegunStillTrue DEF RestInv, Rests, Loads
  <2>5. OneToggle(calls', TRUE)
    <3>1. \A x \in Slots : calls'[x].op = IF x = s THEN "toggle" ELSE calls[x].op
      BY <2>2, BegunOps
    <3>2. \A x \in Slots : calls[x].op # "toggle"
      BY <2>1 DEF RestInv, Rests, OneToggle
    <3> QED  BY <3>1, <3>2 DEF OneToggle
  <2>6. Shows(calls', kept, shown, range, trust)
    BY <2>2, <2>3, BegunQuiet, ShowsStay DEF RestInv, Rests
  <2> QED  BY <2>1, <2>4, <2>5, <2>6 DEF RestInv, Rests
<1>4. CASE SetRange
  <2> DEFINE s == CHOOSE x \in Free(calls) : TRUE
  <2>1. /\ s \in Slots /\ \A g \in Groups : calls[s].op \notin g
        /\ range' \in Ranges /\ UNCHANGED <<kept, shown, trust, toggling>>
    BY <1>4, FreeOps, NoGroup DEF SetRange
  <2>2. calls' = Begin(calls, s, "monitor", "none", range', token)
    BY <1>4 DEF SetRange
  <2> HIDE DEF s
  <2>3. Begun(calls, calls', s, "monitor", range')
    BY <2>1, <2>2, BeginCall DEF FitCall
  <2>4. Undisturbed(calls') /\ StillTrue(calls', kept, range', trust)
    BY <2>1, <2>3, BegunUndisturbed, BegunStillTrue DEF RestInv, Rests
  <2>5. \A x \in Slots : calls'[x].op = IF x = s THEN "monitor" ELSE calls[x].op
    BY <2>3, BegunOps
  <2>6. OneToggle(calls', toggling)
    BY <2>5 DEF RestInv, Rests, OneToggle
  <2>7. Shows(calls', kept, shown, range', trust)
    <3>1. ~Quiet(calls', LoadWork) /\ ~Quiet(calls', MonitorWork)
      BY <2>1, <2>5 DEF Quiet, LoadWork, MonitorWork
    <3>2. \A g \in Groups : Quiet(calls', g) => Quiet(calls, g)
      BY <2>1, <2>3, BegunQuiet
    <3> QED  BY <3>1, <3>2, GroupsThere DEF RestInv, Rests, Shows
  <2> QED  BY <2>1, <2>4, <2>6, <2>7 DEF RestInv, Rests
<1> QED  BY <1>1, <1>2, <1>3, <1>4 DEF DataUser

\* A handler ends; the copy w and the trust tr that it leaves are checked
\* topic by topic.
LEMMA EndStepRests ==
  ASSUME Typed(calls), RestInv, NEW s \in Slots, calls' = End(s),
         UNCHANGED <<kept, range>>,
         UNCHANGED toggling \/ (calls[s].op = "toggle" /\ toggling' = FALSE),
         "monitor" \in trust' => "monitor" \in trust \/ Quiet(End(s), {"toggle"}),
         Shows(End(s), kept, shown', range, trust')
  PROVE  RestInv'
<1>1. /\ Undisturbed(End(s)) /\ StillTrue(End(s), kept, range, trust)
      /\ OneToggle(End(s), toggling')
  BY EndKeeps DEF RestInv, Rests
<1>2. StillTrue(End(s), kept, range, trust')
  <2> DEFINE d == End(s)
  <2> HIDE DEF d
  <2>1. StillTrue(d, kept, range, trust) /\ ("monitor" \in trust' => "monitor" \in trust \/ Quiet(d, {"toggle"}))
    BY <1>1 DEF d
  <2>2. StillTrue(d, kept, range, trust')
    BY <2>1 DEF StillTrue, Quiet
  <2> QED  BY <2>2 DEF d
<1> QED  BY <1>1, <1>2 DEF RestInv, Rests

\* The handler in slot s begins to load what it has changed.
LEMMA LeadsRests ==
  ASSUME Typed(calls), RestInv, NEW s \in Slots,
         NEW op, NEW left, NEW tk, op \notin {"none", "toggle"},
         \A g \in Groups : calls[s].op \in g => op \in g,
         FitCall(op, "none", left), op \in Loads => left = range,
         calls' = Begin(calls, s, op, "none", left, tk),
         UNCHANGED <<kept, shown, range, toggling>>, trust' \subseteq trust
  PROVE  RestInv'
<1>1. Rests(calls')
  BY BeginRests DEF RestInv
<1>2. Shows(calls', kept, shown, range, trust')
  BY <1>1, ShowsStay DEF Rests
<1>3. StillTrue(calls', kept, range, trust')
  BY <1>1 DEF Rests, StillTrue
<1> QED  BY <1>1, <1>2, <1>3 DEF RestInv, Rests

LEMMA HistoryResumeRests ==
  ASSUME FrameInv, DataTypeOK, RestInv, NEW s \in Slots,
         HistoryLoaded(s) \/ DeleteEnd(s) \/ ClearEnd(s)
  PROVE  RestInv'
<1> USE FrameParts DEF still, frame, busyVars
<1>1. /\ calls[s].op \in HistoryWork /\ UNCHANGED <<kept, range, toggling>>
      /\ \A topic \in {"monitor", "snapshots"} : topic \in trust' => topic \in trust
  BY DEF HistoryLoaded, DeleteEnd, ClearEnd, Answered, HistoryWork, Trusted
<1>2. \A g \in {LoadWork, MonitorWork, SnapshotWork} : Quiet(End(s), g) => Quiet(calls, g)
  <2>1. \A g \in {LoadWork, MonitorWork, SnapshotWork} : calls[s].op \notin g
    BY <1>1 DEF HistoryWork, LoadWork, MonitorWork, SnapshotWork
  <2> QED  BY <2>1, EndQuiet
<1>3. shown \in Holding
  BY DEF DataTypeOK
<1>4. CASE HistoryLoaded(s)
  <2> DEFINE a == IF Good(s, "diagHistory") THEN Value(s, "diagHistory") ELSE shown.diag
             b == IF Good(s, "fixHistory") THEN Value(s, "fixHistory") ELSE shown.fix
  <2>1. calls' = End(s) /\ shown' = [shown EXCEPT !.diag = a, !.fix = b]
    BY <1>4 DEF HistoryLoaded
  <2>2. "history" \in trust' => a \in FirstPage(kept.diag) /\ b = kept.fix
    <3>1. "history" \in trust' => calls[s].alone /\ Good(s, "diagHistory") /\ Good(s, "fixHistory")
      BY <1>4 DEF HistoryLoaded, Trusted
    <3>2. calls[s].op = "history" /\ DOMAIN calls[s].ans = {"diagHistory", "fixHistory"}
      BY <1>4 DEF HistoryLoaded, Answered, Asks
    <3> QED  BY <3>1, <3>2 DEF RestInv, Rests, StillTrue, Says, Good, Value
  <2> HIDE DEF a, b
  <2>3. /\ shown'.diag = a /\ shown'.fix = b /\ shown'.on = shown.on /\ shown'.days = shown.days
        /\ shown'.samples = shown.samples /\ shown'.snaps = shown.snaps
    BY <1>3, <2>1 DEF Holding
  <2>4. Shows(End(s), kept, shown', range, trust')
    BY <1>1, <1>2, <2>2, <2>3 DEF RestInv, Rests, Shows
  <2> QED  BY <1>1, <2>1, <2>4, EndStepRests
<1>5. CASE /\ calls' = End(s) /\ UNCHANGED shown /\ "history" \notin trust'
  <2>1. Shows(End(s), kept, shown', range, trust')
    BY <1>1, <1>2, <1>5 DEF RestInv, Rests, Shows
  <2> QED  BY <1>1, <1>5, <2>1, EndStepRests
<1>6. CASE /\ calls' = Begin(calls, s, "history", "none", 0, token)
           /\ UNCHANGED shown /\ trust' \subseteq trust
  <2>1. \A g \in Groups : calls[s].op \in g => "history" \in g
    BY <1>1 DEF Groups, HistoryWork, LoadWork, MonitorWork, SnapshotWork
  <2>2. FitCall("history", "none", 0) /\ "history" \notin Loads
    BY DEF FitCall, Loads
  <2> QED  BY <1>1, <1>6, <2>1, <2>2, LeadsRests
<1>7. DeleteEnd(s) \/ ClearEnd(s) =>
        \/ calls' = End(s) /\ UNCHANGED shown /\ "history" \notin trust'
        \/ /\ calls' = Begin(calls, s, "history", "none", 0, token)
           /\ UNCHANGED shown /\ trust' \subseteq trust
  BY DEF DeleteEnd, ClearEnd, Reload, Trusted
<1> QED  BY <1>4, <1>5, <1>6, <1>7

LEMMA MonitorResumeRests ==
  ASSUME FrameInv, DataTypeOK, RestInv, NEW s \in Slots,
         MonitorLoaded(s) \/ ToggleEnd(s) \/ SampleTaken(s) \/ SampleLoaded(s)
  PROVE  RestInv'
<1> USE FrameParts DEF still, frame, busyVars
<1>1. /\ calls[s].op \in MonitorWork /\ UNCHANGED <<kept, range>>
      /\ \A topic \in {"history", "snapshots"} : topic \in trust' => topic \in trust
  BY DEF MonitorLoaded, ToggleEnd, SampleTaken, SampleLoaded, Answered, MonitorWork,
         LoadWork, Trusted
<1>2. \A g \in {HistoryWork, SnapshotWork} : Quiet(End(s), g) => Quiet(calls, g)
  <2>1. \A g \in {HistoryWork, SnapshotWork} : calls[s].op \notin g
    BY <1>1 DEF HistoryWork, LoadWork, MonitorWork, SnapshotWork
  <2> QED  BY <2>1, EndQuiet
<1>3. shown \in Holding
  BY DEF DataTypeOK
<1>4. CASE MonitorLoaded(s) \/ SampleLoaded(s)
  <2>0. "monitor" \in trust' => Quiet(End(s), {"toggle"})
    <3> SUFFICES ASSUME "monitor" \in trust' PROVE Quiet(End(s), {"toggle"})
      OBVIOUS
    <3>1. calls[s].alone /\ calls[s].op \in Loads
      BY <1>4 DEF MonitorLoaded, SampleLoaded, Trusted, Answered, Loads
    <3>2. calls[s].op # "none" /\ Kin(calls[s].op) = MonitorWork
      BY <3>1, KinSets DEF Loads, MonitorWork, LoadWork
    <3>3. \A y \in Slots \ {s} : calls[y].op # "toggle"
      BY <3>1, <3>2 DEF RestInv, Rests, Undisturbed, MonitorWork
    <3>4. \A x \in Slots : End(s)[x] = IF x = s THEN Idle ELSE calls[x]
      BY EndCall
    <3> QED  BY <3>3, <3>4, IdleNone DEF Quiet
  <2>1. PICK op \in Loads : Answered(s, op)
    BY <1>4 DEF MonitorLoaded, SampleLoaded, Loads
  <2>2. /\ MonitorShown(s) /\ calls' = End(s) /\ UNCHANGED toggling
        /\ Trusted("monitor", calls[s].alone /\ Good(s, "monitorQuality"))
    BY <1>4 DEF MonitorLoaded, SampleLoaded
  <2> DEFINE v == Value(s, "monitorQuality")
  <2>3. CASE Good(s, "monitorQuality")
    <3>1. shown' = [shown EXCEPT !.on = v.on, !.samples = v.samples, !.days = v.days]
      BY <2>2, <2>3 DEF MonitorShown
    <3>2. "monitor" \in trust' => /\ v.days = range /\ v.on = kept.on
                                  /\ v.samples = kept.samples
      <4>1. "monitor" \in trust' => calls[s].alone
        BY <2>2 DEF Trusted
      <4>2. calls[s].op \in Loads /\ "monitorQuality" \in DOMAIN calls[s].ans
        BY <2>1 DEF Answered, Asks, Loads
      <4>3. calls[s].alone =>
              v = [days |-> range, on |-> kept.on, samples |-> kept.samples]
        BY <2>3, <4>2 DEF RestInv, Rests, StillTrue, Says, Good, Value
      <4> QED  BY <4>1, <4>3
    <3> HIDE DEF v
    <3>3. /\ shown'.diag = shown.diag /\ shown'.fix = shown.fix /\ shown'.on = v.on
          /\ shown'.days = v.days /\ shown'.samples = v.samples /\ shown'.snaps = shown.snaps
      BY <1>3, <3>1 DEF Holding
    <3>4. Shows(End(s), kept, shown', range, trust')
      BY <1>1, <1>2, <3>2, <3>3 DEF RestInv, Rests, Shows
    <3> QED  BY <1>1, <2>0, <2>2, <3>4, EndStepRests
  <2>4. CASE ~Good(s, "monitorQuality")
    <3>1. UNCHANGED shown /\ "monitor" \notin trust'
      BY <2>2, <2>4 DEF MonitorShown, Trusted
    <3>2. Shows(End(s), kept, shown', range, trust')
      BY <1>1, <1>2, <3>1 DEF RestInv, Rests, Shows
    <3> QED  BY <1>1, <2>2, <3>1, <3>2, EndStepRests
  <2> QED  BY <2>3, <2>4
<1>5. CASE ToggleEnd(s)
  <2> DEFINE a == IF Good(s, "monitorEnabled") THEN Value(s, "monitorEnabled") ELSE shown.on
  <2>1. /\ calls' = End(s) /\ calls[s].op = "toggle" /\ toggling' = FALSE
        /\ shown' = [shown EXCEPT !.on = a]
    BY <1>5 DEF ToggleEnd, Answered
  <2>2. "monitor" \in trust' => "monitor" \in trust /\ a = kept.on
    <3>1. "monitor" \in trust' => "monitor" \in trust /\ Good(s, "monitorEnabled")
      BY <1>5 DEF ToggleEnd, Trusted
    <3>2. "monitorEnabled" \in DOMAIN calls[s].ans
      BY <1>5 DEF ToggleEnd, Answered, Asks
    <3> QED  BY <2>1, <3>1, <3>2 DEF RestInv, Rests, StillTrue, Says, Good, Value
  <2> HIDE DEF a
  <2>3. /\ shown'.diag = shown.diag /\ shown'.fix = shown.fix /\ shown'.on = a
        /\ shown'.days = shown.days /\ shown'.samples = shown.samples
        /\ shown'.snaps = shown.snaps
    BY <1>3, <2>1 DEF Holding
  <2>4. Quiet(End(s), LoadWork) => Quiet(calls, LoadWork)
    BY <2>1, EndQuiet DEF LoadWork
  <2>5. Shows(End(s), kept, shown', range, trust')
    BY <1>1, <1>2, <2>2, <2>3, <2>4 DEF RestInv, Rests, Shows
  <2> QED  BY <1>1, <2>1, <2>2, <2>5, EndStepRests
<1>6. CASE SampleTaken(s)
  <2>1. UNCHANGED <<shown, toggling>> /\ calls[s].op = "sample"
    BY <1>6 DEF SampleTaken, Answered
  <2>2. CASE calls' = Begin(calls, s, "sampleLoad", "none", range, token) /\ UNCHANGED trust
    <3>1. \A g \in Groups : calls[s].op \in g => "sampleLoad" \in g
      BY <2>1 DEF Groups, HistoryWork, LoadWork, MonitorWork, SnapshotWork
    <3>2. FitCall("sampleLoad", "none", range)
      BY DEF FitCall
    <3> QED  BY <1>1, <2>1, <2>2, <3>1, <3>2, LeadsRests
  <2>3. CASE calls' = End(s) /\ "monitor" \notin trust'
    <3>1. Shows(End(s), kept, shown', range, trust')
      BY <1>1, <1>2, <2>1, <2>3 DEF RestInv, Rests, Shows
    <3> QED  BY <1>1, <2>1, <2>3, <3>1, EndStepRests
  <2> QED  BY <1>6, <2>2, <2>3 DEF SampleTaken, Trusted
<1> QED  BY <1>4, <1>5, <1>6

LEMMA SnapshotResumeRests ==
  ASSUME FrameInv, DataTypeOK, RestInv, NEW s \in Slots, SnapshotsLoaded(s) \/ CreateEnd(s)
  PROVE  RestInv'
<1> USE FrameParts DEF still, frame, busyVars, shellVars
<1>1. /\ calls[s].op \in SnapshotWork /\ UNCHANGED <<kept, range, toggling>>
      /\ \A topic \in {"history", "monitor"} : topic \in trust' => topic \in trust
  BY DEF SnapshotsLoaded, CreateEnd, Answered, SnapshotWork, Trusted
<1>2. \A g \in {HistoryWork, LoadWork, MonitorWork} : Quiet(End(s), g) => Quiet(calls, g)
  <2>1. \A g \in {HistoryWork, LoadWork, MonitorWork} : calls[s].op \notin g
    BY <1>1 DEF HistoryWork, LoadWork, MonitorWork, SnapshotWork
  <2> QED  BY <2>1, EndQuiet
<1>3. shown \in Holding
  BY DEF DataTypeOK
<1>4. CASE SnapshotsLoaded(s)
  <2> DEFINE a == IF Good(s, "snapshots") THEN Value(s, "snapshots") ELSE shown.snaps
  <2>1. calls' = End(s) /\ shown' = [shown EXCEPT !.snaps = a]
    BY <1>4 DEF SnapshotsLoaded
  <2>2. "snapshots" \in trust' => a = kept.snaps
    <3>1. "snapshots" \in trust' => calls[s].alone /\ Good(s, "snapshots")
      BY <1>4 DEF SnapshotsLoaded, Trusted
    <3>2. calls[s].op = "snapshots" /\ "snapshots" \in DOMAIN calls[s].ans
      BY <1>4 DEF SnapshotsLoaded, Answered, Asks
    <3> QED  BY <3>1, <3>2 DEF RestInv, Rests, StillTrue, Says, Good, Value
  <2> HIDE DEF a
  <2>3. /\ shown'.diag = shown.diag /\ shown'.fix = shown.fix /\ shown'.on = shown.on
        /\ shown'.days = shown.days /\ shown'.samples = shown.samples /\ shown'.snaps = a
    BY <1>3, <2>1 DEF Holding
  <2>4. Shows(End(s), kept, shown', range, trust')
    BY <1>1, <1>2, <2>2, <2>3 DEF RestInv, Rests, Shows
  <2> QED  BY <1>1, <2>1, <2>4, EndStepRests
<1>5. CASE CreateEnd(s)
  <2>1. UNCHANGED shown
    BY <1>5 DEF CreateEnd
  <2>2. CASE /\ calls' = Begin(calls, s, "snapshots", "none", 0, token)
             /\ trust' \subseteq trust
    <3>1. \A g \in Groups : calls[s].op \in g => "snapshots" \in g
      BY <1>1 DEF Groups, HistoryWork, LoadWork, MonitorWork, SnapshotWork
    <3>2. FitCall("snapshots", "none", 0) /\ "snapshots" \notin Loads
      BY DEF FitCall, Loads
    <3> QED  BY <1>1, <2>1, <2>2, <3>1, <3>2, LeadsRests
  <2>3. CASE calls' = End(s) /\ "snapshots" \notin trust'
    <3>1. Shows(End(s), kept, shown', range, trust')
      BY <1>1, <1>2, <2>1, <2>3 DEF RestInv, Rests, Shows
    <3> QED  BY <1>1, <2>1, <2>3, <3>1, EndStepRests
  <2> QED  BY <1>5, <2>2, <2>3 DEF CreateEnd, Trusted
<1> QED  BY <1>4, <1>5

LEMMA DataResumeRests ==
  ASSUME FrameInv, DataTypeOK, RestInv, NEW s \in Slots, DataResume(s)
  PROVE  RestInv'
<1>1. CASE DiffEnd(s) \/ AskEnd(s) \/ ToolEnd(s)
  <2>1. calls[s].op \notin DataWork
    BY <1>1 DEF DiffEnd, AskEnd, ToolEnd, Answered, DataWork, HistoryWork, MonitorWork,
                LoadWork, SnapshotWork
  <2>2. calls' = End(s) /\ UNCHANGED <<kept, shown, range, trust, toggling>>
    BY <1>1 DEF DiffEnd, AskEnd, ToolEnd, dataVars, busyVars, shellVars, frame, still
  <2> QED  BY <2>1, <2>2, EndRests, RestStep DEF FrameInv
<1> QED  BY <1>1, HistoryResumeRests, MonitorResumeRests, SnapshotResumeRests DEF DataResume

\* The handlers that the service's answers belong to.
LEMMA AskedBy ==
  \A op \in Ops : /\ "historyDelete" \in Asks[op] => op = "delete"
                  /\ "historyClear" \in Asks[op] => op = "clear"
                  /\ "monitorEnabled" \in Asks[op] => op = "toggle"
                  /\ "monitorSample" \in Asks[op] => op = "sample"
                  /\ "snapshotCreate" \in Asks[op] => op = "create"
BY DEF Ops, Asks

LEMMA DataServeRests ==
  ASSUME FrameInv, DataTypeOK, RestInv, NEW s \in Slots, calls[s] # Idle, ServeData(s),
         UNCHANGED shellVars
  PROVE  RestInv'
<1> USE FrameParts DEF still, frame, shellVars, busyVars
<1>0. /\ kept \in Holding /\ UNCHANGED <<shown, range, trust, toggling>>
      /\ \A op : Changes(op, kept)
  BY DEF DataTypeOK, ServeData, Changes
<1>1. ASSUME NEW r, NEW v, Reply(s, r, "ok", v) \/ Reply(s, r, "no", "none"),
             Changes(calls[s].op, kept'), Right(calls[s], r, v, kept')
      PROVE  RestInv'
  BY <1>0, <1>1, AnswerRests
<1>2. \A r, code1, v : Reply(s, r, code1, v) => calls[s].op \in Ops /\ r \in Asks[calls[s].op]
  BY DEF Reply, Waits
<1>3. CASE ServeHistory(s)
  <2>1. CASE /\ \/ \E P \in FirstPage(kept.diag) : Reply(s, "diagHistory", "ok", P)
                \/ Reply(s, "fixHistory", "ok", kept.fix)
             /\ UNCHANGED kept
    <3>1. Changes(calls[s].op, kept')
      BY <1>0, <2>1
    <3> QED  BY <1>1, <2>1, <3>1 DEF Right
  <2>2. CASE /\ Done(s, "historyDelete", "none")
             /\ kept' = [kept EXCEPT !.diag = @ \ {calls[s].arg}, !.fix = @ \ {calls[s].arg}]
    <3>1. calls[s].op = "delete"
      BY <1>2, <2>2, AskedBy DEF Done
    <3>2. Changes(calls[s].op, kept')
      BY <1>0, <2>2, <3>1 DEF Changes, Holding
    <3>3. Right(calls[s], "historyDelete", "none", kept')
      BY DEF Right
    <3> QED  BY <1>1, <2>2, <3>2, <3>3 DEF Done
  <2>3. CASE Done(s, "historyClear", "none") /\ kept' = [kept EXCEPT !.diag = {}, !.fix = {}]
    <3>1. calls[s].op = "clear"
      BY <1>2, <2>3, AskedBy DEF Done
    <3>2. Changes(calls[s].op, kept')
      BY <1>0, <2>3, <3>1 DEF Changes, Holding
    <3>3. Right(calls[s], "historyClear", "none", kept')
      BY DEF Right
    <3> QED  BY <1>1, <2>3, <3>2, <3>3 DEF Done
  <2> QED  BY <1>3, <2>1, <2>2, <2>3 DEF ServeHistory
<1>4. CASE ServeMonitor(s)
  <2>1. CASE /\ Reply(s, "monitorQuality", "ok",
                      [days |-> calls[s].left, on |-> kept.on, samples |-> kept.samples])
             /\ UNCHANGED kept
    <3>1. Changes(calls[s].op, kept')
      BY <1>0, <2>1
    <3>2. Right(calls[s], "monitorQuality",
                [days |-> calls[s].left, on |-> kept.on, samples |-> kept.samples], kept')
      BY <2>1 DEF Right
    <3> QED  BY <1>1, <2>1, <3>1, <3>2
  <2>2. CASE /\ Done(s, "monitorEnabled", calls[s].arg = "on")
             /\ kept' = [kept EXCEPT !.on = calls[s].arg = "on"]
    <3> DEFINE b == calls[s].arg = "on"
    <3>1. calls[s].op = "toggle"
      BY <1>2, <2>2, AskedBy DEF Done
    <3>2. Done(s, "monitorEnabled", b) /\ kept' = [kept EXCEPT !.on = b]
      BY <2>2
    <3> HIDE DEF b
    <3>3. Changes(calls[s].op, kept') /\ kept'.on = b
      BY <1>0, <3>1, <3>2 DEF Changes, Holding
    <3>4. Right(calls[s], "monitorEnabled", b, kept')
      BY <3>3 DEF Right
    <3> QED  BY <1>1, <3>2, <3>3, <3>4 DEF Done
  <2>3. CASE Done(s, "monitorSample", "none") /\ kept' = [kept EXCEPT !.samples = @ + 1]
    <3>1. calls[s].op = "sample"
      BY <1>2, <2>3, AskedBy DEF Done
    <3>2. Changes(calls[s].op, kept')
      BY <1>0, <2>3, <3>1 DEF Changes, Holding
    <3>3. Right(calls[s], "monitorSample", "none", kept')
      BY DEF Right
    <3> QED  BY <1>1, <2>3, <3>2, <3>3 DEF Done
  <2> QED  BY <1>4, <2>1, <2>2, <2>3 DEF ServeMonitor
<1>5. CASE ServeSnapshots(s)
  <2>1. CASE /\ \E r \in {"snapshotDiff", "ask", "tool"} : Reply(s, r, "ok", "none")
             /\ UNCHANGED kept
    <3>1. Changes(calls[s].op, kept')
      BY <1>0, <2>1
    <3>2. \A r \in {"snapshotDiff", "ask", "tool"} : Right(calls[s], r, "none", kept')
      BY DEF Right
    <3> QED  BY <1>1, <2>1, <3>1, <3>2
  <2>2. CASE Reply(s, "snapshots", "ok", kept.snaps) /\ UNCHANGED kept
    <3>1. Changes(calls[s].op, kept')
      BY <1>0, <2>2
    <3> QED  BY <1>1, <2>2, <3>1 DEF Right
  <2>3. CASE Done(s, "snapshotCreate", "none") /\ kept' = [kept EXCEPT !.snaps = @ + 1]
    <3>1. calls[s].op = "create"
      BY <1>2, <2>3, AskedBy DEF Done
    <3>2. Changes(calls[s].op, kept')
      BY <1>0, <2>3, <3>1 DEF Changes, Holding
    <3>3. Right(calls[s], "snapshotCreate", "none", kept')
      BY DEF Right
    <3> QED  BY <1>1, <2>3, <3>2, <3>3 DEF Done
  <2> QED  BY <1>5, <2>1, <2>2, <2>3 DEF ServeSnapshots
<1> QED  BY <1>3, <1>4, <1>5 DEF ServeData

\* Others change the data of a topic: nobody who has an answer about it is alone
\* any more, and its copy is not trusted; the others' data stay.
LEMMA OthersRests ==
  ASSUME FrameInv, DataTypeOK, RestInv, OthersStep
  PROVE  RestInv'
<1> USE FrameParts DEF still, frame, shellVars, busyVars
<1>1. UNCHANGED <<shown, range, toggling>>
  BY DEF OthersStep, Others
<1>2. PICK topic \in {"history", "monitor", "snapshots"} :
        /\ Meanwhile(topic)
        /\ topic # "history" => kept'.diag = kept.diag /\ kept'.fix = kept.fix
        /\ topic # "monitor" => kept'.on = kept.on /\ kept'.samples = kept.samples
        /\ topic # "snapshots" => kept'.snaps = kept.snaps
  BY OthersChange DEF OthersStep
<1>3. trust' \subseteq trust /\ topic \notin trust'
  BY <1>2 DEF Meanwhile
<1> DEFINE late(x) == calls[x].op \in Kin(topic) /\ DOMAIN calls[x].ans # {}
<1>4. ASSUME NEW x \in Slots
      PROVE  /\ late(x) => /\ calls'[x].op = calls[x].op /\ calls'[x].ans = calls[x].ans
                           /\ ~calls'[x].alone
             /\ ~late(x) => calls'[x] = calls[x]
  BY <1>2, MeanwhileCalls
<1>5. /\ topic = "history" => Kin(topic) = HistoryWork
      /\ topic = "monitor" => Kin(topic) = MonitorWork
      /\ topic = "snapshots" => Kin(topic) = SnapshotWork
  BY KinSets DEF HistoryWork, MonitorWork, LoadWork, SnapshotWork
<1>6. ASSUME NEW x \in Slots, ~late(x), calls[x].op \in Kin(topic)
      PROVE  \A r, V : Says(calls[x], r, V)
  BY <1>6 DEF Says
<1> HIDE DEF late
<1>7. \A x \in Slots : calls'[x].op = calls[x].op /\ (calls'[x].alone => calls[x].alone)
  BY <1>4
<1>8. Undisturbed(calls') /\ OneToggle(calls', toggling)
  BY <1>7 DEF RestInv, Rests, Undisturbed, OneToggle
<1>9. StillTrue(calls', kept', range, trust')
  <2> SUFFICES ASSUME NEW x \in Slots
               PROVE  LET h == calls'[x]
                          k == kept'
                      IN /\ h.op = "history" /\ h.alone =>
                              /\ Says(h, "diagHistory", FirstPage(k.diag))
                              /\ Says(h, "fixHistory", {k.fix})
                         /\ h.op \in Loads /\ h.alone =>
                              /\ h.left = range
                              /\ Says(h, "monitorQuality",
                                      {[days |-> range, on |-> k.on, samples |-> k.samples]})
                         /\ h.op = "snapshots" /\ h.alone => Says(h, "snapshots", {k.snaps})
                         /\ h.op = "toggle" /\ "monitor" \in trust' =>
                              Says(h, "monitorEnabled", {k.on})
    BY DEF StillTrue
  <2>1. CASE late(x)
    <3>1. ~calls'[x].alone /\ calls'[x].op \in Kin(topic)
      BY <1>4, <2>1 DEF late
    <3>2. calls'[x].op = "toggle" => topic = "monitor"
      BY <1>5, <3>1 DEF HistoryWork, SnapshotWork
    <3> QED  BY <1>3, <3>1, <3>2
  <2>2. CASE ~late(x)
    <3>1. calls'[x] = calls[x]
      BY <1>4, <2>2
    <3>2. CASE calls[x].op \in Kin(topic)
      <4>1. \A r, V : Says(calls[x], r, V)
        BY <1>6, <2>2, <3>2
      <4>2. calls[x].op \in Loads /\ calls[x].alone => calls[x].left = range
        BY DEF RestInv, Rests, StillTrue
      <4> QED  BY <3>1, <4>1, <4>2
    <3>3. CASE calls[x].op \notin Kin(topic)
      <4>1. /\ calls[x].op = "history" => topic # "history"
            /\ calls[x].op \in Loads \cup {"toggle"} => topic # "monitor"
            /\ calls[x].op = "snapshots" => topic # "snapshots"
        BY <1>5, <3>3 DEF HistoryWork, MonitorWork, LoadWork, SnapshotWork, Loads
      <4> QED  BY <1>2, <1>3, <3>1, <4>1 DEF RestInv, Rests, StillTrue
    <3> QED  BY <3>2, <3>3
  <2> QED  BY <2>1, <2>2
<1>10. Shows(calls', kept', shown, range, trust')
  <2>1. \A g : Quiet(calls', g) => Quiet(calls, g)
    BY <1>7 DEF Quiet
  <2> QED  BY <1>2, <1>3, <2>1 DEF RestInv, Rests, Shows
<1> QED  BY <1>1, <1>8, <1>9, <1>10 DEF RestInv, Rests

LEMMA InitRests == Init => RestInv
<1> SUFFICES ASSUME Init PROVE RestInv
  OBVIOUS
<1>1. \A x \in Slots : calls[x].op \in {"none", "boot"}
  <2>1. CASE scene \in {"login", "session", "account"}
    BY <2>1, OpenedTable DEF Init, ShellInit
  <2>2. CASE scene \notin {"login", "session", "account"}
    <3>1. calls = [x \in Slots |-> Idle]
      BY <2>2 DEF Init, ShellInit, Entered
    <3> QED  BY <3>1, IdleNone
  <2> QED  BY <2>1, <2>2
<1>2. {"none", "boot"} \cap (DataWork \cup Loads) = {}
  BY DEF DataWork, HistoryWork, MonitorWork, LoadWork, SnapshotWork, Loads
<1>3. Undisturbed(calls)
  BY <1>1, <1>2, KinSets DEF Undisturbed
<1>4. StillTrue(calls, kept, range, trust)
  BY <1>1, <1>2 DEF StillTrue
<1>5. OneToggle(calls, toggling) /\ trust = {}
  BY <1>1 DEF OneToggle, Init, DataInit
<1> QED  BY <1>3, <1>4, <1>5 DEF RestInv, Rests, Shows

LEMMA NextRests ==
  ASSUME TypeInv, RestInv, [Next]_vars
  PROVE  RestInv'
<1> USE DEF TypeInv
<1>1. CASE UserStep
  BY <1>1, ShellUserRests, DiagRests, DataUserRests DEF UserStep
<1>2. CASE Event \/ Timer
  BY <1>2, TimerRests DEF Event, Timer
<1>3. ASSUME NEW s \in Slots, Resume(s) PROVE RestInv'
  BY <1>3, ShellResumeRests, DiagRests, DataResumeRests DEF Resume
<1>4. ASSUME NEW s \in Slots, Serve(s) PROVE RestInv'
  BY <1>4, ShellServeRests, DiagRests, DataServeRests DEF Serve
<1>5. CASE Apart \/ UNCHANGED vars
  <2>1. UNCHANGED <<calls, kept, shown, range, trust, toggling>>
    BY <1>5 DEF Apart, vars, diagPage, pageVars, apiVars, shellVars, frame, still, dataVars,
                busyVars
  <2> QED  BY <2>1, StillRest
<1>6. CASE OthersStep
  BY <1>6, OthersRests
<1> QED  BY <1>1, <1>2, <1>3, <1>4, <1>5, <1>6 DEF Next

\* The inductive invariant, whatever others do to the data: whoever is alone with
\* his data has answers that still hold, and the copy on show agrees where it is
\* trusted and nothing is going on.
THEOREM RestInvariant == Spec => []RestInv
<1>1. TypeInv /\ RestInv /\ [Next]_vars => RestInv'
  BY NextRests
<1> QED  BY <1>1, InitRests, TypeInvariant, PTL DEF Spec

\* When nothing about a topic is going on, what the page shows of it is what
\* the service keeps (of the diagnoses, its first page), from one undisturbed
\* load to the next that fails or overlaps or to a change that others make, in
\* whatever order the answers come (app.js:1108-1182, 1357-1397, 1456).
THEOREM SafeAtRest == Spec => []AtRestTrue
<1>1. RestInv => AtRestTrue
  <2> SUFFICES ASSUME RestInv PROVE AtRestTrue
    OBVIOUS
  <2>1. /\ Kin("history") = HistoryWork /\ Kin("monitor") = MonitorWork
        /\ Kin("snapshots") = SnapshotWork
    BY KinSets DEF HistoryWork, MonitorWork, LoadWork, SnapshotWork
  <2>2. Quiet(calls, MonitorWork) => Quiet(calls, LoadWork)
    BY DEF Quiet, MonitorWork
  <2> QED  BY <2>1, <2>2 DEF RestInv, Rests, Shows, Quiet, AtRestTrue
<1> QED  BY <1>1, RestInvariant, PTL
=============================================================================
