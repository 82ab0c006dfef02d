------------------------------ MODULE ApiClient ------------------------------
(****************************************************************************)
(* The page's API client (src/webui/assets/api.js) and the requests of the  *)
(* handlers of app.js that are in flight.                                   *)
(*                                                                          *)
(* A handler of the page is an async function: it sends its requests, the   *)
(* page goes on, and the handler resumes when all of them are answered.     *)
(* "calls" holds the handlers that wait, one per slot: what they are doing  *)
(* (op), the token their requests carry (tok) and the answers so far (ans). *)
(* An answer travels: it says what the service knew when it was given, and  *)
(* is used later, or after the answer of a request sent after it.           *)
(*                                                                          *)
(* An answer is a code and a value.  API.request turns a network error, a   *)
(* body that is not JSON and a JSON body without code into code 5000, and   *)
(* the platform's code=false into 5001: "no" stands for both and for every  *)
(* refusal of the service.  The callers tell them apart by their texts only.*)
(****************************************************************************)
EXTENDS Naturals, FiniteSets

CONSTANTS Slots,      \* handlers that may wait at the same time
          MaxTokens   \* sessions the service opens in a behaviour

ASSUME SlotsAssumption == Slots # {}
ASSUME TokensAssumption == MaxTokens \in Nat \ {0}

VARIABLES token,      \* API.token, also in sessionStorage
          sessions,   \* the tokens the service accepts
          minted,     \* the tokens it has handed out
          calls       \* the handlers that wait

apiRest == <<token, sessions, minted>>
apiVars == <<apiRest, calls>>

NoToken == 0
Tokens  == 1..MaxTokens

\* The requests each waiting handler has sent; a handler that waits for a
\* timer has sent none.
Asks == [boot      |-> {"authStatus"},
         bootDash  |-> {"dashboard"},      \* interfaces, settings, version
         dash      |-> {"dashboard"},
         ifaces    |-> {"interfaces"},
         login     |-> {"login"},
         logout    |-> {"logout"},
         setup     |-> {"setup"},
         recover   |-> {"recover"},
         diagPost  |-> {"diagRun"},
         diagWait  |-> {},
         diagPoll  |-> {"diagReport"},
         fix       |-> {"fix"},
         history   |-> {"diagHistory", "fixHistory"},
         delete    |-> {"historyDelete"},
         clear     |-> {"historyClear"},
         monitor   |-> {"monitorQuality"},  \* and, beside it, alertsHistory
         toggle    |-> {"monitorEnabled"},
         sample    |-> {"monitorSample"},
         sampleLoad |-> {"monitorQuality"},
         snapshots |-> {"snapshots"},
         create    |-> {"snapshotCreate"},
         diff      |-> {"snapshotDiff"},
         ask       |-> {"ask"},
         tool      |-> {"tool"}]

Ops == DOMAIN Asks

Idle == [op |-> "none"]

\* Handlers that show or change the same data.
Topics == {{"history", "delete", "clear"},
           {"monitor", "toggle", "sample", "sampleLoad"},
           {"snapshots", "create"}}

Kin(op) == UNION {g \in Topics : op \in g}

----------------------------------------------------------------------------
Free(c) == {s \in Slots : c[s] = Idle}

\* Handler op starts to wait in slot s.  "alone" (no part of the code) stays
\* true while no other handler about the same data waits.
Begin(c, s, op, arg, left, tk) ==
  LET near == {x \in Slots \ {s} : c[x].op \in Kin(op)}
  IN [x \in Slots |->
        IF x = s THEN [op |-> op, arg |-> arg, left |-> left, tok |-> tk,
                       ans |-> <<>>, alone |-> near = {}]
        ELSE IF x \in near THEN [c[x] EXCEPT !.alone = FALSE]
        ELSE c[x]]

\* A handler the user starts takes a free slot.
Send(op, arg) ==
  /\ Free(calls) # {}
  /\ calls' = Begin(calls, CHOOSE s \in Free(calls) : TRUE, op, arg, 0, token)

\* The handler in slot s returns, or throws.
End(s) == [calls EXCEPT ![s] = Idle]

----------------------------------------------------------------------------
Waits(s, r) == /\ calls[s].op \in Ops
               /\ r \in Asks[calls[s].op] /\ r \notin DOMAIN calls[s].ans

\* The service's answer to request r of slot s.
Reply(s, r, code, val) ==
  /\ Waits(s, r)
  /\ calls' = [calls EXCEPT ![s].ans =
                 [x \in DOMAIN @ \cup {r} |->
                    IF x = r THEN [code |-> code, val |-> val] ELSE @[x]]]

\* The service accepts the token the request carries.
Known(s) == calls[s].op \in Ops /\ calls[s].tok \in sessions

\* A request that fails before the service acts on it.
Refuse(s) ==
  /\ calls[s].op \in Ops
  /\ \E r \in Asks[calls[s].op] : Reply(s, r, "no", "none")
  /\ UNCHANGED apiRest

\* Every request of slot s, waiting in op, is answered.
Answered(s, op) == /\ calls[s].op = op
                   /\ DOMAIN calls[s].ans = Asks[op]

Good(s, r) == calls[s].ans[r].code = "ok"
Value(s, r) == calls[s].ans[r].val
=============================================================================
