-------------------------------- MODULE Auth --------------------------------
(***************************************************************************)
(* The accounts of NetCheck (auth.py): failures counted per name, lockout, *)
(* rate of logins, and the sessions file.  login(), recover() and the      *)
(* changes hold an RLock; logout() reads and writes the sessions without.  *)
(***************************************************************************)
EXTENDS Integers, Sequences, FiniteSets

CONSTANTS
  Keys,         \* names in lower case
  Tokens, Clients,
  Nobody,
  MaxFailures,  \* MAX_FAILURES
  Lockout,      \* LOCKOUT_SEC
  Rate,         \* LOGIN_RATE_PER_MIN
  Window,       \* 60
  Lifetime,     \* SESSION_TTL_SEC
  MaxTime

ASSUME AuthAssumption ==
  /\ MaxFailures \in Nat \ {0} /\ Lockout \in Nat
  /\ Rate \in Nat \ {0} /\ Window \in Nat /\ Lifetime \in Nat \ {0}
  /\ MaxTime \in Nat
  /\ Nobody \notin Keys /\ Nobody \notin Tokens

VARIABLES
  now,
  account,      \* the name of the account, in lower case
  failures,     \* key -> failures since the last success or lockout
  lockedUntil,  \* key -> the end of its lockout
  times,        \* key -> times of the recent logins
  sessions,     \* the file: token -> when it ends; 0 if it is not there
  work,         \* what the holder of the RLock is about to write
  leaving,      \* client -> the sessions its logout has read, less its own
  guesses,      \* key -> times of the failures since its last success, or the start
  tries,        \* key -> times of the logins since the start that were admitted
  granted,      \* token -> when it ends, by the logins and logouts that were done
  beside        \* a logout has run beside another request that writes the sessions

counters == <<failures, lockedUntil, times, guesses, tries>>
authVars == <<now, account, counters, sessions, work, leaving, granted, beside>>

NoSessions == [s \in Tokens |-> 0]
Idle == [op |-> "none", key |-> Nobody, token |-> Nobody, file |-> NoSessions]

AuthInit ==
  /\ now = 1
  /\ account = Nobody
  /\ failures = [k \in Keys |-> 0]
  /\ lockedUntil = [k \in Keys |-> 0]
  /\ times = [k \in Keys |-> <<>>]
  /\ sessions = NoSessions
  /\ work = Idle
  /\ leaving = [c \in Clients |-> Idle]
  /\ guesses = [k \in Keys |-> <<>>]
  /\ tries = [k \in Keys |-> <<>>]
  /\ granted = NoSessions
  /\ beside = FALSE

Tick ==
  /\ now < MaxTime
  /\ now' = now + 1
  /\ UNCHANGED <<account, counters, sessions, work, leaving, granted, beside>>

\* The RLock is free; logout() does not ask for it.
Enter == work = Idle

\* A request begins that reads the sessions and will write them.
Joins == beside' = (beside \/ work # Idle \/ \E c \in Clients : leaving[c] # Idle)

Setup(k) ==
  /\ Enter /\ account = Nobody
  /\ account' = k
  /\ UNCHANGED <<now, counters, sessions, work, leaving, granted, beside>>

Rename(k) ==
  /\ Enter /\ account # Nobody
  /\ account' = k
  /\ UNCHANGED <<now, counters, sessions, work, leaving, granted, beside>>

IsLocked(k) == lockedUntil[k] > now

\* [t for t in times if now - t < 60]: the times come in their order.
Recent(s) == SubSeq(s, 1 + Cardinality({i \in 1..Len(s) : now - s[i] >= Window}), Len(s))

\* Neither locked nor too often; the attempt counts whatever becomes of it.
AdmitLate(k) ==
  /\ ~ IsLocked(k)
  /\ Len(Recent(times[k])) <= Rate
  /\ times' = [times EXCEPT ![k] = Append(Recent(@), now)]
  /\ tries' = [tries EXCEPT ![k] = Append(@, now)]
Admit(k) ==
  /\ ~ IsLocked(k)
  /\ Len(Recent(times[k])) < Rate
  /\ times' = [times EXCEPT ![k] = Append(Recent(@), now)]
  /\ tries' = [tries EXCEPT ![k] = Append(@, now)]

\* A wrong name, password or code.
CountLate(k) ==
  /\ guesses' = [guesses EXCEPT ![k] = Append(@, now)]
  /\ failures' = [failures EXCEPT ![k] = IF @ >= MaxFailures THEN 0 ELSE @ + 1]
  /\ lockedUntil' = [lockedUntil EXCEPT ![k] = IF failures[k] >= MaxFailures THEN now + Lockout ELSE @]
Count(k) ==
  /\ guesses' = [guesses EXCEPT ![k] = Append(@, now)]
  /\ failures' = [failures EXCEPT ![k] = IF @ + 1 >= MaxFailures THEN 0 ELSE @ + 1]
  /\ lockedUntil' = [lockedUntil EXCEPT ![k] = IF failures[k] + 1 >= MaxFailures THEN now + Lockout ELSE @]

\* A success forgets the failures.
Forget(k) ==
  /\ failures' = [failures EXCEPT ![k] = 0]
  /\ guesses' = [guesses EXCEPT ![k] = <<>>]

LoginFails(k) ==
  /\ Enter /\ Admit(k) /\ Count(k)
  /\ UNCHANGED <<now, account, sessions, work, leaving, granted, beside>>

\* recover() has no rate of its own, and counts nothing before there is an account.
RecoverFails(k) ==
  /\ Enter /\ account # Nobody /\ ~ IsLocked(k) /\ Count(k)
  /\ UNCHANGED <<now, account, times, tries, sessions, work, leaving, granted, beside>>

\* The sessions that have not ended, and the new one.
Login(k, s) ==
  /\ Enter /\ Joins /\ k = account /\ Admit(k) /\ Forget(k)
  /\ sessions[s] = 0 /\ granted[s] = 0
  /\ work' = [op |-> "login", key |-> k, token |-> s,
              file |-> [u \in Tokens |-> IF u = s THEN now + Lifetime
                                         ELSE IF sessions[u] > now THEN sessions[u] ELSE 0]]
  /\ UNCHANGED <<now, account, lockedUntil, sessions, leaving, granted>>

\* The new password is in users.json; the sessions are revoked next.
Change ==
  /\ Enter /\ Joins /\ account # Nobody
  /\ work' = [Idle EXCEPT !.op = "change"]
  /\ UNCHANGED <<now, account, counters, sessions, leaving, granted>>
Recover(k) ==
  /\ Enter /\ Joins /\ k = account /\ ~ IsLocked(k)
  /\ work' = [Idle EXCEPT !.op = "recover", !.key = k]
  /\ UNCHANGED <<now, account, counters, sessions, leaving, granted>>

\* The sessions are written, and the request is answered.
Store ==
  /\ work.op # "none"
  /\ sessions' = work.file
  /\ granted' = IF work.op = "login" THEN [granted EXCEPT ![work.token] = work.file[work.token]]
                ELSE NoSessions
  /\ IF work.op = "recover" THEN Forget(work.key) ELSE UNCHANGED <<failures, guesses>>
  /\ work' = Idle
  /\ UNCHANGED <<now, account, lockedUntil, times, tries, leaving, beside>>
StoreFails ==
  /\ work.op # "none"
  /\ work' = Idle
  /\ UNCHANGED <<now, account, counters, sessions, leaving, granted, beside>>

\* The file is read and will be written whatever the token: that of a session, of
\* one that has ended, or of none.
LogoutReads(c, s) ==
  /\ leaving[c] = Idle /\ Joins
  /\ leaving' = [leaving EXCEPT ![c] = [op |-> "logout", key |-> Nobody, token |-> s,
                                        file |-> [sessions EXCEPT ![s] = 0]]]
  /\ UNCHANGED <<now, account, counters, sessions, work, granted>>

LogoutWritesAll(c) ==
  /\ leaving[c] # Idle
  /\ sessions' = NoSessions
  /\ granted' = [granted EXCEPT ![leaving[c].token] = 0]
  /\ leaving' = [leaving EXCEPT ![c] = Idle]
  /\ UNCHANGED <<now, account, counters, work, beside>>
LogoutWrites(c) ==
  /\ leaving[c] # Idle
  /\ sessions' = leaving[c].file
  /\ granted' = [granted EXCEPT ![leaving[c].token] = 0]
  /\ leaving' = [leaving EXCEPT ![c] = Idle]
  /\ UNCHANGED <<now, account, counters, work, beside>>
LogoutFails(c) ==
  /\ leaving[c] # Idle
  /\ leaving' = [leaving EXCEPT ![c] = Idle]
  /\ UNCHANGED <<now, account, counters, sessions, work, granted, beside>>

\* The counters are in memory only.
AuthRestart ==
  /\ failures' = [k \in Keys |-> 0]
  /\ lockedUntil' = [k \in Keys |-> 0]
  /\ times' = [k \in Keys |-> <<>>]
  /\ guesses' = [k \in Keys |-> <<>>]
  /\ tries' = [k \in Keys |-> <<>>]
  /\ work' = Idle
  /\ leaving' = [c \in Clients |-> Idle]
  /\ UNCHANGED <<now, account, sessions, granted, beside>>

AuthNext ==
  \/ Tick \/ Change \/ Store \/ StoreFails \/ AuthRestart
  \/ \E k \in Keys : \/ Setup(k) \/ Rename(k) \/ LoginFails(k) \/ RecoverFails(k) \/ Recover(k)
                     \/ \E s \in Tokens : Login(k, s)
  \/ \E c \in Clients : LogoutWrites(c) \/ LogoutFails(c) \/ \E s \in Tokens : LogoutReads(c, s)

AuthSpec == AuthInit /\ [][AuthNext]_authVars

-----------------------------------------------------------------------------
Files == [Tokens -> Nat]
Works == [op : {"none", "login", "change", "recover", "logout"}, key : Keys \cup {Nobody},
          token : Tokens \cup {Nobody}, file : Files]

\* Every variable has its type.
AuthTypeOK ==
  /\ now \in Nat
  /\ account \in Keys \cup {Nobody}
  /\ failures \in [Keys -> 0..(MaxFailures - 1)]
  /\ lockedUntil \in [Keys -> Nat]
  /\ times \in [Keys -> Seq(Nat)] /\ guesses \in [Keys -> Seq(Nat)] /\ tries \in [Keys -> Seq(Nat)]
  /\ sessions \in Files /\ granted \in Files
  /\ work \in Works /\ leaving \in [Clients -> Works] /\ beside \in BOOLEAN

\* "5-failure lockout for 5 minutes" (privacy-policy.md:175): however failed
\* logins and failed recoveries of a name are mixed, of any MaxFailures + 1 in a
\* row the last comes Lockout after the first or later.
GuessesBounded ==
  \A k \in Keys : \A i \in 1..(Len(guesses[k]) - MaxFailures) :
    guesses[k][i + MaxFailures] - guesses[k][i] >= Lockout

\* "10 logins/minute rate limit" (privacy-policy.md:175), in every minute.
RateKept ==
  \A k \in Keys : \A i \in 1..(Len(tries[k]) - Rate) :
    tries[k][i + Rate] - tries[k][i] >= Window

\* As long as no logout has run beside a request that writes the sessions too,
\* the file has the sessions that logins gave and nothing has ended since,
\* whatever write failed (auth.py:206-236).  Otherwise a logout may bring back
\* what a recovery has revoked, or take away what a login has just given: it
\* writes what it read, without the lock (231-233).
SessionsAsGranted ==
  ~ beside => \A s \in Tokens : sessions[s] > now \/ granted[s] > now => sessions[s] = granted[s]
=============================================================================
