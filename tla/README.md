# A TLA+ model of NetCheck

NetCheck is a network diagnosis and repair application for TerraMaster NAS
systems: a Python service (`lib/netcheck`) with a web page, a helper that runs
as root and changes the network configuration, and a Go program that counts
traffic. This directory holds TLA+ modules that model the parts of it in which
several threads, processes or handlers of the page, failures and restarts meet,
TLC configurations that check them on small instances, and proofs that TLAPS
checks.

## 1. Inventory

`app.py` builds the services below once and serves HTTP with one thread per
request (`ThreadingHTTPServer`). Long work runs in threads of its own. The main
service runs as user `netcheck`; the helper is a separate process behind a unix
socket, with a serial accept loop.

| Part | State | Operations | Used by |
|---|---|---|---|
| Bandwidth service, `bandwidth/service.py` | `_active` (the lock), `_server_session`, `_monitor`, `_last_done`, job dictionaries, history file | start, stop, server_start, server_stop, the runner and monitor threads | the endpoints `bw_*` |
| Privileged helper, `helper/server.py` | `.network` files, backup directories, `_last_action_ts` | nine whitelisted actions: validate, backup, execute, verify, roll back | FixEngine, Snapshots (over the socket) |
| Repair engine, `fix/engine.py`, `fix/helper_client.py` | repair history | fix (precheck, call, verify), history, delete, clear | endpoints, checkers |
| Job registry, `jobs.py` | jobs, stop functions | create and prune, the job's thread; stop, which nothing calls | the diagnosis endpoints |
| Authentication, `auth.py` | users and sessions files, failures, lockouts, login times | setup, login, logout, recover, change_* | router, endpoints |
| Sampler and alerts, `monitor/` | sampling thread, shards per day, cooldowns | start, stop, sample, evaluate | endpoints |
| Diagnosis, `diag/engine.py`, `diag/history.py` | the registry of the checkers, one for all runs; a pool of four threads in two stages; shards per day | import, run, append, prune, delete, clear | job threads; the repair endpoint asks the registry |
| Snapshots, `snapshot.py` | snapshot directories | create, restore (helper), reset_network (helper), prune | endpoints |
| Settings, audit log, router | settings.json; rotated log; sliding windows | get/set/update; record; dispatch | everything |
| Checkers, collectors, tools | none of their own | run a command, parse it | diagnosis, endpoints |
| Web page, `webui/assets/app.js`, `api.js` | token, page, hash, dialog, copies of the service's data, flags of work under way | the router, start, login, diagnosis, repair, history, monitor, snapshots, tools: async handlers | the user; asks the endpoints |
| Languages and clipboard, `i18n.js`, `clipboard.js` | chosen language, direction; the copy button | choose, set, translate; copy | the page |
| Language pack tools, `webui/tools/` | the file `i18n.js` | check parity, patch three keys | the build, developers |
| Go collector, packaging | BPF map; none | counting; building | the main service |

What is hard in this code, and what would make each part correct:

- *Bandwidth service*: four kinds of thread share fields, some of them read or
  assigned outside `_guard`. One task at a time; a task always gives the lock
  back; a forgotten server is stopped.
- *Helper*: every step between backup and answer may fail or be the last one
  before a crash. No configuration is lost; a failure is undone; an answer does
  not promise what did not happen.
- *Repair engine*: the client's timeout (45 s) is shorter than two commands of
  the helper (30 s each). What the history says must be what the helper did.
- *Job registry*: running jobs are never evicted; finished ones are, oldest
  first, and only so many of them stay.
- *History files*: read, extend, write, rename, with a lock in two places and
  without one in three. No lost entry, no error, the newest entries kept.
- *Authentication*: five failures lock the account however login and recovery
  are mixed; a revoked session stays revoked.
- *Sampler and alerts*: start after stop samples again; one alert per cooldown.
- *Diagnosis*: every check appears once in the report, also after a deadline. The
  registry of the checkers is filled at first use without a lock, while other runs
  look at it; what raises on the way must leave nothing at work and nothing filed.
- *Snapshots*: pruning keeps the newest; a failed reset is rolled back.
- *Web page*: one thread, but every handler waits for answers while the user,
  the timers and the other handlers go on, with one page, one dialog and one
  context of each kind between them; answers overtake each other and get lost, and
  the sampling thread, diagnoses, repairs and other tabs change the data meanwhile.
  What is shown is true or about to be loaded; without a token nothing private
  stays on show; a question asked is the question answered; spinners and locks end.
- *Languages*: 467 keys, 23 packs. Nobody gets a language while an earlier wish
  can be served; no text shows a bare `{1}`; right-to-left languages run so.

## 2. Plan

Done: `BandwidthSvc` with its proofs; `NetConfig` (abstract), `Helper` that
implements it, with the proofs; `Diagnosis`, composed of the job registry, the
engine and the history, which implements `BoundedLog` (abstract), with the proofs
of all three; `WebUI`, composed of the page's parts, with the proofs of all its
properties but two; `HistoryFile`, which implements `BoundedLog` too, and `Auth`,
joined in `Services`, with the proofs of all their properties.

The page has come before the rest of the services because most of the
repository's own code that is not Python runs in it, and because nothing but the
order of answers and clicks decides what it shows.

Left, in this order:

1. `FixFlow`: `FixEngine.fix` for several request threads, the client's timeout
   and the helper's queue. Composed with `NetConfig` instead of `Helper`, which
   `Refinement` justifies. Promise: a history entry with ok has a configuration
   change behind it; at most one change per slot of an action.
2. `Monitor`: start, stop and the sampling loop, and the cooldown of alerts. Its
   files are instances of `HistoryFile`.
3. `Snapshots`, composed with the helper's slot; the pure algorithms (sliding
   window of the router, deep merge of the settings, section edits of
   `server.py:280-347`) as operators.

Services that share no state may be scenes of `Services`, like those it has.
In modules with proofs recursion is a recursive function or a fold.

## 3. The modules

| Module | What it is |
|---|---|
| `BandwidthSvc` | `bandwidth/service.py` and the life of a `ServerSession` |
| `MCBandwidth` | instance for TLC |
| `BandwidthSvc_proofs` | type correctness, who holds the lock, one task at a time |
| `NetConfig` | what the rest of NetCheck may expect of the helper |
| `Helper` | `helper/server.py`: the dispatch pipeline, the disk, crash, restart |
| `MCHelper` | instance for TLC |
| `Helper_proofs` | type correctness, the invariant, recoverability, undo, ok means applied, refinement |
| `JobManager` | `jobs.py`: making a job, evicting finished ones, the end of a job |
| `DiagRun` | `diag/engine.py`: the registry of the checkers, two stages, a pool, a deadline |
| `DiagHistory` | `diag/history.py`: shards per day, retention over all of them |
| `Lists` | a list without some of its elements |
| `BoundedLog` | what the history promises |
| `Diagnosis` | the endpoints of `app.py` that put the three together |
| `MCDiagnosis` | instance for TLC |
| `Facts` | facts about naturals, the bits of octets, and lists |
| `Diagnosis_proofs` | what the registry keeps, what a report holds, what "done" means, types of `Diagnosis`, the shards implement the log, what is filed |
| `HistoryFile` | one file of `fix/engine.py`, `bandwidth/service.py` or `monitor/`: read, change, write, rename |
| `Auth` | `auth.py`: accounts, lockout, rate, sessions |
| `Services` | both, one in a behaviour |
| `MCServices` | instance for TLC |
| `Services_proofs` | types, order, whole lists and the log of the file; guesses, rate and sessions of the accounts |
| `ApiClient` | `api.js`: the handlers that wait, their tokens and answers |
| `WebShell` | `app.js`: router, render, start, login and lockout, logout, first account, recovery |
| `WebDiag` | `app.js`: running a diagnosis, the repair dialog |
| `WebData` | `app.js`: history, monitor, snapshots, tools |
| `LanguagePacks`, `I18n` | `i18n.js`: the packs, the choice of a language, `t()` |
| `Clipboard` | `clipboard.js`: copying a recovery code |
| `PackTools` | `webui/tools/`: the parity check and the patch |
| `Views` | `app.js`: the proposed gateway, the scale and axes of the monitor's chart |
| `WebUI` | the page as a whole: one scene per behaviour |
| `MCWebUI` | instance for TLC |
| `WebUI_proofs` | the invariants of the page and seven properties |
| `WebData_proofs` | types of the whole page; what is shown at rest is what is kept |
| `Scenes_proofs` | languages, texts, copy button, pack tools, proposed gateway |

**Faulty variants.** A definition such as `ReleaseAny`, followed by the right
one (`Release`), is a plausible mistake in that code. It is used by no action;
the properties are run with it in the place of the right one to see that they
fail.

### BandwidthSvc

One thread per job, one monitor thread per session (the thread that the
`server_start` of that session would create) and `Requests` HTTP threads. `pc`
says where a thread is; a step is one block under `_guard`, one blocking call,
or one access to shared state outside the lock. So `ReadToken` (line 199) is a
step apart from `StartJob` (lines 129-138), `ServerPublish` (line 72) a step
apart from `ServerAcquire` (line 63), and `server_stop` is five steps, which an
endpoint, `stop()` and the monitor may be in at once.

A dictionary put into `_active` is named after its job or its session, so `is`
and `==` of `_release` are equality of names; the dictionary that `server_stop`
builds has a name of its own (`ServerToken`), because it has neither key.
Measurements return ok, return an error or raise; the history write returns or
raises; `ServerLaunch` fails at will, and must fail while another session has
the port. Not modelled: progress percentages, the text of results, `status()`.

### NetConfig and Helper

`NetConfig` says that the saved configuration of one interface changes at once
or not at all, at the answer: `Succeed` may change it, `Fail` may not, `Doubt`
(the helper died or logged a CRIT entry) may have.

`Helper` has the files (`file`), what networkd last applied (`live`), the
backups with their directories `<<action, second>>`, the slots (`lastTs`) and one
request in work. The steps are those between which a crash leaves a different
disk: opening and filling the backup copy, the rename of the new file, each
command, opening and filling each file of a rollback. `Torn` is a file cut
short. `before` is the only variable the code has not: the files when the
request was taken up. The actions link-toggle, sysctl-ipv6, mtu-set, svc-restart
and net-reload without an interface differ only in the command (`Argv`). The text of
a file, its template and the edits of one key are values of `Contents`; what the
properties tell apart is whether a file is the old one, the asked one or torn.
`Targeted` needs an existing file because the code reads it first.
The client's socket, the token and the audit log's own write errors are left
out (an `OSError` of `audit` itself, outside the `try`, would end a request
as a 5000 without a log line).

`Prompt` is the one assumption about time: a request has made its backups
before the 30 s slot of its action is free again, and a new helper is not up in
the second in which the last one died. It is needed: with `Prompt = FALSE`
TLC finds a request whose rollback copies a file of another request, because
both made their backups in the same directory `action-second` (line 99-100). The
bandwidth of a disk decides whether this can happen on a device; so it is an
assumption of the theorems and is set in every run.

### Diagnosis

`JobManager`, `DiagRun` and `DiagHistory` have their own variables and actions;
`Diagnosis` joins them as `app.py:376-446` and `702-709` do: a request makes a
job (`DiagRunRequest`), whose thread reads the status, runs the two stages,
appends the report (`SaveReport`) and ends (`FinishJob`), while other jobs do
the same and other requests delete a report or clear the history. `ThreadFails` is the
job that is registered (`jobs.py:47`) and whose thread the system does not start
(line 64).

A job is the number of its making, which is the order of `_jobs`. `Evicted` is
`finished[: len(finished) - max + 1]` with Python's reading of a negative end
(`SliceLen`).

In `DiagRun` the runs share `loaded`, the keys of `_CHECKERS`. `LookUp` is
`if not _CHECKERS` (after the setup, which may raise): a run that finds nothing
imports the checkers (`Import`), one after the other in their order, also beside a
second run that has found nothing; each import is a step of its own. A run that finds
something goes on with it. `Take` is one turn of the loop over the registry, which
sees what has come in by then. `saw` is not in the code: what a run found. Each
check has a future (`check`), and `pending` and `reported` are the locals of `run_diag`.
After the deadline, which may pass at any moment, futures are cancelled one by one
(`Drop`) while checks that run go on and may end, and the stage is left only when
none runs (`LeavePool`: the `with` of the pool waits). An exception can come from the
setup, from an import, from the loop (`SubmitRaises`: the dictionary grows under it,
`na_fn`, `na()`, a pool without threads), from a checker that returns `None`
(`ReadRaises`: line 137 is outside the `try`), from the report or from a write that
is no `OSError` (`SaveRaises`). `Raise` loses what the run had, the pool is waited for
(`Unwind`), and the job fails. A registry that an import has left half filled stays
so. The repair endpoint's own look at the registry (`app.py:626`) is, for the runs, a
run that raises once it has it.

`DiagHistory` has one sequence per day. Its operations hold one lock throughout,
so each is a step; an `OSError` may end one in its middle (`AppendFails`,
`DeleteFails`, `ClearFails`). `Stored` are the reports that an earlier process of the
service left. `ImplementsLog` maps the shards, joined in the
order of the days, to the log of `BoundedLog`. `Without` (in `Lists`) is a recursive
function, not `SelectSeq`, so that the provers can reason about it. Not modelled: `JobManager.stop`,
which nothing calls; a shard that cannot be read (the code takes it for empty,
and the next append replaces it); a clock that goes back; a crash in the middle of
an operation (the files are replaced by renames, and nothing is recovered at the
start); the contents of a report and its score.

### HistoryFile

An operation of any of the files is the same: read the list (`Shown`: a missing or
broken file is an empty list), put a record before or behind it, or take one
out, cut it to `Keep` (`Newest`), open `<file>.tmp` for writing, write, rename. Each
of these is a step, after which another thread may run, an `OSError` may end the
operation (`FileFails`) or the service may die (`FileCrash`). `locked` says, for
a whole behaviour, whether the file is the one of the repairs, whose operations hold
`_history_lock` from the read to the rename (`engine.py:298-302`), or one of the
others, which hold none. Only the repairs are deleted one by one or cleared.

Since a thread keeps writing to the inode that it opened, whatever its name has
become, the state has inodes: `name` (of the file and of its `.tmp`), `data` (what
each holds) and `fd`. Two threads without a lock open the same `.tmp`, cut each
other's text short, leave a mixture (`Torn`), rename it, and find no `.tmp` to rename.
`begun` and `failed` are not in the code: the records ever made, in their order, and
the end of the last operation. A record is made once and has an id of its own. The
pruning of old days, the table of the latest results of `service.py:270-272`, and what
a disk loses when the power fails are left out.

`LogSeen` maps a file with a lock to the log of `BoundedLog`; of a file without one
nothing of the kind holds.

### Auth

`now` is the clock, in units that the constants share. `failures`, `lockedUntil` and
`times` are the three tables by name in lower case, in memory; `sessions` is the file,
token to end, with 0 for a token that is not in it. A step is what the holder of the
`RLock` does up to the write of the sessions file: the counters change at the
beginning of a request (`Login`, `Change`, `Recover`), and `work` is what it is
about to write; `Store` writes it and answers, `StoreFails` is the `OSError`. `logout()`
reads (`LogoutReads`) and writes (`LogoutWrites`) without the lock: `leaving` is what
each client's logout has read. `AuthRestart` may come at any moment; the counters
are lost, the files stay. `guesses`, `tries`, `granted` and `beside` are not in the
code: the times of the failures in a row and of the admitted logins, the sessions
that should be there, and whether a logout has run beside another request that writes
the sessions. Not modelled: hashing and the secrets, the rotation of the recovery
code, a clock that is set back.

### Services

A behaviour is one scene: the file of the repairs, a file of measurements (bandwidth,
samples or alerts), or the accounts.

### ApiClient, WebShell, WebDiag, WebData, WebUI

A step is what JavaScript runs without giving way: a click, a `hashchange`
event, a timer, or a handler from one `await` to the next. `calls` has one slot
per handler that waits: which one (`op`), the token its requests carry, the answers
so far. The service answers when it likes (`Serve...`), each answer with what the
service knew at that moment, or the request fails (`Refuse`; a change may have
been made although its answer is lost). When all answers of a slot are in, the
handler may resume, before or after any other. `alone` and `trust` are not in the
code: they say whether loads and changes of the same data overlapped, of this page
or of others.

`token` is `API.token`; `hash` and `hashEvent` are the address and the event that
the browser has yet to deliver; `dom` is what is under `#app`: the page, and of the
login page the lockout box (`lock`), the button (`off`) and which waiting logins
remember this very button (`own`), since `render()` makes new elements. Before the
first render the page is `Blank`; `state.page` is then the dashboard (`Current`).
`modal` is what is under `#modalRoot`, which no render touches. `Landing` is the
guard of `route()`, `Nav` is `nav()`: the same hash routes at once, another one
through the event. A handler that no longer finds its elements ends with a
`TypeError` and does nothing more (`LoginEnd`, `FixEnd`, `ToolEnd`); so does the
model. The form is not checked before a request: an input the page refuses
changes nothing but a message.

`kept` are the service's data and `shown` the page's copy: records as model
values, samples and snapshots as counts, and the days of the range that was asked
for. `loadHistory()` gets one page of the diagnoses (`FirstPage`; which of them are the
newest is abstracted) and all repairs that `fixHistory` answers with. Snapshots are
counted as they are made; that the oldest are pruned is left to `Snapshots`.

The page is not the only one that changes `kept`. `OthersHistory` files a
diagnosis or a repair, also one of this very page, which does not load the history when it ends
(`app.js:809-823`, `966-983`), prunes, or is another tab that deletes or clears;
`OthersMonitor` is the sampling thread (`sampler.py:65-70`), which adds a sample also
after it was switched off when it was at one, or another tab's switch;
`OthersSnapshots` is another tab or a reset of the network (`snapshot.py:112-116`). Each
may come at any moment in the scene that shows its data. `Meanwhile` notes that the
copy and the answers on their way may be out of date. Left out: that samples grow older
than the range between two loads. `loadMonitor()` asks for the alerts beside the samples; their list is left
out. Refusals and errors are all `"no"`: `API.request` turns network errors, bad
bodies and the platform's own envelope into codes (5000, 5001), and no caller
distinguishes them by anything but the text it shows. The lockout (`"locked"`) is
the exception.

`WebUI` joins the parts. A behaviour is one scene, what its user does: `Visits`
and `Does` are the pages and operations of a scene, so that what never meets in a
user's session is not multiplied. Languages, copy button, pack tools and `Views`
share no state with the handlers and have scenes of their own.

### LanguagePacks and I18n

A pack is the set of the keys whose text is still the English one; the English pack
is the number of placeholders of each key. Both are read off the file, key by key,
except that of the `diagmsg` keys only those with placeholders, and those that
every pack translates, are named: most packs leave the other texts of the diagnosis in
English. `Match` is one turn of the loop of `resolveBrowserLang`, `t` says in
which language a text comes out and which placeholders are left. `GivenOnPages`
and `GivenToDiag` are how many values the calls of `t()` in `app.js` pass.

### Views

JavaScript's `<<` takes its distance modulo 32 and works on 32 bits; TLC's
integers end at 31. `Masked` therefore works on octets. The chart keeps positions
as fractions; `null` and 0 are the same sample, because `Number(null)` is 0. That
only the last 120 samples are drawn, and values that are no finite numbers, are left
out.

## 4. Runs

| Run | Shows | Bounds |
|---|---|---|
| `bandwidth_safety` | one task, unless a runner read a foreign token | 2 jobs, 1 session with monitor, 2 requests: every pair of operations overlaps |
| `bandwidth_live` | a job gives the lock back; a forgotten server is stopped | 1 job, 2 sessions (a monitor found alive and found dead), 1 request |
| `bandwidth_single` | *violated*: "Single active task OR server session (F18)" | 3 jobs: the one stopped early, the one robbed of its lock, the one let in |
| `bandwidth_server_lock` | *violated*: the service is free after the server was stopped | 2 jobs, 1 session |
| `helper_single` | undone or reported, ok means applied, implements `NetConfig` | net-apply and dns-set (a new file, an existing one, two commands); 2 interfaces, 2 texts, 1 crash, 2 seconds, window 1, so each action may be used twice |
| `helper_restore` | recoverable; every request is answered | snapshots of 1 and 2 files in each order, net-reload, commands; 1 crash, window 2, so that the second request of an action meets the slot |
| `helper_stale` | *violated*: a restored file has the text it has in the snapshot | 2 interfaces |
| `helper_partial` | *violated*: a restore that fails leaves the files as they were | backups in two different seconds, or a new file |
| `webui` | the fifteen properties of the page, see below | 2 handlers waiting at a time, 2 sessions, 2 lockout clocks, 2 of the 120 questions of a diagnosis; 2 diagnoses and no repair in the history, in pages of one; 1 sample, 2 snapshots made, ranges of 7 and 30 days; packs of 3 languages, 2 keys; 14 scenes |
| `webui_rtl` | *violated*: Arabic and Hebrew run from right to left | 23 languages, 7 kinds of wishes |
| `diagnosis` | only finished jobs are evicted, oldest first, one result stays; a run reports every check it answers for once, in its stage; done means that; a report is filed once, with that, at the end of its run; the shards are one log; every job with a thread ends | 3 jobs, threads for 2 of them, room for 2; 1 local and 2 external checks, imported one by one; 1 worker, so that a check can wait in the queue; a second run to which no check applies; 1 report of an earlier process, 2 kept, 2 days |
| `services` | a file: with the lock whole lists and a log of the newest, without it no record twice or before an older one. The accounts: guesses and logins as rare as promised; the file has the sessions granted and not ended | 2 threads, 3 records, 2 kept, 3 inodes; 2 names, 2 tokens, 1 client that logs out; lockout after 2 failures for 2, 2 logins in 2, sessions of 2, clock up to 3 |

The properties of `webui`: without a token no private page stays
(`LoggedOutIsPublic`), the lockout box locks the form and has a clock that ends it
(`LockLocksForm`), the form for a first account appears by itself only on a
service without one (`NewOnlyIfNew`), a recovery code is not swept away
(`CodeStays`), spinners have a handler (`BusyHasCall`) and end
(`BusyEnds`), the dialog deletes what it names (`DeleteWhatIsAsked`), what is
shown at rest is what is kept, from one undisturbed load on and through the page's own
changes, until loads overlap, a request fails or somebody else changes the data
(`AtRestTrue`), the right language
(`LanguageKept`), no confirmation in a foreign one and no bare placeholder
(`TextsFit`, of `AsksInOwnLanguage` and `HolesMatch`), the patch tool keeps what people wrote (`PatchSafe`),
the proposed gateway is a host (`GatewayIsHost`), the chart is inside its axes
(`ChartInside`), and "copied" is true (`CopyTold`). `TypeOK` is there for the
pages: every sequence of addresses ends on a page that exists.

Two slots are the least at which answers overtake each other, and every pair of
handlers of a scene meets in them; a click that finds no free slot waits. Two
sessions allow a login after a lost or a cleared one; two clocks a second lockout
during a first. Two questions are a first one and a last one. The rule for a third
handler is that of the second: each meets only the page and one context of each
kind, and the theorems of `WebUI_proofs` and `WebData_proofs` hold for any number of
them. The wishes
are a list of one or two tags out of: a pack, a listed variant, a region nobody
lists, an old code, a base with one or two packs, an unknown one. Addresses and
prefixes lie at the boundaries of octets and of the shift; samples at the
steps of the scale (9, 46, 47, 93, 1000), up to three in every order.

`LastJob`, `Threads`, `Quick`, `Stored` and `LastDay` bound the diagnoses: two with a
thread are the least that make both registries and the history shared: one imports
the checkers, the other finds none, some or all of them. The thread of any job may
fail to start, that of the third always does, which finds the registry of jobs full. `Quick` names the jobs to which no check applies: the second run
shares registry and files with the first, and needs no pool of its own for that. The
theorems have no such bound.
In `services` three records are the least of which one is cut off; two threads never
have more than three inodes in use (the file, its `.tmp`, and one that only a thread
still has), and a third one finds what a second one finds. `MaxTime` is
the first moment after a lockout, a window and a session that begin at 1, so all
three end, and the next failure, login or session comes; the theorems of `Services_proofs` have no such
bound. The two names are an account's and another one; a second client's logout
would only be one more way to `beside`. Symmetry in the names and tokens: only safety is
checked. Deadlock is checked: a restart is always possible.

The invariants that make the properties of two runs inductive, `LockInv` (with
`LockHolderRuns`) and `HelperInv`, are not in the runs: theorems state them for every
instance. `Registry` is three properties of the job registry: who runs is tracked, few
finished jobs are, and the newest of them.

`MaxClock` and `MaxCrashes` bound the behaviours; two seconds are enough for a
backup directory of an earlier request to lie beside the present one, and one
crash for each place it can happen (a second crash finds the state of a first
one: nothing is recovered at the start). Symmetry in the interfaces or threads is
used where only safety is checked. Deadlock is not checked for the helper: a
helper that died stays dead (its unit has no `Restart=`), and the clock stops.

**Fairness.** For the bandwidth service: each runner and each monitor is
scheduled (weak fairness; each waits for nothing but timeouts of subprocesses
and sockets), a lifetime passes, and a request thread that has begun a call
finishes it. Nobody is obliged to make a request. For the helper: `Work`, the
steps of `dispatch`, each of which ends because every command has a timeout. No
fairness is asked of clients, of the clock or of a restart. For a diagnosis: the
threads of each job that has one, and of its pool (`Job`, for the jobs of `Threads`);
commands and connections of a check have timeouts, and nobody is obliged to ask for
a run. Deadlock is not checked there: when all jobs are over and the
history is empty, nothing is left to do. For the page: every waiting handler goes
on (its requests are answered or fail, as `fetch` does in the end, and the event
loop runs what is ready), and timers fire; it is asked for in the scenes where
something shows that it is at work (`Working`), as nothing waits for it in the others. Users are free to do nothing, and the
page may then be at rest for ever, so deadlock is not checked. `services` asks for no
fairness: its properties are safety only.

### What disagrees with its documentation

1. `service.py:199`: a runner that starts late takes another task's entry for its
   token and later frees that task's lock; two tasks run (`bandwidth_single`).
2. `service.py:95`: after `server_stop` the service stays busy for ever
   (`bandwidth_server_lock`).
3. `server.py:220`: a restore writes the last file's text to all (`helper_stale`).
4. `server.py:229`: half a rollback (`helper_partial`).
5. `i18n.js:10841`: a page opened in Arabic or Hebrew is not right-to-left, because
   the direction is set before the table it needs exists (`webui_rtl`).

Met while modelling, and left to the reader of the code rather than to
runs:

- `engine.py:59`: the registry counts as filled from its first checker on. Of two
  diagnoses at first use the second may report only the checkers imported by then, become
  done and be filed so, or fail because the dictionary grows under its loop; after an
  import that failed part-way every later run reports only those before it.
  `README.md:12` says "Nine check groups cover the whole path", and
  `tests/test_diag.py:453` expects 35 checks of a full run. `OncePerCheck`,
  `DoneMeansComplete` and `ReportFiled` ask for all checks of a run that found the
  registry empty, and for those it found of any other (`Owed`).
- `jobs.py:64`: a job whose thread cannot be started is registered all the same; it
  counts as running for ever and is never evicted.
- `app.js:809-823`, `966-983`: a diagnosis or a repair that ends does not load the
  history again, and nothing of what the sampling thread or another tab changes is shown
  before the next load. `AtRestTrue` names this as its exception.
- `auth.py:230`: a logout rewrites the sessions file for any token, known or not.
- `server.py:193`: a net-apply on an interface without a file answers ok although
  networkctl failed, since line 193 asks for a backup before it looks at the result;
  lines 6-7 say "always finish with reload + reconfigure". `OkMeansApplied` names it
  as its exception.
- `sampler.py:120-133`, `alerts.py:57-70`, `bandwidth/service.py:264-278`: the list is
  read, extended and renamed into place without a lock by several threads, so a record
  may be lost, or the whole list be taken for empty; `sampler.py:161` says "each shard is
  append-only". `OldestFirst` is what is left of that.
- `auth.py:231`: a logout that has read the sessions before a recovery revoked them, and
  writes after it, brings them back, and takes away one that a login has just given;
  `tests/test_auth_security.py:49` says "revokes sessions". `SessionsAsGranted` holds
  as long as no logout runs beside.
- `app.js:1214`: `Number(null)` is 0, so a sample without a round-trip time is
  drawn as zero; `tests/test_layout.js:76` says "without treating them as zero".
- `app.js:1161`, `1180` and `1366` call `t()` without the value of the text's
  `{1}`; `tests/test_i18n.js:87` says "Placeholders must localize and interpolate
  safely". `HolesMatch` leaves these three calls out by name.
- `app.js:981`: the answer of a repair goes to the repair that is open then.
- `app.js:821`: the end of a diagnosis shows its page after a logout too;
  `LoggedOutIsPublic` leaves it out by name.
- `app.js:1544` and `381`: a late answer to an earlier status query or logout
  clears the token of a later login.
- `app.js:413-415`: a login whose page was redrawn takes the lockout box of the
  new page away and switches on the old button: the new one stays off until the
  page is drawn again.
- `app.js:858`: the proposed gateway may be the interface's own address.
- `i18n.js:10825`: `zh` and `zh-Hant-TW` lead to the next wish or to English.
- `patch_compliance_i18n.js:79`: packs that `LOCALES` does not list are dropped,
  although line 7 promises that only three keys are rewritten.
- `i18n.js:1` speaks of 21 packs; there are 23.

## 5. Proofs

`BandwidthSvc_proofs`, from `NamesAssumption` alone (names of different things are
different), for any number of jobs, sessions and requests:

- `TypeCorrect`: with, for every thread, what its local variable refers to where.
- `LockInvariant`: `LockHolderRuns` and `SingleActiveOwnTokens` are not inductive.
  `TokenInv` says that a runner which did not find itself in `_active` will not
  be there later; `NotRunningInv` that whoever gives the lock back has seen to
  it that the job no longer counts as running; `SessionInv` that a session belongs
  to one request until it listens; `OwnerInv` that with own tokens everything
  active is what `_active` says.
- `LockHolder`, `SingleTask`: from `LockInvariant`. `SingleTask` makes finding 1
  precise: it is the only way to two tasks.

`Helper_proofs`, from `HelperAssumption` (finitely many interfaces, a window of at
least a second) and, where backups matter, `Prompt`:

- `TypeCorrect`.
- `HelperInvariant`: `DirInv` (no directory of the present second belongs to an
  action whose slot is free) makes the backups of the request in work its own;
  `RequestInv` says which files it has changed; `BackupInv` that its backups hold
  the texts of before; `UndoInv` that a rollback copies only those; then no step
  takes away the last copy of a file.
- `AlwaysRecoverable`: for every action and at every point of a crash.
- `FailureIsUndone` and `Refinement`: without snap-restore, for which
  `helper_partial` shows that they do not hold.
- `OkIsApplied`: without snap-restore (`helper_stale`). Its invariant `OkInv` follows
  one request through the pipeline: before each command the file has the asked
  text, and before the last of two networkd has it.

`Diagnosis_proofs`, for any number of jobs, of checks and of threads and any size of
the registry, from the assumptions of `JobManager` and `DiagRun`:

- `RunningStays`, `FewFinished`, `LastResultKept`: the registry. `OldestMany` says that
  the n oldest of at least n jobs are at least n; the oldest job that is not among
  them has n older ones, all of which are. `NewestNot` says that the newest is
  not among them. `Slice` treats both signs of the slice's end (`jobs.py:45`), which
  a small registry does not reach with more than one finished job.
  `LastResultKept` needs room for two: a registry of one evicts its last result.
  `RegistryKept` joins the three.
- `ReportComplete`, `StagesStayApart`, `DoneIsComplete`: `OncePerCheck` is not inductive.
  `RunInv` says for each check where it may be and whether it is reported, by the phase
  and the stage of its run (`Fits`), which checks a run has passed over: only those it
  did not answer for; that those it answers for are in the registry once it is in its
  loop, also if other runs import beside it (`Whole`); and which phase goes with
  which state of the job (`InStep`). An exception takes all results away, so a run
  that raised is never taken for a complete one.

And, with `HistoryAssumption` (at least one day and one report to keep), in the same module:

- `HistoryIsLog`: the files implement `BoundedLog`, whose log is `FlattenSeq(shards)`,
  and which may begin with the reports of an earlier process.
  Appending to today's file is appending to the log only because no later day has
  a file; clearing some of the files takes away a set of reports, as the log does it,
  only because no report is in two of them; and a report is new to the log only
  because its job is not over. These three are `Filed`; `HistoryInv` is inductive
  only together with the types of registry and runs. Each of the operations that a
  full disk ends half-way is shown to be a step of the log, too. `DropDays` says that
  dropping the oldest n reports file by file drops the first n of the log,
  `WithoutDays` that taking reports out of each file takes them out of the log.
- The lemmas about lists go by `ListInduction`, which speaks of sets of lists: the
  library's induction takes an operator as its parameter, and a set does the same
  where the property can be the condition of a subset of `Seq(S)`.
- `TypeCorrect`: the types of all of `Diagnosis`.
- `FiledWhenComplete`: a report comes into the history only at the end of its own
  run, with all that the run answers for, and never comes back. From `HistoryInv` and `RunInv`: what an
  operation leaves is part of what was there, and of the new report (`Listed`).

`Services_proofs`, with `FileAssumption` (something is kept; no thread or inode is
`None`, and no list is `Torn`) and `AuthAssumption` (there is a limit of failures, a
rate and a lifetime of sessions):

- `FileTypes`, `FileInOrder`: for any number of threads and records, with the lock and
  without. `FileBase` is about every list there is, in an inode or in a thread's
  variable: its records are among those made, in their order. Each step cuts, extends
  or copies such a list (`OrderedAppend`, `OrderedNewest`, `OrderedWithout`).
- `FileNeverTorn`, `FileFailureKeeps`, `FileIsLog`: with the lock. `FileInv` says that
  who is at work holds the lock, that nobody else has a file open, that the `.tmp` of
  the one who has written holds its list and is not the file, and that this list is
  what the log's next step makes of the file as it still is (`Asked`). Opening and
  writing change no shown list; the rename is one step of the log; an error and a crash
  leave a `.tmp` that the next operation cuts.
- `GuessesAreBounded`: `CountInv` says that `failures` is the number of guesses since
  the last lockout began, and that a name is locked for `Lockout` after the guess that
  began it; the times are ascending. So of any `MaxFailures + 1` guesses in a row two are on
  different sides of a lockout.
- `RateIsKept`: `RateInv` says that the list of recent times is the end of all of them
  and that what was cut off is a window away. `RecentIs` is about the list
  comprehension of `auth.py:186`, which keeps an end of the list as the times ascend.
- `SessionsStand`: `SessInv` says what a request has read and is about to write,
  compared with the file as it is: it differs in the request's own token and in
  sessions that have ended.
- `ServicesAreBoth`, `ServicesTypes`: a behaviour of `Services` is one of `HistoryFile` and
  one of `Auth`, so all of these hold of what the run checks.

`WebUI_proofs`, for any set of slots, tokens, records, clocks and polls (from
`SlotsAssumption` and the like alone):

- `PageInvariant`: `PageInv` is the conjunction of `Shapes` (the records and tables
  have their fields), `BlankIsStart` and the three properties. `BlankIsStart` is what
  makes `LoggedOutIsPublic` inductive: a late `loadDashboard()` draws
  `state.page`, which is the dashboard before anything is drawn; so before the first
  render nothing but `boot()` may wait, and the second half of `boot()` only
  with a token.
- `SafeLoggedOut`, `SafeLock`, `SafeDelete`: the three properties. The proof has one
  lemma per kind of step (nothing changes, the page is drawn again, a dialog
  changes, `nav()`, `route()`), and one step per action that cites them.
- `SafeBusy`: `BusyInv` joins the four flags of work under way, each
  with the handlers that may wait for it. A flag is set when a handler begins to wait
  and cleared when one ends; the first of two to end clears it, so the converse
  does not hold.
- `SafeNewPage`, `SafeCode`: action properties, from `PageInv`. Every handler that can
  draw the form, or take a dialog away, is one that the property names.

`WebData_proofs`, for any number of handlers and records (with `FrameAssumption`,
`TokensAssumption` and `RecordsAssumption`: bounds are naturals, there is a range, and
the records of diagnoses and of repairs differ):

- `SafeTypes`: `TypeInv` gives each handler the requests it may wait for and each
  answer the shape that its handler reads (`FitCall`), which is what the page relies
  on without a check: a handler never finds an answer of another kind in its slot.
- `RestInvariant`: `RestInv` is about answers, which are used long after they were
  given. `Undisturbed`: a handler marked `alone` has nobody of its kind beside it.
  `StillTrue`: so its answers are still what the service keeps, for a step of somebody
  else takes the mark from every handler with an answer, and one without an answer
  asks later. The answer to the monitor's switch is still true only while the copy is
  trusted, as another tab may switch too. `OneToggle`: the lock of the switch lets
  one handler at a time ask for a change. `Shows`: the copy is true where it is trusted
  and quiet; of the diagnoses it is a first page, whatever the size of a page.
- `SafeAtRest`: `AtRestTrue`, from the last of these. `FixRecords` may be any set here; in
  the run it is empty, as repairs come and go as diagnoses do.

`Scenes_proofs`:

- `SafeLanguage`, `SafeConsent`, `SafeHoles`, and of the last two `SafeTexts`: for every list of wishes of any length, of
  tags of any form (`WishesAssumption`). `LanguageInv` says that the language on show is
  the one stored, or else the one the list resolves to (`Loaded`); the lemmas say
  what one turn of the loop of `resolveBrowserLang` returns.
- `SafeCopy`: the button says "copied" only with the code in the clipboard.
- `SafePatch`: for any packs and keys; `PatchedTwice` is that the patch is idempotent.
- `SafeGateway`: for every address and prefix (`ViewsAssumption`, which is what
  app.js:861-863 lets through). Masking an octet keeps its high bits and clears the
  others (`MaskedOctet`); the last octet has at least one cleared bit, so one more
  changes only its lowest one and carries into no other octet.

Only model-checked:

- liveness (`JobLockFreed`, `SessionAutoStops`, `Answered`, `JobEnds`, `BusyEnds`): out
  of the provers' reach;
- `ChartInside`: its samples are put in order by `SortSeq`, which the provers take for
  an unknown function, as the module that defines it does by `CHOOSE`;
- snap-restore but for `TypeCorrect`, `HelperInvariant` and `AlwaysRecoverable`: the
  other theorems of `Helper_proofs` do not hold for it (findings 3 and 4).

## 6. Not modelled

The parts of section 2 not yet done. Beyond those: the checkers, collectors and
network tools (they run a command and parse its output, and keep no state),
packaging and release scripts, and the bodies of the measurements. Of the page: its
layout and wording, the theme, the version, the settings and about pages (they
read and write single values), the list of alerts on the monitor page, and the
calls for bandwidth in `api.js`, which no page makes. Of the HTTP layer only what a service sees of it is
modelled: calls by several threads at once.
