------------------------------- MODULE Helper -------------------------------
(***************************************************************************)
(* lib/netcheck/helper/server.py: the privileged helper's dispatch         *)
(* pipeline "validate -> backup -> execute -> verify; rollback on          *)
(* failure".  The accept loop takes one request at a time, so there is one *)
(* request in work and a program counter; a step ends where a crash, a     *)
(* disk error or a failing networkctl can leave its mark.                  *)
(*                                                                         *)
(* On disk: the 10-<iface>.network files and the backup directories, named *)
(* after the action and the second of the backup.  In the kernel: what     *)
(* networkd last applied to each link.                                     *)
(***************************************************************************)
EXTENDS Integers, Sequences, FiniteSets, Functions

CONSTANTS
  Ifaces,      \* interfaces, each with its own .network file
  Contents,    \* what a complete .network file may say
  Absent,      \* there is no such file
  Torn,        \* the file was cut short while it was copied
  None,        \* Python's None
  Actions,     \* the whitelist actions clients use
  Window,      \* the seconds between two requests of one action
  MaxClock,    \* bound: the clock stops there
  MaxCrashes,  \* bound: how often the helper dies
  Prompt       \* the backups of a request are done before its slot is free
               \* again, and a new helper is not up in the second of a crash

TargetedActions == {"dns-set", "gateway-set"}
FileActions == TargetedActions \cup {"net-apply", "snap-restore"}
\* "argv" stands for link-toggle, sysctl-ipv6, mtu-set, svc-restart and
\* net-reload without an interface: one command and no file
AllActions == FileActions \cup {"net-reload", "argv"}

ASSUME HelperAssumption ==
  /\ IsFiniteSet(Ifaces)
  /\ Absent \notin Contents /\ Torn \notin Contents /\ Absent # Torn
  /\ None \notin Ifaces /\ None \notin AllActions \X Nat
  /\ Actions \subseteq AllActions
  /\ Window \in Nat \ {0} /\ MaxClock \in Nat /\ MaxCrashes \in Nat
  /\ Prompt \in BOOLEAN

VARIABLES
  file,      \* interface -> its .network file
  live,      \* interface -> the file networkd last applied to the link
  backups,   \* the files in the backup directories
  lastTs,    \* _last_action_ts
  clock,     \* time.time(), in seconds
  crashes,
  pc,        \* where dispatch() is; "idle" in accept(), "down" when dead
  req,       \* the request in work, or the last one
  k,         \* position in the loop over req.order
  bdir,      \* backup_dir: <<action, second>>, or None
  undo,      \* _rollback: the files of bdir still to copy, and the open one
  reply,     \* the last answer
  before     \* the files when the request was taken up (not in the code)

disk    == <<file, live, backups>>
request == <<req, before>>
vars    == <<disk, lastTs, clock, crashes, pc, request, k, bdir, undo, reply>>

Texts   == Contents \cup {Absent, Torn}
Backups == [dir : AllActions \X Nat, iface : Ifaces, content : Texts]
NoUndo  == [left |-> {}, now |-> None]
NoReply == [ok |-> FALSE, crit |-> FALSE, some |-> FALSE]
NoReq   == [action |-> "none", order |-> <<>>, want |-> <<>>]

\* The orders in which listdir() may return the files of a snapshot.
Orders == UNION {Injection(1..n, Ifaces) : n \in 1..Cardinality(Ifaces)}

-----------------------------------------------------------------------------
(* The end of a request: the answer, and whether the audit log got a CRIT. *)
(* (Here and below, a definition that is followed by a correct one of      *)
(* nearly the same name is a faulty variant: the properties are tried on   *)
(* it to see that they notice.)                                            *)

Answer(ok, crit) ==
  /\ pc' = "idle"
  /\ reply' = [ok |-> ok, crit |-> crit, some |-> TRUE]

\* An exception leaves dispatch() at its except clause: 5000, nothing undone.
RaiseUnlogged == Answer(FALSE, FALSE) /\ UNCHANGED undo
Raise == Answer(FALSE, TRUE) /\ UNCHANGED undo

FilesOf(dir) == {b \in backups : b.dir = dir}

\* What follows a command that failed: the rollback if there is a backup; if
\* there is none, net-apply answers ok and every other action answers not ok.
AfterFailureNoRollback == Answer(FALSE, FALSE) /\ UNCHANGED undo
AfterFailure ==
  IF bdir # None
  THEN /\ pc' = "rollback"
       /\ undo' = [left |-> {b.iface : b \in FilesOf(bdir)}, now |-> None]
       /\ UNCHANGED reply
  ELSE Answer(req.action = "net-apply", FALSE) /\ UNCHANGED undo

-----------------------------------------------------------------------------
(* dispatch(): parameters, the 30 s slot of the action, then its handler.  *)

\* 1002: the parameters do not validate.  1003: the slot is taken.
Reject ==
  /\ pc = "idle"
  /\ Answer(FALSE, FALSE)
  /\ req' = NoReq
  /\ before' = file
  /\ UNCHANGED <<disk, lastTs, clock, crashes, k, bdir, undo>>

\* The slot is used up before anything is known about the request.
Begin(a, order, want, start) ==
  /\ pc = "idle"
  /\ a \in Actions
  /\ clock - lastTs[a] >= Window
  /\ lastTs' = [lastTs EXCEPT ![a] = clock]
  /\ req' = [action |-> a, order |-> order, want |-> want]
  /\ before' = file
  /\ k' = 1
  /\ bdir' = None
  /\ pc' = start
  /\ reply' = NoReply
  /\ UNCHANGED <<disk, clock, crashes, undo>>

\* The rendered or edited text of one file, or the texts of a snapshot: all
\* of them have passed syntax_check before anything is written.
NetApply(i, c) == Begin("net-apply", <<i>>, [j \in {i} |-> c], "backup")
Targeted(a, i, c) ==
  /\ file[i] # Absent
  /\ Begin(a, <<i>>, [j \in {i} |-> c], "backup")
SnapRestore(order, want) == Begin("snap-restore", order, want, "backup")
NetReload(i) == Begin("net-reload", <<i>>, <<>>, "reload")
Argv == Begin("argv", <<>>, <<>>, "argv")

\* 1002 of a handler: no such file, no such snapshot, a text that fails
\* syntax_check.  The slot is gone.
Refuse(a) ==
  /\ pc = "idle"
  /\ a \in FileActions \cap Actions
  /\ clock - lastTs[a] >= Window
  /\ lastTs' = [lastTs EXCEPT ![a] = clock]
  /\ req' = NoReq
  /\ before' = file
  /\ Answer(FALSE, FALSE)
  /\ UNCHANGED <<disk, clock, crashes, k, bdir, undo>>

Accept ==
  \/ Reject
  \/ \E a \in FileActions : Refuse(a)
  \/ \E i \in Ifaces : NetReload(i)
  \/ Argv
  \/ \E i \in Ifaces, c \in Contents :
       NetApply(i, c) \/ \E a \in TargetedActions : Targeted(a, i, c)
  \/ \E order \in Orders : \E want \in [Range(order) -> Contents] : SnapRestore(order, want)

-----------------------------------------------------------------------------
(* _backup_file() and _atomic_write(), for one file of the request.        *)

Current == req.order[k]

Store(dir, i, c) ==
  backups' = {b \in backups : b.dir # dir \/ b.iface # i}
               \cup {[dir |-> dir, iface |-> i, content |-> c]}

\* copy2 opens the copy ...
BackupOpen ==
  /\ pc = "backup"
  /\ file[Current] # Absent
  /\ bdir' = <<req.action, clock>>
  /\ Store(<<req.action, clock>>, Current, Torn)
  /\ pc' = "copying"
  /\ UNCHANGED <<file, live, lastTs, clock, crashes, request, k, undo, reply>>

\* ... and fills it; the digest goes to meta.json.
BackupCopy ==
  /\ pc = "copying"
  /\ Store(bdir, Current, file[Current])
  /\ pc' = "write"
  /\ UNCHANGED <<file, live, lastTs, clock, crashes, request, k, bdir, undo, reply>>

BackupNoneUnchecked ==
  /\ pc = "backup"
  /\ pc' = "write"
  /\ UNCHANGED <<disk, lastTs, clock, crashes, request, k, bdir, undo, reply>>
BackupNone ==
  /\ pc = "backup"
  /\ file[Current] = Absent
  /\ pc' = "write"
  /\ UNCHANGED <<disk, lastTs, clock, crashes, request, k, bdir, undo, reply>>

\* What is written: `content', which after the loop that checks the texts of a
\* snapshot is the text of the last file.
Content == req.want[req.order[Len(req.order)]]

WriteOffByOne ==
  /\ pc = "write"
  /\ file' = [file EXCEPT ![Current] = Content]
  /\ IF k <= Len(req.order)
     THEN k' = k + 1 /\ pc' = "backup"
     ELSE k' = 1 /\ pc' = "reload"
  /\ UNCHANGED <<live, backups, lastTs, clock, crashes, request, bdir, undo, reply>>
WriteSameFile ==
  /\ pc = "write"
  /\ file' = [file EXCEPT ![Current] = Content]
  /\ IF k < Len(req.order)
     THEN k' = k /\ pc' = "backup"
     ELSE k' = 1 /\ pc' = "reload"
  /\ UNCHANGED <<live, backups, lastTs, clock, crashes, request, bdir, undo, reply>>
Write ==
  /\ pc = "write"
  /\ file' = [file EXCEPT ![Current] = Content]
  /\ IF k < Len(req.order)
     THEN k' = k + 1 /\ pc' = "backup"
     ELSE k' = 1 /\ pc' = "reload"
  /\ UNCHANGED <<live, backups, lastTs, clock, crashes, request, bdir, undo, reply>>

\* A disk error: makedirs, the copy, the temporary file; or chmod, after
\* os.replace has put the new file in place.
DiskError ==
  /\ \/ pc \in {"backup", "copying", "write"} /\ UNCHANGED file
     \/ pc = "write" /\ file' = [file EXCEPT ![Current] = Content]
  /\ Raise
  /\ UNCHANGED <<live, backups, lastTs, clock, crashes, request, k, bdir>>

-----------------------------------------------------------------------------
(* _reload_reconfigure() for every interface of the request, and what      *)
(* follows.  A command fails or times out after 30 s; networkd may have    *)
(* acted on a reconfigure all the same.                                    *)

Reconfigured(i) == [live EXCEPT ![i] = file[i]]

ReloadOnly ==
  /\ pc = "reload"
  /\ (Answer(TRUE, FALSE) /\ UNCHANGED undo) \/ AfterFailure
  /\ UNCHANGED <<disk, lastTs, clock, crashes, request, k, bdir>>
Reload ==
  /\ pc = "reload"
  /\ \/ pc' = "reconfigure" /\ UNCHANGED <<undo, reply>>
     \/ AfterFailure
  /\ UNCHANGED <<disk, lastTs, clock, crashes, request, k, bdir>>

Reconfigure ==
  /\ pc = "reconfigure"
  /\ \/ /\ live' = Reconfigured(Current)
        /\ \/ k < Len(req.order) /\ k' = k + 1 /\ pc' = "reload" /\ UNCHANGED <<undo, reply>>
           \/ /\ k = Len(req.order) /\ UNCHANGED <<k, undo>>
              /\ IF req.action = "dns-set"
                 THEN pc' = "resolvectl" /\ UNCHANGED reply
                 ELSE Answer(TRUE, FALSE)
     \/ /\ live' \in {live, Reconfigured(Current)}
        /\ AfterFailure
        /\ UNCHANGED k
  /\ UNCHANGED <<file, backups, lastTs, clock, crashes, request, bdir>>

\* The second command of dns-set, for links with a manual override.
Resolvectl ==
  /\ pc = "resolvectl"
  /\ (Answer(TRUE, FALSE) /\ UNCHANGED undo) \/ AfterFailure
  /\ UNCHANGED <<disk, lastTs, clock, crashes, request, k, bdir>>

\* Restarting networkd applies every file; the other commands apply none.
RunArgv ==
  /\ pc = "argv"
  /\ live' \in {live, file}
  /\ \E ok \in BOOLEAN : Answer(ok, FALSE)
  /\ UNCHANGED <<file, backups, lastTs, clock, crashes, request, k, bdir, undo>>

-----------------------------------------------------------------------------
(* _rollback(): copies every file of the one directory it is given over    *)
(* the present ones, in any order and not atomically, then reconfigures    *)
(* the first interface and does not look at the result.                    *)

RollbackOpen ==
  /\ pc = "rollback" /\ undo.now = None
  /\ \E i \in undo.left :
       /\ undo' = [left |-> undo.left \ {i}, now |-> i]
       /\ file' = [file EXCEPT ![i] = Torn]
  /\ UNCHANGED <<live, backups, lastTs, clock, crashes, pc, request, k, bdir, reply>>

RollbackCopy ==
  /\ pc = "rollback" /\ undo.now # None
  /\ \E b \in FilesOf(bdir) :
       /\ b.iface = undo.now
       /\ file' = [file EXCEPT ![undo.now] = b.content]
  /\ undo' = [left |-> undo.left, now |-> None]
  /\ UNCHANGED <<live, backups, lastTs, clock, crashes, pc, request, k, bdir, reply>>

RollbackDone ==
  /\ pc = "rollback" /\ undo = NoUndo
  /\ live' \in {live, Reconfigured(req.order[1])}
  /\ Answer(FALSE, FALSE)
  /\ UNCHANGED <<file, backups, lastTs, clock, crashes, request, k, bdir, undo>>

\* An OSError of a copy: CRIT in the audit log, and the same answer.
RollbackError ==
  /\ pc = "rollback" /\ undo # NoUndo
  /\ Answer(FALSE, TRUE)
  /\ undo' = NoUndo
  /\ UNCHANGED <<disk, lastTs, clock, crashes, request, k, bdir>>

Work ==
  \/ BackupOpen \/ BackupCopy \/ BackupNone \/ Write \/ DiskError
  \/ Reload \/ Reconfigure \/ Resolvectl \/ RunArgv
  \/ RollbackOpen \/ RollbackCopy \/ RollbackDone \/ RollbackError

-----------------------------------------------------------------------------
(* The world outside: time, and the death of the process.                  *)

BackingUp == pc \in {"backup", "copying", "write"}

Tick ==
  /\ clock < MaxClock
  /\ Prompt /\ BackingUp => clock + 1 - lastTs[req.action] < Window
  /\ clock' = clock + 1
  /\ UNCHANGED <<disk, lastTs, crashes, pc, request, k, bdir, undo, reply>>

Crash ==
  /\ pc # "down" /\ crashes < MaxCrashes
  /\ crashes' = crashes + 1
  /\ pc' = "down"
  /\ k' = 1 /\ bdir' = None /\ undo' = NoUndo /\ reply' = NoReply
  /\ UNCHANGED <<disk, lastTs, clock, request>>

\* A new process: no slot is taken, nothing on disk is looked at.
Restart ==
  /\ pc = "down"
  /\ pc' = "idle"
  /\ IF Prompt THEN clock < MaxClock /\ clock' = clock + 1 ELSE UNCHANGED clock
  /\ lastTs' = [a \in Actions |-> -Window]
  /\ req' = NoReq
  /\ UNCHANGED <<disk, before, crashes, k, bdir, undo, reply>>

Init ==
  /\ file \in [Ifaces -> Contents \cup {Absent}]
  /\ live = file
  /\ backups = {}
  /\ lastTs = [a \in Actions |-> -Window]
  /\ clock = 0 /\ crashes = 0
  /\ pc = "idle"
  /\ req = NoReq
  /\ k = 1 /\ bdir = None /\ undo = NoUndo /\ reply = NoReply
  /\ before = file

Next == Accept \/ Work \/ Tick \/ Crash \/ Restart

Spec == Init /\ [][Next]_vars

\* Once begun, dispatch() goes on: every command it waits for has a timeout.
FairSpec == Spec /\ WF_vars(Work)

-----------------------------------------------------------------------------
Pcs == {"idle", "backup", "copying", "write", "reload", "reconfigure", "resolvectl", "argv",
        "rollback", "down"}

\* Every variable has its type, the loop position is within the request, and
\* what is to be written or copied is there.
TypeOK ==
  /\ file \in [Ifaces -> Texts] /\ live \in [Ifaces -> Texts] /\ before \in [Ifaces -> Texts]
  /\ backups \subseteq Backups
  /\ lastTs \in [Actions -> Int]
  /\ clock \in Nat /\ crashes \in Nat
  /\ pc \in Pcs
  /\ req.action \in AllActions \cup {"none"} /\ req.order \in Seq(Ifaces)
  /\ k \in Nat \ {0}
  /\ bdir \in (AllActions \X Nat) \cup {None}
  /\ undo \in [left : SUBSET Ifaces, now : Ifaces \cup {None}]
  /\ reply \in [ok : BOOLEAN, crit : BOOLEAN, some : BOOLEAN]
  /\ BackingUp \/ pc \in {"reload", "reconfigure"} => k <= Len(req.order)
  /\ BackingUp => req.action \in FileActions /\ Content \in Contents
  /\ pc = "copying" => bdir # None

\* "SHA-256-verified backups before every write": whatever happens to a
\* request, and after a crash too, a file that is no longer what it was when
\* the request was taken up is in a backup directory as it was
\* (server.py:190-191, 219-220, 257-258 and 356-362, interrupted anywhere).
Recoverable ==
  \A i \in Ifaces :
    file[i] # before[i] /\ before[i] # Absent =>
      \E b \in backups : b.iface = i /\ b.content = before[i]

\* "rollback on failure" (server.py:131): an answer other than ok leaves the
\* files as they were, unless the audit log has a CRIT (server.py:156-158,
\* 193-196, 229-231, 265-270).  It does not hold for a snap-restore of
\* several files: only the files of the last backup directory come back, and a
\* file that is new is not removed (219, 229-230).
FailureLeavesFiles ==
  reply.some /\ ~reply.ok /\ ~reply.crit => file = before

\* An ok answer to a request with a file means that the file says what was
\* asked and that networkd has applied it (server.py:192-197, 224-231, 259-270);
\* for net-apply only if the interface had a file before: line 193 asks for a
\* backup before it looks at the result of the reload, although net-apply is to
\* "always finish with reload + reconfigure" (6-7).
OkMeansApplied ==
  reply.ok /\ req.action \in FileActions =>
    \A i \in Range(req.order) :
      /\ file[i] = req.want[i]
      /\ live[i] = file[i] \/ (req.action = "net-apply" /\ before[i] = Absent)

\* "restore in one click" (README.md:30): after an ok answer to snap-restore
\* every file has the text it has in the snapshot.
Restored ==
  reply.ok /\ req.action = "snap-restore" =>
    \A i \in Range(req.order) : file[i] = req.want[i]

\* Every request that was taken up is answered, unless the helper dies.
Answered == pc \notin {"idle", "down"} ~> pc \in {"idle", "down"}

-----------------------------------------------------------------------------
(* Why Recoverable holds, and why a rollback touches no other request's    *)
(* file: the 30 s slot of an action keeps two of its requests from taking  *)
(* backups in the same second, which share a directory.                    *)

\* The backups the request in work has made.
Mine == {b \in backups : b.dir[1] = req.action /\ b.dir[2] >= lastTs[req.action]}

\* How many files of the request have been written.
Done == IF BackingUp THEN k - 1 ELSE Len(req.order)

\* No directory of the present second belongs to an action whose slot is free.
DirInv ==
  /\ \A a \in Actions : lastTs[a] <= clock
  /\ \A b \in backups :
       /\ b.dir[1] \in Actions /\ b.dir[2] <= clock
       /\ b.dir[2] = clock /\ pc # "down" => clock < lastTs[b.dir[1]] + Window
  /\ BackingUp => clock < lastTs[req.action] + Window

\* Where the request is, and what it has left behind so far.
Working == pc \notin {"idle", "down", "argv"}
RequestInv ==
  Working =>
    /\ req.action \in Actions \ {"argv"} /\ IsInjective(req.order)
    /\ req.action # "snap-restore" => Len(req.order) = 1
    /\ req.action = "net-reload" => file = before /\ bdir = None
    /\ req.action \in TargetedActions => before[req.order[1]] # Absent
    /\ \A i \in Ifaces : file[i] # before[i] => \E n \in 1..Done : req.order[n] = i
    /\ bdir = None /\ req.action \in FileActions =>
         /\ \A n \in 1..Done : before[req.order[n]] = Absent
         /\ pc = "write" => before[Current] = Absent

\* Nothing is answered, and a command without a file changes none, before the end.
ReplyInv == (pc # "idle" => reply = NoReply) /\ (pc = "argv" => file = before)

\* The backups of the request in work are of files it has come to, and say what
\* those said before it; a file about to be written has one (server.py:96-111).
BackupInv ==
  Working =>
    /\ bdir # None => /\ bdir[1] = req.action /\ lastTs[req.action] <= bdir[2] /\ bdir[2] <= clock
                      /\ FilesOf(bdir) # {}
    /\ \A b \in Mine :
         /\ \E n \in 1..Len(req.order) :
              /\ req.order[n] = b.iface
              /\ n <= Done \/ (n = k /\ pc \in {"copying", "write"})
         /\ b.content = before[b.iface] \/ (pc = "copying" /\ b.iface = Current /\ b.dir = bdir)
    /\ pc = "write" /\ before[Current] # Absent => \E b \in Mine : b.iface = Current

\* A rollback copies files of its own directory, and what it has copied is as it
\* was before the request (server.py:356-361).
UndoInv ==
  /\ pc # "rollback" => undo = NoUndo
  /\ pc = "rollback" =>
       /\ bdir # None
       /\ undo.left \cup {undo.now} \subseteq {b.iface : b \in FilesOf(bdir)} \cup {None}
       /\ \A b \in FilesOf(bdir) :
            b.iface \in undo.left \cup {undo.now} \/ file[b.iface] = before[b.iface]

\* The inductive invariant: a step of the dispatch pipeline, a crash or a restart
\* never leaves a changed file without its backup (server.py:96-127, 356-368).
HelperInv ==
  TypeOK /\ DirInv /\ RequestInv /\ ReplyInv /\ BackupInv /\ UndoInv /\ Recoverable

-----------------------------------------------------------------------------
(* Without snap-restore the helper implements NetConfig: until the answer  *)
(* the saved configuration counts as the old one, because a failure will   *)
(* bring it back.                                                          *)

ConfigSeen == IF pc \in {"idle", "down"} THEN file ELSE before
AnswerSeen ==
  CASE pc = "down" -> "unknown"
    [] pc # "down" /\ ~reply.some -> "none"
    [] pc # "down" /\ reply.some /\ reply.crit -> "unknown"
    [] pc # "down" /\ reply.some /\ ~reply.crit -> IF reply.ok THEN "ok" ELSE "failed"

Config == INSTANCE NetConfig WITH config <- ConfigSeen, answer <- AnswerSeen

\* To a client, a request changes one file at once or none, and an answer other
\* than ok changes none (server.py:158-167, 179-197, 233-270, 356-368).
ImplementsNetConfig == Config!Spec
=============================================================================
