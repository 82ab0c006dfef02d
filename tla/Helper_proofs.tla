--------------------------- MODULE Helper_proofs ---------------------------
(***************************************************************************)
(* Theorems about Helper, for any interfaces, file contents, actions and   *)
(* bounds.  Those that need it assume Prompt: backups are done before the  *)
(* slot of their action is free again, and a new helper is not up within   *)
(* the second of a crash.                                                  *)
(***************************************************************************)
EXTENDS Helper, FiniteSetTheorems, TLAPS

-----------------------------------------------------------------------------
(* The requests that are taken up.                                         *)

GoodRequest(a, order, want, start) ==
  /\ a \in AllActions /\ order \in Seq(Ifaces) /\ IsInjective(order)
  /\ start \in {"backup", "reload", "argv"}
  /\ start = "backup" => a \in FileActions /\ want[order[Len(order)]] \in Contents
  /\ start = "reload" => a = "net-reload"
  /\ start = "argv" <=> a = "argv"
  /\ a = "net-reload" => start = "reload"
  /\ a \in TargetedActions => file[order[1]] # Absent
  /\ start # "argv" => Len(order) >= 1 /\ (a # "snap-restore" => Len(order) = 1)

\* Every order of files that listdir() may return is a sequence of interfaces
\* without repetition, and not empty (server.py:205-208).
LEMMA OrdersAreSequences ==
  ASSUME NEW q \in Orders
  PROVE  q \in Seq(Ifaces) /\ IsInjective(q) /\ Len(q) >= 1
<1>1. Cardinality(Ifaces) \in Nat
  BY FS_CardinalityType, HelperAssumption
<1>2. PICK n \in 1..Cardinality(Ifaces) : q \in Injection(1..n, Ifaces)
  BY DEF Orders
<1>3. n \in Nat /\ n >= 1
  BY <1>1
<1>4. q \in [1..n -> Ifaces] /\ IsInjective(q)
  BY <1>2 DEF Injection
<1> QED BY <1>3, <1>4

\* A request that gets past the rate limit is a good one (server.py:145-155):
\* what validate() and the handlers' early returns let through.
LEMMA AcceptCases ==
  ASSUME Accept
  PROVE  \/ Reject
         \/ \E a \in FileActions : Refuse(a)
         \/ \E a, order, want, start :
              GoodRequest(a, order, want, start) /\ Begin(a, order, want, start)
<1> USE DEF GoodRequest, AllActions, FileActions, TargetedActions, IsInjective
<1>1. ASSUME NEW i \in Ifaces, NetReload(i)
      PROVE  GoodRequest("net-reload", <<i>>, <<>>, "reload") /\ Begin("net-reload", <<i>>, <<>>, "reload")
  BY <1>1 DEF NetReload
<1>2. ASSUME Argv
      PROVE  GoodRequest("argv", <<>>, <<>>, "argv") /\ Begin("argv", <<>>, <<>>, "argv")
  BY <1>2 DEF Argv
<1>3. ASSUME NEW i \in Ifaces, NEW c \in Contents,
             NEW a \in TargetedActions \cup {"net-apply"},
             Begin(a, <<i>>, [j \in {i} |-> c], "backup"),
             a \in TargetedActions => file[i] # Absent
      PROVE  GoodRequest(a, <<i>>, [j \in {i} |-> c], "backup")
  <2>1. Len(<<i>>) = 1 /\ <<i>>[1] = i /\ <<i>> \in Seq(Ifaces) /\ IsInjective(<<i>>)
    OBVIOUS
  <2>2. a \in FileActions /\ a # "net-reload" /\ a # "argv"
    OBVIOUS
  <2> QED BY <1>3, <2>1, <2>2
<1>4. ASSUME NEW order \in Orders, NEW want \in [Range(order) -> Contents], SnapRestore(order, want)
      PROVE  /\ GoodRequest("snap-restore", order, want, "backup")
             /\ Begin("snap-restore", order, want, "backup")
  <2>1. order \in Seq(Ifaces) /\ IsInjective(order) /\ Len(order) >= 1
    BY OrdersAreSequences
  <2>2. order[Len(order)] \in Range(order)
    BY <2>1 DEF Range
  <2> QED BY <1>4, <2>1, <2>2 DEF SnapRestore
<1> QED
  BY <1>1, <1>2, <1>3, <1>4 DEF Accept, NetApply, Targeted

-----------------------------------------------------------------------------
(* Type correctness.                                                       *)

\* The files found at the start are files (server.py:30, 181).
LEMMA TypeInit == Init => TypeOK
BY HelperAssumption DEF Init, TypeOK, Texts, NoReq, NoUndo, NoReply, Pcs, BackingUp

\* An answer has its type and ends the request (server.py:158-167).
LEMMA AnswerType ==
  ASSUME NEW ok \in BOOLEAN, NEW crit \in BOOLEAN, Answer(ok, crit)
  PROVE  pc' = "idle" /\ reply' \in [ok : BOOLEAN, crit : BOOLEAN, some : BOOLEAN]
BY DEF Answer

\* What follows a failed command has its types (server.py:193-197, 229-231).
LEMMA AfterFailureType ==
  ASSUME TypeOK, AfterFailure
  PROVE  /\ pc' \in {"idle", "rollback"}
         /\ undo' \in [left : SUBSET Ifaces, now : Ifaces \cup {None}]
         /\ reply' \in [ok : BOOLEAN, crit : BOOLEAN, some : BOOLEAN]
<1>1. \A b \in FilesOf(bdir) : b.iface \in Ifaces
  BY DEF TypeOK, Backups, FilesOf
<1>2. CASE bdir # None
  <2>1. {b.iface : b \in FilesOf(bdir)} \in SUBSET Ifaces
    BY <1>1
  <2>2. undo' = [left |-> {b.iface : b \in FilesOf(bdir)}, now |-> None] /\ reply' = reply
        /\ pc' = "rollback"
    BY <1>2 DEF AfterFailure
  <2> QED BY <2>1, <2>2 DEF TypeOK
<1>3. CASE bdir = None
  <2>1. pc' = "idle" /\ undo' = undo
        /\ reply' = [ok |-> req.action = "net-apply", crit |-> FALSE, some |-> TRUE]
    BY <1>3 DEF AfterFailure, Answer
  <2>2. (req.action = "net-apply") \in BOOLEAN
    OBVIOUS
  <2>3. reply' \in [ok : BOOLEAN, crit : BOOLEAN, some : BOOLEAN]
    BY <2>1, <2>2
  <2> QED BY <2>1, <2>3 DEF TypeOK
<1> QED BY <1>2, <1>3

\* Every step of dispatch(), the crash and the restart keep the types.
LEMMA TypeNext ==
  ASSUME TypeOK, [Next]_vars PROVE TypeOK'
<1> USE HelperAssumption DEF TypeOK, disk, request, Texts, Backups, NoUndo, Pcs, FileActions, TargetedActions, AllActions, Current, Content, BackingUp, FilesOf
<1>1. CASE Reject
  BY <1>1 DEF Reject, Answer, NoReq
<1>2. ASSUME NEW a \in FileActions, Refuse(a) PROVE TypeOK'
  BY <1>2 DEF Refuse, Answer, NoReq
<1>3. ASSUME NEW a, NEW order, NEW want, NEW start,
             GoodRequest(a, order, want, start), Begin(a, order, want, start) PROVE TypeOK'
  BY <1>3 DEF Begin, NoReply, GoodRequest
<1>4. CASE BackupOpen
  BY <1>4 DEF BackupOpen, Store
<1>5. CASE BackupCopy
  BY <1>5 DEF BackupCopy, Store
<1>6. CASE BackupNone
  BY <1>6 DEF BackupNone
<1>7. CASE Write
  BY <1>7 DEF Write
<1>8. CASE DiskError
  BY <1>8 DEF DiskError, Raise, Answer
<1>9. CASE Reload
  <2>1. CASE AfterFailure
    BY <1>9, <2>1, AfterFailureType DEF Reload
  <2>2. CASE ~AfterFailure
    BY <1>9, <2>2 DEF Reload
  <2> QED BY <2>1, <2>2
<1>10. CASE Reconfigure
  <2>1. live' \in [Ifaces -> Texts]
    BY <1>10 DEF Reconfigure, Reconfigured
  <2>2. UNCHANGED <<file, backups, lastTs, clock, crashes, request, bdir>>
    BY <1>10 DEF Reconfigure
  <2>3. CASE AfterFailure /\ UNCHANGED k
    BY <2>1, <2>2, <2>3, AfterFailureType
  <2>4. CASE k < Len(req.order) /\ k' = k + 1 /\ pc' = "reload" /\ UNCHANGED <<undo, reply>>
    BY <2>1, <2>2, <2>4
  <2>5. CASE UNCHANGED <<k, undo>> /\ pc' = "resolvectl" /\ UNCHANGED reply
    BY <2>1, <2>2, <2>5
  <2>6. CASE UNCHANGED <<k, undo>> /\ Answer(TRUE, FALSE)
    BY <2>1, <2>2, <2>6, AnswerType
  <2> QED BY <1>10, <2>3, <2>4, <2>5, <2>6 DEF Reconfigure
<1>11. CASE Resolvectl
  <2>1. UNCHANGED <<disk, lastTs, clock, crashes, request, k, bdir>>
    BY <1>11 DEF Resolvectl
  <2>2. CASE AfterFailure
    BY <2>1, <2>2, AfterFailureType
  <2>3. CASE Answer(TRUE, FALSE) /\ UNCHANGED undo
    BY <2>1, <2>3, AnswerType
  <2> QED BY <1>11, <2>2, <2>3 DEF Resolvectl
<1>12. CASE RunArgv
  BY <1>12 DEF RunArgv, Answer
<1>13. CASE RollbackOpen
  BY <1>13 DEF RollbackOpen
<1>14. CASE RollbackCopy
  BY <1>14 DEF RollbackCopy
<1>15. CASE RollbackDone
  BY <1>15 DEF RollbackDone, Answer, Reconfigured
<1>16. CASE RollbackError
  BY <1>16 DEF RollbackError, Answer
<1>17. CASE Tick
  BY <1>17 DEF Tick
<1>18. CASE Crash
  BY <1>18 DEF Crash, NoReply
<1>19. CASE Restart
  BY <1>19 DEF Restart, NoReq
<1>20. CASE UNCHANGED vars
  BY <1>20 DEF vars
<1> QED
  BY <1>1, <1>2, <1>3, <1>4, <1>5, <1>6, <1>7, <1>8, <1>9, <1>10, <1>11, <1>12, <1>13, <1>14, <1>15, <1>16, <1>17, <1>18, <1>19, <1>20, AcceptCases DEF Next, Work

\* Every variable keeps its type; the loops over the files of a request stay
\* within it (server.py:217-228).
THEOREM TypeCorrect == Spec => []TypeOK
<1> QED BY TypeInit, TypeNext, PTL DEF Spec

-----------------------------------------------------------------------------
(* Directories.                                                            *)

\* The file the request is about to write is still the one of before.
LEMMA CurrentUntouched ==
  ASSUME TypeOK, RequestInv, BackingUp
  PROVE  Current \in Ifaces /\ file[Current] = before[Current]
<1>1. k \in 1..Len(req.order) /\ Current \in Ifaces
  BY DEF TypeOK, BackingUp, Current
<1>2. \A n \in 1..Done : req.order[n] # Current
  BY <1>1 DEF RequestInv, Working, BackingUp, Done, Current, IsInjective, TypeOK
<1> QED BY <1>1, <1>2 DEF RequestInv, Working, BackingUp

\* A rollback copies nothing but the files its own request has backed up.
LEMMA OwnDirectory ==
  ASSUME TypeOK, RequestInv, BackupInv, pc = "rollback", bdir # None, NEW b \in FilesOf(bdir)
  PROVE  /\ b.iface \in Ifaces /\ b.content = before[b.iface]
         /\ \E n \in 1..Done : req.order[n] = b.iface
<1>1. b \in Mine /\ b.iface \in Ifaces
  BY DEF BackupInv, Working, FilesOf, Mine, TypeOK, Backups
<1> QED BY <1>1 DEF BackupInv, Working, Done, BackingUp

\* No step puts a backup where the next request of its action will put one.
LEMMA DirNext ==
  ASSUME Prompt, TypeOK, DirInv, RequestInv, BackupInv, [Next]_vars PROVE DirInv'
<1> USE HelperAssumption DEF TypeOK, disk, request, Texts, Backups, NoUndo, Pcs, FileActions, TargetedActions, AllActions, Current, Content, BackingUp, FilesOf, DirInv, RequestInv, BackupInv, Working, Done, Mine
<1>1. CASE Reject
  BY <1>1 DEF Reject, Answer, NoReq
<1>2. ASSUME NEW a \in FileActions, Refuse(a) PROVE DirInv'
  BY <1>2 DEF Refuse, Answer, NoReq
<1>3. ASSUME NEW a, NEW order, NEW want, NEW start,
             GoodRequest(a, order, want, start), Begin(a, order, want, start) PROVE DirInv'
  BY <1>3 DEF Begin, NoReply, GoodRequest
<1>4. CASE BackupOpen
  BY <1>4 DEF BackupOpen, Store
<1>5. CASE BackupCopy
  BY <1>5 DEF BackupCopy, Store
<1>6. CASE BackupNone
  BY <1>6 DEF BackupNone
<1>7. CASE Write
  BY <1>7 DEF Write
<1>8. CASE DiskError
  BY <1>8 DEF DiskError, Raise, Answer
<1>9. CASE Reload
  BY <1>9 DEF Reload, AfterFailure, Answer
<1>10. CASE Reconfigure
  BY <1>10 DEF Reconfigure, AfterFailure, Answer, Reconfigured
<1>11. CASE Resolvectl
  BY <1>11 DEF Resolvectl, AfterFailure, Answer
<1>12. CASE RunArgv
  BY <1>12 DEF RunArgv, Answer
<1>13. CASE RollbackOpen
  BY <1>13 DEF RollbackOpen
<1>14. CASE RollbackCopy
  BY <1>14 DEF RollbackCopy
<1>15. CASE RollbackDone
  BY <1>15 DEF RollbackDone, Answer, Reconfigured
<1>16. CASE RollbackError
  BY <1>16 DEF RollbackError, Answer
<1>17. CASE Tick
  BY <1>17 DEF Tick
<1>18. CASE Crash
  BY <1>18 DEF Crash, NoReply
<1>19. CASE Restart
  BY <1>19 DEF Restart, NoReq
<1>20. CASE UNCHANGED vars
  BY <1>20 DEF vars
<1> QED
  BY <1>1, <1>2, <1>3, <1>4, <1>5, <1>6, <1>7, <1>8, <1>9, <1>10, <1>11, <1>12, <1>13, <1>14, <1>15, <1>16, <1>17, <1>18, <1>19, <1>20, AcceptCases DEF Next, Work

\* A request changes the files it has come to, and no other.
LEMMA RequestNext ==
  ASSUME TypeOK, RequestInv, UndoInv, BackupInv, [Next]_vars PROVE RequestInv'
<1> USE HelperAssumption DEF TypeOK, disk, request, Texts, Backups, NoUndo, Pcs, FileActions, TargetedActions, AllActions, Current, Content, BackingUp, FilesOf, RequestInv, UndoInv, BackupInv, Working, Done, Mine
<1>1. CASE Reject
  BY <1>1 DEF Reject, Answer, NoReq
<1>2. ASSUME NEW a \in FileActions, Refuse(a) PROVE RequestInv'
  BY <1>2 DEF Refuse, Answer, NoReq
<1>3. ASSUME NEW a, NEW order, NEW want, NEW start,
             GoodRequest(a, order, want, start), Begin(a, order, want, start) PROVE RequestInv'
  BY <1>3 DEF Begin, NoReply, GoodRequest
<1>4. CASE BackupOpen
  BY <1>4 DEF BackupOpen, Store
<1>5. CASE BackupCopy
  BY <1>5 DEF BackupCopy, Store
<1>6. CASE BackupNone
  BY <1>6 DEF BackupNone
<1>7. CASE Write
  <2>1. k \in 1..Len(req.order) /\ Current \in Ifaces
    BY <1>7 DEF Write
  <2>2. /\ file' = [file EXCEPT ![Current] = Content] /\ UNCHANGED <<req, before, bdir>>
        /\ Working /\ BackingUp /\ Done = k - 1 /\ Done' \in {k, Len(req.order)}
    BY <1>7, <2>1 DEF Write
  <2>6. k \in 1..Done' /\ 1..Done \subseteq 1..Done' /\ req.action # "net-reload"
    BY <2>1, <2>2
  <2>3. ASSUME NEW i \in Ifaces, file'[i] # before[i] PROVE \E n \in 1..Done' : req.order[n] = i
    BY <2>1, <2>2, <2>3, <2>6
  <2>4. ASSUME bdir = None, NEW n \in 1..Done' PROVE before[req.order[n]] = Absent
    <3>1. n \in 1..Done \/ n = k
      BY <1>7, <2>1 DEF Write
    <3> QED BY <1>7, <2>4, <3>1 DEF Write
  <2>5. pc' # "write"
    BY <1>7 DEF Write
  <2> QED BY <2>2, <2>3, <2>4, <2>5, <2>6
<1>8. CASE DiskError
  BY <1>8 DEF DiskError, Raise, Answer
<1>9. CASE Reload
  BY <1>9 DEF Reload, AfterFailure, Answer
<1>10. CASE Reconfigure
  <2>1. /\ UNCHANGED <<file, before, req, bdir>> /\ Working /\ ~ BackingUp
        /\ pc' \in {"idle", "reload", "resolvectl", "rollback"}
    BY <1>10 DEF Reconfigure, AfterFailure, Answer, Reconfigured
  <2>2. Done' = Done
    BY <2>1
  <2> HIDE DEF TypeOK, BackupInv, UndoInv, Done
  <2> QED BY <2>1, <2>2
<1>11. CASE Resolvectl
  <2>1. /\ UNCHANGED <<file, before, req, bdir>> /\ Working /\ ~ BackingUp
        /\ pc' \in {"idle", "reload", "resolvectl", "rollback"}
    BY <1>11 DEF Resolvectl, AfterFailure, Answer
  <2>2. Done' = Done
    BY <2>1
  <2> HIDE DEF TypeOK, BackupInv, UndoInv, Done
  <2> QED BY <2>1, <2>2
<1>12. CASE RunArgv
  BY <1>12 DEF RunArgv, Answer
<1>13. CASE RollbackOpen
  <2>1. PICK i \in undo.left : file' = [file EXCEPT ![i] = Torn]
    BY <1>13 DEF RollbackOpen
  <2>2. UNCHANGED <<req, before, bdir, pc, k>> /\ pc = "rollback" /\ bdir # None
    BY <1>13 DEF RollbackOpen
  <2>3. PICK b \in FilesOf(bdir) : b.iface = i
    BY <2>2, None \notin Ifaces
  <2>4. i \in Ifaces /\ \E n \in 1..Done : req.order[n] = i
    <3> HIDE DEF TypeOK, RequestInv, BackupInv, UndoInv, Done, FilesOf
    <3> QED BY <2>2, <2>3, OwnDirectory
  <2>5. req.action # "net-reload"
    BY <2>2
  <2> QED BY <2>1, <2>2, <2>4, <2>5
<1>14. CASE RollbackCopy
  <2>1. PICK b \in FilesOf(bdir) : b.iface = undo.now /\ file' = [file EXCEPT ![undo.now] = b.content]
    BY <1>14 DEF RollbackCopy
  <2>2. UNCHANGED <<req, before, bdir, pc, k>> /\ pc = "rollback" /\ bdir # None
    BY <1>14 DEF RollbackCopy
  <2>3. b.iface \in Ifaces /\ \E n \in 1..Done : req.order[n] = b.iface
    <3> HIDE DEF TypeOK, RequestInv, BackupInv, UndoInv, Done, FilesOf
    <3> QED BY <2>2, OwnDirectory
  <2>4. req.action # "net-reload"
    BY <2>2
  <2> QED BY <2>1, <2>2, <2>3, <2>4
<1>15. CASE RollbackDone
  BY <1>15 DEF RollbackDone, Answer, Reconfigured
<1>16. CASE RollbackError
  BY <1>16 DEF RollbackError, Answer
<1>17. CASE Tick
  <2> HIDE DEF TypeOK, BackupInv, UndoInv
  <2> QED BY <1>17 DEF Tick
<1>18. CASE Crash
  BY <1>18 DEF Crash, NoReply
<1>19. CASE Restart
  BY <1>19 DEF Restart, NoReq
<1>20. CASE UNCHANGED vars
  <2> HIDE DEF TypeOK, BackupInv, UndoInv
  <2> QED BY <1>20 DEF vars
<1> QED
  BY <1>1, <1>2, <1>3, <1>4, <1>5, <1>6, <1>7, <1>8, <1>9, <1>10, <1>11, <1>12, <1>13, <1>14, <1>15, <1>16, <1>17, <1>18, <1>19, <1>20, AcceptCases DEF Next, Work

\* An answer ends the request.
LEMMA ReplyNext ==
  ASSUME ReplyInv, [Next]_vars PROVE ReplyInv'
<1> USE HelperAssumption DEF ReplyInv, disk, request
<1>1. CASE Reject
  BY <1>1 DEF Reject, Answer, NoReq
<1>2. ASSUME NEW a \in FileActions, Refuse(a) PROVE ReplyInv'
  BY <1>2 DEF Refuse, Answer, NoReq
<1>3. ASSUME NEW a, NEW order, NEW want, NEW start,
             GoodRequest(a, order, want, start), Begin(a, order, want, start) PROVE ReplyInv'
  BY <1>3 DEF Begin, NoReply, GoodRequest
<1>4. CASE BackupOpen
  BY <1>4 DEF BackupOpen, Store
<1>5. CASE BackupCopy
  BY <1>5 DEF BackupCopy, Store
<1>6. CASE BackupNone
  BY <1>6 DEF BackupNone
<1>7. CASE Write
  BY <1>7 DEF Write
<1>8. CASE DiskError
  BY <1>8 DEF DiskError, Raise, Answer
<1>9. CASE Reload
  BY <1>9 DEF Reload, AfterFailure, Answer
<1>10. CASE Reconfigure
  BY <1>10 DEF Reconfigure, AfterFailure, Answer, Reconfigured
<1>11. CASE Resolvectl
  BY <1>11 DEF Resolvectl, AfterFailure, Answer
<1>12. CASE RunArgv
  BY <1>12 DEF RunArgv, Answer
<1>13. CASE RollbackOpen
  BY <1>13 DEF RollbackOpen
<1>14. CASE RollbackCopy
  BY <1>14 DEF RollbackCopy
<1>15. CASE RollbackDone
  BY <1>15 DEF RollbackDone, Answer, Reconfigured
<1>16. CASE RollbackError
  BY <1>16 DEF RollbackError, Answer
<1>17. CASE Tick
  BY <1>17 DEF Tick
<1>18. CASE Crash
  BY <1>18 DEF Crash, NoReply
<1>19. CASE Restart
  BY <1>19 DEF Restart, NoReq
<1>20. CASE UNCHANGED vars
  BY <1>20 DEF vars
<1> QED
  BY <1>1, <1>2, <1>3, <1>4, <1>5, <1>6, <1>7, <1>8, <1>9, <1>10, <1>11, <1>12, <1>13, <1>14, <1>15, <1>16, <1>17, <1>18, <1>19, <1>20, AcceptCases DEF Next, Work

\* The backups of a request hold the files as they were before it.
LEMMA BackupNext ==
  ASSUME TypeOK, DirInv, RequestInv, BackupInv, [Next]_vars PROVE BackupInv'
<1> USE HelperAssumption DEF TypeOK, disk, request, Texts, Backups, NoUndo, Pcs, FileActions, TargetedActions, AllActions, Current, Content, BackingUp, FilesOf, DirInv, RequestInv, BackupInv, Working, Done, Mine
<1>1. CASE Reject
  BY <1>1 DEF Reject, Answer, NoReq
<1>2. ASSUME NEW a \in FileActions, Refuse(a) PROVE BackupInv'
  BY <1>2 DEF Refuse, Answer, NoReq
<1>3. ASSUME NEW a, NEW order, NEW want, NEW start,
             GoodRequest(a, order, want, start), Begin(a, order, want, start) PROVE BackupInv'
  BY <1>3 DEF Begin, NoReply, GoodRequest
<1>4. CASE BackupOpen
  <2> DEFINE d == <<req.action, clock>>
             new == [dir |-> d, iface |-> Current, content |-> Torn]
  <2>1. /\ pc = "backup" /\ pc' = "copying" /\ bdir' = d
        /\ UNCHANGED <<file, before, req, k, lastTs, clock>>
        /\ backups' = {b \in backups : b.dir # d \/ b.iface # Current} \cup {new}
    BY <1>4 DEF BackupOpen, Store
  <2>2. k \in 1..Len(req.order) /\ Done' = Done /\ req.action \in Actions /\ lastTs[req.action] <= clock
    BY <2>1
  <2>3. ASSUME NEW b \in Mine' PROVE
          /\ \E n \in 1..Len(req.order) : req.order[n] = b.iface /\ (n <= Done \/ n = k)
          /\ b.content = before[b.iface] \/ (b.iface = Current /\ b.dir = d)
    <3>1. CASE b = new
      BY <2>2, <3>1
    <3>2. CASE b # new
      <4>1. b \in Mine
        BY <2>1, <3>2
      <4> QED BY <2>1, <4>1
    <3> QED BY <3>1, <3>2
  <2>4. new \in FilesOf(bdir)' /\ bdir'[1] = req'.action /\ lastTs'[req'.action] <= bdir'[2] /\ bdir'[2] <= clock'
    BY <2>1, <2>2
  <2>5. \A b \in Mine' : b.content = before'[b.iface] \/ (pc' = "copying" /\ b.iface = Current' /\ b.dir = bdir')
    BY <2>1, <2>3
  <2>6. \A b \in Mine' : \E n \in 1..Len(req'.order) : req'.order[n] = b.iface /\ (n <= Done' \/ n = k')
    BY <2>1, <2>2, <2>3
  <2> HIDE DEF Mine, FilesOf, TypeOK, Done, DirInv, RequestInv
  <2> QED BY <2>1, <2>4, <2>5, <2>6
<1>5. CASE BackupCopy
  <2> DEFINE new == [dir |-> bdir, iface |-> Current, content |-> file[Current]]
  <2>1. /\ pc = "copying" /\ pc' = "write"
        /\ UNCHANGED <<file, before, req, k, lastTs, clock, bdir>>
        /\ backups' = {b \in backups : b.dir # bdir \/ b.iface # Current} \cup {new}
    BY <1>5 DEF BackupCopy, Store
  <2>2. /\ k \in 1..Len(req.order) /\ Done' = Done /\ new \in Mine'
        /\ file[Current] = before[Current]
    BY <2>1, CurrentUntouched
  <2>3. ASSUME NEW b \in Mine' PROVE
          /\ \E n \in 1..Len(req.order) : req.order[n] = b.iface /\ (n <= Done \/ n = k)
          /\ b.content = before[b.iface]
    <3>1. CASE b = new
      BY <2>2, <3>1
    <3>2. CASE b # new
      <4>1. b \in Mine /\ ~(b.iface = Current /\ b.dir = bdir)
        BY <2>1, <3>2
      <4> QED BY <2>1, <4>1
    <3> QED BY <3>1, <3>2
  <2>4. new \in FilesOf(bdir)'
    BY <2>1
  <2>5. Working /\ bdir # None => /\ bdir[1] = req.action /\ lastTs[req.action] <= bdir[2]
                                 /\ bdir[2] <= clock
    BY <2>1
  <2>6. Working /\ k \in 1..Len(req.order) /\ Working'
    BY <2>1, <2>2
  <2>7. \E b \in Mine' : b.iface = Current'
    BY <2>1, <2>2
  <2> HIDE DEF TypeOK, Done, Mine, FilesOf, RequestInv, UndoInv
  <2> QED BY <2>1, <2>2, <2>3, <2>4, <2>5, <2>6, <2>7
<1>6. CASE BackupNone
  <2>1. /\ pc = "backup" /\ pc' = "write" /\ file[Current] = Absent
        /\ UNCHANGED <<disk, req, before, k, lastTs, clock, bdir>>
    BY <1>6 DEF BackupNone
  <2>2. before[Current] = Absent
    BY <2>1, CurrentUntouched
  <2>3. Mine' = Mine /\ FilesOf(bdir)' = FilesOf(bdir) /\ Done' = Done /\ Current' = Current
    BY <2>1
  <2> QED BY <2>1, <2>2, <2>3
<1>7. CASE Write
  BY <1>7 DEF Write
<1>8. CASE DiskError
  BY <1>8 DEF DiskError, Raise, Answer
<1>9. CASE Reload
  BY <1>9 DEF Reload, AfterFailure, Answer
<1>10. CASE Reconfigure
  BY <1>10 DEF Reconfigure, AfterFailure, Answer, Reconfigured
<1>11. CASE Resolvectl
  BY <1>11 DEF Resolvectl, AfterFailure, Answer
<1>12. CASE RunArgv
  BY <1>12 DEF RunArgv, Answer
<1>13. CASE RollbackOpen
  BY <1>13 DEF RollbackOpen
<1>14. CASE RollbackCopy
  BY <1>14 DEF RollbackCopy
<1>15. CASE RollbackDone
  BY <1>15 DEF RollbackDone, Answer, Reconfigured
<1>16. CASE RollbackError
  BY <1>16 DEF RollbackError, Answer
<1>17. CASE Tick
  <2>1. Mine' = Mine /\ FilesOf(bdir)' = FilesOf(bdir) /\ Done' = Done /\ Current' = Current
    BY <1>17 DEF Tick
  <2>2. bdir # None => (bdir[2] <= clock => bdir[2] <= clock')
    BY <1>17 DEF Tick
  <2> HIDE DEF TypeOK, DirInv, RequestInv, Mine, FilesOf, Done, Current
  <2> QED BY <1>17, <2>1, <2>2 DEF Tick
<1>18. CASE Crash
  BY <1>18 DEF Crash, NoReply
<1>19. CASE Restart
  BY <1>19 DEF Restart, NoReq
<1>20. CASE UNCHANGED vars
  <2> HIDE DEF TypeOK, DirInv, RequestInv
  <2> QED BY <1>20 DEF vars
<1> QED
  BY <1>1, <1>2, <1>3, <1>4, <1>5, <1>6, <1>7, <1>8, <1>9, <1>10, <1>11, <1>12, <1>13, <1>14, <1>15, <1>16, <1>17, <1>18, <1>19, <1>20, AcceptCases DEF Next, Work

\* What a rollback has put back is as it was before the request.
LEMMA UndoNext ==
  ASSUME TypeOK, DirInv, RequestInv, BackupInv, UndoInv, [Next]_vars PROVE UndoInv'
<1> USE HelperAssumption DEF TypeOK, disk, request, Texts, Backups, NoUndo, Pcs, FileActions, TargetedActions, AllActions, Current, Content, BackingUp, FilesOf, DirInv, RequestInv, BackupInv, UndoInv, Working, Done, Mine
<1>1. CASE Reject
  BY <1>1 DEF Reject, Answer, NoReq
<1>2. ASSUME NEW a \in FileActions, Refuse(a) PROVE UndoInv'
  BY <1>2 DEF Refuse, Answer, NoReq
<1>3. ASSUME NEW a, NEW order, NEW want, NEW start,
             GoodRequest(a, order, want, start), Begin(a, order, want, start) PROVE UndoInv'
  BY <1>3 DEF Begin, NoReply, GoodRequest
<1>4. CASE BackupOpen
  BY <1>4 DEF BackupOpen, Store
<1>5. CASE BackupCopy
  BY <1>5 DEF BackupCopy, Store
<1>6. CASE BackupNone
  BY <1>6 DEF BackupNone
<1>7. CASE Write
  BY <1>7 DEF Write
<1>8. CASE DiskError
  BY <1>8 DEF DiskError, Raise, Answer
<1>9. CASE Reload
  BY <1>9 DEF Reload, AfterFailure, Answer
<1>10. CASE Reconfigure
  BY <1>10 DEF Reconfigure, AfterFailure, Answer, Reconfigured
<1>11. CASE Resolvectl
  BY <1>11 DEF Resolvectl, AfterFailure, Answer
<1>12. CASE RunArgv
  BY <1>12 DEF RunArgv, Answer
<1>13. CASE RollbackOpen
  BY <1>13 DEF RollbackOpen
<1>14. CASE RollbackCopy
  <2>1. PICK b \in FilesOf(bdir) : b.iface = undo.now /\ file' = [file EXCEPT ![undo.now] = b.content]
    BY <1>14 DEF RollbackCopy
  <2>2. /\ UNCHANGED <<req, before, bdir, pc, k, backups>> /\ pc = "rollback" /\ bdir # None
        /\ undo' = [left |-> undo.left, now |-> None]
    BY <1>14 DEF RollbackCopy
  <2>3. b.iface \in Ifaces /\ b.content = before[b.iface]
    BY <2>2, OwnDirectory
  <2>4. ASSUME NEW c \in FilesOf(bdir), c.iface \notin undo.left \cup {None}
        PROVE  file'[c.iface] = before[c.iface]
    <3>1. c.iface \in Ifaces
      BY <2>2, OwnDirectory
    <3> QED BY <2>1, <2>2, <2>3, <2>4, <3>1
  <2> QED BY <2>2, <2>4
<1>15. CASE RollbackDone
  BY <1>15 DEF RollbackDone, Answer, Reconfigured
<1>16. CASE RollbackError
  BY <1>16 DEF RollbackError, Answer
<1>17. CASE Tick
  <2> HIDE DEF TypeOK, DirInv, RequestInv, BackupInv
  <2> QED BY <1>17 DEF Tick
<1>18. CASE Crash
  BY <1>18 DEF Crash, NoReply
<1>19. CASE Restart
  BY <1>19 DEF Restart, NoReq
<1>20. CASE UNCHANGED vars
  <2> HIDE DEF TypeOK, DirInv, RequestInv, BackupInv
  <2> QED BY <1>20 DEF vars
<1> QED
  BY <1>1, <1>2, <1>3, <1>4, <1>5, <1>6, <1>7, <1>8, <1>9, <1>10, <1>11, <1>12, <1>13, <1>14, <1>15, <1>16, <1>17, <1>18, <1>19, <1>20, AcceptCases DEF Next, Work

\* No step loses the only copy of a file.
LEMMA RecoverableNext ==
  ASSUME TypeOK, DirInv, RequestInv, BackupInv, UndoInv, Recoverable, [Next]_vars PROVE Recoverable'
<1> USE HelperAssumption DEF TypeOK, disk, request, Texts, Backups, NoUndo, Pcs, FileActions, TargetedActions, AllActions, Current, Content, BackingUp, FilesOf, DirInv, RequestInv, BackupInv, UndoInv, Recoverable, Working, Done, Mine
<1>1. CASE Reject
  BY <1>1 DEF Reject, Answer, NoReq
<1>2. ASSUME NEW a \in FileActions, Refuse(a) PROVE Recoverable'
  BY <1>2 DEF Refuse, Answer, NoReq
<1>3. ASSUME NEW a, NEW order, NEW want, NEW start,
             GoodRequest(a, order, want, start), Begin(a, order, want, start) PROVE Recoverable'
  BY <1>3 DEF Begin, NoReply, GoodRequest
<1>4. CASE BackupOpen
  <2>1. /\ UNCHANGED <<file, before>>
        /\ \A b \in backups : b.iface # Current => b \in backups'
    BY <1>4 DEF BackupOpen, Store
  <2>2. file[Current] = before[Current]
    BY <1>4, CurrentUntouched DEF BackupOpen
  <2> QED BY <2>1, <2>2
<1>5. CASE BackupCopy
  <2>1. /\ UNCHANGED <<file, before>>
        /\ \A b \in backups : b.iface # Current => b \in backups'
    BY <1>5 DEF BackupCopy, Store
  <2>2. file[Current] = before[Current]
    BY <1>5, CurrentUntouched DEF BackupCopy
  <2> QED BY <2>1, <2>2
<1>6. CASE BackupNone
  BY <1>6 DEF BackupNone
<1>7. CASE Write
  BY <1>7 DEF Write
<1>8. CASE DiskError
  <2>1. UNCHANGED <<before, backups>> /\ BackingUp
    BY <1>8 DEF DiskError
  <2>2. CASE UNCHANGED file
    BY <2>1, <2>2
  <2>3. CASE pc = "write" /\ file' = [file EXCEPT ![Current] = Content]
    <3>1. before[Current] # Absent => \E b \in Mine : b.iface = Current /\ b.content = before[Current]
      BY <2>3
    <3>2. Mine \subseteq backups
      OBVIOUS
    <3> QED BY <2>1, <2>3, <3>1, <3>2
  <2> QED BY <1>8, <2>2, <2>3 DEF DiskError
<1>9. CASE Reload
  BY <1>9 DEF Reload, AfterFailure, Answer
<1>10. CASE Reconfigure
  BY <1>10 DEF Reconfigure, AfterFailure, Answer, Reconfigured
<1>11. CASE Resolvectl
  BY <1>11 DEF Resolvectl, AfterFailure, Answer
<1>12. CASE RunArgv
  BY <1>12 DEF RunArgv, Answer
<1>13. CASE RollbackOpen
  <2>1. PICK i \in undo.left : file' = [file EXCEPT ![i] = Torn]
    BY <1>13 DEF RollbackOpen
  <2>2. UNCHANGED <<before, backups>> /\ pc = "rollback" /\ bdir # None
    BY <1>13 DEF RollbackOpen
  <2>5. i # None
    <3>1. undo.left \subseteq Ifaces
      BY DEF TypeOK
    <3> QED BY <3>1, None \notin Ifaces
  <2>3. PICK b \in FilesOf(bdir) : b.iface = i
    BY <2>2, <2>5
  <2>4. b \in backups /\ b.content = before[i]
    BY <2>2, <2>3, OwnDirectory
  <2> QED BY <2>1, <2>2, <2>3, <2>4
<1>14. CASE RollbackCopy
  <2>1. PICK b \in FilesOf(bdir) : file' = [file EXCEPT ![b.iface] = b.content]
    <3> HIDE DEF TypeOK, DirInv, RequestInv, BackupInv, UndoInv, Recoverable, FilesOf
    <3> QED BY <1>14 DEF RollbackCopy
  <2>2. UNCHANGED <<before, backups>> /\ pc = "rollback" /\ bdir # None
    <3>1. undo.now # None
      BY <1>14 DEF RollbackCopy
    <3> QED BY <1>14, <3>1 DEF RollbackCopy
  <2>3. b.iface \in Ifaces /\ b.content = before[b.iface]
    BY <2>2, OwnDirectory
  <2>4. \A i \in Ifaces : file'[i] # before[i] => file[i] # before[i]
    BY <2>1, <2>3
  <2> QED BY <2>2, <2>4
<1>15. CASE RollbackDone
  BY <1>15 DEF RollbackDone, Answer, Reconfigured
<1>16. CASE RollbackError
  BY <1>16 DEF RollbackError, Answer
<1>17. CASE Tick
  BY <1>17 DEF Tick
<1>18. CASE Crash
  BY <1>18 DEF Crash, NoReply
<1>19. CASE Restart
  BY <1>19 DEF Restart, NoReq
<1>20. CASE UNCHANGED vars
  BY <1>20 DEF vars
<1> QED
  BY <1>1, <1>2, <1>3, <1>4, <1>5, <1>6, <1>7, <1>8, <1>9, <1>10, <1>11, <1>12, <1>13, <1>14, <1>15, <1>16, <1>17, <1>18, <1>19, <1>20, AcceptCases DEF Next, Work

\* The invariant that explains the others (server.py:96-127, 356-368).
THEOREM HelperInvariant ==
  ASSUME Prompt
  PROVE  Spec => []HelperInv
<1>1. Init => HelperInv
  <2> SUFFICES ASSUME Init PROVE HelperInv
    OBVIOUS
  <2>1. TypeOK /\ Recoverable
    BY TypeInit DEF Init, Recoverable
  <2>2. DirInv /\ RequestInv /\ ReplyInv /\ BackupInv /\ UndoInv
    BY HelperAssumption DEF Init, DirInv, RequestInv, ReplyInv, BackupInv, UndoInv, Working, BackingUp
  <2> QED BY <2>1, <2>2 DEF HelperInv
<1>2. HelperInv /\ [Next]_vars => HelperInv'
  BY TypeNext, DirNext, RequestNext, ReplyNext, BackupNext, UndoNext, RecoverableNext DEF HelperInv
<1> QED BY <1>1, <1>2, PTL DEF Spec

\* Whatever happens to a request, wherever the helper dies, a file that is not
\* what it was before is still in a backup directory (server.py:190-191,
\* 219-220, 257-258, 356-362).
THEOREM AlwaysRecoverable ==
  ASSUME Prompt
  PROVE  Spec => []Recoverable
<1>1. HelperInv => Recoverable
  BY DEF HelperInv
<1> QED BY <1>1, HelperInvariant, PTL

-----------------------------------------------------------------------------
(* Requests about one interface.                                           *)

\* A rollback that came to its end has undone the request (server.py:356-362).
LEMMA RolledBack ==
  ASSUME HelperInv, pc = "rollback", undo = NoUndo, req.action # "snap-restore"
  PROVE  file = before
<1> USE HelperAssumption DEF HelperInv, TypeOK, Backups
<1>1. PICK b \in FilesOf(bdir) : TRUE
  BY DEF UndoInv, BackupInv, Working
<1>2. b.iface \in Ifaces /\ file[b.iface] = before[b.iface] /\ \E n \in 1..Done : req.order[n] = b.iface
  BY <1>1, OwnDirectory DEF UndoInv, NoUndo
<1>3. Done = 1
  BY DEF RequestInv, Working, Done, BackingUp
<1>4. \A i \in Ifaces : file[i] = before[i]
  BY <1>2, <1>3 DEF RequestInv, Working
<1> QED BY <1>4

\* Without a backup there was no file, or no file was written.
LEMMA NoBackup ==
  ASSUME HelperInv, pc \in {"reload", "reconfigure", "resolvectl"}, bdir = None,
         req.action # "snap-restore", req.action # "net-apply"
  PROVE  file = before
<1> USE HelperAssumption DEF HelperInv, TypeOK, RequestInv, Working, Done, BackingUp
<1>1. req.action \in {"net-reload"} \cup TargetedActions
  BY DEF AllActions, FileActions, TargetedActions
<1>2. CASE req.action = "net-reload"
  BY <1>2
<1>3. CASE req.action \in TargetedActions
  <2>1. Len(req.order) = 1 /\ before[req.order[1]] # Absent /\ req.action \in FileActions
    BY <1>3 DEF FileActions, TargetedActions
  <2> QED BY <2>1
<1> QED BY <1>1, <1>2, <1>3

\* An answer that is not ok comes from a request that has written nothing, or
\* after a rollback that came to its end (server.py:158-167, 193-197, 265-270).
LEMMA FailureNext ==
  ASSUME HelperInv, "snap-restore" \notin Actions, FailureLeavesFiles, [Next]_vars
  PROVE  FailureLeavesFiles'
<1> USE HelperAssumption DEF FailureLeavesFiles, disk, request, NoReply
<1>1. /\ pc # "idle" => reply = NoReply
      /\ pc = "argv" => file = before
      /\ Working => req.action # "snap-restore"
  BY DEF HelperInv, RequestInv, ReplyInv, Working
<1>2. ASSUME Accept PROVE FailureLeavesFiles'
  <2>1. CASE Reject
    BY <2>1 DEF Reject, Answer
  <2>2. ASSUME NEW a \in FileActions, Refuse(a) PROVE FailureLeavesFiles'
    BY <2>2 DEF Refuse, Answer
  <2>3. ASSUME NEW a, NEW order, NEW want, NEW start, Begin(a, order, want, start)
        PROVE  FailureLeavesFiles'
    BY <2>3 DEF Begin
  <2> QED BY <1>2, <2>1, <2>2, <2>3, AcceptCases
<1>3. CASE BackupOpen \/ BackupCopy \/ BackupNone \/ Write \/ RollbackOpen \/ RollbackCopy
  BY <1>1, <1>3 DEF BackupOpen, BackupCopy, BackupNone, Write, RollbackOpen, RollbackCopy
<1>4. CASE DiskError
  BY <1>4 DEF DiskError, Raise, Answer
<1>5. ASSUME AfterFailure, pc \in {"reload", "reconfigure", "resolvectl"}, UNCHANGED <<file, before>>
      PROVE  FailureLeavesFiles'
  <2>1. CASE bdir # None
    BY <1>1, <1>5, <2>1 DEF AfterFailure
  <2>2. CASE bdir = None /\ req.action = "net-apply"
    <3>1. reply' = [ok |-> req.action = "net-apply", crit |-> FALSE, some |-> TRUE]
      BY <1>5, <2>2 DEF AfterFailure, Answer
    <3>2. (req.action = "net-apply") = TRUE
      BY <2>2
    <3>3. reply'.ok
      BY <3>1, <3>2
    <3> QED BY <3>3
  <2>3. CASE bdir = None /\ req.action # "net-apply"
    <3>1. file = before
      BY <1>1, <1>5, <2>3, NoBackup DEF Working
    <3> QED BY <1>5, <3>1
  <2> QED BY <2>1, <2>2, <2>3
<1>6. CASE Reload
  BY <1>1, <1>5, <1>6 DEF Reload
<1>7. CASE Reconfigure
  BY <1>1, <1>5, <1>7 DEF Reconfigure, Answer
<1>8. CASE Resolvectl
  BY <1>1, <1>5, <1>8 DEF Resolvectl, Answer
<1>9. CASE RunArgv
  BY <1>1, <1>9 DEF RunArgv
<1>10. CASE RollbackDone
  <2>1. file = before
    BY <1>1, <1>10, RolledBack DEF RollbackDone, Working
  <2> QED BY <1>10, <2>1 DEF RollbackDone
<1>11. CASE RollbackError
  BY <1>11 DEF RollbackError, Answer
<1>12. CASE Tick \/ Restart \/ UNCHANGED vars
  BY <1>12 DEF Tick, Restart, vars
<1>13. CASE Crash
  BY <1>13 DEF Crash
<1> QED
  BY <1>2, <1>3, <1>4, <1>6, <1>7, <1>8, <1>9, <1>10, <1>11, <1>12, <1>13 DEF Next, Work

\* "rollback on failure" (server.py:131): without snap-restore, an answer that
\* is not ok and not in the audit log as critical leaves the files alone.
THEOREM FailureIsUndone ==
  ASSUME Prompt, "snap-restore" \notin Actions
  PROVE  Spec => []FailureLeavesFiles
<1>1. Init => FailureLeavesFiles
  BY DEF Init, NoReply, FailureLeavesFiles
<1>2. HelperInv /\ FailureLeavesFiles /\ [Next]_vars => FailureLeavesFiles'
  BY FailureNext
<1> QED BY <1>1, <1>2, HelperInvariant, PTL DEF Spec

\* What the pipeline holds on its way to an answer, for requests about one file:
\* from the first command on the file says what was asked, and before the second
\* one networkd has applied it.
OkInv ==
  /\ OkMeansApplied
  /\ pc = "argv" => req.action = "argv"
  /\ pc \in {"reload", "reconfigure", "resolvectl"} /\ req.action \in FileActions =>
       file[req.order[1]] = req.want[req.order[1]]
  /\ pc = "resolvectl" => live[req.order[1]] = file[req.order[1]]

\* An ok comes after the last command, or after a failed one when there was no
\* file to go back to (server.py:192-197, 259-270).
LEMMA OkNext ==
  ASSUME HelperInv, "snap-restore" \notin Actions, OkInv, [Next]_vars
  PROVE  OkInv'
<1> USE HelperAssumption DEF OkInv, disk, request, NoReply
<1>1. /\ pc # "idle" => ~reply.ok
      /\ Working => /\ req.action # "snap-restore" /\ req.order \in Seq(Ifaces)
                    /\ req.action # "argv" => Len(req.order) = 1
      /\ Working => req.action # "argv"
      /\ file \in [Ifaces -> Texts] /\ live \in [Ifaces -> Texts]
  BY DEF HelperInv, RequestInv, ReplyInv, Working, TypeOK
<1>2. ASSUME Working PROVE req.order[1] \in Ifaces /\ Range(req.order) = {req.order[1]}
  <2>1. DOMAIN req.order = {1}
    BY <1>1, <1>2
  <2> QED BY <1>1, <1>2, <2>1 DEF Range
<1>3. ASSUME Accept PROVE OkInv'
  <2>1. CASE Reject
    BY <2>1 DEF Reject, Answer, OkMeansApplied
  <2>2. ASSUME NEW a \in FileActions, Refuse(a) PROVE OkInv'
    BY <2>2 DEF Refuse, Answer, OkMeansApplied
  <2>3. ASSUME NEW a, NEW order, NEW want, NEW start, GoodRequest(a, order, want, start),
               Begin(a, order, want, start)
        PROVE  OkInv'
    BY <2>3 DEF Begin, GoodRequest, OkMeansApplied, FileActions, TargetedActions
  <2> QED BY <1>3, <2>1, <2>2, <2>3, AcceptCases
<1>4. CASE BackupOpen \/ BackupCopy \/ BackupNone \/ RollbackOpen \/ RollbackCopy
  BY <1>1, <1>4 DEF BackupOpen, BackupCopy, BackupNone, RollbackOpen, RollbackCopy, OkMeansApplied
<1>5. CASE Write
  <2>1. k = 1 /\ Len(req.order) = 1 /\ Current = req.order[1] /\ Content = req.want[req.order[1]]
    BY <1>1, <1>5 DEF Write, HelperInv, TypeOK, BackingUp, Working, Current, Content
  <2>2. pc' = "reload" /\ file'[req.order[1]] = req.want[req.order[1]] /\ ~reply.ok
        /\ UNCHANGED <<req, reply>>
    BY <1>1, <1>2, <1>5, <2>1 DEF Write, Working
  <2> QED BY <2>2 DEF OkMeansApplied
<1>6. CASE DiskError
  BY <1>6 DEF DiskError, Raise, Answer, OkMeansApplied
<1>7. ASSUME AfterFailure, pc \in {"reload", "reconfigure", "resolvectl"},
             UNCHANGED <<file, before, req>>
      PROVE  OkInv'
  <2>1. CASE bdir # None
    BY <1>1, <1>7, <2>1 DEF AfterFailure, OkMeansApplied
  <2>2. CASE bdir = None /\ req.action = "net-apply"
    <3>1. before[req.order[1]] = Absent /\ req.action \in FileActions
      BY <1>1, <1>7, <2>2 DEF HelperInv, RequestInv, Working, Done, BackingUp, FileActions
    <3>2. file'[req.order[1]] = req'.want[req.order[1]] /\ pc' = "idle"
      BY <1>7, <2>2, <3>1 DEF AfterFailure, Answer
    <3> QED BY <1>2, <1>7, <2>2, <3>1, <3>2 DEF OkMeansApplied, Working
  <2>3. CASE bdir = None /\ req.action # "net-apply"
    <3>1. reply' = [ok |-> req.action = "net-apply", crit |-> FALSE, some |-> TRUE] /\ pc' = "idle"
      BY <1>7, <2>3 DEF AfterFailure, Answer
    <3>2. (req.action = "net-apply") = FALSE
      BY <2>3
    <3>3. ~reply'.ok
      BY <3>1, <3>2
    <3> QED BY <3>1, <3>3 DEF OkMeansApplied
  <2> QED BY <2>1, <2>2, <2>3
<1>8. ASSUME Answer(TRUE, FALSE), pc \in {"reconfigure", "resolvectl"},
             UNCHANGED <<file, before, req>>,
             live'[req.order[1]] = file[req.order[1]]
      PROVE  OkInv'
  <2>1. pc' = "idle" /\ (req.action \in FileActions =>
                           file'[req.order[1]] = req'.want[req.order[1]])
    BY <1>8 DEF Answer
  <2> QED BY <1>2, <1>8, <2>1 DEF OkMeansApplied, Working
<1>9. CASE Reload
  <2>1. CASE AfterFailure
    BY <1>7, <1>9, <2>1 DEF Reload
  <2>2. CASE pc' = "reconfigure" /\ UNCHANGED reply
    BY <1>1, <1>9, <2>2 DEF Reload, OkMeansApplied
  <2> QED BY <1>9, <2>1, <2>2 DEF Reload
<1>10. CASE Reconfigure
  <2>1. k = 1 /\ Len(req.order) = 1 /\ Current = req.order[1]
    <3>1. pc = "reconfigure" /\ Len(req.order) = 1
      BY <1>1, <1>10 DEF Reconfigure, Working
    <3>2. k \in Nat \ {0} /\ k <= Len(req.order)
      BY <3>1 DEF HelperInv, TypeOK
    <3> QED BY <3>1, <3>2 DEF Current
  <2>2. CASE AfterFailure
    BY <1>7, <1>10, <2>2 DEF Reconfigure
  <2>3. CASE live' = Reconfigured(Current) /\ ~AfterFailure
    <3>1. live'[req.order[1]] = file[req.order[1]]
      BY <1>1, <1>2, <1>10, <2>1, <2>3 DEF Reconfigured, Reconfigure, Working
    <3>2. CASE Answer(TRUE, FALSE)
      BY <1>8, <1>10, <3>1, <3>2 DEF Reconfigure
    <3>3. CASE pc' = "resolvectl" /\ UNCHANGED reply
      BY <1>1, <1>10, <3>1, <3>3 DEF Reconfigure, OkMeansApplied
    <3>4. Answer(TRUE, FALSE) \/ (pc' = "resolvectl" /\ UNCHANGED reply)
      <4>1. ~ (k < Len(req.order))
        BY <2>1
      <4> HIDE DEF OkInv
      <4>2. IF req.action = "dns-set"
            THEN pc' = "resolvectl" /\ UNCHANGED reply ELSE Answer(TRUE, FALSE)
        BY <1>10, <2>3, <4>1 DEF Reconfigure
      <4> QED BY <4>2
    <3> QED BY <3>2, <3>3, <3>4
  <2> QED BY <1>10, <2>2, <2>3 DEF Reconfigure
<1>11. CASE Resolvectl
  <2>1. CASE AfterFailure
    BY <1>7, <1>11, <2>1 DEF Resolvectl
  <2>2. CASE Answer(TRUE, FALSE)
    BY <1>8, <1>11, <2>2 DEF Resolvectl
  <2> QED BY <1>11, <2>1, <2>2 DEF Resolvectl
<1>12. CASE RunArgv
  BY <1>12 DEF RunArgv, Answer, OkMeansApplied, FileActions, TargetedActions
<1>13. CASE RollbackDone \/ RollbackError
  BY <1>13 DEF RollbackDone, RollbackError, Answer, OkMeansApplied
<1>14. CASE Tick \/ UNCHANGED vars
  BY <1>14 DEF Tick, vars, OkMeansApplied
<1>15. CASE Crash \/ Restart
  BY <1>1, <1>15 DEF Crash, Restart, OkMeansApplied
<1> HIDE DEF OkInv
<1> QED
  BY <1>3, <1>4, <1>5, <1>6, <1>9, <1>10, <1>11, <1>12, <1>13, <1>14, <1>15 DEF Next, Work

\* Without snap-restore, an ok to a request with a file is true: the file says
\* what was asked, and networkd has applied it, but for a net-apply to an
\* interface that had no file (server.py:192-197, 259-270).
THEOREM OkIsApplied ==
  ASSUME Prompt, "snap-restore" \notin Actions
  PROVE  Spec => []OkMeansApplied
<1>1. Init => OkInv
  BY DEF Init, NoReply, OkInv, OkMeansApplied
<1>2. HelperInv /\ OkInv /\ [Next]_vars => OkInv'
  BY OkNext
<1>3. OkInv => OkMeansApplied
  BY DEF OkInv
<1> QED BY <1>1, <1>2, <1>3, HelperInvariant, PTL DEF Spec

-----------------------------------------------------------------------------
(* Helper implements NetConfig.                                            *)

\* A request without a snapshot changes the file of one interface at most.
LEMMA OneFile ==
  ASSUME HelperInv, Working, req.action # "snap-restore"
  PROVE  \E i \in Ifaces : file = [before EXCEPT ![i] = file[i]]
<1>1. Len(req.order) = 1 /\ req.order[1] \in Ifaces
  BY DEF HelperInv, RequestInv, TypeOK
<1>2. Done \in 0..1
  BY <1>1 DEF HelperInv, TypeOK, Done, BackingUp
<1>3. \A i \in Ifaces : i # req.order[1] => file[i] = before[i]
  BY <1>1, <1>2 DEF HelperInv, RequestInv
<1> QED BY <1>1, <1>3 DEF HelperInv, TypeOK

\* What a success or a doubtful end shows of the files, once the request is over.
Over(i) == ConfigSeen' = [ConfigSeen EXCEPT ![i] = ConfigSeen'[i]] /\ ConfigSeen'[i] \in Texts

\* A request that ends, or whose helper dies, with the files as they are.
LEMMA EndSeen ==
  ASSUME HelperInv, Working, req.action # "snap-restore",
         UNCHANGED <<file, before>>, pc' \in {"idle", "down"}
  PROVE  \E i \in Ifaces : Over(i)
<1>1. PICK i \in Ifaces : file = [before EXCEPT ![i] = file[i]]
  BY OneFile
<1>2. ConfigSeen' = file /\ ConfigSeen = before
  BY DEF ConfigSeen, Working
<1>3. file[i] \in Texts
  BY DEF HelperInv, TypeOK
<1> QED BY <1>1, <1>2, <1>3 DEF Over

\* Every step of dispatch() is a step of NetConfig or changes neither the
\* configuration nor the answer a client sees.
LEMMA RefinementNext ==
  ASSUME HelperInv, "snap-restore" \notin Actions, [Next]_vars
  PROVE  [Config!Next]_<<ConfigSeen, AnswerSeen>>
<1> USE DEF disk, request, NoReply
<1>1. /\ pc # "idle" => reply = NoReply
      /\ pc = "argv" => file = before
      /\ Working => req.action # "snap-restore"
  BY DEF HelperInv, RequestInv, ReplyInv, Working
<1>2. ASSUME AnswerSeen' = "none", UNCHANGED ConfigSeen PROVE Config!Next
  BY <1>2 DEF Config!Next, Config!Take
<1>3. ASSUME AnswerSeen' = "failed", UNCHANGED ConfigSeen PROVE Config!Next
  BY <1>3 DEF Config!Next, Config!Fail
<1>4. ASSUME AnswerSeen' \in {"ok", "unknown"},
             UNCHANGED ConfigSeen \/ \E i \in Ifaces : Over(i)
      PROVE  Config!Next
  BY <1>4 DEF Config!Next, Config!Succeed, Config!Doubt, Over, Texts
<1>5. ASSUME Accept PROVE Config!Next
  <2>1. CASE Reject
    <3>1. AnswerSeen' = "failed" /\ UNCHANGED ConfigSeen
      BY <2>1 DEF Reject, Answer, AnswerSeen, ConfigSeen
    <3> QED BY <3>1, <1>3
  <2>2. ASSUME NEW a \in FileActions, Refuse(a) PROVE Config!Next
    <3>1. AnswerSeen' = "failed" /\ UNCHANGED ConfigSeen
      BY <2>2 DEF Refuse, Answer, AnswerSeen, ConfigSeen
    <3> QED BY <3>1, <1>3
  <2>3. ASSUME NEW a, NEW order, NEW want, NEW start,
               GoodRequest(a, order, want, start), Begin(a, order, want, start)
        PROVE  Config!Next
    <3>1. AnswerSeen' = "none" /\ UNCHANGED ConfigSeen
      BY <2>3 DEF Begin, GoodRequest, AnswerSeen, ConfigSeen
    <3> QED BY <3>1, <1>2
  <2> QED BY <1>5, <2>1, <2>2, <2>3, AcceptCases
<1>6. ASSUME Working, Working', UNCHANGED <<before, reply>> PROVE UNCHANGED <<ConfigSeen, AnswerSeen>>
  BY <1>6 DEF Working, ConfigSeen, AnswerSeen
<1>7. CASE BackupOpen \/ BackupCopy \/ BackupNone \/ Write \/ RollbackOpen \/ RollbackCopy
  BY <1>6, <1>7 DEF Working, BackupOpen, BackupCopy, BackupNone, Write, RollbackOpen, RollbackCopy
<1>8. ASSUME Working, Answer(TRUE, FALSE), UNCHANGED <<file, before>> PROVE Config!Next
  <2>1. AnswerSeen' = "ok"
    BY <1>8 DEF Answer, AnswerSeen
  <2>2. \E i \in Ifaces : Over(i)
    BY <1>1, <1>8, EndSeen DEF Answer
  <2> QED BY <2>1, <2>2, <1>4
<1>9. ASSUME AfterFailure, pc \in {"reload", "reconfigure", "resolvectl"}, UNCHANGED <<file, before, req>>
      PROVE  [Config!Next]_<<ConfigSeen, AnswerSeen>>
  <2>1. CASE bdir # None
    BY <1>6, <1>9, <2>1 DEF AfterFailure, Working
  <2>2. CASE bdir = None /\ req.action = "net-apply"
    <3>1. (req.action = "net-apply") = TRUE
      BY <2>2
    <3>2. Answer(TRUE, FALSE)
      BY <1>9, <2>2, <3>1 DEF AfterFailure, Answer
    <3> QED BY <1>8, <1>9, <3>2 DEF Working
  <2>3. CASE bdir = None /\ req.action # "net-apply"
    <3>1. file = before
      BY <1>1, <1>9, <2>3, NoBackup DEF Working
    <3>2. (req.action = "net-apply") = FALSE
      BY <2>3
    <3>3. Answer(FALSE, FALSE)
      BY <1>9, <2>3, <3>2 DEF AfterFailure, Answer
    <3>4. AnswerSeen' = "failed" /\ UNCHANGED ConfigSeen
      BY <1>9, <3>1, <3>3 DEF Answer, AnswerSeen, ConfigSeen
    <3> QED BY <1>3, <3>4
  <2> QED BY <2>1, <2>2, <2>3
<1>10. CASE Reload
  BY <1>6, <1>9, <1>10 DEF Reload, Working
<1>11. CASE Reconfigure
  BY <1>6, <1>8, <1>9, <1>11 DEF Reconfigure, Working
<1>12. CASE Resolvectl
  BY <1>6, <1>8, <1>9, <1>12 DEF Resolvectl, Working
<1>13. CASE RunArgv
  <2>1. PICK ok \in BOOLEAN : Answer(ok, FALSE)
    BY <1>13 DEF RunArgv
  <2>2. AnswerSeen' \in {"ok", "failed"} /\ UNCHANGED ConfigSeen
    BY <1>1, <1>13, <2>1 DEF RunArgv, Answer, AnswerSeen, ConfigSeen
  <2> QED BY <2>2, <1>3, <1>4
<1>14. CASE RollbackDone
  <2>1. file = before
    BY <1>1, <1>14, RolledBack DEF RollbackDone, Working
  <2>2. AnswerSeen' = "failed" /\ UNCHANGED ConfigSeen
    BY <1>14, <2>1 DEF RollbackDone, Answer, AnswerSeen, ConfigSeen
  <2> QED BY <2>2, <1>3
<1>15. CASE DiskError
  <2>1. AnswerSeen' = "unknown" /\ pc' = "idle" /\ UNCHANGED before /\ Working /\ BackingUp
    BY <1>15 DEF DiskError, Raise, Answer, AnswerSeen, Working, BackingUp
  <2>2. CASE UNCHANGED file
    BY <1>1, <1>4, <2>1, <2>2, EndSeen
  <2>3. CASE file' = [file EXCEPT ![Current] = Content]
    <3>1. Current \in Ifaces /\ Content \in Texts /\ Len(req.order) = 1 /\ k = 1
      <4>1. Len(req.order) = 1
        BY <1>1, <2>1 DEF HelperInv, RequestInv
      <4>2. k \in Nat \ {0} /\ k <= Len(req.order) /\ req.order \in Seq(Ifaces) /\ Content \in Contents
        BY <2>1 DEF HelperInv, TypeOK
      <4> QED BY <4>1, <4>2 DEF Current, Texts
    <3>2. \A i \in Ifaces : file[i] = before[i]
      BY <2>1, <3>1 DEF HelperInv, RequestInv, Done
    <3>3. ConfigSeen = before /\ ConfigSeen' = file'
      BY <2>1 DEF ConfigSeen, Working
    <3>4. Over(Current)
      BY <2>3, <3>1, <3>2, <3>3 DEF Over, HelperInv, TypeOK
    <3> QED BY <1>4, <2>1, <3>1, <3>4
  <2> QED BY <1>15, <2>2, <2>3 DEF DiskError
<1>16. CASE RollbackError
  <2>1. AnswerSeen' = "unknown" /\ pc' = "idle" /\ UNCHANGED <<file, before>> /\ Working
    BY <1>16 DEF RollbackError, Answer, AnswerSeen, Working
  <2> QED BY <1>1, <1>4, <2>1, EndSeen
<1>17. CASE Crash
  <2>1. AnswerSeen' = "unknown" /\ pc' = "down" /\ UNCHANGED <<file, before>>
    BY <1>17 DEF Crash, AnswerSeen
  <2>2. CASE Working
    BY <1>1, <1>4, <2>1, <2>2, EndSeen
  <2>3. CASE ~Working
    BY <1>1, <1>4, <1>17, <2>1, <2>3 DEF Crash, Working, ConfigSeen
  <2> QED BY <2>2, <2>3
<1>18. CASE Restart
  <2>1. AnswerSeen' = "none" /\ UNCHANGED ConfigSeen
    BY <1>1, <1>18 DEF Restart, AnswerSeen, ConfigSeen
  <2> QED BY <2>1, <1>2
<1>19. CASE Tick \/ UNCHANGED vars
  BY <1>19 DEF Tick, vars, ConfigSeen, AnswerSeen
<1> QED
  BY <1>5, <1>7, <1>10, <1>11, <1>12, <1>13, <1>14, <1>15, <1>16, <1>17, <1>18, <1>19 DEF Next, Work

\* The helper without snap-restore does what NetConfig promises: a request
\* changes one file at once or none, and an answer that is not ok changes none
\* (server.py:179-197, 233-270, 356-368).
THEOREM Refinement ==
  ASSUME Prompt, "snap-restore" \notin Actions
  PROVE  Spec => ImplementsNetConfig
<1>1. Init => Config!Init
  BY DEF Init, Config!Init, ConfigSeen, AnswerSeen, NoReply, Texts
<1>2. HelperInv /\ [Next]_vars => [Config!Next]_<<ConfigSeen, AnswerSeen>>
  BY RefinementNext
<1> QED BY <1>1, <1>2, HelperInvariant, PTL DEF Spec, ImplementsNetConfig, Config!Spec

=============================================================================
